---------------------------- MODULE ReallocCopy ----------------------------
(***************************************************************************)
(* How many bytes realloc() moves (ShadowHeapWrapper.h:107-123).  Without  *)
(* knowing what the application once asked for, the wrapper derives the    *)
(* amount from the header of the old chunk alone.  A behaviour is one such *)
(* call after another, on chunks whose headers glibc wrote.                *)
(***************************************************************************)
EXTENDS ChunkMeta

CONSTANT Requests                \* arguments of malloc() and realloc()

ASSUME CopyAssumption == Requests \subseteq Nat \ {0}

MINSIZE == 4 * SIZE_SZ
MALLOC_ALIGNMENT == 2 * SIZE_SZ
PAGE == 4096

VARIABLES
  asked,                         \* what the chunk was allocated for
  size,                          \* the raw size field of its header
  len,                           \* the request of the last realloc()
  oldasked, oldsize              \* asked and size before that call
vars == <<asked, size, len, oldasked, oldsize>>

(* glibc: the chunk for a request, from the heap or from mmap().           *)
AlignUp(n, to) == ((n + to - 1) \div to) * to
request2size(req) ==
  LET padded == AlignUp(req + SIZE_SZ, MALLOC_ALIGNMENT)
  IN IF padded < MINSIZE THEN MINSIZE ELSE padded

RawSizesFor(req) ==
  {request2size(req) + f : f \in {0, PREV_INUSE, NON_MAIN_ARENA, PREV_INUSE + NON_MAIN_ARENA}}
    \cup {AlignUp(request2size(req) + SIZE_SZ, PAGE) + IS_MMAPPED}

Init ==
  /\ asked \in Requests
  /\ size \in RawSizesFor(asked)
  /\ len = 0 /\ oldasked = 0 /\ oldsize = 0

malloc_memcpy_free_approach(req) ==
  /\ len' = req
  /\ asked' = req
  /\ size' \in RawSizesFor(req)
  /\ oldasked' = asked /\ oldsize' = size

Next == \E req \in Requests : malloc_memcpy_free_approach(req)

Spec == Init /\ [][Next]_vars

-----------------------------------------------------------------------------
Moved == copy_this_much(oldsize, len)

(* "copy_this_much <= useable_size()" of both chunks (the sanity checks of *)
(* ShadowHeapWrapper.h:116-117): the copy reads and writes inside them,    *)
(* and "useable_size and len are both non-zero" (line 119).                *)
CopyFits ==
  len # 0 => /\ Moved <= useable_size(oldsize)
             /\ Moved <= useable_size(size)
             /\ Moved > 0

(* Whatever the application may have stored survives, up to the new size.  *)
CopyKeepsData ==
  len # 0 => Moved >= IF len < oldasked THEN len ELSE oldasked
=============================================================================
