----------------------------- MODULE ChunkMeta -----------------------------
(***************************************************************************)
(* The size field of a glibc chunk header and the comparisons ShadowHeap   *)
(* makes on it (src/src/common/malloc_meta.h).  A size field is a natural  *)
(* number whose three lowest bits are flags; the rest is the chunk size.   *)
(***************************************************************************)
EXTENDS Integers

CONSTANT NULL                    \* nullptr: never the address of a chunk

SIZE_SZ == 8                     \* sizeof(size_t) on x86-64
PREV_INUSE == 1
IS_MMAPPED == 2
NON_MAIN_ARENA == 4
SIZE_BITS == PREV_INUSE + IS_MMAPPED + NON_MAIN_ARENA

flags(size) == size % (SIZE_BITS + 1)

chunksize(size) == size - flags(size)

is_mmapped(size) == flags(size) \in {2, 3, 6, 7}

(* What an in-use chunk offers the application.  The prev_size word of the *)
(* next chunk belongs to this one, unless the chunk is mmapped.            *)
useable_sizeNoPrevSize(size) == chunksize(size) - 2 * SIZE_SZ     \* mutant
useable_size(size) ==
  IF is_mmapped(size) THEN chunksize(size) - 2 * SIZE_SZ
                      ELSE chunksize(size) - SIZE_SZ

(* How many bytes realloc copies out of a chunk when asked for len bytes.  *)
copy_this_muchAll(size, len) == useable_size(size)                \* mutant
copy_this_much(size, len) ==
  IF len < useable_size(size) THEN len ELSE useable_size(size)

-----------------------------------------------------------------------------
(* A MALLOC_META is [ptr, size] with the raw size field, flags included.   *)

EmptyMeta == [ptr |-> NULL, size |-> 0]

is_some(m) == m.ptr # NULL /\ m.size # 0

equals_ptr_size_flags(m, other) ==
  m.ptr = other.ptr /\ m.size = other.size

equals_ptr_size(m, other) ==
  m.ptr = other.ptr /\ chunksize(m.size) = chunksize(other.size)
=============================================================================
