------------------------------ MODULE Ptmalloc ------------------------------
(***************************************************************************)
(* The allocator inside glibc, as far as the probes of the arena leak      *)
(* depend on its order (src/src/leak/leak.cxx): the per-thread cache, the  *)
(* fastbins, the unsorted bin, the sorted bins, and when chunks coalesce.  *)
(* glibc is not part of the repository.  Sizes and addresses count units   *)
(* of 16 bytes, and the heap is one segment that grows at the top.         *)
(*                                                                         *)
(* A heap is a record                                                      *)
(*   size    the size of every chunk below the top, by its address         *)
(*   tc, fast, us, sorted   the addresses on the lists, first first; the   *)
(*           list of one size is the subsequence of that size              *)
(*   top     where the top chunk starts                                    *)
(*   tcache_count   how many chunks a tcache bin takes; 0: no tcache       *)
(*   trims   does freeing next to the top chunk find it large, and         *)
(*           consolidate the fastbins?                                     *)
(* Left out: the last remainder, and a top chunk that is too small.        *)
(***************************************************************************)
EXTENDS Naturals, SequencesExt

CONSTANT NULL                    \* a null pointer, no address

MINSIZE == 2                     \* the smallest chunk: 0x20 bytes
MAX_FAST == 8                    \* the largest chunk of a fastbin
MAX_TCACHE == 65                 \* the largest chunk of a tcache bin
MIN_LARGE == 64                  \* from here on a request is a large one

(* The chunk that serves a request of so many bytes.                       *)
request2units(bytes) == IF bytes <= 24 THEN MINSIZE ELSE (bytes + 8 + 15) \div 16

EmptyHeap(count, trims) ==
  [size |-> [c \in {} |-> 0], tc |-> <<>>, fast |-> <<>>, us |-> <<>>,
   sorted |-> <<>>, top |-> 0, tcache_count |-> count, trims |-> trims]

In(x, s) == \E i \in DOMAIN s : s[i] = x
Only(s, S) == FoldLeft(LAMBDA t, x : IF x \in S THEN Append(t, x) ELSE t, <<>>, s)
Without(s, S) == Only(s, ToSet(s) \ S)
OfSize(h, list, n) == Only(list, {c \in DOMAIN h.size : h.size[c] = n})
InUse(h) ==
  {c \in DOMAIN h.size : ~In(c, h.tc) /\ ~In(c, h.fast) /\ ~In(c, h.us) /\ ~In(c, h.sorted)}

(* Chunks in the tcache or a fastbin do not count as free to neighbours.   *)
Coalescible(h) == {c \in DOMAIN h.size : In(c, h.us) \/ In(c, h.sorted)}

TcacheRoom(h, n) == n <= MAX_TCACHE /\ Len(OfSize(h, h.tc, n)) < h.tcache_count
Cached(h, c) ==
  [h EXCEPT !.tc = <<c>> \o @, !.fast = Without(@, {c}), !.us = Without(@, {c}),
            !.sorted = Without(@, {c})]
Taken(h, c) ==
  [h EXCEPT !.tc = Without(@, {c}), !.fast = Without(@, {c}), !.us = Without(@, {c}),
            !.sorted = Without(@, {c})]

-----------------------------------------------------------------------------
(* Chunk c joins its free neighbours, and the top chunk or the front of    *)
(* the unsorted bin.                                                       *)
Merged(h, parts, start, end) ==
  LET rest == DOMAIN h.size \ parts
  IN IF end = h.top
     THEN [h EXCEPT !.size = [b \in rest |-> h.size[b]], !.top = start,
                    !.us = Without(@, parts), !.sorted = Without(@, parts)]
     ELSE [h EXCEPT !.size = [b \in rest \cup {start} |->
                                IF b = start THEN end - start ELSE h.size[b]],
                    !.us = <<start>> \o Without(@, parts), !.sorted = Without(@, parts)]

Join(h, parts) == Merged(h, parts, Min(parts), Max({b + h.size[b] : b \in parts}))

Release(h, c) ==
  Join(h, {c} \cup {b \in Coalescible(h) : b + h.size[b] = c \/ b = c + h.size[c]})

(* Every fastbin, smallest size first, each from its head.                 *)
ReleaseAll(h, cs) == FoldLeft(Release, h, cs)
malloc_consolidate(h) ==
  FoldLeft(LAMBDA g, n : ReleaseAll(g, OfSize(h, h.fast, n)),
           [h EXCEPT !.fast = <<>>], [n \in 1..MAX_FAST |-> n])

Trimmed(r, oldtop) == IF r.trims /\ r.top # oldtop THEN malloc_consolidate(r) ELSE r

Free(h, c) ==
  IF TcacheRoom(h, h.size[c]) THEN Cached(h, c)
  ELSE IF h.size[c] <= MAX_FAST THEN [h EXCEPT !.fast = <<c>> \o @]
  ELSE Trimmed(Release(h, c), h.top)

-----------------------------------------------------------------------------
(* The answer of a request: chunk c, which leaves its list.                *)
Answer(h, c) == [heap |-> Taken(h, c), ptr |-> c]

(* The other chunks cs of the size go to the tcache while there is room.   *)
Stash(h, n, cs) ==
  FoldLeft(LAMBDA g, c : IF TcacheRoom(g, n) THEN Cached(g, c) ELSE g, h, cs)
AnswerAndStash(h, n, cs) ==
  [heap |-> Stash(Taken(h, Head(cs)), n, Tail(cs)), ptr |-> Head(cs)]

(* The unsorted bin, oldest first: chunks of the size asked for fill the   *)
(* tcache, and the first that does not fit there is the answer; the others *)
(* go to the front of their bins.                                          *)
Binned(h, c) == [h EXCEPT !.us = Without(@, {c}), !.sorted = <<c>> \o @]
SortOne(g, c, n) ==
  IF g.ptr # NULL THEN g
  ELSE IF g.heap.size[c] # n THEN [g EXCEPT !.heap = Binned(@, c)]
  ELSE IF TcacheRoom(g.heap, n) THEN [g EXCEPT !.heap = Cached(@, c)]
  ELSE Answer(g.heap, c)
OrCached(g, cached) ==
  IF g.ptr # NULL \/ cached = <<>> THEN g ELSE Answer(g.heap, Head(cached))
Sorted(g, n) == OrCached(g, OfSize(g.heap, g.heap.tc, n))
SortAll(h, n) ==
  FoldLeft(LAMBDA g, c : SortOne(g, c, n), [heap |-> h, ptr |-> NULL], Reverse(h.us))
Sort(h, n) == Sorted(SortAll(h, n), n)

(* The smallest sorted chunk that is large enough, cut to size if what is  *)
(* left is a chunk; otherwise the top chunk.                               *)
Sized(size, c, n) == [b \in DOMAIN size \cup {c} |-> IF b = c THEN n ELSE size[b]]
FromTop(h, n) ==
  [heap |-> [h EXCEPT !.size = Sized(@, h.top, n), !.top = @ + n], ptr |-> h.top]
Cut(h, n, c) ==
  IF h.size[c] < n + MINSIZE THEN Answer(h, c)
  ELSE [heap |-> [Taken(h, c) EXCEPT !.size = Sized(Sized(@, c, n), c + n, h.size[c] - n),
                                     !.us = <<c + n>> \o @],
        ptr |-> c]
BestFit(h, n) ==
  LET fit == {m \in {h.size[c] : c \in ToSet(h.sorted)} : m >= n}
  IN IF fit = {} THEN FromTop(h, n) ELSE Cut(h, n, Last(OfSize(h, h.sorted, Min(fit))))
OrBestFit(s, n) == IF s.ptr # NULL THEN s ELSE BestFit(s.heap, n)

Malloc(h, n) ==
  LET cached == OfSize(h, h.tc, n)
      fast == OfSize(h, h.fast, n)
      small == IF n < MIN_LARGE THEN Reverse(OfSize(h, h.sorted, n)) ELSE <<>>
  IN IF cached # <<>> THEN Answer(h, Head(cached))
     ELSE IF fast # <<>> THEN AnswerAndStash(h, n, fast)
     ELSE IF small # <<>> THEN AnswerAndStash(h, n, small)
     ELSE OrBestFit(Sort(IF n < MIN_LARGE THEN h ELSE malloc_consolidate(h), n), n)
=============================================================================
