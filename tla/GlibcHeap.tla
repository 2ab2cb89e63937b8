----------------------------- MODULE GlibcHeap -----------------------------
(***************************************************************************)
(* The heap of glibc, as ShadowHeap uses it.  glibc is not part of the     *)
(* repository, so this is its most general behaviour: whenever it is       *)
(* called it may move every free chunk to any list, split, merge or resize *)
(* it, give every chunk header other flags and the top chunk another size. *)
(* All it promises is that the chunks it has handed out keep their chunk   *)
(* size, and that its lists are well linked when it returns.               *)
(*                                                                         *)
(* A heap is a record                                                      *)
(*   hdr   the chunk header in memory of every chunk, [size, fd, bk]; fd   *)
(*         and bk of a chunk in use are the application's and not modelled *)
(*   top   the size field that is found through the arena's pointer to the *)
(*         top chunk                                                       *)
(*   entries, counts   the words of the tcache struct: the head and the    *)
(*         length of each bin                                              *)
(*   us    the chunks glibc has linked into the unsorted bin, first first  *)
(*   tc    the chunks glibc has linked into each tcache bin                *)
(*   live  the chunks that are handed out                                  *)
(* hdr, top, entries and counts are memory, which others may overwrite; us *)
(* and tc are what glibc meant, and agree with it when a call returns.  A  *)
(* chunk outside us, tc and live is in another list, used by someone else  *)
(* or not carved out yet: ShadowHeap never looks at it.                    *)
(***************************************************************************)
EXTENDS ChunkMeta, Sequences, SequencesExt

CONSTANTS
  Ptr,                           \* the chunks, named by their user pointer
  BIN,                           \* the unsorted bin's own pseudo-chunk
  TOP,                           \* the top chunk
  TcIdx,                         \* the indices of the tcache bins
  RawSizes,                      \* the values a size field takes
  TopSizes                       \* the values the top chunk's size takes

ASSUME HeapAssumption ==
  /\ IsFiniteSet(Ptr)
  /\ NULL \notin Ptr /\ BIN \notin Ptr /\ NULL # BIN
  /\ TOP \notin Ptr /\ TOP # BIN
  /\ TcIdx \cap (Ptr \cup {BIN, TOP}) = {}
  /\ RawSizes \subseteq Nat /\ TopSizes \subseteq Nat \ {0}

Node == Ptr \cup {BIN}
Link == Node \cup {NULL}
Header == [size : Nat, fd : Link, bk : Link]
Lists == SetToAllKPermutations(Ptr)

Heap == [hdr : [Node -> Header], top : Nat,
         entries : [TcIdx -> Link], counts : [TcIdx -> Nat],
         us : Seq(Ptr), tc : [TcIdx -> Seq(Ptr)], live : SUBSET Ptr]

-----------------------------------------------------------------------------
In(x, s) == \E i \in DOMAIN s : s[i] = x
IndexIn(x, s) == CHOOSE i \in DOMAIN s : s[i] = x

(* What glibc writes into the link fields of chunk n when us is the        *)
(* unsorted bin, a ring through BIN, and tc the singly linked tcache bins. *)
Linked(us, tc, n) ==
  LET ring == <<BIN>> \o us
      At(i) == ring[(i % Len(ring)) + 1]
      list == tc[CHOOSE t \in TcIdx : In(n, tc[t])]
      k == IndexIn(n, list)
  IN IF In(n, ring)
     THEN [fd |-> At(IndexIn(n, ring)), bk |-> At(IndexIn(n, ring) + Len(us) - 1)]
     ELSE IF \E t \in TcIdx : In(n, tc[t])
     THEN [fd |-> IF k < Len(list) THEN list[k + 1] ELSE NULL, bk |-> NULL]
     ELSE [fd |-> NULL, bk |-> NULL]

(* The ways to put some of the chunks of F on the lists, each on one.      *)
Layouts ==
  [F \in SUBSET Ptr |->
     {l \in [us : Lists, tc : [TcIdx -> Lists]] :
        \A p \in Ptr :
          /\ In(p, l.us) => p \in F /\ \A t \in TcIdx : ~In(p, l.tc[t])
          /\ \A t \in TcIdx : In(p, l.tc[t]) =>
               p \in F /\ \A t2 \in TcIdx \ {t} : ~In(p, l.tc[t2])}]

(* What is in memory where neither is of no concern: header size 0.        *)
Elsewhere(l, live) ==
  {p \in Ptr \ live : ~In(p, l.us) /\ \A t \in TcIdx : ~In(p, l.tc[t])}

HeapOf(l, size, top, live) ==
  [hdr |-> [n \in Node |-> LET k == Linked(l.us, l.tc, n)
                           IN [size |-> size[n], fd |-> k.fd, bk |-> k.bk]],
   top |-> top,
   entries |-> [t \in TcIdx |-> IF l.tc[t] = <<>> THEN NULL ELSE l.tc[t][1]],
   counts |-> [t \in TcIdx |-> Len(l.tc[t])],
   us |-> l.us, tc |-> l.tc, live |-> live]

(* The size fields glibc may leave: chunks that were and are in use keep   *)
(* their chunk size.  The word that stands where the size of BIN would be  *)
(* is another field of its malloc_state.                                   *)
Resized(l, h, live) ==
  LET seen == Ptr \ Elsewhere(l, live)
      kept == {z \in [seen -> RawSizes] : \A p \in live \cap h.live :
                 chunksize(z[p]) = chunksize(h.hdr[p].size)}
  IN {[n \in Node |-> IF n = BIN THEN word ELSE IF n \in seen THEN z[n] ELSE 0] :
        z \in kept, word \in TopSizes}

(* Every heap glibc can leave behind when it is called on heap h and the   *)
(* chunks in live are the ones in use on its return.                       *)
Rearranged(h, live) ==
  UNION {{HeapOf(l, size, top, live) : size \in Resized(l, h, live), top \in TopSizes} :
           l \in Layouts[Ptr \ live]}

(* A heap nobody has used yet.                                             *)
EmptyLayout == [us |-> <<>>, tc |-> [t \in TcIdx |-> <<>>]]
InitialHeaps ==
  {HeapOf(EmptyLayout, [n \in Node |-> IF n = BIN THEN word ELSE 0], top, {}) :
     word \in TopSizes, top \in TopSizes}

-----------------------------------------------------------------------------
(* How the rest of the process reads the tcache struct: as it is now. *)

entries(h, t) == h.entries[t]
counts(h, t) == h.counts[t]
=============================================================================
