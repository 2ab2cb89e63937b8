-------------------------- MODULE ShadowHeapProofs --------------------------
(***************************************************************************)
(* Type correctness of ShadowHeap, for any set of chunks, any caps and any *)
(* modes, with the type lemmas that ShadowHeapSafetyProofs builds on.  It  *)
(* rests on what holds of every heap that glibc may leave behind: it is of *)
(* its type, exactly the chunks that were asked for are in use, those in   *)
(* use before keep their size, and the lists of free chunks are linked in  *)
(* both directions and end where glibc ends them (ListsAreLinked).         *)
(***************************************************************************)
EXTENDS ShadowHeap, FiniteSetTheorems, WellFoundedInduction, TLAPS

-----------------------------------------------------------------------------
(* The heaps of glibc.                                                     *)

(* A list of distinct chunks is a sequence of chunks.                      *)
LEMMA ListsAreSequences == Lists \subseteq Seq(Ptr)
<1> SUFFICES ASSUME NEW s \in Lists PROVE s \in Seq(Ptr)
  OBVIOUS
<1>1. PICK S \in SUBSET Ptr : s \in SetToSeqs(S)
  BY DEF Lists, SetToAllKPermutations
<1>2. Cardinality(S) \in Nat
  BY HeapAssumption, FS_Subset, FS_CardinalityType
<1>3. s \in [1..Cardinality(S) -> S]
  BY <1>1 DEF SetToSeqs
<1> QED
  BY <1>2, <1>3

(* The lists of a layout are sequences of chunks.                          *)
LEMMA LayoutTypes ==
  ASSUME NEW F \in SUBSET Ptr, NEW l \in Layouts[F]
  PROVE  l.us \in Seq(Ptr) /\ l.tc \in [TcIdx -> Seq(Ptr)]
<1>1. l \in [us : Lists, tc : [TcIdx -> Lists]]
  BY DEF Layouts
<1> QED
  BY <1>1, ListsAreSequences

(* The links glibc writes point to chunks, to the bin or to NULL.          *)
LEMMA LinkedTypes ==
  ASSUME NEW us \in Seq(Ptr), NEW tc \in [TcIdx -> Seq(Ptr)], NEW n \in Node
  PROVE  Linked(us, tc, n).fd \in Link /\ Linked(us, tc, n).bk \in Link
<1> DEFINE ring == <<BIN>> \o us
           At(i) == ring[(i % Len(ring)) + 1]
           list == tc[CHOOSE t \in TcIdx : In(n, tc[t])]
           k == IndexIn(n, list)
<1>1. ring \in Seq(Node) /\ Len(ring) = Len(us) + 1
  BY DEF Node
<1>2. ASSUME NEW i \in Nat PROVE At(i) \in Node
  <2> HIDE DEF ring
  <2>1. (i % Len(ring)) + 1 \in 1..Len(ring)
    BY <1>1
  <2> QED
    BY <1>1, <2>1
<1>3. CASE In(n, ring)
  <2>1. IndexIn(n, ring) \in DOMAIN ring
    BY <1>3 DEF In, IndexIn
  <2>2. IndexIn(n, ring) \in Nat /\ IndexIn(n, ring) + Len(us) - 1 \in Nat
    <3> HIDE DEF ring
    <3> QED
      BY <2>1, <1>1
  <2>3. Linked(us, tc, n) = [fd |-> At(IndexIn(n, ring)),
                             bk |-> At(IndexIn(n, ring) + Len(us) - 1)]
    BY <1>3 DEF Linked
  <2>4. At(IndexIn(n, ring)) \in Node /\ At(IndexIn(n, ring) + Len(us) - 1) \in Node
    BY <1>2, <2>2
  <2> HIDE DEF ring, At
  <2> QED
    BY <2>3, <2>4 DEF Link
<1>4. CASE ~In(n, ring) /\ \E t \in TcIdx : In(n, tc[t])
  <2>1. list \in Seq(Ptr) /\ In(n, list)
    BY <1>4
  <2>2. k \in 1..Len(list)
    <3> HIDE DEF list
    <3> QED
      BY <2>1 DEF In, IndexIn
  <2>3. Linked(us, tc, n) = [fd |-> IF k < Len(list) THEN list[k + 1] ELSE NULL,
                             bk |-> NULL]
    BY <1>4 DEF Linked
  <2>4. (IF k < Len(list) THEN list[k + 1] ELSE NULL) \in Link
    <3> HIDE DEF list, k
    <3> QED
      BY <2>1, <2>2 DEF Link, Node
  <2> HIDE DEF list, k
  <2> QED
    BY <2>3, <2>4 DEF Link
<1>5. CASE ~In(n, ring) /\ ~\E t \in TcIdx : In(n, tc[t])
  <2>1. Linked(us, tc, n) = [fd |-> NULL, bk |-> NULL]
    BY <1>5 DEF Linked
  <2> QED
    BY <2>1 DEF Link
<1> QED
  BY <1>3, <1>4, <1>5

(* A heap built from a layout has the right type.                          *)
LEMMA HeapOfType ==
  ASSUME NEW l, l.us \in Seq(Ptr), l.tc \in [TcIdx -> Seq(Ptr)],
         NEW size \in [Node -> Nat], NEW top \in Nat, NEW live \in SUBSET Ptr
  PROVE  HeapOf(l, size, top, live) \in Heap
<1>1. ASSUME NEW n \in Node
      PROVE  [size |-> size[n], fd |-> Linked(l.us, l.tc, n).fd,
              bk |-> Linked(l.us, l.tc, n).bk] \in Header
  BY LinkedTypes DEF Header
<1>2. HeapOf(l, size, top, live).hdr \in [Node -> Header]
  BY <1>1 DEF HeapOf
<1>3. HeapOf(l, size, top, live).entries \in [TcIdx -> Link]
  <2>1. ASSUME NEW t \in TcIdx
        PROVE  (IF l.tc[t] = <<>> THEN NULL ELSE l.tc[t][1]) \in Link
    BY DEF Link, Node
  <2> QED
    BY <2>1 DEF HeapOf
<1>4. HeapOf(l, size, top, live).counts \in [TcIdx -> Nat]
  BY DEF HeapOf
<1> QED
  BY <1>2, <1>3, <1>4 DEF HeapOf, Heap

(* The sizes glibc leaves are numbers, and chunks in use keep theirs.      *)
LEMMA ResizedFacts ==
  ASSUME NEW l, NEW h, NEW live \in SUBSET Ptr, NEW size \in Resized(l, h, live)
  PROVE  /\ size \in [Node -> Nat]
         /\ \A p \in live \cap h.live : chunksize(size[p]) = chunksize(h.hdr[p].size)
<1> DEFINE seen == Ptr \ Elsewhere(l, live)
           kept == {z \in [seen -> RawSizes] : \A p \in live \cap h.live :
                      chunksize(z[p]) = chunksize(h.hdr[p].size)}
<1>1. PICK z \in kept, word \in TopSizes :
        size = [n \in Node |-> IF n = BIN THEN word ELSE IF n \in seen THEN z[n] ELSE 0]
  BY Z3 DEF Resized
<1>2. size \in [Node -> Nat]
  BY <1>1, HeapAssumption DEF Node
<1>3. ASSUME NEW p \in live \cap h.live
      PROVE  chunksize(size[p]) = chunksize(h.hdr[p].size)
  <2>1. p \in seen /\ p # BIN /\ p \in Node
    BY HeapAssumption DEF Elsewhere, Node
  <2>2. size[p] = z[p]
    BY <1>1, <2>1
  <2> QED
    BY <1>1, <2>2
<1> QED
  BY <1>2, <1>3

(* Whatever glibc does in a call leaves a heap, with the chunks in use     *)
(* that were asked for, and those of before at their chunk size.           *)
THEOREM RearrangedFacts ==
  ASSUME NEW h, NEW live \in SUBSET Ptr, NEW g \in Rearranged(h, live)
  PROVE  /\ g \in Heap
         /\ g.live = live
         /\ \A p \in live \cap h.live :
              chunksize(g.hdr[p].size) = chunksize(h.hdr[p].size)
<1>1. PICK l \in Layouts[Ptr \ live] :
        g \in {HeapOf(l, size, top, live) : size \in Resized(l, h, live), top \in TopSizes}
  BY DEF Rearranged
<1>2. PICK size \in Resized(l, h, live), top \in TopSizes : g = HeapOf(l, size, top, live)
  BY <1>1
<1>3. l.us \in Seq(Ptr) /\ l.tc \in [TcIdx -> Seq(Ptr)]
  BY <1>1, LayoutTypes
<1>4. size \in [Node -> Nat] /\ top \in Nat
  BY <1>2, ResizedFacts, HeapAssumption
<1>5. g \in Heap
  BY <1>2, <1>3, <1>4, HeapOfType
<1>6. g.live = live
  BY <1>2 DEF HeapOf
<1>7. ASSUME NEW p \in live \cap h.live
      PROVE  chunksize(g.hdr[p].size) = chunksize(h.hdr[p].size)
  <2>1. g.hdr[p].size = size[p]
    BY <1>2 DEF HeapOf, Node
  <2> QED
    BY <2>1, ResizedFacts
<1> QED
  BY <1>5, <1>6, <1>7

(* An unused heap is a heap in which nothing is in use.                    *)
THEOREM InitialHeapFacts ==
  ASSUME NEW g \in InitialHeaps
  PROVE  g \in Heap /\ g.live = {}
<1>1. PICK word \in TopSizes, top \in TopSizes :
        g = HeapOf(EmptyLayout, [n \in Node |-> IF n = BIN THEN word ELSE 0], top, {})
  BY DEF InitialHeaps
<1>2. EmptyLayout.us \in Seq(Ptr) /\ EmptyLayout.tc \in [TcIdx -> Seq(Ptr)]
  BY DEF EmptyLayout
<1>3. [n \in Node |-> IF n = BIN THEN word ELSE 0] \in [Node -> Nat] /\ top \in Nat
  BY HeapAssumption
<1>4. g \in Heap
  BY <1>1, <1>2, <1>3, HeapOfType
<1> QED
  BY <1>1, <1>4 DEF HeapOf

-----------------------------------------------------------------------------
(* A set of numbers has a least one.                                       *)
LEMMA LeastNumber ==
  ASSUME NEW S \in SUBSET Nat, S # {}
  PROVE  \E n \in S : \A m \in S : n <= m
<1> DEFINE R == {ss \in Nat \X Nat : ss[1] < ss[2]}
<1>1. IsWellFoundedOn(R, Nat)
  BY NatLessThanWellFounded, Zenon DEF OpToRel
<1>2. PICK n \in S : \A m \in S : ~ (<<m, n>> \in R)
  <2> HIDE DEF R
  <2> QED
    BY WFMin, <1>1, Zenon
<1>3. \A m \in S : ~(m < n)
  BY <1>2
<1> QED
  BY <1>3

-----------------------------------------------------------------------------
(* The lists as a loop along fd finds them.                                *)

Ring(us) == us \o <<BIN>>

(* Links of the free chunks of heap h, as glibc leaves them.               *)
UnsortedLinked(h) ==
  /\ h.us \in Seq(Ptr)
  /\ \A i \in 1..Len(h.us) : h.us[i] \notin h.live
  /\ \A i \in 2..Len(h.us) : h.us[i] # h.us[1]
  /\ h.hdr[BIN].fd = Ring(h.us)[1]
  /\ \A i \in 1..Len(h.us) : h.hdr[h.us[i]].fd = Ring(h.us)[i + 1]

TcacheLinked(h, t) ==
  /\ h.tc[t] \in Seq(Ptr)
  /\ h.entries[t] = IF h.tc[t] = <<>> THEN NULL ELSE h.tc[t][1]
  /\ h.counts[t] = Len(h.tc[t])
  /\ \A b \in 1..Len(h.tc[t]) :
       /\ h.tc[t][b] \notin h.live
       /\ h.hdr[h.tc[t][b]].fd = IF b < Len(h.tc[t]) THEN h.tc[t][b + 1] ELSE NULL

ListsLinked(h) == UnsortedLinked(h) /\ \A t \in TcIdx : TcacheLinked(h, t)

(* A list has every chunk once.                                            *)
LEMMA ListsAreDistinct ==
  ASSUME NEW s \in Lists
  PROVE  \A i, j \in 1..Len(s) : s[i] = s[j] => i = j
<1>1. PICK S \in SUBSET Ptr : s \in SetToSeqs(S)
  BY DEF Lists, SetToAllKPermutations
<1>2. Cardinality(S) \in Nat
  BY HeapAssumption, FS_Subset, FS_CardinalityType
<1>3. /\ s \in [1..Cardinality(S) -> S]
      /\ \A i, j \in 1..Cardinality(S) : i # j => s[i] # s[j]
  BY <1>1 DEF SetToSeqs
<1> QED
  BY <1>2, <1>3

(* In a list of distinct elements every element has one index.             *)
LEMMA IndexOf ==
  ASSUME NEW s, NEW i \in DOMAIN s, \A j \in DOMAIN s : s[j] = s[i] => j = i
  PROVE  In(s[i], s) /\ IndexIn(s[i], s) = i
BY DEF In, IndexIn

(* The successor of the i-th element of a ring of n.                       *)
LEMMA Successor ==
  ASSUME NEW n \in Nat \ {0}, NEW i \in 1..n
  PROVE  (i % n) + 1 = IF i = n THEN 1 ELSE i + 1
OBVIOUS

(* glibc links the chunks of the unsorted bin, and the bin, to a ring.     *)
LEMMA RingLinks ==
  ASSUME NEW us \in Seq(Ptr), NEW tc,
         \A i, j \in 1..Len(us) : us[i] = us[j] => i = j
  PROVE  /\ Linked(us, tc, BIN).fd = Ring(us)[1]
         /\ \A i \in 1..Len(us) : Linked(us, tc, us[i]).fd = Ring(us)[i + 1]
<1> DEFINE ring == <<BIN>> \o us
           n == Len(us) + 1
           At(i) == ring[(i % Len(ring)) + 1]
<1>1. /\ ring \in Seq(Node) /\ Len(ring) = n /\ ring[1] = BIN
      /\ n \in Nat \ {0} /\ DOMAIN ring = 1..n
      /\ \A i \in 1..Len(us) : ring[i + 1] = us[i]
      /\ \A i \in 1..Len(us) : us[i] \in Ptr
  BY DEF Node
<1>2. \A i, j \in 1..n : ring[i] = ring[j] => i = j
  <2> SUFFICES ASSUME NEW i \in 1..n, NEW j \in 1..n, ring[i] = ring[j] PROVE i = j
    OBVIOUS
  <2>1. \A k \in 1..n : k # 1 => k - 1 \in 1..Len(us) /\ ring[k] = us[k - 1]
    <3> SUFFICES ASSUME NEW k \in 1..n, k # 1
                 PROVE  k - 1 \in 1..Len(us) /\ ring[k] = us[k - 1]
      OBVIOUS
    <3>1. k - 1 \in 1..Len(us) /\ (k - 1) + 1 = k
      OBVIOUS
    <3> QED BY <1>1, <3>1
  <2>2. BIN \notin Ptr
    BY HeapAssumption
  <2> HIDE DEF ring, n
  <2>3. \A k \in 1..n : k # 1 => ring[k] # ring[1]
    <3> SUFFICES ASSUME NEW k \in 1..n, k # 1 PROVE ring[k] # ring[1]
      OBVIOUS
    <3>1. k - 1 \in 1..Len(us) /\ ring[k] = us[k - 1]
      BY <2>1
    <3>2. ring[k] \in Ptr /\ ring[1] = BIN
      BY <1>1, <3>1
    <3> QED BY <2>2, <3>2
  <2>4. CASE i = 1 \/ j = 1
    BY <2>3, <2>4
  <2>5. CASE i # 1 /\ j # 1
    <3>1. /\ i - 1 \in 1..Len(us) /\ ring[i] = us[i - 1]
          /\ j - 1 \in 1..Len(us) /\ ring[j] = us[j - 1]
      BY <2>1, <2>5
    <3>2. i - 1 = j - 1
      BY <3>1
    <3> QED BY <1>1, <3>2
  <2> QED BY <2>4, <2>5
<1>3. ASSUME NEW i \in 1..n
      PROVE  Linked(us, tc, ring[i]).fd = ring[IF i = n THEN 1 ELSE i + 1]
  <2>1. In(ring[i], ring) /\ IndexIn(ring[i], ring) = i
    <3> HIDE DEF ring, n
    <3> QED BY <1>1, <1>2, IndexOf
  <2>2. Linked(us, tc, ring[i]).fd = At(IndexIn(ring[i], ring))
    BY <2>1 DEF Linked
  <2>3. At(i) = ring[IF i = n THEN 1 ELSE i + 1]
    <3> HIDE DEF ring, n
    <3> QED BY <1>1, Successor
  <2> QED BY <2>1, <2>2, <2>3
<1>4. /\ Ring(us)[Len(us) + 1] = BIN
      /\ \A i \in 1..Len(us) : Ring(us)[i] = us[i]
  BY DEF Ring
<1>5. ASSUME NEW i \in 1..n
      PROVE  ring[IF i = n THEN 1 ELSE i + 1] = Ring(us)[i]
  <2> HIDE DEF ring
  <2> QED BY <1>1, <1>4
<1>6. Linked(us, tc, BIN).fd = Ring(us)[1]
  <2> HIDE DEF ring, n
  <2> QED BY <1>1, <1>3, <1>5
<1>7. ASSUME NEW i \in 1..Len(us)
      PROVE  Linked(us, tc, us[i]).fd = Ring(us)[i + 1]
  <2>1. i + 1 \in 1..n
    OBVIOUS
  <2> HIDE DEF ring, n
  <2> QED BY <1>1, <1>3, <1>5, <2>1
<1> QED
  BY <1>6, <1>7

(* The chunks of a tcache bin are linked to a list that ends in NULL.      *)
LEMMA TcacheLinks ==
  ASSUME NEW l, NEW t \in TcIdx, l.us \in Seq(Ptr), l.tc[t] \in Seq(Ptr),
         \A i, j \in 1..Len(l.tc[t]) : l.tc[t][i] = l.tc[t][j] => i = j,
         NEW b \in 1..Len(l.tc[t]), ~In(l.tc[t][b], l.us),
         \A t2 \in TcIdx \ {t} : ~In(l.tc[t][b], l.tc[t2])
  PROVE  Linked(l.us, l.tc, l.tc[t][b]).fd = IF b < Len(l.tc[t]) THEN l.tc[t][b + 1] ELSE NULL
<1>1. PICK us, tc : us = l.us /\ tc = l.tc
  OBVIOUS
<1>2. /\ us \in Seq(Ptr) /\ tc[t] \in Seq(Ptr) /\ b \in 1..Len(tc[t])
      /\ \A i, j \in 1..Len(tc[t]) : tc[t][i] = tc[t][j] => i = j
      /\ ~In(tc[t][b], us) /\ \A t2 \in TcIdx \ {t} : ~In(tc[t][b], tc[t2])
  BY <1>1
<1> DEFINE p == tc[t][b]
           list == tc[CHOOSE t2 \in TcIdx : In(p, tc[t2])]
<1>3. In(p, tc[t]) /\ IndexIn(p, tc[t]) = b
  <2>1. b \in DOMAIN tc[t] /\ \A j \in DOMAIN tc[t] : tc[t][j] = tc[t][b] => j = b
    BY <1>2
  <2> QED
    BY <2>1, IndexOf, Zenon
<1>4. (CHOOSE t2 \in TcIdx : In(p, tc[t2])) = t
  BY <1>2, <1>3
<1>5. ~In(p, <<BIN>> \o us)
  <2>1. p \in Ptr /\ p # BIN
    BY <1>2, HeapAssumption
  <2>2. \A i \in DOMAIN (<<BIN>> \o us) :
          i = 1 \/ (i - 1 \in DOMAIN us /\ (<<BIN>> \o us)[i] = us[i - 1])
    BY <1>2
  <2>3. (<<BIN>> \o us)[1] = BIN
    BY <1>2
  <2> QED
    BY <1>2, <2>1, <2>2, <2>3 DEF In
<1>6. Linked(us, tc, p).fd =
        IF IndexIn(p, list) < Len(list) THEN list[IndexIn(p, list) + 1] ELSE NULL
  BY <1>3, <1>5 DEF Linked
<1>7. Linked(us, tc, p).fd = IF b < Len(tc[t]) THEN tc[t][b + 1] ELSE NULL
  BY <1>3, <1>4, <1>6
<1> QED
  BY <1>1, <1>7

(* glibc leaves its lists well linked, and on them only free chunks; and   *)
(* the top chunk has a size.                                               *)
THEOREM ListsAreLinked ==
  ASSUME NEW h, NEW live \in SUBSET Ptr, NEW g \in Rearranged(h, live)
  PROVE  ListsLinked(g) /\ g.top # 0
<1>1. PICK l \in Layouts[Ptr \ live] :
        g \in {HeapOf(l, size, top, live) : size \in Resized(l, h, live), top \in TopSizes}
  BY DEF Rearranged
<1>2. PICK size \in Resized(l, h, live), top \in TopSizes : g = HeapOf(l, size, top, live)
  BY <1>1
<1>3. l.us \in Seq(Ptr) /\ l.tc \in [TcIdx -> Seq(Ptr)]
  BY <1>1, LayoutTypes
<1>4. /\ l.us \in Lists /\ l.tc \in [TcIdx -> Lists]
      /\ \A p \in Ptr :
           /\ In(p, l.us) => p \notin live /\ \A t \in TcIdx : ~In(p, l.tc[t])
           /\ \A t \in TcIdx : In(p, l.tc[t]) =>
                p \notin live /\ \A t2 \in TcIdx \ {t} : ~In(p, l.tc[t2])
  BY <1>1 DEF Layouts
<1>5. /\ g.us = l.us /\ g.tc = l.tc /\ g.live = live /\ g.top = top
      /\ \A n \in Node : g.hdr[n].fd = Linked(l.us, l.tc, n).fd
      /\ g.entries = [t \in TcIdx |-> IF l.tc[t] = <<>> THEN NULL ELSE l.tc[t][1]]
      /\ g.counts = [t \in TcIdx |-> Len(l.tc[t])]
  BY <1>2 DEF HeapOf
<1>6. UnsortedLinked(g)
  <2>1. \A i, j \in 1..Len(l.us) : l.us[i] = l.us[j] => i = j
    BY <1>4, ListsAreDistinct
  <2>2. \A i \in 1..Len(l.us) : l.us[i] \in Ptr /\ In(l.us[i], l.us)
    BY <1>3 DEF In
  <2>3. \A i \in 1..Len(l.us) : l.us[i] \notin live
    BY <1>4, <2>2
  <2>4. \A i \in 2..Len(l.us) : l.us[i] # l.us[1]
    <3> SUFFICES ASSUME NEW i \in 2..Len(l.us) PROVE l.us[i] # l.us[1]
      OBVIOUS
    <3>1. Len(l.us) \in Nat
      BY <1>3
    <3>2. i \in 1..Len(l.us) /\ 1 \in 1..Len(l.us) /\ i # 1
      BY <3>1
    <3> QED BY <2>1, <3>2
  <2>5. /\ Linked(l.us, l.tc, BIN).fd = Ring(l.us)[1]
        /\ \A i \in 1..Len(l.us) : Linked(l.us, l.tc, l.us[i]).fd = Ring(l.us)[i + 1]
    BY <1>3, <2>1, RingLinks
  <2> QED
    BY <1>3, <1>5, <2>2, <2>3, <2>4, <2>5 DEF UnsortedLinked, Node
<1>7. ASSUME NEW t \in TcIdx PROVE TcacheLinked(g, t)
  <2>1. l.tc[t] \in Lists /\ l.tc[t] \in Seq(Ptr)
    BY <1>3, <1>4
  <2>2. \A i, j \in 1..Len(l.tc[t]) : l.tc[t][i] = l.tc[t][j] => i = j
    BY <2>1, ListsAreDistinct
  <2>3. ASSUME NEW b \in 1..Len(l.tc[t])
        PROVE  /\ l.tc[t][b] \in Ptr /\ l.tc[t][b] \notin live
               /\ Linked(l.us, l.tc, l.tc[t][b]).fd
                    = IF b < Len(l.tc[t]) THEN l.tc[t][b + 1] ELSE NULL
    <3>1. l.tc[t][b] \in Ptr /\ In(l.tc[t][b], l.tc[t])
      BY <2>1 DEF In
    <3>2. /\ l.tc[t][b] \notin live /\ ~In(l.tc[t][b], l.us)
          /\ \A t2 \in TcIdx \ {t} : ~In(l.tc[t][b], l.tc[t2])
      BY <1>4, <3>1
    <3>3. Linked(l.us, l.tc, l.tc[t][b]).fd
            = IF b < Len(l.tc[t]) THEN l.tc[t][b + 1] ELSE NULL
      BY <1>3, <2>1, <2>2, <3>2, TcacheLinks
    <3> QED
      BY <3>1, <3>2, <3>3
  <2> QED
    BY <1>5, <2>1, <2>3 DEF TcacheLinked, Node
<1> QED
  BY <1>2, <1>5, <1>6, <1>7, HeapAssumption DEF ListsLinked

-----------------------------------------------------------------------------
(* The wrapper and the facade.                                             *)
LinkMetas == [ptr : Node, chunksize : Nat, fd : Link, bk : Link]

(* Masking the flags out of a size field leaves a number.                  *)
LEMMA ChunksizeType == ASSUME NEW z \in Nat PROVE chunksize(z) \in Nat
BY DEF chunksize, flags, SIZE_BITS, PREV_INUSE, IS_MMAPPED, NON_MAIN_ARENA

(* What the unsorted snapshot keeps of a chunk has its type.               *)
LEMMA LinkMetaType ==
  ASSUME NEW h \in Heap, NEW n \in Node
  PROVE  LinkMeta(h, n) \in LinkMetas
<1>1. h.hdr[n] \in Header
  BY DEF Heap
<1> QED
  BY <1>1, ChunksizeType DEF LinkMeta, LinkMetas, Header

(* What the tcache snapshot keeps of a chunk has its type.                 *)
LEMMA TcacheMetaType ==
  ASSUME NEW h \in Heap, NEW p \in Ptr
  PROVE  TcacheMeta(h, p) \in Bucket
<1>1. h.hdr[p] \in Header
  BY DEF Heap, Node
<1> QED
  BY <1>1, ChunksizeType DEF TcacheMeta, Bucket, Header

(* The walks of the two snapshot loops, as sequences.                      *)
LEMMA UnsortedPathFacts ==
  ASSUME NEW w \in UnsortedPaths
  PROVE  w \in Seq(Node) /\ Len(w) \in 1..USB_ENTRIES_MAX
<1>1. PICK n \in 1..USB_ENTRIES_MAX : w \in [1..n -> Node]
  BY DEF UnsortedPaths
<1>2. n \in Nat
  BY ShadowAssumption
<1>3. w \in Seq(Node) /\ Len(w) = n
  BY <1>1, <1>2
<1> QED
  BY <1>3

(* A tcache walk visits chunks only, and at most TCA_BIN_SIZE of them.     *)
LEMMA TcachePathFacts ==
  ASSUME NEW w \in TcachePaths
  PROVE  w \in Seq(Ptr) /\ Len(w) \in 0..TCA_BIN_SIZE
<1>1. PICK n \in 0..TCA_BIN_SIZE : w \in [1..n -> Ptr]
  BY DEF TcachePaths
<1>2. n \in Nat
  BY ShadowAssumption
<1>3. w \in Seq(Ptr) /\ Len(w) = n
  BY <1>1, <1>2
<1> QED
  BY <1>3

-----------------------------------------------------------------------------
(* Type correctness.                                                       *)

SnapshotTypes ==
  /\ topchunksize \in Nat
  /\ Len(unsorted) <= USB_ENTRIES_MAX
  /\ unsorted \in Seq(LinkMetas)
  /\ tcache \in [TcIdx -> [1..TCA_BIN_SIZE -> Bucket]]
  /\ tcacheHasData \in BOOLEAN

(* Taking snapshots of any heap leaves well-typed snapshots.               *)
LEMMA SnapshotsTyped ==
  ASSUME SnapshotTypes, NEW h \in Heap, take_snapshots(h)
  PROVE  SnapshotTypes'
<1>1. topchunksize' \in Nat
  BY DEF take_snapshots, store_topchunk, SnapshotTypes, Heap
<1>2. unsorted' \in Seq(LinkMetas) /\ Len(unsorted') <= USB_ENTRIES_MAX
  <2>1. CASE usbMode
    <3>1. PICK w \in UnsortedPaths : unsorted' = [i \in 1..Len(w) |-> LinkMeta(h, w[i])]
      BY <2>1 DEF take_snapshots, store_unsorted
    <3>2. w \in Seq(Node) /\ Len(w) \in 1..USB_ENTRIES_MAX
      BY UnsortedPathFacts
    <3>3. ASSUME NEW i \in 1..Len(w) PROVE LinkMeta(h, w[i]) \in LinkMetas
      BY <3>2, LinkMetaType
    <3>4. unsorted' \in [1..Len(w) -> LinkMetas] /\ Len(w) \in Nat
      BY <3>1, <3>2, <3>3
    <3>5. unsorted' \in Seq(LinkMetas) /\ Len(unsorted') = Len(w)
      BY <3>4
    <3> QED
      BY <3>2, <3>5, ShadowAssumption
  <2>2. CASE ~usbMode
    BY <2>2 DEF take_snapshots, store_unsorted, SnapshotTypes
  <2> QED
    BY <2>1, <2>2
<1>3. /\ tcache' \in [TcIdx -> [1..TCA_BIN_SIZE -> Bucket]]
      /\ tcacheHasData' \in BOOLEAN
  <2>1. CASE tcaActive
    <3>1. PICK ws \in [TcIdx -> TcachePaths] :
            /\ tcache' = [t \in TcIdx |-> [b \in 1..TCA_BIN_SIZE |->
                            IF b <= Len(ws[t]) THEN TcacheMeta(h, ws[t][b])
                                               ELSE tcache[t][b]]]
            /\ tcacheHasData' = (\E t \in TcIdx : ws[t] # <<>>)
      BY <2>1 DEF take_snapshots, store_tcache
    <3>2. ASSUME NEW t \in TcIdx, NEW b \in 1..TCA_BIN_SIZE
          PROVE  (IF b <= Len(ws[t]) THEN TcacheMeta(h, ws[t][b])
                                     ELSE tcache[t][b]) \in Bucket
      <4>1. ws[t] \in Seq(Ptr)
        BY TcachePathFacts
      <4>2. CASE b <= Len(ws[t])
        <5>1. ws[t][b] \in Ptr
          BY <4>1, <4>2
        <5> QED
          BY <4>2, <5>1, TcacheMetaType
      <4>3. CASE ~(b <= Len(ws[t]))
        BY <4>3 DEF SnapshotTypes
      <4> QED
        BY <4>2, <4>3
    <3> QED
      BY <3>1, <3>2
  <2>2. CASE ~tcaActive
    BY <2>2 DEF take_snapshots, store_tcache, SnapshotTypes
  <2> QED
    BY <2>1, <2>2
<1> QED
  BY <1>1, <1>2, <1>3 DEF SnapshotTypes

StoreTypes(s) == DOMAIN s \subseteq Ptr /\ \A p \in DOMAIN s : s[p] \in Nat

(* put() leaves a well-typed store.                                        *)
LEMMA PutTyped ==
  ASSUME NEW s, StoreTypes(s), NEW p \in Ptr, NEW z \in Nat
  PROVE  StoreTypes(StorePut(s, [ptr |-> p, size |-> z]))
BY DEF StoreTypes, StorePut, PutOk

(* remove() leaves a well-typed store.                                     *)
LEMMA RemoveTyped ==
  ASSUME NEW s, StoreTypes(s), NEW m
  PROVE  StoreTypes(StoreRemove(s, m))
BY DEF StoreTypes, StoreRemove, RemoveOk

Typed ==
  /\ heap \in Heap
  /\ initialized \in BOOLEAN
  /\ StoreTypes(store)
  /\ SnapshotTypes
  /\ status \in {"running", "trapped", "undefined", "segv"}
  /\ early \subseteq owned /\ owned \subseteq Ptr
  /\ written \subseteq Places \X Fields
  /\ badFree \in BOOLEAN
  /\ fresh \in BOOLEAN
  /\ freeing \subseteq Ptr

(* TypeOK in the parts the proofs below use.                               *)
LEMMA TypeOKParts == (TypeOK <=> Typed) /\ (TypeOK' <=> Typed')
BY DEF TypeOK, Typed, StoreTypes, SnapshotTypes, LinkMetas

(* A process that ends keeps every variable well typed.                    *)
LEMMA StopTyped ==
  ASSUME TypeOK, NEW how \in {"trapped", "undefined", "segv"}, Stop(how),
         badFree' \in BOOLEAN, freeing' \subseteq Ptr
  PROVE  TypeOK'
BY DEF TypeOK, Stop, snapshots, Bucket, Header, Heap

(* A failed check on snapshots ends the process.                           *)
LEMMA ChecksEnd ==
  StopAtChecks => ~pre_checks /\ (StopCalling("trapped") \/ StopCalling("segv"))
BY DEF StopAtChecks

(* The initial states are well typed.                                      *)
LEMMA InitTyped == Init => TypeOK
<1> SUFFICES ASSUME Init PROVE TypeOK
  OBVIOUS
<1>1. heap \in Heap
  BY InitialHeapFacts DEF Init
<1>2. EmptyBucket \in Bucket
  BY DEF EmptyBucket, Bucket, Link
<1>3. SnapshotTypes
  <2>1. unsorted \in Seq(LinkMetas) /\ Len(unsorted) <= USB_ENTRIES_MAX
    <3>1. USB_ENTRIES_MAX \in Nat
      BY ShadowAssumption
    <3> QED
      BY <3>1 DEF Init
  <2>2. tcache \in [TcIdx -> [1..TCA_BIN_SIZE -> Bucket]]
    BY <1>2 DEF Init
  <2> QED
    BY <2>1, <2>2 DEF Init, SnapshotTypes
<1>4. StoreTypes(store)
  BY DEF Init, EmptyStore, StoreTypes
<1> QED
  BY <1>1, <1>3, <1>4, TypeOKParts DEF Typed, Init

(* malloc() and calloc() keep the types.                                   *)
LEMMA AllocateTyped == ASSUME TypeOK, Allocate PROVE TypeOK'
<1>1. CASE StopAtChecks
  BY <1>1, ChecksEnd, StopTyped, TypeOKParts DEF Typed, Allocate, StopCalling
<1>2. CASE StopCalling("undefined")
  BY <1>2, StopTyped, TypeOKParts DEF Typed, Allocate, StopCalling
<1>3. CASE AllocateSucceeds /\ UNCHANGED <<initialized, status, written, badFree, freeing>>
  <2>0. PICK p \in Ptr \ heap.live : \E h \in Rearranged(heap, heap.live \cup {p}) :
          /\ heap' = h
          /\ malloc_post(h, p)
          /\ owned' = owned \cup {p}
          /\ early' = IF initialized THEN early ELSE early \cup {p}
          /\ fresh' = initialized
    BY <1>3 DEF AllocateSucceeds
  <2>1. PICK h \in Rearranged(heap, heap.live \cup {p}) :
          /\ heap' = h
          /\ malloc_post(h, p)
          /\ owned' = owned \cup {p}
          /\ early' = IF initialized THEN early ELSE early \cup {p}
          /\ fresh' = initialized
    BY <2>0
  <2>2. heap.live \cup {p} \subseteq Ptr
    BY DEF TypeOK, Heap
  <2>3. h \in Heap
    BY <2>2, RearrangedFacts
  <2>4. SnapshotTypes'
    <3>1. CASE initialized
      BY <3>1, <2>1, <2>3, TypeOKParts, SnapshotsTyped DEF Typed, malloc_post
    <3>2. CASE ~initialized
      BY <3>2, <2>1, TypeOKParts DEF Typed, malloc_post, SnapshotTypes, snapshots
    <3> QED
      BY <3>1, <3>2
  <2>5. StoreTypes(store)'
    <3>1. CASE initialized /\ ptrMode
      <4>1. PICK z \in RawSizes : store' = StorePut(store, [ptr |-> p, size |-> z])
        BY <3>1, <2>1 DEF malloc_post, store_pointer
      <4>2. z \in Nat
        BY HeapAssumption
      <4> QED
        BY <4>1, <4>2, PutTyped, TypeOKParts DEF Typed, StoreTypes
    <3>2. CASE ~(initialized /\ ptrMode)
      <4>1. store' = store
        BY <3>2, <2>1 DEF malloc_post, store_pointer
      <4> QED
        BY <4>1, TypeOKParts DEF Typed, StoreTypes
    <3> QED
      BY <3>1, <3>2
  <2>6. early' \subseteq owned' /\ owned' \subseteq Ptr
    BY <2>1, TypeOKParts DEF Typed
  <2> QED
    BY <1>3, <2>1, <2>3, <2>4, <2>5, <2>6, TypeOKParts DEF Typed
<1>4. CASE AllocateFails /\ UNCHANGED <<initialized, status, written, badFree, freeing>>
  <2>1. heap' \in Heap
    <3>1. heap.live \subseteq Ptr
      BY DEF TypeOK, Heap
    <3> QED
      BY <1>4, <3>1, RearrangedFacts DEF AllocateFails
  <2>2. SnapshotTypes'
    BY <1>4, TypeOKParts DEF Typed, AllocateFails, SnapshotTypes
  <2> QED
    BY <1>4, <2>1, <2>2, TypeOKParts DEF Typed, AllocateFails, StoreTypes
<1> QED
  BY <1>1, <1>2, <1>3, <1>4 DEF Allocate

(* free() keeps the types.                                                 *)
LEMMA FreeTyped == ASSUME TypeOK, NEW p \in Ptr, free(p) PROVE TypeOK'
<1>0. badFree' \in BOOLEAN
  BY TypeOKParts DEF Typed, free
<1>1. CASE StopFreeing(p, "trapped") \/ StopFreeing(p, "undefined") \/ StopAtChecks
  BY <1>0, <1>1, ChecksEnd, StopTyped DEF StopFreeing, StopCalling
<1>2. CASE ~(StopFreeing(p, "trapped") \/ StopFreeing(p, "undefined") \/ StopAtChecks)
  <2>1. PICK h \in Rearranged(heap, heap.live \ {p}) :
          /\ heap' = h
          /\ IF initialized THEN take_snapshots(h) ELSE UNCHANGED snapshots
    BY <1>2 DEF free
  <2>2. /\ store' = IF initialized /\ ptrMode
                    THEN StoreRemove(store, header_meta(p)) ELSE store
        /\ owned' = owned \ {p} /\ early' = early \ {p} /\ fresh' = initialized
        /\ UNCHANGED <<initialized, status, written, freeing>>
    BY <1>2 DEF free
  <2>3. h \in Heap
    <3>1. heap.live \ {p} \subseteq Ptr
      BY DEF TypeOK, Heap
    <3> QED
      BY <3>1, RearrangedFacts
  <2>4. SnapshotTypes'
    <3>1. CASE initialized
      BY <3>1, <2>1, <2>3, TypeOKParts, SnapshotsTyped DEF Typed
    <3>2. CASE ~initialized
      BY <3>2, <2>1, TypeOKParts DEF Typed, SnapshotTypes, snapshots
    <3> QED
      BY <3>1, <3>2
  <2>5. StoreTypes(store')
    BY <2>2, RemoveTyped, TypeOKParts DEF Typed
  <2> QED
    BY <1>0, <2>1, <2>2, <2>3, <2>4, <2>5, TypeOKParts DEF Typed
<1> QED
  BY <1>1, <1>2

(* A realloc() that succeeds keeps the types.                              *)
LEMMA MoveTyped ==
  ASSUME TypeOK, NEW p \in Ptr, NEW q \in Ptr, MoveTo(p, q),
         UNCHANGED <<initialized, status, written, badFree, freeing>>
  PROVE  TypeOK'
<1>1. PICK h \in Rearranged(heap, (heap.live \cup {q}) \ ReallocFrees(p)) :
        /\ heap' = h
        /\ IF initialized THEN take_snapshots(h) ELSE UNCHANGED snapshots
        /\ IF initialized /\ ptrMode
           THEN \E z \in RawSizes :
                  LET put == StorePut(store, [ptr |-> q, size |-> z])
                  IN /\ chunksize(z) = chunksize(h.hdr[q].size)
                     /\ store' = StoreRemove(put, header_meta(p))
           ELSE UNCHANGED store
        /\ owned' = (owned \ {p}) \cup {q}
        /\ early' = (early \ {p}) \cup (IF initialized THEN {} ELSE {q})
        /\ fresh' = initialized
  BY DEF MoveTo
<1>2. h \in Heap
  <2>1. (heap.live \cup {q}) \ ReallocFrees(p) \subseteq Ptr
    BY DEF TypeOK, Heap
  <2> QED
    BY <2>1, RearrangedFacts
<1>3. SnapshotTypes'
  <2>1. CASE initialized
    BY <2>1, <1>1, <1>2, TypeOKParts, SnapshotsTyped DEF Typed
  <2>2. CASE ~initialized
    BY <2>2, <1>1, TypeOKParts DEF Typed, SnapshotTypes, snapshots
  <2> QED
    BY <2>1, <2>2
<1>4. StoreTypes(store')
  <2>1. CASE initialized /\ ptrMode
    <3>1. PICK z \in RawSizes :
            store' = StoreRemove(StorePut(store, [ptr |-> q, size |-> z]), header_meta(p))
      BY <2>1, <1>1
    <3>2. z \in Nat
      BY HeapAssumption
    <3> QED
      BY <3>1, <3>2, PutTyped, RemoveTyped, TypeOKParts DEF Typed
  <2>2. CASE ~(initialized /\ ptrMode)
    BY <2>2, <1>1, TypeOKParts DEF Typed
  <2> QED
    BY <2>1, <2>2
<1>5. early' \subseteq owned' /\ owned' \subseteq Ptr /\ fresh' \in BOOLEAN
  BY <1>1, TypeOKParts DEF Typed
<1> QED
  BY <1>1, <1>2, <1>3, <1>4, <1>5, TypeOKParts DEF Typed

(* realloc() keeps the types.                                              *)
LEMMA ReallocTyped == ASSUME TypeOK, NEW p \in Ptr, realloc(p) PROVE TypeOK'
<1>1. UNCHANGED badFree /\ badFree' \in BOOLEAN
  BY TypeOKParts DEF Typed, realloc
<1>2. \/ StopCalling("trapped") \/ StopCalling("undefined") \/ StopCalling("segv")
      \/ StopFreeing(p, "trapped") \/ StopFreeing(p, "undefined")
      \/ \E q \in Ptr : MoveTo(p, q) /\ UNCHANGED <<initialized, status, written, freeing>>
  BY ChecksEnd DEF realloc
<1> QED
  BY <1>1, <1>2, StopTyped, MoveTyped DEF StopCalling, StopFreeing

(* A stray write keeps the types.                                          *)
LEMMA StrayWriteTyped ==
  ASSUME TypeOK, NEW n \in Places, NEW field \in Fields, StrayWrite(n, field)
  PROVE  TypeOK'
<1>1. heap' \in Heap
  <2>0. heap \in Heap /\ heap.hdr \in [Node -> Header]
    BY DEF TypeOK, Heap
  <2>1. CASE n = TOP /\ WriteTop(field)
    <3>1. CASE UNCHANGED heap
      BY <2>0, <3>1
    <3>2. CASE \E z \in TopSizes : heap' = [heap EXCEPT !.top = z]
      <4>1. PICK z \in Nat : heap' = [heap EXCEPT !.top = z]
        BY <3>2, HeapAssumption
      <4> QED
        BY <2>0, <4>1 DEF Heap
    <3> QED
      BY <2>1, <3>1, <3>2 DEF WriteTop
  <2>3. CASE n \in TcIdx /\ WriteBin(n, field)
    <3>1. heap.entries \in [TcIdx -> Link] /\ heap.counts \in [TcIdx -> Nat]
      BY <2>0 DEF Heap
    <3>2. CASE \E x \in Link : heap' = [heap EXCEPT !.entries[n] = x]
      <4>1. PICK es \in [TcIdx -> Link] : heap' = [heap EXCEPT !.entries = es]
        BY <3>1, <3>2
      <4> QED
        BY <2>0, <4>1 DEF Heap
    <3>3. CASE \E k \in {0, 1} : heap' = [heap EXCEPT !.counts[n] = k]
      <4>1. PICK k \in Nat : heap' = [heap EXCEPT !.counts[n] = k]
        BY <3>3
      <4>2. [heap.counts EXCEPT ![n] = k] \in [TcIdx -> Nat]
        BY <3>1
      <4> QED
        BY <2>0, <4>1, <4>2 DEF Heap
    <3> QED
      BY <2>3, <3>2, <3>3 DEF WriteBin
  <2>2. CASE n \in Node /\ WriteNode(n, field)
    <3>1. n \in Node
      BY <2>2
    <3>2. heap.hdr[n] \in Header
      BY <2>0, <3>1
    <3>3. PICK hd \in Header : heap' = [heap EXCEPT !.hdr[n] = hd]
      <4>1. CASE \E z \in RawSizes : heap' = [heap EXCEPT !.hdr[n].size = z]
        <5>1. PICK z \in RawSizes : heap' = [heap EXCEPT !.hdr[n].size = z]
          BY <4>1
        <5>2. [heap.hdr[n] EXCEPT !.size = z] \in Header
          BY <3>2, HeapAssumption DEF Header
        <5> QED
          BY <5>1, <5>2
      <4>2. CASE \E x \in Link : heap' = [heap EXCEPT !.hdr[n].fd = x]
        <5>1. PICK x \in Link : heap' = [heap EXCEPT !.hdr[n].fd = x]
          BY <4>2
        <5>2. [heap.hdr[n] EXCEPT !.fd = x] \in Header
          BY <3>2 DEF Header
        <5> QED
          BY <5>1, <5>2
      <4>3. CASE \E x \in Link : heap' = [heap EXCEPT !.hdr[n].bk = x]
        <5>1. PICK x \in Link : heap' = [heap EXCEPT !.hdr[n].bk = x]
          BY <4>3
        <5>2. [heap.hdr[n] EXCEPT !.bk = x] \in Header
          BY <3>2 DEF Header
        <5> QED
          BY <5>1, <5>2
      <4> QED
        BY <2>2, <4>1, <4>2, <4>3 DEF WriteNode
    <3> QED
      BY <2>0, <3>1, <3>3 DEF Heap
  <2> QED
    BY <2>1, <2>2, <2>3 DEF StrayWrite
<1>2. written' \subseteq Places \X Fields
  BY TypeOKParts DEF Typed, StrayWrite
<1>3. UNCHANGED <<initialized, store, snapshots, status, owned, early,
                badFree, fresh, freeing>>
  BY DEF StrayWrite
<1> QED
  BY <1>1, <1>2, <1>3, TypeOKParts DEF Typed, snapshots, SnapshotTypes, StoreTypes

(* Every step keeps the types.                                             *)
LEMMA NextTyped == TypeOK /\ [Next]_vars => TypeOK'
<1> SUFFICES ASSUME TypeOK, [Next]_vars PROVE TypeOK'
  OBVIOUS
<1>1. CASE ensure_initialized
  <2>1. heap.live \subseteq Ptr
    BY DEF TypeOK, Heap
  <2>2. heap' \in Heap
    BY <1>1, <2>1, RearrangedFacts DEF ensure_initialized
  <2> QED
    BY <1>1, <2>2, TypeOKParts DEF Typed, ensure_initialized, snapshots, SnapshotTypes, StoreTypes
<1>2. CASE Allocate
  BY <1>2, AllocateTyped
<1>3. CASE \E p \in Ptr : free(p) \/ realloc(p)
  BY <1>3, FreeTyped, ReallocTyped
<1>4. CASE \E n \in Places, field \in Fields : StrayWrite(n, field)
  BY <1>4, StrayWriteTyped
<1>5. CASE Stopped \/ UNCHANGED vars
  BY <1>5, TypeOKParts DEF Typed, Stopped, vars, SnapshotTypes, StoreTypes
<1> QED
  BY <1>1, <1>2, <1>3, <1>4, <1>5 DEF Next

(* Every variable keeps its type; in particular the unsorted snapshot      *)
(* never grows past its array.                                             *)
THEOREM TypeCorrect == Spec => []TypeOK
BY InitTyped, NextTyped, PTL DEF Spec
=============================================================================
