----------------------- MODULE ShadowHeapDamageProofs -----------------------
(***************************************************************************)
(* The facade reports damage before glibc can work on it                   *)
(* (DamageCaughtAtNextCall), for any chunks, caps and modes and any number *)
(* of stray writes, to the heads and counts of the tcache bins and to the  *)
(* pointer to the top chunk as well, behind which nothing counts as        *)
(* covered once they mislead the loops of the checks.  The inductive invariant DamageShows says that the     *)
(* snapshots are those of a heap whose lists glibc linked well, and that   *)
(* the memory differs from that heap in what was written since.  The loops *)
(* of the checks start at the bins as they are now and follow the links as *)
(* they were, so they compare every chunk that the loops of the snapshots  *)
(* have seen, which are the first of each list, up to the cap.             *)
(*                                                                         *)
(* With the invariants of ShadowHeapSafetyProofs this gives that the       *)
(* wrapper implements AllocatorSpec (KeepsPromise).                        *)
(***************************************************************************)
EXTENDS ShadowHeapSafetyProofs

-----------------------------------------------------------------------------
(* What the two loops find on lists that are well linked.                  *)

Visited(s, w, cap) == \A j \in 1..Len(s) : j <= cap => j <= Len(w) /\ w[j] = s[j]

(* The walk along the unsorted ring sees the list, up to its cap.          *)
LEMMA UnsortedWalkCovers ==
  ASSUME NEW h, UnsortedLinked(h), NEW w \in UnsortedPaths, IsUnsortedWalk(h, w)
  PROVE  Visited(Ring(h.us), w, USB_ENTRIES_MAX)
<1> DEFINE s == Ring(h.us)
           n == Len(h.us) + 1
           Missed == {j \in 1..n : j <= USB_ENTRIES_MAX /\ ~(j <= Len(w) /\ w[j] = s[j])}
<1>1. /\ w \in Seq(Node) /\ Len(w) \in Nat /\ Len(w) >= 1 /\ Len(w) <= USB_ENTRIES_MAX
      /\ USB_ENTRIES_MAX \in Nat
  BY UnsortedPathFacts, ShadowAssumption
<1>2. /\ h.us \in Seq(Ptr) /\ Len(h.us) \in Nat /\ Len(s) = n
      /\ \A i \in 1..Len(h.us) : s[i] = h.us[i]
      /\ s[n] = BIN
  BY DEF UnsortedLinked, Ring
<1>3. /\ h.hdr[BIN].fd = s[1]
      /\ \A i \in 1..Len(h.us) : h.hdr[s[i]].fd = s[i + 1]
  BY <1>2 DEF UnsortedLinked
<1>4. \A i \in 2..n : s[i] # s[1]
  <2> SUFFICES ASSUME NEW i \in 2..n PROVE s[i] # s[1]
    OBVIOUS
  <2>1. CASE i = n
    <3>1. s[i] = BIN /\ s[1] = h.us[1] /\ h.us[1] \in Ptr
      BY <1>2, <2>1
    <3> QED BY <3>1, HeapAssumption
  <2>2. CASE i # n
    <3>1. s[i] = h.us[i] /\ s[1] = h.us[1] /\ i \in 2..Len(h.us)
      BY <1>2, <2>2
    <3> QED BY <3>1 DEF UnsortedLinked
  <2> QED BY <2>1, <2>2
<1>5. /\ w[1] = h.hdr[BIN].fd
      /\ \A i \in 1..Len(w) - 1 : w[i + 1] = h.hdr[w[i]].fd
      /\ h.hdr[w[Len(w)]].fd = w[1] \/ Len(w) = USB_ENTRIES_MAX
  BY DEF IsUnsortedWalk, unsorted_start
<1> SUFFICES ASSUME Missed # {} PROVE FALSE
  BY <1>2 DEF Visited
<1> HIDE DEF s
<1>6. PICK j \in Missed : \A k \in Missed : j <= k
  <2>1. Missed \in SUBSET Nat
    BY <1>2
  <2> HIDE DEF Missed
  <2> QED BY <2>1, LeastNumber
<1>7. /\ j \in 1..n /\ j <= USB_ENTRIES_MAX /\ ~(j <= Len(w) /\ w[j] = s[j])
      /\ \A k \in 1..n : k < j => k <= Len(w) /\ w[k] = s[k]
  BY <1>1, <1>2, <1>6
<1>8. j # 1
  BY <1>1, <1>3, <1>5, <1>7
<1>9. /\ j - 1 \in 1..Len(h.us) /\ j - 1 <= Len(w) /\ w[j - 1] = s[j - 1]
      /\ (j - 1) + 1 = j
  BY <1>2, <1>7, <1>8
<1>10. h.hdr[w[j - 1]].fd = s[j]
  BY <1>3, <1>9
<1>11. CASE j - 1 < Len(w)
  <2>1. j - 1 \in 1..Len(w) - 1
    BY <1>1, <1>9, <1>11
  <2> QED BY <1>1, <1>5, <1>7, <1>9, <1>10, <1>11, <2>1
<1>12. CASE j - 1 = Len(w)
  <2>1. h.hdr[w[j - 1]].fd = w[1] /\ w[1] = s[1]
    BY <1>1, <1>3, <1>5, <1>7, <1>9, <1>12
  <2>2. j \in 2..n
    BY <1>2, <1>7, <1>8
  <2> QED BY <1>4, <1>10, <2>1, <2>2
<1> QED
  BY <1>1, <1>9, <1>11, <1>12

(* So does the walk along a tcache bin.                                    *)
LEMMA TcacheWalkCovers ==
  ASSUME NEW h, NEW t \in TcIdx, TcacheLinked(h, t), NEW w \in TcachePaths,
         IsTcacheWalk(h, t, w)
  PROVE  Visited(h.tc[t], w, TCA_BIN_SIZE)
<1> DEFINE s == h.tc[t]
           n == Len(s)
           Missed == {j \in 1..n : j <= TCA_BIN_SIZE /\ ~(j <= Len(w) /\ w[j] = s[j])}
<1>1. /\ w \in Seq(Ptr) /\ Len(w) \in Nat /\ Len(w) <= TCA_BIN_SIZE
      /\ TCA_BIN_SIZE \in Nat
  BY TcachePathFacts, ShadowAssumption
<1>2. /\ s \in Seq(Ptr) /\ n \in Nat
      /\ \A b \in 1..n : h.hdr[s[b]].fd = IF b < n THEN s[b + 1] ELSE NULL
      /\ \A b \in 1..n : s[b] # NULL
  BY HeapAssumption DEF TcacheLinked
<1> SUFFICES ASSUME Missed # {} PROVE FALSE
  BY DEF Visited
<1>3. n # 0 /\ tcacheUsed(h, t) /\ entries(h, t) = s[1]
  BY <1>2, HeapAssumption DEF tcacheUsed, entries, counts, TcacheLinked
<1>4. /\ w # <<>> /\ w[1] = s[1]
      /\ \A i \in 1..Len(w) - 1 : w[i + 1] = h.hdr[w[i]].fd
      /\ h.hdr[w[Len(w)]].fd = NULL \/ Len(w) = TCA_BIN_SIZE
  BY <1>3 DEF IsTcacheWalk
<1>5. Len(w) >= 1
  BY <1>1, <1>4
<1> HIDE DEF s, n
<1>6. PICK j \in Missed : \A k \in Missed : j <= k
  <2>1. Missed \in SUBSET Nat
    BY <1>2
  <2> HIDE DEF Missed
  <2> QED BY <2>1, LeastNumber
<1>7. /\ j \in 1..n /\ j <= TCA_BIN_SIZE /\ ~(j <= Len(w) /\ w[j] = s[j])
      /\ \A k \in 1..n : k < j => k <= Len(w) /\ w[k] = s[k]
  BY <1>1, <1>2, <1>6
<1>8. j # 1
  BY <1>1, <1>4, <1>5, <1>7
<1>9. /\ j - 1 \in 1..n /\ j - 1 < n /\ j - 1 <= Len(w) /\ w[j - 1] = s[j - 1]
      /\ (j - 1) + 1 = j
  BY <1>2, <1>7, <1>8
<1>10. h.hdr[w[j - 1]].fd = s[j] /\ s[j] # NULL
  BY <1>2, <1>7, <1>9
<1>11. CASE j - 1 < Len(w)
  <2>1. j - 1 \in 1..Len(w) - 1
    BY <1>1, <1>9, <1>11
  <2> QED BY <1>1, <1>4, <1>7, <1>9, <1>10, <1>11, <2>1
<1>12. CASE j - 1 = Len(w)
  BY <1>1, <1>4, <1>7, <1>9, <1>10, <1>12
<1> QED
  BY <1>1, <1>9, <1>11, <1>12
-----------------------------------------------------------------------------
(* The invariant: the snapshots are those of the heap that glibc left at   *)
(* the end of the last call, and the memory is still that heap, except for *)
(* what was written to free memory, the arena and the tcache struct since. *)

SnapshotOf(h, top, us, tc, has) ==
  /\ topMode => top = h.top
  /\ usbMode => \E w \in UnsortedPaths :
       /\ IsUnsortedWalk(h, w)
       /\ us = [i \in 1..Len(w) |-> LinkMeta(h, w[i])]
  /\ tcaActive => \E ws \in [TcIdx -> TcachePaths] :
       /\ \A t \in TcIdx :
            /\ IsTcacheWalk(h, t, ws[t])
            /\ \A b \in 1..Len(ws[t]) : tc[t][b] = TcacheMeta(h, ws[t][b])
       /\ has = (\E t \in TcIdx : ws[t] # <<>>)

WrittenSince(h, g, wr) ==
  /\ g.us = h.us /\ g.tc = h.tc /\ g.live = h.live
  /\ <<TOP, "ptr">> \notin wr => (<<TOP, "size">> \in wr <=> g.top # h.top)
  /\ \A t \in TcIdx : <<t, "entries">> \in wr <=> g.entries[t] # h.entries[t]
  /\ \A n \in Node \ h.live :
       /\ <<n, "size">> \in wr <=> chunksize(g.hdr[n].size) # chunksize(h.hdr[n].size)
       /\ <<n, "fd">> \in wr <=> g.hdr[n].fd # h.hdr[n].fd
       /\ <<n, "bk">> \in wr <=> g.hdr[n].bk # h.hdr[n].bk

Snapped(g, top, us, tc, has, wr) ==
  \E h \in Heap : /\ ListsLinked(h) /\ h.top # 0
                  /\ SnapshotOf(h, top, us, tc, has)
                  /\ WrittenSince(h, g, wr)

DamageShows ==
  status = "running" /\ fresh =>
    Snapped(heap, topchunksize, unsorted, tcache, tcacheHasData, written)

(* The parts of Covered.                                                   *)
Unwritten(n, fields, wr) == \A f \in fields : <<n, f>> \notin wr

(* If the checks pass, what they look at was not written.                  *)
LEMMA TopCheckFinds ==
  ASSUME NEW h, SnapshotOf(h, topchunksize, unsorted, tcache, tcacheHasData),
         WrittenSince(h, heap, written), h.top # 0, topMode, check_topchunk,
         <<TOP, "ptr">> \notin written
  PROVE  <<TOP, "size">> \notin written
BY DEF SnapshotOf, WrittenSince, check_topchunk

(* A comparison of the unsorted bin that passes has met no word that was   *)
(* written since.                                                          *)
LEMMA UnsortedCheckFinds ==
  ASSUME NEW h \in Heap, UnsortedLinked(h),
         SnapshotOf(h, topchunksize, unsorted, tcache, tcacheHasData),
         WrittenSince(h, heap, written), usbMode, check_unsorted
  PROVE  /\ <<BIN, "fd">> \notin written
         /\ \A i \in 1..Len(h.us) + 1 : i <= USB_ENTRIES_MAX =>
              Unwritten(Ring(h.us)[i], {"size", "fd", "bk"}, written)
<1>1. PICK w \in UnsortedPaths :
        /\ IsUnsortedWalk(h, w)
        /\ unsorted = [i \in 1..Len(w) |-> LinkMeta(h, w[i])]
  BY DEF SnapshotOf
<1>2. w \in Seq(Node) /\ Len(w) \in Nat /\ Len(w) >= 1
  BY UnsortedPathFacts
<1>3. /\ unsorted # <<>> /\ Len(unsorted) = Len(w)
      /\ \A i \in 1..Len(w) : unsorted[i] = LinkMeta(h, w[i])
  BY <1>1, <1>2
<1>4. /\ unsorted[1] = LinkMeta(heap, unsorted_start(heap))
      /\ \A i \in 1..Len(w) - 1 : unsorted[i + 1] = LinkMeta(heap, unsorted[i].fd)
  BY <1>3 DEF check_unsorted
<1>5. /\ w[1] = h.hdr[BIN].fd
      /\ \A i \in 1..Len(w) - 1 : w[i + 1] = h.hdr[w[i]].fd
  BY <1>1 DEF IsUnsortedWalk, unsorted_start
<1>6. ASSUME NEW i \in 1..Len(w) PROVE LinkMeta(h, w[i]) = LinkMeta(heap, w[i])
  <2>1. CASE i = 1
    <3>1. LinkMeta(h, w[1]) = LinkMeta(heap, unsorted_start(heap))
      BY <1>2, <1>3, <1>4
    <3>2. w[1] = unsorted_start(heap)
      BY <3>1 DEF LinkMeta
    <3> QED BY <2>1, <3>1, <3>2
  <2>2. CASE i # 1
    <3>1. i - 1 \in 1..Len(w) - 1 /\ i - 1 \in 1..Len(w) /\ (i - 1) + 1 = i
      BY <1>2, <2>2
    <3>2. unsorted[i - 1].fd = w[i]
      <4>1. unsorted[i - 1] = LinkMeta(h, w[i - 1])
        BY <1>3, <3>1
      <4>2. unsorted[i - 1].fd = h.hdr[w[i - 1]].fd
        BY <4>1 DEF LinkMeta
      <4>3. w[(i - 1) + 1] = h.hdr[w[i - 1]].fd
        BY <1>5, <3>1
      <4> QED BY <3>1, <4>2, <4>3
    <3>3. unsorted[i] = LinkMeta(heap, w[i])
      BY <1>4, <3>1, <3>2
    <3> QED BY <1>3, <3>3
  <2> QED BY <2>1, <2>2
<1>7. ASSUME NEW n \in Node \ h.live, LinkMeta(h, n) = LinkMeta(heap, n)
      PROVE  Unwritten(n, {"size", "fd", "bk"}, written)
  BY <1>7 DEF LinkMeta, WrittenSince, Unwritten
<1>8. Visited(Ring(h.us), w, USB_ENTRIES_MAX)
  BY <1>1, UnsortedWalkCovers
<1>9. /\ h.us \in Seq(Ptr) /\ Len(Ring(h.us)) = Len(h.us) + 1
      /\ \A i \in 1..Len(h.us) + 1 : Ring(h.us)[i] \in Node \ h.live
  <2>1. h.us \in Seq(Ptr) /\ \A i \in 1..Len(h.us) : h.us[i] \notin h.live /\ h.us[i] \in Ptr
    BY DEF UnsortedLinked
  <2>2. BIN \notin h.live
    BY HeapAssumption DEF Heap
  <2> QED BY <2>1, <2>2 DEF Ring, Node
<1>10. ASSUME NEW i \in 1..Len(h.us) + 1, i <= USB_ENTRIES_MAX
       PROVE  Unwritten(Ring(h.us)[i], {"size", "fd", "bk"}, written)
  <2>1. i <= Len(w) /\ w[i] = Ring(h.us)[i]
    BY <1>8, <1>9, <1>10 DEF Visited
  <2>2. i \in 1..Len(w)
    BY <1>2, <2>1
  <2> QED BY <1>6, <1>7, <1>9, <2>1, <2>2
<1>11. <<BIN, "fd">> \notin written
  <2>1. LinkMeta(h, w[1]) = LinkMeta(heap, unsorted_start(heap))
    BY <1>2, <1>3, <1>4
  <2>2. h.hdr[BIN].fd = heap.hdr[BIN].fd
    BY <1>5, <2>1 DEF LinkMeta, unsorted_start
  <2>3. BIN \in Node \ h.live
    BY HeapAssumption DEF Heap, Node
  <2> QED BY <2>2, <2>3 DEF WrittenSince
<1> QED
  BY <1>10, <1>11

(* A comparison of the tcache that passes has met no word that was written *)
(* since in a bin that it has not skipped.                                 *)
LEMMA TcacheCheckFinds ==
  ASSUME NEW h \in Heap, NEW t \in TcIdx, TcacheLinked(h, t),
         SnapshotOf(h, topchunksize, unsorted, tcache, tcacheHasData),
         WrittenSince(h, heap, written), tcaActive, check_tcache,
         tcacheUsed(heap, t), NEW b \in 1..Len(h.tc[t]), b <= TCA_BIN_SIZE
  PROVE  /\ <<t, "entries">> \notin written
         /\ Unwritten(h.tc[t][b], {"size", "fd"}, written)
<1>1. PICK ws \in [TcIdx -> TcachePaths] :
        /\ \A t2 \in TcIdx :
             /\ IsTcacheWalk(h, t2, ws[t2])
             /\ \A c \in 1..Len(ws[t2]) : tcache[t2][c] = TcacheMeta(h, ws[t2][c])
        /\ tcacheHasData = (\E t2 \in TcIdx : ws[t2] # <<>>)
  BY DEF SnapshotOf
<1> DEFINE s == h.tc[t]
           w == ws[t]
<1>2. w \in Seq(Ptr) /\ Len(w) \in Nat /\ TCA_BIN_SIZE \in Nat /\ w \in TcachePaths
  BY TcachePathFacts, ShadowAssumption
<1>3. /\ s \in Seq(Ptr) /\ Len(s) \in Nat
      /\ \A c \in 1..Len(s) : /\ s[c] \in Ptr \ h.live
                             /\ h.hdr[s[c]].fd = IF c < Len(s) THEN s[c + 1] ELSE NULL
  BY DEF TcacheLinked
<1>4. Visited(s, w, TCA_BIN_SIZE)
  BY <1>1, <1>2, TcacheWalkCovers
<1>5. ASSUME NEW c \in 1..Len(s), c <= TCA_BIN_SIZE
      PROVE  tcache[t][c] = TcacheMeta(h, s[c])
  <2>1. c <= Len(w) /\ w[c] = s[c]
    BY <1>4, <1>5 DEF Visited
  <2>2. c \in 1..Len(w)
    BY <1>2, <1>3, <2>1
  <2> QED BY <1>1, <2>1, <2>2
<1>6. tcacheHasData
  <2>1. b <= Len(w) /\ b >= 1
    BY <1>3, <1>4 DEF Visited
  <2> QED BY <1>1, <1>2, <2>1
<1>7. s # <<>> /\ 1 \in 1..Len(s) /\ 1 <= TCA_BIN_SIZE
  BY <1>3, ShadowAssumption
<1>8. PICK n \in 1..TCA_BIN_SIZE :
        /\ bucket_ok(tcache[t][1], entries(heap, t))
        /\ \A c \in 1..n - 1 : /\ tcache[t][c].next # NULL
                               /\ bucket_ok(tcache[t][c + 1], tcache[t][c].next)
        /\ n = TCA_BIN_SIZE \/ tcache[t][n].next = NULL
  BY <1>6 DEF check_tcache
<1>0. entries(heap, t) = s[1] /\ <<t, "entries">> \notin written
  <2>1. tcache[t][1] = TcacheMeta(h, s[1])
    BY <1>5, <1>7
  <2>2. entries(heap, t) = s[1]
    BY <1>8, <2>1 DEF bucket_ok, TcacheMeta
  <2>3. h.entries[t] = s[1]
    BY <1>7 DEF TcacheLinked
  <2> QED BY <2>2, <2>3 DEF WrittenSince, entries
<1> HIDE DEF s, w
<1>9. ASSUME NEW c \in 1..Len(s), c <= TCA_BIN_SIZE
      PROVE  tcache[t][c].next = IF c < Len(s) THEN s[c + 1] ELSE NULL
  <2>1. tcache[t][c] = TcacheMeta(h, s[c])
    BY <1>5, <1>9
  <2>2. tcache[t][c].next = h.hdr[s[c]].fd
    BY <2>1 DEF TcacheMeta
  <2> QED BY <1>3, <2>2
<1>10. b <= n
  <2> SUFFICES ASSUME n < b PROVE FALSE
    BY <1>2, <1>3, <1>8
  <2>1. n \in 1..Len(s) /\ n < Len(s) /\ n < TCA_BIN_SIZE /\ n + 1 \in 1..Len(s)
    BY <1>2, <1>3 DEF s
  <2> QED BY <1>3, <1>8, <1>9, <2>1, HeapAssumption
<1>11. TcacheMeta(h, s[b]) = TcacheMeta(heap, s[b])
  <2>1. CASE b = 1
    <3>1. tcache[t][1] = TcacheMeta(h, s[1]) /\ tcache[t][1] = TcacheMeta(heap, s[1])
      BY <1>0, <1>5, <1>7, <1>8 DEF bucket_ok
    <3> QED BY <2>1, <3>1
  <2>2. CASE b # 1
    <3>1. /\ b - 1 \in 1..n - 1 /\ (b - 1) + 1 = b /\ b - 1 \in 1..Len(s)
          /\ b - 1 < Len(s) /\ b - 1 <= TCA_BIN_SIZE
      BY <1>2, <1>3, <1>10, <2>2 DEF s
    <3>2. tcache[t][b - 1].next = s[b]
      BY <1>9, <3>1
    <3>3. tcache[t][b] = TcacheMeta(heap, s[b])
      BY <1>8, <3>1, <3>2 DEF bucket_ok
    <3> QED BY <1>5, <3>3 DEF s
  <2> QED BY <2>1, <2>2
<1>12. s[b] \in Node \ h.live
  BY <1>3 DEF s, Node
<1>13. Unwritten(s[b], {"size", "fd"}, written)
  BY <1>11, <1>12 DEF TcacheMeta, WrittenSince, Unwritten
<1> QED
  BY <1>0, <1>13 DEF s

-----------------------------------------------------------------------------
(* When the three checks pass, nothing of what they cover was written.     *)
LEMMA ChecksCoverDamage ==
  ASSUME NEW h \in Heap, ListsLinked(h), h.top # 0,
         SnapshotOf(h, topchunksize, unsorted, tcache, tcacheHasData),
         WrittenSince(h, heap, written), Checks
  PROVE  written \cap Covered = {}
<1> SUFFICES ASSUME NEW x \in written, x \in Covered PROVE FALSE
  OBVIOUS
<1>1. check_topchunk /\ check_unsorted /\ check_tcache
  BY DEF Checks
<1>2. heap.us = h.us /\ heap.tc = h.tc
  BY DEF WrittenSince
<1>3. UnsortedLinked(h) /\ \A t \in TcIdx : TcacheLinked(h, t)
  BY DEF ListsLinked
<1>4. CASE topMode /\ x \in TopCovered
  BY <1>1, <1>4, TopCheckFinds DEF TopCovered
<1>5. CASE usbMode /\ x = <<BIN, "fd">>
  BY <1>1, <1>3, <1>5, UnsortedCheckFinds
<1>6. CASE usbMode /\ x \in FirstOf(Ring(h.us), USB_ENTRIES_MAX) \X {"size", "fd", "bk"}
  <2>1. PICK i \in DOMAIN Ring(h.us), f \in {"size", "fd", "bk"} :
          i <= USB_ENTRIES_MAX /\ x = <<Ring(h.us)[i], f>>
    BY <1>6 DEF FirstOf
  <2>2. i \in 1..Len(h.us) + 1
    BY <1>3 DEF UnsortedLinked, Ring
  <2>3. Unwritten(Ring(h.us)[i], {"size", "fd", "bk"}, written)
    BY <1>1, <1>3, <1>6, <2>1, <2>2, UnsortedCheckFinds
  <2> QED BY <2>1, <2>3 DEF Unwritten
<1>7. CASE tcaActive /\ \E t \in TcIdx :
              h.tc[t] # <<>> /\ tcacheUsed(heap, t) /\ x \in BinCovered(t)
  <2>1. PICK t \in TcIdx : /\ h.tc[t] # <<>> /\ tcacheUsed(heap, t)
                           /\ x \in BinCovered(t)
    BY <1>7
  <2>2. TcacheLinked(h, t) /\ h.tc[t] \in Seq(Ptr)
    BY <1>3 DEF TcacheLinked
  <2>3. \A b \in DOMAIN h.tc[t] : b <= TCA_BIN_SIZE =>
          /\ <<t, "entries">> \notin written
          /\ Unwritten(h.tc[t][b], {"size", "fd"}, written)
    BY <1>1, <1>7, <2>1, <2>2, TcacheCheckFinds
  <2>4. CASE x = <<t, "entries">>
    <3>1. 1 \in DOMAIN h.tc[t] /\ 1 <= TCA_BIN_SIZE
      BY <2>1, <2>2, ShadowAssumption
    <3> QED BY <2>3, <2>4, <3>1
  <2>5. CASE x \in FirstOf(h.tc[t], TCA_BIN_SIZE) \X {"size", "fd"}
    <3>1. PICK b \in DOMAIN h.tc[t], f \in {"size", "fd"} :
            b <= TCA_BIN_SIZE /\ x = <<h.tc[t][b], f>>
      BY <2>5 DEF FirstOf
    <3> QED BY <2>3, <3>1 DEF Unwritten
  <2> QED BY <1>2, <2>1, <2>4, <2>5 DEF BinCovered
<1> QED
  BY <1>2, <1>4, <1>5, <1>6, <1>7 DEF Covered, UnsortedCovered, Ring

(* Snapshots that were just taken are those of the heap, and nothing is    *)
(* written to it yet.                                                      *)
SnapshotsOf(h) == SnapshotOf(h, topchunksize, unsorted, tcache, tcacheHasData)

(* The snapshots of a call describe the heap it left.                      *)
LEMMA SnapshotsTaken ==
  ASSUME NEW h, take_snapshots(h), tcache \in [TcIdx -> [1..TCA_BIN_SIZE -> Bucket]]
  PROVE  SnapshotOf(h, topchunksize', unsorted', tcache', tcacheHasData')
<1>1. topMode => topchunksize' = h.top
  BY DEF take_snapshots, store_topchunk
<1>2. usbMode => \E w \in UnsortedPaths :
        /\ IsUnsortedWalk(h, w)
        /\ unsorted' = [i \in 1..Len(w) |-> LinkMeta(h, w[i])]
  BY DEF take_snapshots, store_unsorted
<1>3. ASSUME tcaActive
      PROVE  \E ws \in [TcIdx -> TcachePaths] :
               /\ \A t \in TcIdx :
                    /\ IsTcacheWalk(h, t, ws[t])
                    /\ \A b \in 1..Len(ws[t]) : tcache'[t][b] = TcacheMeta(h, ws[t][b])
               /\ tcacheHasData' = (\E t \in TcIdx : ws[t] # <<>>)
  <2>1. PICK ws \in [TcIdx -> TcachePaths] :
          /\ \A t \in TcIdx : IsTcacheWalk(h, t, ws[t])
          /\ tcache' = [t \in TcIdx |-> [b \in 1..TCA_BIN_SIZE |->
                         IF b <= Len(ws[t]) THEN TcacheMeta(h, ws[t][b])
                                            ELSE tcache[t][b]]]
          /\ tcacheHasData' = (\E t \in TcIdx : ws[t] # <<>>)
    BY <1>3 DEF take_snapshots, store_tcache
  <2>2. ASSUME NEW t \in TcIdx, NEW b \in 1..Len(ws[t])
        PROVE  tcache'[t][b] = TcacheMeta(h, ws[t][b])
    <3>1. Len(ws[t]) \in 0..TCA_BIN_SIZE /\ TCA_BIN_SIZE \in Nat
      BY TcachePathFacts, ShadowAssumption
    <3>2. b \in 1..TCA_BIN_SIZE /\ b <= Len(ws[t])
      BY <3>1
    <3> QED BY <2>1, <3>2
  <2> QED BY <2>1, <2>2
<1> QED
  BY <1>1, <1>2, <1>3 DEF SnapshotOf

(* What is written in chunks in use is not in a list.                      *)
LEMMA NothingWrittenYet ==
  ASSUME NEW h, NEW wr \in SUBSET (Places \X Fields),
         \A x \in wr : x[1] \in h.live, h.live \subseteq Ptr
  PROVE  WrittenSince(h, h, wr)
<1>1. \A n, f : <<n, f>> \in wr => n \in h.live
  OBVIOUS
<1>2. TOP \notin h.live /\ \A t \in TcIdx : t \notin h.live
  BY HeapAssumption
<1> QED
  BY <1>1, <1>2 DEF WrittenSince

-----------------------------------------------------------------------------
(* After a call that was snapshotted: the memory is what glibc left.       *)
LEMMA CallSnapped ==
  ASSUME TypeOK, NEW live \in SUBSET Ptr, heap' \in Rearranged(heap, live),
         take_snapshots(heap'), written' = written, \A x \in written : x[1] \in live
  PROVE  DamageShows'
<1>1. heap' \in Heap /\ heap'.live = live
  BY RearrangedFacts
<1>2. ListsLinked(heap') /\ heap'.top # 0
  BY ListsAreLinked
<1>3. SnapshotOf(heap', topchunksize', unsorted', tcache', tcacheHasData')
  BY SnapshotsTaken DEF TypeOK
<1>4. WrittenSince(heap', heap', written)
  <2>1. written \in SUBSET (Places \X Fields)
    BY DEF TypeOK
  <2> QED BY <1>1, <2>1, NothingWrittenYet
<1>5. Snapped(heap', topchunksize', unsorted', tcache', tcacheHasData', written')
  BY <1>1, <1>2, <1>3, <1>4 DEF Snapped
<1> QED
  BY <1>5 DEF DamageShows

(* A stray write changes the one field it is about, and in memory only.    *)
LEMMA WriteNodeFacts ==
  ASSUME heap \in Heap, NEW n \in Node, NEW field \in Fields, WriteNode(n, field)
  PROVE  /\ heap'.top = heap.top /\ heap'.us = heap.us /\ heap'.tc = heap.tc
         /\ heap'.live = heap.live
         /\ heap'.entries = heap.entries /\ heap'.counts = heap.counts
         /\ \A m \in Node \ {n} : heap'.hdr[m] = heap.hdr[m]
         /\ /\ chunksize(heap'.hdr[n].size) # chunksize(heap.hdr[n].size) <=> field = "size"
            /\ heap'.hdr[n].fd # heap.hdr[n].fd <=> field = "fd"
            /\ heap'.hdr[n].bk # heap.hdr[n].bk <=> field = "bk"
<1>1. /\ heap \in [hdr : [Node -> Header], top : Nat, entries : [TcIdx -> Link],
                  counts : [TcIdx -> Nat], us : Seq(Ptr),
                  tc : [TcIdx -> Seq(Ptr)], live : SUBSET Ptr]
      /\ heap.hdr[n] \in Header
  BY DEF Heap
<1>2. ASSUME NEW hd, heap' = [heap EXCEPT !.hdr[n] = hd]
      PROVE  /\ heap'.top = heap.top /\ heap'.us = heap.us /\ heap'.tc = heap.tc
             /\ heap'.live = heap.live
             /\ heap'.entries = heap.entries /\ heap'.counts = heap.counts
             /\ \A m \in Node \ {n} : heap'.hdr[m] = heap.hdr[m]
             /\ heap'.hdr[n] = hd
  BY <1>1, <1>2
<1>3. CASE field \in {"size", "flags"}
  <2>1. PICK z \in RawSizes \ {heap.hdr[n].size} :
          /\ (field = "flags") <=> (chunksize(z) = chunksize(heap.hdr[n].size))
          /\ heap' = [heap EXCEPT !.hdr[n].size = z]
    BY <1>3 DEF WriteNode
  <2> DEFINE hd == [heap.hdr[n] EXCEPT !.size = z]
  <2>2. heap' = [heap EXCEPT !.hdr[n] = hd]
    BY <2>1
  <2>3. hd.size = z /\ hd.fd = heap.hdr[n].fd /\ hd.bk = heap.hdr[n].bk
    BY <1>1 DEF Header
  <2> HIDE DEF hd
  <2> QED BY <1>2, <1>3, <2>1, <2>2, <2>3
<1>4. CASE field = "fd"
  <2>1. PICK x \in Link \ {heap.hdr[n].fd} : heap' = [heap EXCEPT !.hdr[n].fd = x]
    BY <1>4 DEF WriteNode
  <2> DEFINE hd == [heap.hdr[n] EXCEPT !.fd = x]
  <2>2. heap' = [heap EXCEPT !.hdr[n] = hd]
    BY <2>1
  <2>3. hd.size = heap.hdr[n].size /\ hd.fd = x /\ hd.bk = heap.hdr[n].bk
    BY <1>1 DEF Header
  <2> HIDE DEF hd
  <2> QED BY <1>2, <1>4, <2>1, <2>2, <2>3
<1>5. CASE field = "bk"
  <2>1. PICK x \in Link \ {heap.hdr[n].bk} : heap' = [heap EXCEPT !.hdr[n].bk = x]
    BY <1>5 DEF WriteNode
  <2> DEFINE hd == [heap.hdr[n] EXCEPT !.bk = x]
  <2>2. heap' = [heap EXCEPT !.hdr[n] = hd]
    BY <2>1
  <2>3. hd.size = heap.hdr[n].size /\ hd.fd = heap.hdr[n].fd /\ hd.bk = x
    BY <1>1 DEF Header
  <2> HIDE DEF hd
  <2> QED BY <1>2, <1>5, <2>1, <2>2, <2>3
<1>6. field \in {"size", "flags", "fd", "bk"}
  BY DEF WriteNode
<1> QED
  BY <1>3, <1>4, <1>5, <1>6

(* What was written since the snapshots is what differs from then.         *)
LEMMA WriteKeepsTrack ==
  ASSUME TypeOK, NEW h, WrittenSince(h, heap, written),
         NEW n \in Places, NEW field \in Fields, StrayWrite(n, field)
  PROVE  WrittenSince(h, heap', written')
<1>1. heap \in Heap /\ <<n, field>> \notin written /\ written' = written \cup {<<n, field>>}
  BY DEF TypeOK, StrayWrite
<1>2. /\ \A m \in Node : m # TOP /\ m \notin TcIdx
      /\ TOP \notin TcIdx
  BY HeapAssumption DEF Node
<1>4. CASE n = TOP /\ WriteTop(field)
  <2>1. /\ heap'.us = heap.us /\ heap'.tc = heap.tc /\ heap'.live = heap.live
        /\ heap'.hdr = heap.hdr /\ heap'.entries = heap.entries
    BY <1>1, <1>4 DEF WriteTop, Heap
  <2>2. \/ field = "size" /\ <<TOP, "ptr">> \notin written /\ heap'.top # heap.top
        \/ field = "size" /\ <<TOP, "ptr">> \in written
        \/ field = "ptr"
    BY <1>1, <1>4 DEF WriteTop, Heap
  <2>3. <<TOP, "ptr">> \notin written' =>
          (<<TOP, "size">> \in written' <=> heap'.top # h.top)
    BY <1>1, <1>4, <2>2 DEF WrittenSince
  <2> QED BY <1>1, <1>2, <1>4, <2>1, <2>3 DEF WrittenSince
<1>5. CASE n \in TcIdx /\ WriteBin(n, field)
  <2>1. /\ heap'.us = heap.us /\ heap'.tc = heap.tc /\ heap'.live = heap.live
        /\ heap'.hdr = heap.hdr /\ heap'.top = heap.top
    BY <1>1, <1>5 DEF WriteBin, Heap
  <2>2. ASSUME NEW t \in TcIdx
        PROVE  <<t, "entries">> \in written' <=> heap'.entries[t] # h.entries[t]
    <3>1. <<t, "entries">> \in written <=> heap.entries[t] # h.entries[t]
      BY DEF WrittenSince
    <3>2. heap.entries \in [TcIdx -> Link]
      BY <1>1 DEF Heap
    <3>3. CASE field = "entries"
      <4>1. PICK x \in Link \ {entries(heap, n)} : heap' = [heap EXCEPT !.entries[n] = x]
        BY <1>5, <3>3 DEF WriteBin
      <4>2. heap'.entries = [heap.entries EXCEPT ![n] = x] /\ x # heap.entries[n]
        BY <1>1, <4>1 DEF Heap, entries
      <4>3. CASE t = n
        BY <1>1, <1>5, <3>1, <3>2, <3>3, <4>2, <4>3
      <4>4. CASE t # n
        BY <1>1, <1>5, <3>1, <3>2, <4>2, <4>4
      <4> QED BY <4>3, <4>4
    <3>4. CASE field # "entries"
      <4>1. heap'.entries = heap.entries
        BY <1>1, <1>5, <3>4 DEF WriteBin, Heap
      <4> QED BY <1>1, <3>1, <3>4, <4>1
    <3> QED BY <3>3, <3>4
  <2> QED BY <1>1, <1>2, <1>5, <2>1, <2>2 DEF WrittenSince
<1>3. CASE n \in Node /\ WriteNode(n, field)
  <2>1. n \in Node /\ WriteNode(n, field)
    BY <1>3
  <2>2. /\ heap'.us = h.us /\ heap'.tc = h.tc /\ heap'.live = h.live
        /\ <<TOP, "ptr">> \notin written' =>
             (<<TOP, "size">> \in written' <=> heap'.top # h.top)
        /\ \A t \in TcIdx : <<t, "entries">> \in written' <=> heap'.entries[t] # h.entries[t]
    BY <1>1, <1>2, <2>1, WriteNodeFacts DEF WrittenSince
  <2>3. ASSUME NEW m \in Node \ h.live, m # n
        PROVE  /\ heap'.hdr[m] = heap.hdr[m]
               /\ \A f \in Fields : <<m, f>> \in written' <=> <<m, f>> \in written
    BY <1>1, <2>1, <2>3, WriteNodeFacts
  <2>4. ASSUME NEW m \in Node \ h.live
        PROVE  /\ <<m, "size">> \in written'
                    <=> chunksize(heap'.hdr[m].size) # chunksize(h.hdr[m].size)
               /\ <<m, "fd">> \in written' <=> heap'.hdr[m].fd # h.hdr[m].fd
               /\ <<m, "bk">> \in written' <=> heap'.hdr[m].bk # h.hdr[m].bk
    <3>1. /\ <<m, "size">> \in written
               <=> chunksize(heap.hdr[m].size) # chunksize(h.hdr[m].size)
          /\ <<m, "fd">> \in written <=> heap.hdr[m].fd # h.hdr[m].fd
          /\ <<m, "bk">> \in written <=> heap.hdr[m].bk # h.hdr[m].bk
      BY <2>4 DEF WrittenSince
    <3>2. CASE m # n
      BY <2>3, <3>1, <3>2 DEF Fields
    <3>3. CASE m = n
      <4>1. /\ chunksize(heap'.hdr[n].size) # chunksize(heap.hdr[n].size) <=> field = "size"
            /\ heap'.hdr[n].fd # heap.hdr[n].fd <=> field = "fd"
            /\ heap'.hdr[n].bk # heap.hdr[n].bk <=> field = "bk"
        BY <1>1, <2>1, WriteNodeFacts
      <4>2. \A f : <<n, f>> \in written' <=> <<n, f>> \in written \/ f = field
        BY <1>1
      <4> QED BY <1>1, <3>1, <3>3, <4>1, <4>2
    <3> QED BY <3>2, <3>3
  <2> QED BY <2>2, <2>4 DEF WrittenSince
<1> QED
  BY <1>3, <1>4, <1>5 DEF StrayWrite

-----------------------------------------------------------------------------
(* A successful malloc() or calloc().                                      *)
LEMMA AllocateShows == ASSUME TypeOK, SInv, DamageShows, Allocate PROVE DamageShows'
<1>1. CASE status' # "running" \/ ~fresh'
  BY <1>1 DEF DamageShows
<1>2. CASE /\ FreeMemoryIntact /\ AllocateSucceeds /\ initialized
           /\ UNCHANGED <<initialized, status, written, freeing>>
  <2>1. PICK p \in Ptr \ heap.live :
          /\ heap' \in Rearranged(heap, heap.live \cup {p})
          /\ malloc_post(heap', p)
    BY <1>2 DEF AllocateSucceeds
  <2>2. take_snapshots(heap')
    BY <1>2, <2>1 DEF malloc_post
  <2>3. heap.live \cup {p} \in SUBSET Ptr
    BY DEF TypeOK, Heap
  <2>4. \A x \in written : x[1] \in heap.live \cup {p}
    BY <1>2 DEF FreeMemoryIntact
  <2> QED BY <1>2, <2>1, <2>2, <2>3, <2>4, CallSnapped
<1>3. CASE StopAtChecks \/ StopCalling("undefined")
  BY <1>1, <1>3, ChecksEnd DEF Stop, StopCalling
<1>4. CASE AllocateFails
  BY <1>1, <1>4 DEF AllocateFails
<1>5. AllocateSucceeds => fresh' = initialized
  BY DEF AllocateSucceeds
<1> QED
  BY <1>1, <1>2, <1>3, <1>4, <1>5 DEF Allocate

(* A successful free(): glibc keeps the header of what is in use.          *)
LEMMA FreeShows ==
  ASSUME TypeOK, SInv, DamageShows, NEW p \in Ptr, free(p)
  PROVE  DamageShows'
<1>1. CASE status' # "running" \/ ~fresh'
  BY <1>1 DEF DamageShows
<1>2. CASE /\ FreeMemoryIntact /\ ChunkIntact(p) /\ initialized
           /\ heap' \in Rearranged(heap, heap.live \ {p})
           /\ take_snapshots(heap')
           /\ UNCHANGED <<initialized, status, written, freeing>>
  <2>1. heap.live \ {p} \in SUBSET Ptr
    BY DEF TypeOK, Heap
  <2>2. \A x \in written : x[1] \in heap.live \ {p}
    BY <1>2 DEF FreeMemoryIntact, ChunkIntact
  <2> QED BY <1>2, <2>1, <2>2, CallSnapped
<1>3. \/ status' # "running" \/ ~fresh'
      \/ /\ FreeMemoryIntact /\ ChunkIntact(p) /\ initialized
         /\ heap' \in Rearranged(heap, heap.live \ {p})
         /\ take_snapshots(heap')
         /\ UNCHANGED <<initialized, status, written, freeing>>
  BY ChecksEnd DEF free, Calling, StopCalling, StopFreeing, Stop
<1> QED
  BY <1>1, <1>2, <1>3

(* A realloc() that moves the data.                                        *)
LEMMA ReallocShows ==
  ASSUME TypeOK, SInv, DamageShows, NEW p \in Ptr, realloc(p)
  PROVE  DamageShows'
<1>1. CASE status' # "running" \/ ~fresh'
  BY <1>1 DEF DamageShows
<1>2. CASE initialized /\ \E q \in Ptr \ heap.live :
              /\ FreeMemoryIntact /\ ChunkIntact(p) /\ MoveTo(p, q)
              /\ UNCHANGED <<initialized, status, written, freeing>>
  <2>1. PICK q \in Ptr \ heap.live :
           /\ FreeMemoryIntact /\ ChunkIntact(p) /\ MoveTo(p, q)
           /\ UNCHANGED <<initialized, status, written, freeing>>
    BY <1>2
  <2>2. /\ heap' \in Rearranged(heap, (heap.live \cup {q}) \ {p})
        /\ take_snapshots(heap')
    BY <1>2, <2>1 DEF MoveTo, ReallocFrees
  <2>3. (heap.live \cup {q}) \ {p} \in SUBSET Ptr
    BY DEF TypeOK, Heap
  <2>4. \A x \in written : x[1] \in (heap.live \cup {q}) \ {p}
    BY <2>1 DEF FreeMemoryIntact, ChunkIntact
  <2> QED BY <2>1, <2>2, <2>3, <2>4, CallSnapped
<1>3. \/ status' # "running" \/ ~fresh'
      \/ initialized /\ \E q \in Ptr \ heap.live :
            /\ FreeMemoryIntact /\ ChunkIntact(p) /\ MoveTo(p, q)
            /\ UNCHANGED <<initialized, status, written, freeing>>
  <2>1. CASE \E q \in Ptr \ heap.live :
            /\ FreeMemoryIntact /\ ChunkIntact(p) /\ MoveTo(p, q)
            /\ UNCHANGED <<initialized, status, written, freeing>>
    <3>1. fresh' = initialized
      BY <2>1 DEF MoveTo
    <3> QED BY <2>1, <3>1
  <2>2. CASE Stop("trapped") \/ Stop("undefined") \/ Stop("segv")
    BY <2>2 DEF Stop
  <2> QED BY <2>1, <2>2, ChecksEnd DEF realloc, StopCalling, StopFreeing
<1> QED
  BY <1>1, <1>2, <1>3

(* Every step keeps DamageShows.                                           *)
LEMMA NextShows == TypeOK /\ SInv /\ DamageShows /\ [Next]_vars => DamageShows'
<1> SUFFICES ASSUME TypeOK, SInv, DamageShows, [Next]_vars PROVE DamageShows'
  OBVIOUS
<1>1. CASE ensure_initialized
  BY <1>1 DEF ensure_initialized, SInv, NotYet, DamageShows
<1>2. CASE Allocate
  BY <1>2, AllocateShows
<1>3. CASE \E p \in Ptr : free(p) \/ realloc(p)
  BY <1>3, FreeShows, ReallocShows
<1>4. CASE \E n \in Places, field \in Fields : StrayWrite(n, field)
  <2>1. PICK n \in Places, field \in Fields : StrayWrite(n, field)
    BY <1>4
  <2>2. /\ status = "running" /\ fresh' = fresh
        /\ UNCHANGED <<topchunksize, unsorted, tcache, tcacheHasData>>
    BY <2>1 DEF StrayWrite, snapshots
  <2> SUFFICES ASSUME fresh
               PROVE  Snapped(heap', topchunksize', unsorted', tcache', tcacheHasData', written')
    BY <2>2 DEF DamageShows
  <2>3. PICK h \in Heap : /\ ListsLinked(h) /\ h.top # 0
                          /\ SnapshotOf(h, topchunksize, unsorted, tcache, tcacheHasData)
                          /\ WrittenSince(h, heap, written)
    BY <2>2 DEF DamageShows, Snapped
  <2>4. WrittenSince(h, heap', written')
    BY <2>1, <2>3, WriteKeepsTrack
  <2> QED BY <2>2, <2>3, <2>4 DEF Snapped
<1>5. CASE Stopped \/ UNCHANGED vars
  BY <1>5 DEF Stopped, vars, DamageShows
<1> QED
  BY <1>1, <1>2, <1>3, <1>4, <1>5 DEF Next

(* In every reachable state with new snapshots, they are those of a well   *)
(* linked heap that differs from the memory in what was written.           *)
THEOREM DamageShowsAlways == Spec => [](TypeOK /\ SInv /\ DamageShows)
<1>1. Init => DamageShows
  BY DEF Init, DamageShows
<1>2. TypeOK /\ SInv /\ DamageShows /\ [Next]_vars => DamageShows'
  BY NextShows
<1> QED
  BY <1>1, <1>2, SafetyInvariant, PTL DEF Spec

(* The facade reports damage before glibc can work on it.                  *)
THEOREM DamageCaughtAlways == Spec => DamageCaughtAtNextCall
<1>1. ASSUME TypeOK, SInv, DamageShows, [Next]_vars, status = "running", fresh,
             written \cap Covered # {}, ~UNCHANGED vars, written' = written
      PROVE  status' \in {"trapped", "segv"}
  <2>1. initialized
    BY <1>1 DEF SInv, NotYet, TypeOK
  <2>2. ~Checks
    <3>1. PICK h \in Heap : /\ ListsLinked(h) /\ h.top # 0
                            /\ SnapshotOf(h, topchunksize, unsorted, tcache, tcacheHasData)
                            /\ WrittenSince(h, heap, written)
      BY <1>1 DEF DamageShows, Snapped
    <3> QED BY <1>1, <3>1, ChecksCoverDamage
  <2>3. ~pre_checks
    BY <2>1, <2>2 DEF pre_checks, Checks
  <2>4. ~(\E n \in Places, field \in Fields : StrayWrite(n, field))
    BY <1>1 DEF StrayWrite
  <2>5. Allocate \/ \E p \in Ptr : free(p) \/ realloc(p)
    BY <1>1, <2>1, <2>4 DEF Next, ensure_initialized, Stopped
  <2>6. StopAtChecks
    BY <2>3, <2>5 DEF Allocate, free, realloc
  <2> QED BY <2>6, ChecksEnd DEF Stop, StopCalling
<1>2. TypeOK /\ SInv /\ DamageShows /\ [Next]_vars =>
        [status = "running" /\ fresh /\ written \cap Covered # {} /\ written' = written
           => status' \in {"trapped", "segv"}]_vars
  BY <1>1
<1> QED
  BY <1>2, DamageShowsAlways, PTL DEF Spec, DamageCaughtAtNextCall

-----------------------------------------------------------------------------
(* The promise of the wrapper to the application.                          *)

(* The state functions that AllocatorSpec's variables stand for.           *)
Faulty == written # {} \/ badFree
Tainted == fresh /\ written \cap Covered # {}

(* All that is known of a program that is not short of memory and makes no *)
(* calls before the constructor.                                           *)
PromiseInv == TypeOK /\ SInv /\ DamageShows /\ AlwaysSnapshotted /\ NothingLeaks

(* It is invariant.                                                        *)
LEMMA PromiseInvariant ==
  ASSUME ~MallocMayFail, ~EarlyCalls
  PROVE  Spec => []PromiseInv
<1>1. Init => AlwaysSnapshotted
  BY DEF Init, AlwaysSnapshotted, NoSnapshots
<1>2. AlwaysSnapshotted /\ [Next]_vars => AlwaysSnapshotted'
  BY AlwaysSnapshottedStep
<1>3. Spec => []NothingLeaks
  BY NothingLeaksAlways
<1>4. TypeOK /\ SInv /\ DamageShows /\ AlwaysSnapshotted /\ NothingLeaks => PromiseInv
  BY DEF PromiseInv
<1> QED
  BY <1>1, <1>2, <1>3, <1>4, DamageShowsAlways, PTL DEF Spec

(* Checks that pass leave nothing damaged that is covered.                 *)
LEMMA ChecksMeanClean ==
  TypeOK /\ DamageShows /\ Checks /\ status = "running" => ~Tainted
<1> SUFFICES ASSUME TypeOK, DamageShows, Checks, status = "running", fresh
             PROVE  written \cap Covered = {}
  BY DEF Tainted
<1>1. PICK h \in Heap : /\ ListsLinked(h) /\ h.top # 0
                        /\ SnapshotOf(h, topchunksize, unsorted, tcache, tcacheHasData)
                        /\ WrittenSince(h, heap, written)
  BY DEF DamageShows, Snapped
<1> QED BY <1>1, ChecksCoverDamage

(* So do the checks of the state after a step.                             *)
LEMMA ChecksMeanCleanNext ==
  (TypeOK /\ DamageShows /\ Checks /\ status = "running")' => ~Tainted'
BY ChecksMeanClean, PTL

(* A call whose checks pass is made with nothing damaged that is covered.  *)
LEMMA CallsAreClean ==
  ASSUME PromiseInv, Calling, ~EarlyCalls, pre_checks
  PROVE  ~Tainted
BY ChecksMeanClean DEF PromiseInv, Calling, pre_checks, Checks

(* A call that takes snapshots leaves nothing damaged that is covered.     *)
LEMMA ServedClean ==
  ASSUME PromiseInv', status' = "running", take_snapshots(heap')
  PROVE  ~Tainted'
<1>1. TypeOK' /\ DamageShows' /\ heap' \in Heap
  BY DEF PromiseInv, TypeOK
<1>2. Checks'
  BY <1>1, SnapshotsMatch
<1> QED
  BY <1>1, <1>2, ChecksMeanCleanNext

(* An end changes neither what is held nor what is damaged.                *)
LEMMA EndFacts ==
  ASSUME NEW how, Stop(how)
  PROVE  /\ status' = how /\ UNCHANGED <<owned, written, fresh>>
         /\ Tainted' = Tainted
BY DEF Stop, Tainted, Covered, TopCovered, UnsortedCovered, BinCovered, tcacheUsed,
       entries, counts

(* The ends of a program that has made an error.                           *)
LEMMA EndsPromised ==
  ASSUME PromiseInv, status = "running", Faulty, UNCHANGED badFree,
         Stop("trapped") \/ Stop("segv") \/ (Stop("undefined") /\ ~Tainted)
  PROVE  Promise!EndsAfterError
<1>1. CASE Stop("trapped") \/ Stop("segv")
  <2>1. PICK how \in {"trapped", "segv"} : Stop(how)
    BY <1>1
  <2>2. /\ status' = how /\ UNCHANGED <<owned, written, fresh>> /\ Tainted' = Tainted
    BY <2>1, EndFacts
  <2>3. Promise!Ends("stopped")
    BY <2>1, <2>2 DEF Promise!Ends, Tainted
  <2> QED BY <2>2, <2>3 DEF Promise!EndsAfterError, Faulty
<1>2. CASE Stop("undefined") /\ ~Tainted
  <2>1. status' = "undefined" /\ UNCHANGED <<owned, written, fresh>> /\ Tainted' = Tainted
    BY <1>2, EndFacts
  <2>2. Promise!Ends("undefined")
    BY <1>2, <2>1 DEF Promise!Ends, Tainted
  <2> QED BY <2>1, <2>2 DEF Promise!EndsAfterError, Faulty
<1> QED BY <1>1, <1>2

(* An alarm before a call means that the application has made an error.    *)
LEMMA AlarmMeansError ==
  ASSUME PromiseInv, status = "running", ~pre_checks
  PROVE  Faulty
BY ChecksFail DEF PromiseInv, AlwaysSnapshotted, Faulty

(* malloc() and calloc().                                                  *)
LEMMA AllocatePromised ==
  ASSUME ~MallocMayFail, ~EarlyCalls, PromiseInv, PromiseInv', Allocate
  PROVE  Promise!Malloc \/ Promise!EndsAfterError
<1>1. status = "running" /\ initialized /\ Calling /\ UNCHANGED badFree
  BY DEF Allocate, Calling
<1>2. CASE StopAtChecks
  BY <1>1, <1>2, ChecksEnd, AlarmMeansError, EndsPromised DEF StopCalling
<1>3. CASE pre_checks /\ AnyDamage /\ StopCalling("undefined")
  BY <1>1, <1>3, CallsAreClean, EndsPromised DEF AnyDamage, StopCalling, Faulty
<1>4. CASE pre_checks /\ AllocateSucceeds /\ UNCHANGED <<initialized, status, written, freeing>>
  <2>1. PICK p \in Ptr \ heap.live : malloc_post(heap', p) /\ owned' = owned \cup {p}
    BY <1>4 DEF AllocateSucceeds
  <2>2. p \in Ptr \ owned
    BY <1>1, <2>1 DEF PromiseInv, NothingLeaks
  <2>3. ~Tainted
    BY <1>1, <1>4, CallsAreClean
  <2>4. ~Tainted'
    BY <1>1, <1>4, <2>1, ServedClean DEF malloc_post
  <2>5. Promise!Serving
    BY <1>1, <1>4, <2>3, <2>4 DEF Promise!Serving, Tainted
  <2> QED BY <2>1, <2>2, <2>5 DEF Promise!Malloc
<1> QED
  BY <1>2, <1>3, <1>4 DEF Allocate, AllocateFails

(* free() of what the application holds.                                   *)
LEMMA FreePromised ==
  ASSUME ~EarlyCalls, PromiseInv, PromiseInv', NEW p \in owned, free(p)
  PROVE  Promise!Free \/ Promise!EndsAfterError
<1>1. /\ status = "running" /\ initialized /\ Calling /\ badFree' = (badFree \/ p \notin owned)
      /\ p \in Ptr /\ p \in heap.live /\ badFree \in BOOLEAN
  BY DEF free, Calling, PromiseInv, TypeOK, NothingLeaks
<1>2. UNCHANGED badFree
  BY <1>1
<1>3. CASE StopAtChecks
  BY <1>1, <1>2, <1>3, ChecksEnd, AlarmMeansError, EndsPromised DEF StopCalling
<1>4. CASE ~check_pointer_before_free(p) /\ StopFreeing(p, "trapped")
  <2>1. p \in owned \ early
    BY DEF PromiseInv, AlwaysSnapshotted
  <2>2. <<p, "size">> \in written
    BY <1>1, <1>4, <2>1, PointerChecks DEF PromiseInv
  <2> QED BY <1>1, <1>2, <1>4, <2>2, EndsPromised DEF Faulty, StopFreeing
<1>5. CASE pre_checks /\ AnyDamage /\ StopFreeing(p, "undefined")
  BY <1>1, <1>2, <1>5, CallsAreClean, EndsPromised DEF AnyDamage, StopFreeing, Faulty
<1>6. CASE /\ pre_checks /\ take_snapshots(heap') /\ owned' = owned \ {p}
           /\ UNCHANGED <<initialized, status, written, freeing>>
  <2>1. ~Tainted
    BY <1>1, <1>6, CallsAreClean
  <2>2. ~Tainted'
    BY <1>1, <1>6, ServedClean
  <2>3. Promise!Serving
    BY <1>1, <1>2, <1>6, <2>1, <2>2 DEF Promise!Serving, Tainted
  <2> QED BY <1>6, <2>3 DEF Promise!Free
<1> QED
  BY <1>1, <1>3, <1>4, <1>5, <1>6 DEF free

(* free() of what it does not hold.                                        *)
LEMMA WrongFreePromised ==
  ASSUME ~EarlyCalls, PromiseInv, NEW p \in Ptr, p \notin owned, free(p)
  PROVE  Promise!WrongFree
<1>1. status = "running" /\ initialized /\ Calling /\ badFree' /\ p \notin heap.live
  BY DEF free, Calling, PromiseInv, NothingLeaks
<1>2. CASE Stop("trapped") \/ Stop("segv")
  <2>1. PICK how \in {"trapped", "segv"} : Stop(how)
    BY <1>2
  <2>2. /\ status' = how /\ UNCHANGED <<owned, written, fresh>> /\ Tainted' = Tainted
    BY <2>1, EndFacts
  <2>3. Promise!Ends("stopped")
    BY <1>1, <2>1, <2>2 DEF Promise!Ends, Tainted
  <2> QED BY <1>1, <2>3 DEF Promise!WrongFree
<1>3. CASE pre_checks /\ check_pointer_before_free(p) /\ Stop("undefined")
  <2>1. ~Tainted
    BY <1>1, <1>3, CallsAreClean
  <2>2. status' = "undefined" /\ UNCHANGED <<owned, written, fresh>> /\ Tainted' = Tainted
    BY <1>3, EndFacts
  <2>3. Promise!Ends("undefined")
    BY <1>1, <2>1, <2>2 DEF Promise!Ends, Tainted
  <2>4. ~ptrMode
    BY <1>1, <1>3 DEF check_pointer_before_free, RemoveOk, header_meta, PromiseInv, SInv,
                      StoreTracksLive
  <2> QED BY <1>1, <2>3, <2>4 DEF Promise!WrongFree
<1> QED
  BY <1>1, <1>2, <1>3, ChecksEnd DEF free, StopCalling, StopFreeing

(* realloc().                                                              *)
LEMMA ReallocPromised ==
  ASSUME ~MallocMayFail, ~EarlyCalls, PromiseInv, PromiseInv', NEW p \in Ptr, realloc(p)
  PROVE  Promise!Realloc \/ Promise!EndsAfterError
<1>1. /\ status = "running" /\ initialized /\ Calling /\ UNCHANGED badFree
      /\ p \in owned
  BY DEF realloc, Calling
<1>2. CASE StopAtChecks
  BY <1>1, <1>2, ChecksEnd, AlarmMeansError, EndsPromised DEF StopCalling
<1>3. CASE pre_checks /\ AnyDamage /\ StopCalling("undefined")
  BY <1>1, <1>3, CallsAreClean, EndsPromised DEF AnyDamage, StopCalling, Faulty
<1>4. CASE /\ pre_checks
           /\ AnyDamage \/ ~ChunkIntact(p)
           /\ StopCalling("segv") \/ StopFreeing(p, "undefined")
  <2>1. written # {}
    BY <1>4 DEF ChunkIntact, AnyDamage
  <2> QED
    BY <1>1, <1>4, <2>1, CallsAreClean, EndsPromised DEF StopCalling, StopFreeing, Faulty
<1>5. CASE ~check_pointer_before_free(p) /\ StopFreeing(p, "trapped")
  <2>1. p \in owned \ early
    BY <1>1 DEF PromiseInv, AlwaysSnapshotted
  <2>2. <<p, "size">> \in written
    BY <1>1, <1>5, <2>1, PointerChecks DEF PromiseInv
  <2> QED BY <1>1, <1>5, <2>2, EndsPromised DEF Faulty, StopFreeing
<1>6. CASE /\ pre_checks /\ \E q \in Ptr \ heap.live : MoveTo(p, q)
           /\ UNCHANGED <<initialized, status, written, freeing>>
  <2>1. PICK q \in Ptr \ heap.live : MoveTo(p, q)
    BY <1>6
  <2>2. take_snapshots(heap') /\ owned' = (owned \ {p}) \cup {q}
    BY <1>1, <2>1 DEF MoveTo
  <2>3. q \in Ptr \ owned
    BY <1>1, <2>1 DEF PromiseInv, NothingLeaks
  <2>4. ~Tainted
    BY <1>1, <1>6, CallsAreClean
  <2>5. ~Tainted'
    BY <1>1, <1>6, <2>2, ServedClean
  <2>6. Promise!Serving
    BY <1>1, <1>6, <2>4, <2>5 DEF Promise!Serving, Tainted
  <2> QED BY <1>1, <2>2, <2>3, <2>6 DEF Promise!Realloc
<1> QED
  BY <1>2, <1>3, <1>4, <1>5, <1>6 DEF realloc

(* A stray write is the application's error and ends nothing.             *)
LEMMA WritePromised ==
  ASSUME PromiseInv, NEW n \in Places, NEW field \in Fields, StrayWrite(n, field)
  PROVE  Promise!Damage
<1>1. /\ status = "running" /\ written' = written \cup {<<n, field>>}
      /\ UNCHANGED <<status, owned, badFree, fresh>>
  BY DEF StrayWrite
<1>2. Tainted' \in BOOLEAN
  BY <1>1 DEF Tainted, PromiseInv, TypeOK
<1> QED
  BY <1>1, <1>2 DEF Promise!Damage, Tainted

(* The constructor changes nothing the application can tell.               *)
LEMMA ConstructorPromised ==
  ASSUME PromiseInv, ensure_initialized
  PROVE  UNCHANGED Promise!vars
<1>1. ~fresh /\ UNCHANGED <<status, owned, written, badFree, fresh>>
  BY DEF ensure_initialized, PromiseInv, SInv, NotYet
<1> QED BY <1>1 DEF Promise!vars

(* Every step of ShadowHeap is one of the allocator or changes nothing.    *)
LEMMA StepPromised ==
  ASSUME ~MallocMayFail, ~EarlyCalls
  PROVE  PromiseInv /\ PromiseInv' /\ [Next]_vars => [Promise!Next]_(Promise!vars)
<1> SUFFICES ASSUME PromiseInv, PromiseInv', [Next]_vars
             PROVE  Promise!Next \/ UNCHANGED Promise!vars
  OBVIOUS
<1>1. CASE ensure_initialized
  BY <1>1, ConstructorPromised
<1>2. CASE Allocate
  BY <1>2, AllocatePromised DEF Promise!Next
<1>3. CASE \E p \in Ptr : free(p)
  <2>1. PICK p \in Ptr : free(p)
    BY <1>3
  <2>2. CASE p \in owned
    BY <2>1, <2>2, FreePromised DEF Promise!Next
  <2>3. CASE p \notin owned
    BY <2>1, <2>3, WrongFreePromised DEF Promise!Next
  <2> QED BY <2>2, <2>3
<1>4. CASE \E p \in Ptr : realloc(p)
  BY <1>4, ReallocPromised DEF Promise!Next
<1>5. CASE \E n \in Places, field \in Fields : StrayWrite(n, field)
  BY <1>5, WritePromised DEF Promise!Next
<1>6. CASE Stopped \/ UNCHANGED vars
  BY <1>6 DEF Stopped, vars, Promise!vars, Covered, TopCovered, UnsortedCovered,
              BinCovered, tcacheUsed, entries, counts
<1> QED
  BY <1>1, <1>2, <1>3, <1>4, <1>5, <1>6 DEF Next

(* ShadowHeap implements AllocatorSpec: what malloc(), calloc(), realloc() *)
(* and free() promise, for any chunks, modes, caps and number of errors.   *)
THEOREM KeepsPromiseAlways ==
  ASSUME ~MallocMayFail, ~EarlyCalls
  PROVE  Spec => KeepsPromise
<1>1. Init => Promise!Init
  BY DEF Init, Promise!Init
<1>2. PromiseInv /\ PromiseInv' /\ [Next]_vars => [Promise!Next]_(Promise!vars)
  BY StepPromised
<1>3. Spec => []PromiseInv
  BY PromiseInvariant
<1> QED
  BY <1>1, <1>2, <1>3, PTL DEF Spec, KeepsPromise, Promise!Spec
=============================================================================
