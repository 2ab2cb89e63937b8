------------------------ MODULE CachedMetaStoreProofs ------------------------
(***************************************************************************)
(* Proofs about the cached store (src/src/store/CachedMetaStore.h), for    *)
(* any pointers, sizes, hash function, victims, number of slots in a bin   *)
(* and number of bins to start with, and for tables that grow at any time  *)
(* by any factor.                                                          *)
(*                                                                         *)
(* What makes the loops of reserve_double() right is HalfSettled: in the   *)
(* middle of them an entry that was passed is in the bin of its hash in    *)
(* the new table, one that was not is in that of the old table, and a new  *)
(* bin has taken entries from one old bin only, the one with its number    *)
(* modulo the old size (ModMod), into slots the loop has passed there.  So *)
(* the slot with the number of the one to be moved is free in the new bin  *)
(* (RoomInNewBin), and RehashFindsRoom follows.                            *)
(*                                                                         *)
(* The second half shows that the store implements MetaStoreSpec: the map  *)
(* is determined by which entries there are, not by their places, so every *)
(* operation is the one of its name on the map, with the same answer, and  *)
(* the steps of a growing table leave the map alone.                       *)
(***************************************************************************)
EXTENDS CachedMetaStore, FiniteSetTheorems, WellFoundedInduction, TLAPS

-----------------------------------------------------------------------------
(* Numbers.                                                                *)
LEMMA ModRange ==
  ASSUME NEW a \in Nat, NEW n \in Nat \ {0} PROVE a % n \in 0..n - 1
OBVIOUS

(* A number below the modulus is its own remainder.                        *)
LEMMA ModSmall ==
  ASSUME NEW n \in Nat \ {0}, NEW a \in 0..n - 1 PROVE a % n = a
OBVIOUS

(* Quotient and remainder.                                                 *)
LEMMA DivMod ==
  ASSUME NEW a \in Nat, NEW n \in Nat \ {0}
  PROVE  a \div n \in Nat /\ a = (n * (a \div n)) + (a % n)
OBVIOUS

(* There is only one remainder.                                            *)
LEMMA DivUnique ==
  ASSUME NEW n \in Nat \ {0}, NEW q \in Nat, NEW r \in 0..n - 1
  PROVE  (n * q + r) % n = r
OBVIOUS

(* A product of positive numbers is no smaller than its factors.           *)
LEMMA TimesPositive ==
  ASSUME NEW a \in Nat \ {0}, NEW b \in Nat \ {0}
  PROVE  a * b \in Nat \ {0} /\ b <= a * b
OBVIOUS

(* Products of three numbers.                                              *)
LEMMA TimesAssociative ==
  ASSUME NEW a \in Nat, NEW b \in Nat, NEW c \in Nat
  PROVE  (a * b) * c = a * (b * c)
OBVIOUS

(* A product grows with its factors.                                       *)
LEMMA TimesGrows ==
  ASSUME NEW a \in Nat, NEW b \in Nat, NEW c \in Nat, a <= b
  PROVE  a * c <= b * c
OBVIOUS

(* A table that grows keeps the bins apart: the number of the new bin      *)
(* determines that of the old one.                                         *)
LEMMA ModMod ==
  ASSUME NEW h \in Nat, NEW n \in Nat \ {0}, NEW g \in Nat \ {0}
  PROVE  (h % (g * n)) % n = h % n
<1> DEFINE q == h \div (g * n)
           r == h % (g * n)
           q2 == r \div n
           r2 == r % n
<1>1. g * n \in Nat \ {0}
  BY TimesPositive
<1>2. q \in Nat /\ h = ((g * n) * q) + r /\ r \in Nat
  <2> DEFINE k == g * n
  <2>1. k \in Nat \ {0}
    BY <1>1
  <2> HIDE DEF k
  <2>2. /\ h \div k \in Nat /\ h = (k * (h \div k)) + (h % k)
        /\ h % k \in 0..k - 1
    BY <2>1, DivMod, ModRange
  <2> QED BY <2>1, <2>2 DEF k
<1>3. q2 \in Nat /\ r = (n * q2) + r2 /\ r2 \in 0..n - 1
  BY <1>2, DivMod, ModRange
<1> HIDE DEF q, r, q2, r2
<1>4. (g * n) * q = n * (g * q)
  BY <1>2
<1>5. h = (n * (g * q + q2)) + r2
  BY <1>2, <1>3, <1>4
<1>6. g * q + q2 \in Nat
  BY <1>2, <1>3
<1>7. h % n = r2
  <2> DEFINE k == g * q + q2
  <2>1. k \in Nat /\ h = n * k + r2
    BY <1>5, <1>6
  <2> HIDE DEF k
  <2> QED BY <2>1, <1>3, DivUnique
<1> QED BY <1>7 DEF r, r2

(* FirstSlot() is the least slot of a set.                                 *)
LEMMA LeastSlot ==
  ASSUME NEW S \in SUBSET Slots, S # {}
  PROVE  FirstSlot(S) \in S /\ \A f \in S : FirstSlot(S) <= f
<1> DEFINE R == {ss \in Nat \X Nat : ss[1] < ss[2]}
<1>1. IsWellFoundedOn(R, Nat)
  BY NatLessThanWellFounded, Zenon DEF OpToRel
<1>2. S \subseteq Nat
  BY DEF Slots
<1>3. PICK e \in S : \A f \in S : ~ (<<f, e>> \in R)
  <2> HIDE DEF R
  <2> QED BY WFMin, <1>1, <1>2, Zenon
<1>4. \A f \in S : ~(f < e)
  BY <1>2, <1>3
<1>5. \A f \in S : e <= f
  BY <1>2, <1>4
<1> QED BY <1>5 DEF FirstSlot

-----------------------------------------------------------------------------
(* Tables: a number of bins, each with its slots.                          *)
Entry == Meta \cup {EmptyMeta}
Table(n) == [0..n - 1 -> [Slots -> Entry]]
OccupiedIn(t) == {s \in (DOMAIN t) \X Slots : t[s[1]][s[2]].ptr # NULL}

(* An entry with the NULL pointer is the empty one, another is a chunk.    *)
LEMMA EntryFacts ==
  ASSUME NEW m \in Entry
  PROVE  /\ m.ptr = NULL => m = EmptyMeta
         /\ m.ptr # NULL => m \in Meta /\ m.ptr \in Key /\ m.size \in Sizes
                            /\ m = [ptr |-> m.ptr, size |-> m.size]
  BY StoreAssumption DEF Entry, Meta, EmptyMeta

(* A table has as many bins as asked for, and a number of entries.         *)
LEMMA TableFacts ==
  ASSUME NEW n \in Nat \ {0}, NEW t \in Table(n)
  PROVE  /\ DOMAIN t = 0..n - 1 /\ Cardinality(DOMAIN t) = n
         /\ IsFiniteSet(OccupiedIn(t)) /\ Cardinality(OccupiedIn(t)) \in Nat
<1>1. DOMAIN t = 0..n - 1
  BY DEF Table
<1>2. IsFiniteSet(0..n - 1) /\ Cardinality(0..n - 1) = n
  BY FS_Interval
<1>3. IsFiniteSet(Slots)
  BY FS_Interval, StoreAssumption DEF Slots
<1>4. IsFiniteSet((DOMAIN t) \X Slots)
  BY <1>1, <1>2, <1>3, FS_Product
<1>5. IsFiniteSet(OccupiedIn(t))
  BY <1>4, FS_Subset DEF OccupiedIn
<1> QED BY <1>1, <1>2, <1>5, FS_CardinalityType

(* Occupied places are pairs of a bin and a slot.                          *)
LEMMA OccupiedPairs ==
  ASSUME NEW t
  PROVE  /\ \A b, e : <<b, e>> \in OccupiedIn(t) <=>
                      b \in DOMAIN t /\ e \in Slots /\ t[b][e].ptr # NULL
         /\ \A s \in OccupiedIn(t) : s = <<s[1], s[2]>>
  BY DEF OccupiedIn

(* Two sets of places with the same pairs are the same.                    *)
LEMMA SamePairs ==
  ASSUME NEW A, NEW B, \A s \in A : s = <<s[1], s[2]>>, \A s \in B : s = <<s[1], s[2]>>,
         \A b, e : <<b, e>> \in A <=> <<b, e>> \in B
  PROVE  A = B
<1>1. A \subseteq B
  OBVIOUS
<1>2. B \subseteq A
  OBVIOUS
<1> QED BY <1>1, <1>2

(* A table with one entry replaced.                                        *)
Wrote(t, u, b, e, m) ==
  \A c \in DOMAIN t, f \in Slots : u[c][f] = IF c = b /\ f = e THEN m ELSE t[c][f]

(* One assignment to a slot writes that slot and no other.                 *)
LEMMA WriteFacts ==
  ASSUME NEW n \in Nat \ {0}, NEW t \in Table(n), NEW b \in 0..n - 1, NEW e \in Slots,
         NEW m \in Entry
  PROVE  /\ [t EXCEPT ![b][e] = m] \in Table(n)
         /\ Wrote(t, [t EXCEPT ![b][e] = m], b, e, m)
  BY DEF Table, Wrote

CountedWrite(t, u, old, m) ==
  /\ m.ptr # NULL /\ old.ptr = NULL =>
       Cardinality(OccupiedIn(u)) = Cardinality(OccupiedIn(t)) + 1
  /\ m.ptr # NULL /\ old.ptr # NULL => OccupiedIn(u) = OccupiedIn(t)
  /\ m.ptr = NULL /\ old.ptr # NULL =>
       Cardinality(OccupiedIn(u)) = Cardinality(OccupiedIn(t)) - 1

(* One assignment changes the number of entries by one at most.            *)
LEMMA WriteCounts ==
  ASSUME NEW n \in Nat \ {0}, NEW t \in Table(n), NEW u \in Table(n),
         NEW b \in 0..n - 1, NEW e \in Slots, NEW m \in Entry, Wrote(t, u, b, e, m)
  PROVE  CountedWrite(t, u, t[b][e], m)
<1> DEFINE A == OccupiedIn(t)
           B == OccupiedIn(u)
<1>1. IsFiniteSet(A) /\ DOMAIN t = 0..n - 1 /\ DOMAIN u = 0..n - 1
  BY TableFacts
<1>2. /\ \A c, f : <<c, f>> \in A <=> c \in 0..n - 1 /\ f \in Slots /\ t[c][f].ptr # NULL
      /\ \A c, f : <<c, f>> \in B <=> c \in 0..n - 1 /\ f \in Slots /\ u[c][f].ptr # NULL
      /\ \A s \in A : s = <<s[1], s[2]>>
      /\ \A s \in B : s = <<s[1], s[2]>>
  BY <1>1, OccupiedPairs
<1> HIDE DEF A, B
<1>3. <<b, e>> \in A <=> t[b][e].ptr # NULL
  BY <1>2
<1>4. CASE m.ptr # NULL
  <2>1. ASSUME NEW c, NEW f
        PROVE  <<c, f>> \in B <=> <<c, f>> \in A \cup {<<b, e>>}
    <3>1. <<c, f>> \in {<<b, e>>} <=> c = b /\ f = e
      OBVIOUS
    <3>2. CASE c \in 0..n - 1 /\ f \in Slots
      <4>1. u[c][f] = IF c = b /\ f = e THEN m ELSE t[c][f]
        BY <1>1, <3>2 DEF Wrote
      <4> QED BY <1>2, <1>4, <3>1, <3>2, <4>1
    <3>3. CASE ~(c \in 0..n - 1 /\ f \in Slots)
      BY <1>2, <3>1, <3>3
    <3> QED BY <3>2, <3>3
  <2>2. B = A \cup {<<b, e>>}
    BY <1>2, <2>1, SamePairs
  <2>3. t[b][e].ptr = NULL => Cardinality(B) = Cardinality(A) + 1
    BY <1>1, <1>3, <2>2, FS_AddElement
  <2> QED BY <1>3, <1>4, <2>2, <2>3 DEF A, B, CountedWrite
<1>5. CASE m.ptr = NULL /\ t[b][e].ptr # NULL
  <2>1. ASSUME NEW c, NEW f
        PROVE  <<c, f>> \in B <=> <<c, f>> \in A \ {<<b, e>>}
    <3>1. <<c, f>> \in {<<b, e>>} <=> c = b /\ f = e
      OBVIOUS
    <3>2. CASE c \in 0..n - 1 /\ f \in Slots
      <4>1. u[c][f] = IF c = b /\ f = e THEN m ELSE t[c][f]
        BY <1>1, <3>2 DEF Wrote
      <4> QED BY <1>2, <1>5, <3>1, <3>2, <4>1
    <3>3. CASE ~(c \in 0..n - 1 /\ f \in Slots)
      BY <1>2, <3>1, <3>3
    <3> QED BY <3>2, <3>3
  <2>2. B = A \ {<<b, e>>}
    BY <1>2, <2>1, SamePairs
  <2>3. Cardinality(B) = Cardinality(A) - 1
    BY <1>1, <1>3, <1>5, <2>2, FS_RemoveElement
  <2> QED BY <1>5, <2>3 DEF A, B, CountedWrite
<1> QED BY <1>4, <1>5 DEF CountedWrite

-----------------------------------------------------------------------------
(* The invariant.                                                          *)
Filled(t, b, e) == b \in DOMAIN t /\ e \in Slots /\ t[b][e].ptr # NULL

Typed ==
  /\ TypeOK
  /\ IsFiniteSet(DOMAIN fallback_store)

Counted == cache_entries = Cardinality(OccupiedIn(bins))

(* A pointer has one entry at most.                                        *)
Distinct ==
  /\ \A b, e, c, f : Filled(bins, b, e) /\ Filled(bins, c, f) /\ bins[b][e].ptr = bins[c][f].ptr
       => b = c /\ e = f
  /\ \A b, e : Filled(bins, b, e) => bins[b][e].ptr \notin DOMAIN fallback_store

(* Every entry is in the bin of its hash.                                  *)
Settled == \A b, e : Filled(bins, b, e) => b = hash[bins[b][e].ptr] % numBins

(* In the middle of the loops: entries that were passed are, the others    *)
(* are in the bin the old table had them in; a new bin has entries from    *)
(* those slots only that were passed in its old bin.                       *)
HalfSettled ==
  /\ oldsize > 0 /\ \E g \in Nat \ {0} : numBins = g * oldsize
  /\ \A b, e : Filled(bins, b, e) =>
       b = hash[bins[b][e].ptr] % (IF Passed(b, e) THEN numBins ELSE oldsize)
  /\ \A b, e : Filled(bins, b, e) /\ b >= oldsize =>
       \/ b % oldsize < bin_i
       \/ b % oldsize = bin_i /\ e < entry_i

(* The chunk that waits for the table to grow is not stored yet, and will  *)
(* have room.                                                              *)
Waiting ==
  /\ pc # "idle" /\ pending.ptr # NULL =>
       /\ \A b, e : Filled(bins, b, e) => bins[b][e].ptr # pending.ptr
       /\ pending.ptr \notin DOMAIN fallback_store
  /\ pc = "grow" => factor > 0
  /\ pc = "grow" /\ pending.ptr # NULL => size + 1 <= required
  /\ pc = "rehash" /\ pending.ptr # NULL => size + 1 <= capacity

IInv ==
  /\ Typed
  /\ Counted
  /\ size <= capacity
  /\ Distinct
  /\ pc # "rehash" => Settled
  /\ pc = "rehash" => HalfSettled
  /\ Waiting

(* What the types say of the table, the fallback store and the counters.   *)
LEMMA TypedFacts ==
  ASSUME Typed
  PROVE  /\ numBins \in Nat \ {0} /\ bins \in Table(numBins) /\ Bins = 0..numBins - 1
         /\ Cardinality(OccupiedIn(bins)) \in Nat
         /\ Cardinality(DOMAIN fallback_store) \in Nat /\ size \in Nat /\ capacity \in Nat
         /\ \A b, e : Filled(bins, b, e) => bins[b][e] \in Meta /\ bins[b][e].ptr \in Key
<1>1. numBins \in Nat \ {0} /\ bins \in Table(numBins) /\ Bins = 0..numBins - 1
  BY DEF Typed, TypeOK, Table, Entry, Bins
<1>2. Cardinality(OccupiedIn(bins)) \in Nat
  BY <1>1, TableFacts
<1>3. Cardinality(DOMAIN fallback_store) \in Nat
  BY FS_CardinalityType DEF Typed
<1>4. size \in Nat /\ capacity \in Nat
  BY <1>1, <1>3, StoreAssumption DEF Typed, TypeOK, size, capacity
<1>5. ASSUME NEW b, NEW e, Filled(bins, b, e)
      PROVE  bins[b][e] \in Meta /\ bins[b][e].ptr \in Key
  <2>1. bins[b][e] \in Entry
    BY <1>1, <1>5 DEF Bins, Filled, Table
  <2> QED BY <2>1, <1>5, EntryFacts DEF Bins, Filled
<1> QED BY <1>1, <1>2, <1>3, <1>4, <1>5

(* An entry of a table of n bins is always in one of them.                 *)
LEMMA BinOfRange ==
  ASSUME Typed, NEW key \in Key, NEW n \in Nat \ {0}
  PROVE  BinOf(key, n) \in 0..n - 1
<1>1. hash[key] \in Nat
  BY DEF Typed, TypeOK
<1> QED BY <1>1, ModRange DEF BinOf

(* What one write does to the cells.                                       *)
LEMMA OneWrite ==
  ASSUME Typed, NEW b \in Bins, NEW e \in Slots, NEW m \in Entry,
         bins' = [bins EXCEPT ![b][e] = m]
  PROVE  /\ numBins' = numBins /\ Bins' = Bins /\ bins' \in Table(numBins)
         /\ \A c, f : c \in Bins /\ f \in Slots =>
              bins'[c][f] = IF c = b /\ f = e THEN m ELSE bins[c][f]
         /\ CountedWrite(bins, bins', bins[b][e], m)
<1> DEFINE n == numBins
<1>1. n \in Nat \ {0} /\ bins \in Table(n) /\ Bins = 0..n - 1 /\ b \in 0..n - 1
  BY TypedFacts
<1>2. Bins' = DOMAIN bins' /\ numBins' = Cardinality(DOMAIN bins') /\ Bins = DOMAIN bins
  BY DEF Bins, numBins
<1> HIDE DEF n
<1>3. bins' \in Table(n) /\ Wrote(bins, bins', b, e, m)
  <2>1. /\ [bins EXCEPT ![b][e] = m] \in Table(n)
        /\ Wrote(bins, [bins EXCEPT ![b][e] = m], b, e, m)
    BY <1>1, WriteFacts, Zenon
  <2> QED BY <2>1, Zenon
<1>4. DOMAIN bins' = 0..n - 1 /\ Cardinality(DOMAIN bins') = n
  BY <1>1, <1>3, TableFacts
<1>5. CountedWrite(bins, bins', bins[b][e], m)
  BY <1>1, <1>3, WriteCounts, Zenon
<1> QED BY <1>1, <1>2, <1>3, <1>4, <1>5 DEF Wrote, n

(* A chunk goes to a slot of a bin of the table.                           *)
LEMMA InsertionPoint ==
  ASSUME Typed, NEW m \in Meta
  PROVE  BinOf(m.ptr, numBins) \in Bins /\ get_insertion_point(m.ptr) \in Slots
<1>1. m.ptr \in Key
  BY DEF Meta
<1>2. BinOf(m.ptr, numBins) \in Bins
  BY <1>1, TypedFacts, BinOfRange
<1>3. victim[m.ptr] \in Slots
  BY <1>1 DEF Typed, TypeOK
<1> DEFINE free == {e \in Slots : bins[BinOf(m.ptr, numBins)][e].ptr = NULL}
<1>4. free # {} => FirstSlot(free) \in Slots
  <2>1. free \in SUBSET Slots
    OBVIOUS
  <2> HIDE DEF free
  <2> QED BY <2>1, LeastSlot
<1> QED BY <1>2, <1>3, <1>4 DEF get_insertion_point

-----------------------------------------------------------------------------
(* The chunk takes its slot; what was there goes to the fallback store.    *)
LEMMA InsertFacts ==
  ASSUME Typed, Counted, Distinct, NEW m \in Meta, Insert(m),
         \A b, e : Filled(bins, b, e) => bins[b][e].ptr # m.ptr,
         m.ptr \notin DOMAIN fallback_store
  PROVE  \E b \in Bins, e \in Slots :
           /\ b = BinOf(m.ptr, numBins)
           /\ numBins' = numBins /\ Bins' = Bins /\ bins' \in Table(numBins)
           /\ \A c, f : c \in Bins /\ f \in Slots =>
                bins'[c][f] = IF c = b /\ f = e THEN m ELSE bins[c][f]
           /\ Counted' /\ cache_entries' \in Nat
           /\ IF Filled(bins, b, e)
              THEN /\ bins[b][e].ptr \notin DOMAIN fallback_store
                   /\ fallback_store' = [p \in DOMAIN fallback_store \cup {bins[b][e].ptr} |->
                                           IF p = bins[b][e].ptr THEN bins[b][e].size
                                           ELSE fallback_store[p]]
                   /\ cache_entries' = cache_entries
              ELSE UNCHANGED fallback_store /\ cache_entries' = cache_entries + 1
           /\ ret' = <<"put", TRUE>>
<1> DEFINE b == BinOf(m.ptr, numBins)
           e == get_insertion_point(m.ptr)
           old == bins[b][e]
<1>1. b \in Bins /\ e \in Slots
  BY InsertionPoint
<1>2. /\ bins' = [bins EXCEPT ![b][e] = m]
      /\ IF old.ptr = NULL
         THEN /\ cache_entries' = cache_entries + 1
              /\ ret' = <<"put", TRUE>>
              /\ UNCHANGED fallback_store
         ELSE /\ fallback_store' = StorePut(fallback_store, old)
              /\ ret' = <<"put", PutOk(fallback_store, old)>>
              /\ UNCHANGED cache_entries
  BY DEF Insert
<1>3. m \in Entry /\ m.ptr # NULL
  BY StoreAssumption DEF Entry, Meta
<1>4. Filled(bins, b, e) <=> old.ptr # NULL
  BY <1>1 DEF Bins, Filled
<1>5. Filled(bins, b, e) => PutOk(fallback_store, old)
  BY <1>4 DEF Distinct, PutOk
<1> HIDE DEF b, e
<1>6. /\ numBins' = numBins /\ Bins' = Bins /\ bins' \in Table(numBins)
      /\ \A c, f : c \in Bins /\ f \in Slots =>
           bins'[c][f] = IF c = b /\ f = e THEN m ELSE bins[c][f]
      /\ CountedWrite(bins, bins', old, m)
  BY <1>1, <1>2, <1>3, OneWrite
<1>7. Counted' /\ cache_entries' \in Nat
  <2>1. cache_entries \in Nat
    BY DEF Typed, TypeOK
  <2>2. CASE old.ptr = NULL
    <3>1. Cardinality(OccupiedIn(bins')) = Cardinality(OccupiedIn(bins)) + 1
      BY <1>3, <1>6, <2>2 DEF CountedWrite
    <3> QED BY <1>2, <2>1, <2>2, <3>1 DEF Counted
  <2>3. CASE old.ptr # NULL
    <3>1. OccupiedIn(bins') = OccupiedIn(bins)
      BY <1>3, <1>6, <2>3 DEF CountedWrite
    <3> QED BY <1>2, <2>1, <2>3, <3>1 DEF Counted
  <2> QED BY <2>2, <2>3
<1>8. CASE Filled(bins, b, e)
  <2>1. fallback_store' = StorePut(fallback_store, old) /\ ret' = <<"put", TRUE>>
        /\ cache_entries' = cache_entries
    BY <1>2, <1>4, <1>5, <1>8
  <2>2. old.ptr \notin DOMAIN fallback_store
    BY <1>5, <1>8 DEF PutOk
  <2>3. StorePut(fallback_store, old) = [p \in DOMAIN fallback_store \cup {old.ptr} |->
                                           IF p = old.ptr THEN old.size ELSE fallback_store[p]]
    BY <1>5, <1>8 DEF StorePut
  <2> QED BY <1>1, <1>6, <1>7, <1>8, <2>1, <2>2, <2>3, Zenon DEF b
<1>9. CASE ~Filled(bins, b, e)
  <2>1. UNCHANGED fallback_store /\ ret' = <<"put", TRUE>> /\ cache_entries' = cache_entries + 1
    BY <1>2, <1>4, <1>9
  <2> QED BY <1>1, <1>6, <1>7, <1>9, <2>1, Zenon DEF b
<1> QED BY <1>8, <1>9

(* The parts of TypeOK that the loops do not touch.                        *)
LoopsTyped ==
  /\ pc \in {"idle", "grow", "rehash"}
  /\ pending \in Meta \cup {EmptyMeta}
  /\ required \in Nat /\ factor \in Nat
  /\ oldsize \in Nat /\ bin_i \in 0..oldsize /\ entry_i \in Slots

(* put() once there is capacity keeps the invariant.                       *)
LEMMA InsertKeeps ==
  ASSUME Typed, Counted, Distinct, Settled, NEW m \in Meta, Insert(m),
         \A b, e : Filled(bins, b, e) => bins[b][e].ptr # m.ptr,
         m.ptr \notin DOMAIN fallback_store,
         size + 1 <= capacity, UNCHANGED <<hash, victim>>, LoopsTyped', pc' = "idle"
  PROVE  IInv'
<1>1. PICK b \in Bins, e \in Slots :
           /\ b = BinOf(m.ptr, numBins)
           /\ numBins' = numBins /\ Bins' = Bins /\ bins' \in Table(numBins)
           /\ \A c, f : c \in Bins /\ f \in Slots =>
                bins'[c][f] = IF c = b /\ f = e THEN m ELSE bins[c][f]
           /\ Counted' /\ cache_entries' \in Nat
           /\ IF Filled(bins, b, e)
              THEN /\ bins[b][e].ptr \notin DOMAIN fallback_store
                   /\ fallback_store' = [p \in DOMAIN fallback_store \cup {bins[b][e].ptr} |->
                                           IF p = bins[b][e].ptr THEN bins[b][e].size
                                           ELSE fallback_store[p]]
                   /\ cache_entries' = cache_entries
              ELSE UNCHANGED fallback_store /\ cache_entries' = cache_entries + 1
           /\ ret' = <<"put", TRUE>>
  BY InsertFacts, Zenon
<1>2. /\ DOMAIN fallback_store \subseteq Key /\ IsFiniteSet(DOMAIN fallback_store)
      /\ \A key \in DOMAIN fallback_store : fallback_store[key] \in Sizes
      /\ hash \in [Key -> Nat] /\ victim \in [Key -> Slots] /\ numBins \in Nat \ {0}
  BY TypedFacts DEF Typed, TypeOK
<1>3. Filled(bins, b, e) => bins[b][e].ptr \in Key /\ bins[b][e].size \in Sizes
  BY TypedFacts DEF Meta
<1>4. /\ DOMAIN fallback_store' \subseteq Key /\ IsFiniteSet(DOMAIN fallback_store')
      /\ \A key \in DOMAIN fallback_store' : fallback_store'[key] \in Sizes
      /\ Cardinality(DOMAIN fallback_store') =
           IF Filled(bins, b, e) THEN Cardinality(DOMAIN fallback_store) + 1
           ELSE Cardinality(DOMAIN fallback_store)
  <2>1. CASE Filled(bins, b, e)
    <3>1. DOMAIN fallback_store' = DOMAIN fallback_store \cup {bins[b][e].ptr}
      BY <1>1, <2>1
    <3>2. /\ IsFiniteSet(DOMAIN fallback_store')
          /\ Cardinality(DOMAIN fallback_store') = Cardinality(DOMAIN fallback_store) + 1
      BY <1>1, <1>2, <2>1, <3>1, FS_AddElement
    <3>3. \A key \in DOMAIN fallback_store' : fallback_store'[key] \in Sizes
      BY <1>1, <1>2, <1>3, <2>1, <3>1
    <3> QED BY <1>2, <1>3, <2>1, <3>1, <3>2, <3>3
  <2>2. CASE ~Filled(bins, b, e)
    BY <1>1, <1>2, <2>2
  <2> QED BY <2>1, <2>2
<1>5. Typed'
  <2>1. bins' \in [0..numBins' - 1 -> [Slots -> Meta \cup {EmptyMeta}]]
        /\ numBins' \in Nat \ {0}
    BY <1>1, <1>2 DEF Table, Entry
  <2>2. hash' \in [Key -> Nat] /\ victim' \in [Key -> Slots]
    BY <1>2
  <2> QED BY <1>1, <1>4, <2>1, <2>2 DEF Typed, TypeOK, LoopsTyped
<1>6. size' <= capacity'
  BY <1>1, <1>4, TypedFacts DEF size, capacity, Typed, TypeOK
<1>7. \A c, f : Filled(bins', c, f)
                 <=> c \in Bins /\ f \in Slots /\ ((c = b /\ f = e) \/ Filled(bins, c, f))
  <2>1. m.ptr # NULL
    BY StoreAssumption DEF Meta
  <2> QED BY <1>1, <2>1 DEF Bins, Filled
<1>8. Distinct'
  <2>1. ASSUME NEW c, NEW f, NEW d, NEW g, Filled(bins', c, f), Filled(bins', d, g),
               bins'[c][f].ptr = bins'[d][g].ptr
        PROVE  c = d /\ f = g
    BY <1>1, <1>7, <2>1 DEF Distinct
  <2>2. ASSUME NEW c, NEW f, Filled(bins', c, f)
        PROVE  bins'[c][f].ptr \notin DOMAIN fallback_store'
    <3>1. CASE c = b /\ f = e
      BY <1>1, <1>7, <2>2, <3>1
    <3>2. CASE ~(c = b /\ f = e)
      <4>1. Filled(bins, c, f) /\ bins'[c][f] = bins[c][f]
        BY <1>1, <1>7, <2>2, <3>2
      <4> QED BY <1>1, <3>2, <4>1 DEF Distinct
    <3> QED BY <3>1, <3>2
  <2> QED BY <2>1, <2>2 DEF Distinct
<1>9. Settled'
  <2> SUFFICES ASSUME NEW c, NEW f, Filled(bins', c, f)
               PROVE  c = hash'[bins'[c][f].ptr] % numBins'
    BY DEF Settled
  <2>1. CASE c = b /\ f = e
    <3>1. bins'[c][f] = m /\ b = hash[m.ptr] % numBins
      BY <1>1, <2>1 DEF BinOf
    <3> QED BY <1>1, <2>1, <3>1
  <2>2. CASE ~(c = b /\ f = e)
    <3>1. Filled(bins, c, f) /\ bins'[c][f] = bins[c][f]
      BY <1>1, <1>7, <2>2
    <3>2. c = hash[bins[c][f].ptr] % numBins
      BY <3>1 DEF Settled
    <3> QED BY <1>1, <3>1, <3>2
  <2> QED BY <2>1, <2>2
<1>10. Waiting'
  BY DEF Waiting
<1> QED BY <1>1, <1>5, <1>6, <1>8, <1>9, <1>10 DEF IInv

-----------------------------------------------------------------------------
(* Steps that leave entries where they are, or take them out.              *)
LEMMA FewerKeep ==
  ASSUME Distinct, Settled, UNCHANGED hash, numBins' = numBins,
         \A c, f : Filled(bins', c, f) => Filled(bins, c, f) /\ bins'[c][f].ptr = bins[c][f].ptr,
         DOMAIN fallback_store' \subseteq DOMAIN fallback_store
  PROVE  Distinct' /\ Settled'
<1>1. ASSUME NEW c, NEW f, NEW d, NEW g, Filled(bins', c, f), Filled(bins', d, g),
             bins'[c][f].ptr = bins'[d][g].ptr
      PROVE  c = d /\ f = g
  BY <1>1 DEF Distinct
<1>2. ASSUME NEW c, NEW f, Filled(bins', c, f)
      PROVE  bins'[c][f].ptr \notin DOMAIN fallback_store'
  BY <1>2 DEF Distinct
<1>3. ASSUME NEW c, NEW f, Filled(bins', c, f)
      PROVE  c = hash'[bins'[c][f].ptr] % numBins'
  <2>1. c = hash[bins[c][f].ptr] % numBins /\ bins'[c][f].ptr = bins[c][f].ptr
    BY <1>3 DEF Settled
  <2> QED BY <2>1
<1> QED BY <1>1, <1>2, <1>3 DEF Distinct, Settled

(* A slot that the search finds has the entry it looks for.                *)
LEMMA SlotFound ==
  ASSUME Typed, NEW key \in Key, SlotsOf(key) # {}
  PROVE  /\ get_bin(key) \in Bins /\ FirstSlot(SlotsOf(key)) \in Slots
         /\ bins[get_bin(key)][FirstSlot(SlotsOf(key))].ptr = key
         /\ Filled(bins, get_bin(key), FirstSlot(SlotsOf(key)))
<1>1. key # NULL
  BY StoreAssumption
<1>2. get_bin(key) \in Bins
  BY <1>1, TypedFacts, BinOfRange DEF get_bin
<1>3. SlotsOf(key) \in SUBSET Slots
  BY DEF SlotsOf
<1>4. FirstSlot(SlotsOf(key)) \in SlotsOf(key)
  BY <1>3, LeastSlot
<1>5. /\ FirstSlot(SlotsOf(key)) \in Slots
      /\ bins[get_bin(key)][FirstSlot(SlotsOf(key))].ptr = key
  BY <1>4 DEF SlotsOf
<1> QED BY <1>1, <1>2, <1>5 DEF Bins, Filled

(* Nothing of the table changes.                                           *)
LEMMA TableStays ==
  ASSUME UNCHANGED <<bins, cache_entries>>
  PROVE  /\ numBins' = numBins /\ capacity' = capacity /\ Bins' = Bins
         /\ (Counted' <=> Counted)
         /\ \A c, f : (Filled(bins', c, f) <=> Filled(bins, c, f)) /\ bins'[c][f] = bins[c][f]
  BY DEF numBins, capacity, Bins, Counted, Filled

(* Each operation and each step of a growing table keeps the invariant;    *)
(* get() changes nothing.                                                  *)
LEMMA GetKeeps ==
  ASSUME IInv, NEW key, get(key)
  PROVE  IInv'
<1>1. pc = "idle" /\ pc' = "idle"
      /\ UNCHANGED <<hash, victim, bins, cache_entries, fallback_store, loop>>
  BY DEF get
<1>2. Typed'
  BY <1>1, TableStays DEF IInv, Typed, TypeOK, loop
<1>3. size' <= capacity' /\ Counted'
  BY <1>1, TableStays DEF IInv, size
<1>4. Distinct' /\ Settled'
  BY <1>1, TableStays, FewerKeep DEF IInv
<1> QED BY <1>1, <1>2, <1>3, <1>4 DEF IInv, Waiting

(* clear() leaves an empty table.                                          *)
LEMMA ClearKeeps ==
  ASSUME IInv, clear
  PROVE  IInv'
<1>1. pc = "idle" /\ pc' = "idle" /\ bins' = [b \in Bins |-> EmptyBin]
      /\ cache_entries' = 0 /\ fallback_store' = EmptyStore
      /\ UNCHANGED <<hash, victim, loop>>
  BY DEF clear
<1>2. Bins' = Bins /\ numBins' = numBins /\ capacity' = capacity
  BY <1>1 DEF Bins, numBins, capacity
<1>3. DOMAIN fallback_store' = {} /\ Cardinality(DOMAIN fallback_store') = 0
      /\ IsFiniteSet(DOMAIN fallback_store')
  BY <1>1, FS_EmptySet DEF EmptyStore
<1>4. Typed'
  <2>1. EmptyBin \in [Slots -> Meta \cup {EmptyMeta}]
    BY DEF EmptyBin
  <2>2. bins' \in [0..numBins' - 1 -> [Slots -> Meta \cup {EmptyMeta}]]
    BY <1>1, <1>2, <2>1, TypedFacts DEF IInv
  <2> QED BY <1>1, <1>2, <1>3, <2>2 DEF IInv, Typed, TypeOK, loop
<1>5. \A c, f : ~Filled(bins', c, f)
  BY <1>1, <1>2 DEF Bins, Filled, EmptyBin, EmptyMeta
<1>6. Counted'
  <2>1. OccupiedIn(bins') = {}
    BY <1>1, <1>5 DEF OccupiedIn, EmptyBin, EmptyMeta
  <2> QED BY <1>1, <2>1, FS_EmptySet DEF Counted
<1>7. size' <= capacity'
  BY <1>1, <1>2, <1>3, TypedFacts DEF IInv, size
<1>8. Distinct' /\ Settled'
  BY <1>5 DEF Distinct, Settled
<1> QED BY <1>1, <1>4, <1>6, <1>7, <1>8 DEF IInv, Waiting

(* remove() empties one slot, or takes an entry from the fallback store.   *)
LEMMA RemoveKeeps ==
  ASSUME IInv, NEW m \in Meta, remove(m)
  PROVE  IInv'
<1> DEFINE b == get_bin(m.ptr)
           e == FirstSlot(SlotsOf(m.ptr))
<1>1. pc = "idle" /\ pc' = "idle" /\ UNCHANGED <<hash, victim, loop>> /\ Typed /\ Counted
      /\ Distinct /\ Settled /\ size <= capacity
  BY DEF remove, IInv
<1>2. m.ptr \in Key
  BY DEF Meta
<1>3. CASE SlotsOf(m.ptr) = {}
  <2>1. UNCHANGED <<bins, cache_entries>> /\ fallback_store' = StoreRemove(fallback_store, m)
    BY <1>3 DEF remove
  <2>2. /\ DOMAIN fallback_store' \subseteq DOMAIN fallback_store
        /\ \A key \in DOMAIN fallback_store' : fallback_store'[key] = fallback_store[key]
    BY <2>1 DEF StoreRemove
  <2>3. /\ IsFiniteSet(DOMAIN fallback_store')
        /\ Cardinality(DOMAIN fallback_store') <= Cardinality(DOMAIN fallback_store)
        /\ Cardinality(DOMAIN fallback_store') \in Nat
    BY <1>1, <2>2, FS_Subset, FS_CardinalityType DEF Typed
  <2>4. Typed'
    BY <1>1, <2>1, <2>2, <2>3, TableStays DEF Typed, TypeOK, loop
  <2>5. size' <= capacity' /\ Counted'
    <3>1. cache_entries \in Nat /\ capacity \in Nat /\ Cardinality(DOMAIN fallback_store) \in Nat
      BY <1>1, TypedFacts DEF Typed, TypeOK
    <3> QED BY <1>1, <2>1, <2>3, <3>1, TableStays DEF size
  <2>6. Distinct' /\ Settled'
    BY <1>1, <2>1, <2>2, TableStays, FewerKeep
  <2> QED BY <1>1, <2>4, <2>5, <2>6 DEF IInv, Waiting
<1>4. CASE SlotsOf(m.ptr) # {} /\ equals_ptr_size(bins[b][e], m)
  <2>1. bins' = [bins EXCEPT ![b][e] = EmptyMeta] /\ cache_entries' = cache_entries - 1
        /\ UNCHANGED fallback_store
    BY <1>4 DEF remove
  <2>2. b \in Bins /\ e \in Slots /\ Filled(bins, b, e)
    BY <1>1, <1>2, <1>4, SlotFound
  <2>3. EmptyMeta \in Entry /\ EmptyMeta.ptr = NULL /\ bins[b][e].ptr # NULL
    BY <2>2 DEF Entry, EmptyMeta, Filled
  <2> HIDE DEF b, e
  <2>4. /\ numBins' = numBins /\ Bins' = Bins /\ bins' \in Table(numBins)
        /\ \A c, f : c \in Bins /\ f \in Slots =>
             bins'[c][f] = IF c = b /\ f = e THEN EmptyMeta ELSE bins[c][f]
        /\ CountedWrite(bins, bins', bins[b][e], EmptyMeta)
    BY <1>1, <2>1, <2>2, <2>3, OneWrite
  <2>5. Counted' /\ cache_entries' \in Nat
    <3>1. numBins \in Nat \ {0} /\ cache_entries \in Nat
      BY <1>1, TypedFacts DEF Typed, TypeOK
    <3>2. Cardinality(OccupiedIn(bins')) \in Nat
      BY <2>4, <3>1, TableFacts
    <3>3. Cardinality(OccupiedIn(bins')) = Cardinality(OccupiedIn(bins)) - 1
      BY <2>3, <2>4 DEF CountedWrite
    <3> QED BY <1>1, <2>1, <3>2, <3>3 DEF Counted
  <2>6. Typed'
    <3>1. bins' \in [0..numBins' - 1 -> [Slots -> Meta \cup {EmptyMeta}]]
      BY <2>4 DEF Table, Entry
    <3> QED BY <1>1, <2>1, <2>4, <2>5, <3>1 DEF Typed, TypeOK, loop
  <2>7. size' <= capacity'
    <3>1. cache_entries \in Nat /\ capacity \in Nat /\ Cardinality(DOMAIN fallback_store) \in Nat
      BY <1>1, TypedFacts DEF Typed, TypeOK
    <3>2. capacity' = capacity
      BY <2>4 DEF capacity
    <3> QED BY <1>1, <2>1, <3>1, <3>2 DEF size
  <2>8. \A c, f : Filled(bins', c, f) => Filled(bins, c, f) /\ bins'[c][f].ptr = bins[c][f].ptr
    BY <2>3, <2>4 DEF Bins, Filled
  <2>9. Distinct' /\ Settled'
    BY <1>1, <2>1, <2>4, <2>8, FewerKeep
  <2> QED BY <1>1, <2>5, <2>6, <2>7, <2>9 DEF IInv, Waiting
<1>5. CASE SlotsOf(m.ptr) # {} /\ ~equals_ptr_size(bins[b][e], m)
  <2>1. UNCHANGED <<bins, cache_entries, fallback_store>>
    BY <1>5 DEF remove
  <2>2. Typed' /\ size' <= capacity' /\ Counted'
    BY <1>1, <2>1, TableStays DEF Typed, TypeOK, loop, size
  <2>3. Distinct' /\ Settled'
    BY <1>1, <2>1, TableStays, FewerKeep
  <2> QED BY <1>1, <2>2, <2>3 DEF IInv, Waiting
<1> QED BY <1>3, <1>4, <1>5

(* update() writes over one entry.                                         *)
LEMMA UpdateKeeps ==
  ASSUME IInv, NEW m \in Meta, update(m)
  PROVE  IInv'
<1> DEFINE b == get_bin(m.ptr)
           e == FirstSlot(SlotsOf(m.ptr))
<1>1. pc = "idle" /\ pc' = "idle" /\ UNCHANGED <<hash, victim, cache_entries, loop>>
      /\ Typed /\ Counted /\ Distinct /\ Settled /\ size <= capacity
  BY DEF update, IInv
<1>2. m.ptr \in Key /\ m.size \in Sizes /\ m.ptr # NULL /\ m \in Entry
  BY StoreAssumption DEF Meta, Entry
<1>3. CASE SlotsOf(m.ptr) = {}
  <2>1. UNCHANGED bins /\ fallback_store' = StoreUpdate(fallback_store, m)
    BY <1>3 DEF update
  <2>2. /\ DOMAIN fallback_store' = DOMAIN fallback_store
        /\ \A key \in DOMAIN fallback_store' : fallback_store'[key] \in Sizes
    BY <1>1, <1>2, <2>1 DEF StoreUpdate, Typed, TypeOK
  <2>3. Typed'
    BY <1>1, <2>1, <2>2, TableStays DEF Typed, TypeOK, loop
  <2>4. size' <= capacity' /\ Counted'
    BY <1>1, <2>1, <2>2, TableStays DEF size
  <2>5. Distinct' /\ Settled'
    BY <1>1, <2>1, <2>2, TableStays, FewerKeep
  <2> QED BY <1>1, <2>3, <2>4, <2>5 DEF IInv, Waiting
<1>4. CASE SlotsOf(m.ptr) # {}
  <2>1. bins' = [bins EXCEPT ![b][e] = m] /\ UNCHANGED fallback_store
    BY <1>4 DEF update
  <2>2. b \in Bins /\ e \in Slots /\ Filled(bins, b, e) /\ bins[b][e].ptr = m.ptr
    BY <1>1, <1>2, <1>4, SlotFound
  <2> HIDE DEF b, e
  <2>3. /\ numBins' = numBins /\ Bins' = Bins /\ bins' \in Table(numBins)
        /\ \A c, f : c \in Bins /\ f \in Slots =>
             bins'[c][f] = IF c = b /\ f = e THEN m ELSE bins[c][f]
        /\ CountedWrite(bins, bins', bins[b][e], m)
    BY <1>1, <1>2, <2>1, <2>2, OneWrite
  <2>4. Counted'
    BY <1>1, <1>2, <2>2, <2>3 DEF CountedWrite, Counted
  <2>5. Typed'
    <3>1. bins' \in [0..numBins' - 1 -> [Slots -> Meta \cup {EmptyMeta}]]
      BY <2>3 DEF Table, Entry
    <3> QED BY <1>1, <2>1, <2>3, <3>1 DEF Typed, TypeOK, loop
  <2>6. size' <= capacity'
    BY <1>1, <2>1, <2>3 DEF size, capacity
  <2>7. \A c, f : Filled(bins', c, f) => Filled(bins, c, f) /\ bins'[c][f].ptr = bins[c][f].ptr
    BY <2>2, <2>3 DEF Bins, Filled
  <2>8. Distinct' /\ Settled'
    BY <1>1, <2>1, <2>3, <2>7, FewerKeep
  <2> QED BY <1>1, <2>4, <2>5, <2>6, <2>8 DEF IInv, Waiting
<1> QED BY <1>3, <1>4

-----------------------------------------------------------------------------
(* Growing.                                                                *)
LEMMA StartGrowKeeps ==
  ASSUME IInv, NEW request \in Nat, NEW m \in Meta \cup {EmptyMeta}, StartGrow(request, m),
         pc = "idle",
         m.ptr # NULL => /\ \A b, e : Filled(bins, b, e) => bins[b][e].ptr # m.ptr
                         /\ m.ptr \notin DOMAIN fallback_store
                         /\ size + 1 <= request
  PROVE  IInv'
<1>1. /\ pc' = "grow" /\ pending' = m /\ required' = request /\ factor' = 2
      /\ UNCHANGED <<hash, victim, bins, cache_entries, fallback_store, ret,
                     oldsize, bin_i, entry_i>>
  BY DEF StartGrow
<1>2. Typed'
  BY <1>1, TableStays DEF IInv, Typed, TypeOK
<1>3. size' <= capacity' /\ Counted' /\ size' = size
  BY <1>1, TableStays DEF IInv, size
<1>4. Distinct' /\ Settled'
  BY <1>1, TableStays, FewerKeep DEF IInv
<1>5. Waiting'
  BY <1>1, <1>3, TableStays DEF Waiting
<1> QED BY <1>1, <1>2, <1>3, <1>4, <1>5 DEF IInv

(* put() inserts, or starts to grow the table.                             *)
LEMMA PutKeeps ==
  ASSUME IInv, NEW m \in Meta, put(m)
  PROVE  IInv'
<1>1. /\ pc = "idle" /\ ~InCache(m.ptr) /\ m.ptr \notin DOMAIN fallback_store
      /\ IF size + 1 > capacity THEN StartGrow(size + 1, m)
         ELSE Insert(m) /\ UNCHANGED <<hash, victim, pc, loop>>
  BY DEF put
<1>2. \A b, e : Filled(bins, b, e) => bins[b][e].ptr # m.ptr
  BY <1>1 DEF InCache, Filled, Bins
<1>3. size \in Nat /\ capacity \in Nat
  BY TypedFacts DEF IInv
<1>4. CASE size + 1 > capacity
  <2>1. StartGrow(size + 1, m) /\ size + 1 \in Nat /\ m \in Meta \cup {EmptyMeta}
    BY <1>1, <1>3, <1>4
  <2> QED BY <1>1, <1>2, <1>3, <2>1, StartGrowKeeps
<1>5. CASE ~(size + 1 > capacity)
  <2>1. Insert(m) /\ UNCHANGED <<hash, victim, pc, loop>> /\ size + 1 <= capacity
    BY <1>1, <1>3, <1>5
  <2>2. LoopsTyped'
    BY <2>1 DEF IInv, Typed, TypeOK, LoopsTyped, loop
  <2> QED BY <1>1, <1>2, <2>1, <2>2, InsertKeeps DEF IInv
<1> QED BY <1>4, <1>5

(* reserve() may start to grow the table.                                  *)
LEMMA ReserveKeeps ==
  ASSUME IInv, NEW request \in Requests, reserve(request)
  PROVE  IInv'
<1>1. pc = "idle" /\ StartGrow(request, EmptyMeta) /\ request \in Nat
  BY StoreAssumption DEF reserve
<1>2. EmptyMeta.ptr = NULL
  BY DEF EmptyMeta
<1> QED BY <1>1, <1>2, StartGrowKeeps

(* A doubling of the factor moves nothing.                                 *)
LEMMA GrowStepKeeps ==
  ASSUME IInv, GrowStep
  PROVE  IInv'
<1>1. /\ pc = "grow" /\ pc' = "grow" /\ factor' = 2 * factor
      /\ UNCHANGED <<hash, victim, bins, cache_entries, fallback_store, pending,
                     required, oldsize, bin_i, entry_i>>
  BY DEF GrowStep
<1>2. Typed'
  BY <1>1, TableStays DEF IInv, Typed, TypeOK
<1>3. size' <= capacity' /\ Counted' /\ size' = size
  BY <1>1, TableStays DEF IInv, size
<1>4. Distinct' /\ Settled'
  BY <1>1, TableStays, FewerKeep DEF IInv
<1>5. Waiting'
  <2>1. factor \in Nat /\ factor > 0
    BY <1>1 DEF IInv, Waiting, Typed, TypeOK
  <2> QED BY <1>1, <1>3, <2>1, TableStays DEF IInv, Waiting
<1> QED BY <1>1, <1>2, <1>3, <1>4, <1>5 DEF IInv

(* Tables with the same filled slots have the same occupied places.        *)
LEMMA SameOccupied ==
  ASSUME NEW t, NEW u, \A c, f : Filled(u, c, f) <=> Filled(t, c, f)
  PROVE  OccupiedIn(u) = OccupiedIn(t)
<1> DEFINE A == OccupiedIn(t)
           B == OccupiedIn(u)
<1>1. /\ \A c, f : <<c, f>> \in A <=> Filled(t, c, f)
      /\ \A c, f : <<c, f>> \in B <=> Filled(u, c, f)
      /\ \A s \in A : s = <<s[1], s[2]>>
      /\ \A s \in B : s = <<s[1], s[2]>>
  BY OccupiedPairs DEF Filled
<1> HIDE DEF A, B
<1>2. \A c, f : <<c, f>> \in B <=> <<c, f>> \in A
  BY <1>1
<1>3. B = A
  BY <1>1, <1>2, SamePairs
<1> QED BY <1>3 DEF A, B

(* bins.resize(): the entries stay in their old bins, the new ones are     *)
(* empty.                                                                  *)
LEMMA StartRehashKeeps ==
  ASSUME IInv, StartRehash
  PROVE  IInv'
<1> DEFINE n == numBins
           k == factor * numBins
<1>1. /\ pc = "grow" /\ pc' = "rehash" /\ required <= factor * capacity
      /\ bins' = [b \in 0..k - 1 |-> IF b \in Bins THEN bins[b] ELSE EmptyBin]
      /\ oldsize' = n /\ bin_i' = 0 /\ entry_i' = 0
      /\ UNCHANGED <<hash, victim, cache_entries, fallback_store, ret, pending, required, factor>>
  BY DEF StartRehash
<1>2. factor \in Nat \ {0} /\ n \in Nat \ {0} /\ bins \in Table(n) /\ Bins = 0..n - 1
  BY <1>1, TypedFacts DEF IInv, Waiting, Typed, TypeOK
<1>3. k \in Nat \ {0} /\ n <= k
  BY <1>2, TimesPositive
<1>4. Bins' = 0..k - 1 /\ numBins' = k
  <2>1. DOMAIN bins' = 0..k - 1
    BY <1>1
  <2>2. Cardinality(0..k - 1) = k
    <3> HIDE DEF k
    <3> QED BY <1>3, FS_Interval
  <2> QED BY <2>1, <2>2 DEF Bins, numBins
<1> HIDE DEF k, n
<1>5. bins' \in [0..k - 1 -> [Slots -> Meta \cup {EmptyMeta}]]
  <2>1. EmptyBin \in [Slots -> Meta \cup {EmptyMeta}]
    BY DEF EmptyBin
  <2>2. \A b \in Bins : bins[b] \in [Slots -> Meta \cup {EmptyMeta}]
    BY <1>2 DEF Table, Entry
  <2> QED BY <1>1, <2>1, <2>2
<1>6. \A c, f : /\ Filled(bins', c, f) <=> Filled(bins, c, f)
                /\ Filled(bins, c, f) => bins'[c][f] = bins[c][f] /\ c \in 0..n - 1
  <2> SUFFICES ASSUME NEW c, NEW f
               PROVE  /\ Filled(bins', c, f) <=> Filled(bins, c, f)
                      /\ Filled(bins, c, f) => bins'[c][f] = bins[c][f] /\ c \in 0..n - 1
    OBVIOUS
  <2>1. DOMAIN bins = 0..n - 1 /\ DOMAIN bins' = 0..k - 1 /\ 0..n - 1 \subseteq 0..k - 1
    BY <1>1, <1>2, <1>3 DEF Bins
  <2>2. CASE c \in 0..n - 1
    BY <1>1, <1>2, <2>1, <2>2 DEF Filled
  <2>3. CASE c \notin 0..n - 1
    <3>1. ~Filled(bins, c, f)
      BY <2>1, <2>3 DEF Filled
    <3>2. c \in 0..k - 1 /\ f \in Slots => bins'[c][f].ptr = NULL
      BY <1>1, <1>2, <2>3 DEF EmptyBin, EmptyMeta
    <3> QED BY <2>1, <3>1, <3>2 DEF Filled
  <2> QED BY <2>2, <2>3
<1>7. Typed'
  <2>1. bin_i' \in 0..oldsize' /\ entry_i' \in Slots /\ oldsize' \in Nat
    BY <1>1, <1>2, StoreAssumption DEF Slots
  <2> QED BY <1>1, <1>3, <1>4, <1>5, <2>1 DEF IInv, Typed, TypeOK
<1>8. Counted'
  <2>1. OccupiedIn(bins') = OccupiedIn(bins)
    BY <1>6, SameOccupied
  <2> QED BY <1>1, <2>1 DEF IInv, Counted
<1>9. /\ size' = size /\ capacity' = factor * capacity
      /\ size \in Nat /\ capacity \in Nat /\ capacity <= capacity'
  <2>1. size' = size
    BY <1>1 DEF size
  <2>2. capacity' = k * ENTRIES_PER_BIN /\ capacity = n * ENTRIES_PER_BIN
    BY <1>4 DEF capacity, n
  <2>3. ENTRIES_PER_BIN \in Nat
    BY StoreAssumption
  <2>4. capacity' = factor * capacity
    BY <1>2, <2>2, <2>3, TimesAssociative DEF k, n
  <2>5. capacity <= capacity'
    BY <1>2, <1>3, <2>2, <2>3, TimesGrows
  <2> QED BY <2>1, <2>4, <2>5, TypedFacts DEF IInv
<1>10. Distinct'
  BY <1>1, <1>6 DEF IInv, Distinct
<1>11. HalfSettled'
  <2>1. \E g \in Nat \ {0} : numBins' = g * oldsize'
    BY <1>1, <1>2, <1>4 DEF k, n
  <2>2. ASSUME NEW b, NEW e, Filled(bins', b, e)
        PROVE  /\ b = hash'[bins'[b][e].ptr] % oldsize' /\ ~Passed(b, e)'
               /\ ~(b >= oldsize')
    <3>1. Filled(bins, b, e) /\ bins'[b][e] = bins[b][e] /\ b \in 0..n - 1
      BY <1>6, <2>2
    <3>2. b = hash[bins[b][e].ptr] % n
      BY <1>1, <3>1 DEF IInv, Settled, n
    <3>3. e \in Nat
      BY <3>1 DEF Filled, Slots
    <3>4. ~Passed(b, e)'
      BY <1>1, <1>2, <3>1, <3>3 DEF Passed
    <3> QED BY <1>1, <1>2, <3>1, <3>2, <3>4
  <2> QED BY <1>1, <1>2, <2>1, <2>2 DEF HalfSettled
<1>12. Waiting'
  <2>1. pending.ptr # NULL => size + 1 <= required
    BY <1>1 DEF IInv, Waiting
  <2>2. required \in Nat
    BY DEF IInv, Typed, TypeOK
  <2>3. pending.ptr # NULL => size' + 1 <= capacity'
    BY <1>1, <1>9, <2>1, <2>2
  <2> QED BY <1>1, <1>6, <2>3 DEF IInv, Waiting
<1>13. size' <= capacity'
  BY <1>9 DEF IInv
<1> QED BY <1>1, <1>7, <1>8, <1>10, <1>11, <1>12, <1>13 DEF IInv

(* The loops move on by one entry.                                         *)
LEMMA NextPosition ==
  ASSUME Typed, oldsize' = oldsize, bin_i < oldsize,
         entry_i' = (entry_i + 1) % ENTRIES_PER_BIN,
         bin_i' = IF entry_i' = 0 THEN bin_i + 1 ELSE bin_i
  PROVE  /\ bin_i' \in 0..oldsize' /\ entry_i' \in Slots
         /\ \A b \in Nat, e \in Slots :
              Passed(b, e)' <=> Passed(b, e) \/ (b = bin_i /\ e = entry_i)
         /\ \A b \in Nat, e \in Slots :
              b < bin_i \/ (b = bin_i /\ e <= entry_i)
                => b < bin_i' \/ (b = bin_i' /\ e < entry_i')
<1> DEFINE E == ENTRIES_PER_BIN
<1>1. /\ E \in Nat \ {0} /\ oldsize \in Nat /\ bin_i \in 0..oldsize
      /\ entry_i \in 0..E - 1 /\ Slots = 0..E - 1
  BY StoreAssumption DEF Typed, TypeOK, Slots
<1>2. \/ entry_i + 1 < E /\ entry_i' = entry_i + 1 /\ bin_i' = bin_i
      \/ entry_i + 1 = E /\ entry_i' = 0 /\ bin_i' = bin_i + 1
  <2>1. CASE entry_i + 1 < E
    <3>1. (entry_i + 1) % E = entry_i + 1
      <4>1. entry_i + 1 \in 0..E - 1
        BY <1>1, <2>1
      <4> QED BY <1>1, <4>1, ModSmall
    <3> QED BY <1>1, <2>1, <3>1
  <2>2. CASE entry_i + 1 = E
    <3>1. E % E = 0
      <4>1. (E * 1 + 0) % E = 0
        BY <1>1, DivUnique
      <4> QED BY <1>1, <4>1
    <3> QED BY <1>1, <2>2, <3>1
  <2> QED BY <1>1, <2>1, <2>2
<1> QED BY <1>1, <1>2 DEF Passed

(* The new bin has room: none of its slots from entry_i on is taken, for   *)
(* only entries that were passed in the same old bin can have come there.  *)
LEMMA RoomInNewBin ==
  ASSUME Typed, HalfSettled, Moves
  PROVE  /\ newbin_i \in Bins /\ bin_i \in Bins /\ newbin_i >= oldsize
         /\ newbin_i % oldsize = bin_i /\ Filled(bins, bin_i, entry_i)
         /\ newbin_i = hash[entry.ptr] % numBins
         /\ entry_i \in Targets /\ Targets \in SUBSET Slots
<1>1. /\ bin_i < oldsize /\ entry.ptr # NULL /\ newbin_i # bin_i
      /\ entry = bins[bin_i][entry_i]
  BY DEF Moves, Rehashing, entry
<1>2. /\ numBins \in Nat \ {0} /\ Bins = 0..numBins - 1 /\ DOMAIN bins = 0..numBins - 1
      /\ oldsize \in Nat \ {0} /\ bin_i \in 0..oldsize - 1 /\ entry_i \in Slots
  BY <1>1, TypedFacts DEF Typed, TypeOK, HalfSettled, Bins
<1>3. PICK g \in Nat \ {0} : numBins = g * oldsize
  BY DEF HalfSettled
<1>4. bin_i \in Bins
  <2>1. oldsize <= numBins
    BY <1>2, <1>3, TimesPositive
  <2> QED BY <1>2, <2>1
<1>5. Filled(bins, bin_i, entry_i)
  BY <1>1, <1>2, <1>4 DEF Filled
<1>6. entry.ptr \in Key /\ hash[entry.ptr] \in Nat
  <2>1. entry.ptr \in Key
    BY <1>1, <1>5, TypedFacts
  <2> QED BY <2>1 DEF Typed, TypeOK
<1>7. newbin_i = hash[entry.ptr] % numBins /\ newbin_i \in Bins
  BY <1>2, <1>6, ModRange DEF newbin_i, BinOf
<1>8. bin_i = hash[entry.ptr] % oldsize
  <2>1. ~Passed(bin_i, entry_i)
    <3>1. entry_i \in Nat
      BY <1>2 DEF Slots
    <3> QED BY <1>2, <3>1 DEF Passed
  <2> QED BY <1>1, <1>5, <2>1 DEF HalfSettled
<1>9. newbin_i % oldsize = bin_i
  BY <1>2, <1>3, <1>6, <1>7, <1>8, ModMod
<1>10. newbin_i >= oldsize
  <2>1. newbin_i \in 0..oldsize - 1 => newbin_i % oldsize = newbin_i
    BY <1>2, ModSmall
  <2> QED BY <1>1, <1>2, <1>7, <1>9, <2>1
<1>11. ~Filled(bins, newbin_i, entry_i)
  <2>1. SUFFICES ASSUME Filled(bins, newbin_i, entry_i) PROVE FALSE
    OBVIOUS
  <2>2. \/ newbin_i % oldsize < bin_i
        \/ newbin_i % oldsize = bin_i /\ entry_i < entry_i
    BY <1>10, <2>1 DEF HalfSettled
  <2>3. entry_i \in Nat
    BY <1>2 DEF Slots
  <2> QED BY <1>2, <1>9, <2>2, <2>3
<1>12. entry_i \in Targets /\ Targets \in SUBSET Slots
  BY <1>2, <1>7, <1>11 DEF Targets, Filled
<1> QED BY <1>4, <1>5, <1>7, <1>9, <1>10, <1>12

(* Where an entry goes.                                                    *)
LEMMA TargetFacts ==
  ASSUME Typed, HalfSettled, Moves
  PROVE  \E target \in Slots :
           /\ target \in Targets /\ target <= entry_i /\ ~Filled(bins, newbin_i, target)
           /\ bins[newbin_i][target] = EmptyMeta
           /\ MoveEntry => bins' = [bins EXCEPT ![newbin_i][target] = bins[bin_i][entry_i],
                                                ![bin_i][entry_i] = bins[newbin_i][target]]
<1> DEFINE target == IF entry_i = 0 THEN 0 ELSE FirstSlot(Targets)
<1>1. entry_i \in Targets /\ Targets \in SUBSET Slots /\ newbin_i \in Bins /\ entry_i \in Slots
  BY RoomInNewBin DEF Typed, TypeOK
<1>2. target \in Targets /\ target \in Slots /\ target <= entry_i
  <2>1. FirstSlot(Targets) \in Targets /\ FirstSlot(Targets) <= entry_i
    <3>1. Targets # {}
      BY <1>1
    <3> QED BY <1>1, <3>1, LeastSlot
  <2>2. CASE entry_i = 0
    <3>1. target = entry_i
      BY <2>2
    <3>2. entry_i \in Nat
      BY <1>1 DEF Slots
    <3> HIDE DEF target
    <3> QED BY <1>1, <3>1, <3>2
  <2>3. CASE entry_i # 0
    <3>1. target = FirstSlot(Targets)
      BY <2>3
    <3> HIDE DEF target
    <3> QED BY <1>1, <2>1, <3>1
  <2> QED BY <2>2, <2>3
<1>3. MoveEntry => bins' = [bins EXCEPT ![newbin_i][target] = bins[bin_i][entry_i],
                                        ![bin_i][entry_i] = bins[newbin_i][target]]
  BY <1>1 DEF MoveEntry, entry
<1> HIDE DEF target
<1>4. bins[newbin_i][target].ptr = NULL
  BY <1>2 DEF Targets
<1>5. bins[newbin_i][target] \in Entry
  BY <1>1, <1>2, TypedFacts DEF Table
<1> QED BY <1>2, <1>3, <1>4, <1>5, EntryFacts DEF Filled

(* A move takes one entry to an empty place, and leaves one.               *)
LEMMA MoveFacts ==
  ASSUME Typed, HalfSettled, Moves, MoveEntry
  PROVE  \E target \in Slots :
           /\ target <= entry_i /\ ~Filled(bins, newbin_i, target)
           /\ numBins' = numBins /\ Bins' = Bins /\ bins' \in Table(numBins)
           /\ bins'[newbin_i][target] = bins[bin_i][entry_i]
           /\ ~Filled(bins', bin_i, entry_i)
           /\ \A c, f : Filled(bins', c, f) =>
                \/ c = newbin_i /\ f = target
                \/ /\ Filled(bins, c, f) /\ bins'[c][f] = bins[c][f]
                   /\ ~(c = bin_i /\ f = entry_i)
           /\ \A c, f : Filled(bins, c, f) /\ ~(c = bin_i /\ f = entry_i) =>
                Filled(bins', c, f) /\ bins'[c][f] = bins[c][f]
           /\ Filled(bins', newbin_i, target)
           /\ Cardinality(OccupiedIn(bins')) = Cardinality(OccupiedIn(bins))
<1> DEFINE n == numBins
           c == newbin_i
           b == bin_i
           e == entry_i
           m == bins[b][e]
<1>1. /\ n \in Nat \ {0} /\ bins \in Table(n) /\ Bins = 0..n - 1 /\ e \in Slots
      /\ c \in 0..n - 1 /\ b \in 0..n - 1 /\ c # b /\ Filled(bins, b, e)
  BY TypedFacts, RoomInNewBin DEF Typed, TypeOK, Moves
<1>2. PICK f \in Slots :
        /\ f \in Targets /\ f <= e /\ ~Filled(bins, c, f) /\ bins[c][f] = EmptyMeta
        /\ bins' = [bins EXCEPT ![c][f] = bins[b][e], ![b][e] = bins[c][f]]
  BY TargetFacts, Zenon
<1>3. m \in Entry /\ m.ptr # NULL /\ EmptyMeta \in Entry /\ EmptyMeta.ptr = NULL
  BY <1>1 DEF Table, Filled, Entry, EmptyMeta
<1>4. Bins = DOMAIN bins /\ Bins' = DOMAIN bins' /\ numBins' = Cardinality(DOMAIN bins')
  BY DEF Bins, numBins
<1> HIDE DEF n, c, b, e, m
<1> DEFINE t == [bins EXCEPT ![c][f] = m]
<1>5. bins' = [t EXCEPT ![b][e] = EmptyMeta]
  BY <1>2 DEF m
<1>6. t \in Table(n) /\ Wrote(bins, t, c, f, m)
  BY <1>1, <1>3, WriteFacts, Zenon
<1> HIDE DEF t
<1>7. bins' \in Table(n) /\ Wrote(t, bins', b, e, EmptyMeta)
  <2>1. /\ [t EXCEPT ![b][e] = EmptyMeta] \in Table(n)
        /\ Wrote(t, [t EXCEPT ![b][e] = EmptyMeta], b, e, EmptyMeta)
    BY <1>1, <1>3, <1>6, WriteFacts, Zenon
  <2> QED BY <1>5, <2>1, Zenon
<1>8. /\ DOMAIN bins = 0..n - 1 /\ DOMAIN t = 0..n - 1 /\ DOMAIN bins' = 0..n - 1
      /\ Cardinality(DOMAIN bins') = n /\ Cardinality(OccupiedIn(bins)) \in Nat
  BY <1>1, <1>6, <1>7, TableFacts
<1>9. t[b][e] = m /\ t[c][f] = m
  BY <1>1, <1>6, <1>8 DEF Wrote, m
<1>10. Cardinality(OccupiedIn(bins')) = Cardinality(OccupiedIn(bins))
  <2>1. CountedWrite(bins, t, bins[c][f], m)
    BY <1>1, <1>3, <1>6, WriteCounts, Zenon
  <2>2. Cardinality(OccupiedIn(t)) = Cardinality(OccupiedIn(bins)) + 1
    BY <1>2, <1>3, <2>1 DEF CountedWrite
  <2>3. CountedWrite(t, bins', t[b][e], EmptyMeta)
    BY <1>1, <1>3, <1>6, <1>7, WriteCounts, Zenon
  <2>4. Cardinality(OccupiedIn(bins')) = Cardinality(OccupiedIn(t)) - 1
    BY <1>3, <1>9, <2>3 DEF CountedWrite
  <2> QED BY <1>8, <2>2, <2>4
<1>11. ~Filled(bins', b, e) /\ bins'[c][f] = bins[b][e]
  <2>1. bins'[b][e] = EmptyMeta
    BY <1>1, <1>7, <1>8 DEF Wrote
  <2>2. bins'[c][f] = m
    BY <1>1, <1>7, <1>8, <1>9 DEF Wrote
  <2> QED BY <1>3, <2>1, <2>2 DEF Filled, m
<1>12. ASSUME NEW d, NEW g, Filled(bins', d, g)
      PROVE  \/ d = c /\ g = f
             \/ Filled(bins, d, g) /\ bins'[d][g] = bins[d][g] /\ ~(d = b /\ g = e)
  <2>1. d \in 0..n - 1 /\ g \in Slots /\ bins'[d][g].ptr # NULL
    BY <1>8, <1>12 DEF Filled
  <2>2. CASE ~(d = c /\ g = f)
    <3>1. ~(d = b /\ g = e)
      BY <1>11, <1>12
    <3>2. bins'[d][g] = t[d][g] /\ t[d][g] = bins[d][g]
      BY <1>6, <1>7, <1>8, <2>1, <2>2, <3>1 DEF Wrote
    <3> QED BY <1>8, <2>1, <3>1, <3>2 DEF Filled
  <2> QED BY <2>2
<1>13. ASSUME NEW d, NEW g, Filled(bins, d, g), ~(d = b /\ g = e)
       PROVE  Filled(bins', d, g) /\ bins'[d][g] = bins[d][g]
  <2>1. d \in 0..n - 1 /\ g \in Slots /\ ~(d = c /\ g = f)
    BY <1>2, <1>8, <1>13 DEF Filled
  <2>2. bins'[d][g] = t[d][g] /\ t[d][g] = bins[d][g]
    BY <1>6, <1>7, <1>8, <1>13, <2>1 DEF Wrote
  <2> QED BY <1>8, <1>13, <2>1, <2>2 DEF Filled
<1>14. Filled(bins', c, f)
  BY <1>1, <1>3, <1>8, <1>11 DEF Filled, m
<1> QED BY <1>2, <1>4, <1>7, <1>8, <1>10, <1>11, <1>12, <1>13, <1>14 DEF n, c, b, e

(* One entry of reserve_double(): it is where it should be, or it moves    *)
(* into a free slot of its new bin.                                        *)
LEMMA RehashStepKeeps ==
  ASSUME IInv, RehashStep
  PROVE  IInv'
<1> DEFINE i == bin_i
           j == entry_i
           n == numBins
<1>1. /\ pc = "rehash" /\ pc' = "rehash" /\ i < oldsize /\ Rehashing /\ MoveEntry
      /\ entry_i' = (j + 1) % ENTRIES_PER_BIN
      /\ bin_i' = IF entry_i' = 0 THEN i + 1 ELSE i
      /\ UNCHANGED <<hash, victim, cache_entries, fallback_store, pending,
                     required, factor, oldsize>>
  BY DEF RehashStep, Rehashing
<1>2. Typed /\ HalfSettled /\ Counted /\ Distinct /\ size <= capacity
  BY <1>1 DEF IInv
<1>3. /\ n \in Nat \ {0} /\ bins \in Table(n) /\ Bins = 0..n - 1 /\ Bins = DOMAIN bins
      /\ oldsize \in Nat \ {0} /\ i \in 0..oldsize - 1 /\ j \in Slots /\ Slots \subseteq Nat
  BY <1>1, <1>2, TypedFacts DEF Typed, TypeOK, HalfSettled, Bins, Slots
<1>4. /\ bin_i' \in 0..oldsize' /\ entry_i' \in Slots
      /\ \A b \in Nat, e \in Slots : Passed(b, e)' <=> Passed(b, e) \/ (b = i /\ e = j)
      /\ \A b \in Nat, e \in Slots :
           b < i \/ (b = i /\ e <= j) => b < bin_i' \/ (b = bin_i' /\ e < entry_i')
  BY <1>1, <1>2, NextPosition
(* What all steps of the loops have in common.                             *)
<1>5. ASSUME numBins' = n, Bins' = Bins, bins' \in Table(n), Counted',
             \A c, f : Filled(bins', c, f) =>
               \E d, g : Filled(bins, d, g) /\ bins[d][g] = bins'[c][f]
      PROVE  Typed' /\ Waiting' /\ size' <= capacity'
  <2>1. Typed'
    <3>1. bins' \in [0..numBins' - 1 -> [Slots -> Meta \cup {EmptyMeta}]]
      BY <1>5 DEF Table, Entry
    <3> QED BY <1>1, <1>2, <1>3, <1>4, <1>5, <3>1 DEF Typed, TypeOK
  <2>2. size' = size /\ capacity' = capacity
    BY <1>1, <1>5 DEF size, capacity
  <2>3. Waiting'
    <3>1. ASSUME pending.ptr # NULL
          PROVE  /\ \A c, f : Filled(bins', c, f) => bins'[c][f].ptr # pending.ptr
                 /\ pending.ptr \notin DOMAIN fallback_store /\ size + 1 <= capacity
      BY <1>1, <1>5, <3>1 DEF IInv, Waiting
    <3> QED BY <1>1, <2>2, <3>1 DEF Waiting
  <2> QED BY <1>2, <2>1, <2>2, <2>3
<1>6. CASE ~Moves
  <2>1. bins' = bins /\ numBins' = n /\ Bins' = Bins
    BY <1>1, <1>6 DEF MoveEntry, numBins, Bins
  <2>2. Counted'
    BY <1>1, <1>2, <2>1 DEF Counted
  <2>3. Typed' /\ Waiting' /\ size' <= capacity'
    BY <1>3, <1>5, <2>1, <2>2
  <2>4. Distinct'
    BY <1>1, <1>2, <2>1 DEF Distinct
  <2>5. HalfSettled'
    <3>1. ASSUME NEW b, NEW e, Filled(bins', b, e)
          PROVE  b = hash'[bins'[b][e].ptr] % (IF Passed(b, e)' THEN numBins' ELSE oldsize')
      <4>1. Filled(bins, b, e) /\ b \in Nat /\ e \in Slots
        BY <1>3, <2>1, <3>1 DEF Filled
      <4>2. b = hash[bins[b][e].ptr] % (IF Passed(b, e) THEN n ELSE oldsize)
        BY <1>2, <4>1 DEF HalfSettled
      <4>3. CASE b = i /\ e = j
        <5>1. entry.ptr # NULL /\ entry = bins[b][e]
          BY <4>1, <4>3 DEF entry, Filled
        <5>2. newbin_i = bin_i
          BY <1>1, <1>6, <5>1 DEF Moves
        <5>3. b = hash[bins[b][e].ptr] % n
          BY <4>3, <5>1, <5>2 DEF newbin_i, BinOf
        <5>4. Passed(b, e)'
          BY <1>4, <4>1, <4>3
        <5> QED BY <1>1, <2>1, <5>3, <5>4
      <4>4. CASE ~(b = i /\ e = j)
        BY <1>1, <1>4, <2>1, <4>1, <4>2, <4>4
      <4> QED BY <4>3, <4>4
    <3>2. ASSUME NEW b, NEW e, Filled(bins', b, e), b >= oldsize'
          PROVE  \/ b % oldsize' < bin_i'
                 \/ b % oldsize' = bin_i' /\ e < entry_i'
      <4>1. Filled(bins, b, e) /\ b \in Nat /\ e \in Slots
        BY <1>3, <2>1, <3>2 DEF Filled
      <4>2. b % oldsize < i \/ (b % oldsize = i /\ e < j)
        BY <1>1, <1>2, <3>2, <4>1 DEF HalfSettled
      <4>3. b % oldsize \in Nat
        BY <1>3, <4>1, ModRange
      <4>4. b % oldsize < i \/ (b % oldsize = i /\ e <= j)
        BY <1>3, <4>1, <4>2
      <4> QED BY <1>1, <1>4, <4>1, <4>3, <4>4
    <3>3. oldsize' > 0 /\ \E g \in Nat \ {0} : numBins' = g * oldsize'
      BY <1>1, <1>2, <2>1 DEF HalfSettled
    <3> QED BY <3>1, <3>2, <3>3 DEF HalfSettled
  <2> QED BY <1>1, <2>2, <2>3, <2>4, <2>5 DEF IInv
<1>7. CASE Moves
  <2>1. PICK target \in Slots :
           /\ target <= j /\ ~Filled(bins, newbin_i, target)
           /\ numBins' = n /\ Bins' = Bins /\ bins' \in Table(n)
           /\ bins'[newbin_i][target] = bins[i][j]
           /\ ~Filled(bins', i, j)
           /\ \A c, f : Filled(bins', c, f) =>
                \/ c = newbin_i /\ f = target
                \/ /\ Filled(bins, c, f) /\ bins'[c][f] = bins[c][f]
                   /\ ~(c = i /\ f = j)
           /\ Cardinality(OccupiedIn(bins')) = Cardinality(OccupiedIn(bins))
    BY <1>1, <1>2, <1>7, MoveFacts
  <2>2. /\ newbin_i \in Bins /\ newbin_i >= oldsize /\ newbin_i % oldsize = i
        /\ Filled(bins, i, j) /\ newbin_i = hash[bins[i][j].ptr] % n
    BY <1>2, <1>7, RoomInNewBin DEF entry
  <2>3. Counted'
    BY <1>1, <1>2, <2>1 DEF Counted
  <2>4. \A c, f : Filled(bins', c, f) =>
               \E d, g : Filled(bins, d, g) /\ bins[d][g] = bins'[c][f]
    BY <2>1, <2>2
  <2>5. Typed' /\ Waiting' /\ size' <= capacity'
    BY <1>5, <2>1, <2>3, <2>4
  <2>6. Distinct'
    <3>1. ASSUME NEW c, NEW f, NEW d, NEW g, Filled(bins', c, f), Filled(bins', d, g),
                 bins'[c][f].ptr = bins'[d][g].ptr
          PROVE  c = d /\ f = g
      <4>1. CASE (c = newbin_i /\ f = target) /\ ~(d = newbin_i /\ g = target)
        <5>1. /\ Filled(bins, d, g) /\ bins'[d][g] = bins[d][g] /\ ~(d = i /\ g = j)
              /\ bins'[c][f] = bins[i][j]
          BY <2>1, <3>1, <4>1
        <5> QED BY <1>2, <2>2, <3>1, <5>1 DEF Distinct
      <4>2. CASE ~(c = newbin_i /\ f = target) /\ (d = newbin_i /\ g = target)
        <5>1. /\ Filled(bins, c, f) /\ bins'[c][f] = bins[c][f] /\ ~(c = i /\ f = j)
              /\ bins'[d][g] = bins[i][j]
          BY <2>1, <3>1, <4>2
        <5> QED BY <1>2, <2>2, <3>1, <5>1 DEF Distinct
      <4>3. CASE ~(c = newbin_i /\ f = target) /\ ~(d = newbin_i /\ g = target)
        <5>1. /\ Filled(bins, c, f) /\ bins'[c][f] = bins[c][f]
              /\ Filled(bins, d, g) /\ bins'[d][g] = bins[d][g]
          BY <2>1, <3>1, <4>3
        <5> QED BY <1>2, <3>1, <5>1 DEF Distinct
      <4> QED BY <4>1, <4>2, <4>3
    <3>2. ASSUME NEW c, NEW f, Filled(bins', c, f)
          PROVE  bins'[c][f].ptr \notin DOMAIN fallback_store'
      <4>1. PICK d, g : Filled(bins, d, g) /\ bins[d][g] = bins'[c][f]
        BY <2>4, <3>2
      <4> QED BY <1>1, <1>2, <4>1 DEF Distinct
    <3> QED BY <3>1, <3>2 DEF Distinct
  <2>7. HalfSettled'
    <3>1. ASSUME NEW b, NEW e, Filled(bins', b, e)
          PROVE  b = hash'[bins'[b][e].ptr] % (IF Passed(b, e)' THEN numBins' ELSE oldsize')
      <4>1. b \in Nat /\ e \in Slots
        BY <1>3, <2>1, <3>1 DEF Filled, Bins
      <4>2. CASE b = newbin_i /\ e = target
        <5>1. Passed(b, e)
          BY <2>2, <4>2 DEF Passed
        <5> QED BY <1>1, <1>4, <2>1, <2>2, <4>1, <4>2, <5>1
      <4>3. CASE ~(b = newbin_i /\ e = target)
        <5>1. Filled(bins, b, e) /\ bins'[b][e] = bins[b][e] /\ ~(b = i /\ e = j)
          BY <2>1, <3>1, <4>3
        <5>2. b = hash[bins[b][e].ptr] % (IF Passed(b, e) THEN n ELSE oldsize)
          BY <1>2, <5>1 DEF HalfSettled
        <5> QED BY <1>1, <1>4, <2>1, <4>1, <5>1, <5>2
      <4> QED BY <4>2, <4>3
    <3>2. ASSUME NEW b, NEW e, Filled(bins', b, e), b >= oldsize'
          PROVE  \/ b % oldsize' < bin_i'
                 \/ b % oldsize' = bin_i' /\ e < entry_i'
      <4>1. b \in Nat /\ e \in Slots /\ b % oldsize \in Nat
        <5>1. b \in Nat /\ e \in Slots
          BY <1>3, <2>1, <3>2 DEF Filled, Bins
        <5> QED BY <1>3, <5>1, ModRange
      <4>2. b % oldsize < i \/ (b % oldsize = i /\ e <= j)
        <5>1. CASE b = newbin_i /\ e = target
          BY <2>1, <2>2, <5>1
        <5>2. CASE ~(b = newbin_i /\ e = target)
          <6>1. Filled(bins, b, e)
            BY <2>1, <3>2, <5>2
          <6>2. b % oldsize < i \/ (b % oldsize = i /\ e < j)
            BY <1>1, <1>2, <3>2, <6>1 DEF HalfSettled
          <6> QED BY <1>3, <4>1, <6>2
        <5> QED BY <5>1, <5>2
      <4> QED BY <1>1, <1>4, <4>1, <4>2
    <3>3. oldsize' > 0 /\ \E g \in Nat \ {0} : numBins' = g * oldsize'
      BY <1>1, <1>2, <2>1 DEF HalfSettled
    <3> QED BY <3>1, <3>2, <3>3 DEF HalfSettled
  <2> QED BY <1>1, <2>3, <2>5, <2>6, <2>7 DEF IInv
<1> QED BY <1>6, <1>7

(* Once the loops are done every entry has been passed, so all are in the  *)
(* bin of their hash; then put() goes on.                                  *)
LEMMA RehashDoneKeeps ==
  ASSUME IInv, RehashDone
  PROVE  IInv'
<1>1. /\ pc = "rehash" /\ pc' = "idle" /\ bin_i = oldsize
      /\ pending' = EmptyMeta /\ required' = 0 /\ factor' = 0
      /\ oldsize' = 0 /\ bin_i' = 0 /\ entry_i' = 0
      /\ UNCHANGED <<hash, victim>>
      /\ IF pending.ptr # NULL THEN Insert(pending)
         ELSE UNCHANGED <<bins, cache_entries, fallback_store, ret>>
  BY DEF RehashDone
<1>2. Typed /\ HalfSettled /\ Counted /\ Distinct /\ size <= capacity
  BY <1>1 DEF IInv
<1>3. Settled
  <2> SUFFICES ASSUME NEW b, NEW e, Filled(bins, b, e)
               PROVE  b = hash[bins[b][e].ptr] % numBins
    BY DEF Settled
  <2>1. b \in Nat /\ oldsize \in Nat
    BY <1>2, TypedFacts DEF Filled, Bins, Typed, TypeOK
  <2>2. Passed(b, e)
    BY <1>1, <2>1 DEF Passed
  <2> QED BY <1>2, <2>2 DEF HalfSettled
<1>4. LoopsTyped'
  BY <1>1, StoreAssumption DEF LoopsTyped, Slots
<1>5. CASE pending.ptr # NULL
  <2>1. /\ pending \in Meta /\ pending.ptr \notin DOMAIN fallback_store
        /\ \A b, e : Filled(bins, b, e) => bins[b][e].ptr # pending.ptr
        /\ size + 1 <= capacity
    BY <1>1, <1>2, <1>5 DEF IInv, Waiting, Typed, TypeOK, EmptyMeta
  <2>2. Insert(pending)
    BY <1>1, <1>5
  <2> QED BY <1>1, <1>2, <1>3, <1>4, <2>1, <2>2, InsertKeeps
<1>6. CASE pending.ptr = NULL
  <2>1. UNCHANGED <<bins, cache_entries, fallback_store>>
    BY <1>1, <1>6
  <2>2. Typed'
    BY <1>1, <1>2, <1>4, <2>1, TableStays DEF Typed, TypeOK, LoopsTyped
  <2>3. size' <= capacity' /\ Counted'
    BY <1>2, <2>1, TableStays DEF size
  <2>4. Distinct' /\ Settled'
    BY <1>1, <1>2, <1>3, <2>1, TableStays, FewerKeep
  <2>5. Waiting'
    BY <1>1 DEF Waiting
  <2> QED BY <1>1, <2>2, <2>3, <2>4, <2>5 DEF IInv
<1> QED BY <1>5, <1>6

-----------------------------------------------------------------------------
(* The initial table is empty.                                             *)
LEMMA Initially == Init => IInv
<1> SUFFICES ASSUME Init PROVE IInv
  OBVIOUS
<1>1. /\ bins = [b \in 0..InitialBins - 1 |-> EmptyBin] /\ cache_entries = 0
      /\ fallback_store = EmptyStore /\ pc = "idle" /\ pending = EmptyMeta
      /\ required = 0 /\ factor = 0 /\ oldsize = 0 /\ bin_i = 0 /\ entry_i = 0
      /\ victim \in [Key -> Slots]
  BY DEF Init
<1>2. InitialBins \in Nat \ {0}
  BY StoreAssumption
<1>3. Bins = 0..InitialBins - 1 /\ numBins = InitialBins
  <2>1. Bins = 0..InitialBins - 1
    BY <1>1 DEF Bins
  <2> QED BY <1>2, <2>1, FS_Interval DEF numBins
<1>4. hash \in [Key -> Nat]
  <2> DEFINE top == 2^HashBits - 1
  <2>1. hash \in [Key -> 0..top]
    BY DEF Init
  <2> HIDE DEF top
  <2>2. 0..top \subseteq Nat
    OBVIOUS
  <2> QED BY <2>1, <2>2
<1>5. DOMAIN fallback_store = {} /\ Cardinality(DOMAIN fallback_store) = 0
      /\ IsFiniteSet(DOMAIN fallback_store)
  BY <1>1, FS_EmptySet DEF EmptyStore
<1>6. Typed
  <2>1. EmptyBin \in [Slots -> Meta \cup {EmptyMeta}]
    BY DEF EmptyBin
  <2>2. bins \in [0..numBins - 1 -> [Slots -> Meta \cup {EmptyMeta}]]
    BY <1>1, <1>3, <2>1
  <2>3. 0 \in Slots
    BY StoreAssumption DEF Slots
  <2> QED BY <1>1, <1>2, <1>3, <1>4, <1>5, <2>2, <2>3 DEF Typed, TypeOK
<1>7. \A c, f : ~Filled(bins, c, f)
  BY <1>1 DEF Filled, EmptyBin, EmptyMeta
<1>8. Counted
  <2>1. OccupiedIn(bins) = {}
    BY <1>1 DEF OccupiedIn, EmptyBin, EmptyMeta
  <2> QED BY <1>1, <2>1, FS_EmptySet DEF Counted
<1>9. size <= capacity
  <2>1. capacity \in Nat
    BY <1>6, TypedFacts
  <2> QED BY <1>1, <1>5, <2>1 DEF size
<1>10. Distinct /\ Settled
  BY <1>7 DEF Distinct, Settled
<1> QED BY <1>1, <1>6, <1>8, <1>9, <1>10 DEF IInv, Waiting

(* A step that changes no variable.                                        *)
LEMMA UnchangedKeeps ==
  ASSUME IInv, UNCHANGED <<bins, cache_entries>>,
         UNCHANGED <<hash, victim, fallback_store, pc, loop>>
  PROVE  IInv'
<1>1. UNCHANGED <<hash, victim, bins, cache_entries, fallback_store, pc, pending,
                  required, factor, oldsize, bin_i, entry_i>>
  BY DEF loop
<1>2. Typed' /\ Counted' /\ size' = size /\ capacity' = capacity
  BY <1>1, TableStays DEF IInv, Typed, TypeOK, size
<1>3. Distinct' /\ (pc' # "rehash" => Settled')
  BY <1>1, TableStays DEF IInv, Distinct, Settled
<1>4. pc' = "rehash" => HalfSettled'
  BY <1>1, TableStays DEF IInv, HalfSettled, Passed
<1>5. Waiting'
  BY <1>1, <1>2, TableStays DEF IInv, Waiting
<1> QED BY <1>2, <1>3, <1>4, <1>5 DEF IInv

(* Every operation and every step of the loops keeps the invariant.        *)
LEMMA Inductive == IInv /\ [Next]_vars => IInv'
<1> SUFFICES ASSUME IInv, [Next]_vars PROVE IInv'
  OBVIOUS
<1>1. ASSUME NEW m \in Meta, put(m) PROVE IInv'
  BY <1>1, PutKeeps
<1>2. ASSUME NEW m \in Meta, remove(m) PROVE IInv'
  BY <1>2, RemoveKeeps
<1>3. ASSUME NEW m \in Meta, update(m) PROVE IInv'
  BY <1>3, UpdateKeeps
<1>4. ASSUME NEW key, get(key) PROVE IInv'
  BY <1>4, GetKeeps
<1>5. ASSUME NEW request \in Requests, reserve(request) PROVE IInv'
  BY <1>5, ReserveKeeps
<1>6. CASE clear
  BY <1>6, ClearKeeps
<1>7. CASE GrowStep
  BY <1>7, GrowStepKeeps
<1>8. CASE StartRehash
  BY <1>8, StartRehashKeeps
<1>9. CASE RehashStep
  BY <1>9, RehashStepKeeps
<1>10. CASE RehashDone
  BY <1>10, RehashDoneKeeps
<1>11. CASE UNCHANGED vars
  <2>1. UNCHANGED <<bins, cache_entries>>
        /\ UNCHANGED <<hash, victim, fallback_store, pc, loop>>
    BY <1>11 DEF vars, loop
  <2> QED BY <2>1, UnchangedKeeps
<1> QED BY <1>1, <1>2, <1>3, <1>4, <1>5, <1>6, <1>7, <1>8, <1>9, <1>10, <1>11 DEF Next

(* The parts of the invariant hold together in every state.                *)
LEMMA Invariant == Spec => []IInv
<1>1. Init => IInv
  BY Initially
<1>2. IInv /\ [Next]_vars => IInv'
  BY Inductive
<1> QED BY <1>1, <1>2, PTL DEF Spec

-----------------------------------------------------------------------------
(* The table always has a number of bins with all their slots, and holds   *)
(* chunks only; the counters of the loops stay in range.                   *)
THEOREM TypeCorrect == Spec => []TypeOK
<1>1. IInv => TypeOK
  BY DEF IInv, Typed
<1> QED BY <1>1, Invariant, PTL

(* The comments of reserve_double() are right that the new bin has a free  *)
(* slot, and that its first slot is free for a first entry                 *)
(* (CachedMetaStore.h:136-142): no entry is left behind in a bin where     *)
(* get_entry() does not search.                                            *)
THEOREM RehashFindsRoom == Spec => []TargetHasSpace
<1>1. IInv => TargetHasSpace
  <2> SUFFICES ASSUME IInv, Moves PROVE Targets # {} /\ (entry_i = 0 => 0 \in Targets)
    BY DEF TargetHasSpace
  <2>1. Typed /\ HalfSettled
    BY DEF IInv, Moves, Rehashing
  <2>2. entry_i \in Targets
    BY <2>1, RoomInNewBin
  <2> QED BY <2>2
<1> QED BY <1>1, Invariant, PTL

(* Whatever was put, evicted, removed and rehashed, every entry is in the  *)
(* bin where get_entry() searches, and no pointer has a second entry in    *)
(* the table or in the fallback store.                                     *)
THEOREM EntriesAreFindable == Spec => []EntriesFindable
<1>1. IInv => EntriesFindable
  <2> SUFFICES ASSUME IInv, NEW s \in Occupied
               PROVE  LET key == bins[s[1]][s[2]].ptr
                      IN /\ s[1] = BinOf(key, IF pc # "rehash" \/ Passed(s[1], s[2])
                                              THEN numBins ELSE oldsize)
                         /\ key \notin DOMAIN fallback_store
                         /\ \A t \in Occupied \ {s} : bins[t[1]][t[2]].ptr # key
    BY DEF EntriesFindable
  <2> DEFINE b == s[1]
             e == s[2]
             key == bins[b][e].ptr
  <2>1. Filled(bins, b, e) /\ s = <<b, e>>
    BY DEF Occupied, Filled, Bins
  <2>2. b = BinOf(key, IF pc # "rehash" \/ Passed(b, e) THEN numBins ELSE oldsize)
    BY <2>1 DEF IInv, Settled, HalfSettled, BinOf
  <2>3. key \notin DOMAIN fallback_store
    BY <2>1 DEF IInv, Distinct
  <2>4. ASSUME NEW t \in Occupied, t # s PROVE bins[t[1]][t[2]].ptr # key
    <3>1. Filled(bins, t[1], t[2]) /\ t = <<t[1], t[2]>>
      BY DEF Occupied, Filled, Bins
    <3>2. ~(t[1] = b /\ t[2] = e)
      BY <2>1, <2>4, <3>1
    <3> QED BY <2>1, <3>1, <3>2 DEF IInv, Distinct
  <2> QED BY <2>2, <2>3, <2>4
<1> QED BY <1>1, Invariant, PTL

(* cache_entries is exact, through evictions and growth, and a table at    *)
(* rest has a slot for every chunk: ensure_capacity() asked for enough.    *)
THEOREM SizeCorrect == Spec => []SizeIsExact
<1>1. IInv => SizeIsExact
  <2>1. Occupied = OccupiedIn(bins)
    BY DEF Occupied, OccupiedIn, Bins
  <2> QED BY <2>1 DEF IInv, Counted, SizeIsExact
<1> QED BY <1>1, Invariant, PTL

-----------------------------------------------------------------------------
(***************************************************************************)
(* The cached store implements the interface (MetaStoreSpec): the map a    *)
(* client sees is determined by the entries of the table and the fallback  *)
(* store (Holds), whatever their places; so each operation changes it as   *)
(* the interface says, and the steps of a growing table do not change it.  *)
(***************************************************************************)

(* The map a table and a fallback store make.                              *)
CachedOf(t) == {t[s[1]][s[2]] : s \in OccupiedIn(t)}
ContentsOf(t, fb) ==
  LET cached == CachedOf(t)
      keys == {m.ptr : m \in cached}
  IN [key \in keys \cup DOMAIN fb |->
        IF key \in keys THEN (CHOOSE m \in cached : m.ptr = key).size
        ELSE fb[key]]

DistinctIn(t, fb) ==
  /\ \A b, e, c, f : Filled(t, b, e) /\ Filled(t, c, f) /\ t[b][e].ptr = t[c][f].ptr
       => b = c /\ e = f
  /\ \A b, e : Filled(t, b, e) => t[b][e].ptr \notin DOMAIN fb

(* What determines it.                                                     *)
Holds(F, t, fb) ==
  /\ F = [k \in DOMAIN F |-> F[k]]
  /\ \A k : k \in DOMAIN F <=>
       (\E b, e : Filled(t, b, e) /\ t[b][e].ptr = k) \/ k \in DOMAIN fb
  /\ \A b, e : Filled(t, b, e) => F[t[b][e].ptr] = t[b][e].size
  /\ \A k \in DOMAIN fb : F[k] = fb[k]

(* There is only one map that a table and a fallback store hold.           *)
LEMMA Determined ==
  ASSUME NEW F, NEW G, NEW t, NEW fb, Holds(F, t, fb), Holds(G, t, fb)
  PROVE  F = G
<1>1. DOMAIN F = DOMAIN G
  BY DEF Holds
<1>2. ASSUME NEW k \in DOMAIN F PROVE F[k] = G[k]
  <2>1. CASE k \in DOMAIN fb
    BY <2>1 DEF Holds
  <2>2. CASE \E b, e : Filled(t, b, e) /\ t[b][e].ptr = k
    BY <2>2 DEF Holds
  <2> QED BY <2>1, <2>2 DEF Holds
<1>3. F = [k \in DOMAIN F |-> F[k]] /\ G = [k \in DOMAIN G |-> G[k]]
  BY DEF Holds
<1> QED BY <1>1, <1>2, <1>3

(* The cached chunks are those of the filled slots.                        *)
LEMMA CachedPairs ==
  ASSUME NEW t
  PROVE  \A m : m \in CachedOf(t) <=> \E b, e : Filled(t, b, e) /\ m = t[b][e]
<1> SUFFICES ASSUME NEW m PROVE m \in CachedOf(t) <=> \E b, e : Filled(t, b, e) /\ m = t[b][e]
  OBVIOUS
<1>1. ASSUME m \in CachedOf(t) PROVE \E b, e : Filled(t, b, e) /\ m = t[b][e]
  BY <1>1 DEF CachedOf, OccupiedIn, Filled
<1>2. ASSUME NEW b, NEW e, Filled(t, b, e), m = t[b][e] PROVE m \in CachedOf(t)
  <2>1. <<b, e>> \in OccupiedIn(t)
    BY <1>2, OccupiedPairs DEF Filled
  <2>2. <<b, e>>[1] = b /\ <<b, e>>[2] = e
    OBVIOUS
  <2> QED BY <1>2, <2>1, <2>2 DEF CachedOf
<1> QED BY <1>1, <1>2

(* The map of the store is the one that its entries determine.             *)
LEMMA ContentsFacts ==
  ASSUME NEW t, NEW fb, DistinctIn(t, fb)
  PROVE  Holds(ContentsOf(t, fb), t, fb)
<1> DEFINE cached == CachedOf(t)
           keys == {m.ptr : m \in cached}
           F == ContentsOf(t, fb)
<1>1. \A m : m \in cached <=> \E b, e : Filled(t, b, e) /\ m = t[b][e]
  BY CachedPairs
<1>2. F = [key \in keys \cup DOMAIN fb |->
             IF key \in keys THEN (CHOOSE m \in cached : m.ptr = key).size ELSE fb[key]]
  BY DEF ContentsOf
<1> HIDE DEF cached, F
<1>3. DOMAIN F = keys \cup DOMAIN fb
  BY <1>2
<1>4. \A k : k \in keys <=> \E b, e : Filled(t, b, e) /\ t[b][e].ptr = k
  BY <1>1
<1>5. ASSUME NEW b, NEW e, Filled(t, b, e) PROVE F[t[b][e].ptr] = t[b][e].size
  <2> DEFINE k == t[b][e].ptr
  <2>1. t[b][e] \in cached /\ k \in keys
    BY <1>1, <1>4, <1>5
  <2>2. \A m \in cached : m.ptr = k => m = t[b][e]
    BY <1>1, <1>5 DEF DistinctIn
  <2>3. (CHOOSE m \in cached : m.ptr = k) = t[b][e]
    BY <2>1, <2>2
  <2>4. F[k] = (CHOOSE m \in cached : m.ptr = k).size
    BY <1>2, <2>1
  <2> QED BY <2>3, <2>4
<1>6. ASSUME NEW k \in DOMAIN fb PROVE F[k] = fb[k]
  <2>1. k \notin keys
    BY <1>4, <1>6 DEF DistinctIn
  <2> QED BY <1>2, <2>1
<1>7. F = [k \in DOMAIN F |-> F[k]]
  BY <1>2
<1> QED BY <1>3, <1>4, <1>5, <1>6, <1>7 DEF Holds, F

(* Contents is what the table and the fallback store hold, before a step   *)
(* and after it.                                                           *)
LEMMA HeldBefore == ASSUME IInv PROVE Holds(Contents, bins, fallback_store)
<1>1. Contents = ContentsOf(bins, fallback_store)
  BY DEF Contents, Cached, Occupied, Bins, ContentsOf, CachedOf, OccupiedIn
<1>2. DistinctIn(bins, fallback_store)
  BY DEF IInv, Distinct, DistinctIn
<1> QED BY <1>1, <1>2, ContentsFacts

(* The same after the step.                                                *)
LEMMA HeldAfter == ASSUME IInv' PROVE Holds(Contents', bins', fallback_store')
<1>1. Contents' = ContentsOf(bins', fallback_store')
  BY DEF Contents, Cached, Occupied, Bins, ContentsOf, CachedOf, OccupiedIn
<1>2. DistinctIn(bins', fallback_store')
  BY DEF IInv, Distinct, DistinctIn
<1> QED BY <1>1, <1>2, ContentsFacts

-----------------------------------------------------------------------------
(* Steps that move entries only.                                           *)
LEMMA Unmoved ==
  ASSUME IInv, IInv', UNCHANGED fallback_store,
         \A c, f : Filled(bins', c, f) =>
           \E d, g : Filled(bins, d, g) /\ bins[d][g] = bins'[c][f],
         \A d, g : Filled(bins, d, g) =>
           \E c, f : Filled(bins', c, f) /\ bins'[c][f] = bins[d][g]
  PROVE  Contents' = Contents
<1> DEFINE C == Contents
<1>1. Holds(C, bins, fallback_store) /\ Holds(Contents', bins', fallback_store')
  BY HeldBefore, HeldAfter
<1> HIDE DEF C
<1>2. Holds(C, bins', fallback_store')
  <2>1. C = [k \in DOMAIN C |-> C[k]]
    BY <1>1 DEF Holds
  <2>2. ASSUME NEW k
        PROVE  k \in DOMAIN C <=> (\E b, e : Filled(bins', b, e) /\ bins'[b][e].ptr = k)
                                  \/ k \in DOMAIN fallback_store'
    <3>1. (\E b, e : Filled(bins', b, e) /\ bins'[b][e].ptr = k)
          <=> (\E b, e : Filled(bins, b, e) /\ bins[b][e].ptr = k)
      OBVIOUS
    <3> QED BY <1>1, <3>1 DEF Holds
  <2>3. ASSUME NEW b, NEW e, Filled(bins', b, e)
        PROVE  C[bins'[b][e].ptr] = bins'[b][e].size
    <3>1. PICK d, g : Filled(bins, d, g) /\ bins[d][g] = bins'[b][e]
      BY <2>3
    <3>2. C[bins[d][g].ptr] = bins[d][g].size
      BY <1>1, <3>1 DEF Holds
    <3> QED BY <3>1, <3>2
  <2>4. \A k \in DOMAIN fallback_store' : C[k] = fallback_store'[k]
    BY <1>1 DEF Holds
  <2> QED BY <2>1, <2>2, <2>3, <2>4 DEF Holds
<1>3. Contents' = C
  BY <1>1, <1>2, Determined
<1> QED BY <1>3 DEF C

(* Without a change of the entries the map is the same.                    *)
LEMMA Untouched ==
  ASSUME UNCHANGED <<bins, fallback_store>> PROVE Contents' = Contents
  BY DEF Contents, Cached, Occupied, Bins

(* The comparison of sizes is the abstract one.                            *)
LEMMA SameComparison ==
  ASSUME NEW m, NEW k
  PROVE  Abs!equals_ptr_size(m, k) <=> equals_ptr_size(m, k)
  BY DEF Abs!equals_ptr_size, equals_ptr_size, Abs!chunksize, chunksize,
         Abs!flags, flags, Abs!SIZE_BITS, SIZE_BITS, Abs!PREV_INUSE, PREV_INUSE,
         Abs!IS_MMAPPED, IS_MMAPPED, Abs!NON_MAIN_ARENA, NON_MAIN_ARENA

-----------------------------------------------------------------------------
(* put() once there is room: an evicted entry is in the fallback store.    *)
LEMMA InsertImplements ==
  ASSUME IInv, IInv', NEW m \in Meta, Insert(m),
         \A b, e : Filled(bins, b, e) => bins[b][e].ptr # m.ptr,
         m.ptr \notin DOMAIN fallback_store
  PROVE  Abs!Put(m)
<1> DEFINE C == Contents
           G == [p \in DOMAIN C \cup {m.ptr} |-> IF p = m.ptr THEN m.size ELSE C[p]]
<1>1. Holds(C, bins, fallback_store) /\ Holds(Contents', bins', fallback_store')
  BY HeldBefore, HeldAfter
<1>2. PICK b \in Bins, e \in Slots :
           /\ b = BinOf(m.ptr, numBins)
           /\ numBins' = numBins /\ Bins' = Bins /\ bins' \in Table(numBins)
           /\ \A c, f : c \in Bins /\ f \in Slots =>
                bins'[c][f] = IF c = b /\ f = e THEN m ELSE bins[c][f]
           /\ Counted' /\ cache_entries' \in Nat
           /\ IF Filled(bins, b, e)
              THEN /\ bins[b][e].ptr \notin DOMAIN fallback_store
                   /\ fallback_store' = [p \in DOMAIN fallback_store \cup {bins[b][e].ptr} |->
                                           IF p = bins[b][e].ptr THEN bins[b][e].size
                                           ELSE fallback_store[p]]
                   /\ cache_entries' = cache_entries
              ELSE UNCHANGED fallback_store /\ cache_entries' = cache_entries + 1
           /\ ret' = <<"put", TRUE>>
  <2>1. Typed /\ Counted /\ Distinct
    BY DEF IInv
  <2> QED BY <2>1, InsertFacts, Zenon
<1>3. m.ptr # NULL /\ m.ptr \notin DOMAIN C
  BY <1>1, StoreAssumption DEF Holds, Meta
<1>4. Bins = DOMAIN bins /\ Bins' = DOMAIN bins'
  BY DEF Bins
<1> HIDE DEF C
<1>5. DOMAIN G = DOMAIN C \cup {m.ptr} /\ G = [k \in DOMAIN G |-> G[k]]
      /\ G[m.ptr] = m.size /\ \A k \in DOMAIN C : G[k] = C[k]
  BY <1>3
<1> HIDE DEF G
<1>6. \A c, f : Filled(bins', c, f) <=> (c = b /\ f = e) \/ Filled(bins, c, f)
  BY <1>2, <1>3, <1>4 DEF Filled
<1>7. \A c, f : Filled(bins', c, f) =>
        bins'[c][f] = IF c = b /\ f = e THEN m ELSE bins[c][f]
  BY <1>2, <1>4 DEF Filled
<1>8. /\ \A k : k \in DOMAIN fallback_store' <=>
              k \in DOMAIN fallback_store \/ (Filled(bins, b, e) /\ k = bins[b][e].ptr)
      /\ \A k \in DOMAIN fallback_store : fallback_store'[k] = fallback_store[k]
      /\ Filled(bins, b, e) => fallback_store'[bins[b][e].ptr] = bins[b][e].size
  BY <1>2
<1>9. Holds(G, bins', fallback_store')
  <2>1. ASSUME NEW k
        PROVE  k \in DOMAIN G <=> (\E c, f : Filled(bins', c, f) /\ bins'[c][f].ptr = k)
                                  \/ k \in DOMAIN fallback_store'
    <3>1. k \in DOMAIN G <=> k = m.ptr \/ (\E c, f : Filled(bins, c, f) /\ bins[c][f].ptr = k)
                             \/ k \in DOMAIN fallback_store
      BY <1>1, <1>5 DEF Holds
    <3>2. Filled(bins', b, e) /\ bins'[b][e].ptr = m.ptr
      BY <1>6, <1>7
    <3>3. ASSUME NEW c, NEW f, Filled(bins, c, f), bins[c][f].ptr = k
          PROVE  (\E d, g : Filled(bins', d, g) /\ bins'[d][g].ptr = k)
                 \/ k \in DOMAIN fallback_store'
      <4>1. CASE c = b /\ f = e
        BY <1>8, <3>3, <4>1
      <4>2. CASE ~(c = b /\ f = e)
        <5>1. Filled(bins', c, f) /\ bins'[c][f] = bins[c][f]
          BY <1>6, <1>7, <3>3, <4>2
        <5> QED BY <3>3, <5>1
      <4> QED BY <4>1, <4>2
    <3>4. ASSUME NEW c, NEW f, Filled(bins', c, f), bins'[c][f].ptr = k
          PROVE  k = m.ptr \/ \E d, g : Filled(bins, d, g) /\ bins[d][g].ptr = k
      BY <1>6, <1>7, <3>4
    <3> QED BY <1>8, <3>1, <3>2, <3>3, <3>4
  <2>2. ASSUME NEW c, NEW f, Filled(bins', c, f)
        PROVE  G[bins'[c][f].ptr] = bins'[c][f].size
    <3>1. CASE c = b /\ f = e
      BY <1>5, <1>7, <2>2, <3>1
    <3>2. CASE ~(c = b /\ f = e)
      <4>1. Filled(bins, c, f) /\ bins'[c][f] = bins[c][f]
        BY <1>6, <1>7, <2>2, <3>2
      <4>2. bins[c][f].ptr \in DOMAIN C /\ C[bins[c][f].ptr] = bins[c][f].size
        BY <1>1, <4>1 DEF Holds
      <4> QED BY <1>5, <4>1, <4>2
    <3> QED BY <3>1, <3>2
  <2>3. ASSUME NEW k \in DOMAIN fallback_store' PROVE G[k] = fallback_store'[k]
    <3>1. CASE k \in DOMAIN fallback_store
      <4>1. k \in DOMAIN C /\ C[k] = fallback_store[k]
        BY <1>1, <3>1 DEF Holds
      <4> QED BY <1>5, <1>8, <3>1, <4>1
    <3>2. CASE Filled(bins, b, e) /\ k = bins[b][e].ptr
      <4>1. k \in DOMAIN C /\ C[k] = bins[b][e].size
        BY <1>1, <3>2 DEF Holds
      <4> QED BY <1>5, <1>8, <3>2, <4>1
    <3> QED BY <1>8, <3>1, <3>2
  <2> QED BY <1>5, <2>1, <2>2, <2>3 DEF Holds
<1>10. Contents' = G
  BY <1>1, <1>9, Determined
<1>11. Abs!PutOk(C, m) = TRUE
  BY <1>3 DEF Abs!PutOk
<1>12. Abs!StorePut(C, m) = G
  BY <1>11 DEF Abs!StorePut, G
<1> QED BY <1>2, <1>10, <1>11, <1>12, Zenon DEF Abs!Put, C

-----------------------------------------------------------------------------
(* The search in one bin and then in the fallback store misses nothing.    *)
LEMMA Lookup ==
  ASSUME IInv, pc = "idle", NEW key \in Key
  PROVE  /\ SlotsOf(key) # {} =>
              /\ Filled(bins, get_bin(key), FirstSlot(SlotsOf(key)))
              /\ bins[get_bin(key)][FirstSlot(SlotsOf(key))] = [ptr |-> key, size |-> Contents[key]]
              /\ key \in DOMAIN Contents /\ key \notin DOMAIN fallback_store
         /\ SlotsOf(key) = {} =>
              /\ \A b, e : Filled(bins, b, e) => bins[b][e].ptr # key
              /\ key \in DOMAIN Contents <=> key \in DOMAIN fallback_store
              /\ key \in DOMAIN Contents => Contents[key] = fallback_store[key]
<1>1. Typed /\ Distinct /\ Settled /\ Holds(Contents, bins, fallback_store)
  BY HeldBefore DEF IInv
<1>2. CASE SlotsOf(key) # {}
  <2> DEFINE b == get_bin(key)
             e == FirstSlot(SlotsOf(key))
  <2>1. bins[b][e].ptr = key /\ Filled(bins, b, e)
    BY <1>1, <1>2, SlotFound
  <2>2. bins[b][e] = [ptr |-> bins[b][e].ptr, size |-> bins[b][e].size]
    <3>1. bins[b][e] \in Meta
      BY <1>1, <2>1, TypedFacts
    <3> QED BY <3>1 DEF Meta
  <2> HIDE DEF b, e
  <2>3. Contents[key] = bins[b][e].size /\ key \in DOMAIN Contents
    BY <1>1, <2>1 DEF Holds
  <2>4. key \notin DOMAIN fallback_store
    BY <1>1, <2>1 DEF Distinct
  <2> QED BY <1>2, <2>1, <2>2, <2>3, <2>4 DEF b, e
<1>3. CASE SlotsOf(key) = {}
  <2>1. ASSUME NEW b, NEW e, Filled(bins, b, e), bins[b][e].ptr = key PROVE FALSE
    <3>1. b = get_bin(key)
      BY <1>1, <2>1, StoreAssumption DEF Settled, get_bin, BinOf
    <3>2. e \in SlotsOf(key)
      BY <2>1, <3>1 DEF SlotsOf, Filled
    <3> QED BY <1>3, <3>2
  <2>2. key \in DOMAIN Contents <=> key \in DOMAIN fallback_store
    BY <1>1, <2>1 DEF Holds
  <2>3. key \in DOMAIN fallback_store => Contents[key] = fallback_store[key]
    BY <1>1 DEF Holds
  <2> QED BY <1>3, <2>1, <2>2, <2>3
<1> QED BY <1>2, <1>3

(* The NULL pointer has no entry.                                          *)
LEMMA NoNull == ASSUME IInv PROVE NULL \notin DOMAIN Contents /\ NULL \notin DOMAIN fallback_store
<1>1. DOMAIN fallback_store \subseteq Key /\ Typed
  BY DEF IInv, Typed, TypeOK
<1> QED BY <1>1, HeldBefore, StoreAssumption DEF Holds, Filled

(* Each operation is the operation of the same name on the map, get()      *)
(* first.                                                                  *)
LEMMA GetImplements ==
  ASSUME IInv, NEW key \in Key \cup {NULL}, get(key) PROVE Abs!Get(key)
<1>1. /\ pc = "idle" /\ UNCHANGED <<bins, fallback_store>>
      /\ ret' = <<"get", IF SlotsOf(key) # {}
                         THEN bins[get_bin(key)][FirstSlot(SlotsOf(key))]
                         ELSE StoreGet(fallback_store, key)>>
  BY DEF get
<1>2. Contents' = Contents
  BY <1>1, Untouched
<1>3. Abs!EmptyMeta = EmptyMeta
  BY DEF Abs!EmptyMeta, EmptyMeta
<1>4. (IF SlotsOf(key) # {} THEN bins[get_bin(key)][FirstSlot(SlotsOf(key))]
       ELSE StoreGet(fallback_store, key)) = Abs!StoreGet(Contents, key)
  <2>1. CASE key \in Key
    <3>1. CASE SlotsOf(key) # {}
      BY <1>1, <2>1, <3>1, Lookup DEF Abs!StoreGet
    <3>2. CASE SlotsOf(key) = {}
      BY <1>1, <1>3, <2>1, <3>2, Lookup DEF Abs!StoreGet, StoreGet
    <3> QED BY <3>1, <3>2
  <2>2. CASE key = NULL
    <3>1. Abs!StoreGet(Contents, key) = EmptyMeta /\ StoreGet(fallback_store, key) = EmptyMeta
      BY <1>3, <2>2, NoNull DEF Abs!StoreGet, StoreGet
    <3>2. ASSUME SlotsOf(key) # {}
          PROVE  bins[get_bin(key)][FirstSlot(SlotsOf(key))] = EmptyMeta
      <4>1. SlotsOf(key) \in SUBSET Slots
        BY DEF SlotsOf
      <4>2. FirstSlot(SlotsOf(key)) \in SlotsOf(key)
        BY <3>2, <4>1, LeastSlot
      <4>3. bins[get_bin(key)][FirstSlot(SlotsOf(key))].ptr = NULL /\ FirstSlot(SlotsOf(key)) \in Slots
        BY <2>2, <4>2 DEF SlotsOf
      <4>4. /\ numBins \in Nat \ {0} /\ bins \in Table(numBins)
        BY TypedFacts DEF IInv
      <4>5. get_bin(key) \in 0..numBins - 1
        BY <2>2, <4>4 DEF get_bin
      <4>6. bins[get_bin(key)][FirstSlot(SlotsOf(key))] \in Entry
        BY <4>3, <4>4, <4>5 DEF Table
      <4> QED BY <4>3, <4>6, EntryFacts
    <3> QED BY <3>1, <3>2
  <2> QED BY <2>1, <2>2
<1> QED BY <1>1, <1>2, <1>4, Zenon DEF Abs!Get

(* clear() empties the map.                                                *)
LEMMA ClearImplements == ASSUME IInv', clear PROVE Abs!Clear
<1>1. /\ bins' = [b \in Bins |-> EmptyBin] /\ fallback_store' = EmptyStore /\ ret' = <<"clear">>
  BY DEF clear
<1>2. \A c, f : ~Filled(bins', c, f)
  BY <1>1 DEF Filled, EmptyBin, EmptyMeta
<1>3. Holds(EmptyStore, bins', fallback_store')
  BY <1>1, <1>2 DEF Holds, EmptyStore
<1>4. Contents' = EmptyStore
  BY <1>3, HeldAfter, Determined
<1> QED BY <1>1, <1>4 DEF Abs!Clear, Abs!EmptyStore, EmptyStore

(* remove() takes out the entry whose pointer and chunk size match.        *)
LEMMA RemoveImplements ==
  ASSUME IInv, IInv', NEW m \in Meta, remove(m) PROVE Abs!Remove(m)
<1> DEFINE C == Contents
           b == get_bin(m.ptr)
           e == FirstSlot(SlotsOf(m.ptr))
           G == [p \in DOMAIN C \ {m.ptr} |-> C[p]]
<1>1. pc = "idle" /\ m.ptr \in Key
  BY DEF remove, Meta
<1>2. Holds(C, bins, fallback_store) /\ Holds(Contents', bins', fallback_store')
  BY HeldBefore, HeldAfter
<1>3. /\ m.ptr \in DOMAIN C =>
           Abs!StoreGet(C, m.ptr) = [ptr |-> m.ptr, size |-> C[m.ptr]]
      /\ m.ptr \in DOMAIN fallback_store =>
           StoreGet(fallback_store, m.ptr) = [ptr |-> m.ptr, size |-> fallback_store[m.ptr]]
  BY DEF Abs!StoreGet, StoreGet
<1>4. DOMAIN G = DOMAIN C \ {m.ptr} /\ G = [k \in DOMAIN G |-> G[k]]
      /\ \A k \in DOMAIN G : G[k] = C[k]
  OBVIOUS
<1>5. CASE SlotsOf(m.ptr) = {}
  <2>1. /\ \A d, g : Filled(bins, d, g) => bins[d][g].ptr # m.ptr
        /\ m.ptr \in DOMAIN C <=> m.ptr \in DOMAIN fallback_store
        /\ m.ptr \in DOMAIN C => C[m.ptr] = fallback_store[m.ptr]
    BY <1>1, <1>5, Lookup
  <2>2. /\ fallback_store' = StoreRemove(fallback_store, m)
        /\ ret' = <<"remove", RemoveOk(fallback_store, m)>> /\ UNCHANGED bins
    BY <1>5 DEF remove
  <2> HIDE DEF C, G
  <2>3. RemoveOk(fallback_store, m) = Abs!RemoveOk(C, m)
    BY <1>3, <2>1, SameComparison DEF RemoveOk, Abs!RemoveOk
  <2>4. CASE RemoveOk(fallback_store, m)
    <3>1. fallback_store' = [p \in DOMAIN fallback_store \ {m.ptr} |-> fallback_store[p]]
      BY <2>2, <2>4 DEF StoreRemove
    <3>2. Holds(G, bins', fallback_store')
      <4>1. ASSUME NEW k
            PROVE  k \in DOMAIN G <=> (\E c, f : Filled(bins', c, f) /\ bins'[c][f].ptr = k)
                                      \/ k \in DOMAIN fallback_store'
        BY <1>2, <1>4, <2>1, <2>2, <3>1 DEF Holds
      <4>2. ASSUME NEW c, NEW f, Filled(bins', c, f)
            PROVE  G[bins'[c][f].ptr] = bins'[c][f].size
        <5>1. bins[c][f].ptr \in DOMAIN C /\ C[bins[c][f].ptr] = bins[c][f].size
              /\ bins[c][f].ptr # m.ptr
          BY <1>2, <2>1, <2>2, <4>2 DEF Holds
        <5> QED BY <1>4, <2>2, <5>1
      <4>3. \A k \in DOMAIN fallback_store' : G[k] = fallback_store'[k]
        BY <1>2, <1>4, <3>1 DEF Holds
      <4> QED BY <1>4, <4>1, <4>2, <4>3 DEF Holds
    <3>3. Contents' = G
      BY <1>2, <3>2, Determined
    <3>4. Abs!StoreRemove(C, m) = G
      BY <2>3, <2>4 DEF Abs!StoreRemove, G
    <3> QED BY <2>2, <2>3, <3>3, <3>4, Zenon DEF Abs!Remove, C
  <2>5. CASE ~RemoveOk(fallback_store, m)
    <3>1. Contents' = Contents
      BY <2>2, <2>5, Untouched DEF StoreRemove
    <3>2. Abs!StoreRemove(C, m) = C
      BY <2>3, <2>5 DEF Abs!StoreRemove
    <3> QED BY <2>2, <2>3, <3>1, <3>2, Zenon DEF Abs!Remove, C
  <2> QED BY <2>4, <2>5
<1>6. CASE SlotsOf(m.ptr) # {}
  <2>1. /\ Filled(bins, b, e) /\ bins[b][e] = [ptr |-> m.ptr, size |-> C[m.ptr]]
        /\ m.ptr \in DOMAIN C /\ m.ptr \notin DOMAIN fallback_store
    BY <1>1, <1>6, Lookup
  <2>2. /\ UNCHANGED fallback_store
        /\ IF equals_ptr_size(bins[b][e], m)
           THEN bins' = [bins EXCEPT ![b][e] = EmptyMeta] /\ ret' = <<"remove", TRUE>>
           ELSE ret' = <<"remove", FALSE>> /\ UNCHANGED bins
    BY <1>6 DEF remove
  <2>3. b \in Bins /\ e \in Slots /\ Bins = DOMAIN bins /\ Bins' = DOMAIN bins'
        /\ Typed /\ Distinct
    BY <2>1 DEF Filled, Bins, IInv
  <2> HIDE DEF C, G, b, e
  <2>4. Abs!RemoveOk(C, m) <=> equals_ptr_size(bins[b][e], m)
    BY <1>3, <2>1, SameComparison DEF Abs!RemoveOk
  <2>5. CASE equals_ptr_size(bins[b][e], m)
    <3>1. EmptyMeta \in Entry /\ EmptyMeta.ptr = NULL
      BY DEF Entry, EmptyMeta
    <3>2. /\ Bins' = Bins
          /\ \A c, f : c \in Bins /\ f \in Slots =>
               bins'[c][f] = IF c = b /\ f = e THEN EmptyMeta ELSE bins[c][f]
      BY <2>2, <2>3, <2>5, <3>1, OneWrite
    <3>3. \A c, f : /\ Filled(bins', c, f) <=> Filled(bins, c, f) /\ ~(c = b /\ f = e)
                    /\ Filled(bins', c, f) => bins'[c][f] = bins[c][f]
      BY <2>3, <3>1, <3>2 DEF Filled
    <3>4. \A c, f : Filled(bins, c, f) /\ ~(c = b /\ f = e) => bins[c][f].ptr # m.ptr
      BY <2>1, <2>3 DEF Distinct
    <3>5. Holds(G, bins', fallback_store')
      <4>1. ASSUME NEW k
            PROVE  k \in DOMAIN G <=> (\E c, f : Filled(bins', c, f) /\ bins'[c][f].ptr = k)
                                      \/ k \in DOMAIN fallback_store'
        <5>1. k \in DOMAIN G <=> k # m.ptr /\ ((\E c, f : Filled(bins, c, f) /\ bins[c][f].ptr = k)
                                               \/ k \in DOMAIN fallback_store)
          BY <1>2, <1>4 DEF Holds
        <5>2. (\E c, f : Filled(bins', c, f) /\ bins'[c][f].ptr = k)
              <=> k # m.ptr /\ \E c, f : Filled(bins, c, f) /\ bins[c][f].ptr = k
          BY <2>1, <3>3, <3>4
        <5> QED BY <2>1, <2>2, <5>1, <5>2
      <4>2. ASSUME NEW c, NEW f, Filled(bins', c, f)
            PROVE  G[bins'[c][f].ptr] = bins'[c][f].size
        <5>1. /\ Filled(bins, c, f) /\ bins'[c][f] = bins[c][f] /\ bins[c][f].ptr # m.ptr
          BY <3>3, <3>4, <4>2
        <5>2. bins[c][f].ptr \in DOMAIN C /\ C[bins[c][f].ptr] = bins[c][f].size
          BY <1>2, <5>1 DEF Holds
        <5> QED BY <1>4, <5>1, <5>2
      <4>3. \A k \in DOMAIN fallback_store' : G[k] = fallback_store'[k]
        BY <1>2, <1>4, <2>1, <2>2 DEF Holds
      <4> QED BY <1>4, <4>1, <4>2, <4>3 DEF Holds
    <3>6. Contents' = G
      BY <1>2, <3>5, Determined
    <3>7. Abs!RemoveOk(C, m) = TRUE
      BY <2>4, <2>5 DEF Abs!RemoveOk
    <3>8. Abs!StoreRemove(C, m) = G
      BY <3>7 DEF Abs!StoreRemove, G
    <3> QED BY <2>2, <2>5, <3>6, <3>7, <3>8, Zenon DEF Abs!Remove, C
  <2>6. CASE ~equals_ptr_size(bins[b][e], m)
    <3>1. Contents' = Contents
      BY <2>2, <2>6, Untouched
    <3>2. Abs!RemoveOk(C, m) = FALSE
      BY <2>4, <2>6 DEF Abs!RemoveOk
    <3>3. Abs!StoreRemove(C, m) = C
      BY <3>2 DEF Abs!StoreRemove
    <3> QED BY <2>2, <2>6, <3>1, <3>2, <3>3, Zenon DEF Abs!Remove, C
  <2> QED BY <2>5, <2>6
<1> QED BY <1>5, <1>6

(* update() changes the size where the chunk is found, or nowhere.         *)
LEMMA UpdateImplements ==
  ASSUME IInv, IInv', NEW m \in Meta, update(m) PROVE Abs!Update(m)
<1> DEFINE C == Contents
           b == get_bin(m.ptr)
           e == FirstSlot(SlotsOf(m.ptr))
           G == [C EXCEPT ![m.ptr] = m.size]
<1>1. pc = "idle" /\ m.ptr \in Key /\ m.size \in Sizes /\ m.size # 0 /\ m.ptr # NULL
  BY StoreAssumption DEF update, Meta
<1>2. Holds(C, bins, fallback_store) /\ Holds(Contents', bins', fallback_store')
      /\ Typed /\ Distinct
  BY HeldBefore, HeldAfter DEF IInv
<1>3. DOMAIN G = DOMAIN C /\ G = [k \in DOMAIN G |-> G[k]]
      /\ \A k \in DOMAIN C : G[k] = IF k = m.ptr THEN m.size ELSE C[k]
  BY <1>2 DEF Holds
<1>4. \A k \in DOMAIN fallback_store : fallback_store[k] # 0
  BY <1>2, StoreAssumption DEF Typed, TypeOK
<1>5. CASE SlotsOf(m.ptr) = {}
  <2>1. /\ \A d, g : Filled(bins, d, g) => bins[d][g].ptr # m.ptr
        /\ m.ptr \in DOMAIN C <=> m.ptr \in DOMAIN fallback_store
        /\ m.ptr \in DOMAIN C => C[m.ptr] = fallback_store[m.ptr]
    BY <1>1, <1>5, Lookup
  <2>2. /\ fallback_store' = StoreUpdate(fallback_store, m)
        /\ ret' = <<"update", UpdateOk(fallback_store, m)>> /\ UNCHANGED bins
    BY <1>5 DEF update
  <2> HIDE DEF C, G
  <2>3. UpdateOk(fallback_store, m) = (m.ptr \in DOMAIN fallback_store)
    BY <1>1, <1>4 DEF UpdateOk, StoreGet, is_some, EmptyMeta
  <2>4. Abs!UpdateOk(C, m) = (m.ptr \in DOMAIN fallback_store)
    BY <1>1, <1>4, <2>1 DEF Abs!UpdateOk, Abs!StoreGet, Abs!is_some, Abs!EmptyMeta
  <2>5. CASE m.ptr \in DOMAIN fallback_store
    <3>1. fallback_store' = [fallback_store EXCEPT ![m.ptr] = m.size]
      BY <2>2, <2>3, <2>5 DEF StoreUpdate
    <3>2. Holds(G, bins', fallback_store')
      <4>1. DOMAIN fallback_store' = DOMAIN fallback_store
            /\ \A k \in DOMAIN fallback_store :
                 fallback_store'[k] = IF k = m.ptr THEN m.size ELSE fallback_store[k]
        BY <3>1
      <4>2. ASSUME NEW c, NEW f, Filled(bins', c, f)
            PROVE  G[bins'[c][f].ptr] = bins'[c][f].size
        <5>1. bins[c][f].ptr \in DOMAIN C /\ C[bins[c][f].ptr] = bins[c][f].size
              /\ bins[c][f].ptr # m.ptr
          BY <1>2, <2>1, <2>2, <4>2 DEF Holds
        <5> QED BY <1>3, <2>2, <5>1
      <4>3. \A k \in DOMAIN fallback_store' : G[k] = fallback_store'[k]
        BY <1>2, <1>3, <4>1 DEF Holds
      <4>4. \A k : k \in DOMAIN G <=> (\E c, f : Filled(bins', c, f) /\ bins'[c][f].ptr = k)
                                      \/ k \in DOMAIN fallback_store'
        BY <1>2, <1>3, <2>2, <4>1 DEF Holds
      <4> QED BY <1>3, <4>2, <4>3, <4>4 DEF Holds
    <3>3. Contents' = G
      BY <1>2, <3>2, Determined
    <3>4. Abs!StoreUpdate(C, m) = G
      BY <2>4, <2>5 DEF Abs!StoreUpdate, G
    <3> QED BY <2>2, <2>3, <2>4, <3>3, <3>4, Zenon DEF Abs!Update, C
  <2>6. CASE m.ptr \notin DOMAIN fallback_store
    <3>1. Contents' = Contents
      BY <2>2, <2>3, <2>6, Untouched DEF StoreUpdate
    <3>2. Abs!StoreUpdate(C, m) = C
      BY <2>4, <2>6 DEF Abs!StoreUpdate
    <3> QED BY <2>2, <2>3, <2>4, <3>1, <3>2, Zenon DEF Abs!Update, C
  <2> QED BY <2>5, <2>6
<1>6. CASE SlotsOf(m.ptr) # {}
  <2>1. /\ Filled(bins, b, e) /\ bins[b][e] = [ptr |-> m.ptr, size |-> C[m.ptr]]
        /\ m.ptr \in DOMAIN C /\ m.ptr \notin DOMAIN fallback_store
    BY <1>1, <1>6, Lookup
  <2>2. UNCHANGED fallback_store /\ bins' = [bins EXCEPT ![b][e] = m] /\ ret' = <<"update", TRUE>>
    BY <1>6 DEF update
  <2>3. b \in Bins /\ e \in Slots /\ Bins = DOMAIN bins /\ Bins' = DOMAIN bins'
        /\ bins[b][e] \in Meta /\ m \in Entry
    BY <1>2, <2>1, TypedFacts DEF Filled, Bins, Entry
  <2> HIDE DEF C, G, b, e
  <2>4. Abs!UpdateOk(C, m) = TRUE
    <3>1. C[m.ptr] \in Sizes
      BY <2>1, <2>3 DEF Meta
    <3>2. Abs!StoreGet(C, m.ptr) = [ptr |-> m.ptr, size |-> C[m.ptr]]
      BY <2>1 DEF Abs!StoreGet
    <3> QED BY <1>1, <3>1, <3>2, StoreAssumption DEF Abs!UpdateOk, Abs!is_some
  <2>5. /\ Bins' = Bins
        /\ \A c, f : c \in Bins /\ f \in Slots =>
             bins'[c][f] = IF c = b /\ f = e THEN m ELSE bins[c][f]
    <3>1. Typed /\ b \in Bins /\ e \in Slots /\ m \in Entry
          /\ bins' = [bins EXCEPT ![b][e] = m]
      BY <1>2, <2>2, <2>3
    <3> QED BY <3>1, OneWrite
  <2>6. \A c, f : /\ Filled(bins', c, f) <=> Filled(bins, c, f)
                  /\ Filled(bins', c, f) =>
                       bins'[c][f] = IF c = b /\ f = e THEN m ELSE bins[c][f]
    BY <1>1, <2>1, <2>3, <2>5 DEF Filled
  <2>7. \A c, f : Filled(bins', c, f) => bins'[c][f].ptr = bins[c][f].ptr
    BY <2>1, <2>6
  <2>8. Holds(G, bins', fallback_store')
    <3>1. \A k : k \in DOMAIN G <=> (\E c, f : Filled(bins', c, f) /\ bins'[c][f].ptr = k)
                                    \/ k \in DOMAIN fallback_store'
      <4>1. \A k : (\E c, f : Filled(bins', c, f) /\ bins'[c][f].ptr = k)
                   <=> (\E c, f : Filled(bins, c, f) /\ bins[c][f].ptr = k)
        BY <2>6, <2>7
      <4> QED BY <1>2, <1>3, <2>2, <4>1 DEF Holds
    <3>2. ASSUME NEW c, NEW f, Filled(bins', c, f)
          PROVE  G[bins'[c][f].ptr] = bins'[c][f].size
      <4>1. CASE c = b /\ f = e
        BY <1>3, <2>1, <2>6, <3>2, <4>1
      <4>2. CASE ~(c = b /\ f = e)
        <5>1. Filled(bins, c, f) /\ bins'[c][f] = bins[c][f]
          BY <2>6, <3>2, <4>2
        <5>2. bins[c][f].ptr # m.ptr
          BY <1>2, <2>1, <4>2, <5>1 DEF Distinct
        <5>3. bins[c][f].ptr \in DOMAIN C /\ C[bins[c][f].ptr] = bins[c][f].size
          BY <1>2, <5>1 DEF Holds
        <5> QED BY <1>3, <5>1, <5>2, <5>3
      <4> QED BY <4>1, <4>2
    <3>3. \A k \in DOMAIN fallback_store' : G[k] = fallback_store'[k]
      BY <1>2, <1>3, <2>1, <2>2 DEF Holds
    <3> QED BY <1>3, <3>1, <3>2, <3>3 DEF Holds
  <2>9. Contents' = G
    BY <1>2, <2>8, Determined
  <2>10. Abs!StoreUpdate(C, m) = G
    BY <2>4 DEF Abs!StoreUpdate, G
  <2> QED BY <2>2, <2>4, <2>9, <2>10, Zenon DEF Abs!Update, C
<1> QED BY <1>5, <1>6

-----------------------------------------------------------------------------
(* The growing table.                                                      *)
LEMMA PutImplements ==
  ASSUME IInv, IInv', NEW m \in Meta, put(m)
  PROVE  Abs!Put(m) \/ UNCHANGED <<Contents, ret>>
<1>1. /\ ~InCache(m.ptr) /\ m.ptr \notin DOMAIN fallback_store
      /\ IF size + 1 > capacity THEN StartGrow(size + 1, m) ELSE Insert(m)
  BY DEF put
<1>2. \A b, e : Filled(bins, b, e) => bins[b][e].ptr # m.ptr
  BY <1>1 DEF InCache, Filled, Bins
<1>3. CASE size + 1 > capacity
  BY <1>1, <1>3, Untouched DEF StartGrow
<1>4. CASE ~(size + 1 > capacity)
  BY <1>1, <1>2, <1>4, InsertImplements
<1> QED BY <1>3, <1>4

(* resize() adds empty bins, which the map does not show.                  *)
LEMMA StartRehashImplements ==
  ASSUME IInv, IInv', StartRehash PROVE UNCHANGED <<Contents, ret>>
<1> DEFINE k == factor * numBins
<1>1. /\ bins' = [b \in 0..k - 1 |-> IF b \in Bins THEN bins[b] ELSE EmptyBin]
      /\ UNCHANGED <<fallback_store, ret>> /\ pc = "grow"
  BY DEF StartRehash
<1>2. Bins = DOMAIN bins /\ Bins = 0..numBins - 1 /\ numBins \in Nat \ {0}
      /\ factor \in Nat \ {0}
  BY <1>1, TypedFacts DEF Bins, IInv, Waiting, Typed, TypeOK
<1>3. Bins \subseteq 0..k - 1
  <2>1. k \in Nat /\ numBins <= k
    BY <1>2, TimesPositive
  <2> HIDE DEF k
  <2> QED BY <1>2, <2>1
<1> HIDE DEF k
<1>4. \A c, f : /\ Filled(bins', c, f) <=> Filled(bins, c, f)
                /\ Filled(bins, c, f) => bins'[c][f] = bins[c][f]
  <2> SUFFICES ASSUME NEW c, NEW f
               PROVE  /\ Filled(bins', c, f) <=> Filled(bins, c, f)
                      /\ Filled(bins, c, f) => bins'[c][f] = bins[c][f]
    OBVIOUS
  <2>1. CASE c \in Bins
    BY <1>1, <1>2, <1>3, <2>1 DEF Filled
  <2>2. CASE c \notin Bins
    BY <1>1, <1>2, <2>2 DEF Filled, EmptyBin, EmptyMeta
  <2> QED BY <2>1, <2>2
<1>5. /\ \A c, f : Filled(bins', c, f) =>
           \E d, g : Filled(bins, d, g) /\ bins[d][g] = bins'[c][f]
      /\ \A d, g : Filled(bins, d, g) =>
           \E c, f : Filled(bins', c, f) /\ bins'[c][f] = bins[d][g]
  BY <1>4
<1> QED BY <1>1, <1>5, Unmoved

(* One entry of reserve_double() changes place, or none.                   *)
LEMMA RehashStepImplements ==
  ASSUME IInv, IInv', RehashStep PROVE UNCHANGED <<Contents, ret>>
<1>1. MoveEntry /\ UNCHANGED <<fallback_store, ret>> /\ pc = "rehash"
  BY DEF RehashStep, Rehashing
<1>2. CASE ~Moves
  <2>1. UNCHANGED bins
    BY <1>1, <1>2 DEF MoveEntry
  <2> QED BY <1>1, <2>1, Untouched
<1>3. CASE Moves
  <2>1. Typed /\ HalfSettled /\ Filled(bins, bin_i, entry_i)
    BY <1>1, <1>3, RoomInNewBin DEF IInv
  <2>2. PICK target \in Slots :
           /\ bins'[newbin_i][target] = bins[bin_i][entry_i]
           /\ \A c, f : Filled(bins', c, f) =>
                \/ c = newbin_i /\ f = target
                \/ /\ Filled(bins, c, f) /\ bins'[c][f] = bins[c][f]
                   /\ ~(c = bin_i /\ f = entry_i)
           /\ \A c, f : Filled(bins, c, f) /\ ~(c = bin_i /\ f = entry_i) =>
                Filled(bins', c, f) /\ bins'[c][f] = bins[c][f]
           /\ Filled(bins', newbin_i, target)
    BY <1>1, <1>3, <2>1, MoveFacts
  <2>3. /\ \A c, f : Filled(bins', c, f) =>
             \E d, g : Filled(bins, d, g) /\ bins[d][g] = bins'[c][f]
        /\ \A d, g : Filled(bins, d, g) =>
             \E c, f : Filled(bins', c, f) /\ bins'[c][f] = bins[d][g]
    BY <2>1, <2>2
  <2> QED BY <1>1, <2>3, Unmoved
<1> QED BY <1>2, <1>3

(* After the loops the waiting put() is the put() of the map.              *)
LEMMA RehashDoneImplements ==
  ASSUME IInv, IInv', RehashDone
  PROVE  (\E m \in Meta : Abs!Put(m)) \/ UNCHANGED <<Contents, ret>>
<1>1. pc = "rehash" /\ IF pending.ptr # NULL THEN Insert(pending)
                       ELSE UNCHANGED <<bins, cache_entries, fallback_store, ret>>
  BY DEF RehashDone
<1>2. CASE pending.ptr # NULL
  <2>1. /\ pending \in Meta /\ pending.ptr \notin DOMAIN fallback_store
        /\ \A b, e : Filled(bins, b, e) => bins[b][e].ptr # pending.ptr
    BY <1>1, <1>2 DEF IInv, Waiting, Typed, TypeOK, EmptyMeta
  <2> QED BY <1>1, <1>2, <2>1, InsertImplements
<1>3. CASE pending.ptr = NULL
  BY <1>1, <1>3, Untouched
<1> QED BY <1>2, <1>3

-----------------------------------------------------------------------------
(* A new store is the empty map.                                           *)
LEMMA InitiallyEmpty == Init => Abs!Init
<1> SUFFICES ASSUME Init PROVE Abs!Init
  OBVIOUS
<1>1. /\ bins = [b \in 0..InitialBins - 1 |-> EmptyBin] /\ fallback_store = EmptyStore
      /\ ret = <<"none">>
  BY DEF Init
<1>2. \A c, f : ~Filled(bins, c, f)
  BY <1>1 DEF Filled, EmptyBin, EmptyMeta
<1>3. Holds(EmptyStore, bins, fallback_store)
  BY <1>1, <1>2 DEF Holds, EmptyStore
<1>4. Contents = EmptyStore
  BY <1>3, Initially, HeldBefore, Determined
<1> QED BY <1>1, <1>4 DEF Abs!Init, Abs!EmptyStore, EmptyStore

(* Every step is a step of the interface or changes nothing a client can   *)
(* see.                                                                    *)
LEMMA StepImplements ==
  IInv /\ IInv' /\ [Next]_vars => [Abs!Next]_<<Contents, ret>>
<1> SUFFICES ASSUME IInv, IInv', [Next]_vars PROVE [Abs!Next]_<<Contents, ret>>
  OBVIOUS
<1>1. Meta \subseteq Abs!Meta \cup {Abs!EmptyMeta}
  BY DEF Abs!Meta, Meta
<1>2. ASSUME NEW m \in Meta, put(m) PROVE [Abs!Next]_<<Contents, ret>>
  BY <1>1, <1>2, PutImplements DEF Abs!Next
<1>3. ASSUME NEW m \in Meta, remove(m) PROVE [Abs!Next]_<<Contents, ret>>
  BY <1>1, <1>3, RemoveImplements DEF Abs!Next
<1>4. ASSUME NEW m \in Meta, update(m) PROVE [Abs!Next]_<<Contents, ret>>
  BY <1>1, <1>4, UpdateImplements DEF Abs!Next
<1>5. ASSUME NEW key \in Key \cup {NULL}, get(key) PROVE [Abs!Next]_<<Contents, ret>>
  BY <1>5, GetImplements DEF Abs!Next
<1>6. ASSUME NEW request \in Requests, reserve(request) PROVE [Abs!Next]_<<Contents, ret>>
  <2>1. UNCHANGED <<bins, fallback_store, ret>>
    BY <1>6 DEF reserve, StartGrow
  <2> QED BY <2>1, Untouched
<1>7. CASE clear
  BY <1>7, ClearImplements DEF Abs!Next
<1>8. CASE GrowStep
  <2>1. UNCHANGED <<bins, fallback_store, ret>>
    BY <1>8 DEF GrowStep
  <2> QED BY <2>1, Untouched
<1>9. CASE StartRehash
  BY <1>9, StartRehashImplements
<1>10. CASE RehashStep
  BY <1>10, RehashStepImplements
<1>11. CASE RehashDone
  BY <1>1, <1>11, RehashDoneImplements DEF Abs!Next
<1>12. CASE UNCHANGED vars
  <2>1. UNCHANGED <<bins, fallback_store, ret>>
    BY <1>12 DEF vars
  <2> QED BY <2>1, Untouched
<1> QED BY <1>2, <1>3, <1>4, <1>5, <1>6, <1>7, <1>8, <1>9, <1>10, <1>11, <1>12 DEF Next

(* To its clients the cached store (CachedMetaStore.h) is a map: eviction  *)
(* to the fallback store, growth and rehashing lose, duplicate and         *)
(* resurrect no chunk and every answer is the map's, for every hash        *)
(* function and table size. Needs what the invariant says: an entry has    *)
(* one place, and the search looks there.                                  *)
THEOREM Implements == Spec => ImplementsMap
<1> QED BY InitiallyEmpty, StepImplements, Invariant, PTL DEF Spec, ImplementsMap, Abs!Spec
=============================================================================
