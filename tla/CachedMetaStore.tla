-------------------------- MODULE CachedMetaStore --------------------------
(***************************************************************************)
(* The store ShadowHeap uses in production: a hash table of fixed-size     *)
(* bins in front of a fallback store (src/src/store/CachedMetaStore.h).    *)
(* When a put() or a reserve() finds the table too small it grows by a     *)
(* power of two and every entry moves to its new bin, one doubling and one *)
(* entry per step of this module; all other operations are one step.  The  *)
(* fallback is a map, see MetaStore.                                       *)
(*                                                                         *)
(* put(), remove() and update() are given metadata of a chunk, as the      *)
(* facade does: of a pointer other than NULL and a size other than 0.      *)
(* With empty metadata remove() would find an empty slot of the bin and    *)
(* count it (lines 204 to 210); get(NULL) is part of the model.            *)
(***************************************************************************)
EXTENDS MetaStore, FiniteSets

CONSTANTS
  Key,                           \* chunk pointers
  Sizes,                         \* raw size fields
  ENTRIES_PER_BIN,
  InitialBins,                   \* a power of 2
  HashBits,                      \* hash values are 0 .. 2^HashBits - 1
  Requests                       \* the arguments of reserve()

ASSUME StoreAssumption ==
  /\ NULL \notin Key
  /\ Sizes \subseteq Nat \ {0}
  /\ ENTRIES_PER_BIN \in Nat \ {0}
  /\ HashBits \in Nat
  /\ InitialBins \in Nat \ {0} /\ \E b \in 0..HashBits : InitialBins = 2^b
  /\ Requests \subseteq Nat

VARIABLES
  hash,                          \* details::hash(), any function
  victim,                        \* the slot its leftmost bits select
  bins,                          \* cache.bins: bin number -> slot -> entry
  cache_entries,
  fallback_store,
  ret,                           \* the answer of the last operation
  pc,                            \* "idle", "grow" in ensure_capacity(), or
                                 \* "rehash" in reserve_double()
  pending,                       \* the chunk whose put() makes the table grow
  required, factor,              \* the loop of ensure_capacity()
  oldsize, bin_i, entry_i        \* the loops of reserve_double()

vars == <<hash, victim, bins, cache_entries, fallback_store, ret, pc, pending,
          required, factor, oldsize, bin_i, entry_i>>
loop == <<pending, required, factor, oldsize, bin_i, entry_i>>

Meta == [ptr : Key, size : Sizes]
Slots == 0..ENTRIES_PER_BIN - 1
EmptyBin == [e \in Slots |-> EmptyMeta]

-----------------------------------------------------------------------------
Bins == DOMAIN bins
numBins == Cardinality(Bins)
capacity == numBins * ENTRIES_PER_BIN
size == cache_entries + Cardinality(DOMAIN fallback_store)

BinOfTopBits(key, n) == (hash[key] * n) \div 2^HashBits             \* mutant
BinOf(key, n) == hash[key] % n          \* hash & (n - 1), n a power of 2

(* A NULL key finds an empty slot.  hash(NULL) is 0.                       *)
get_bin(key) == IF key = NULL THEN 0 ELSE BinOf(key, numBins)
SlotsOf(key) == {e \in Slots : bins[get_bin(key)][e].ptr = key}
FirstSlot(es) == CHOOSE e \in es : \A f \in es : e <= f

(* Where key goes: the first empty slot of its bin, or a victim's.         *)
get_insertion_point(key) ==
  LET free == {e \in Slots : bins[BinOf(key, numBins)][e].ptr = NULL}
  IN IF free # {} THEN FirstSlot(free) ELSE victim[key]

-----------------------------------------------------------------------------
Init ==
  /\ hash \in [Key -> 0..2^HashBits - 1]
  /\ victim \in [Key -> Slots]
  /\ bins = [b \in 0..InitialBins - 1 |-> EmptyBin]
  /\ cache_entries = 0
  /\ fallback_store = EmptyStore
  /\ ret = <<"none">>
  /\ pc = "idle"
  /\ pending = EmptyMeta /\ required = 0 /\ factor = 0
  /\ oldsize = 0 /\ bin_i = 0 /\ entry_i = 0

InsertUncounted(m) ==                                             \* mutant
  /\ bins' = [bins EXCEPT ![BinOf(m.ptr, numBins)][get_insertion_point(m.ptr)] = m]
  /\ ret' = <<"put", TRUE>>
  /\ UNCHANGED <<cache_entries, fallback_store>>
InsertDropsOld(m) ==                                              \* mutant
  LET b == BinOf(m.ptr, numBins)
      e == get_insertion_point(m.ptr)
  IN /\ bins' = [bins EXCEPT ![b][e] = m]
     /\ cache_entries' = IF bins[b][e].ptr = NULL THEN cache_entries + 1 ELSE cache_entries
     /\ ret' = <<"put", TRUE>>
     /\ UNCHANGED fallback_store

(* put() once there is capacity: the chunk takes a slot, and an entry that *)
(* had it goes to the fallback store.                                      *)
Insert(m) ==
  LET b == BinOf(m.ptr, numBins)
      e == get_insertion_point(m.ptr)
      old == bins[b][e]
  IN /\ bins' = [bins EXCEPT ![b][e] = m]
     /\ IF old.ptr = NULL
        THEN /\ cache_entries' = cache_entries + 1
             /\ ret' = <<"put", TRUE>>
             /\ UNCHANGED fallback_store
        ELSE /\ fallback_store' = StorePut(fallback_store, old)
             /\ ret' = <<"put", PutOk(fallback_store, old)>>
             /\ UNCHANGED cache_entries

(* ensure_capacity(): the factor is doubled until it is enough.            *)
StartGrow(request, m) ==
  /\ pc' = "grow" /\ pending' = m /\ required' = request /\ factor' = 2
  /\ UNCHANGED <<hash, victim, bins, cache_entries, fallback_store, ret,
                 oldsize, bin_i, entry_i>>

GrowStep ==
  /\ pc = "grow" /\ required > factor * capacity
  /\ factor' = 2 * factor
  /\ UNCHANGED <<hash, victim, bins, cache_entries, fallback_store, ret, pc, pending,
                 required, oldsize, bin_i, entry_i>>

(* reserve_double() up to its loops: bins.resize().                        *)
StartRehash ==
  /\ pc = "grow" /\ required <= factor * capacity
  /\ bins' = [b \in 0..factor * numBins - 1 |-> IF b \in Bins THEN bins[b] ELSE EmptyBin]
  /\ pc' = "rehash"
  /\ oldsize' = numBins /\ bin_i' = 0 /\ entry_i' = 0
  /\ UNCHANGED <<hash, victim, cache_entries, fallback_store, ret, pending, required, factor>>

(* No pointer is put while it is stored: its chunk is in use.              *)
InCache(key) == \E b \in Bins, e \in Slots : bins[b][e].ptr = key

put(m) ==
  /\ pc = "idle"
  /\ ~InCache(m.ptr) /\ m.ptr \notin DOMAIN fallback_store
  /\ IF size + 1 > capacity
     THEN StartGrow(size + 1, m)
     ELSE Insert(m) /\ UNCHANGED <<hash, victim, pc, loop>>

reserve(request) ==
  /\ pc = "idle" /\ request > capacity
  /\ StartGrow(request, EmptyMeta)

get(key) ==
  /\ pc = "idle"
  /\ ret' = <<"get", IF SlotsOf(key) # {}
                     THEN bins[get_bin(key)][FirstSlot(SlotsOf(key))]
                     ELSE StoreGet(fallback_store, key)>>
  /\ UNCHANGED <<hash, victim, bins, cache_entries, fallback_store, pc, loop>>

remove(m) ==
  /\ pc = "idle"
  /\ UNCHANGED <<hash, victim, pc, loop>>
  /\ LET b == get_bin(m.ptr)
         e == FirstSlot(SlotsOf(m.ptr))
     IN IF SlotsOf(m.ptr) = {}
        THEN /\ fallback_store' = StoreRemove(fallback_store, m)
             /\ ret' = <<"remove", RemoveOk(fallback_store, m)>>
             /\ UNCHANGED <<bins, cache_entries>>
        ELSE /\ UNCHANGED fallback_store
             /\ IF equals_ptr_size(bins[b][e], m)
                THEN /\ bins' = [bins EXCEPT ![b][e] = EmptyMeta]
                     /\ cache_entries' = cache_entries - 1
                     /\ ret' = <<"remove", TRUE>>
                ELSE /\ ret' = <<"remove", FALSE>>
                     /\ UNCHANGED <<bins, cache_entries>>

update(m) ==
  /\ pc = "idle"
  /\ UNCHANGED <<hash, victim, cache_entries, pc, loop>>
  /\ IF SlotsOf(m.ptr) = {}
     THEN /\ fallback_store' = StoreUpdate(fallback_store, m)
          /\ ret' = <<"update", UpdateOk(fallback_store, m)>>
          /\ UNCHANGED bins
     ELSE /\ bins' = [bins EXCEPT ![get_bin(m.ptr)][FirstSlot(SlotsOf(m.ptr))] = m]
          /\ ret' = <<"update", TRUE>>
          /\ UNCHANGED fallback_store

clearKeepsCount ==                                                \* mutant
  /\ pc = "idle"
  /\ bins' = [b \in Bins |-> EmptyBin]
  /\ fallback_store' = EmptyStore
  /\ ret' = <<"clear">>
  /\ UNCHANGED <<hash, victim, cache_entries, pc, loop>>
clear ==
  /\ pc = "idle"
  /\ bins' = [b \in Bins |-> EmptyBin]
  /\ cache_entries' = 0
  /\ fallback_store' = EmptyStore
  /\ ret' = <<"clear">>
  /\ UNCHANGED <<hash, victim, pc, loop>>

(* One entry of reserve_double(): it stays, or is swapped into slot 0 or   *)
(* the first empty slot of its new bin.                                    *)
Rehashing == pc = "rehash" /\ bin_i < oldsize
entry == bins[bin_i][entry_i]
newbin_i == BinOf(entry.ptr, numBins)
Targets == {e \in Slots : bins[newbin_i][e].ptr = NULL}
Moves == Rehashing /\ entry.ptr # NULL /\ newbin_i # bin_i

MoveEntryCopies ==                                                \* mutant
  bins' = IF ~Moves \/ Targets = {} THEN bins
          ELSE [bins EXCEPT ![newbin_i][FirstSlot(Targets)] = entry]
MoveEntry ==
  LET target == IF entry_i = 0 THEN 0 ELSE FirstSlot(Targets)
  IN bins' = IF ~Moves \/ (entry_i # 0 /\ Targets = {}) THEN bins
             ELSE [bins EXCEPT ![newbin_i][target] = entry,
                               ![bin_i][entry_i] = bins[newbin_i][target]]

RehashStepStuck ==                                                \* mutant
  /\ Rehashing /\ entry.ptr # NULL
  /\ MoveEntry
  /\ entry_i' = (entry_i + 1) % ENTRIES_PER_BIN
  /\ bin_i' = IF entry_i' = 0 THEN bin_i + 1 ELSE bin_i
  /\ UNCHANGED <<hash, victim, cache_entries, fallback_store, ret, pc, pending,
                 required, factor, oldsize>>
RehashStep ==
  /\ Rehashing
  /\ MoveEntry
  /\ entry_i' = (entry_i + 1) % ENTRIES_PER_BIN
  /\ bin_i' = IF entry_i' = 0 THEN bin_i + 1 ELSE bin_i
  /\ UNCHANGED <<hash, victim, cache_entries, fallback_store, ret, pc, pending,
                 required, factor, oldsize>>

(* Both loops are done: put() goes on, reserve() returns.                  *)
RehashDone ==
  /\ pc = "rehash" /\ bin_i = oldsize
  /\ pc' = "idle"
  /\ pending' = EmptyMeta /\ required' = 0 /\ factor' = 0
  /\ oldsize' = 0 /\ bin_i' = 0 /\ entry_i' = 0
  /\ UNCHANGED <<hash, victim>>
  /\ IF pending.ptr # NULL THEN Insert(pending)
     ELSE UNCHANGED <<bins, cache_entries, fallback_store, ret>>

Next ==
  \/ \E m \in Meta : put(m) \/ remove(m) \/ update(m)
  \/ \E key \in Key \cup {NULL} : get(key)
  \/ \E request \in Requests : reserve(request)
  \/ clear
  \/ GrowStep
  \/ StartRehash
  \/ RehashStep
  \/ RehashDone

Spec == Init /\ [][Next]_vars

(* The loops run in the caller's thread: once entered, they go on.         *)
FairSpec ==
  /\ Spec
  /\ WF_vars(GrowStep) /\ WF_vars(StartRehash)
  /\ WF_vars(RehashStep) /\ WF_vars(RehashDone)

-----------------------------------------------------------------------------
TypeOK ==
  /\ hash \in [Key -> Nat] /\ victim \in [Key -> Slots]
  /\ numBins \in Nat \ {0} /\ bins \in [0..numBins - 1 -> [Slots -> Meta \cup {EmptyMeta}]]
  /\ cache_entries \in Nat
  /\ DOMAIN fallback_store \subseteq Key
  /\ \A key \in DOMAIN fallback_store : fallback_store[key] \in Sizes
  /\ pc \in {"idle", "grow", "rehash"}
  /\ pending \in Meta \cup {EmptyMeta}
  /\ required \in Nat /\ factor \in Nat
  /\ oldsize \in Nat /\ bin_i \in 0..oldsize /\ entry_i \in Slots

(* What the store holds, as one map.                                       *)
Occupied == {s \in Bins \X Slots : bins[s[1]][s[2]].ptr # NULL}
Cached == {bins[s[1]][s[2]] : s \in Occupied}
Contents ==
  LET cached == Cached
      keys == {m.ptr : m \in cached}
  IN [key \in keys \cup DOMAIN fallback_store |->
        IF key \in keys THEN (CHOOSE m \in cached : m.ptr = key).size
        ELSE fallback_store[key]]

(* The store is a map for its clients: eviction and rehashing lose,        *)
(* duplicate and resurrect nothing, and every answer is the map's.         *)
Abs == INSTANCE MetaStoreSpec WITH map <- Contents
ImplementsMap == Abs!Spec

(* "It is guaranteed that the new bin will contain space" and "that the    *)
(* first entry of the target bin will be empty" (CachedMetaStore.h:136-142)*)
(* for whatever factor the table grows by: no entry is left behind.        *)
TargetHasSpace ==
  Moves => /\ Targets # {}
           /\ entry_i = 0 => 0 \in Targets

(* Every entry is where get_entry() looks for it: at rest in the bin of    *)
(* its hash, during a rehash in the new one once the loop has passed it;   *)
(* and no pointer has a second entry, here or in the fallback store.       *)
Passed(b, e) == b >= oldsize \/ b < bin_i \/ (b = bin_i /\ e < entry_i)
EntriesFindable ==
  \A s \in Occupied :
    LET key == bins[s[1]][s[2]].ptr
    IN /\ s[1] = BinOf(key, IF pc # "rehash" \/ Passed(s[1], s[2]) THEN numBins ELSE oldsize)
       /\ key \notin DOMAIN fallback_store
       /\ \A t \in Occupied \ {s} : bins[t[1]][t[2]].ptr # key

(* size() is the number of stored chunks, and ensure_capacity() keeps the  *)
(* table large enough to have a slot for each of them.                     *)
SizeIsExact ==
  /\ cache_entries = Cardinality(Occupied)
  /\ pc = "idle" => size <= capacity

(* Growth ends, so that put() and reserve() return.                        *)
RehashEnds == pc # "idle" ~> pc = "idle"

(* "`i` and `newi` differ by at most one bit (the size was doubled)"       *)
(* (CachedMetaStore.h:139).                                                *)
MovesOneBit == Moves => \E k \in 0..HashBits : newbin_i = bin_i + 2^k
=============================================================================
