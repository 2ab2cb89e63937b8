------------------------- MODULE PlainStoresProofs -------------------------
(***************************************************************************)
(* VectorMetaStore and HashMetaStore implement MetaStoreSpec, for every    *)
(* set of pointers and of sizes.  The invariant of the vector is that it   *)
(* has one entry for a pointer at most: put() looks for one, and removal   *)
(* only moves entries.  The vector then determines a map, and each         *)
(* operation maps to the operation of the same name.  The elements of the  *)
(* hash store are a map as they are.                                       *)
(***************************************************************************)
EXTENDS MCPlainStores, TLAPS

Distinct(s) == \A i, j \in DOMAIN s : s[i].ptr = s[j].ptr => i = j
Pointers(s) == {s[i].ptr : i \in DOMAIN s}
MapOf(s) ==
  [key \in Pointers(s) |-> s[CHOOSE i \in DOMAIN s : s[i].ptr = key].size]

IInv == TypeOK /\ NoDuplicates

(* A vector of distinct pointers is the map that has its entries.          *)
LEMMA MapOfIs ==
  ASSUME NEW s, Distinct(s), NEW f, f = [key \in Pointers(s) |-> f[key]],
         \A i \in DOMAIN s : f[s[i].ptr] = s[i].size
  PROVE  MapOf(s) = f
<1> SUFFICES ASSUME NEW key \in Pointers(s)
             PROVE  s[CHOOSE i \in DOMAIN s : s[i].ptr = key].size = f[key]
  BY DEF MapOf
<1>1. PICK i \in DOMAIN s : s[i].ptr = key
  BY DEF Pointers
<1>2. (CHOOSE j \in DOMAIN s : s[j].ptr = key) = i
  BY <1>1 DEF Distinct
<1> QED BY <1>1, <1>2

(* An entry that is there is the one that find_if() stops at.              *)
LEMMA FoundIs ==
  ASSUME IInv, NEW key, Found(key) # {}
  PROVE  /\ FirstOf(key) \in DOMAIN elements
         /\ elements[FirstOf(key)].ptr = key
<1>1. PICK i \in DOMAIN elements : elements[i].ptr = key
  BY DEF Found
<1>2. Found(key) = {i}
  BY <1>1 DEF Found, IInv, NoDuplicates
<1>3. i \in Int
  BY <1>1 DEF IInv, TypeOK
<1>4. FirstOf(key) = i
  BY <1>2, <1>3 DEF FirstOf
<1> QED BY <1>1, <1>4

(* An entry that is not found is not there.                                *)
LEMMA NotFoundIs ==
  ASSUME NEW key
  PROVE  Found(key) # {} <=> key \in Pointers(elements)
  BY DEF Found, Pointers

(* A call takes a chunk, or the empty MALLOC_META.                         *)
LEMMA Argument == ASSUME NEW m \in Meta \cup {EmptyMeta}
                  PROVE  /\ m = [ptr |-> m.ptr, size |-> m.size]
                         /\ m.ptr # NULL => m \in Meta /\ m.ptr \in Key /\ m.size \in Sizes
  BY DEF Meta, EmptyMeta

(* A chunk that is pushed back.                                            *)
LEMMA Pushed ==
  ASSUME NEW s \in Seq(Meta), Distinct(s), NEW m \in Meta, m.ptr \notin Pointers(s)
  PROVE  /\ Append(s, m) \in Seq(Meta)
         /\ Distinct(Append(s, m))
         /\ Pointers(Append(s, m)) = Pointers(s) \cup {m.ptr}
<1> DEFINE t == Append(s, m)
<1>1. t \in Seq(Meta) /\ Len(t) = Len(s) + 1 /\ DOMAIN t = 1..Len(s) + 1
  OBVIOUS
<1>2. /\ \A i \in DOMAIN s : t[i] = s[i] /\ i \in DOMAIN t /\ i # Len(s) + 1
      /\ t[Len(s) + 1] = m
      /\ DOMAIN t = DOMAIN s \cup {Len(s) + 1}
  <2>1. DOMAIN s = 1..Len(s) /\ Len(s) \in Nat
    OBVIOUS
  <2> QED BY <2>1, <1>1
<1>3. \A i \in DOMAIN s : t[i].ptr # m.ptr
  BY <1>2 DEF Pointers
<1>4. Distinct(t)
  BY <1>2, <1>3 DEF Distinct
<1>5. Pointers(t) = Pointers(s) \cup {m.ptr}
  BY <1>2 DEF Pointers
<1> QED BY <1>1, <1>4, <1>5

(* A chunk that is swapped with the last one and popped.                   *)
LEMMA Popped ==
  ASSUME IInv, NEW i \in DOMAIN elements
  PROVE  /\ Without(i) \in Seq(Meta)
         /\ Distinct(Without(i))
         /\ Pointers(Without(i)) = Pointers(elements) \ {elements[i].ptr}
         /\ \A j \in DOMAIN Without(i) : \E k \in DOMAIN elements \ {i} :
              Without(i)[j] = elements[k]
<1> DEFINE n == Len(elements)
           At(j) == IF j = i THEN n ELSE j
<1>1. n \in Nat /\ DOMAIN elements = 1..n /\ i \in 1..n /\ n \in 1..n
      /\ elements \in [1..n -> Meta]
  BY DEF IInv, TypeOK
<1>2. DOMAIN Without(i) = 1..n - 1
  BY DEF Without
<1>3. \A j \in 1..n - 1 : /\ At(j) \in 1..n /\ At(j) # i
                          /\ Without(i)[j] = elements[At(j)]
  BY <1>1 DEF Without
<1>4. Without(i) \in [1..n - 1 -> Meta] /\ n - 1 \in Nat
  BY <1>1, <1>3 DEF Without
<1>5. Without(i) \in Seq(Meta)
  BY <1>4
<1>6. Distinct(Without(i))
  <2> SUFFICES ASSUME NEW j \in 1..n - 1, NEW k \in 1..n - 1,
                      Without(i)[j].ptr = Without(i)[k].ptr
               PROVE  j = k
    BY <1>2 DEF Distinct
  <2>1. At(j) = At(k)
    BY <1>1, <1>3 DEF IInv, NoDuplicates
  <2> QED BY <2>1, <1>1
<1>7. \A k \in 1..n : k # i => \E j \in 1..n - 1 : At(j) = k
  <2> SUFFICES ASSUME NEW k \in 1..n, k # i PROVE \E j \in 1..n - 1 : At(j) = k
    OBVIOUS
  <2>1. CASE k = n
    BY <2>1, <1>1
  <2>2. CASE k # n
    <3>1. At(k) = k
      OBVIOUS
    <3>2. n \in Nat
      BY <1>1
    <3> HIDE DEF n
    <3>3. k \in 1..n - 1
      BY <2>2, <3>2
    <3> QED BY <3>1, <3>3
  <2> QED BY <2>1, <2>2
<1>8. \A j \in DOMAIN Without(i) : \E k \in DOMAIN elements \ {i} :
        Without(i)[j] = elements[k]
  BY <1>1, <1>2, <1>3
<1>9. Pointers(Without(i)) = Pointers(elements) \ {elements[i].ptr}
  <2>1. ASSUME NEW p \in Pointers(Without(i))
        PROVE  p \in Pointers(elements) \ {elements[i].ptr}
    BY <2>1, <1>1, <1>8 DEF Pointers, IInv, NoDuplicates
  <2>2. ASSUME NEW p \in Pointers(elements) \ {elements[i].ptr}
        PROVE  p \in Pointers(Without(i))
    <3>1. PICK k \in 1..n : p = elements[k].ptr /\ k # i
      BY <2>2, <1>1 DEF Pointers
    <3>2. PICK j \in 1..n - 1 : At(j) = k
      BY <3>1, <1>7
    <3>3. Without(i)[j].ptr = p /\ j \in DOMAIN Without(i)
      BY <3>1, <3>2, <1>2, <1>3
    <3> QED BY <3>3 DEF Pointers
  <2> QED BY <2>1, <2>2
<1> QED BY <1>5, <1>6, <1>8, <1>9

(* put() goes on when its search has found nothing.                        *)
LEMMA PutSearches ==
  ASSUME IInv, NEW key
  PROVE  lookup(key).ptr = NULL <=> Found(key) = {}
<1>1. CASE Found(key) = {}
  BY <1>1 DEF lookup, EmptyMeta
<1>2. CASE Found(key) # {}
  <2>1. elements[FirstOf(key)] \in Meta
    BY <1>2, FoundIs DEF IInv, TypeOK
  <2>2. elements[FirstOf(key)].ptr # NULL
    BY <2>1, PlainStoreAssumption DEF Meta
  <2> QED BY <1>2, <2>2 DEF lookup
<1> QED BY <1>1, <1>2

(* update() removes the entry of a pointer and pushes its new one.         *)
LEMMA UpdatePushes ==
  ASSUME IInv, NEW m \in Meta \cup {EmptyMeta}, is_some(lookup(m.ptr))
  PROVE  LET s == Without(FirstOf(m.ptr))
             t == Append(s, m)
         IN /\ s \in Seq(Meta) /\ t \in Seq(Meta) /\ Distinct(t)
            /\ Pointers(t) = Pointers(elements)
            /\ m \in Meta
<1>1. Found(m.ptr) # {} /\ m.ptr # NULL
  <2>1. Found(m.ptr) # {}
    BY DEF lookup, is_some, EmptyMeta
  <2>2. elements[FirstOf(m.ptr)] \in Meta /\ elements[FirstOf(m.ptr)].ptr = m.ptr
    BY <2>1, FoundIs DEF IInv, TypeOK
  <2> QED BY <2>1, <2>2, PlainStoreAssumption DEF Meta
<1>2. m \in Meta
  BY <1>1, Argument
<1> DEFINE s == Without(FirstOf(m.ptr))
<1>3. s \in Seq(Meta) /\ Distinct(s) /\ Pointers(s) = Pointers(elements) \ {m.ptr}
  BY <1>1, FoundIs, Popped
<1>4. m.ptr \in Pointers(elements)
  BY <1>1, NotFoundIs
<1> HIDE DEF s
<1>5. /\ Append(s, m) \in Seq(Meta)
      /\ Distinct(Append(s, m))
      /\ Pointers(Append(s, m)) = Pointers(s) \cup {m.ptr}
  BY <1>2, <1>3, Pushed
<1>6. Pointers(s) \cup {m.ptr} = Pointers(elements)
  BY <1>3, <1>4
<1> QED BY <1>2, <1>3, <1>5, <1>6 DEF s

-----------------------------------------------------------------------------
(* The vector holds chunks, and no pointer twice, whatever calls are made. *)
LEMMA Inductive == IInv /\ [Next]_vars => IInv'
<1> SUFFICES ASSUME IInv, [Next]_vars PROVE IInv'
  OBVIOUS
<1>0. elements \in Seq(Meta) /\ Distinct(elements)
  BY DEF IInv, TypeOK, NoDuplicates, Distinct
<1>a. SUFFICES elements' \in Seq(Meta) /\ Distinct(elements')
  BY <1>a DEF IInv, TypeOK, NoDuplicates, Distinct
<1>1. CASE \E m \in Meta \cup {EmptyMeta} : put(m)
  <2>1. PICK m \in Meta \cup {EmptyMeta} : put(m)
    BY <1>1
  <2>2. CASE put_ok(m)
    <3>1. m \in Meta /\ m.ptr \notin Pointers(elements)
      BY <2>2, Argument, PutSearches, NotFoundIs DEF put_ok
    <3> QED BY <2>1, <2>2, <3>1, <1>0, Pushed DEF put
  <2>3. CASE ~put_ok(m)
    BY <2>1, <2>3, <1>0 DEF put
  <2> QED BY <2>2, <2>3
<1>2. CASE \E m \in Meta \cup {EmptyMeta} : remove(m)
  <2>1. PICK m \in Meta \cup {EmptyMeta} : remove(m)
    BY <1>2
  <2>2. CASE remove_ok(m)
    BY <2>1, <2>2, FoundIs, Popped DEF remove, remove_ok
  <2>3. CASE ~remove_ok(m)
    BY <2>1, <2>3, <1>0 DEF remove
  <2> QED BY <2>2, <2>3
<1>3. CASE \E m \in Meta \cup {EmptyMeta} : update(m)
  <2>1. PICK m \in Meta \cup {EmptyMeta} : update(m)
    BY <1>3
  <2>2. CASE is_some(lookup(m.ptr))
    BY <2>1, <2>2, UpdatePushes DEF update
  <2>3. CASE ~is_some(lookup(m.ptr))
    BY <2>1, <2>3, <1>0 DEF update
  <2> QED BY <2>2, <2>3
<1>4. CASE \/ \E key \in Key \cup {NULL} : get(key)
           \/ UNCHANGED vars
  BY <1>4, <1>0 DEF get, vars
<1>5. CASE clear
  BY <1>5 DEF clear, Distinct
<1> QED BY <1>1, <1>2, <1>3, <1>4, <1>5 DEF Next

(* VectorMetaStore.h: the vector holds chunks, and however put(), update() *)
(* and the removal by swapping are mixed, no pointer has two.              *)
THEOREM Invariant == Spec => [](TypeOK /\ NoDuplicates)
<1>1. Init => IInv
  BY DEF Init, IInv, TypeOK, NoDuplicates
<1>2. IInv => TypeOK /\ NoDuplicates
  BY DEF IInv
<1> QED BY <1>1, <1>2, Inductive, PTL DEF Spec

-----------------------------------------------------------------------------
(* What a lookup finds is what the map has for the pointer.                *)
LEMMA LookupIs ==
  ASSUME IInv, NEW key
  PROVE  /\ key \in DOMAIN Contents <=> Found(key) # {}
         /\ lookup(key) = Abs!StoreGet(Contents, key)
         /\ Found(key) # {} => Contents[key] = elements[FirstOf(key)].size
         /\ \A i \in DOMAIN elements : Contents[elements[i].ptr] = elements[i].size
<1>1. \A i \in DOMAIN elements : Contents[elements[i].ptr] = elements[i].size
  <2> SUFFICES ASSUME NEW i \in DOMAIN elements
               PROVE  Contents[elements[i].ptr] = elements[i].size
    OBVIOUS
  <2>1. (CHOOSE j \in DOMAIN elements : elements[j].ptr = elements[i].ptr) = i
    BY DEF IInv, NoDuplicates
  <2> QED BY <2>1 DEF Contents
<1>2. key \in DOMAIN Contents <=> Found(key) # {}
  BY DEF Contents, Found
<1>3. Found(key) # {} => Contents[key] = elements[FirstOf(key)].size
  BY <1>1, FoundIs
<1>4. lookup(key) = Abs!StoreGet(Contents, key)
  <2>1. CASE Found(key) = {}
    BY <2>1, <1>2 DEF lookup, Abs!StoreGet, EmptyMeta, Abs!EmptyMeta
  <2>2. CASE Found(key) # {}
    <3>1. elements[FirstOf(key)] \in Meta /\ elements[FirstOf(key)].ptr = key
      BY <2>2, FoundIs DEF IInv, TypeOK
    <3>2. elements[FirstOf(key)] = [ptr |-> key, size |-> elements[FirstOf(key)].size]
      BY <3>1 DEF Meta
    <3> QED BY <2>2, <3>2, <1>2, <1>3 DEF lookup, Abs!StoreGet
  <2> QED BY <2>1, <2>2
<1> QED BY <1>1, <1>2, <1>3, <1>4

(* The map of the specification is the map of the vector.                  *)
LEMMA ContentsIsMapOf ==
  /\ Contents = MapOf(elements) /\ Contents' = MapOf(elements')
  /\ DOMAIN Contents = Pointers(elements)
  BY DEF Contents, MapOf, Pointers

(* put() pushes the entry of a new pointer, and is the map's put().        *)
LEMMA PutImplements ==
  ASSUME IInv, NEW m \in Meta \cup {EmptyMeta}, put(m)
  PROVE  Abs!Put(m)
<1>1. put_ok(m) = Abs!PutOk(Contents, m)
  BY PutSearches, LookupIs DEF put_ok, Abs!PutOk
<1>2. CASE put_ok(m)
  <2>1. m \in Meta /\ m.ptr \notin Pointers(elements)
    BY <1>2, Argument, PutSearches, NotFoundIs DEF put_ok
  <2> DEFINE t == Append(elements, m)
             f == Abs!StorePut(Contents, m)
  <2>2. /\ elements \in Seq(Meta) /\ Distinct(elements)
        /\ Distinct(t) /\ Pointers(t) = Pointers(elements) \cup {m.ptr}
    BY <2>1, Pushed DEF IInv, TypeOK, NoDuplicates, Distinct
  <2>3. f = [p \in Pointers(t) |-> IF p = m.ptr THEN m.size ELSE Contents[p]]
    BY <1>1, <1>2, <2>2, ContentsIsMapOf DEF Abs!StorePut
  <2>4. \A i \in DOMAIN t : f[t[i].ptr] = t[i].size
    <3> SUFFICES ASSUME NEW i \in DOMAIN t PROVE f[t[i].ptr] = t[i].size
      OBVIOUS
    <3>1. t[i].ptr \in Pointers(t)
      BY DEF Pointers
    <3>2. CASE i \in DOMAIN elements
      <4>1. t[i] = elements[i] /\ elements[i].ptr # m.ptr
        BY <3>2, <2>1, <2>2 DEF Pointers
      <4> QED BY <3>1, <3>2, <4>1, <2>3, LookupIs
    <3>3. CASE i \notin DOMAIN elements
      <4>1. t[i] = m
        BY <3>3, <2>2, <2>1
      <4> QED BY <3>1, <4>1, <2>3
    <3> QED BY <3>2, <3>3
  <2>5. f = [p \in Pointers(t) |-> f[p]]
    BY <2>3
  <2>6. MapOf(t) = f
    <3> HIDE DEF t, f
    <3> QED BY <2>2, <2>4, <2>5, MapOfIs
  <2>7. Contents' = f
    BY <1>2, <2>6, ContentsIsMapOf DEF put
  <2> QED BY <1>1, <2>7, Zenon DEF put, Abs!Put
<1>3. CASE ~put_ok(m)
  <2>1. Contents' = Contents
    BY <1>3, ContentsIsMapOf DEF put
  <2>2. Abs!StorePut(Contents, m) = Contents
    BY <1>1, <1>3 DEF Abs!StorePut
  <2> QED BY <1>1, <2>1, <2>2, Zenon DEF put, Abs!Put
<1> QED BY <1>2, <1>3

(* The size comparison of the interface is the store's.                    *)
LEMMA SameComparison ==
  ASSUME NEW m, NEW k
  PROVE  Abs!equals_ptr_size(m, k) <=> equals_ptr_size(m, k)
  BY DEF Abs!equals_ptr_size, equals_ptr_size, Abs!chunksize, chunksize,
         Abs!flags, flags, Abs!SIZE_BITS, SIZE_BITS, Abs!PREV_INUSE, PREV_INUSE,
         Abs!IS_MMAPPED, IS_MMAPPED, Abs!NON_MAIN_ARENA, NON_MAIN_ARENA

(* remove() takes out the entry it found and no other.                     *)
LEMMA RemoveImplements ==
  ASSUME IInv, NEW m, remove(m)
  PROVE  Abs!Remove(m)
<1>1. remove_ok(m) = Abs!RemoveOk(Contents, m)
  <2>1. m.ptr \in DOMAIN Contents <=> Found(m.ptr) # {}
    BY LookupIs
  <2>2. lookup(m.ptr) = Abs!StoreGet(Contents, m.ptr)
    BY LookupIs
  <2> QED BY <2>1, <2>2, SameComparison DEF remove_ok, Abs!RemoveOk
<1>2. CASE remove_ok(m)
  <2> DEFINE t == Without(FirstOf(m.ptr))
             f == Abs!StoreRemove(Contents, m)
  <2>1. /\ FirstOf(m.ptr) \in DOMAIN elements
        /\ elements[FirstOf(m.ptr)].ptr = m.ptr
    BY <1>2, FoundIs DEF remove_ok
  <2>2. /\ Distinct(t) /\ Pointers(t) = Pointers(elements) \ {m.ptr}
        /\ \A j \in DOMAIN t : \E k \in DOMAIN elements : t[j] = elements[k]
    BY <2>1, Popped
  <2>3. f = [p \in Pointers(t) |-> Contents[p]]
    BY <1>1, <1>2, <2>2, ContentsIsMapOf DEF Abs!StoreRemove
  <2>4. \A j \in DOMAIN t : f[t[j].ptr] = t[j].size
    <3> HIDE DEF t, f
    <3> QED BY <2>2, <2>3, LookupIs DEF Pointers
  <2>5. MapOf(t) = f
    <3>1. f = [p \in Pointers(t) |-> f[p]]
      BY <2>3
    <3> HIDE DEF t, f
    <3> QED BY <2>2, <2>4, <3>1, MapOfIs
  <2>6. Contents' = f
    BY <1>2, <2>5, ContentsIsMapOf DEF remove
  <2> QED BY <1>1, <2>6, Zenon DEF remove, Abs!Remove
<1>3. CASE ~remove_ok(m)
  <2>1. Contents' = Contents
    BY <1>3, ContentsIsMapOf DEF remove
  <2>2. Abs!StoreRemove(Contents, m) = Contents
    BY <1>1, <1>3 DEF Abs!StoreRemove
  <2> QED BY <1>1, <2>1, <2>2, Zenon DEF remove, Abs!Remove
<1> QED BY <1>2, <1>3

(* update() is the map's update(), though the entry moves.                 *)
LEMMA UpdateImplements ==
  ASSUME IInv, NEW m \in Meta \cup {EmptyMeta}, update(m)
  PROVE  Abs!Update(m)
<1>1. is_some(lookup(m.ptr)) = Abs!UpdateOk(Contents, m)
  BY LookupIs DEF Abs!UpdateOk, Abs!is_some, is_some
<1>2. CASE is_some(lookup(m.ptr))
  <2> DEFINE s == Without(FirstOf(m.ptr))
             t == Append(s, m)
             f == Abs!StoreUpdate(Contents, m)
  <2>1. /\ s \in Seq(Meta) /\ t \in Seq(Meta) /\ Distinct(t) /\ m \in Meta
        /\ Pointers(t) = Pointers(elements)
    BY <1>2, UpdatePushes
  <2>2. Found(m.ptr) # {}
    BY <1>2 DEF lookup, is_some, EmptyMeta
  <2>3. /\ FirstOf(m.ptr) \in DOMAIN elements
        /\ elements[FirstOf(m.ptr)].ptr = m.ptr
    BY <2>2, FoundIs
  <2>4. \A j \in DOMAIN s : \E k \in DOMAIN elements :
          s[j] = elements[k] /\ elements[k].ptr # m.ptr
    BY <2>3, Popped DEF IInv, NoDuplicates
  <2>5. f = [Contents EXCEPT ![m.ptr] = m.size]
    BY <1>1, <1>2 DEF Abs!StoreUpdate
  <2>6. \A j \in DOMAIN t : f[t[j].ptr] = t[j].size
    <3> SUFFICES ASSUME NEW j \in DOMAIN t PROVE f[t[j].ptr] = t[j].size
      OBVIOUS
    <3>1. t[j].ptr \in DOMAIN Contents
      BY <2>1, ContentsIsMapOf DEF Pointers
    <3>2. CASE j \in DOMAIN s
      <4>1. t[j] = s[j]
        BY <3>2, <2>1
      <4>2. PICK k \in DOMAIN elements : s[j] = elements[k] /\ elements[k].ptr # m.ptr
        BY <3>2, <2>4
      <4>3. Contents[elements[k].ptr] = elements[k].size
        BY LookupIs
      <4> HIDE DEF s, t, f
      <4> QED BY <3>1, <4>1, <4>2, <4>3, <2>5
    <3>3. CASE j \notin DOMAIN s
      <4>1. t[j] = m
        BY <3>3, <2>1
      <4> HIDE DEF s, t, f
      <4> QED BY <3>1, <4>1, <2>5
    <3> QED BY <3>2, <3>3
  <2>7. f = [p \in Pointers(t) |-> f[p]]
    <3>1. DOMAIN Contents = Pointers(t)
      BY <2>1, ContentsIsMapOf
    <3> HIDE DEF s, t, f
    <3> QED BY <2>5, <3>1
  <2>8. MapOf(t) = f
    <3> HIDE DEF s, t, f
    <3> QED BY <2>1, <2>6, <2>7, MapOfIs
  <2>9. Contents' = f
    BY <1>2, <2>8, ContentsIsMapOf DEF update
  <2> QED BY <1>1, <2>9, Zenon DEF update, Abs!Update
<1>3. CASE ~is_some(lookup(m.ptr))
  <2>1. Contents' = Contents
    BY <1>3, ContentsIsMapOf DEF update
  <2>2. Abs!StoreUpdate(Contents, m) = Contents
    BY <1>1, <1>3 DEF Abs!StoreUpdate
  <2> QED BY <1>1, <2>1, <2>2, Zenon DEF update, Abs!Update
<1> QED BY <1>2, <1>3

-----------------------------------------------------------------------------
(* Every behaviour of the vector is one of the interface: removal, which   *)
(* moves the last entry, and update(), which moves the entry to the end,   *)
(* change nothing that a client can see.                                   *)
THEOREM Implements == Spec => ImplementsMap
<1>1. Init => IInv /\ Abs!Init
  BY DEF Init, IInv, TypeOK, NoDuplicates, Abs!Init, Abs!EmptyStore, Contents
<1>2. IInv /\ [Next]_vars => [Abs!Next]_<<Contents, ret>>
  <2> SUFFICES ASSUME IInv, [Next]_vars PROVE [Abs!Next]_<<Contents, ret>>
    OBVIOUS
  <2>0. Abs!Meta \cup {Abs!EmptyMeta} = Meta \cup {EmptyMeta}
    BY DEF Abs!Meta, Meta, Abs!EmptyMeta, EmptyMeta
  <2>1. CASE \E m \in Meta \cup {EmptyMeta} : put(m) \/ remove(m) \/ update(m)
    BY <2>0, <2>1, PutImplements, RemoveImplements, UpdateImplements DEF Abs!Next
  <2>2. CASE \E key \in Key \cup {NULL} : get(key)
    <3>1. PICK key \in Key \cup {NULL} : get(key)
      BY <2>2
    <3>2. Contents' = Contents
      BY <3>1, ContentsIsMapOf DEF get
    <3>3. Abs!Get(key)
      BY <3>1, <3>2, LookupIs DEF get, Abs!Get
    <3> QED BY <3>3 DEF Abs!Next
  <2>3. CASE clear
    <3>1. Contents' = [p \in {} |-> 0]
      BY <2>3 DEF clear, Contents
    <3> QED BY <2>3, <3>1 DEF clear, Abs!Next, Abs!Clear, Abs!EmptyStore
  <2>4. CASE UNCHANGED vars
    BY <2>4, ContentsIsMapOf DEF vars
  <2> QED BY <2>1, <2>2, <2>3, <2>4 DEF Next
<1> QED BY <1>1, <1>2, Inductive, PTL DEF Spec, ImplementsMap, Abs!Spec

-----------------------------------------------------------------------------
USE DEF Hash!storable, Hash!find

(* A call takes a chunk, or the empty MALLOC_META.                         *)
LEMMA HashArgument == ASSUME NEW m \in Hash!Meta \cup {Hash!EmptyMeta}
                  PROVE  /\ m = [ptr |-> m.ptr, size |-> m.size]
                         /\ m.ptr # NULL => m.ptr \in Key /\ m.size \in Sizes
  BY DEF Hash!Meta, Hash!EmptyMeta

(* The store holds chunks only, whatever calls are made.                   *)
THEOREM HashTypeCorrect == Hash!Spec => []Hash!TypeOK
<1>1. Hash!Init => Hash!TypeOK
  BY DEF Hash!Init, Hash!TypeOK
<1>2. Hash!TypeOK /\ [Hash!Next]_(Hash!vars) => Hash!TypeOK'
  <2> SUFFICES ASSUME Hash!TypeOK, [Hash!Next]_(Hash!vars) PROVE Hash!TypeOK'
    OBVIOUS
  <2>1. CASE \E m \in Hash!Meta \cup {Hash!EmptyMeta} : Hash!put(m)
    BY <2>1, HashArgument DEF Hash!put, Hash!emplace, Hash!TypeOK
  <2>2. CASE \E m \in Hash!Meta \cup {Hash!EmptyMeta} : Hash!remove(m)
    BY <2>2 DEF Hash!remove, Hash!TypeOK
  <2>3. CASE \E m \in Hash!Meta \cup {Hash!EmptyMeta} : Hash!update(m)
    <3>1. PICK m \in Hash!Meta \cup {Hash!EmptyMeta} : Hash!update(m)
      BY <2>3
    <3>2. CASE Hash!find(m.ptr)
      <4>1. m.size \in Sizes
        BY <3>2, HashArgument, PlainStoreAssumption DEF Hash!TypeOK
      <4> QED BY <3>1, <3>2, <4>1 DEF Hash!update, Hash!TypeOK
    <3>3. CASE ~Hash!find(m.ptr)
      BY <3>1, <3>3 DEF Hash!update, Hash!TypeOK
    <3> QED BY <3>2, <3>3
  <2>4. CASE \/ \E key \in Key \cup {NULL} : Hash!get(key)
             \/ UNCHANGED Hash!vars
    BY <2>4 DEF Hash!get, Hash!vars, Hash!TypeOK
  <2>5. CASE Hash!clear
    BY <2>5 DEF Hash!clear, Hash!TypeOK
  <2> QED BY <2>1, <2>2, <2>3, <2>4, <2>5 DEF Hash!Next
<1> QED BY <1>1, <1>2, PTL DEF Hash!Spec

(* The size comparison of the interface is the store's.                    *)
LEMMA HashSameComparison ==
  ASSUME NEW m, NEW k
  PROVE  Hash!Abs!equals_ptr_size(m, k) <=> Hash!equals_ptr_size(m, k)
  BY DEF Hash!Abs!equals_ptr_size, Hash!equals_ptr_size, Hash!Abs!chunksize, Hash!chunksize,
         Hash!Abs!flags, Hash!flags, Hash!Abs!SIZE_BITS, Hash!SIZE_BITS, Hash!Abs!PREV_INUSE, Hash!PREV_INUSE,
         Hash!Abs!IS_MMAPPED, Hash!IS_MMAPPED, Hash!Abs!NON_MAIN_ARENA, Hash!NON_MAIN_ARENA

(* One lemma for each operation that the two stores do differently.        *)
LEMMA HashPutImplements == ASSUME Hash!TypeOK, NEW m, Hash!put(m) PROVE Hash!Abs!Put(m)
<1>1. CASE m.ptr # NULL /\ ~Hash!find(m.ptr)
  <2>1. Hash!Abs!PutOk(table, m) /\ Hash!emplace(m) = Hash!Abs!StorePut(table, m)
    BY <1>1 DEF Hash!emplace, Hash!Abs!StorePut, Hash!Abs!PutOk
  <2>2. (m.ptr # NULL /\ ~Hash!find(m.ptr)) = TRUE /\ Hash!Abs!PutOk(table, m) = TRUE
    BY <1>1, <2>1 DEF Hash!Abs!PutOk
  <2> QED BY <1>1, <2>1, <2>2, Zenon DEF Hash!put, Hash!Abs!Put
<1>2. CASE ~(m.ptr # NULL /\ ~Hash!find(m.ptr))
  <2>1. ~Hash!Abs!PutOk(table, m) /\ Hash!Abs!StorePut(table, m) = table
    BY <1>2 DEF Hash!Abs!PutOk, Hash!Abs!StorePut
  <2>2. Hash!find(m.ptr) => Hash!emplace(m) = table
    BY DEF Hash!emplace, Hash!TypeOK
  <2>3. table' = table
    BY <1>2, <2>2 DEF Hash!put
  <2>4. (m.ptr # NULL /\ ~Hash!find(m.ptr)) = FALSE /\ Hash!Abs!PutOk(table, m) = FALSE
    BY <1>2, <2>1 DEF Hash!Abs!PutOk
  <2> QED BY <2>1, <2>3, <2>4, Zenon DEF Hash!put, Hash!Abs!Put
<1> QED BY <1>1, <1>2

(* remove() erases the pointer.                                            *)
LEMMA HashRemoveImplements == ASSUME NEW m, Hash!remove(m) PROVE Hash!Abs!Remove(m)
<1>1. Hash!matches(m) = Hash!Abs!RemoveOk(table, m)
  BY HashSameComparison DEF Hash!matches, Hash!Abs!RemoveOk, Hash!Abs!StoreGet
<1> QED BY <1>1, Zenon DEF Hash!remove, Hash!Abs!Remove, Hash!Abs!StoreRemove

(* update() assigns to the pointer.                                        *)
LEMMA HashUpdateImplements ==
  ASSUME Hash!TypeOK, NEW m \in Hash!Meta \cup {Hash!EmptyMeta}, Hash!update(m)
  PROVE  Hash!Abs!Update(m)
<1>1. Hash!find(m.ptr) = Hash!Abs!UpdateOk(table, m)
  <2>1. Hash!find(m.ptr) => m.ptr # NULL /\ table[m.ptr] # 0
    BY PlainStoreAssumption DEF Hash!TypeOK
  <2> QED BY <2>1 DEF Hash!Abs!UpdateOk, Hash!Abs!StoreGet, Hash!Abs!is_some, Hash!Abs!EmptyMeta
<1> QED BY <1>1, Zenon DEF Hash!update, Hash!Abs!Update, Hash!Abs!StoreUpdate

(* Every behaviour of the hash store is one of the interface.              *)
THEOREM HashImplements == Hash!Spec => Hash!ImplementsMap
<1>1. Hash!Init => Hash!Abs!Init
  BY DEF Hash!Init, Hash!Abs!Init, Hash!Abs!EmptyStore
<1>2. Hash!TypeOK /\ [Hash!Next]_(Hash!vars) => [Hash!Abs!Next]_<<table, answer>>
  <2> SUFFICES ASSUME Hash!TypeOK, [Hash!Next]_(Hash!vars) PROVE [Hash!Abs!Next]_<<table, answer>>
    OBVIOUS
  <2>0. Hash!Abs!Meta \cup {Hash!Abs!EmptyMeta} = Hash!Meta \cup {Hash!EmptyMeta}
    BY DEF Hash!Abs!Meta, Hash!Meta, Hash!Abs!EmptyMeta, Hash!EmptyMeta
  <2>1. CASE \E m \in Hash!Meta \cup {Hash!EmptyMeta} : Hash!put(m) \/ Hash!remove(m) \/ Hash!update(m)
    BY <2>0, <2>1, HashPutImplements, HashRemoveImplements, HashUpdateImplements DEF Hash!Abs!Next
  <2>2. CASE \E key \in Key \cup {NULL} : Hash!get(key)
    BY <2>2 DEF Hash!get, Hash!EmptyMeta, Hash!Abs!Next, Hash!Abs!Get, Hash!Abs!StoreGet,
                Hash!Abs!EmptyMeta
  <2>3. CASE Hash!clear
    BY <2>3 DEF Hash!clear, Hash!Abs!Next, Hash!Abs!Clear, Hash!Abs!EmptyStore
  <2>4. CASE UNCHANGED Hash!vars
    BY <2>4 DEF Hash!vars
  <2> QED BY <2>1, <2>2, <2>3, <2>4 DEF Hash!Next
<1> QED BY <1>1, <1>2, HashTypeCorrect, PTL DEF Hash!Spec, Hash!ImplementsMap, Hash!Abs!Spec

-----------------------------------------------------------------------------
(* Both together.                                                          *)
LEMMA BothStep == [BothNext]_<<vars, Hash!vars>> => [Next]_vars /\ [Hash!Next]_(Hash!vars)
  BY DEF BothNext, Next, Hash!Next, Hash!Meta, Meta, Hash!EmptyMeta, EmptyMeta

(* Given the same calls, the vector and the unordered_map stay of their    *)
(* types, and the vector without duplicates.                               *)
THEOREM BothTypeCorrect == BothSpec => [](TypeOK /\ NoDuplicates)
<1>1. BothSpec => Spec
  BY BothStep, PTL DEF BothSpec, BothInit, Spec
<1> QED BY <1>1, Invariant, PTL

(* Given the same calls, each of the two stores is the map of the          *)
(* interface, so the fallback of production builds can be replaced by the  *)
(* other.                                                                  *)
THEOREM BothImplements == BothSpec => ImplementsMap /\ HashImplementsMap
<1>1. BothSpec => Spec /\ Hash!Spec
  BY BothStep, PTL DEF BothSpec, BothInit, Spec, Hash!Spec
<1> QED BY <1>1, Implements, HashImplements, PTL DEF HashImplementsMap
=============================================================================
