--------------------------- MODULE HashMetaStore ---------------------------
(***************************************************************************)
(* The store behind the cache in the production builds: an unordered_map   *)
(* from pointers to size fields (src/src/store/HashMetaStore.h).  It has   *)
(* an update() of its own, which overwrites the size in place.             *)
(***************************************************************************)
EXTENDS PlainStore

VARIABLES elements, ret          \* the unordered_map; the last answer

vars == <<elements, ret>>

Init == elements = [p \in {} |-> 0] /\ ret = <<"none">>

find(key) == key \in DOMAIN elements

(* emplace() leaves an entry that is there as it is.                       *)
emplaceOverwrites(m) ==                                           \* mutant
  [p \in DOMAIN elements \cup {m.ptr} |-> IF p = m.ptr THEN m.size ELSE elements[p]]
emplace(m) ==
  [p \in DOMAIN elements \cup {m.ptr} |-> IF find(p) THEN elements[p] ELSE m.size]

storableAny(m) == TRUE                                            \* mutant
storable(m) == m.ptr # NULL

put(m) ==
  /\ elements' = IF storable(m) THEN emplace(m) ELSE elements
  /\ ret' = <<"put", storable(m) /\ ~find(m.ptr)>>

get(key) ==
  /\ ret' = <<"get", IF find(key) THEN [ptr |-> key, size |-> elements[key]] ELSE EmptyMeta>>
  /\ UNCHANGED elements

matches(m) == find(m.ptr) /\ equals_ptr_size([ptr |-> m.ptr, size |-> elements[m.ptr]], m)

remove(m) ==
  /\ elements' = IF matches(m) THEN [p \in DOMAIN elements \ {m.ptr} |-> elements[p]]
                 ELSE elements
  /\ ret' = <<"remove", matches(m)>>

update(m) ==
  /\ elements' = IF find(m.ptr) THEN [elements EXCEPT ![m.ptr] = m.size] ELSE elements
  /\ ret' = <<"update", find(m.ptr)>>

clear == elements' = [p \in {} |-> 0] /\ ret' = <<"clear">>

Next ==
  \/ \E m \in Meta \cup {EmptyMeta} : put(m) \/ remove(m) \/ update(m)
  \/ \E key \in Key \cup {NULL} : get(key)
  \/ clear

Spec == Init /\ [][Next]_vars

-----------------------------------------------------------------------------
(* Only chunks are stored.                                                 *)
TypeOK == DOMAIN elements \subseteq Key /\ elements \in [DOMAIN elements -> Sizes]

(* The store is the map that the interface promises, update() included.    *)
Abs == INSTANCE MetaStoreSpec WITH map <- elements
ImplementsMap == Abs!Spec
=============================================================================
