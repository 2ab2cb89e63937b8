--------------------------- MODULE MetaStoreSpec ---------------------------
(***************************************************************************)
(* The IMetaStore interface as a state machine: one map, one operation at  *)
(* a time, and the answer of the last one.  The plain stores implement it; *)
(* the cached one does for clients that never put a pointer that is still  *)
(* stored, which is what ShadowHeap!StoreTracksLive shows of the facade.   *)
(***************************************************************************)
EXTENDS MetaStore

CONSTANTS Key, Sizes             \* the pointers and size fields clients use

VARIABLES map, ret

Meta == [ptr : Key, size : Sizes]

Init == map = EmptyStore /\ ret = <<"none">>

Put(m) == ret' = <<"put", PutOk(map, m)>> /\ map' = StorePut(map, m)

Get(key) == ret' = <<"get", StoreGet(map, key)>> /\ UNCHANGED map

Remove(m) == ret' = <<"remove", RemoveOk(map, m)>> /\ map' = StoreRemove(map, m)

Update(m) == ret' = <<"update", UpdateOk(map, m)>> /\ map' = StoreUpdate(map, m)

Clear == ret' = <<"clear">> /\ map' = EmptyStore

Next ==
  \/ \E m \in Meta \cup {EmptyMeta} : Put(m) \/ Remove(m) \/ Update(m)
  \/ \E key \in Key \cup {NULL} : Get(key)
  \/ Clear

Spec == Init /\ [][Next]_<<map, ret>>
=============================================================================
