----------------------------- MODULE MetaStore -----------------------------
(***************************************************************************)
(* What an IMetaStore promises (src/src/store/metastore.h): a map from     *)
(* chunk pointers to raw size fields.  The operators are the effect and    *)
(* the answer of each operation on a map s, a function whose domain is the *)
(* set of stored pointers; they follow MapMetaStore, the reference store,  *)
(* whose std::map is such a function.                                      *)
(***************************************************************************)
EXTENDS ChunkMeta

EmptyStore == [p \in {} |-> 0]

StoreGet(s, key) ==
  IF key \in DOMAIN s THEN [ptr |-> key, size |-> s[key]] ELSE EmptyMeta

(* emplace: an entry that is already there stays as it is. *)
PutOk(s, m) == m.ptr # NULL /\ m.ptr \notin DOMAIN s
StorePut(s, m) ==
  IF PutOk(s, m)
  THEN [p \in DOMAIN s \cup {m.ptr} |-> IF p = m.ptr THEN m.size ELSE s[p]]
  ELSE s

(* An entry is removed only if the chunk size in the key matches. *)
RemoveOk(s, m) ==
  m.ptr \in DOMAIN s /\ equals_ptr_size(StoreGet(s, m.ptr), m)
StoreRemoveForgotten(s, m) == s                                   \* mutant
StoreRemove(s, m) ==
  IF RemoveOk(s, m) THEN [p \in DOMAIN s \ {m.ptr} |-> s[p]] ELSE s

(* update(key): if get(key.ptr).is_some(), remove that entry and put key.  *)
UpdateOk(s, m) == is_some(StoreGet(s, m.ptr))
StoreUpdate(s, m) ==
  IF UpdateOk(s, m) THEN [s EXCEPT ![m.ptr] = m.size] ELSE s
=============================================================================
