---------------------------- MODULE MCPlainStores ----------------------------
(***************************************************************************)
(* The vector store and the hash store side by side: every call is made to *)
(* both of them.                                                           *)
(***************************************************************************)
EXTENDS VectorMetaStore, TLC

CONSTANTS k1, k2, k3

VARIABLES table, answer          \* of the hash store

Hash == INSTANCE HashMetaStore WITH elements <- table, ret <- answer

BothInit == Init /\ Hash!Init

BothNext ==
  \/ \E m \in Meta \cup {EmptyMeta} :
       \/ put(m) /\ Hash!put(m)
       \/ remove(m) /\ Hash!remove(m)
       \/ update(m) /\ Hash!update(m)
  \/ \E key \in Key \cup {NULL} : get(key) /\ Hash!get(key)
  \/ clear /\ Hash!clear

BothSpec == BothInit /\ [][BothNext]_<<vars, Hash!vars>>

KeySymmetry == Permutations(Key)

(* The hash store, whose emplace() keeps what is there and whose update()  *)
(* is its own, is the map of the interface as well.                        *)
HashImplementsMap == Hash!ImplementsMap
=============================================================================
