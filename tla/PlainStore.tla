----------------------------- MODULE PlainStore -----------------------------
(***************************************************************************)
(* What the stores without a cache have in common: the chunks their        *)
(* clients put (src/src/store/metastore.h).                                *)
(***************************************************************************)
EXTENDS ChunkMeta

CONSTANTS
  Key,                           \* chunk pointers
  Sizes                          \* raw size fields

ASSUME PlainStoreAssumption == NULL \notin Key /\ Sizes \subseteq Nat \ {0}

Meta == [ptr : Key, size : Sizes]
=============================================================================
