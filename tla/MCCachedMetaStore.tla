------------------------- MODULE MCCachedMetaStore -------------------------
(* Small instances of CachedMetaStore for TLC. *)
EXTENDS CachedMetaStore, TLC

CONSTANTS k1, k2, k3, k4

KeySymmetry == Permutations(Key)
=============================================================================
