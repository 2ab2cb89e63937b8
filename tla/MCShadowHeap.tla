--------------------------- MODULE MCShadowHeap ---------------------------
(* Small instances of ShadowHeap for TLC. *)
EXTENDS ShadowHeap

CONSTANTS p1, p2, p3

PtrSymmetry == Permutations(Ptr)
=============================================================================
