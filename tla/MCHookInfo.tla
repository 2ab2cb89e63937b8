----------------------------- MODULE MCHookInfo -----------------------------
(* The objects, and what calls return, as model values.                    *)
EXTENDS HookInfo
=============================================================================
