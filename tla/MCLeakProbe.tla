---------------------------- MODULE MCLeakProbe ----------------------------
(* Model values for the pointers that are no addresses of chunks.          *)
EXTENDS LeakProbe
=============================================================================
