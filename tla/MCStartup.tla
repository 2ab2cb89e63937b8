----------------------------- MODULE MCStartup -----------------------------
(* Small instances of Startup: words of 8 bits, int of 4. *)
EXTENDS Startup

(* The mitigation levels 1 to 4 of the Makefile, the unprotected builds.   *)
MCBuilds ==
  {{}, {"LEAK", "PTR"}, {"LEAK", "PTR", "TOP"}, {"LEAK", "PTR", "TOP", "USB"},
   {"LEAK", "PTR", "TOP", "USB", "TCA"}}

(* At and around the initial capacity and its doublings, beyond the range  *)
(* of the factor, ERANGE, and a small number with a minus sign.            *)
MCSizes == {0, 8, 9, 16, 17, 32, 33, 64, 128, 256, -239, -256}
(* The largest word.                                                       *)
MinusOne == {-1}
=============================================================================
