--------------------------- MODULE AllocatorSpec ---------------------------
(***************************************************************************)
(* What malloc(), calloc(), realloc() and free() of the wrapper promise    *)
(* the application that uses them: an allocator that hands out chunks      *)
(* nobody holds, goes on for as long as the application makes no error,    *)
(* and works on nothing while metadata that is covered is damaged.  It     *)
(* keeps no snapshots: it knows of the damage.                             *)
(***************************************************************************)
CONSTANTS
  Ptr,                           \* the chunks
  Verified                       \* are frees verified (ptrMode)?

VARIABLES
  held,                          \* the chunks the application holds
  state,                         \* "running", "stopped" or "undefined"
  faulty,                        \* has the application made an error?
  tainted                        \* is metadata damaged that checks read?

vars == <<held, state, faulty, tainted>>

Init == held = {} /\ state = "running" /\ faulty = FALSE /\ tainted = FALSE

(* A call is served only if nothing that is covered is damaged.            *)
Serving == state = "running" /\ ~tainted /\ UNCHANGED <<state, faulty, tainted>>

Malloc == Serving /\ \E p \in Ptr \ held : held' = held \cup {p}

Free == Serving /\ \E p \in held : held' = held \ {p}

Realloc ==
  /\ Serving
  /\ \E p \in held, q \in Ptr \ held : held' = (held \ {p}) \cup {q}

(* The application overwrites metadata, covered or not; it may overwrite   *)
(* what says where damaged metadata is, too, which then is not looked at.  *)
Damage ==
  /\ state = "running" /\ faulty' = TRUE
  /\ tainted' \in BOOLEAN
  /\ UNCHANGED <<held, state>>

(* The end is an alarm or a fault, or undefined behaviour of glibc, which  *)
(* is not called while something covered is damaged.                       *)
Ends(how) ==
  /\ state = "running" /\ state' = how
  /\ how = "undefined" => ~tainted
  /\ UNCHANGED <<held, tainted>>

EndsAfterError ==
  /\ faulty /\ UNCHANGED faulty
  /\ \E how \in {"stopped", "undefined"} : Ends(how)

(* The free() of what the application does not hold ends the program; with *)
(* verified frees glibc never sees it.                                     *)
WrongFree ==
  /\ faulty' = TRUE
  /\ \E how \in IF Verified THEN {"stopped"} ELSE {"stopped", "undefined"} : Ends(how)

Next == Malloc \/ Free \/ Realloc \/ Damage \/ EndsAfterError \/ WrongFree

Spec == Init /\ [][Next]_vars
=============================================================================
