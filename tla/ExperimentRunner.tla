-------------------------- MODULE ExperimentRunner --------------------------
(***************************************************************************)
(* The benchmark driver (src/run-experiment.py): "run" loads the database  *)
(* of results, schedules what is missing and rewrites the file after every *)
(* experiment; "delete-experiment" removes results.  The file is written   *)
(* through a buffer, which reaches it at the next seek() and when click    *)
(* closes it.  A result is only counted, by the name of its experiment.    *)
(***************************************************************************)
EXTENDS Naturals, SequencesExt

CONSTANTS
  Experiments,                   \* names: sequences of parts, "shadow-usb"
                                 \* is <<"shadow", "usb">>
  Patterns,                      \* literal arguments of delete-experiment
  Repetitions,
  BufferHolds,                   \* results that fit the buffer
  MaxFailures, MaxDeletes, MaxKills   \* bounds on what happens to the driver

(* What the constants have to be.                                         *)
RunnerConstants ==
  /\ \A p \in Experiments \cup Patterns : p \in Seq(STRING)
  /\ {Repetitions, BufferHolds, MaxFailures, MaxDeletes, MaxKills} \subseteq Nat

VARIABLES
  file, counts,                  \* "json", "empty" or "torn"; what the JSON says
  buffered,                      \* the JSON is still in the buffer
  db, schedule,                  \* in memory: results; runs to do
  pc, job, patterns,             \* where the driver is, and its arguments
  recorded,                      \* the results that were measured, not deleted
  failures, deletes, kills       \* how often each has happened

vars == <<file, counts, buffered, db, schedule, pc, job, patterns, recorded,
          failures, deletes, kills>>
disk == <<file, counts, buffered>>
happened == <<failures, deletes, kills>>

None == [n \in Experiments |-> 0]

Init ==
  /\ file = "empty" /\ counts = None /\ buffered = FALSE
  /\ db = None /\ schedule = None /\ recorded = None
  /\ pc = "down" /\ job = "run" /\ patterns = {}
  /\ failures = 0 /\ deletes = 0 /\ kills = 0

-----------------------------------------------------------------------------
(* load_json(): an empty file is an empty database, a torn one an error.   *)
Loadable == file # "torn"
load_json == IF file = "json" THEN counts ELSE None

NeededAll(results) == [n \in Experiments |-> Repetitions]          \* mutant
NeededIfNone(results) ==                                           \* mutant
  [n \in Experiments |-> IF results[n] > 0 THEN 0 ELSE Repetitions]
Needed(results) ==
  [n \in Experiments |-> IF results[n] >= Repetitions THEN 0 ELSE Repetitions - results[n]]

run ==
  /\ pc = "down" /\ Loadable
  /\ db' = load_json /\ schedule' = Needed(load_json)
  /\ pc' = "loop" /\ job' = "run"
  /\ UNCHANGED <<disk, patterns, recorded, happened>>

(* re.match() anchors the pattern at the start of the name only.           *)
Matches(p, n) == IsPrefix(p, n)
Deleted(results, ps) ==
  [n \in Experiments |-> IF \E p \in ps : Matches(p, n) THEN 0 ELSE results[n]]

delete_experiment(ps) ==
  /\ pc = "down" /\ Loadable /\ deletes < MaxDeletes
  /\ db' = Deleted(load_json, ps) /\ recorded' = Deleted(recorded, ps)
  /\ pc' = "sync" /\ job' = "delete" /\ patterns' = ps
  /\ deletes' = deletes + 1
  /\ UNCHANGED <<disk, schedule, failures, kills>>

-----------------------------------------------------------------------------
(* click closes the file when the command ends, with an exception or not.  *)
CloseUnflushed == UNCHANGED disk                                   \* mutant
Close == IF buffered THEN file' = "json" /\ buffered' = FALSE /\ UNCHANGED counts
         ELSE UNCHANGED disk

(* capture_performance() of a shuffled schedule's next entry.              *)
capture_performance(n) ==
  /\ pc = "loop" /\ schedule[n] > 0
  /\ db' = [db EXCEPT ![n] = @ + 1] /\ recorded' = [recorded EXCEPT ![n] = @ + 1]
  /\ schedule' = [schedule EXCEPT ![n] = @ - 1]
  /\ pc' = "sync"
  /\ UNCHANGED <<disk, job, patterns, happened>>

(* check=True: a command that fails ends the driver.                       *)
command_fails ==
  /\ pc = "loop" /\ schedule # None /\ failures < MaxFailures
  /\ Close /\ pc' = "down" /\ failures' = failures + 1
  /\ UNCHANGED <<db, schedule, job, patterns, recorded, deletes, kills>>

(* sync_json(): seek() flushes, truncate() empties, dump_json() writes to  *)
(* the buffer, of which the file may already have a part.                  *)
truncate ==
  /\ pc = "sync"
  /\ file' = "empty" /\ buffered' = FALSE
  /\ pc' = "dump"
  /\ UNCHANGED <<counts, db, schedule, job, patterns, recorded, happened>>

dump_json ==
  /\ pc = "dump"
  /\ counts' = db /\ buffered' = TRUE
  /\ file' = IF FoldFunction(+, 0, db) > BufferHolds THEN "torn" ELSE "empty"
  /\ pc' = IF job = "run" THEN "loop" ELSE "end"
  /\ UNCHANGED <<db, schedule, job, patterns, recorded, happened>>

finish ==
  /\ pc = "end" \/ (pc = "loop" /\ schedule = None)
  /\ Close /\ pc' = "down"
  /\ UNCHANGED <<db, schedule, job, patterns, recorded, happened>>

(* The driver is killed, or the machine stops: the buffer is lost.         *)
kill ==
  /\ pc # "down" /\ kills < MaxKills
  /\ pc' = "down" /\ buffered' = FALSE /\ kills' = kills + 1
  /\ UNCHANGED <<file, counts, db, schedule, job, patterns, recorded, failures, deletes>>

Next ==
  \/ run
  \/ \E ps \in SUBSET Patterns \ {{}} : delete_experiment(ps)
  \/ \E n \in Experiments : capture_performance(n)
  \/ command_fails \/ truncate \/ dump_json \/ finish \/ kill

Spec == Init /\ [][Next]_vars

(* The driver goes on by itself; the user starts it again until it has     *)
(* ended by itself; the commands that are measured end.                    *)
FairSpec ==
  /\ Spec
  /\ WF_vars(run) /\ WF_vars(truncate) /\ WF_vars(dump_json) /\ WF_vars(finish)
  /\ WF_vars(\E n \in Experiments : capture_performance(n))

-----------------------------------------------------------------------------
TypeOK ==
  /\ file \in {"json", "empty", "torn"} /\ buffered \in BOOLEAN
  /\ {counts, db, schedule} \subseteq [Experiments -> 0..Repetitions]
  /\ recorded \in [Experiments -> 0..Repetitions * (1 + kills)]
  /\ pc \in {"down", "loop", "sync", "dump", "end"} /\ job \in {"run", "delete"}
  /\ patterns \subseteq Patterns

(* --database: "Store experiment results in this file, allows resumption"  *)
(* (run-experiment.py:46): whenever no driver runs, the file has all       *)
(* results, also after a failed command and a deletion, but for a kill.    *)
ResultsKept == pc = "down" /\ kills = 0 => Loadable /\ load_json = recorded

(* After a kill as well, but for the result that was being added.          *)
ResumableAfterKill ==
  pc = "down" => Loadable /\ \A n \in Experiments : recorded[n] <= load_json[n] + 1

(* An experiment that is resumed is not measured more often than asked.    *)
NotTooOften == \A n \in Experiments : db[n] + (IF pc = "loop" THEN schedule[n] ELSE 0) <= Repetitions

(* Resumed as often as commands fail, the driver gets all results, unless  *)
(* it is killed.                                                           *)
Complete == pc = "down" /\ \A n \in Experiments : load_json[n] = Repetitions
AllMeasured == <>(kills > 0 \/ Complete)

(* delete-experiment deletes "results for the given experiments"           *)
(* (run-experiment.py:167) and, for a name without a "*", of no other.     *)
DeletesOnlyNamed ==
  [][\A n \in Experiments : recorded'[n] < recorded[n] => n \in patterns']_vars
=============================================================================
