------------------------------ MODULE MCParts ------------------------------
(***************************************************************************)
(* Small instances of the parts that share no state: how much realloc()    *)
(* copies, the bootstrap of the hooks, the constructor, the probes of the  *)
(* heap, and the driver of the experiments.  A behaviour is one of a       *)
(* single part; the variables of the others stay NULL.  Variables of two   *)
(* parts that have the same name are one variable here.                    *)
(***************************************************************************)
EXTENDS ReallocCopy

CONSTANTS
  wrapper, facade, leak, allocator, CHUNK, CALLOCBASE,
  Builds, SizeInputs, WORDS, INTS, ENTRIES_PER_BIN, InitialBins, MaxBins,
  Versions, TcacheCounts, TEST_SIZE_TCACHEBIN, EarlySizes, MaxEarly,
  TCACHE, ELSEWHERE, ONE,
  Experiments, Patterns, Repetitions, BufferHolds, MaxFailures, MaxDeletes, MaxKills

VARIABLES
  part,                          \* "realloc", "hook", "startup", "probe", "runner"
  phase, pc,                     \* of "hook" and "probe"; of "startup" and "runner"
  todo, stack, isInitialized, pointers, recursive, dlresult, last, handed_out, setups,
  build, foreign, next, modes, initialStoreSize, numBins, factor, newcap, status,
  heap, live, version, patched, tcache_present, a, ptr_a_fd, arena, refs, tcache, kept,
  nearly,
  file, counts, buffered, db, schedule, job, patterns, recorded, failures, deletes, kills

Hook == INSTANCE HookInfo
Start == INSTANCE Startup
Probe == INSTANCE LeakProbe
Runner == INSTANCE ExperimentRunner

(* Without the shared asked, phase and pc.                                 *)
reallocVars == <<size, len, oldasked, oldsize>>
hookVars == <<todo, stack, isInitialized, pointers, recursive, dlresult, last,
              handed_out, setups>>
startVars == <<build, foreign, next, modes, initialStoreSize, numBins, factor, newcap, status>>
probeVars == <<heap, live, version, patched, tcache_present, a, ptr_a_fd, arena, refs,
               tcache, kept, nearly>>
runnerVars == <<file, counts, buffered, db, schedule, job, patterns, recorded, failures,
                deletes, kills>>
all == <<part, asked, phase, pc, reallocVars, hookVars, startVars, probeVars, runnerVars>>

-----------------------------------------------------------------------------
NoRealloc == size = NULL /\ len = 0 /\ oldasked = NULL /\ oldsize = NULL
NoHook ==
  /\ todo = NULL /\ stack = NULL /\ isInitialized = NULL /\ pointers = NULL
  /\ recursive = NULL /\ dlresult = NULL /\ last = NULL /\ handed_out = NULL /\ setups = NULL
NoStart ==
  /\ build = NULL /\ foreign = NULL /\ next = NULL /\ modes = NULL /\ initialStoreSize = NULL
  /\ numBins = NULL /\ factor = NULL /\ newcap = NULL /\ status = NULL
NoProbe ==
  /\ heap = NULL /\ live = NULL /\ version = NULL /\ patched = NULL /\ tcache_present = NULL
  /\ a = NULL /\ ptr_a_fd = NULL /\ arena = NULL /\ refs = NULL /\ tcache = NULL
  /\ kept = NULL /\ nearly = NULL
NoRunner ==
  /\ file = NULL /\ counts = NULL /\ buffered = NULL /\ db = NULL /\ schedule = NULL
  /\ job = NULL /\ patterns = NULL /\ recorded = NULL
  /\ failures = NULL /\ deletes = NULL /\ kills = NULL

PartsInit ==
  \/ /\ part = "realloc" /\ Init /\ NoHook /\ NoStart /\ NoProbe /\ NoRunner
     /\ phase = NULL /\ pc = NULL
  \/ /\ part = "hook" /\ Hook!Init /\ NoRealloc /\ NoStart /\ NoProbe /\ NoRunner
     /\ asked = NULL /\ pc = NULL
  \/ /\ part = "startup" /\ Start!Init /\ NoRealloc /\ NoHook /\ NoProbe /\ NoRunner
     /\ phase = NULL
  \/ /\ part = "probe" /\ Probe!Init /\ NoRealloc /\ NoHook /\ NoStart /\ NoRunner
     /\ asked = NULL /\ pc = NULL
  \/ /\ part = "runner" /\ Runner!Init /\ NoRealloc /\ NoHook /\ NoStart /\ NoProbe
     /\ asked = NULL /\ phase = NULL

Realloc ==
  /\ part = "realloc" /\ Next
  /\ UNCHANGED <<part, phase, pc, hookVars, startVars, probeVars, runnerVars>>
Bootstrap ==
  /\ part = "hook" /\ Hook!Next
  /\ UNCHANGED <<part, asked, pc, reallocVars, startVars, probeVars, runnerVars>>
Construct ==
  /\ part = "startup" /\ Start!Next
  /\ UNCHANGED <<part, phase, reallocVars, hookVars, probeVars, runnerVars>>
Leak ==
  /\ part = "probe" /\ Probe!Next
  /\ UNCHANGED <<part, asked, pc, reallocVars, hookVars, startVars, runnerVars>>
Drive ==
  /\ part = "runner" /\ Runner!Next
  /\ UNCHANGED <<part, asked, phase, reallocVars, hookVars, startVars, probeVars>>

(* The constructor ends, and the driver cannot load a torn file.           *)
Ended ==
  /\ \/ part = "startup" /\ pc = "done"
     \/ part = "runner" /\ pc = "down" /\ file = "torn"
  /\ UNCHANGED all

PartsNext == Realloc \/ Bootstrap \/ Construct \/ Leak \/ Drive \/ Ended

(* The fairness of Startup and of ExperimentRunner.                        *)
PartsSpec ==
  /\ PartsInit /\ [][PartsNext]_all
  /\ WF_all(Construct)
  /\ WF_all(part = "runner" /\ Runner!run /\ Drive)
  /\ WF_all(part = "runner" /\ Runner!truncate /\ Drive)
  /\ WF_all(part = "runner" /\ Runner!dump_json /\ Drive)
  /\ WF_all(part = "runner" /\ Runner!finish /\ Drive)
  /\ WF_all(part = "runner" /\ (\E n \in Experiments : Runner!capture_performance(n)) /\ Drive)

-----------------------------------------------------------------------------
(* The instances.  Requests around the boundaries of small chunks and of   *)
(* the first page.                                                         *)
SmallRequests ==
  {1, 8, 9, 16, 17} \cup (23..26) \cup (39..42) \cup (4071..4074) \cup (4087..4089)

(* The mitigation levels 1 to 4 of the Makefile, the unprotected builds.   *)
MCBuilds ==
  {{}, {"LEAK", "PTR"}, {"LEAK", "PTR", "TOP"}, {"LEAK", "PTR", "TOP", "USB"},
   {"LEAK", "PTR", "TOP", "USB", "TCA"}}

(* At and around the initial capacity and its doublings, beyond the range  *)
(* of the factor, ERANGE, and a small number with a minus sign.            *)
MCSizes == {0, 8, 9, 16, 17, 32, 33, 64, 128, 256, -239, -256}

(* Three configurations, two with a common prefix, as in the help text.    *)
MCExperiments == {<<"none">>, <<"shadow">>, <<"shadow", "usb">>}
MCPatterns == {<<"none">>, <<"shadow">>}

ASSUME PartsAssumption ==
  Hook!HookConstants /\ Start!StartupConstants /\ Probe!LeakProbeConstants /\ Runner!RunnerConstants

(* The powers of two are those numbers.                                    *)
ASSUME PowersOfTwo ==
  {n \in 1..1000 : Start!IsPowerOfTwo(n)} = {1, 2, 4, 8, 16, 32, 64, 128, 256, 512}

-----------------------------------------------------------------------------
(* The types of every part, each in the behaviours of that part.           *)
TypeOK ==
  /\ part = "hook" => Hook!TypeOK
  /\ part = "startup" => Start!TypeOK
  /\ part = "probe" => Probe!TypeOK
  /\ part = "runner" => Runner!TypeOK

(* HookInfo: dlsym() and calloc() do not call each other for ever, no call *)
(* goes through a missing pointer, the static buffer has one holder, and   *)
(* it never reaches the application.                                       *)
RecursionEnds == part = "hook" => Hook!RecursionEnds
RawCallsHavePointers == part = "hook" => Hook!RawCallsHavePointers
StaticBufferOnce == part = "hook" => Hook!StaticBufferOnce
ClientsGetChunks == part = "hook" => Hook!ClientsGetChunks

(* Startup: the modes that are on, the size of the store, and that the     *)
(* constructor ends.                                                       *)
ModesAsAsked == part = "startup" => Start!ModesAsAsked
StoreLargeEnough == part = "startup" => Start!StoreLargeEnough
StartupEnds == <>(part = "startup" => status # "starting")

(* LeakProbe: what the probes find, and what they leave behind.            *)
ProbeSucceeds == part = "probe" => Probe!ProbeSucceeds
TcacheStructReal == part = "probe" => Probe!TcacheStructReal
ProbesKeepNothing == part = "probe" => Probe!ProbesKeepNothing
LeftoversRemoved == part = "probe" => Probe!LeftoversRemoved

(* ExperimentRunner: results survive, and are measured as often as asked.  *)
ResultsKept == part = "runner" => Runner!ResultsKept
NotTooOften == part = "runner" => Runner!NotTooOften
AllMeasured == <>(part = "runner" => kills > 0 \/ Runner!Complete)
=============================================================================
