------------------------------ MODULE Startup ------------------------------
(***************************************************************************)
(* What the constructor of the wrapper does before the first call is       *)
(* checked: the modes are read from the environment                        *)
(* (src/src/tools/ModeReader.h), the store is created and grown to the     *)
(* size asked for (ShadowHeapData.h, CachedMetaStore.h), the heap is       *)
(* probed and the modes are settled (ShadowHeapFacade.h).  A size_t has     *)
(* WORDS values and an int INTS.  The overflow of an int is undefined: the *)
(* product wraps, or is made in a wider register.                          *)
(***************************************************************************)
EXTENDS Integers, Sequences

CONSTANTS
  Builds,                        \* sets of modes the library is compiled with
  SizeInputs,                    \* numbers given as SHADOWHEAP_SIZE_INITIAL
  WORDS, INTS,                   \* how many values a size_t and an int have
  ENTRIES_PER_BIN, InitialBins,
  MaxBins                        \* vector::max_size()

Modes == <<"PTR", "USB", "TOP", "LEAK", "TCA">>
ModeSet == {Modes[i] : i \in DOMAIN Modes}

(* A single bit is set: no odd number but 1 divides it.                   *)
IsPowerOfTwo(n) == n \in Nat \ {0} /\ \A d \in 2..n : n % d = 0 => d % 2 = 0

(* What the constants have to be.  A vector takes up less than half of the *)
(* addresses.                                                              *)
StartupConstants ==
  /\ Builds \subseteq SUBSET ModeSet
  /\ SizeInputs \subseteq Int
  /\ IsPowerOfTwo(WORDS) /\ IsPowerOfTwo(INTS) /\ INTS \in 2..WORDS
  /\ IsPowerOfTwo(ENTRIES_PER_BIN) /\ IsPowerOfTwo(InitialBins)
  /\ MaxBins \in Nat /\ 2 * MaxBins < WORDS
  /\ InitialBins <= MaxBins /\ 2 * InitialBins * ENTRIES_PER_BIN < WORDS

VARIABLES
  build,                         \* the modes compiled in
  asked,                         \* mode -> what its variable was when it was read
  foreign,                       \* other variables in the environment
  next,                          \* the next mode to read
  modes,                         \* the modes that are on
  initialStoreSize,
  numBins,                       \* of the store's cache; 0 without a store
  factor, newcap,                \* the loop of ensure_capacity()
  pc, status

vars == <<build, asked, foreign, next, modes, initialStoreSize, numBins, factor,
          newcap, pc, status>>
environment == <<build, asked, foreign>>

WordKept(n) == n                                                    \* mutant
Word(n) == n % WORDS
Signed(n) ==
  LET low == n % INTS IN IF 2 * low < INTS THEN low ELSE low - INTS

Foreign == {"PATH", "SHADOWHEAPX", "SHADOWHEAP_X"}

Init ==
  /\ build \in Builds
  /\ asked = [m \in {} |-> "unset"] /\ foreign \in SUBSET Foreign
  /\ next = 1 /\ modes = build /\ initialStoreSize = 0
  /\ numBins = 0 /\ factor = 0 /\ newcap = 0
  /\ pc = "modes" /\ status = "starting"

End(how) == status' = how /\ pc' = "done"
Go(where) == pc' = where /\ UNCHANGED status

-----------------------------------------------------------------------------
(* disable_via_env() for one mode; the variable of a mode that is not      *)
(* compiled in is not looked at.                                           *)
ReadsAny == TRUE                                                   \* mutant
Reads == Modes[next] \in modes

disable_via_env ==
  /\ pc = "modes" /\ next <= Len(Modes)
  /\ next' = next + 1
  /\ IF Reads
     THEN \E value \in {"unset", "0", "1", "other"} :
            /\ asked' = [m \in DOMAIN asked \cup {Modes[next]} |->
                           IF m = Modes[next] THEN value ELSE asked[m]]
            /\ modes' = IF value = "1" THEN modes \ {Modes[next]} ELSE modes
            /\ IF value = "other" THEN End("exited") ELSE Go("modes")
     ELSE UNCHANGED <<asked, modes>> /\ Go("modes")
  /\ UNCHANGED <<build, foreign, initialStoreSize, numBins, factor, newcap>>

(* strtoul(): a minus sign negates the word; what does not fit is ERANGE.  *)
InRange(n) == n < WORDS /\ -n < WORDS

getenv_size ==
  /\ pc = "modes" /\ next > Len(Modes)
  /\ \/ Go("environ") /\ UNCHANGED initialStoreSize                \* unset
     \/ End("exited") /\ UNCHANGED initialStoreSize                \* not a number
     \/ \E n \in SizeInputs :
          IF InRange(n) THEN initialStoreSize' = Word(n) /\ Go("environ")
          ELSE End("exited") /\ UNCHANGED initialStoreSize
  /\ UNCHANGED <<environment, next, modes, numBins, factor, newcap>>

is_allowed_env_var(v) == v # "SHADOWHEAP_X"

check_environ ==
  /\ pc = "environ"
  /\ IF \A v \in foreign : is_allowed_env_var(v) THEN Go("data") ELSE End("exited")
  /\ UNCHANGED <<environment, next, modes, initialStoreSize, numBins, factor, newcap>>

-----------------------------------------------------------------------------
(* data.ensure_initialized(): new store and, for a size, ensure_capacity().*)
capacity == numBins * ENTRIES_PER_BIN

StoreMade ==
  /\ numBins' = IF "PTR" \in build THEN InitialBins ELSE 0
  /\ IF "PTR" \in build /\ initialStoreSize > capacity'
     THEN factor' = 2 /\ newcap' = 2 * capacity' /\ Go("grow")
     ELSE UNCHANGED <<factor, newcap>> /\ Go("probe")

(* There may not be enough memory for the first bins.                      *)
new_store ==
  /\ pc = "data"
  /\ \/ StoreMade
     \/ "PTR" \in build /\ End("aborted") /\ UNCHANGED <<numBins, factor, newcap>>
  /\ UNCHANGED <<environment, next, modes, initialStoreSize>>

TooSmallByFactor == initialStoreSize > 2 * newcap                  \* mutant
TooSmall == initialStoreSize > newcap

newcapStays == newcap                                              \* mutant
newcapDoubled == Word(2 * newcap)

grow ==
  /\ pc = "grow"
  /\ IF TooSmall
     THEN /\ factor' \in {Signed(2 * factor), Word(2 * factor)}
          /\ newcap' = newcapDoubled
          /\ Go("grow")
     ELSE UNCHANGED <<factor, newcap>> /\ Go("double")
  /\ UNCHANGED <<environment, next, modes, initialStoreSize, numBins>>

(* reserve_double(): the assertion, then resize(), which throws or aborts  *)
(* when there is not that much memory.                                     *)
newsize == Word(factor * numBins)

reserve_double ==
  /\ pc = "double"
  /\ \/ newsize <= numBins /\ End("assert_failed") /\ UNCHANGED numBins
     \/ newsize > numBins /\ newsize <= MaxBins /\ numBins' = newsize /\ Go("probe")
     \/ newsize > numBins /\ End("aborted") /\ UNCHANGED numBins
  /\ UNCHANGED <<environment, next, modes, initialStoreSize, factor, newcap>>

-----------------------------------------------------------------------------
(* leak.ensure_initialized() ends or aborts, see LeakProbe; then the tcache*)
(* mode goes if the leak mode is off.                                      *)
SettledAll == modes                                                \* mutant
Settled == IF "LEAK" \in modes THEN modes ELSE modes \ {"TCA"}

probe ==
  /\ pc = "probe"
  /\ \/ End("ready") /\ modes' = Settled
     \/ End("aborted") /\ UNCHANGED modes
  /\ UNCHANGED <<environment, next, initialStoreSize, numBins, factor, newcap>>

Next == disable_via_env \/ getenv_size \/ check_environ \/ new_store \/ grow
        \/ reserve_double \/ probe

Spec == Init /\ [][Next]_vars

(* A constructor runs in one thread that nothing in it makes wait.         *)
FairSpec == Spec /\ WF_vars(Next)

-----------------------------------------------------------------------------
(* Sizes are words, negative numbers included.                             *)
TypeOK ==
  /\ build \in Builds /\ modes \subseteq build
  /\ DOMAIN asked \subseteq build
  /\ initialStoreSize \in 0..WORDS - 1 /\ newcap \in 0..WORDS - 1
  /\ numBins \in 0..MaxBins
  /\ pc \in {"modes", "environ", "data", "grow", "double", "probe", "done"}
  /\ status \in {"starting", "ready", "exited", "aborted", "assert_failed"}

(* A library that starts has every mode on that it was compiled with and   *)
(* that was not switched off, but for the tcache's, which needs the leak.  *)
ModesAsAsked ==
  status = "ready" =>
    /\ DOMAIN asked = build
    /\ modes = {m \in build :
                  /\ asked[m] # "1"
                  /\ m = "TCA" => "LEAK" \in build /\ asked["LEAK"] # "1"}

(* The table then has a slot for as many chunks as were asked for, the     *)
(* number of its bins is a power of two, as get_bin() needs it, and it is  *)
(* not larger than that takes, however the overflow of the factor went.    *)
StoreLargeEnough ==
  status = "ready" /\ "PTR" \in build =>
    /\ capacity >= initialStoreSize
    /\ IsPowerOfTwo(numBins)
    /\ numBins # InitialBins => initialStoreSize > capacity \div 2

(* "ShadowHeap: ERROR" or ready: the constructor ends.                     *)
StartupEnds == <>(status # "starting")

(* CachedMetaStore.h:116: the table that grows becomes larger.             *)
GrowthAssertion == status # "assert_failed"

(* ModeReader.h:185: no variable that "starts with SHADOWHEAP" other   *)
(* than the six is accepted.                                               *)
ForeignNamesRefused ==
  status = "ready" => foreign \cap {"SHADOWHEAPX", "SHADOWHEAP_X"} = {}
=============================================================================
