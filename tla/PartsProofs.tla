---------------------------- MODULE PartsProofs ----------------------------
(***************************************************************************)
(* Proofs about three of the parts that share no state: how much realloc() *)
(* copies, for every request; the modes that the constructor settles and   *)
(* the store it makes, for every environment, build and width of the       *)
(* types; and the results that the driver of the experiments keeps, for    *)
(* every set of experiments.  A behaviour of the parts is one of a single  *)
(* part, so an invariant of one is carried by the steps of that part.      *)
(***************************************************************************)
EXTENDS MCParts, Sequences, WellFoundedInduction, TLAPS

(* What is known of a chunk that was allocated for req bytes.              *)
Fitting(req, z) ==
  /\ z \in Nat
  /\ useable_size(z) \in Nat
  /\ useable_size(z) >= req

(* A heap chunk serves the request it was made for, whatever flags glibc   *)
(* puts in its header.                                                     *)
LEMMA HeapChunkFits ==
  ASSUME NEW req \in Nat \ {0}, NEW f \in {0, 1, 4, 5}
  PROVE  Fitting(req, request2size(req) + f)
<1> DEFINE n == request2size(req)
<1>1. n \in Nat /\ n % 16 = 0 /\ n >= req + 8
  BY DEF request2size, AlignUp, MINSIZE, MALLOC_ALIGNMENT, SIZE_SZ
<1> HIDE DEF n
<1>2. flags(n + f) = f
  BY <1>1 DEF flags, SIZE_BITS, PREV_INUSE, IS_MMAPPED, NON_MAIN_ARENA
<1>3. useable_size(n + f) = n - 8
  BY <1>1, <1>2 DEF useable_size, is_mmapped, chunksize, SIZE_SZ
<1>4. Fitting(req, n + f)
  BY <1>1, <1>3 DEF Fitting
<1> QED
  BY <1>4 DEF n

(* So does an mmapped chunk, which has two words of overhead.              *)
LEMMA MmappedChunkFits ==
  ASSUME NEW req \in Nat \ {0}
  PROVE  Fitting(req, AlignUp(request2size(req) + SIZE_SZ, PAGE) + IS_MMAPPED)
<1> DEFINE n == request2size(req)
           z == AlignUp(n + SIZE_SZ, PAGE)
<1>1. n \in Nat /\ n >= req + 8
  BY DEF request2size, AlignUp, MINSIZE, MALLOC_ALIGNMENT, SIZE_SZ
<1> HIDE DEF n
<1>2. z \in Nat /\ z % 8 = 0 /\ z >= n + 8
  BY <1>1 DEF AlignUp, SIZE_SZ, PAGE
<1> HIDE DEF z
<1>3. flags(z + 2) = 2
  BY <1>2 DEF flags, SIZE_BITS, PREV_INUSE, IS_MMAPPED, NON_MAIN_ARENA
<1>4. useable_size(z + 2) = z - 16
  BY <1>2, <1>3 DEF useable_size, is_mmapped, chunksize, SIZE_SZ
<1> QED
  BY <1>1, <1>2, <1>4 DEF Fitting, z, n, IS_MMAPPED

(* Every raw size glibc may choose for a request serves that request.      *)
LEMMA EveryChunkFits ==
  ASSUME NEW req \in Nat \ {0}, NEW z \in RawSizesFor(req)
  PROVE  Fitting(req, z)
<1>1. CASE \E f \in {0, 1, 4, 5} : z = request2size(req) + f
  BY <1>1, HeapChunkFits
<1>2. CASE z = AlignUp(request2size(req) + SIZE_SZ, PAGE) + IS_MMAPPED
  BY <1>2, MmappedChunkFits
<1> QED
  BY <1>1, <1>2 DEF RawSizesFor, PREV_INUSE, NON_MAIN_ARENA

-----------------------------------------------------------------------------
CopyInv ==
  /\ asked \in Nat \ {0} /\ Fitting(asked, size)
  /\ len \in Nat /\ (len # 0 => len = asked)
  /\ len # 0 => oldasked \in Nat \ {0} /\ Fitting(oldasked, oldsize)

(* A request that is served keeps what is known of both chunks.            *)
LEMMA CopyInit == Init => CopyInv
BY CopyAssumption, EveryChunkFits DEF Init, CopyInv

(* The new chunk fits its request, the old one has been fitting.           *)
LEMMA CopyStep ==
  ASSUME CopyInv, Next
  PROVE  CopyInv'
<1>1. PICK req \in Requests : malloc_memcpy_free_approach(req)
  BY DEF Next
<1>2. req \in Nat \ {0} /\ Fitting(req, size')
  BY <1>1, CopyAssumption, EveryChunkFits DEF malloc_memcpy_free_approach
<1>3. Fitting(oldasked', oldsize') /\ oldasked' \in Nat \ {0}
  BY <1>1 DEF malloc_memcpy_free_approach, CopyInv
<1> QED
  BY <1>1, <1>2, <1>3 DEF malloc_memcpy_free_approach, CopyInv

(* Two chunks that fit their requests are large enough for the copy.       *)
LEMMA CopyMeans ==
  ASSUME CopyInv
  PROVE  CopyFits /\ CopyKeepsData
<1>1. CopyFits
  BY DEF CopyInv, CopyFits, Moved, copy_this_much, Fitting
<1>2. CopyKeepsData
  BY DEF CopyInv, CopyKeepsData, Moved, copy_this_much, Fitting
<1> QED BY <1>1, <1>2

-----------------------------------------------------------------------------
(* Startup.  The modes already read are the ones with a number below next. *)
WasRead(m) == \E i \in 1..5 : Start!Modes[i] = m /\ i < next

(* The modes that are compiled in and not switched off so far.             *)
Kept == {m \in build : ~(m \in DOMAIN asked /\ asked[m] = "1")}

StartInv ==
  /\ build \subseteq Start!ModeSet /\ next \in 1..6
  /\ asked = [m \in DOMAIN asked |-> asked[m]]
  /\ DOMAIN asked = {m \in build : WasRead(m)}
  /\ pc \notin {"modes", "done"} => next = 6
  /\ status = "starting" => modes = Kept
  /\ status = "ready" =>
       next = 6 /\ modes = IF "LEAK" \in Kept THEN Kept ELSE Kept \ {"TCA"}
  /\ pc # "done" => status = "starting"

(* The five modes, each once.                                              *)
LEMMA FiveModes ==
  /\ Len(Start!Modes) = 5 /\ Start!ModeSet = {Start!Modes[i] : i \in 1..5}
  /\ Start!ModeSet = {"PTR", "USB", "TOP", "LEAK", "TCA"}
  /\ \A i, j \in 1..5 : Start!Modes[i] = Start!Modes[j] => i = j
<1>1. Len(Start!Modes) = 5 /\ DOMAIN Start!Modes = 1..5
  BY DEF Start!Modes
<1>2. /\ Start!Modes[1] = "PTR" /\ Start!Modes[2] = "USB" /\ Start!Modes[3] = "TOP"
      /\ Start!Modes[4] = "LEAK" /\ Start!Modes[5] = "TCA"
  BY DEF Start!Modes
<1> QED BY <1>1, <1>2 DEF Start!ModeSet

(* Before the first variable is read all modes are on.                     *)
LEMMA StartInit == Start!Init => StartInv
<1>1. SUFFICES ASSUME Start!Init PROVE StartInv
  OBVIOUS
<1>2. build \subseteq Start!ModeSet
  BY <1>1, PartsAssumption DEF Start!Init, Start!StartupConstants
<1>3. DOMAIN asked = {} /\ asked = [m \in {} |-> "unset"]
  BY <1>1 DEF Start!Init
<1>4. \A m : ~WasRead(m)
  BY <1>1 DEF Start!Init, WasRead
<1>5. modes = Kept
  BY <1>1, <1>3 DEF Start!Init, Kept
<1> QED BY <1>1, <1>2, <1>3, <1>4, <1>5 DEF Start!Init, StartInv

(* One variable is read.                                                   *)
LEMMA ReadStep ==
  ASSUME StartInv, Start!disable_via_env
  PROVE  StartInv'
<1> DEFINE m == Start!Modes[next]
<1>1. /\ pc = "modes" /\ next \in 1..5 /\ next' = next + 1 /\ next' \in 1..6
      /\ build' = build /\ status = "starting"
  BY FiveModes DEF Start!disable_via_env, StartInv
<1>2. m \in Start!ModeSet
  BY <1>1, FiveModes
<1>3. \A x : WasRead(x)' <=> WasRead(x) \/ x = m
  BY <1>1 DEF WasRead
<1>4. ~WasRead(m)
  BY <1>1, FiveModes DEF WasRead
<1>5. modes = Kept /\ (m \in modes <=> m \in build)
  BY <1>1, <1>4 DEF StartInv, Kept
<1> HIDE DEF m
<1>6. CASE m \in modes
  <2>1. PICK value \in {"unset", "0", "1", "other"} :
          /\ asked' = [x \in DOMAIN asked \cup {m} |-> IF x = m THEN value ELSE asked[x]]
          /\ modes' = IF value = "1" THEN modes \ {m} ELSE modes
          /\ IF value = "other" THEN Start!End("exited") ELSE Start!Go("modes")
    BY <1>6 DEF Start!disable_via_env, Start!Reads, m
  <2>2. DOMAIN asked' = {x \in build' : WasRead(x)'}
    BY <1>1, <1>3, <1>5, <1>6, <2>1 DEF StartInv
  <2>3. asked' = [x \in DOMAIN asked' |-> asked'[x]]
    BY <2>1
  <2>4. modes' = Kept'
    BY <1>1, <1>4, <1>5, <1>6, <2>1 DEF StartInv, Kept
  <2>5. /\ pc' \in {"modes", "done"} /\ status' \in {"starting", "exited"}
        /\ (pc' # "done" => status' = "starting")
    BY <1>1, <2>1 DEF Start!End, Start!Go
  <2> QED BY <1>1, <2>2, <2>3, <2>4, <2>5 DEF StartInv
<1>7. CASE m \notin modes
  <2>1. UNCHANGED <<asked, modes, status>> /\ pc' = "modes"
    BY <1>7 DEF Start!disable_via_env, Start!Reads, Start!Go, m
  <2>2. DOMAIN asked' = {x \in build' : WasRead(x)'}
    BY <1>1, <1>3, <1>5, <1>7, <2>1 DEF StartInv
  <2>3. modes' = Kept'
    BY <1>1, <1>5, <2>1 DEF Kept
  <2> QED BY <1>1, <2>1, <2>2, <2>3 DEF StartInv
<1> QED BY <1>6, <1>7

(* The steps between the modes and the probe leave the modes alone.        *)
LEMMA QuietStep ==
  ASSUME StartInv,
         \/ Start!getenv_size \/ Start!check_environ \/ Start!new_store
         \/ Start!grow \/ Start!reserve_double
  PROVE  StartInv'
<1>1. /\ UNCHANGED <<build, asked, next, modes>> /\ next = 6 /\ status = "starting"
      /\ pc' # "modes" /\ status' # "ready" /\ (pc' # "done" => status' = "starting")
  <2>1. next \in 1..6 /\ (pc \notin {"modes", "done"} => next = 6)
        /\ (pc # "done" => status = "starting")
    BY DEF StartInv
  <2>2. CASE Start!getenv_size
    BY <2>1, <2>2, FiveModes DEF Start!getenv_size, Start!Go, Start!End, Start!environment
  <2>3. CASE Start!check_environ
    BY <2>1, <2>3 DEF Start!check_environ, Start!Go, Start!End, Start!environment
  <2>4. CASE Start!new_store
    BY <2>1, <2>4 DEF Start!new_store, Start!StoreMade, Start!End, Start!Go, Start!environment
  <2>5. CASE Start!grow
    BY <2>1, <2>5 DEF Start!grow, Start!Go, Start!environment
  <2>6. CASE Start!reserve_double
    BY <2>1, <2>6 DEF Start!reserve_double, Start!Go, Start!End, Start!environment
  <2> QED BY <2>2, <2>3, <2>4, <2>5, <2>6
<1>2. Kept' = Kept /\ \A x : WasRead(x)' <=> WasRead(x)
  BY <1>1 DEF Kept, WasRead
<1> QED BY <1>1, <1>2 DEF StartInv

(* The probe settles the modes.                                            *)
LEMMA ProbeStep ==
  ASSUME StartInv, Start!probe
  PROVE  StartInv'
<1>1. /\ UNCHANGED <<build, asked, next>> /\ next = 6 /\ status = "starting" /\ modes = Kept
      /\ pc' = "done"
      /\ \/ status' = "ready" /\ modes' = Start!Settled
         \/ status' = "aborted" /\ modes' = modes
  BY DEF StartInv, Start!probe, Start!End, Start!environment
<1>2. Kept' = Kept /\ \A x : WasRead(x)' <=> WasRead(x)
  BY <1>1 DEF Kept, WasRead
<1> QED BY <1>1, <1>2 DEF StartInv, Start!Settled

(* Every step of the constructor keeps the invariant.                      *)
LEMMA StartStep ==
  ASSUME StartInv, Start!Next
  PROVE  StartInv'
BY ReadStep, QuietStep, ProbeStep DEF Start!Next

(* The invariant implies what the runs check.                              *)
LEMMA StartMeans ==
  ASSUME StartInv
  PROVE  Start!ModesAsAsked
<1>1. SUFFICES ASSUME status = "ready"
               PROVE  /\ DOMAIN asked = build
                      /\ modes = {m \in build :
                                    /\ asked[m] # "1"
                                    /\ m = "TCA" => "LEAK" \in build /\ asked["LEAK"] # "1"}
  BY DEF Start!ModesAsAsked
<1>2. next = 6 /\ modes = IF "LEAK" \in Kept THEN Kept ELSE Kept \ {"TCA"}
  BY <1>1 DEF StartInv
<1>3. \A m \in build : WasRead(m)
  BY <1>2, FiveModes DEF StartInv, WasRead
<1>4. DOMAIN asked = build
  BY <1>3 DEF StartInv
<1>5. Kept = {m \in build : asked[m] # "1"}
  BY <1>4 DEF Kept
<1> QED BY <1>2, <1>4, <1>5

-----------------------------------------------------------------------------
(* Powers of two, known by their divisors.                                 *)
Pow2(n) == Start!IsPowerOfTwo(n)

(* A product of positive numbers is no smaller than its factors.           *)
LEMMA Factors ==
  ASSUME NEW x \in Nat \ {0}, NEW y \in Nat \ {0}
  PROVE  x * y \in Nat \ {0} /\ x <= x * y /\ y <= x * y
OBVIOUS

(* What is left over by a division.                                        *)
LEMMA Division ==
  ASSUME NEW x \in Nat, NEW d \in Nat \ {0}
  PROVE  /\ x % d = 0 => x \div d \in Nat /\ x = d * (x \div d)
         /\ \A q \in Nat : x = d * q => x % d = 0
<1>1. x \div d \in Nat /\ x = d * (x \div d) + (x % d)
  OBVIOUS
<1>2. ASSUME NEW q \in Nat PROVE (d * q + 0) % d = 0
  OBVIOUS
<1>3. ASSUME NEW q \in Nat, x = d * q PROVE x % d = 0
  <2>1. x = d * q + 0
    BY <1>3
  <2> QED BY <1>2, <2>1
<1> QED BY <1>1, <1>3

(* A set of numbers has a least one.                                       *)
LEMMA LeastNumber ==
  ASSUME NEW S \in SUBSET Nat, S # {}
  PROVE  \E n \in S : \A m \in S : n <= m
<1> DEFINE R == {ss \in Nat \X Nat : ss[1] < ss[2]}
<1>1. IsWellFoundedOn(R, Nat)
  BY NatLessThanWellFounded, Zenon DEF OpToRel
<1>2. PICK n \in S : \A m \in S : ~ (<<m, n>> \in R)
  <2> HIDE DEF R
  <2> QED
    BY WFMin, <1>1, Zenon
<1>3. \A m \in S : ~(m < n)
  BY <1>2
<1> QED
  BY <1>3

(* An odd divisor of twice a number divides the number.                    *)
LEMMA OddDivides ==
  ASSUME NEW n \in Nat, NEW d \in Nat, d % 2 = 1, (2 * n) % d = 0
  PROVE  n % d = 0
<1>1. d \in Nat \ {0} /\ 2 * n \in Nat
  OBVIOUS
<1>2. PICK q \in Nat : 2 * n = d * q
  BY <1>1, Division
<1>3. PICK k \in Nat : d = 2 * k + 1
  <2>1. d = 2 * (d \div 2) + 1 /\ d \div 2 \in Nat
    OBVIOUS
  <2> QED BY <2>1
<1>4. d * q = 2 * (k * q) + q /\ k * q \in Nat
  BY <1>3
<1>5. PICK r \in Nat : q = 2 * r
  <2> DEFINE p == k * q
             r == n - p
  <2>1. p \in Nat /\ 2 * n = 2 * p + q
    BY <1>2, <1>4
  <2> HIDE DEF p
  <2>2. r \in Nat /\ q = 2 * r
    BY <2>1
  <2> QED BY <2>2
<1>6. d * q = 2 * (d * r) /\ d * r \in Nat
  BY <1>5
<1>7. n = d * r
  <2> DEFINE p == d * r
  <2>1. 2 * n = 2 * p /\ p \in Nat
    BY <1>2, <1>6
  <2> HIDE DEF p
  <2>2. n = p
    BY <2>1
  <2> QED BY <2>2 DEF p
<1> QED BY <1>1, <1>7, Division

(* Twice a power of two is one.                                            *)
LEMMA Pow2Double ==
  ASSUME NEW n \in Nat, Pow2(n)
  PROVE  Pow2(2 * n)
<1>1. n # 0 /\ \A d \in 2..n : n % d = 0 => d % 2 = 0
  BY DEF Pow2, Start!IsPowerOfTwo
<1>2. SUFFICES ASSUME NEW d \in 2..2 * n, (2 * n) % d = 0
               PROVE  d % 2 = 0
  BY <1>1 DEF Pow2, Start!IsPowerOfTwo
<1>3. SUFFICES ASSUME d % 2 = 1 PROVE FALSE
  OBVIOUS
<1>4. d \in Nat /\ n % d = 0
  <2>1. d \in Nat
    OBVIOUS
  <2> QED BY <1>2, <1>3, <2>1, OddDivides
<1>5. d <= n
  BY <1>1, <1>4
<1> QED BY <1>1, <1>3, <1>4, <1>5

(* A power of two is 1 or twice another.                                   *)
LEMMA Pow2Half ==
  ASSUME NEW n \in Nat, Pow2(n), n # 1
  PROVE  \E m \in Nat : Pow2(m) /\ n = 2 * m /\ m < n
<1>1. n # 0 /\ \A d \in 2..n : n % d = 0 => d % 2 = 0
  BY DEF Pow2, Start!IsPowerOfTwo
<1>2. n % 2 = 0
  BY <1>1
<1> DEFINE m == n \div 2
<1>3. m \in Nat \ {0} /\ n = 2 * m /\ m < n
  BY <1>1, <1>2
<1> HIDE DEF m
<1>4. ASSUME NEW d \in 2..m, m % d = 0
      PROVE  d % 2 = 0
  <2>1. d \in Nat \ {0} /\ d \in 2..n
    BY <1>3
  <2>2. PICK q \in Nat : m = d * q
    BY <1>3, <1>4, <2>1, Division
  <2>3. n = d * (2 * q) /\ 2 * q \in Nat
    BY <1>3, <2>1, <2>2
  <2>4. n % d = 0
    BY <2>1, <2>3, Division
  <2> QED BY <1>1, <2>1, <2>4
<1>5. Pow2(m)
  BY <1>3, <1>4 DEF Pow2, Start!IsPowerOfTwo
<1> QED BY <1>3, <1>5

(* A power of two divides the larger ones.                                 *)
LEMMA Pow2Divides ==
  ASSUME NEW x \in Nat, NEW y \in Nat, Pow2(x), Pow2(y), x <= y
  PROVE  \E k \in Nat : y = k * x
<1> DEFINE Fails(u, v) == Pow2(u) /\ Pow2(v) /\ u <= v /\ \A k \in Nat : v # k * u
           S == {u \in Nat : \E v \in Nat : Fails(u, v)}
<1>1. SUFFICES ASSUME S # {} PROVE FALSE
  OBVIOUS
<1>2. PICK u \in S : \A w \in S : u <= w
  <2>1. S \in SUBSET Nat
    OBVIOUS
  <2> HIDE DEF S
  <2> QED BY <1>1, <2>1, LeastNumber
<1>3. PICK v \in Nat : Fails(u, v)
  BY <1>2
<1>4. CASE u = 1
  BY <1>3, <1>4
<1>5. CASE u # 1
  <2>1. PICK u2 \in Nat : Pow2(u2) /\ u = 2 * u2 /\ u2 < u
    BY <1>3, <1>5, Pow2Half
  <2>2. v # 1
    BY <1>3, <1>5, <2>1
  <2>3. PICK v2 \in Nat : Pow2(v2) /\ v = 2 * v2 /\ v2 < v
    BY <1>3, <2>2, Pow2Half
  <2>4. u2 <= v2
    BY <1>3, <2>1, <2>3
  <2>5. ~Fails(u2, v2)
    BY <1>2, <2>1, <2>3
  <2>6. PICK k \in Nat : v2 = k * u2
    BY <2>1, <2>3, <2>4, <2>5
  <2>7. v = k * u
    BY <2>1, <2>3, <2>6
  <2> QED BY <1>3, <2>7
<1> QED BY <1>4, <1>5

(* So the next one is at least twice as large.                             *)
LEMMA Pow2Gap ==
  ASSUME NEW x \in Nat, NEW y \in Nat, Pow2(x), Pow2(y), x < y
  PROVE  2 * x <= y
<1>1. PICK k \in Nat : y = k * x
  BY Pow2Divides
<1>2. k # 0 /\ k # 1
  BY <1>1
<1>3. k >= 2
  BY <1>2
<1>4. k * x = 2 * x + (k - 2) * x /\ (k - 2) * x \in Nat
  BY <1>3
<1> QED BY <1>1, <1>4

(* A product of powers of two is one.                                      *)
LEMMA Pow2Product ==
  ASSUME NEW x \in Nat, NEW y \in Nat, Pow2(x), Pow2(y)
  PROVE  Pow2(x * y)
<1> DEFINE S == {u \in Nat : Pow2(u) /\ ~Pow2(u * y)}
<1>1. SUFFICES ASSUME S # {} PROVE FALSE
  OBVIOUS
<1>2. PICK u \in S : \A w \in S : u <= w
  <2>1. S \in SUBSET Nat
    OBVIOUS
  <2> HIDE DEF S
  <2> QED BY <1>1, <2>1, LeastNumber
<1>3. u # 1
  BY <1>2
<1>4. PICK u2 \in Nat : Pow2(u2) /\ u = 2 * u2 /\ u2 < u
  BY <1>2, <1>3, Pow2Half
<1>5. Pow2(u2 * y) /\ u2 * y \in Nat
  BY <1>2, <1>4
<1>6. u * y = 2 * (u2 * y)
  BY <1>4
<1> QED BY <1>2, <1>5, <1>6, Pow2Double

(* What is left of a power of two in a type with as many values as another *)
(* one, and of its negative.                                               *)
LEMMA Pow2Wraps ==
  ASSUME NEW x \in Nat, NEW w \in Nat, Pow2(x), Pow2(w)
  PROVE  /\ x < w => x % w = x /\ (0 - x) % w = w - x
         /\ x >= w => x % w = 0 /\ (0 - x) % w = 0
<1>1. w # 0 /\ x # 0
  BY DEF Pow2, Start!IsPowerOfTwo
<1>2. CASE x < w
  BY <1>1, <1>2
<1>3. CASE x >= w
  <2>1. PICK k \in Nat : x = k * w
    BY <1>3, Pow2Divides
  <2>2. x % w = 0 /\ (0 - x) % w = 0
    BY <1>1, <2>1
  <2> QED BY <1>3, <2>2
<1> QED BY <1>2, <1>3

(* The same below a multiple of the number of values.                      *)
LEMMA Pow2WrapsBelow ==
  ASSUME NEW x \in Nat, NEW w \in Nat, NEW k \in Nat, Pow2(x), Pow2(w), x <= k * w
  PROVE  (k * w - x) % w = IF x < w THEN w - x ELSE 0
<1>1. w \in Nat \ {0} /\ x # 0 /\ k * w \in Nat
  BY DEF Pow2, Start!IsPowerOfTwo
<1>2. CASE x < w
  <2>1. PICK j \in Nat : k = j + 1
    <3>1. k # 0
      BY <1>1
    <3>2. k - 1 \in Nat /\ k = (k - 1) + 1
      BY <3>1
    <3> QED BY <3>2
  <2>2. k * w - x = w * j + (w - x) /\ w - x \in 0..w - 1
    BY <1>1, <1>2, <2>1
  <2>3. \A r \in 0..w - 1 : (w * j + r) % w = r
    BY <1>1
  <2> QED BY <1>2, <2>2, <2>3
<1>3. CASE x >= w
  <2>1. PICK j \in Nat : x = j * w
    BY <1>3, Pow2Divides
  <2>2. j <= k
    <3>1. SUFFICES ASSUME k < j PROVE FALSE
      BY <2>1
    <3>2. j * w = k * w + (j - k) * w
      BY <1>1, <2>1
    <3>3. (j - k) * w >= w
      BY <1>1, <2>1, <3>1, Factors
    <3> QED BY <1>1, <2>1, <3>2, <3>3
  <2>3. k - j \in Nat /\ k * w - x = w * (k - j)
    BY <1>1, <2>1, <2>2
  <2>4. (k * w - x) % w = 0
    <3> DEFINE z == k * w - x
               q == k - j
    <3>1. z \in Nat /\ q \in Nat /\ z = w * q
      BY <1>1, <2>3
    <3> HIDE DEF z, q
    <3>2. z % w = 0
      BY <1>1, <3>1, Division
    <3> QED BY <3>2 DEF z
  <2> QED BY <1>3, <2>4
<1> QED BY <1>2, <1>3

-----------------------------------------------------------------------------
(* The store of the size asked for.  While the new capacity is looked for, *)
(* it is 0 or that of a number n of bins that is a power of two and less   *)
(* than twice too large; and the factor leads to n, or has overflowed and  *)
(* leads to a size that is refused: to 0, or to one short of what a size_t *)
(* can hold by at most half of it.                                         *)
FactorFor(n) ==
  \/ factor = 0
  \/ factor = 0 - (INTS \div 2)
  \/ factor \in Nat /\ Pow2(factor) /\ factor * InitialBins = n
  \/ \E p \in Nat : Pow2(p) /\ INTS <= p /\ p < WORDS /\ factor = WORDS - p

Wanted(n) ==
  /\ Pow2(n) /\ newcap = n * ENTRIES_PER_BIN /\ newcap < WORDS
  /\ newcap < 2 * initialStoreSize /\ FactorFor(n)

Growing ==
  /\ numBins = InitialBins /\ initialStoreSize > InitialBins * ENTRIES_PER_BIN
  /\ factor \in Int
  /\ newcap # 0 => \E n \in Nat : Wanted(n)

RightSize ==
  /\ Start!capacity >= initialStoreSize
  /\ Pow2(numBins)
  /\ numBins # InitialBins => initialStoreSize > Start!capacity \div 2

StoreInv ==
  /\ Start!TypeOK
  /\ pc \in {"grow", "double"} => "PTR" \in build /\ Growing
  /\ pc = "double" => initialStoreSize <= newcap
  /\ (pc = "probe" \/ status = "ready") /\ "PTR" \in build => RightSize

(* What is assumed of the numbers.                                         *)
LEMMA Widths ==
  /\ WORDS \in Nat \ {0} /\ INTS \in Nat \ {0} /\ INTS \in 2..WORDS
  /\ Pow2(WORDS) /\ Pow2(INTS)
  /\ ENTRIES_PER_BIN \in Nat \ {0} /\ Pow2(ENTRIES_PER_BIN)
  /\ InitialBins \in Nat \ {0} /\ Pow2(InitialBins)
  /\ MaxBins \in Nat /\ 2 * MaxBins < WORDS /\ InitialBins <= MaxBins
  /\ 2 * InitialBins * ENTRIES_PER_BIN < WORDS
  /\ SizeInputs \subseteq Int
BY PartsAssumption DEF Start!StartupConstants, Pow2, Start!IsPowerOfTwo

(* A word is one.                                                          *)
LEMMA WordRange ==
  ASSUME NEW x \in Int
  PROVE  Start!Word(x) \in 0..WORDS - 1
BY Widths DEF Start!Word

(* Half of the values of an int.                                           *)
LEMMA HalfInts ==
  \E m \in Nat : Pow2(m) /\ INTS = 2 * m /\ INTS \div 2 = m /\ m < INTS
<1>1. INTS \in Nat /\ Pow2(INTS) /\ INTS # 1
  BY Widths
<1>2. PICK m \in Nat : Pow2(m) /\ INTS = 2 * m /\ m < INTS
  BY <1>1, Pow2Half
<1>3. INTS \div 2 = m
  BY <1>2
<1> QED BY <1>2, <1>3

(* The factor that was doubled fits twice as many bins.                    *)
LEMMA FactorDoubles ==
  ASSUME NEW n \in Nat, Pow2(n), FactorFor(n), (2 * n) * ENTRIES_PER_BIN < WORDS,
         factor' \in {Start!Signed(2 * factor), Start!Word(2 * factor)}
  PROVE  FactorFor(2 * n)'
<1> USE Widths
<1>1. \A x \in Int : Start!Signed(x) = IF 2 * (x % INTS) < INTS THEN x % INTS ELSE (x % INTS) - INTS
  BY DEF Start!Signed
<1>2. CASE factor = 0
  <2>1. 0 % INTS = 0 /\ 0 % WORDS = 0 /\ 2 * factor = 0
    BY <1>2
  <2>2. Start!Signed(2 * factor) = 0 /\ Start!Word(2 * factor) = 0
    BY <1>1, <2>1 DEF Start!Word
  <2> QED BY <2>2 DEF FactorFor
<1>3. CASE factor = 0 - (INTS \div 2)
  <2>1. 2 * factor = 0 - INTS /\ 0 - INTS \in Int
    BY <1>3, HalfInts
  <2>2. (0 - INTS) % INTS = 0
    BY Pow2Wraps
  <2>3. Start!Signed(2 * factor) = 0
    BY <1>1, <2>1, <2>2
  <2>4. Start!Word(2 * factor) = IF INTS < WORDS THEN WORDS - INTS ELSE 0
    BY <2>1, Pow2Wraps DEF Start!Word
  <2> QED BY <2>3, <2>4 DEF FactorFor
<1>4. CASE factor \in Nat /\ Pow2(factor) /\ factor * InitialBins = n
  <2> DEFINE f == 2 * factor
  <2>1. f \in Nat /\ Pow2(f) /\ f * InitialBins = 2 * n
    BY <1>4, Pow2Double
  <2> HIDE DEF f
  <2>2. f # 0 /\ f <= 2 * n /\ 2 * n <= (2 * n) * ENTRIES_PER_BIN
    <3>1. f # 0
      BY <2>1 DEF Pow2, Start!IsPowerOfTwo
    <3>2. f \in Nat \ {0} /\ f <= f * InitialBins /\ f * InitialBins \in Nat \ {0}
      BY <2>1, <3>1, Factors
    <3>3. 2 * n \in Nat \ {0}
      BY <2>1, <3>2
    <3> QED BY <2>1, <3>2, <3>3, Factors
  <2>3. Start!Word(f) = f
    <3>1. f < WORDS
      BY <2>1, <2>2
    <3> QED BY <2>1, <3>1, Pow2Wraps DEF Start!Word
  <2>4. Start!Signed(f) \in {0, f, 0 - (INTS \div 2)}
    <3>1. CASE f < INTS
      <4>1. f % INTS = f
        BY <2>1, <3>1, Pow2Wraps
      <4>2. 2 * f <= INTS
        BY <2>1, <3>1, Pow2Gap
      <4>3. PICK m \in Nat : INTS = 2 * m /\ INTS \div 2 = m
        BY HalfInts
      <4>4. CASE 2 * f < INTS
        BY <1>1, <2>1, <4>1, <4>4
      <4>5. CASE 2 * f = INTS
        <5>1. f = m /\ f - INTS = 0 - m
          BY <2>1, <4>3, <4>5
        <5> QED BY <1>1, <2>1, <4>1, <4>3, <4>5, <5>1
      <4> QED BY <2>1, <4>2, <4>4, <4>5
    <3>2. CASE f >= INTS
      <4>1. f % INTS = 0
        BY <2>1, <3>2, Pow2Wraps
      <4> QED BY <1>1, <2>1, <4>1
    <3> QED BY <2>1, <3>1, <3>2
  <2>5. factor' \in {0, f, 0 - (INTS \div 2)}
    BY <2>3, <2>4 DEF f
  <2> QED BY <2>1, <2>5 DEF FactorFor
<1>5. CASE \E p \in Nat : Pow2(p) /\ INTS <= p /\ p < WORDS /\ factor = WORDS - p
  <2>1. PICK p \in Nat : Pow2(p) /\ INTS <= p /\ p < WORDS /\ factor = WORDS - p
    BY <1>5
  <2>2. 2 * p \in Nat /\ Pow2(2 * p) /\ 2 * p <= 2 * WORDS /\ 2 * factor = 2 * WORDS - 2 * p
        /\ 2 * factor \in Int /\ INTS <= 2 * p
    BY <2>1, Pow2Double
  <2>3. Start!Word(2 * factor) = IF 2 * p < WORDS THEN WORDS - 2 * p ELSE 0
    <3>1. (2 * WORDS - 2 * p) % WORDS = IF 2 * p < WORDS THEN WORDS - 2 * p ELSE 0
      BY <2>2, Pow2WrapsBelow
    <3> QED BY <2>2, <3>1 DEF Start!Word
  <2>4. (2 * factor) % INTS = 0
    <3>1. PICK j \in Nat : WORDS = j * INTS
      BY Pow2Divides
    <3>2. 2 * WORDS = (2 * j) * INTS /\ 2 * j \in Nat
      BY <3>1
    <3>3. ((2 * j) * INTS - 2 * p) % INTS = IF 2 * p < INTS THEN INTS - 2 * p ELSE 0
      BY <2>2, <3>2, Pow2WrapsBelow
    <3> QED BY <2>2, <3>2, <3>3
  <2>5. Start!Signed(2 * factor) = 0
    BY <1>1, <2>2, <2>4
  <2> QED BY <2>2, <2>3, <2>5 DEF FactorFor
<1> QED BY <1>2, <1>3, <1>4, <1>5 DEF FactorFor

(* A size that is not refused is the one that is wanted.                   *)
LEMMA NewSize ==
  ASSUME NEW n \in Nat, Wanted(n), numBins = InitialBins,
         Start!newsize > numBins, Start!newsize <= MaxBins
  PROVE  Start!newsize = n
<1> USE Widths
<1>1. Start!newsize = (factor * InitialBins) % WORDS
  BY DEF Start!newsize, Start!Word
<1>2. ASSUME NEW x \in Nat, Pow2(x), Start!newsize = IF x < WORDS THEN WORDS - x ELSE 0
      PROVE  FALSE
  <2>1. CASE x < WORDS
    <3>1. 2 * x <= WORDS
      BY <1>2, <2>1, Pow2Gap
    <3> QED BY <1>2, <2>1, <3>1
  <2>2. CASE x >= WORDS
    BY <1>2, <2>2
  <2> QED BY <1>2, <2>1, <2>2
<1>3. CASE factor = 0
  <2>1. factor * InitialBins = 0 /\ 0 % WORDS = 0
    BY <1>3
  <2> QED BY <1>1, <2>1
<1>4. CASE factor = 0 - (INTS \div 2)
  <2>1. PICK m \in Nat : Pow2(m) /\ INTS \div 2 = m
    BY HalfInts
  <2>2. m * InitialBins \in Nat /\ Pow2(m * InitialBins)
    BY <2>1, Pow2Product
  <2>3. factor * InitialBins = 0 - m * InitialBins
    BY <1>4, <2>1
  <2>4. Start!newsize = IF m * InitialBins < WORDS THEN WORDS - m * InitialBins ELSE 0
    BY <1>1, <2>2, <2>3, Pow2Wraps
  <2> QED BY <1>2, <2>2, <2>4
<1>5. CASE factor \in Nat /\ Pow2(factor) /\ factor * InitialBins = n
  <2>1. n # 0 /\ n <= n * ENTRIES_PER_BIN
    <3>1. n # 0
      BY DEF Wanted, Pow2, Start!IsPowerOfTwo
    <3> QED BY <3>1, Factors
  <2>2. n < WORDS
    BY <2>1 DEF Wanted
  <2>3. n % WORDS = n
    BY <2>2
  <2> QED BY <1>1, <1>5, <2>3
<1>6. CASE \E p \in Nat : Pow2(p) /\ INTS <= p /\ p < WORDS /\ factor = WORDS - p
  <2>1. PICK p \in Nat : Pow2(p) /\ p < WORDS /\ factor = WORDS - p
    BY <1>6
  <2>2. p * InitialBins \in Nat /\ Pow2(p * InitialBins)
    BY <2>1, Pow2Product
  <2>3. factor * InitialBins = InitialBins * WORDS - p * InitialBins
    BY <2>1
  <2>4. p * InitialBins <= InitialBins * WORDS
    <3>1. p * InitialBins <= WORDS * InitialBins
      BY <2>1
    <3> QED BY <3>1
  <2>5. Start!newsize = IF p * InitialBins < WORDS THEN WORDS - p * InitialBins ELSE 0
    BY <1>1, <2>2, <2>3, <2>4, Pow2WrapsBelow
  <2> QED BY <1>2, <2>2, <2>5
<1> QED BY <1>3, <1>4, <1>5, <1>6 DEF Wanted, FactorFor

-----------------------------------------------------------------------------
(* Every step of the constructor keeps what is known of the store.         *)
LEMMA StoreInit == Start!Init => StoreInv
BY Widths, FiveModes DEF Start!Init, StoreInv, Start!TypeOK, Start!StartupConstants

(* The types.                                                              *)
LEMMA StoreTypes ==
  ASSUME StoreInv, Start!Next
  PROVE  Start!TypeOK'
<1> USE DEF Start!TypeOK, Start!Go, Start!End, Start!environment
<1>1. Start!TypeOK
  BY DEF StoreInv
<1>2. CASE Start!disable_via_env
  <2>1. modes' \subseteq modes /\ DOMAIN asked' \subseteq DOMAIN asked \cup modes
    BY <1>2 DEF Start!disable_via_env, Start!Reads
  <2> QED BY <1>1, <1>2, <2>1 DEF Start!disable_via_env
<1>3. CASE Start!getenv_size
  BY <1>1, <1>3, Widths, WordRange DEF Start!getenv_size
<1>4. CASE Start!check_environ
  BY <1>1, <1>4 DEF Start!check_environ
<1>5. CASE Start!new_store
  BY <1>1, <1>5, Widths DEF Start!new_store, Start!StoreMade, Start!End, Start!capacity
<1>6. CASE Start!grow
  BY <1>1, <1>6, WordRange DEF Start!grow, Start!newcapDoubled
<1>7. CASE Start!reserve_double
  <2>1. factor * numBins \in Int
    BY <1>7, Widths DEF Start!reserve_double, StoreInv, Growing
  <2>2. Start!newsize \in 0..WORDS - 1
    <3> DEFINE x == factor * numBins
    <3>1. x \in Int
      BY <2>1
    <3> HIDE DEF x
    <3>2. Start!Word(x) \in 0..WORDS - 1
      BY <3>1, WordRange
    <3> QED BY <3>2 DEF Start!newsize, x
  <2> QED BY <1>1, <1>7, <2>2, Widths DEF Start!reserve_double
<1>8. CASE Start!probe
  BY <1>1, <1>8 DEF Start!probe, Start!Settled
<1> QED BY <1>2, <1>3, <1>4, <1>5, <1>6, <1>7, <1>8 DEF Start!Next

(* A new store has the capacity it starts with, and grows if that is too   *)
(* little.                                                                 *)
LEMMA NewStoreStep ==
  ASSUME StoreInv, StartInv, Start!new_store
  PROVE  StoreInv'
<1> USE Widths DEF Start!capacity
<1>1. Start!TypeOK'
  BY StoreTypes DEF Start!Next
<1>2. CASE Start!StoreMade /\ "PTR" \in build /\ initialStoreSize > InitialBins * ENTRIES_PER_BIN
  <2>1. /\ numBins' = InitialBins /\ factor' = 2 /\ pc' = "grow" /\ status' = status
        /\ newcap' = 2 * (InitialBins * ENTRIES_PER_BIN)
        /\ UNCHANGED <<build, initialStoreSize>> /\ initialStoreSize \in Nat
        /\ status # "ready"
    BY <1>2 DEF Start!new_store, Start!StoreMade, Start!Go, Start!environment, StoreInv, StartInv, Start!TypeOK
  <2>2. Pow2(2) /\ 2 \in Nat /\ Pow2(2 * InitialBins)
    <3>1. Pow2(2)
      BY DEF Pow2, Start!IsPowerOfTwo
    <3> QED BY <3>1, Pow2Double
  <2>3. Wanted(2 * InitialBins)'
    BY <1>2, <2>1, <2>2 DEF Wanted, FactorFor
  <2>4. Growing'
    BY <1>2, <2>1, <2>3 DEF Growing
  <2> QED BY <1>1, <1>2, <2>1, <2>4 DEF StoreInv
<1>3. CASE Start!StoreMade /\ ~("PTR" \in build /\ initialStoreSize > InitialBins * ENTRIES_PER_BIN)
  <2>1. /\ numBins' = (IF "PTR" \in build THEN InitialBins ELSE 0) /\ pc' = "probe"
        /\ UNCHANGED <<build, initialStoreSize>> /\ initialStoreSize \in Nat
    BY <1>3 DEF Start!new_store, Start!StoreMade, Start!Go, Start!environment, StoreInv, Start!TypeOK
  <2>2. "PTR" \in build => RightSize'
    BY <1>3, <2>1 DEF RightSize
  <2> QED BY <1>1, <2>1, <2>2 DEF StoreInv
<1>4. CASE ~Start!StoreMade
  BY <1>1, <1>4 DEF Start!new_store, Start!End, StoreInv
<1> QED BY <1>2, <1>3, <1>4

(* The new capacity doubles, and the factor with it as far as it can.      *)
LEMMA GrowStep ==
  ASSUME StoreInv, StartInv, Start!grow
  PROVE  StoreInv'
<1> USE Widths
<1>1. Start!TypeOK' /\ Start!TypeOK
  BY StoreTypes DEF Start!Next, StoreInv
<1>2. "PTR" \in build /\ Growing /\ UNCHANGED <<build, numBins, initialStoreSize, status>>
      /\ status # "ready" /\ newcap \in Nat /\ initialStoreSize \in Nat
  BY <1>1 DEF StoreInv, StartInv, Start!grow, Start!Go, Start!environment, Start!TypeOK
<1>3. CASE ~Start!TooSmall
  <2>1. UNCHANGED <<factor, newcap>> /\ pc' = "double" /\ initialStoreSize <= newcap
    BY <1>2, <1>3 DEF Start!grow, Start!TooSmall, Start!Go
  <2>2. Growing'
    BY <1>2, <2>1 DEF Growing, Wanted, FactorFor
  <2> QED BY <1>1, <1>2, <2>1, <2>2 DEF StoreInv
<1>4. CASE Start!TooSmall
  <2>1. /\ newcap' = Start!Word(2 * newcap) /\ pc' = "grow" /\ newcap < initialStoreSize
        /\ factor' \in {Start!Signed(2 * factor), Start!Word(2 * factor)}
    BY <1>2, <1>4 DEF Start!grow, Start!TooSmall, Start!newcapDoubled, Start!Go
  <2>2. ASSUME newcap' # 0 PROVE \E n \in Nat : Wanted(n)'
    <3>1. newcap # 0
      <4>1. 0 % WORDS = 0 /\ (newcap = 0 => 2 * newcap = 0)
        OBVIOUS
      <4> QED BY <2>1, <2>2, <4>1 DEF Start!Word
    <3>2. PICK n \in Nat : Wanted(n)
      BY <1>2, <3>1 DEF Growing
    <3>3. 2 * n \in Nat /\ Pow2(2 * n) /\ 2 * newcap = (2 * n) * ENTRIES_PER_BIN
      BY <3>2, Pow2Double DEF Wanted
    <3>4. Pow2((2 * n) * ENTRIES_PER_BIN)
      BY <3>3, Pow2Product
    <3>5. 2 * newcap < WORDS /\ newcap' = 2 * newcap
      <4>1. 2 * newcap \in Nat /\ Pow2(2 * newcap)
        BY <1>2, <3>3, <3>4
      <4> QED BY <2>1, <2>2, <4>1, Pow2Wraps DEF Start!Word
    <3>6. FactorFor(2 * n)'
      BY <2>1, <3>2, <3>3, <3>5, FactorDoubles DEF Wanted
    <3>7. Wanted(2 * n)'
      BY <1>2, <2>1, <3>3, <3>5, <3>6 DEF Wanted
    <3> QED BY <3>3, <3>7
  <2>3. factor' \in Int
    <3>1. \A x \in Int : x % INTS \in Int /\ x % WORDS \in Int
      OBVIOUS
    <3> QED BY <1>2, <2>1, <3>1 DEF Growing, Start!Signed, Start!Word
  <2>4. Growing'
    BY <1>2, <2>2, <2>3 DEF Growing
  <2> QED BY <1>1, <1>2, <2>1, <2>4 DEF StoreInv
<1> QED BY <1>3, <1>4

(* The table that was resized has the size that was looked for.            *)
LEMMA DoubleStep ==
  ASSUME StoreInv, StartInv, Start!reserve_double
  PROVE  StoreInv'
<1> USE Widths
<1>1. Start!TypeOK' /\ Start!TypeOK
  BY StoreTypes DEF Start!Next, StoreInv
<1>2. /\ Growing /\ initialStoreSize <= newcap /\ UNCHANGED <<build, initialStoreSize>>
      /\ newcap \in Nat /\ initialStoreSize \in Nat /\ status # "ready"
  BY <1>1 DEF StoreInv, StartInv, Start!reserve_double, Start!environment, Start!TypeOK
<1>3. CASE pc' = "probe"
  <2>1. Start!newsize > numBins /\ Start!newsize <= MaxBins /\ numBins' = Start!newsize
    BY <1>3 DEF Start!reserve_double, Start!End, Start!Go
  <2>2. newcap # 0
    BY <1>2 DEF Growing
  <2>3. PICK n \in Nat : Wanted(n)
    BY <1>2, <2>2 DEF Growing
  <2>4. numBins' = n
    BY <1>2, <2>1, <2>3, NewSize DEF Growing
  <2>5. Start!capacity' = newcap /\ initialStoreSize' = initialStoreSize
    BY <1>2, <2>3, <2>4 DEF Start!capacity, Wanted
  <2>6. newcap \div 2 < initialStoreSize
    BY <1>2, <2>3 DEF Wanted
  <2>7. RightSize'
    BY <1>2, <2>3, <2>4, <2>5, <2>6 DEF RightSize, Wanted
  <2> QED BY <1>1, <1>3, <2>7 DEF StoreInv
<1>4. CASE pc' # "probe"
  <2>1. pc' = "done" /\ status' # "ready"
    BY <1>4 DEF Start!reserve_double, Start!End, Start!Go
  <2> QED BY <1>1, <2>1 DEF StoreInv
<1> QED BY <1>3, <1>4

(* The other steps leave the store alone.                                  *)
LEMMA StoreStep ==
  ASSUME StoreInv, StartInv, Start!Next
  PROVE  StoreInv'
<1>1. Start!TypeOK'
  BY StoreTypes
<1>2. CASE Start!disable_via_env \/ Start!getenv_size \/ Start!check_environ
  <2>1. pc' \in {"modes", "environ", "data", "done"} /\ status' # "ready"
    BY <1>2 DEF StartInv, Start!disable_via_env, Start!getenv_size, Start!check_environ,
                Start!Go, Start!End
  <2> QED BY <1>1, <2>1 DEF StoreInv
<1>3. CASE Start!probe
  <2>1. pc = "probe" /\ pc' = "done" /\ UNCHANGED <<build, initialStoreSize, numBins>>
    BY <1>3 DEF Start!probe, Start!End, Start!environment
  <2> QED BY <1>1, <2>1 DEF StoreInv, RightSize, Start!capacity
<1> QED BY <1>2, <1>3, NewStoreStep, GrowStep, DoubleStep DEF Start!Next

(* The invariant implies what the runs check.                              *)
LEMMA StoreMeans ==
  ASSUME StoreInv
  PROVE  Start!TypeOK /\ Start!StoreLargeEnough
BY DEF StoreInv, RightSize, Start!StoreLargeEnough, Pow2

-----------------------------------------------------------------------------
(* ExperimentRunner.  What is on the disk agrees with what is in memory    *)
(* wherever the driver could end by itself, killed before or not; what was *)
(* recorded is in memory unless it was killed, and then at most a whole    *)
(* set of results is missing for every kill.                               *)
DiskAgrees ==
  /\ pc = "down" => ~buffered
  /\ pc = "loop" /\ buffered => counts = db
  /\ pc = "loop" /\ ~buffered => Runner!Loadable /\ Runner!load_json = db
  /\ pc = "end" => buffered /\ counts = db
  /\ pc = "down" /\ kills = 0 => Runner!Loadable /\ Runner!load_json = recorded
  /\ pc # "down" /\ kills = 0 => db = recorded

Results == [Experiments -> 0..Repetitions]

(* A run does what is missing; a deletion leaves what is not deleted.      *)
Planned ==
  /\ pc = "loop" => job = "run"
  /\ job = "run" /\ pc \in {"loop", "sync", "dump"} =>
       \A n \in Experiments : db[n] + schedule[n] <= Repetitions

(* Every kill loses at most a whole set of results.                        *)
Measured ==
  \A n \in Experiments :
    recorded[n] <= (IF pc = "down" THEN Runner!load_json[n] ELSE db[n]) + Repetitions * kills

RunnerInv ==
  /\ file \in {"json", "empty", "torn"} /\ buffered \in BOOLEAN
  /\ pc \in {"down", "loop", "sync", "dump", "end"} /\ job \in {"run", "delete"}
  /\ counts \in Results /\ db \in Results /\ schedule \in Results
  /\ recorded \in [Experiments -> Nat] /\ kills \in Nat
  /\ DiskAgrees /\ Planned /\ Measured /\ patterns \subseteq Patterns

(* A set of results more.                                                  *)
LEMMA Products ==
  ASSUME NEW m \in Nat, NEW n \in Nat
  PROVE  m * n \in Nat /\ m * (n + 1) = m * n + m
OBVIOUS

(* A driver that has never run has an empty file.                          *)
LEMMA RunnerInit == Runner!Init => RunnerInv
<1>1. Repetitions \in Nat
  BY PartsAssumption DEF Runner!RunnerConstants
<1>2. Runner!None \in Results /\ Runner!None \in [Experiments -> Nat]
  BY <1>1 DEF Runner!None, Results
<1>3. SUFFICES ASSUME Runner!Init PROVE RunnerInv
  OBVIOUS
<1>4. DiskAgrees
  BY <1>3 DEF Runner!Init, DiskAgrees, Runner!Loadable, Runner!load_json
<1>5. Planned
  BY <1>3 DEF Runner!Init, Planned
<1>6. Measured
  BY <1>1, <1>3 DEF Runner!Init, Measured, Runner!load_json, Runner!None
<1> QED BY <1>2, <1>3, <1>4, <1>5, <1>6 DEF Runner!Init, RunnerInv

(* What is loaded, what is scheduled for it, and what a deletion leaves.   *)
LEMMA Loaded ==
  ASSUME RunnerInv
  PROVE  Runner!load_json \in Results
<1>1. Repetitions \in Nat
  BY PartsAssumption DEF Runner!RunnerConstants
<1> QED BY <1>1 DEF RunnerInv, Runner!load_json, Runner!None, Results

(* A run is scheduled for what is missing.                                 *)
LEMMA Scheduled ==
  ASSUME NEW r \in Results
  PROVE  /\ Runner!Needed(r) \in Results
         /\ \A n \in Experiments : r[n] + Runner!Needed(r)[n] <= Repetitions
<1>1. Repetitions \in Nat
  BY PartsAssumption DEF Runner!RunnerConstants
<1> QED BY <1>1 DEF Results, Runner!Needed

(* A deletion leaves results.                                              *)
LEMMA Remaining ==
  ASSUME NEW ps
  PROVE  /\ \A r \in Results : Runner!Deleted(r, ps) \in Results
         /\ \A r \in [Experiments -> Nat] : Runner!Deleted(r, ps) \in [Experiments -> Nat]
<1>1. Repetitions \in Nat
  BY PartsAssumption DEF Runner!RunnerConstants
<1> DEFINE gone(n) == \E p \in ps : Runner!Matches(p, n)
<1>2. \A r : Runner!Deleted(r, ps) = [n \in Experiments |-> IF gone(n) THEN 0 ELSE r[n]]
  BY DEF Runner!Deleted
<1> HIDE DEF gone
<1> QED BY <1>1, <1>2 DEF Results

(* run() loads what the last driver left.                                  *)
LEMMA RunStep ==
  ASSUME RunnerInv, Runner!run
  PROVE  RunnerInv'
<1>1. /\ pc = "down" /\ Runner!Loadable /\ pc' = "loop" /\ job' = "run"
      /\ db' = Runner!load_json /\ schedule' = Runner!Needed(Runner!load_json)
      /\ UNCHANGED <<file, counts, buffered, patterns, recorded, kills>>
  BY DEF Runner!run, Runner!disk, Runner!happened
<1>2. Runner!load_json \in Results
  BY Loaded
<1>3. /\ db' \in Results /\ schedule' \in Results
      /\ \A n \in Experiments : db'[n] + schedule'[n] <= Repetitions
  BY <1>1, <1>2, Scheduled
<1>4. Runner!Loadable' /\ Runner!load_json' = Runner!load_json
  BY <1>1 DEF Runner!Loadable, Runner!load_json
<1>5. ~buffered /\ (kills = 0 => Runner!load_json = recorded)
  BY <1>1 DEF RunnerInv, DiskAgrees
<1>6. DiskAgrees'
  BY <1>1, <1>4, <1>5 DEF DiskAgrees
<1>7. Planned'
  BY <1>1, <1>3 DEF Planned
<1>8. Measured'
  BY <1>1 DEF RunnerInv, Measured
<1> QED BY <1>1, <1>3, <1>6, <1>7, <1>8 DEF RunnerInv

(* A deletion deletes in memory what it deletes of the record.             *)
LEMMA DeleteStep ==
  ASSUME RunnerInv, NEW ps \in SUBSET Patterns, Runner!delete_experiment(ps)
  PROVE  RunnerInv'
<1>1. /\ pc = "down" /\ Runner!Loadable /\ pc' = "sync" /\ job' = "delete"
      /\ db' = Runner!Deleted(Runner!load_json, ps)
      /\ recorded' = Runner!Deleted(recorded, ps) /\ patterns' = ps
      /\ UNCHANGED <<file, counts, buffered, schedule, kills>>
  BY DEF Runner!delete_experiment, Runner!disk
<1>2. Runner!load_json \in Results /\ recorded \in [Experiments -> Nat]
  BY Loaded DEF RunnerInv
<1>3. db' \in Results /\ recorded' \in [Experiments -> Nat]
  BY <1>1, <1>2, Remaining
<1>4. kills = 0 => Runner!load_json = recorded
  BY <1>1 DEF RunnerInv, DiskAgrees
<1>5. DiskAgrees'
  BY <1>1, <1>4 DEF DiskAgrees
<1>6. Planned'
  BY <1>1 DEF Planned
<1>7. Measured'
  <2>1. SUFFICES ASSUME NEW n \in Experiments
                 PROVE  recorded'[n] <= db'[n] + Repetitions * kills
    BY <1>1 DEF Measured
  <2>2. recorded[n] <= Runner!load_json[n] + Repetitions * kills
    BY <1>1 DEF RunnerInv, Measured
  <2>3. \/ recorded'[n] = 0 /\ db'[n] = 0
        \/ recorded'[n] = recorded[n] /\ db'[n] = Runner!load_json[n]
    BY <1>1 DEF Runner!Deleted
  <2>4. Repetitions * kills \in Nat
    BY PartsAssumption, Products DEF Runner!RunnerConstants, RunnerInv
  <2> QED BY <2>2, <2>3, <2>4
<1> QED BY <1>1, <1>3, <1>5, <1>6, <1>7 DEF RunnerInv

(* A result that is measured was scheduled.                                *)
LEMMA CaptureStep ==
  ASSUME RunnerInv, NEW n \in Experiments, Runner!capture_performance(n)
  PROVE  RunnerInv'
<1>0. Repetitions \in Nat
  BY PartsAssumption DEF Runner!RunnerConstants
<1>1. /\ pc = "loop" /\ schedule[n] > 0 /\ pc' = "sync"
      /\ db' = [db EXCEPT ![n] = @ + 1] /\ recorded' = [recorded EXCEPT ![n] = @ + 1]
      /\ schedule' = [schedule EXCEPT ![n] = @ - 1]
      /\ UNCHANGED <<file, counts, buffered, job, kills, patterns>>
  BY DEF Runner!capture_performance, Runner!disk, Runner!happened
<1>2. /\ db \in Results /\ schedule \in Results /\ recorded \in [Experiments -> Nat]
      /\ job = "run" /\ \A m \in Experiments : db[m] + schedule[m] <= Repetitions
  BY <1>1 DEF RunnerInv, Planned
<1>3. /\ db' \in Results /\ schedule' \in Results /\ recorded' \in [Experiments -> Nat]
      /\ \A m \in Experiments : db'[m] + schedule'[m] <= Repetitions
  <2>1. db[n] \in Nat /\ schedule[n] \in 1..Repetitions /\ db[n] + 1 <= Repetitions
    BY <1>0, <1>1, <1>2 DEF Results
  <2>2. db' \in Results
    BY <1>0, <1>1, <1>2, <2>1 DEF Results
  <2>3. schedule' \in Results
    BY <1>0, <1>1, <1>2, <2>1 DEF Results
  <2>4. recorded' \in [Experiments -> Nat]
    BY <1>1, <1>2
  <2>5. ASSUME NEW m \in Experiments PROVE db'[m] + schedule'[m] <= Repetitions
    BY <1>0, <1>1, <1>2, <2>1 DEF Results
  <2> QED BY <2>2, <2>3, <2>4, <2>5
<1>4. kills = 0 => db = recorded
  BY <1>1 DEF RunnerInv, DiskAgrees
<1>5. DiskAgrees'
  BY <1>1, <1>4 DEF DiskAgrees
<1>6. Planned'
  BY <1>1, <1>2, <1>3 DEF Planned
<1>7. Measured'
  <2>1. SUFFICES ASSUME NEW m \in Experiments
                 PROVE  recorded'[m] <= db'[m] + Repetitions * kills
    BY <1>1 DEF Measured
  <2>2. recorded[m] <= db[m] + Repetitions * kills
    BY <1>1 DEF RunnerInv, Measured
  <2>3. \/ recorded'[m] = recorded[m] + 1 /\ db'[m] = db[m] + 1
        \/ recorded'[m] = recorded[m] /\ db'[m] = db[m]
    BY <1>1, <1>2 DEF Results
  <2>4. Repetitions * kills \in Nat /\ recorded[m] \in Nat /\ db[m] \in Nat
    BY <1>0, <1>2, Products DEF RunnerInv, Results
  <2> QED BY <2>2, <2>3, <2>4
<1> QED BY <1>1, <1>3, <1>5, <1>6, <1>7 DEF RunnerInv

(* The command ends, and the file is closed.                               *)
LEMMA CloseStep ==
  ASSUME RunnerInv, pc \in {"loop", "end"}, Runner!Close, pc' = "down",
         UNCHANGED <<db, schedule, job, patterns, recorded, kills>>
  PROVE  RunnerInv'
<1>1. counts' = counts /\ buffered' = FALSE /\ file' = IF buffered THEN "json" ELSE file
  BY DEF RunnerInv, Runner!Close, Runner!disk
<1>2. Runner!Loadable' /\ Runner!load_json' = db
  <2>1. CASE buffered
    BY <1>1, <2>1 DEF RunnerInv, DiskAgrees, Runner!Loadable, Runner!load_json
  <2>2. CASE ~buffered
    BY <1>1, <2>2 DEF RunnerInv, DiskAgrees, Runner!Loadable, Runner!load_json
  <2> QED BY <2>1, <2>2
<1>3. kills = 0 => db = recorded
  BY DEF RunnerInv, DiskAgrees
<1>4. DiskAgrees'
  BY <1>1, <1>2, <1>3 DEF DiskAgrees
<1>5. Planned'
  BY DEF Planned
<1>6. Measured'
  BY <1>2 DEF RunnerInv, Measured
<1> QED BY <1>1, <1>4, <1>5, <1>6 DEF RunnerInv

(* The file is empty or torn only while its contents are in the buffer.    *)
LEMMA SyncStep ==
  ASSUME RunnerInv, Runner!truncate \/ Runner!dump_json
  PROVE  RunnerInv'
<1>1. CASE Runner!truncate
  <2>1. /\ pc = "sync" /\ pc' = "dump" /\ file' = "empty" /\ buffered' = FALSE
        /\ UNCHANGED <<counts, db, schedule, job, patterns, recorded, kills>>
    BY <1>1 DEF Runner!truncate, Runner!happened
  <2>2. DiskAgrees'
    BY <2>1 DEF RunnerInv, DiskAgrees
  <2>3. Planned'
    BY <2>1 DEF RunnerInv, Planned
  <2>4. Measured'
    BY <2>1 DEF RunnerInv, Measured
  <2> QED BY <2>1, <2>2, <2>3, <2>4 DEF RunnerInv
<1>2. CASE Runner!dump_json
  <2>1. /\ pc = "dump" /\ pc' = IF job = "run" THEN "loop" ELSE "end"
        /\ counts' = db /\ buffered' = TRUE /\ file' \in {"empty", "torn"}
        /\ UNCHANGED <<db, schedule, job, patterns, recorded, kills>>
    BY <1>2 DEF Runner!dump_json, Runner!happened
  <2>2. DiskAgrees'
    BY <2>1 DEF RunnerInv, DiskAgrees
  <2>3. Planned'
    BY <2>1 DEF RunnerInv, Planned
  <2>4. Measured'
    BY <2>1 DEF RunnerInv, Measured
  <2> QED BY <2>1, <2>2, <2>3, <2>4 DEF RunnerInv
<1> QED BY <1>1, <1>2

(* A kill loses what is in the buffer, and counts.                         *)
LEMMA KillStep ==
  ASSUME RunnerInv, Runner!kill
  PROVE  RunnerInv'
<1>1. /\ pc' = "down" /\ buffered' = FALSE /\ kills' = kills + 1
      /\ UNCHANGED <<file, counts, db, schedule, job, patterns, recorded>>
      /\ pc # "down"
  BY DEF Runner!kill
<1>2. kills' \in Nat /\ kills' # 0
  BY <1>1 DEF RunnerInv
<1>3. DiskAgrees'
  BY <1>1, <1>2 DEF DiskAgrees
<1>4. Planned'
  BY <1>1 DEF Planned
<1>5. Measured'
  <2>1. SUFFICES ASSUME NEW n \in Experiments
                 PROVE  recorded[n] <= Runner!load_json'[n] + Repetitions * (kills + 1)
    BY <1>1 DEF Measured
  <2>2. recorded[n] <= db[n] + Repetitions * kills
    BY <1>1 DEF RunnerInv, Measured
  <2>3. Runner!load_json' \in Results
    BY <1>1, Loaded DEF Runner!load_json
  <2>4. Repetitions \in Nat /\ kills \in Nat /\ db \in Results /\ recorded[n] \in Nat
    BY PartsAssumption DEF Runner!RunnerConstants, RunnerInv
  <2>5. db[n] \in 0..Repetitions /\ Runner!load_json'[n] \in 0..Repetitions
    BY <2>3, <2>4 DEF Results
  <2>6. /\ Repetitions * (kills + 1) = Repetitions * kills + Repetitions
        /\ Repetitions * kills \in Nat
    BY <2>4, Products
  <2> QED BY <2>2, <2>4, <2>5, <2>6
<1> QED BY <1>1, <1>2, <1>3, <1>4, <1>5 DEF RunnerInv

(* Every step of the driver keeps the invariant.                           *)
LEMMA RunnerStep ==
  ASSUME RunnerInv, Runner!Next
  PROVE  RunnerInv'
<1>1. CASE Runner!command_fails
  BY <1>1, CloseStep DEF Runner!command_fails
<1>2. CASE Runner!finish
  BY <1>2, CloseStep DEF Runner!finish, Runner!happened
<1>3. ASSUME NEW ps \in SUBSET Patterns \ {{}}, Runner!delete_experiment(ps)
      PROVE  RunnerInv'
  <2>1. ps \in SUBSET Patterns
    OBVIOUS
  <2> QED BY <1>3, <2>1, DeleteStep
<1>4. ASSUME NEW n \in Experiments, Runner!capture_performance(n)
      PROVE  RunnerInv'
  BY <1>4, CaptureStep
<1> QED BY <1>1, <1>2, <1>3, <1>4, RunStep, SyncStep, KillStep DEF Runner!Next

(* The invariant implies what the runs check.                              *)
LEMMA RunnerMeans ==
  ASSUME RunnerInv
  PROVE  Runner!TypeOK /\ Runner!ResultsKept /\ Runner!NotTooOften
<1>1. Runner!ResultsKept
  BY DEF RunnerInv, DiskAgrees, Runner!ResultsKept
<1>2. Runner!NotTooOften
  <2>1. SUFFICES ASSUME NEW n \in Experiments
                 PROVE  db[n] + (IF pc = "loop" THEN schedule[n] ELSE 0) <= Repetitions
    BY DEF Runner!NotTooOften
  <2>2. Repetitions \in Nat /\ db[n] \in 0..Repetitions
    BY PartsAssumption DEF Runner!RunnerConstants, RunnerInv, Results
  <2>3. pc = "loop" => db[n] + schedule[n] <= Repetitions
    BY DEF RunnerInv, Planned
  <2> QED BY <2>2, <2>3
<1>3. Runner!TypeOK
  <2>1. Repetitions \in Nat /\ kills \in Nat
    BY PartsAssumption DEF Runner!RunnerConstants, RunnerInv
  <2>2. Repetitions * (kills + 1) = Repetitions * kills + Repetitions /\ kills + 1 = 1 + kills
    BY <2>1, Products
  <2>3. ASSUME NEW n \in Experiments
        PROVE  recorded[n] \in 0..Repetitions * (1 + kills)
    <3>1. Runner!load_json[n] \in 0..Repetitions /\ db[n] \in 0..Repetitions
      BY Loaded DEF RunnerInv, Results
    <3>2. recorded[n] \in Nat /\ Repetitions * kills \in Nat
      BY <2>1, Products DEF RunnerInv
    <3>3. recorded[n] <= Repetitions * kills + Repetitions
      BY <2>1, <3>1, <3>2 DEF RunnerInv, Measured
    <3> QED BY <2>1, <2>2, <3>2, <3>3
  <2>4. recorded \in [Experiments -> 0..Repetitions * (1 + kills)]
    BY <2>3 DEF RunnerInv
  <2> QED BY <2>4 DEF RunnerInv, Results, Runner!TypeOK
<1> QED BY <1>1, <1>2, <1>3

-----------------------------------------------------------------------------
(* The parts together.                                                     *)
PartsInv ==
  /\ IF part = "realloc" THEN CopyInv ELSE len = 0
  /\ part = "startup" => StartInv /\ StoreInv
  /\ part = "runner" => RunnerInv

(* Each of the three parts keeps its invariant whatever the others do.     *)
THEOREM PartsInvariant == PartsSpec => []PartsInv
<1>1. PartsInit => PartsInv
  BY CopyInit, StartInit, StoreInit, RunnerInit DEF PartsInit, PartsInv, NoRealloc
<1>2. PartsInv /\ [PartsNext]_all => PartsInv'
  <2>1. SUFFICES ASSUME PartsInv, [PartsNext]_all PROVE PartsInv'
    OBVIOUS
  <2>2. CASE UNCHANGED all
    <3>1. part = "realloc" => CopyInv'
      BY <2>1, <2>2 DEF PartsInv, CopyInv, all, reallocVars
    <3>2. part = "startup" => StartInv'
      <4>1. Kept' = Kept /\ \A x : WasRead(x)' <=> WasRead(x)
        BY <2>2 DEF all, startVars, Kept, WasRead
      <4> QED BY <2>1, <2>2, <4>1 DEF PartsInv, StartInv, all, startVars
    <3>3. part = "runner" => RunnerInv'
      BY <2>1, <2>2 DEF PartsInv, RunnerInv, DiskAgrees, Planned, Measured, Runner!Loadable,
                        Runner!load_json, all, runnerVars
    <3>4. part = "startup" => StoreInv'
      BY <2>1, <2>2 DEF PartsInv, StoreInv, Growing, Wanted, FactorFor, RightSize,
                        Start!capacity, Start!TypeOK, all, startVars
    <3> QED BY <2>1, <2>2, <3>1, <3>2, <3>3, <3>4 DEF PartsInv, all, reallocVars
  <2>3. CASE Realloc
    BY <2>1, <2>3, CopyStep DEF Realloc, PartsInv
  <2>4. CASE Bootstrap
    BY <2>1, <2>4 DEF Bootstrap, PartsInv, reallocVars
  <2>5. CASE Construct
    BY <2>1, <2>5, StartStep, StoreStep DEF Construct, PartsInv, reallocVars
  <2>6. CASE Leak
    BY <2>1, <2>6 DEF Leak, PartsInv, reallocVars
  <2>7. CASE Drive
    BY <2>1, <2>7, RunnerStep DEF Drive, PartsInv, reallocVars
  <2>8. CASE Ended
    BY <2>2, <2>8 DEF Ended
  <2> QED BY <2>1, <2>2, <2>3, <2>4, <2>5, <2>6, <2>7, <2>8 DEF PartsNext
<1> QED BY <1>1, <1>2, PTL DEF PartsSpec

(* realloc() copies inside both chunks and never nothing.                  *)
THEOREM CopyFitsAlways == PartsSpec => []CopyFits
<1>1. PartsInv => CopyFits
  BY CopyMeans DEF PartsInv, CopyFits
<1> QED BY <1>1, PartsInvariant, PTL

(* realloc() keeps all the application may have stored, up to the new size.*)
THEOREM CopyKeepsDataAlways == PartsSpec => []CopyKeepsData
<1>1. PartsInv => CopyKeepsData
  BY CopyMeans DEF PartsInv, CopyKeepsData
<1> QED BY <1>1, PartsInvariant, PTL

(* ModeReader.h, ShadowHeapFacade.h: a library that starts has the modes   *)
(* on that it was compiled with and that the environment left on, and the  *)
(* tcache's only together with the leak's.                                 *)
THEOREM ModesAsAskedAlways == PartsSpec => []ModesAsAsked
<1>1. PartsInv => ModesAsAsked
  BY StartMeans DEF PartsInv, ModesAsAsked
<1> QED BY <1>1, PartsInvariant, PTL

(* CachedMetaStore.h:90-117: a library that starts with a store has one    *)
(* for as many chunks as were asked for, with a power of two of bins, and  *)
(* not more than that takes, whatever number was given and however the     *)
(* factor overflowed.                                                      *)
THEOREM StoreLargeEnoughAlways == PartsSpec => []StoreLargeEnough
<1>1. PartsInv => StoreLargeEnough
  BY StoreMeans DEF PartsInv, StoreLargeEnough
<1> QED BY <1>1, PartsInvariant, PTL

(* Startup: the types; sizes are words, those computed too.                *)
THEOREM StartupTypes == PartsSpec => [](part = "startup" => Start!TypeOK)
<1>1. PartsInv => (part = "startup" => Start!TypeOK)
  BY StoreMeans DEF PartsInv
<1> QED BY <1>1, PartsInvariant, PTL

(* run-experiment.py: whenever no driver runs, and none was killed, the    *)
(* file has every result that was measured and not deleted.                *)
THEOREM ResultsKeptAlways == PartsSpec => []ResultsKept
<1>1. PartsInv => ResultsKept
  BY RunnerMeans DEF PartsInv, ResultsKept
<1> QED BY <1>1, PartsInvariant, PTL

(* run-experiment.py: no experiment is measured more often than asked, in  *)
(* however many sittings, killed or not.                                   *)
THEOREM NotTooOftenAlways == PartsSpec => []NotTooOften
<1>1. PartsInv => NotTooOften
  BY RunnerMeans DEF PartsInv, NotTooOften
<1> QED BY <1>1, PartsInvariant, PTL

(* run-experiment.py: the types; a kill costs at most one set of results,  *)
(* so an experiment is measured at most Repetitions times for each of the  *)
(* kills and once more.                                                    *)
THEOREM WorkIsBounded == PartsSpec => [](part = "runner" => Runner!TypeOK)
<1>1. PartsInv => (part = "runner" => Runner!TypeOK)
  BY RunnerMeans DEF PartsInv
<1> QED BY <1>1, PartsInvariant, PTL
=============================================================================
