-------------------------- MODULE LeakProbeProofs --------------------------
(***************************************************************************)
(* Proofs about the probes of the heap (src/src/leak/leak.cxx, leak.h) and *)
(* about the allocator they run on, for any number of calls before the     *)
(* constructor, of any sizes, and any number of chunks in a tcache bin.    *)
(*                                                                         *)
(* That the probes give back what they allocate is not inductive: to free  *)
(* a chunk twice, or to be given one that is in use, would also leave a    *)
(* number of chunks that is right.  The invariant says that the heap is    *)
(* well formed: its chunks lie one after the other, and a free one is on   *)
(* one list, once.  Every operation of Ptmalloc keeps that, malloc()       *)
(* answers with a chunk that was not in use, and free() takes just its     *)
(* chunk out of use; so a probe that frees each of its pointers once       *)
(* leaves the chunks in use as they were.                                  *)
(*                                                                         *)
(* The operators of Ptmalloc are folds over sequences.  A fold is a run of *)
(* single steps (Run), and what holds before the first step and is kept by *)
(* each of them holds of its result.                                       *)
(***************************************************************************)
EXTENDS PartsProofs, HookInfoProofs, SequenceTheorems, FiniteSetTheorems

-----------------------------------------------------------------------------
(* A set of numbers below a bound has a greatest one.                      *)
LEMMA GreatestNumber ==
  ASSUME NEW S \in SUBSET Nat, S # {}, NEW b \in Nat, \A n \in S : n <= b
  PROVE  \E n \in S : \A m \in S : m <= n
<1> DEFINE T == {m \in Nat : b - m \in S}
<1>1. T \in SUBSET Nat /\ T # {}
  <2>1. PICK n \in S : TRUE
    OBVIOUS
  <2>2. b - n \in T
    BY <2>1
  <2> QED BY <2>2
<1>2. PICK t \in T : \A m \in T : t <= m
  BY <1>1, LeastNumber
<1>3. ASSUME NEW m \in S PROVE m <= b - t
  <2>1. b - m \in T
    OBVIOUS
  <2> QED BY <1>2, <2>1
<1> QED BY <1>2, <1>3

(* A set with 0 and with the successors of its numbers has all numbers.    *)
LEMMA Induction ==
  ASSUME NEW S \in SUBSET Nat, 0 \in S, \A k \in S : k + 1 \in S
  PROVE  S = Nat
<1>1. SUFFICES ASSUME Nat \ S # {} PROVE FALSE
  OBVIOUS
<1>2. PICK n \in Nat \ S : \A m \in Nat \ S : n <= m
  BY <1>1, LeastNumber
<1>3. n # 0 /\ n - 1 \in Nat /\ n - 1 \in S
  BY <1>2
<1> QED BY <1>2, <1>3

(* The least and the greatest element of a set.                            *)
LEMMA MinOf ==
  ASSUME NEW S \in SUBSET Nat, S # {}
  PROVE  Probe!Min(S) \in S /\ \A m \in S : Probe!Min(S) <= m
<1>1. \E n \in S : \A m \in S : n <= m
  BY LeastNumber
<1> QED BY <1>1, Zenon DEF Probe!Min

LEMMA MaxOf ==
  ASSUME NEW S \in SUBSET Nat, S # {}, NEW b \in Nat, \A n \in S : n <= b
  PROVE  Probe!Max(S) \in S /\ \A m \in S : Probe!Max(S) >= m
<1>1. \E n \in S : \A m \in S : m <= n
  BY GreatestNumber
<1>2. \E n \in S : \A m \in S : n >= m
  BY <1>1
<1> QED BY <1>2, Zenon DEF Probe!Max

LEMMA MaxFirst ==
  ASSUME NEW k \in Nat, NEW d \in SUBSET (1..k + 1), k + 1 \in d
  PROVE  Probe!Max(d) = k + 1
<1>1. d \in SUBSET Nat /\ \A n \in d : n <= k + 1
  OBVIOUS
<1>2. Probe!Max(d) \in d /\ \A m \in d : Probe!Max(d) >= m
  BY <1>1, MaxOf
<1>3. Probe!Max(d) \in Nat /\ Probe!Max(d) <= k + 1 /\ Probe!Max(d) >= k + 1
  BY <1>1, <1>2
<1> QED BY <1>3

-----------------------------------------------------------------------------
(* The folds.  Step is what each of them does with one element e, given    *)
(* what came out so far, g, and what the fold is about, y.                 *)
Step(fold, y, g, e) ==
  CASE fold = "only" -> IF e \in y THEN Append(g, e) ELSE g
    [] fold = "free" -> Probe!Free(g, e)
    [] fold = "release" -> Probe!Release(g, e)
    [] fold = "consolidate" -> Probe!ReleaseAll(g, Probe!OfSize(y, y.fast, e))
    [] fold = "stash" -> IF Probe!TcacheRoom(g, y) THEN Probe!Cached(g, e) ELSE g
    [] fold = "sort" -> Probe!SortOne(g, e, y)
    [] fold = "malloc" -> Probe!Allocated(g, Probe!Malloc(g.heap, e))

(* The function that FoldLeft chooses: over the sets of positions.         *)
Chosen(fold, y, base, s, k, f) ==
  f = [d \in SUBSET (1..k) |->
         IF d = {} THEN base
         ELSE Step(fold, y, f[d \ {Probe!Max(d)}], s[Probe!Max(d)])]

LEMMA ChosenExists ==
  ASSUME NEW fold, NEW y, NEW base, NEW s, NEW n \in Nat
  PROVE  \E f : Chosen(fold, y, base, s, n, f)
<1> DEFINE S == {k \in Nat : \E f : Chosen(fold, y, base, s, k, f)}
<1>1. 0 \in S
  <2>1. Chosen(fold, y, base, s, 0, [d \in SUBSET (1..0) |-> base])
    BY DEF Chosen
  <2> QED BY <2>1
<1>2. ASSUME NEW k \in S PROVE k + 1 \in S
  <2>1. PICK f : Chosen(fold, y, base, s, k, f)
    OBVIOUS
  <2>0. k \in Nat
    OBVIOUS
  <2> DEFINE g == [d \in SUBSET (1..k + 1) |->
                     IF k + 1 \in d THEN Step(fold, y, f[d \ {k + 1}], s[k + 1]) ELSE f[d]]
             Next1(h, d) == IF d = {} THEN base
                            ELSE Step(fold, y, h[d \ {Probe!Max(d)}], s[Probe!Max(d)])
  <2>2. ASSUME NEW d \in SUBSET (1..k + 1)
        PROVE  g[d] = Next1(g, d)
    <3>1. CASE k + 1 \in d
      <4>1. Probe!Max(d) = k + 1
        BY <2>0, <3>1, MaxFirst
      <4>2. g[d \ {k + 1}] = f[d \ {k + 1}]
        OBVIOUS
      <4>3. g[d] = Step(fold, y, f[d \ {k + 1}], s[k + 1])
        BY <3>1
      <4> HIDE DEF g
      <4> QED BY <3>1, <4>1, <4>2, <4>3
    <3>2. CASE k + 1 \notin d
      <4>1. d \in SUBSET (1..k)
        BY <2>0, <3>2
      <4>2. d \ {Probe!Max(d)} \in SUBSET (1..k) /\ d \ {Probe!Max(d)} \in SUBSET (1..k + 1)
        BY <2>0, <4>1
      <4>3. f[d] = Next1(f, d)
        BY <2>1, <4>1 DEF Chosen
      <4>4. k + 1 \notin d \ {Probe!Max(d)}
        BY <3>2
      <4>5. g[d] = f[d] /\ g[d \ {Probe!Max(d)}] = f[d \ {Probe!Max(d)}]
        BY <3>2, <4>2, <4>4
      <4> HIDE DEF g
      <4> QED BY <4>3, <4>5
    <3> QED BY <3>1, <3>2
  <2>3. Chosen(fold, y, base, s, k + 1, g)
    <3>1. g = [d \in SUBSET (1..k + 1) |-> g[d]]
      OBVIOUS
    <3> HIDE DEF g
    <3> QED BY <2>2, <3>1 DEF Chosen
  <2> HIDE DEF g, Next1
  <2>4. \E h : Chosen(fold, y, base, s, k + 1, h)
    BY <2>3
  <2> QED BY <2>0, <2>4
<1> HIDE DEF S
<1>3. S \in SUBSET Nat
  BY DEF S
<1>4. S = Nat
  BY <1>1, <1>2, <1>3, Induction
<1> QED BY <1>4 DEF S

(* The values of a fold as it goes on, from base to the result v.          *)
Run(fold, y, base, s, n, v) ==
  \E p : /\ p[0] = base /\ p[n] = v
         /\ \A k \in 0..n - 1 : p[k + 1] = Step(fold, y, p[k], s[k + 1])

(* Its value at the first k positions is the fold of as many elements.     *)
LEMMA ChosenRuns ==
  ASSUME NEW fold, NEW y, NEW base, NEW s, NEW n \in Nat,
         NEW f, Chosen(fold, y, base, s, n, f)
  PROVE  Run(fold, y, base, s, n, f[1..n])
<1> DEFINE p == [k \in 0..n |-> f[1..k]]
<1>1. f[{}] = base
  BY DEF Chosen
<1>2. ASSUME NEW k \in 0..n - 1
      PROVE  f[1..k + 1] = Step(fold, y, f[1..k], s[k + 1])
  <2>1. k \in Nat /\ 1..k + 1 \in SUBSET (1..n) /\ k + 1 \in 1..k + 1
    OBVIOUS
  <2>2. Probe!Max(1..k + 1) = k + 1
    BY <2>1, MaxFirst
  <2>3. (1..k + 1) \ {k + 1} = 1..k
    BY <2>1
  <2>4. f[1..k + 1] = Step(fold, y, f[(1..k + 1) \ {Probe!Max(1..k + 1)}], s[Probe!Max(1..k + 1)])
    BY <2>1 DEF Chosen
  <2> QED BY <2>2, <2>3, <2>4
<1>3. p[0] = base /\ p[n] = f[1..n]
  <2>1. 1..0 = {}
    OBVIOUS
  <2> QED BY <1>1, <2>1
<1>4. \A k \in 0..n - 1 : p[k + 1] = Step(fold, y, p[k], s[k + 1])
  BY <1>2
<1> HIDE DEF p
<1> QED BY <1>3, <1>4 DEF Run

LEMMA OnlyRuns ==
  ASSUME NEW s, NEW S, NEW n \in Nat, DOMAIN s = 1..n
  PROVE  Run("only", S, <<>>, s, n, Probe!Only(s, S))
<1> DEFINE Runs(f) ==
      f = [d \in SUBSET (1..n) |->
             IF d = {} THEN <<>>
             ELSE IF s[Probe!Max(d)] \in S THEN Append(f[d \ {Probe!Max(d)}], s[Probe!Max(d)]) ELSE f[d \ {Probe!Max(d)}]]
<1>1. \A f : Runs(f) <=> Chosen("only", S, <<>>, s, n, f)
  BY DEF Chosen, Step
<1>2. Probe!Only(s, S) = (CHOOSE f : Runs(f))[1..n]
  BY DEF Probe!Only, Probe!FoldLeft, Probe!MapThenFoldSet
<1> HIDE DEF Runs
<1>3. PICK f : Chosen("only", S, <<>>, s, n, f) /\ Probe!Only(s, S) = f[1..n]
  BY <1>1, <1>2, ChosenExists, Zenon
<1> QED BY <1>3, ChosenRuns

LEMMA FreeAllRuns ==
  ASSUME NEW h, NEW s, NEW n \in Nat, DOMAIN s = 1..n
  PROVE  Run("free", h, h, s, n, Probe!FreeAll(h, s))
<1> DEFINE Runs(f) ==
      f = [d \in SUBSET (1..n) |->
             IF d = {} THEN h
             ELSE Probe!Free(f[d \ {Probe!Max(d)}], s[Probe!Max(d)])]
<1>1. \A f : Runs(f) <=> Chosen("free", h, h, s, n, f)
  BY DEF Chosen, Step
<1>2. Probe!FreeAll(h, s) = (CHOOSE f : Runs(f))[1..n]
  BY DEF Probe!FreeAll, Probe!FoldLeft, Probe!MapThenFoldSet
<1> HIDE DEF Runs
<1>3. PICK f : Chosen("free", h, h, s, n, f) /\ Probe!FreeAll(h, s) = f[1..n]
  BY <1>1, <1>2, ChosenExists, Zenon
<1> QED BY <1>3, ChosenRuns

LEMMA ReleaseAllRuns ==
  ASSUME NEW h, NEW s, NEW n \in Nat, DOMAIN s = 1..n
  PROVE  Run("release", h, h, s, n, Probe!ReleaseAll(h, s))
<1> DEFINE Runs(f) ==
      f = [d \in SUBSET (1..n) |->
             IF d = {} THEN h
             ELSE Probe!Release(f[d \ {Probe!Max(d)}], s[Probe!Max(d)])]
<1>1. \A f : Runs(f) <=> Chosen("release", h, h, s, n, f)
  BY DEF Chosen, Step
<1>2. Probe!ReleaseAll(h, s) = (CHOOSE f : Runs(f))[1..n]
  BY DEF Probe!ReleaseAll, Probe!FoldLeft, Probe!MapThenFoldSet
<1> HIDE DEF Runs
<1>3. PICK f : Chosen("release", h, h, s, n, f) /\ Probe!ReleaseAll(h, s) = f[1..n]
  BY <1>1, <1>2, ChosenExists, Zenon
<1> QED BY <1>3, ChosenRuns

LEMMA ConsolidateRuns ==
  ASSUME NEW h, NEW n \in Nat, DOMAIN [i \in 1..Probe!MAX_FAST |-> i] = 1..n
  PROVE  Run("consolidate", h, [h EXCEPT !.fast = <<>>], [i \in 1..Probe!MAX_FAST |-> i], n, Probe!malloc_consolidate(h))
<1> DEFINE Runs(f) ==
      f = [d \in SUBSET (1..n) |->
             IF d = {} THEN [h EXCEPT !.fast = <<>>]
             ELSE Probe!ReleaseAll(f[d \ {Probe!Max(d)}], Probe!OfSize(h, h.fast, ([i \in 1..Probe!MAX_FAST |-> i])[Probe!Max(d)]))]
<1>1. \A f : Runs(f) <=> Chosen("consolidate", h, [h EXCEPT !.fast = <<>>], [i \in 1..Probe!MAX_FAST |-> i], n, f)
  BY DEF Chosen, Step
<1>2. Probe!malloc_consolidate(h) = (CHOOSE f : Runs(f))[1..n]
  BY DEF Probe!malloc_consolidate, Probe!FoldLeft, Probe!MapThenFoldSet
<1> HIDE DEF Runs
<1>3. PICK f : Chosen("consolidate", h, [h EXCEPT !.fast = <<>>], [i \in 1..Probe!MAX_FAST |-> i], n, f) /\ Probe!malloc_consolidate(h) = f[1..n]
  BY <1>1, <1>2, ChosenExists, Zenon
<1> QED BY <1>3, ChosenRuns

LEMMA StashRuns ==
  ASSUME NEW h, NEW m, NEW s, NEW n \in Nat, DOMAIN s = 1..n
  PROVE  Run("stash", m, h, s, n, Probe!Stash(h, m, s))
<1> DEFINE Runs(f) ==
      f = [d \in SUBSET (1..n) |->
             IF d = {} THEN h
             ELSE IF Probe!TcacheRoom(f[d \ {Probe!Max(d)}], m) THEN Probe!Cached(f[d \ {Probe!Max(d)}], s[Probe!Max(d)]) ELSE f[d \ {Probe!Max(d)}]]
<1>1. \A f : Runs(f) <=> Chosen("stash", m, h, s, n, f)
  BY DEF Chosen, Step
<1>2. Probe!Stash(h, m, s) = (CHOOSE f : Runs(f))[1..n]
  BY DEF Probe!Stash, Probe!FoldLeft, Probe!MapThenFoldSet
<1> HIDE DEF Runs
<1>3. PICK f : Chosen("stash", m, h, s, n, f) /\ Probe!Stash(h, m, s) = f[1..n]
  BY <1>1, <1>2, ChosenExists, Zenon
<1> QED BY <1>3, ChosenRuns

LEMMA SortAllRuns ==
  ASSUME NEW h, NEW m, NEW n \in Nat, DOMAIN Probe!Reverse(h.us) = 1..n
  PROVE  Run("sort", m, [heap |-> h, ptr |-> NULL], Probe!Reverse(h.us), n, Probe!SortAll(h, m))
<1> DEFINE Runs(f) ==
      f = [d \in SUBSET (1..n) |->
             IF d = {} THEN [heap |-> h, ptr |-> NULL]
             ELSE Probe!SortOne(f[d \ {Probe!Max(d)}], (Probe!Reverse(h.us))[Probe!Max(d)], m)]
<1>1. \A f : Runs(f) <=> Chosen("sort", m, [heap |-> h, ptr |-> NULL], Probe!Reverse(h.us), n, f)
  BY DEF Chosen, Step
<1>2. Probe!SortAll(h, m) = (CHOOSE f : Runs(f))[1..n]
  BY DEF Probe!SortAll, Probe!FoldLeft, Probe!MapThenFoldSet
<1> HIDE DEF Runs
<1>3. PICK f : Chosen("sort", m, [heap |-> h, ptr |-> NULL], Probe!Reverse(h.us), n, f) /\ Probe!SortAll(h, m) = f[1..n]
  BY <1>1, <1>2, ChosenExists, Zenon
<1> QED BY <1>3, ChosenRuns

LEMMA MallocAllRuns ==
  ASSUME NEW g, NEW s, NEW n \in Nat, DOMAIN s = 1..n
  PROVE  Run("malloc", g, g, s, n, Probe!MallocAll(g, s))
<1> DEFINE Runs(f) ==
      f = [d \in SUBSET (1..n) |->
             IF d = {} THEN g
             ELSE Probe!Allocated(f[d \ {Probe!Max(d)}], Probe!Malloc(f[d \ {Probe!Max(d)}].heap, s[Probe!Max(d)]))]
<1>1. \A f : Runs(f) <=> Chosen("malloc", g, g, s, n, f)
  BY DEF Chosen, Step
<1>2. Probe!MallocAll(g, s) = (CHOOSE f : Runs(f))[1..n]
  BY DEF Probe!MallocAll, Probe!FoldLeft, Probe!MapThenFoldSet
<1> HIDE DEF Runs
<1>3. PICK f : Chosen("malloc", g, g, s, n, f) /\ Probe!MallocAll(g, s) = f[1..n]
  BY <1>1, <1>2, ChosenExists, Zenon
<1> QED BY <1>3, ChosenRuns

(* Counting up to n.                                                       *)
LEMMA Upto ==
  ASSUME NEW n \in Nat, NEW S, 0 \in S, \A k \in 0..n - 1 : k \in S => k + 1 \in S
  PROVE  n \in S
<1> DEFINE T == {k \in Nat : k <= n => k \in S}
<1>1. 0 \in T
  OBVIOUS
<1>2. ASSUME NEW k \in T PROVE k + 1 \in T
  OBVIOUS
<1>3. T \in SUBSET Nat
  OBVIOUS
<1> HIDE DEF T
<1>4. T = Nat
  BY <1>1, <1>2, <1>3, Induction
<1> QED BY <1>4 DEF T

-----------------------------------------------------------------------------
(* A list of the allocator: chunks, each once.                             *)
List(s) == s \in Seq(Nat) /\ \A i, j \in DOMAIN s : s[i] = s[j] => i = j

LEMMA ListBasics ==
  ASSUME NEW s, List(s)
  PROVE  /\ s \in Seq(Nat) /\ Len(s) \in Nat /\ DOMAIN s = 1..Len(s)
         /\ Probe!ToSet(s) \in SUBSET Nat
         /\ s = <<>> <=> Probe!ToSet(s) = {}
         /\ \A x : Probe!In(x, s) <=> x \in Probe!ToSet(s)
<1>1. s \in Seq(Nat) /\ Len(s) \in Nat /\ DOMAIN s = 1..Len(s)
  BY DEF List
<1>2. Probe!ToSet(s) \in SUBSET Nat
  BY <1>1 DEF Probe!ToSet
<1>3. s = <<>> => Probe!ToSet(s) = {}
  BY DEF Probe!ToSet
<1>4. s # <<>> => Probe!ToSet(s) # {}
  <2>1. s # <<>> => 1 \in DOMAIN s
    BY <1>1
  <2> QED BY <2>1 DEF Probe!ToSet
<1>5. \A x : Probe!In(x, s) <=> x \in Probe!ToSet(s)
  BY DEF Probe!In, Probe!ToSet
<1> QED BY <1>1, <1>2, <1>3, <1>4, <1>5

LEMMA EmptyList ==
  List(<<>>) /\ Probe!ToSet(<<>>) = {}
BY DEF List, Probe!ToSet

LEMMA JoinedLists ==
  ASSUME NEW s, NEW t, List(s), List(t), Probe!ToSet(s) \cap Probe!ToSet(t) = {}
  PROVE  List(s \o t) /\ Probe!ToSet(s \o t) = Probe!ToSet(s) \cup Probe!ToSet(t)
<1> DEFINE u == s \o t
           m == Len(s)
           n == Len(t)
<1>1. s \in Seq(Nat) /\ m \in Nat /\ DOMAIN s = 1..m
  BY DEF List
<1>2. t \in Seq(Nat) /\ n \in Nat /\ DOMAIN t = 1..n
  BY DEF List
<1>3. /\ u \in Seq(Nat) /\ DOMAIN u = 1..m + n
      /\ \A i \in 1..m : u[i] = s[i]
      /\ \A i \in 1..n : u[m + i] = t[i]
  BY <1>1, <1>2
<1> HIDE DEF u, m, n
<1>4. \A i \in 1..m, j \in 1..n : s[i] # t[j]
  BY <1>1, <1>2 DEF Probe!ToSet
<1>5. \A i, j \in 1..m : s[i] = s[j] => i = j
  BY <1>1 DEF List
<1>6. \A i, j \in 1..n : t[i] = t[j] => i = j
  BY <1>2 DEF List
<1>7. \A i \in 1..m + n : i \in 1..m \/ \E j \in 1..n : i = m + j
  <2>1. ASSUME NEW i \in 1..m + n, i \notin 1..m PROVE i - m \in 1..n /\ i = m + (i - m)
    BY <1>1, <1>2, <2>1
  <2> QED BY <2>1
<1>8. List(u)
  <2>1. ASSUME NEW i \in 1..m + n, NEW j \in 1..m + n, u[i] = u[j] PROVE i = j
    <3>1. CASE i \in 1..m /\ j \in 1..m
      BY <1>3, <1>5, <2>1, <3>1
    <3>2. ASSUME NEW x \in 1..n, i = m + x, j \in 1..m PROVE FALSE
      BY <1>3, <1>4, <2>1, <3>2
    <3>3. ASSUME NEW x \in 1..n, j = m + x, i \in 1..m PROVE FALSE
      BY <1>3, <1>4, <2>1, <3>3
    <3>4. ASSUME NEW x \in 1..n, NEW y \in 1..n, i = m + x, j = m + y PROVE i = j
      BY <1>3, <1>6, <2>1, <3>4
    <3> QED BY <1>7, <3>1, <3>2, <3>3, <3>4
  <2> QED BY <1>3, <2>1 DEF List
<1>9. Probe!ToSet(u) = Probe!ToSet(s) \cup Probe!ToSet(t)
  <2>1. ASSUME NEW i \in 1..m + n PROVE u[i] \in Probe!ToSet(s) \cup Probe!ToSet(t)
    <3>1. CASE i \in 1..m
      BY <1>1, <1>3, <3>1 DEF Probe!ToSet
    <3>2. ASSUME NEW x \in 1..n, i = m + x PROVE u[i] \in Probe!ToSet(t)
      BY <1>2, <1>3, <3>2 DEF Probe!ToSet
    <3> QED BY <1>7, <3>1, <3>2
  <2>2. ASSUME NEW i \in 1..m PROVE s[i] \in Probe!ToSet(u)
    <3>1. i \in DOMAIN u /\ u[i] = s[i]
      BY <1>1, <1>2, <1>3
    <3> QED BY <3>1 DEF Probe!ToSet
  <2>3. ASSUME NEW i \in 1..n PROVE t[i] \in Probe!ToSet(u)
    <3>1. m + i \in DOMAIN u /\ u[m + i] = t[i]
      BY <1>1, <1>2, <1>3
    <3> QED BY <3>1 DEF Probe!ToSet
  <2>4. Probe!ToSet(u) \subseteq Probe!ToSet(s) \cup Probe!ToSet(t)
    <3>1. Probe!ToSet(u) = {u[i] : i \in 1..m + n}
      BY <1>3 DEF Probe!ToSet
    <3> QED BY <2>1, <3>1
  <2>5. Probe!ToSet(s) \subseteq Probe!ToSet(u)
    <3>1. Probe!ToSet(s) = {s[i] : i \in 1..m}
      BY <1>1 DEF Probe!ToSet
    <3> QED BY <2>2, <3>1
  <2>6. Probe!ToSet(t) \subseteq Probe!ToSet(u)
    <3>1. Probe!ToSet(t) = {t[i] : i \in 1..n}
      BY <1>2 DEF Probe!ToSet
    <3> QED BY <2>3, <3>1
  <2> QED BY <2>4, <2>5, <2>6
<1> QED BY <1>8, <1>9 DEF u

LEMMA SingleList ==
  ASSUME NEW x \in Nat
  PROVE  List(<<x>>) /\ Probe!ToSet(<<x>>) = {x}
<1>1. <<x>> \in Seq(Nat) /\ DOMAIN <<x>> = {1} /\ <<x>>[1] = x
  OBVIOUS
<1> QED BY <1>1 DEF List, Probe!ToSet

LEMMA PushedList ==
  ASSUME NEW s, List(s), NEW x \in Nat, x \notin Probe!ToSet(s)
  PROVE  List(<<x>> \o s) /\ Probe!ToSet(<<x>> \o s) = {x} \cup Probe!ToSet(s)
BY SingleList, JoinedLists

LEMMA AppendedList ==
  ASSUME NEW s, List(s), NEW x \in Nat, x \notin Probe!ToSet(s)
  PROVE  List(Append(s, x)) /\ Probe!ToSet(Append(s, x)) = Probe!ToSet(s) \cup {x}
<1>1. Append(s, x) = s \o <<x>>
  BY DEF List
<1>2. List(<<x>>) /\ Probe!ToSet(<<x>>) = {x}
  BY SingleList
<1> QED BY <1>1, <1>2, JoinedLists

(* What Only and Without leave of a list.                                  *)
LEMMA OnlyList ==
  ASSUME NEW s, List(s), NEW S
  PROVE  List(Probe!Only(s, S)) /\ Probe!ToSet(Probe!Only(s, S)) = Probe!ToSet(s) \cap S
<1> DEFINE n == Len(s)
           First(k) == {s[i] : i \in 1..k} \cap S
<1>1. /\ s \in Seq(Nat) /\ n \in Nat /\ DOMAIN s = 1..n
      /\ \A i, j \in DOMAIN s : s[i] = s[j] => i = j
  BY DEF List
<1>0. PICK p : /\ p[0] = <<>> /\ p[n] = Probe!Only(s, S)
               /\ \A k \in 0..n - 1 : p[k + 1] = Step("only", S, p[k], s[k + 1])
  <2>1. Run("only", S, <<>>, s, n, Probe!Only(s, S))
    BY <1>1, OnlyRuns
  <2> HIDE DEF n, First
  <2> QED BY <2>1 DEF Run
<1>2. \A k \in 0..n - 1 :
        p[k + 1] = IF s[k + 1] \in S THEN Append(p[k], s[k + 1]) ELSE p[k]
  BY <1>0 DEF Step
<1> DEFINE K == {k \in Nat : List(p[k]) /\ Probe!ToSet(p[k]) = First(k)}
<1>3. 0 \in K
  <2>1. First(0) = {}
    OBVIOUS
  <2> QED BY <1>0, <2>1, EmptyList
<1>4. ASSUME NEW k \in 0..n - 1, k \in K PROVE k + 1 \in K
  <2>1. k \in Nat /\ k + 1 \in DOMAIN s /\ s[k + 1] \in Nat
    BY <1>1
  <2>2. List(p[k]) /\ Probe!ToSet(p[k]) = First(k)
    BY <1>4
  <2>3. s[k + 1] \notin First(k)
    <3>1. \A i \in 1..k : s[i] # s[k + 1]
      BY <1>1, <2>1
    <3> QED BY <3>1
  <2>4. {s[i] : i \in 1..k + 1} = {s[i] : i \in 1..k} \cup {s[k + 1]}
    BY <2>1
  <2>5. First(k + 1) = First(k) \cup ({s[k + 1]} \cap S)
    BY <2>4
  <2> HIDE DEF First
  <2>6. CASE s[k + 1] \in S
    <3>1. p[k + 1] = Append(p[k], s[k + 1])
      BY <1>2, <2>6
    <3>2. List(p[k + 1]) /\ Probe!ToSet(p[k + 1]) = First(k) \cup {s[k + 1]}
      BY <2>1, <2>2, <2>3, <3>1, AppendedList
    <3>3. Probe!ToSet(p[k + 1]) = First(k + 1)
      BY <2>5, <2>6, <3>2
    <3> QED BY <2>1, <3>2, <3>3
  <2>7. CASE s[k + 1] \notin S
    <3>1. p[k + 1] = p[k]
      BY <1>2, <2>7
    <3>2. First(k + 1) = First(k)
      BY <2>5, <2>7
    <3> QED BY <2>1, <2>2, <3>1, <3>2
  <2> QED BY <2>6, <2>7
<1>5. n \in K
  <2> HIDE DEF K, n
  <2> QED BY <1>1, <1>3, <1>4, Upto
<1>6. First(n) = Probe!ToSet(s) \cap S
  BY <1>1 DEF Probe!ToSet
<1> QED BY <1>0, <1>5, <1>6

LEMMA WithoutList ==
  ASSUME NEW s, List(s), NEW S
  PROVE  List(Probe!Without(s, S)) /\ Probe!ToSet(Probe!Without(s, S)) = Probe!ToSet(s) \ S
<1>1. /\ List(Probe!Only(s, Probe!ToSet(s) \ S))
      /\ Probe!ToSet(Probe!Only(s, Probe!ToSet(s) \ S)) = Probe!ToSet(s) \cap (Probe!ToSet(s) \ S)
  BY OnlyList
<1> QED BY <1>1 DEF Probe!Without

(* Parts of a list.                                                        *)
Distinct(s, m, n) == \A i, j \in m..n : s[i] = s[j] => i = j

LEMMA PartOfSeq ==
  ASSUME NEW s \in Seq(Nat), NEW m \in Nat \ {0}, NEW n \in Nat, m <= n + 1, n <= Len(s),
         Distinct(s, m, n)
  PROVE  /\ List(SubSeq(s, m, n)) /\ Len(SubSeq(s, m, n)) = n + 1 - m
         /\ Probe!ToSet(SubSeq(s, m, n)) = {s[i] : i \in m..n}
<1> DEFINE t == SubSeq(s, m, n)
           l == n + 1 - m
<1>1. s \in Seq(Nat) /\ Len(s) \in Nat /\ DOMAIN s = 1..Len(s) /\ l \in Nat
  OBVIOUS
<1>2. /\ t \in Seq(Nat) /\ DOMAIN t = 1..l /\ Len(t) = l
      /\ \A i \in 1..l : t[i] = s[i + m - 1]
  BY <1>1
<1>3. \A i \in 1..l : i + m - 1 \in m..n /\ i + m - 1 \in DOMAIN s
  BY <1>1
<1>4. \A i \in m..n : i + 1 - m \in 1..l /\ (i + 1 - m) + m - 1 = i
  BY <1>1
<1> HIDE DEF t, l
<1>5. List(t)
  <2>1. ASSUME NEW i \in 1..l, NEW j \in 1..l, t[i] = t[j] PROVE i = j
    <3>1. s[i + m - 1] = s[j + m - 1]
      BY <1>2, <2>1
    <3>2. i + m - 1 = j + m - 1
      BY <1>3, <3>1 DEF Distinct
    <3> QED BY <3>2
  <2> QED BY <1>2, <2>1 DEF List
<1>6. Probe!ToSet(t) = {s[i] : i \in m..n}
  <2>1. ASSUME NEW i \in 1..l PROVE t[i] \in {s[j] : j \in m..n}
    BY <1>2, <1>3
  <2>2. ASSUME NEW i \in m..n PROVE s[i] \in Probe!ToSet(t)
    <3>1. i + 1 - m \in DOMAIN t /\ t[i + 1 - m] = s[i]
      BY <1>2, <1>4
    <3> QED BY <3>1 DEF Probe!ToSet
  <2>3. Probe!ToSet(t) = {t[i] : i \in 1..l}
    BY <1>2 DEF Probe!ToSet
  <2> QED BY <2>1, <2>2, <2>3
<1> QED BY <1>2, <1>5, <1>6 DEF t, l

LEMMA PartOfList ==
  ASSUME NEW s, List(s), NEW m \in Nat \ {0}, NEW n \in Nat, m <= n + 1, n <= Len(s)
  PROVE  /\ List(SubSeq(s, m, n)) /\ Len(SubSeq(s, m, n)) = n + 1 - m
         /\ Probe!ToSet(SubSeq(s, m, n)) = {s[i] : i \in m..n}
<1>1. s \in Seq(Nat) /\ DOMAIN s = 1..Len(s) /\ Len(s) \in Nat
  BY DEF List
<1>2. \A i, j \in m..n : i \in DOMAIN s /\ j \in DOMAIN s
  BY <1>1
<1>3. Distinct(s, m, n)
  BY <1>2 DEF List, Distinct
<1> QED BY <1>1, <1>3, PartOfSeq

LEMMA EndsOfList ==
  ASSUME NEW s, List(s), s # <<>>
  PROVE  /\ Head(s) \in Probe!ToSet(s) /\ Probe!Last(s) \in Probe!ToSet(s)
         /\ List(Tail(s)) /\ Probe!ToSet(Tail(s)) = Probe!ToSet(s) \ {Head(s)}
<1>1. s \in Seq(Nat) /\ Len(s) \in Nat \ {0} /\ DOMAIN s = 1..Len(s)
  BY DEF List
<1>2. Head(s) = s[1] /\ 1 \in DOMAIN s /\ Probe!Last(s) = s[Len(s)] /\ Len(s) \in DOMAIN s
  BY <1>1 DEF Probe!Last
<1>3. Head(s) \in Probe!ToSet(s) /\ Probe!Last(s) \in Probe!ToSet(s)
  BY <1>2 DEF Probe!ToSet
<1>4. Tail(s) = SubSeq(s, 2, Len(s))
  BY <1>1
<1>5. List(SubSeq(s, 2, Len(s))) /\ Probe!ToSet(SubSeq(s, 2, Len(s))) = {s[i] : i \in 2..Len(s)}
  <2>1. 2 \in Nat \ {0} /\ Len(s) \in Nat /\ 2 <= Len(s) + 1 /\ Len(s) <= Len(s)
    BY <1>1
  <2> QED BY <2>1, PartOfList
<1>6. {s[i] : i \in 2..Len(s)} = Probe!ToSet(s) \ {s[1]}
  <2>1. \A i \in 2..Len(s) : i \in DOMAIN s /\ s[i] # s[1]
    BY <1>1, <1>2 DEF List
  <2>2. \A i \in DOMAIN s : i = 1 \/ i \in 2..Len(s)
    BY <1>1
  <2> QED BY <2>1, <2>2 DEF Probe!ToSet
<1> QED BY <1>2, <1>3, <1>4, <1>5, <1>6

LEMMA ReversedList ==
  ASSUME NEW s, List(s)
  PROVE  /\ List(Probe!Reverse(s)) /\ Probe!ToSet(Probe!Reverse(s)) = Probe!ToSet(s)
         /\ DOMAIN Probe!Reverse(s) = 1..Len(s) /\ Len(s) \in Nat
<1> DEFINE t == Probe!Reverse(s)
           n == Len(s)
<1>1. s \in Seq(Nat) /\ n \in Nat /\ DOMAIN s = 1..n
  BY DEF List
<1>2. t \in Seq(Nat) /\ DOMAIN t = 1..n /\ \A i \in 1..n : t[i] = s[n - i + 1]
  BY <1>1 DEF Probe!Reverse
<1>3. \A i \in 1..n : n - i + 1 \in 1..n /\ n - (n - i + 1) + 1 = i
  BY <1>1
<1> HIDE DEF t, n
<1>4. List(t)
  <2>1. ASSUME NEW i \in 1..n, NEW j \in 1..n, t[i] = t[j] PROVE i = j
    <3>1. s[n - i + 1] = s[n - j + 1]
      BY <1>2, <2>1
    <3>2. n - i + 1 = n - j + 1
      BY <1>1, <1>3, <3>1 DEF List
    <3> QED BY <1>1, <3>2
  <2> QED BY <1>2, <2>1 DEF List
<1>5. Probe!ToSet(t) = Probe!ToSet(s)
  <2>1. ASSUME NEW i \in 1..n PROVE t[i] \in Probe!ToSet(s)
    BY <1>1, <1>2, <1>3 DEF Probe!ToSet
  <2>2. ASSUME NEW i \in 1..n PROVE s[i] \in Probe!ToSet(t)
    <3>1. n - i + 1 \in DOMAIN t /\ t[n - i + 1] = s[i]
      BY <1>2, <1>3
    <3> QED BY <3>1 DEF Probe!ToSet
  <2> QED BY <1>1, <1>2, <2>1, <2>2 DEF Probe!ToSet
<1> QED BY <1>1, <1>2, <1>4, <1>5 DEF t, n

-----------------------------------------------------------------------------
(* A heap as the operators of the allocator leave it: the chunks lie one   *)
(* after the other below the top, and a free chunk is on one list, once.   *)
Fields(h) ==
  h = [size |-> h.size, tc |-> h.tc, fast |-> h.fast, us |-> h.us, sorted |-> h.sorted,
       top |-> h.top, tcache_count |-> h.tcache_count, trims |-> h.trims]
Tiled(sz, top) ==
  /\ DOMAIN sz \subseteq Nat /\ top \in Nat
  /\ \A c \in DOMAIN sz : sz[c] \in Nat \ {0} /\ c + sz[c] <= top
  /\ \A b, c \in DOMAIN sz : b < c => b + sz[b] <= c
Placed(chunks, tc, fast, us, sorted) ==
  /\ tc \cup fast \cup us \cup sorted \subseteq chunks
  /\ tc \cap fast = {} /\ tc \cap us = {} /\ tc \cap sorted = {}
  /\ fast \cap us = {} /\ fast \cap sorted = {} /\ us \cap sorted = {}
WellFormed(h) ==
  /\ Fields(h) /\ Tiled(h.size, h.top)
  /\ List(h.tc) /\ List(h.fast) /\ List(h.us) /\ List(h.sorted)
  /\ Placed(DOMAIN h.size, Probe!ToSet(h.tc), Probe!ToSet(h.fast), Probe!ToSet(h.us),
            Probe!ToSet(h.sorted))
  /\ \A c \in Probe!ToSet(h.fast) : h.size[c] <= Probe!MAX_FAST
  /\ h.tcache_count = 0 => h.tc = <<>>

(* The chunks in use are those on no list.                                 *)
LEMMA InUseIs ==
  ASSUME NEW h, WellFormed(h)
  PROVE  /\ Probe!InUse(h) = DOMAIN h.size \ (Probe!ToSet(h.tc) \cup Probe!ToSet(h.fast)
                                             \cup Probe!ToSet(h.us) \cup Probe!ToSet(h.sorted))
         /\ Probe!Coalescible(h) = Probe!ToSet(h.us) \cup Probe!ToSet(h.sorted)
<1>1. \A x : /\ Probe!In(x, h.tc) <=> x \in Probe!ToSet(h.tc)
             /\ Probe!In(x, h.fast) <=> x \in Probe!ToSet(h.fast)
             /\ Probe!In(x, h.us) <=> x \in Probe!ToSet(h.us)
             /\ Probe!In(x, h.sorted) <=> x \in Probe!ToSet(h.sorted)
  BY ListBasics DEF WellFormed
<1>2. Probe!ToSet(h.us) \cup Probe!ToSet(h.sorted) \subseteq DOMAIN h.size
  BY DEF WellFormed, Placed
<1> QED BY <1>1, <1>2 DEF Probe!InUse, Probe!Coalescible

(* There is room only in a tcache that there is.                           *)
LEMMA RoomMeansTcache ==
  ASSUME NEW h, WellFormed(h), NEW m, Probe!TcacheRoom(h, m)
  PROVE  h.tcache_count # 0
<1> DEFINE s == Probe!OfSize(h, h.tc, m)
<1>1. List(s)
  BY OnlyList DEF WellFormed, Probe!OfSize
<1>2. Len(s) \in Nat /\ Len(s) < h.tcache_count
  BY <1>1, ListBasics DEF Probe!TcacheRoom
<1> HIDE DEF s
<1> QED BY <1>2

(* A chunk of a list, or in use, goes to the tcache.                       *)
LEMMA CachedHeap ==
  ASSUME NEW h, WellFormed(h), NEW c \in DOMAIN h.size, c \notin Probe!ToSet(h.tc),
         h.tcache_count # 0
  PROVE  /\ WellFormed(Probe!Cached(h, c))
         /\ Probe!InUse(Probe!Cached(h, c)) = Probe!InUse(h) \ {c}
         /\ Probe!Cached(h, c).size = h.size /\ Probe!Cached(h, c).tcache_count = h.tcache_count
         /\ Probe!ToSet(Probe!Cached(h, c).tc) = {c} \cup Probe!ToSet(h.tc)
         /\ Probe!ToSet(Probe!Cached(h, c).us) = Probe!ToSet(h.us) \ {c}
         /\ Probe!ToSet(Probe!Cached(h, c).sorted) = Probe!ToSet(h.sorted) \ {c}
<1> DEFINE g == Probe!Cached(h, c)
<1>1. /\ Fields(g) /\ g.size = h.size /\ g.top = h.top /\ g.tcache_count = h.tcache_count
      /\ g.tc = <<c>> \o h.tc /\ g.fast = Probe!Without(h.fast, {c})
      /\ g.us = Probe!Without(h.us, {c}) /\ g.sorted = Probe!Without(h.sorted, {c})
  <2>1. Fields(h)
    BY DEF WellFormed
  <2> DEFINE new_tc == <<c>> \o h.tc
             new_fast == Probe!Without(h.fast, {c})
             new_us == Probe!Without(h.us, {c})
             new_sorted == Probe!Without(h.sorted, {c})
  <2>2. g = [h EXCEPT !.tc = new_tc, !.fast = new_fast, !.us = new_us, !.sorted = new_sorted]
    BY DEF Probe!Cached
  <2> HIDE DEF g, new_tc, new_fast, new_us, new_sorted
  <2>3. /\ Fields(g) /\ g.size = h.size /\ g.top = h.top /\ g.tcache_count = h.tcache_count
        /\ g.tc = new_tc /\ g.fast = new_fast /\ g.us = new_us /\ g.sorted = new_sorted
    BY <2>1, <2>2 DEF Fields
  <2> QED BY <2>3 DEF new_tc, new_fast, new_us, new_sorted
<1> HIDE DEF g
<1>2. c \in Nat
  BY DEF WellFormed, Tiled
<1>3. List(g.tc) /\ Probe!ToSet(g.tc) = {c} \cup Probe!ToSet(h.tc)
  BY <1>1, <1>2, PushedList DEF WellFormed
<1>4. List(g.fast) /\ Probe!ToSet(g.fast) = Probe!ToSet(h.fast) \ {c}
  BY <1>1, WithoutList DEF WellFormed
<1>5. List(g.us) /\ Probe!ToSet(g.us) = Probe!ToSet(h.us) \ {c}
  BY <1>1, WithoutList DEF WellFormed
<1>6. List(g.sorted) /\ Probe!ToSet(g.sorted) = Probe!ToSet(h.sorted) \ {c}
  BY <1>1, WithoutList DEF WellFormed
<1>7. Placed(DOMAIN g.size, Probe!ToSet(g.tc), Probe!ToSet(g.fast), Probe!ToSet(g.us),
             Probe!ToSet(g.sorted))
  BY <1>1, <1>3, <1>4, <1>5, <1>6 DEF WellFormed, Placed
<1>8. WellFormed(g)
  BY <1>1, <1>3, <1>4, <1>5, <1>6, <1>7 DEF WellFormed
<1>9. Probe!InUse(g) = Probe!InUse(h) \ {c}
  BY <1>1, <1>3, <1>4, <1>5, <1>6, <1>8, InUseIs
<1> QED BY <1>1, <1>3, <1>5, <1>6, <1>8, <1>9 DEF g

(* A chunk leaves its list for a request.                                  *)
LEMMA TakenHeap ==
  ASSUME NEW h, WellFormed(h), NEW c \in DOMAIN h.size
  PROVE  /\ WellFormed(Probe!Taken(h, c))
         /\ Probe!InUse(Probe!Taken(h, c)) = Probe!InUse(h) \cup {c}
         /\ Probe!Taken(h, c).size = h.size /\ Probe!Taken(h, c).top = h.top
         /\ Probe!Taken(h, c).tcache_count = h.tcache_count
         /\ Probe!ToSet(Probe!Taken(h, c).tc) = Probe!ToSet(h.tc) \ {c}
<1> DEFINE g == Probe!Taken(h, c)
<1>1. /\ Fields(g) /\ g.size = h.size /\ g.top = h.top /\ g.tcache_count = h.tcache_count
      /\ g.tc = Probe!Without(h.tc, {c}) /\ g.fast = Probe!Without(h.fast, {c})
      /\ g.us = Probe!Without(h.us, {c}) /\ g.sorted = Probe!Without(h.sorted, {c})
  <2>1. Fields(h)
    BY DEF WellFormed
  <2> DEFINE new_tc == Probe!Without(h.tc, {c})
             new_fast == Probe!Without(h.fast, {c})
             new_us == Probe!Without(h.us, {c})
             new_sorted == Probe!Without(h.sorted, {c})
  <2>2. g = [h EXCEPT !.tc = new_tc, !.fast = new_fast, !.us = new_us, !.sorted = new_sorted]
    BY DEF Probe!Taken
  <2> HIDE DEF g, new_tc, new_fast, new_us, new_sorted
  <2>3. /\ Fields(g) /\ g.size = h.size /\ g.top = h.top /\ g.tcache_count = h.tcache_count
        /\ g.tc = new_tc /\ g.fast = new_fast /\ g.us = new_us /\ g.sorted = new_sorted
    BY <2>1, <2>2 DEF Fields
  <2> QED BY <2>3 DEF new_tc, new_fast, new_us, new_sorted
<1> HIDE DEF g
<1>3. List(g.tc) /\ Probe!ToSet(g.tc) = Probe!ToSet(h.tc) \ {c}
  BY <1>1, WithoutList DEF WellFormed
<1>4. List(g.fast) /\ Probe!ToSet(g.fast) = Probe!ToSet(h.fast) \ {c}
  BY <1>1, WithoutList DEF WellFormed
<1>5. List(g.us) /\ Probe!ToSet(g.us) = Probe!ToSet(h.us) \ {c}
  BY <1>1, WithoutList DEF WellFormed
<1>6. List(g.sorted) /\ Probe!ToSet(g.sorted) = Probe!ToSet(h.sorted) \ {c}
  BY <1>1, WithoutList DEF WellFormed
<1>7. Placed(DOMAIN g.size, Probe!ToSet(g.tc), Probe!ToSet(g.fast), Probe!ToSet(g.us),
             Probe!ToSet(g.sorted))
  BY <1>1, <1>3, <1>4, <1>5, <1>6 DEF WellFormed, Placed
<1>10. h.tc = <<>> => g.tc = <<>>
  BY <1>3, EmptyList, ListBasics
<1>8. WellFormed(g)
  BY <1>1, <1>3, <1>4, <1>5, <1>6, <1>7, <1>10 DEF WellFormed
<1>9. Probe!InUse(g) = Probe!InUse(h) \cup {c}
  <2> DEFINE free == Probe!ToSet(h.tc) \cup Probe!ToSet(h.fast) \cup Probe!ToSet(h.us)
                     \cup Probe!ToSet(h.sorted)
  <2>1. Probe!InUse(h) = DOMAIN h.size \ free
    BY InUseIs
  <2>2. Probe!InUse(g) = DOMAIN h.size \ (free \ {c})
    <3>1. Probe!InUse(g) = DOMAIN g.size \ (Probe!ToSet(g.tc) \cup Probe!ToSet(g.fast)
                                            \cup Probe!ToSet(g.us) \cup Probe!ToSet(g.sorted))
      BY <1>8, InUseIs
    <3> QED BY <1>1, <1>3, <1>4, <1>5, <1>6, <3>1
  <2> HIDE DEF free
  <2> QED BY <2>1, <2>2
<1> QED BY <1>1, <1>3, <1>8, <1>9 DEF g

(* A chunk of the unsorted bin goes to the bin of its size.                *)
LEMMA BinnedHeap ==
  ASSUME NEW h, WellFormed(h), NEW c \in Probe!ToSet(h.us)
  PROVE  /\ WellFormed(Probe!Binned(h, c))
         /\ Probe!InUse(Probe!Binned(h, c)) = Probe!InUse(h)
         /\ Probe!Binned(h, c).tcache_count = h.tcache_count
         /\ Probe!ToSet(Probe!Binned(h, c).us) = Probe!ToSet(h.us) \ {c}
<1> DEFINE g == Probe!Binned(h, c)
<1>1. /\ Fields(g) /\ g.size = h.size /\ g.top = h.top /\ g.tcache_count = h.tcache_count /\ g.tc = h.tc /\ g.fast = h.fast
      /\ g.us = Probe!Without(h.us, {c}) /\ g.sorted = <<c>> \o h.sorted
  <2>1. Fields(h)
    BY DEF WellFormed
  <2> DEFINE new_us == Probe!Without(h.us, {c})
             new_sorted == <<c>> \o h.sorted
  <2>2. g = [h EXCEPT !.us = new_us, !.sorted = new_sorted]
    BY DEF Probe!Binned
  <2> HIDE DEF g, new_us, new_sorted
  <2>3. /\ Fields(g) /\ g.size = h.size /\ g.top = h.top /\ g.tcache_count = h.tcache_count /\ g.tc = h.tc /\ g.fast = h.fast
        /\ g.us = new_us /\ g.sorted = new_sorted
    BY <2>1, <2>2 DEF Fields
  <2> QED BY <2>3 DEF new_us, new_sorted
<1> HIDE DEF g
<1>2. c \in Nat /\ c \in DOMAIN h.size /\ c \notin Probe!ToSet(h.sorted)
  BY DEF WellFormed, Tiled, Placed
<1>3. List(g.us) /\ Probe!ToSet(g.us) = Probe!ToSet(h.us) \ {c}
  BY <1>1, WithoutList DEF WellFormed
<1>4. List(g.sorted) /\ Probe!ToSet(g.sorted) = {c} \cup Probe!ToSet(h.sorted)
  BY <1>1, <1>2, PushedList DEF WellFormed
<1>5. Placed(DOMAIN g.size, Probe!ToSet(g.tc), Probe!ToSet(g.fast), Probe!ToSet(g.us),
             Probe!ToSet(g.sorted))
  BY <1>1, <1>2, <1>3, <1>4 DEF WellFormed, Placed
<1>6. WellFormed(g)
  BY <1>1, <1>3, <1>4, <1>5 DEF WellFormed
<1>7. Probe!InUse(g) = Probe!InUse(h)
  <2>1. c \in Probe!ToSet(h.us)
    OBVIOUS
  <2>2. /\ Probe!InUse(h) = DOMAIN h.size \ (Probe!ToSet(h.tc) \cup Probe!ToSet(h.fast)
                                             \cup Probe!ToSet(h.us) \cup Probe!ToSet(h.sorted))
        /\ Probe!InUse(g) = DOMAIN g.size \ (Probe!ToSet(g.tc) \cup Probe!ToSet(g.fast)
                                             \cup Probe!ToSet(g.us) \cup Probe!ToSet(g.sorted))
    BY <1>6, InUseIs
  <2> QED BY <1>1, <1>3, <1>4, <2>1, <2>2
<1> QED BY <1>1, <1>3, <1>6, <1>7 DEF g

(* A small chunk in use goes to a fastbin.                                 *)
LEMMA FastHeap ==
  ASSUME NEW h, WellFormed(h), NEW c \in Probe!InUse(h), h.size[c] <= Probe!MAX_FAST
  PROVE  /\ WellFormed([h EXCEPT !.fast = <<c>> \o @])
         /\ Probe!InUse([h EXCEPT !.fast = <<c>> \o @]) = Probe!InUse(h) \ {c}
         /\ [h EXCEPT !.fast = <<c>> \o @].tcache_count = h.tcache_count
<1> DEFINE g == [h EXCEPT !.fast = <<c>> \o @]
<1>1. /\ Fields(g) /\ g.size = h.size /\ g.top = h.top /\ g.tcache_count = h.tcache_count /\ g.tc = h.tc
      /\ g.fast = <<c>> \o h.fast /\ g.us = h.us /\ g.sorted = h.sorted
  <2>1. Fields(h)
    BY DEF WellFormed
  <2> DEFINE new_fast == <<c>> \o h.fast
  <2>2. g = [h EXCEPT !.fast = new_fast]
    OBVIOUS
  <2> HIDE DEF g, new_fast
  <2>3. /\ Fields(g) /\ g.size = h.size /\ g.top = h.top /\ g.tcache_count = h.tcache_count /\ g.tc = h.tc /\ g.us = h.us /\ g.sorted = h.sorted
        /\ g.fast = new_fast
    BY <2>1, <2>2 DEF Fields
  <2> QED BY <2>3 DEF new_fast
<1> HIDE DEF g
<1>2. /\ c \in DOMAIN h.size /\ c \notin Probe!ToSet(h.tc) /\ c \notin Probe!ToSet(h.fast)
      /\ c \notin Probe!ToSet(h.us) /\ c \notin Probe!ToSet(h.sorted)
  BY InUseIs
<1>3. c \in Nat
  BY <1>2 DEF WellFormed, Tiled
<1>4. List(g.fast) /\ Probe!ToSet(g.fast) = {c} \cup Probe!ToSet(h.fast)
  BY <1>1, <1>2, <1>3, PushedList DEF WellFormed
<1>5. Placed(DOMAIN g.size, Probe!ToSet(g.tc), Probe!ToSet(g.fast), Probe!ToSet(g.us),
             Probe!ToSet(g.sorted))
  BY <1>1, <1>2, <1>4 DEF WellFormed, Placed
<1>6. WellFormed(g)
  BY <1>1, <1>4, <1>5 DEF WellFormed
<1>7. Probe!InUse(g) = Probe!InUse(h) \ {c}
  BY <1>1, <1>4, <1>6, InUseIs
<1> QED BY <1>1, <1>6, <1>7 DEF g

(* malloc_consolidate() starts with every chunk of the fastbins off it.    *)
LEMMA NoFastHeap ==
  ASSUME NEW h, WellFormed(h)
  PROVE  /\ WellFormed([h EXCEPT !.fast = <<>>]) /\ [h EXCEPT !.fast = <<>>].fast = <<>>
         /\ Probe!InUse([h EXCEPT !.fast = <<>>]) = Probe!InUse(h) \cup Probe!ToSet(h.fast)
         /\ [h EXCEPT !.fast = <<>>].tcache_count = h.tcache_count
<1> DEFINE g == [h EXCEPT !.fast = <<>>]
<1>1. /\ Fields(g) /\ g.size = h.size /\ g.top = h.top /\ g.tcache_count = h.tcache_count /\ g.tc = h.tc
      /\ g.fast = <<>> /\ g.us = h.us /\ g.sorted = h.sorted
  <2>1. Fields(h)
    BY DEF WellFormed
  <2> QED BY <2>1 DEF Fields
<1> HIDE DEF g
<1>2. List(g.fast) /\ Probe!ToSet(g.fast) = {}
  BY <1>1, EmptyList
<1>3. Placed(DOMAIN g.size, Probe!ToSet(g.tc), Probe!ToSet(g.fast), Probe!ToSet(g.us),
             Probe!ToSet(g.sorted))
  BY <1>1, <1>2 DEF WellFormed, Placed
<1>4. WellFormed(g)
  BY <1>1, <1>2, <1>3 DEF WellFormed
<1>5. Probe!InUse(g) = Probe!InUse(h) \cup Probe!ToSet(h.fast)
  <2>1. /\ Probe!ToSet(h.fast) \subseteq DOMAIN h.size
        /\ Probe!ToSet(h.fast) \cap Probe!ToSet(h.tc) = {}
        /\ Probe!ToSet(h.fast) \cap Probe!ToSet(h.us) = {}
        /\ Probe!ToSet(h.fast) \cap Probe!ToSet(h.sorted) = {}
    BY DEF WellFormed, Placed
  <2> QED BY <1>1, <1>2, <1>4, <2>1, InUseIs
<1> QED BY <1>1, <1>4, <1>5 DEF g

-----------------------------------------------------------------------------
(* Coalescing: a chunk and its free neighbours lie one after the other,    *)
(* from start to end, and no other chunk lies between.                     *)
LEMMA NeighboursJoin ==
  ASSUME NEW sz, NEW top, Tiled(sz, top), NEW c \in DOMAIN sz, NEW parts \in SUBSET DOMAIN sz,
         c \in parts, \A b \in parts : b = c \/ b + sz[b] = c \/ b = c + sz[c]
  PROVE  LET start == Probe!Min(parts)
             end == Probe!Max({b + sz[b] : b \in parts})
         IN /\ start \in parts /\ start \in Nat /\ end \in Nat /\ start < end /\ end <= top
            /\ \A b \in DOMAIN sz \ parts : b + sz[b] <= start \/ end <= b
<1> DEFINE start == Probe!Min(parts)
           ends == {b + sz[b] : b \in parts}
           end == Probe!Max(ends)
<1>1. /\ DOMAIN sz \subseteq Nat /\ top \in Nat
      /\ \A b \in DOMAIN sz : sz[b] \in Nat \ {0} /\ b + sz[b] <= top
      /\ \A b, d \in DOMAIN sz : b < d => b + sz[b] <= d
  BY DEF Tiled
<1>2. start \in parts /\ \A b \in parts : start <= b
  <2>1. parts \in SUBSET Nat /\ parts # {}
    BY <1>1
  <2> QED BY <2>1, MinOf
<1>3. end \in ends /\ \A m \in ends : end >= m
  <2>1. ends \in SUBSET Nat /\ ends # {} /\ \A m \in ends : m <= top
    BY <1>1
  <2> HIDE DEF ends
  <2> QED BY <1>1, <2>1, MaxOf
<1> HIDE DEF start, end
<1>4. PICK e \in parts : end = e + sz[e]
  BY <1>3
<1>5. start \in DOMAIN sz /\ start \in Nat /\ e \in DOMAIN sz /\ e \in Nat /\ c \in Nat
  BY <1>1, <1>2, <1>4
<1>6. end \in Nat /\ end <= top /\ start < end
  <2>1. e + sz[e] \in Nat /\ e + sz[e] <= top /\ e < e + sz[e] /\ start <= e
    BY <1>1, <1>2, <1>4, <1>5
  <2> QED BY <1>4, <1>5, <2>1
<1>7. ASSUME NEW b \in DOMAIN sz \ parts PROVE b + sz[b] <= start \/ end <= b
  <2>1. b \in Nat /\ sz[b] \in Nat \ {0} /\ sz[start] \in Nat \ {0} /\ sz[e] \in Nat \ {0}
        /\ sz[c] \in Nat \ {0} /\ b # start /\ b # e /\ b # c
    BY <1>1, <1>2, <1>4, <1>5
  <2>2. CASE b < start
    BY <1>1, <1>5, <2>2
  <2>3. CASE e < b
    BY <1>1, <1>4, <1>5, <2>3
  <2>4. CASE start < b /\ b < e
    <3>1. /\ start = c \/ start + sz[start] = c \/ start = c + sz[c]
          /\ e = c \/ e + sz[e] = c \/ e = c + sz[c]
      BY <1>2, <1>4
    <3>2. CASE b < c
      <4>1. start + sz[start] <= b
        BY <1>1, <1>5, <2>4
      <4>2. start < c
        BY <1>5, <2>1, <2>4, <3>2
      <4>3. start + sz[start] = c
        BY <1>5, <2>1, <3>1, <4>2
      <4> QED BY <1>5, <2>1, <3>2, <4>1, <4>3
    <3>3. CASE c < b
      <4>1. c + sz[c] <= b
        BY <1>1, <1>5, <3>3
      <4>2. c < e
        BY <1>5, <2>1, <2>4, <3>3
      <4>3. e = c + sz[c]
        BY <1>5, <2>1, <3>1, <4>2
      <4> QED BY <1>5, <2>1, <2>4, <4>1, <4>3
    <3> QED BY <1>5, <2>1, <3>2, <3>3
  <2> QED BY <1>5, <2>1, <2>2, <2>3, <2>4
<1> QED BY <1>2, <1>5, <1>6, <1>7 DEF start, end

(* What is in use becomes free, whatever it joins.                         *)
LEMMA ReleasedHeap ==
  ASSUME NEW h, WellFormed(h), NEW c \in Probe!InUse(h)
  PROVE  /\ WellFormed(Probe!Release(h, c))
         /\ Probe!InUse(Probe!Release(h, c)) = Probe!InUse(h) \ {c}
         /\ Probe!Release(h, c).fast = h.fast /\ Probe!Release(h, c).tcache_count = h.tcache_count
<1> DEFINE parts == {c} \cup {b \in Probe!Coalescible(h) : b + h.size[b] = c \/ b = c + h.size[c]}
           start == Probe!Min(parts)
           end == Probe!Max({b + h.size[b] : b \in parts})
           rest == DOMAIN h.size \ parts
           g == Probe!Release(h, c)
<1>1. /\ c \in DOMAIN h.size /\ c \notin Probe!ToSet(h.tc) /\ c \notin Probe!ToSet(h.fast)
      /\ c \notin Probe!ToSet(h.us) /\ c \notin Probe!ToSet(h.sorted)
  BY InUseIs
<1>2. /\ Fields(h) /\ Tiled(h.size, h.top)
      /\ List(h.tc) /\ List(h.fast) /\ List(h.us) /\ List(h.sorted)
      /\ Placed(DOMAIN h.size, Probe!ToSet(h.tc), Probe!ToSet(h.fast), Probe!ToSet(h.us),
                Probe!ToSet(h.sorted))
      /\ \A b \in Probe!ToSet(h.fast) : h.size[b] <= Probe!MAX_FAST
      /\ h.tcache_count = 0 => h.tc = <<>>
  BY DEF WellFormed
<1>3. /\ parts \subseteq DOMAIN h.size /\ c \in parts
      /\ \A b \in parts : b = c \/ b + h.size[b] = c \/ b = c + h.size[c]
      /\ parts \ {c} \subseteq Probe!ToSet(h.us) \cup Probe!ToSet(h.sorted)
  <2>1. Probe!Coalescible(h) = Probe!ToSet(h.us) \cup Probe!ToSet(h.sorted)
    BY InUseIs
  <2>2. Probe!ToSet(h.us) \cup Probe!ToSet(h.sorted) \subseteq DOMAIN h.size
    BY <1>2 DEF Placed
  <2> QED BY <1>1, <2>1, <2>2
<1>4. g = Probe!Merged(h, parts, start, end)
  BY DEF Probe!Release, Probe!Join
<1> HIDE DEF parts, g
<1>5. /\ start \in parts /\ start \in Nat /\ end \in Nat /\ start < end /\ end <= h.top
      /\ \A b \in rest : b + h.size[b] <= start \/ end <= b
  BY <1>1, <1>2, <1>3, NeighboursJoin
<1> HIDE DEF start, end
<1>6. /\ parts \cap Probe!ToSet(h.tc) = {} /\ parts \cap Probe!ToSet(h.fast) = {}
      /\ Probe!ToSet(h.tc) \subseteq rest /\ Probe!ToSet(h.fast) \subseteq rest
      /\ Probe!ToSet(h.us) \ parts \subseteq rest /\ Probe!ToSet(h.sorted) \ parts \subseteq rest
  BY <1>1, <1>2, <1>3 DEF Placed
<1>7. /\ List(Probe!Without(h.us, parts)) /\ List(Probe!Without(h.sorted, parts))
      /\ Probe!ToSet(Probe!Without(h.us, parts)) = Probe!ToSet(h.us) \ parts
      /\ Probe!ToSet(Probe!Without(h.sorted, parts)) = Probe!ToSet(h.sorted) \ parts
  BY <1>2, WithoutList
<1>8. /\ rest \subseteq Nat /\ start \notin rest
      /\ \A b \in rest : b \in Nat /\ h.size[b] \in Nat \ {0} /\ b + h.size[b] <= h.top
      /\ \A b, d \in rest : b < d => b + h.size[b] <= d
  BY <1>2, <1>5 DEF Tiled
<1>9. h.top \in Nat
  BY <1>2 DEF Tiled
<1> HIDE DEF rest
<1>10. CASE end = h.top
  <2> DEFINE sz == [b \in rest |-> h.size[b]]
             new_us == Probe!Without(h.us, parts)
             new_sorted == Probe!Without(h.sorted, parts)
  <2>1. g = [h EXCEPT !.size = sz, !.top = start, !.us = new_us, !.sorted = new_sorted]
    BY <1>4, <1>10 DEF Probe!Merged, rest
  <2> HIDE DEF sz, new_us, new_sorted
  <2>2. /\ Fields(g) /\ g.size = sz /\ g.top = start /\ g.tc = h.tc /\ g.fast = h.fast
        /\ g.us = new_us /\ g.sorted = new_sorted /\ g.tcache_count = h.tcache_count
    BY <1>2, <2>1 DEF Fields
  <2>3. DOMAIN sz = rest /\ \A b \in rest : sz[b] = h.size[b]
    BY DEF sz
  <2>4. Tiled(sz, start)
    <3>1. \A b \in rest : sz[b] \in Nat \ {0} /\ b + sz[b] <= start
      BY <1>5, <1>8, <1>9, <1>10, <2>3
    <3>2. \A b, d \in rest : b < d => b + sz[b] <= d
      BY <1>8, <2>3
    <3> QED BY <1>5, <1>8, <2>3, <3>1, <3>2 DEF Tiled
  <2>5. Placed(DOMAIN g.size, Probe!ToSet(g.tc), Probe!ToSet(g.fast), Probe!ToSet(g.us),
               Probe!ToSet(g.sorted))
    BY <1>2, <1>6, <1>7, <2>2, <2>3 DEF Placed, new_us, new_sorted
  <2>6. \A b \in Probe!ToSet(g.fast) : g.size[b] <= Probe!MAX_FAST
    BY <1>2, <1>6, <2>2, <2>3
  <2>7. WellFormed(g)
    BY <1>2, <1>7, <2>2, <2>4, <2>5, <2>6 DEF WellFormed, new_us, new_sorted
  <2>8. Probe!InUse(g) = rest \ (Probe!ToSet(h.tc) \cup Probe!ToSet(h.fast)
                                \cup (Probe!ToSet(h.us) \ parts) \cup (Probe!ToSet(h.sorted) \ parts))
    BY <1>7, <2>2, <2>3, <2>7, InUseIs DEF new_us, new_sorted
  <2>9. Probe!InUse(g) = Probe!InUse(h) \ {c}
    <3>1. Probe!InUse(h) = DOMAIN h.size \ (Probe!ToSet(h.tc) \cup Probe!ToSet(h.fast)
                                           \cup Probe!ToSet(h.us) \cup Probe!ToSet(h.sorted))
      BY InUseIs
    <3> QED BY <1>1, <1>3, <2>8, <3>1 DEF rest
  <2> QED BY <2>2, <2>7, <2>9 DEF g
<1>11. CASE end # h.top
  <2> DEFINE sz == [b \in rest \cup {start} |-> IF b = start THEN end - start ELSE h.size[b]]
             new_us == <<start>> \o Probe!Without(h.us, parts)
             new_sorted == Probe!Without(h.sorted, parts)
  <2>1. g = [h EXCEPT !.size = sz, !.us = new_us, !.sorted = new_sorted]
    BY <1>4, <1>11 DEF Probe!Merged, rest
  <2>0. List(new_us) /\ Probe!ToSet(new_us) = {start} \cup (Probe!ToSet(h.us) \ parts)
    BY <1>5, <1>7, PushedList
  <2> HIDE DEF sz, new_us, new_sorted
  <2>2. /\ Fields(g) /\ g.size = sz /\ g.top = h.top /\ g.tc = h.tc /\ g.fast = h.fast
        /\ g.us = new_us /\ g.sorted = new_sorted /\ g.tcache_count = h.tcache_count
    BY <1>2, <2>1 DEF Fields
  <2>3. /\ DOMAIN sz = rest \cup {start} /\ sz[start] = end - start
        /\ \A b \in rest : sz[b] = h.size[b]
    BY <1>8 DEF sz
  <2>4. Tiled(sz, h.top)
    <3>1. end - start \in Nat \ {0} /\ start + (end - start) = end
      BY <1>5
    <3>2. \A b \in rest \cup {start} : sz[b] \in Nat \ {0} /\ b + sz[b] <= h.top
      BY <1>5, <1>8, <2>3, <3>1
    <3>3. ASSUME NEW b \in rest \cup {start}, NEW d \in rest \cup {start}, b < d
          PROVE  b + sz[b] <= d
      <4>1. CASE b \in rest /\ d \in rest
        BY <1>8, <2>3, <3>3, <4>1
      <4>2. CASE b = start /\ d \in rest
        <5>1. d \in Nat /\ h.size[d] \in Nat \ {0} /\ (d + h.size[d] <= start \/ end <= d)
          BY <1>5, <1>8, <4>2
        <5> QED BY <1>5, <2>3, <3>1, <3>3, <4>2, <5>1
      <4>3. CASE b \in rest /\ d = start
        <5>1. b \in Nat /\ h.size[b] \in Nat \ {0} /\ (b + h.size[b] <= start \/ end <= b)
          BY <1>5, <1>8, <4>3
        <5> QED BY <1>5, <2>3, <3>3, <4>3, <5>1
      <4>4. CASE b = start /\ d = start
        BY <1>5, <3>3, <4>4
      <4> QED BY <4>1, <4>2, <4>3, <4>4
    <3> QED BY <1>5, <1>8, <1>9, <2>3, <3>2, <3>3 DEF Tiled
  <2>5. Placed(DOMAIN g.size, Probe!ToSet(g.tc), Probe!ToSet(g.fast), Probe!ToSet(g.us),
               Probe!ToSet(g.sorted))
    BY <1>2, <1>5, <1>6, <1>7, <1>8, <2>0, <2>2, <2>3 DEF Placed, new_sorted
  <2>6. \A b \in Probe!ToSet(g.fast) : g.size[b] <= Probe!MAX_FAST
    BY <1>2, <1>6, <2>2, <2>3
  <2>7. WellFormed(g)
    BY <1>2, <1>7, <2>0, <2>2, <2>4, <2>5, <2>6 DEF WellFormed, new_sorted
  <2>8. Probe!InUse(g) = (rest \cup {start})
                         \ (Probe!ToSet(h.tc) \cup Probe!ToSet(h.fast)
                            \cup ({start} \cup (Probe!ToSet(h.us) \ parts))
                            \cup (Probe!ToSet(h.sorted) \ parts))
    BY <1>7, <2>0, <2>2, <2>3, <2>7, InUseIs DEF new_sorted
  <2>9. Probe!InUse(g) = Probe!InUse(h) \ {c}
    <3>1. Probe!InUse(h) = DOMAIN h.size \ (Probe!ToSet(h.tc) \cup Probe!ToSet(h.fast)
                                           \cup Probe!ToSet(h.us) \cup Probe!ToSet(h.sorted))
      BY InUseIs
    <3> QED BY <1>1, <1>3, <1>5, <2>8, <3>1 DEF rest
  <2> QED BY <2>2, <2>7, <2>9 DEF g
<1> QED BY <1>10, <1>11

(* The first k chunks of a list.                                           *)
FirstOf(s, k) == {s[i] : i \in 1..k}

LEMMA FirstOfList ==
  ASSUME NEW s, List(s)
  PROVE  /\ FirstOf(s, 0) = {} /\ FirstOf(s, Len(s)) = Probe!ToSet(s)
         /\ Len(s) \in Nat /\ DOMAIN s = 1..Len(s)
         /\ \A k \in 0..Len(s) - 1 :
              /\ k + 1 \in 1..Len(s) /\ s[k + 1] \in Nat /\ s[k + 1] \in Probe!ToSet(s)
              /\ s[k + 1] \notin FirstOf(s, k)
              /\ FirstOf(s, k + 1) = FirstOf(s, k) \cup {s[k + 1]}
<1>1. s \in Seq(Nat) /\ Len(s) \in Nat /\ DOMAIN s = 1..Len(s)
  BY DEF List
<1>2. FirstOf(s, 0) = {} /\ FirstOf(s, Len(s)) = Probe!ToSet(s)
  BY <1>1 DEF FirstOf, Probe!ToSet
<1>3. ASSUME NEW k \in 0..Len(s) - 1
      PROVE  /\ k + 1 \in 1..Len(s) /\ s[k + 1] \in Nat /\ s[k + 1] \in Probe!ToSet(s)
             /\ s[k + 1] \notin FirstOf(s, k)
             /\ FirstOf(s, k + 1) = FirstOf(s, k) \cup {s[k + 1]}
  <2>1. k \in Nat /\ k + 1 \in 1..Len(s) /\ k + 1 \in DOMAIN s
    BY <1>1
  <2>2. s[k + 1] \in Nat /\ s[k + 1] \in Probe!ToSet(s)
    BY <1>1, <2>1 DEF Probe!ToSet
  <2>3. s[k + 1] \notin FirstOf(s, k)
    <3>1. \A i \in 1..k : i \in DOMAIN s /\ i # k + 1
      BY <1>1, <2>1
    <3> QED BY <2>1, <3>1 DEF FirstOf, List
  <2>4. FirstOf(s, k + 1) = FirstOf(s, k) \cup {s[k + 1]}
    <3>1. 1..k + 1 = (1..k) \cup {k + 1}
      BY <2>1
    <3> QED BY <3>1 DEF FirstOf
  <2> QED BY <2>1, <2>2, <2>3, <2>4
<1> QED BY <1>1, <1>2, <1>3

LEMMA AllReleased ==
  ASSUME NEW h, WellFormed(h), NEW s, List(s), Probe!ToSet(s) \subseteq Probe!InUse(h)
  PROVE  /\ WellFormed(Probe!ReleaseAll(h, s))
         /\ Probe!InUse(Probe!ReleaseAll(h, s)) = Probe!InUse(h) \ Probe!ToSet(s)
         /\ Probe!ReleaseAll(h, s).fast = h.fast
         /\ Probe!ReleaseAll(h, s).tcache_count = h.tcache_count
<1> DEFINE n == Len(s)
<1>1. n \in Nat /\ DOMAIN s = 1..n
  BY FirstOfList
<1>2. PICK p : /\ p[0] = h /\ p[n] = Probe!ReleaseAll(h, s)
               /\ \A k \in 0..n - 1 : p[k + 1] = Step("release", h, p[k], s[k + 1])
  <2>1. Run("release", h, h, s, n, Probe!ReleaseAll(h, s))
    BY <1>1, ReleaseAllRuns
  <2> HIDE DEF n
  <2> QED BY <2>1 DEF Run
<1> DEFINE Good(k) == /\ WellFormed(p[k]) /\ p[k].fast = h.fast
                      /\ p[k].tcache_count = h.tcache_count
                      /\ Probe!InUse(p[k]) = Probe!InUse(h) \ FirstOf(s, k)
           K == {k \in Nat : Good(k)}
<1>3. 0 \in K
  BY <1>2, FirstOfList
<1>4. ASSUME NEW k \in 0..n - 1, k \in K PROVE k + 1 \in K
  <2>1. k \in Nat /\ k + 1 \in Nat
    BY <1>1
  <2>2. Good(k)
    BY <1>4
  <2>3. /\ s[k + 1] \in Probe!ToSet(s) /\ s[k + 1] \notin FirstOf(s, k)
        /\ FirstOf(s, k + 1) = FirstOf(s, k) \cup {s[k + 1]}
    BY FirstOfList
  <2>4. s[k + 1] \in Probe!InUse(p[k])
    BY <2>2, <2>3
  <2>5. p[k + 1] = Probe!Release(p[k], s[k + 1])
    BY <1>2 DEF Step
  <2>6. /\ WellFormed(p[k + 1]) /\ p[k + 1].fast = p[k].fast
        /\ p[k + 1].tcache_count = p[k].tcache_count
        /\ Probe!InUse(p[k + 1]) = Probe!InUse(p[k]) \ {s[k + 1]}
    BY <2>2, <2>4, <2>5, ReleasedHeap
  <2>7. Good(k + 1)
    BY <2>2, <2>3, <2>6
  <2> QED BY <2>1, <2>7
<1>5. n \in K
  <2> HIDE DEF K, n
  <2> QED BY <1>1, <1>3, <1>4, Upto
<1> QED BY <1>2, <1>5, FirstOfList

(* malloc_consolidate() changes which free chunks there are, and no chunk  *)
(* in use.                                                                 *)
LEMMA Consolidated ==
  ASSUME NEW h, WellFormed(h)
  PROVE  /\ WellFormed(Probe!malloc_consolidate(h))
         /\ Probe!InUse(Probe!malloc_consolidate(h)) = Probe!InUse(h)
         /\ Probe!malloc_consolidate(h).tcache_count = h.tcache_count
<1> DEFINE n == Probe!MAX_FAST
           fast == Probe!ToSet(h.fast)
           Larger(k) == {c \in fast : h.size[c] > k}
<1>1. n \in Nat /\ DOMAIN [i \in 1..n |-> i] = 1..n
  BY DEF Probe!MAX_FAST
<1>2. PICK p : /\ p[0] = [h EXCEPT !.fast = <<>>] /\ p[n] = Probe!malloc_consolidate(h)
               /\ \A k \in 0..n - 1 :
                    p[k + 1] = Step("consolidate", h, p[k], ([i \in 1..n |-> i])[k + 1])
  <2>1. Run("consolidate", h, [h EXCEPT !.fast = <<>>], [i \in 1..n |-> i], n,
            Probe!malloc_consolidate(h))
    BY <1>1, ConsolidateRuns
  <2> HIDE DEF n
  <2> QED BY <2>1 DEF Run
<1>3. \A k \in 0..n - 1 : p[k + 1] = Probe!ReleaseAll(p[k], Probe!OfSize(h, h.fast, k + 1))
  <2>1. \A k \in 0..n - 1 : ([i \in 1..n |-> i])[k + 1] = k + 1
    BY <1>1
  <2> QED BY <1>2, <2>1 DEF Step
<1>4. /\ fast \subseteq DOMAIN h.size /\ Probe!InUse(h) \cap fast = {}
      /\ \A c \in fast : h.size[c] \in Nat \ {0} /\ h.size[c] <= n
  <2>1. fast \subseteq DOMAIN h.size /\ \A c \in fast : h.size[c] <= n
    BY DEF WellFormed, Placed
  <2>2. \A c \in DOMAIN h.size : h.size[c] \in Nat \ {0}
    BY DEF WellFormed, Tiled
  <2> QED BY <2>1, <2>2, InUseIs
<1> HIDE DEF n, fast
<1> DEFINE Good(k) == /\ WellFormed(p[k]) /\ Probe!InUse(p[k]) = Probe!InUse(h) \cup Larger(k)
                      /\ p[k].tcache_count = h.tcache_count
           K == {k \in Nat : Good(k)}
<1>5. 0 \in K
  <2>1. Larger(0) = fast
    BY <1>4
  <2> QED BY <1>2, <2>1, NoFastHeap DEF fast
<1>6. ASSUME NEW k \in 0..n - 1, k \in K PROVE k + 1 \in K
  <2> DEFINE s == Probe!OfSize(h, h.fast, k + 1)
  <2>1. k \in Nat /\ k + 1 \in Nat
    BY <1>1
  <2>2. Good(k)
    BY <1>6
  <2>3. List(s) /\ Probe!ToSet(s) = {c \in fast : h.size[c] = k + 1}
    <3>1. List(h.fast)
      BY DEF WellFormed
    <3>2. /\ List(s)
          /\ Probe!ToSet(s) = Probe!ToSet(h.fast) \cap {c \in DOMAIN h.size : h.size[c] = k + 1}
      BY <3>1, OnlyList DEF Probe!OfSize
    <3> HIDE DEF s
    <3> QED BY <1>4, <3>2 DEF fast
  <2>4. Larger(k) = Larger(k + 1) \cup Probe!ToSet(s) /\ Larger(k + 1) \cap Probe!ToSet(s) = {}
    BY <1>4, <2>1, <2>3
  <2>5. p[k + 1] = Probe!ReleaseAll(p[k], s)
    BY <1>3
  <2>6. Probe!ToSet(s) \cap Probe!InUse(h) = {}
    BY <1>4, <2>3
  <2> HIDE DEF s, Larger
  <2>7. /\ WellFormed(p[k + 1]) /\ Probe!InUse(p[k + 1]) = Probe!InUse(p[k]) \ Probe!ToSet(s)
        /\ p[k + 1].tcache_count = p[k].tcache_count
    <3>1. Probe!ToSet(s) \subseteq Probe!InUse(p[k])
      BY <2>2, <2>4
    <3> QED BY <2>2, <2>3, <2>5, <3>1, AllReleased
  <2>8. Good(k + 1)
    BY <2>2, <2>4, <2>6, <2>7
  <2> QED BY <2>1, <2>8
<1>7. n \in K
  <2> HIDE DEF K
  <2> QED BY <1>1, <1>5, <1>6, Upto
<1>8. Larger(n) = {}
  BY <1>1, <1>4
<1> QED BY <1>2, <1>7, <1>8

(* free() takes the chunk it is given out of use, and no other.            *)
LEMMA FreedHeap ==
  ASSUME NEW h, WellFormed(h), NEW c \in Probe!InUse(h)
  PROVE  /\ WellFormed(Probe!Free(h, c)) /\ Probe!InUse(Probe!Free(h, c)) = Probe!InUse(h) \ {c}
         /\ Probe!Free(h, c).tcache_count = h.tcache_count
<1>1. CASE Probe!TcacheRoom(h, h.size[c])
  <2>1. c \in DOMAIN h.size /\ c \notin Probe!ToSet(h.tc)
    BY InUseIs
  <2>2. Probe!Free(h, c) = Probe!Cached(h, c)
    BY <1>1 DEF Probe!Free
  <2>3. h.tcache_count # 0
    BY <1>1, RoomMeansTcache
  <2> QED BY <2>1, <2>2, <2>3, CachedHeap
<1>2. CASE ~Probe!TcacheRoom(h, h.size[c]) /\ h.size[c] <= Probe!MAX_FAST
  <2>1. Probe!Free(h, c) = [h EXCEPT !.fast = <<c>> \o @]
    BY <1>2 DEF Probe!Free
  <2> QED BY <1>2, <2>1, FastHeap
<1>3. CASE ~Probe!TcacheRoom(h, h.size[c]) /\ ~(h.size[c] <= Probe!MAX_FAST)
  <2> DEFINE r == Probe!Release(h, c)
  <2>1. Probe!Free(h, c) = r \/ Probe!Free(h, c) = Probe!malloc_consolidate(r)
    BY <1>3 DEF Probe!Free, Probe!Trimmed
  <2>2. /\ WellFormed(r) /\ Probe!InUse(r) = Probe!InUse(h) \ {c}
        /\ r.tcache_count = h.tcache_count
    BY ReleasedHeap
  <2> HIDE DEF r
  <2>3. /\ WellFormed(Probe!malloc_consolidate(r))
        /\ Probe!InUse(Probe!malloc_consolidate(r)) = Probe!InUse(r)
        /\ Probe!malloc_consolidate(r).tcache_count = r.tcache_count
    BY <2>2, Consolidated
  <2> QED BY <2>1, <2>2, <2>3
<1> QED BY <1>1, <1>2, <1>3

LEMMA AllFreed ==
  ASSUME NEW h, WellFormed(h), NEW s, List(s), Probe!ToSet(s) \subseteq Probe!InUse(h)
  PROVE  /\ WellFormed(Probe!FreeAll(h, s))
         /\ Probe!InUse(Probe!FreeAll(h, s)) = Probe!InUse(h) \ Probe!ToSet(s)
         /\ Probe!FreeAll(h, s).tcache_count = h.tcache_count
<1> DEFINE n == Len(s)
<1>1. n \in Nat /\ DOMAIN s = 1..n
  BY FirstOfList
<1>2. PICK p : /\ p[0] = h /\ p[n] = Probe!FreeAll(h, s)
               /\ \A k \in 0..n - 1 : p[k + 1] = Step("free", h, p[k], s[k + 1])
  <2>1. Run("free", h, h, s, n, Probe!FreeAll(h, s))
    BY <1>1, FreeAllRuns
  <2> HIDE DEF n
  <2> QED BY <2>1 DEF Run
<1> DEFINE Good(k) == /\ WellFormed(p[k]) /\ Probe!InUse(p[k]) = Probe!InUse(h) \ FirstOf(s, k)
                      /\ p[k].tcache_count = h.tcache_count
           K == {k \in Nat : Good(k)}
<1>3. 0 \in K
  BY <1>2, FirstOfList
<1>4. ASSUME NEW k \in 0..n - 1, k \in K PROVE k + 1 \in K
  <2>1. k \in Nat /\ k + 1 \in Nat
    BY <1>1
  <2>2. Good(k)
    BY <1>4
  <2>3. /\ s[k + 1] \in Probe!ToSet(s) /\ s[k + 1] \notin FirstOf(s, k)
        /\ FirstOf(s, k + 1) = FirstOf(s, k) \cup {s[k + 1]}
    BY FirstOfList
  <2>4. s[k + 1] \in Probe!InUse(p[k])
    BY <2>2, <2>3
  <2>5. p[k + 1] = Probe!Free(p[k], s[k + 1])
    BY <1>2 DEF Step
  <2>6. /\ WellFormed(p[k + 1]) /\ Probe!InUse(p[k + 1]) = Probe!InUse(p[k]) \ {s[k + 1]}
        /\ p[k + 1].tcache_count = p[k].tcache_count
    BY <2>2, <2>4, <2>5, FreedHeap
  <2>7. Good(k + 1)
    BY <2>2, <2>3, <2>6
  <2> QED BY <2>1, <2>7
<1>5. n \in K
  <2> HIDE DEF K, n
  <2> QED BY <1>1, <1>3, <1>4, Upto
<1> QED BY <1>2, <1>5, FirstOfList

-----------------------------------------------------------------------------
(* The answer r of a request to heap h: one chunk more is in use.          *)
Answers(h, r) ==
  /\ WellFormed(r.heap) /\ r.ptr \in Nat /\ r.ptr \notin Probe!InUse(h)
  /\ Probe!InUse(r.heap) = Probe!InUse(h) \cup {r.ptr}
  /\ r.heap.tcache_count = h.tcache_count

LEMMA FreeChunkAnswers ==
  ASSUME NEW h, WellFormed(h), NEW c \in DOMAIN h.size \ Probe!InUse(h)
  PROVE  Answers(h, Probe!Answer(h, c))
<1> DEFINE g == Probe!Taken(h, c)
<1>1. /\ WellFormed(g) /\ Probe!InUse(g) = Probe!InUse(h) \cup {c}
      /\ g.tcache_count = h.tcache_count
  BY TakenHeap
<1>2. c \in Nat
  BY DEF WellFormed, Tiled
<1>3. Probe!Answer(h, c) = [heap |-> g, ptr |-> c]
  BY DEF Probe!Answer
<1> HIDE DEF g
<1> QED BY <1>1, <1>2, <1>3 DEF Answers

(* Chunks of a list are free.                                              *)
LEMMA ListedFree ==
  ASSUME NEW h, WellFormed(h)
  PROVE  /\ Probe!ToSet(h.tc) \subseteq DOMAIN h.size \ Probe!InUse(h)
         /\ Probe!ToSet(h.fast) \subseteq DOMAIN h.size \ (Probe!InUse(h) \cup Probe!ToSet(h.tc))
         /\ Probe!ToSet(h.us) \subseteq DOMAIN h.size \ (Probe!InUse(h) \cup Probe!ToSet(h.tc))
         /\ Probe!ToSet(h.sorted) \subseteq DOMAIN h.size \ (Probe!InUse(h) \cup Probe!ToSet(h.tc))
<1>1. Placed(DOMAIN h.size, Probe!ToSet(h.tc), Probe!ToSet(h.fast), Probe!ToSet(h.us),
             Probe!ToSet(h.sorted))
  BY DEF WellFormed
<1> QED BY <1>1, InUseIs DEF Placed

(* Stashing moves free chunks to the tcache.                               *)
LEMMA StashedHeap ==
  ASSUME NEW h, WellFormed(h), NEW m, NEW s, List(s),
         Probe!ToSet(s) \subseteq DOMAIN h.size \ (Probe!InUse(h) \cup Probe!ToSet(h.tc))
  PROVE  /\ WellFormed(Probe!Stash(h, m, s))
         /\ Probe!InUse(Probe!Stash(h, m, s)) = Probe!InUse(h)
         /\ Probe!Stash(h, m, s).tcache_count = h.tcache_count
<1> DEFINE n == Len(s)
<1>1. n \in Nat /\ DOMAIN s = 1..n
  BY FirstOfList
<1>2. PICK p : /\ p[0] = h /\ p[n] = Probe!Stash(h, m, s)
               /\ \A k \in 0..n - 1 : p[k + 1] = Step("stash", m, p[k], s[k + 1])
  <2>1. Run("stash", m, h, s, n, Probe!Stash(h, m, s))
    BY <1>1, StashRuns
  <2> HIDE DEF n
  <2> QED BY <2>1 DEF Run
<1> DEFINE Good(k) == /\ WellFormed(p[k]) /\ Probe!InUse(p[k]) = Probe!InUse(h)
                      /\ p[k].size = h.size /\ p[k].tcache_count = h.tcache_count
                      /\ Probe!ToSet(p[k].tc) \subseteq Probe!ToSet(h.tc) \cup FirstOf(s, k)
           K == {k \in Nat : Good(k)}
<1>3. 0 \in K
  BY <1>2, FirstOfList
<1>4. ASSUME NEW k \in 0..n - 1, k \in K PROVE k + 1 \in K
  <2> DEFINE c == s[k + 1]
  <2>1. k \in Nat /\ k + 1 \in Nat
    BY <1>1
  <2>2. Good(k)
    BY <1>4
  <2>3. c \in Probe!ToSet(s) /\ c \notin FirstOf(s, k) /\ FirstOf(s, k + 1) = FirstOf(s, k) \cup {c}
    BY FirstOfList
  <2>4. p[k + 1] = IF Probe!TcacheRoom(p[k], m) THEN Probe!Cached(p[k], c) ELSE p[k]
    BY <1>2 DEF Step
  <2> HIDE DEF c
  <2>5. CASE p[k + 1] = p[k]
    <3>1. Good(k + 1)
      BY <2>2, <2>3, <2>5
    <3> QED BY <2>1, <3>1
  <2>6. CASE Probe!TcacheRoom(p[k], m) /\ p[k + 1] = Probe!Cached(p[k], c)
    <3>1. c \in DOMAIN p[k].size /\ c \notin Probe!ToSet(p[k].tc) /\ c \notin Probe!InUse(p[k])
      BY <2>2, <2>3
    <3>0. p[k].tcache_count # 0
      BY <2>2, <2>6, RoomMeansTcache
    <3>2. /\ WellFormed(p[k + 1]) /\ Probe!InUse(p[k + 1]) = Probe!InUse(p[k]) \ {c}
          /\ p[k + 1].size = p[k].size /\ Probe!ToSet(p[k + 1].tc) = {c} \cup Probe!ToSet(p[k].tc)
          /\ p[k + 1].tcache_count = p[k].tcache_count
      BY <2>2, <2>6, <3>0, <3>1, CachedHeap
    <3>3. Good(k + 1)
      BY <2>2, <2>3, <3>1, <3>2
    <3> QED BY <2>1, <3>3
  <2> QED BY <2>4, <2>5, <2>6
<1>5. n \in K
  <2> HIDE DEF K, n
  <2> QED BY <1>1, <1>3, <1>4, Upto
<1> QED BY <1>2, <1>5

LEMMA StashingAnswers ==
  ASSUME NEW h, WellFormed(h), NEW m, NEW s, List(s), s # <<>>,
         Probe!ToSet(s) \subseteq DOMAIN h.size \ (Probe!InUse(h) \cup Probe!ToSet(h.tc))
  PROVE  Answers(h, Probe!AnswerAndStash(h, m, s))
<1> DEFINE c == Head(s)
           g == Probe!Taken(h, c)
           r == Probe!Stash(g, m, Tail(s))
<1>1. c \in Probe!ToSet(s) /\ List(Tail(s)) /\ Probe!ToSet(Tail(s)) = Probe!ToSet(s) \ {c}
  BY EndsOfList
<1>2. c \in DOMAIN h.size /\ c \notin Probe!InUse(h) /\ c \in Nat
  BY <1>1 DEF WellFormed, Tiled
<1>3. /\ WellFormed(g) /\ Probe!InUse(g) = Probe!InUse(h) \cup {c} /\ g.size = h.size
      /\ g.tcache_count = h.tcache_count
      /\ Probe!ToSet(g.tc) = Probe!ToSet(h.tc) \ {c}
  BY <1>2, TakenHeap
<1>4. Probe!AnswerAndStash(h, m, s) = [heap |-> r, ptr |-> c]
  BY DEF Probe!AnswerAndStash
<1> HIDE DEF c, g
<1>5. Probe!ToSet(Tail(s)) \subseteq DOMAIN g.size \ (Probe!InUse(g) \cup Probe!ToSet(g.tc))
  BY <1>1, <1>3
<1>6. WellFormed(r) /\ Probe!InUse(r) = Probe!InUse(g) /\ r.tcache_count = g.tcache_count
  BY <1>1, <1>3, <1>5, StashedHeap
<1> HIDE DEF r
<1> QED BY <1>2, <1>3, <1>4, <1>6 DEF Answers

(* Sorting the unsorted bin, which may find the answer.                    *)
FoundOrNot(h, g) ==
  \/ /\ g.ptr = NULL /\ WellFormed(g.heap) /\ Probe!InUse(g.heap) = Probe!InUse(h)
     /\ g.heap.tcache_count = h.tcache_count
  \/ g.ptr # NULL /\ Answers(h, g)

LEMMA SortedHeap ==
  ASSUME NULL \notin Nat, NEW h, WellFormed(h), NEW m
  PROVE  FoundOrNot(h, Probe!SortAll(h, m))
<1> DEFINE s == Probe!Reverse(h.us)
           n == Len(s)
<1>1. List(s) /\ Probe!ToSet(s) = Probe!ToSet(h.us)
  BY ReversedList DEF WellFormed
<1> HIDE DEF s
<1>0. n \in Nat /\ DOMAIN s = 1..n
  BY <1>1, FirstOfList
<1>2. PICK p : /\ p[0] = [heap |-> h, ptr |-> NULL] /\ p[n] = Probe!SortAll(h, m)
               /\ \A k \in 0..n - 1 : p[k + 1] = Step("sort", m, p[k], s[k + 1])
  <2>1. Run("sort", m, [heap |-> h, ptr |-> NULL], s, n, Probe!SortAll(h, m))
    BY <1>0, SortAllRuns DEF s
  <2> HIDE DEF n
  <2> QED BY <2>1 DEF Run
<1> DEFINE Good(k) == /\ p[k] = [heap |-> p[k].heap, ptr |-> p[k].ptr]
                      /\ FoundOrNot(h, p[k])
                      /\ p[k].ptr = NULL =>
                           Probe!ToSet(s) \ FirstOf(s, k) \subseteq Probe!ToSet(p[k].heap.us)
           K == {k \in Nat : Good(k)}
<1>3. 0 \in K
  <2>1. p[0].heap = h /\ p[0].ptr = NULL /\ p[0] = [heap |-> p[0].heap, ptr |-> p[0].ptr]
    BY <1>2
  <2> QED BY <1>1, <2>1, FirstOfList DEF FoundOrNot
<1>4. ASSUME NEW k \in 0..n - 1, k \in K PROVE k + 1 \in K
  <2> DEFINE c == s[k + 1]
             f == p[k].heap
             g == p[k + 1]
  <2>1. k \in Nat /\ k + 1 \in Nat
    BY <1>0
  <2>2. Good(k)
    BY <1>4
  <2>3. c \in Probe!ToSet(s) /\ c \notin FirstOf(s, k) /\ FirstOf(s, k + 1) = FirstOf(s, k) \cup {c}
    BY <1>1, FirstOfList
  <2>4. g = Probe!SortOne(p[k], c, m)
    BY <1>2 DEF Step
  <2>5. CASE p[k].ptr # NULL
    <3>1. g = p[k]
      BY <2>4, <2>5 DEF Probe!SortOne
    <3>2. Good(k + 1)
      BY <2>2, <2>5, <3>1
    <3> QED BY <2>1, <3>2
  <2>6. CASE p[k].ptr = NULL
    <3>1. /\ WellFormed(f) /\ Probe!InUse(f) = Probe!InUse(h) /\ c \in Probe!ToSet(f.us)
          /\ f.tcache_count = h.tcache_count
      BY <2>2, <2>3, <2>6 DEF FoundOrNot
    <3>2. c \in DOMAIN f.size /\ c \notin Probe!InUse(f) /\ c \notin Probe!ToSet(f.tc)
      BY <3>1, ListedFree
    <3>3. \/ g = [heap |-> Probe!Binned(f, c), ptr |-> NULL]
          \/ f.tcache_count # 0 /\ g = [heap |-> Probe!Cached(f, c), ptr |-> NULL]
          \/ g = Probe!Answer(f, c)
      <4>1. p[k] = [heap |-> f, ptr |-> NULL]
        BY <2>2, <2>6
      <4>2. [p[k] EXCEPT !.heap = Probe!Binned(@, c)] = [heap |-> Probe!Binned(f, c), ptr |-> NULL]
        BY <4>1
      <4>3. [p[k] EXCEPT !.heap = Probe!Cached(@, c)] = [heap |-> Probe!Cached(f, c), ptr |-> NULL]
        BY <4>1
      <4>4. Probe!TcacheRoom(f, m) => f.tcache_count # 0
        BY <3>1, RoomMeansTcache
      <4> QED BY <2>4, <2>6, <4>2, <4>3, <4>4 DEF Probe!SortOne
    <3> HIDE DEF c, f, g
    <3>4. CASE g = [heap |-> Probe!Binned(f, c), ptr |-> NULL]
      <4>1. /\ WellFormed(g.heap) /\ Probe!InUse(g.heap) = Probe!InUse(f) /\ g.ptr = NULL
            /\ g.heap.tcache_count = f.tcache_count
            /\ Probe!ToSet(g.heap.us) = Probe!ToSet(f.us) \ {c}
            /\ g = [heap |-> g.heap, ptr |-> g.ptr]
        BY <3>1, <3>4, BinnedHeap
      <4>2. FoundOrNot(h, g)
        BY <3>1, <4>1 DEF FoundOrNot
      <4>3. Probe!ToSet(s) \ FirstOf(s, k + 1) \subseteq Probe!ToSet(g.heap.us)
        BY <2>2, <2>3, <2>6, <4>1 DEF f
      <4> QED BY <2>1, <4>1, <4>2, <4>3 DEF g
    <3>5. CASE f.tcache_count # 0 /\ g = [heap |-> Probe!Cached(f, c), ptr |-> NULL]
      <4>1. /\ WellFormed(g.heap) /\ Probe!InUse(g.heap) = Probe!InUse(f) \ {c} /\ g.ptr = NULL
            /\ g.heap.tcache_count = f.tcache_count
            /\ Probe!ToSet(g.heap.us) = Probe!ToSet(f.us) \ {c}
            /\ g = [heap |-> g.heap, ptr |-> g.ptr]
        BY <3>1, <3>2, <3>5, CachedHeap
      <4>2. FoundOrNot(h, g)
        BY <3>1, <3>2, <4>1 DEF FoundOrNot
      <4>3. Probe!ToSet(s) \ FirstOf(s, k + 1) \subseteq Probe!ToSet(g.heap.us)
        BY <2>2, <2>3, <2>6, <4>1 DEF f
      <4> QED BY <2>1, <4>1, <4>2, <4>3 DEF g
    <3>6. CASE g = Probe!Answer(f, c)
      <4>1. Answers(f, g)
        BY <3>1, <3>2, <3>6, FreeChunkAnswers
      <4>2. g.ptr # NULL
        BY <4>1 DEF Answers
      <4>3. FoundOrNot(h, g)
        BY <3>1, <4>1, <4>2 DEF FoundOrNot, Answers
      <4>4. g = [heap |-> g.heap, ptr |-> g.ptr]
        BY <3>6 DEF Probe!Answer
      <4> QED BY <2>1, <4>2, <4>3, <4>4 DEF g
    <3> QED BY <3>3, <3>4, <3>5, <3>6
  <2> QED BY <2>5, <2>6
<1>5. n \in K
  <2> HIDE DEF K, n
  <2> QED BY <1>0, <1>3, <1>4, Upto
<1> QED BY <1>2, <1>5

LEMMA TopAnswers ==
  ASSUME NEW h, WellFormed(h), NEW m \in Nat \ {0}
  PROVE  Answers(h, Probe!FromTop(h, m))
<1> DEFINE t == h.top
           sz == Probe!Sized(h.size, t, m)
           g == [h EXCEPT !.size = sz, !.top = @ + m]
<1>1. /\ Fields(h) /\ Tiled(h.size, t)
      /\ List(h.tc) /\ List(h.fast) /\ List(h.us) /\ List(h.sorted)
      /\ Placed(DOMAIN h.size, Probe!ToSet(h.tc), Probe!ToSet(h.fast), Probe!ToSet(h.us),
                Probe!ToSet(h.sorted))
      /\ \A b \in Probe!ToSet(h.fast) : h.size[b] <= Probe!MAX_FAST
      /\ h.tcache_count = 0 => h.tc = <<>>
  BY DEF WellFormed
<1>2. /\ DOMAIN h.size \subseteq Nat /\ t \in Nat
      /\ \A b \in DOMAIN h.size : h.size[b] \in Nat \ {0} /\ b + h.size[b] <= t
      /\ \A b, d \in DOMAIN h.size : b < d => b + h.size[b] <= d
  BY <1>1 DEF Tiled
<1>3. Probe!FromTop(h, m) = [heap |-> g, ptr |-> t]
  BY DEF Probe!FromTop
<1>4. t \notin DOMAIN h.size
  BY <1>2
<1>5. /\ DOMAIN sz = DOMAIN h.size \cup {t} /\ sz[t] = m
      /\ \A b \in DOMAIN h.size : sz[b] = h.size[b]
  BY <1>4 DEF Probe!Sized
<1> HIDE DEF sz, t
<1>6. /\ Fields(g) /\ g.tcache_count = h.tcache_count /\ g.size = sz /\ g.top = t + m /\ g.tc = h.tc /\ g.fast = h.fast
      /\ g.us = h.us /\ g.sorted = h.sorted
  <2> DEFINE e == t + m
  <2>1. g = [h EXCEPT !.size = sz, !.top = e]
    BY DEF t
  <2> HIDE DEF g, e
  <2>2. /\ Fields(g) /\ g.tcache_count = h.tcache_count /\ g.size = sz /\ g.top = e /\ g.tc = h.tc /\ g.fast = h.fast
        /\ g.us = h.us /\ g.sorted = h.sorted
    BY <1>1, <2>1 DEF Fields
  <2> QED BY <2>2 DEF e
<1> HIDE DEF g
<1>7. Tiled(sz, t + m)
  <2>1. \A b \in DOMAIN sz : sz[b] \in Nat \ {0} /\ b + sz[b] <= t + m
    BY <1>2, <1>5
  <2>2. ASSUME NEW b \in DOMAIN sz, NEW d \in DOMAIN sz, b < d PROVE b + sz[b] <= d
    <3>1. CASE b \in DOMAIN h.size /\ d \in DOMAIN h.size
      BY <1>2, <1>5, <2>2, <3>1
    <3>2. CASE b \in DOMAIN h.size /\ d = t
      BY <1>2, <1>5, <3>2
    <3>3. CASE b = t
      <4>1. d \in DOMAIN h.size => d \in Nat /\ h.size[d] \in Nat \ {0} /\ d + h.size[d] <= t
        BY <1>2
      <4> QED BY <1>2, <1>5, <2>2, <3>3, <4>1
    <3> QED BY <1>5, <3>1, <3>2, <3>3
  <2> QED BY <1>2, <1>5, <2>1, <2>2 DEF Tiled
<1>8. Placed(DOMAIN g.size, Probe!ToSet(g.tc), Probe!ToSet(g.fast), Probe!ToSet(g.us),
             Probe!ToSet(g.sorted))
  BY <1>1, <1>5, <1>6 DEF Placed
<1>9. \A b \in Probe!ToSet(g.fast) : g.size[b] <= Probe!MAX_FAST
  <2>1. Probe!ToSet(h.fast) \subseteq DOMAIN h.size
    BY <1>1 DEF Placed
  <2> QED BY <1>1, <1>5, <1>6, <2>1
<1>10. WellFormed(g)
  BY <1>1, <1>6, <1>7, <1>8, <1>9 DEF WellFormed
<1>11. t \notin Probe!InUse(h) /\ Probe!InUse(g) = Probe!InUse(h) \cup {t}
  <2>1. Probe!ToSet(h.tc) \cup Probe!ToSet(h.fast) \cup Probe!ToSet(h.us) \cup Probe!ToSet(h.sorted)
        \subseteq DOMAIN h.size
    BY <1>1 DEF Placed
  <2> QED BY <1>4, <1>5, <1>6, <1>10, <2>1, InUseIs
<1> QED BY <1>2, <1>3, <1>6, <1>10, <1>11 DEF Answers

(* A chunk that is cut keeps its address, and the rest is a free chunk.    *)
LEMMA CuttingAnswers ==
  ASSUME NEW h, WellFormed(h), NEW m \in Nat \ {0}, NEW c \in DOMAIN h.size \ Probe!InUse(h)
  PROVE  Answers(h, Probe!Cut(h, m, c))
<1>1. /\ DOMAIN h.size \subseteq Nat /\ h.top \in Nat
      /\ \A b \in DOMAIN h.size : h.size[b] \in Nat \ {0} /\ b + h.size[b] <= h.top
      /\ \A b, d \in DOMAIN h.size : b < d => b + h.size[b] <= d
  BY DEF WellFormed, Tiled
<1>2. CASE h.size[c] < m + Probe!MINSIZE
  <2>1. Probe!Cut(h, m, c) = Probe!Answer(h, c)
    BY <1>2 DEF Probe!Cut
  <2> QED BY <2>1, FreeChunkAnswers
<1>3. CASE ~(h.size[c] < m + Probe!MINSIZE)
  <2> DEFINE f == Probe!Taken(h, c)
             r == c + m
             sz == Probe!Sized(Probe!Sized(h.size, c, m), r, h.size[c] - m)
             new_us == <<r>> \o f.us
             g == [f EXCEPT !.size = sz, !.us = new_us]
  <2>1. /\ WellFormed(f) /\ Probe!InUse(f) = Probe!InUse(h) \cup {c}
        /\ f.size = h.size /\ f.top = h.top /\ f.tcache_count = h.tcache_count
    BY TakenHeap
  <2>2. Probe!Cut(h, m, c) = [heap |-> g, ptr |-> c]
    BY <1>3, <2>1 DEF Probe!Cut
  <2>3. c \in Nat /\ r \in Nat /\ c < r /\ r < c + h.size[c] /\ h.size[c] - m \in Nat \ {0}
        /\ r + (h.size[c] - m) = c + h.size[c] /\ r # c
    BY <1>1, <1>3 DEF Probe!MINSIZE
  <2>4. r \notin DOMAIN h.size
    <3>1. r \in DOMAIN h.size => c + h.size[c] <= r
      BY <1>1, <2>3
    <3> QED BY <1>1, <2>3, <3>1
  <2>5. /\ DOMAIN sz = DOMAIN h.size \cup {r} /\ sz[r] = h.size[c] - m /\ sz[c] = m
        /\ \A b \in DOMAIN h.size \ {c} : sz[b] = h.size[b]
    BY <2>3, <2>4 DEF Probe!Sized
  <2> HIDE DEF f, r, sz
  <2>6. /\ Fields(f) /\ List(f.tc) /\ List(f.fast) /\ List(f.us) /\ List(f.sorted)
        /\ Placed(DOMAIN f.size, Probe!ToSet(f.tc), Probe!ToSet(f.fast), Probe!ToSet(f.us),
                  Probe!ToSet(f.sorted))
        /\ \A b \in Probe!ToSet(f.fast) : f.size[b] <= Probe!MAX_FAST
        /\ f.tcache_count = 0 => f.tc = <<>>
    BY <2>1 DEF WellFormed
  <2>7. c \notin Probe!ToSet(f.fast) /\ r \notin Probe!ToSet(f.us)
        /\ Probe!ToSet(f.fast) \subseteq DOMAIN h.size
    <3>1. c \in Probe!InUse(f)
      BY <2>1
    <3>2. c \notin Probe!ToSet(f.fast)
      BY <2>1, <3>1, InUseIs
    <3> QED BY <2>1, <2>4, <2>6, <3>2 DEF Placed
  <2>8. List(new_us) /\ Probe!ToSet(new_us) = {r} \cup Probe!ToSet(f.us)
    BY <2>3, <2>6, <2>7, PushedList
  <2> HIDE DEF new_us
  <2>9. /\ Fields(g) /\ g.tcache_count = f.tcache_count /\ g.size = sz /\ g.top = h.top /\ g.tc = f.tc /\ g.fast = f.fast
        /\ g.us = new_us /\ g.sorted = f.sorted
    <3>1. Fields(f) /\ g = [f EXCEPT !.size = sz, !.us = new_us]
      BY <2>6
    <3> HIDE DEF g
    <3>2. /\ Fields(g) /\ g.tcache_count = f.tcache_count /\ g.size = sz /\ g.top = f.top /\ g.tc = f.tc /\ g.fast = f.fast
          /\ g.us = new_us /\ g.sorted = f.sorted
      BY <3>1 DEF Fields
    <3> QED BY <2>1, <3>2
  <2> HIDE DEF g
  <2>10. Tiled(sz, h.top)
    <3>1. \A b \in DOMAIN sz : sz[b] \in Nat \ {0} /\ b + sz[b] <= h.top
      <4>1. c + h.size[c] <= h.top
        BY <1>1
      <4>2. sz[r] \in Nat \ {0} /\ r + sz[r] <= h.top
        BY <2>3, <2>5, <4>1
      <4>3. sz[c] \in Nat \ {0} /\ c + sz[c] <= h.top
        BY <1>1, <2>3, <2>5, <4>1 DEF r
      <4> QED BY <1>1, <2>5, <4>2, <4>3
    <3>2. ASSUME NEW b \in DOMAIN sz, NEW d \in DOMAIN sz, b < d PROVE b + sz[b] <= d
      <4>1. CASE b = c /\ d = r
        BY <2>3, <2>5, <4>1 DEF r
      <4>2. CASE b = c /\ d # r
        <5>1. d \in DOMAIN h.size /\ c + h.size[c] <= d
          BY <1>1, <2>5, <3>2, <4>2
        <5> QED BY <1>1, <2>3, <2>5, <4>2, <5>1 DEF r
      <4>3. CASE b = r
        <5>1. d \in DOMAIN h.size /\ d \in Nat /\ c < d
          BY <1>1, <2>3, <2>5, <3>2, <4>3
        <5>2. c + h.size[c] <= d
          BY <1>1, <5>1
        <5> QED BY <2>3, <2>5, <4>3, <5>2
      <4>4. CASE b # c /\ b # r /\ d = r
        <5>1. b \in DOMAIN h.size /\ b \in Nat /\ sz[b] = h.size[b] /\ h.size[b] \in Nat \ {0}
          BY <1>1, <2>5, <4>4
        <5>2. CASE b < c
          <6>1. b + h.size[b] <= c
            BY <1>1, <5>1, <5>2
          <6> QED BY <2>3, <4>4, <5>1, <6>1
        <5>3. CASE c < b
          <6>1. c + h.size[c] <= b
            BY <1>1, <5>1, <5>3
          <6>2. h.size[c] \in Nat
            BY <1>1
          <6> QED BY <2>3, <3>2, <4>4, <5>1, <6>1, <6>2
        <5> QED BY <2>3, <4>4, <5>1, <5>2, <5>3
      <4>5. CASE b # c /\ b # r /\ d # r
        BY <1>1, <2>5, <3>2, <4>5
      <4> QED BY <4>1, <4>2, <4>3, <4>4, <4>5
    <3> QED BY <1>1, <2>3, <2>5, <3>1, <3>2 DEF Tiled
  <2>11. Placed(DOMAIN g.size, Probe!ToSet(g.tc), Probe!ToSet(g.fast), Probe!ToSet(g.us),
                Probe!ToSet(g.sorted))
    BY <2>1, <2>4, <2>5, <2>6, <2>8, <2>9 DEF Placed
  <2>12. \A b \in Probe!ToSet(g.fast) : g.size[b] <= Probe!MAX_FAST
    <3>1. \A b \in Probe!ToSet(f.fast) : sz[b] = f.size[b]
      BY <2>1, <2>5, <2>7
    <3> QED BY <2>6, <2>9, <3>1
  <2>13. WellFormed(g)
    BY <2>6, <2>8, <2>9, <2>10, <2>11, <2>12 DEF WellFormed
  <2>14. Probe!InUse(g) = Probe!InUse(f)
    <3>1. Probe!InUse(f) = DOMAIN h.size \ (Probe!ToSet(f.tc) \cup Probe!ToSet(f.fast)
                                           \cup Probe!ToSet(f.us) \cup Probe!ToSet(f.sorted))
      BY <2>1, InUseIs
    <3>2. Probe!InUse(g) = (DOMAIN h.size \cup {r})
                           \ (Probe!ToSet(f.tc) \cup Probe!ToSet(f.fast)
                              \cup ({r} \cup Probe!ToSet(f.us)) \cup Probe!ToSet(f.sorted))
      BY <2>5, <2>8, <2>9, <2>13, InUseIs
    <3> QED BY <2>4, <3>1, <3>2
  <2> QED BY <2>1, <2>2, <2>3, <2>9, <2>13, <2>14 DEF Answers
<1> QED BY <1>2, <1>3

LEMMA FitAnswers ==
  ASSUME NEW h, WellFormed(h), NEW m \in Nat \ {0}
  PROVE  Answers(h, Probe!BestFit(h, m))
<1> DEFINE fit == {x \in {h.size[c] : c \in Probe!ToSet(h.sorted)} : x >= m}
<1>1. CASE fit = {}
  <2>1. Probe!BestFit(h, m) = Probe!FromTop(h, m)
    BY <1>1 DEF Probe!BestFit
  <2> QED BY <2>1, TopAnswers
<1>2. CASE fit # {}
  <2> DEFINE k == Probe!Min(fit)
             s == Probe!OfSize(h, h.sorted, k)
  <2>1. Probe!BestFit(h, m) = Probe!Cut(h, m, Probe!Last(s))
    BY <1>2 DEF Probe!BestFit
  <2>2. /\ Probe!ToSet(h.sorted) \subseteq DOMAIN h.size \ Probe!InUse(h) /\ List(h.sorted)
        /\ \A c \in DOMAIN h.size : h.size[c] \in Nat
    BY ListedFree DEF WellFormed, Tiled
  <2>3. k \in fit
    <3>1. fit \in SUBSET Nat
      BY <2>2
    <3> HIDE DEF fit
    <3> QED BY <1>2, <3>1, MinOf
  <2>4. PICK c \in Probe!ToSet(h.sorted) : h.size[c] = k
    BY <2>3
  <2> HIDE DEF k
  <2>5. /\ List(s)
        /\ Probe!ToSet(s) = Probe!ToSet(h.sorted) \cap {x \in DOMAIN h.size : h.size[x] = k}
    BY <2>2, OnlyList DEF Probe!OfSize
  <2> HIDE DEF s
  <2>6. s # <<>>
    BY <2>2, <2>4, <2>5, ListBasics
  <2>7. Probe!Last(s) \in DOMAIN h.size \ Probe!InUse(h)
    BY <2>2, <2>5, <2>6, EndsOfList
  <2> QED BY <2>1, <2>7, CuttingAnswers
<1> QED BY <1>1, <1>2

(* malloc() answers with a chunk that was not in use.                      *)
LEMMA MallocAnswers ==
  ASSUME NULL \notin Nat, NEW h, WellFormed(h), NEW m \in Nat \ {0}
  PROVE  Answers(h, Probe!Malloc(h, m))
<1> DEFINE cached == Probe!OfSize(h, h.tc, m)
           fast == Probe!OfSize(h, h.fast, m)
           small == IF m < Probe!MIN_LARGE THEN Probe!Reverse(Probe!OfSize(h, h.sorted, m)) ELSE <<>>
           g == IF m < Probe!MIN_LARGE THEN h ELSE Probe!malloc_consolidate(h)
<1>1. Probe!Malloc(h, m) =
        IF cached # <<>> THEN Probe!Answer(h, Head(cached))
        ELSE IF fast # <<>> THEN Probe!AnswerAndStash(h, m, fast)
        ELSE IF small # <<>> THEN Probe!AnswerAndStash(h, m, small)
        ELSE Probe!OrBestFit(Probe!Sort(g, m), m)
  BY DEF Probe!Malloc
<1>2. /\ List(h.tc) /\ List(h.fast) /\ List(h.sorted)
      /\ Probe!ToSet(h.tc) \subseteq DOMAIN h.size \ Probe!InUse(h)
      /\ Probe!ToSet(h.fast) \subseteq DOMAIN h.size \ (Probe!InUse(h) \cup Probe!ToSet(h.tc))
      /\ Probe!ToSet(h.sorted) \subseteq DOMAIN h.size \ (Probe!InUse(h) \cup Probe!ToSet(h.tc))
  BY ListedFree DEF WellFormed
<1>3. List(cached) /\ Probe!ToSet(cached) \subseteq Probe!ToSet(h.tc)
  BY <1>2, OnlyList DEF Probe!OfSize
<1>4. List(fast) /\ Probe!ToSet(fast) \subseteq Probe!ToSet(h.fast)
  BY <1>2, OnlyList DEF Probe!OfSize
<1>5. List(small) /\ Probe!ToSet(small) \subseteq Probe!ToSet(h.sorted)
  <2>1. /\ List(Probe!OfSize(h, h.sorted, m))
        /\ Probe!ToSet(Probe!OfSize(h, h.sorted, m)) \subseteq Probe!ToSet(h.sorted)
    BY <1>2, OnlyList DEF Probe!OfSize
  <2>2. /\ List(Probe!Reverse(Probe!OfSize(h, h.sorted, m)))
        /\ Probe!ToSet(Probe!Reverse(Probe!OfSize(h, h.sorted, m))) \subseteq Probe!ToSet(h.sorted)
    BY <2>1, ReversedList
  <2> QED BY <2>2, EmptyList
<1>6. WellFormed(g) /\ Probe!InUse(g) = Probe!InUse(h) /\ g.tcache_count = h.tcache_count
  BY Consolidated
<1> HIDE DEF cached, fast, small, g
<1>7. CASE cached # <<>>
  <2>1. Head(cached) \in DOMAIN h.size \ Probe!InUse(h)
    BY <1>2, <1>3, <1>7, EndsOfList
  <2> QED BY <1>1, <1>7, <2>1, FreeChunkAnswers
<1>8. CASE cached = <<>> /\ fast # <<>>
  <2>1. Probe!ToSet(fast) \subseteq DOMAIN h.size \ (Probe!InUse(h) \cup Probe!ToSet(h.tc))
    BY <1>2, <1>4
  <2> QED BY <1>1, <1>4, <1>8, <2>1, StashingAnswers
<1>9. CASE cached = <<>> /\ fast = <<>> /\ small # <<>>
  <2>1. Probe!ToSet(small) \subseteq DOMAIN h.size \ (Probe!InUse(h) \cup Probe!ToSet(h.tc))
    BY <1>2, <1>5
  <2> QED BY <1>1, <1>5, <1>9, <2>1, StashingAnswers
<1>10. CASE cached = <<>> /\ fast = <<>> /\ small = <<>>
  <2> DEFINE f == Probe!SortAll(g, m)
             tc == Probe!OfSize(f.heap, f.heap.tc, m)
             s == Probe!Sort(g, m)
  <2>1. Probe!Malloc(h, m) = IF s.ptr # NULL THEN s ELSE Probe!BestFit(s.heap, m)
    BY <1>1, <1>10 DEF Probe!OrBestFit
  <2>2. FoundOrNot(g, f)
    BY <1>6, SortedHeap
  <2>3. s = IF f.ptr # NULL \/ tc = <<>> THEN f ELSE Probe!Answer(f.heap, Head(tc))
    BY DEF Probe!Sort, Probe!Sorted, Probe!OrCached
  <2> HIDE DEF f
  <2>4. FoundOrNot(g, s)
    <3>1. CASE f.ptr # NULL \/ tc = <<>>
      BY <2>2, <2>3, <3>1
    <3>2. CASE f.ptr = NULL /\ tc # <<>>
      <4>1. /\ WellFormed(f.heap) /\ Probe!InUse(f.heap) = Probe!InUse(g)
            /\ f.heap.tcache_count = g.tcache_count
        BY <2>2, <3>2 DEF FoundOrNot
      <4>2. List(f.heap.tc) /\ Probe!ToSet(f.heap.tc) \subseteq DOMAIN f.heap.size \ Probe!InUse(f.heap)
        BY <4>1, ListedFree DEF WellFormed
      <4>3. List(tc) /\ Probe!ToSet(tc) \subseteq Probe!ToSet(f.heap.tc)
        BY <4>2, OnlyList DEF Probe!OfSize
      <4>4. Head(tc) \in DOMAIN f.heap.size \ Probe!InUse(f.heap)
        BY <3>2, <4>2, <4>3, EndsOfList
      <4>5. Answers(f.heap, s)
        BY <2>3, <3>2, <4>1, <4>4, FreeChunkAnswers
      <4> HIDE DEF s
      <4> QED BY <4>1, <4>5 DEF Answers, FoundOrNot
    <3> QED BY <3>1, <3>2
  <2> HIDE DEF s
  <2>5. CASE s.ptr # NULL
    <3>1. Answers(g, s)
      BY <2>4, <2>5 DEF FoundOrNot
    <3>2. Answers(h, s)
      BY <1>6, <3>1 DEF Answers
    <3> QED BY <2>1, <2>5, <3>2
  <2>6. CASE s.ptr = NULL
    <3>1. /\ WellFormed(s.heap) /\ Probe!InUse(s.heap) = Probe!InUse(g)
          /\ s.heap.tcache_count = g.tcache_count
      BY <2>4, <2>6 DEF FoundOrNot
    <3>2. Answers(s.heap, Probe!BestFit(s.heap, m))
      BY <3>1, FitAnswers
    <3>3. Answers(h, Probe!BestFit(s.heap, m))
      BY <1>6, <3>1, <3>2 DEF Answers
    <3> QED BY <2>1, <2>6, <3>3
  <2> QED BY <2>5, <2>6
<1> QED BY <1>7, <1>8, <1>9, <1>10

-----------------------------------------------------------------------------
(* The pointers of n requests in a row, after those of ps: chunks that     *)
(* were not in use, each once.                                             *)
Fresh(ptrs, ps, n, used) ==
  /\ ptrs \in Seq(Nat) /\ Len(ptrs) = Len(ps) + n
  /\ \A i \in 1..Len(ps) : ptrs[i] = ps[i]
  /\ \A i \in Len(ps) + 1..Len(ps) + n : ptrs[i] \notin used
  /\ Distinct(ptrs, Len(ps) + 1, Len(ps) + n)
NewOnes(ptrs, ps, n) == {ptrs[i] : i \in Len(ps) + 1..Len(ps) + n}

LEMMA OneMoreFresh ==
  ASSUME NEW ps \in Seq(Nat), NEW n \in Nat, NEW used, NEW ptrs, Fresh(ptrs, ps, n, used),
         NEW x \in Nat, x \notin used, x \notin NewOnes(ptrs, ps, n)
  PROVE  /\ Fresh(Append(ptrs, x), ps, n + 1, used)
         /\ NewOnes(Append(ptrs, x), ps, n + 1) = NewOnes(ptrs, ps, n) \cup {x}
<1> DEFINE t == Append(ptrs, x)
           l == Len(ps)
<1>1. l \in Nat /\ ptrs \in Seq(Nat) /\ Len(ptrs) = l + n
  BY DEF Fresh
<1>2. /\ t \in Seq(Nat) /\ Len(t) = l + (n + 1) /\ t[l + (n + 1)] = x
      /\ \A i \in 1..l + n : t[i] = ptrs[i]
  BY <1>1
<1>3. /\ \A i \in 1..l : ptrs[i] = ps[i]
      /\ \A i \in l + 1..l + n : ptrs[i] \notin used /\ ptrs[i] # x
      /\ \A i, j \in l + 1..l + n : ptrs[i] = ptrs[j] => i = j
  BY DEF Fresh, Distinct, NewOnes
<1> HIDE DEF t, l
<1>4. \A i \in l + 1..l + (n + 1) : i \in l + 1..l + n \/ i = l + (n + 1)
  BY <1>1
<1>5. \A i \in l + 1..l + n : i \in 1..l + n /\ i \in l + 1..l + (n + 1)
  BY <1>1
<1>6. \A i \in 1..l : t[i] = ps[i]
  BY <1>1, <1>2, <1>3
<1>7. \A i \in l + 1..l + (n + 1) : t[i] \notin used
  BY <1>2, <1>3, <1>4, <1>5
<1>8. \A i, j \in l + 1..l + (n + 1) : t[i] = t[j] => i = j
  BY <1>2, <1>3, <1>4, <1>5
<1>9. l + (n + 1) \in l + 1..l + (n + 1)
  BY <1>1
<1>10. {t[i] : i \in l + 1..l + (n + 1)} = {ptrs[i] : i \in l + 1..l + n} \cup {x}
  BY <1>2, <1>4, <1>5, <1>9
<1> QED BY <1>2, <1>6, <1>7, <1>8, <1>10 DEF Fresh, Distinct, NewOnes, t, l

Record(g) == g = [heap |-> g.heap, ptrs |-> g.ptrs]

Continued(g, n, r) ==
  /\ Record(r) /\ WellFormed(r.heap) /\ r.heap.tcache_count = g.heap.tcache_count
  /\ Fresh(r.ptrs, g.ptrs, n, Probe!InUse(g.heap))
  /\ Probe!InUse(r.heap) = Probe!InUse(g.heap) \cup NewOnes(r.ptrs, g.ptrs, n)

LEMMA AllAnswered ==
  ASSUME NULL \notin Nat, NEW g, Record(g), WellFormed(g.heap), g.ptrs \in Seq(Nat),
         NEW u \in Seq(Nat \ {0})
  PROVE  Continued(g, Len(u), Probe!MallocAll(g, u))
<1> DEFINE n == Len(u)
           used == Probe!InUse(g.heap)
           ps == g.ptrs
<1>1. n \in Nat /\ DOMAIN u = 1..n /\ Len(ps) \in Nat
  OBVIOUS
<1>2. PICK p : /\ p[0] = g /\ p[n] = Probe!MallocAll(g, u)
               /\ \A k \in 0..n - 1 : p[k + 1] = Step("malloc", g, p[k], u[k + 1])
  <2>1. Run("malloc", g, g, u, n, Probe!MallocAll(g, u))
    BY <1>1, MallocAllRuns
  <2> HIDE DEF n
  <2> QED BY <2>1 DEF Run
<1> DEFINE Good(k) == /\ Record(p[k]) /\ WellFormed(p[k].heap)
                      /\ p[k].heap.tcache_count = g.heap.tcache_count
                      /\ Fresh(p[k].ptrs, ps, k, used)
                      /\ Probe!InUse(p[k].heap) = used \cup NewOnes(p[k].ptrs, ps, k)
           K == {k \in Nat : Good(k)}
<1>3. 0 \in K
  <2>1. Len(ps) + 1..Len(ps) + 0 = {}
    BY <1>1
  <2>2. NewOnes(ps, ps, 0) = {}
    BY <2>1 DEF NewOnes
  <2>3. Fresh(ps, ps, 0, used)
    BY <1>1, <2>1 DEF Fresh, Distinct
  <2> QED BY <1>2, <2>2, <2>3
<1>4. ASSUME NEW k \in 0..n - 1, k \in K PROVE k + 1 \in K
  <2> DEFINE h == p[k].heap
             m == Probe!Malloc(h, u[k + 1])
  <2>1. k \in Nat /\ k + 1 \in Nat /\ u[k + 1] \in Nat \ {0}
    BY <1>1
  <2>2. Good(k)
    BY <1>4
  <2>3. Answers(h, m)
    BY <2>1, <2>2, MallocAnswers
  <2>4. p[k + 1] = [heap |-> m.heap, ptrs |-> Append(p[k].ptrs, m.ptr)]
    BY <1>2 DEF Step, Probe!Allocated
  <2> HIDE DEF m
  <2>5. /\ WellFormed(m.heap) /\ m.heap.tcache_count = h.tcache_count
        /\ m.ptr \in Nat /\ m.ptr \notin used
        /\ m.ptr \notin NewOnes(p[k].ptrs, ps, k)
        /\ Probe!InUse(m.heap) = Probe!InUse(h) \cup {m.ptr}
    BY <2>2, <2>3 DEF Answers
  <2> HIDE DEF used, ps
  <2>6. /\ Fresh(Append(p[k].ptrs, m.ptr), ps, k + 1, used)
        /\ NewOnes(Append(p[k].ptrs, m.ptr), ps, k + 1) = NewOnes(p[k].ptrs, ps, k) \cup {m.ptr}
    <3>1. ps \in Seq(Nat)
      BY DEF ps
    <3> QED BY <2>1, <2>2, <2>5, <3>1, OneMoreFresh
  <2>7. p[k + 1].heap = m.heap /\ p[k + 1].ptrs = Append(p[k].ptrs, m.ptr) /\ Record(p[k + 1])
    BY <2>4 DEF Record
  <2>8. Good(k + 1)
    BY <2>2, <2>5, <2>6, <2>7
  <2> QED BY <2>1, <2>8
<1>5. n \in K
  <2> HIDE DEF K, n
  <2> QED BY <1>1, <1>3, <1>4, Upto
<1> QED BY <1>2, <1>5 DEF Continued

(* Requests in a row on a heap, from no pointers on.                       *)
Begun(h, n, r) ==
  /\ Record(r) /\ WellFormed(r.heap) /\ r.heap.tcache_count = h.tcache_count
  /\ r.ptrs \in Seq(Nat) /\ Len(r.ptrs) = n
  /\ \A i \in 1..n : r.ptrs[i] \notin Probe!InUse(h)
  /\ Distinct(r.ptrs, 1, n)
  /\ Probe!InUse(r.heap) = Probe!InUse(h) \cup {r.ptrs[i] : i \in 1..n}

LEMMA FirstAnswered ==
  ASSUME NULL \notin Nat, NEW h, WellFormed(h), NEW u \in Seq(Nat \ {0})
  PROVE  Begun(h, Len(u), Probe!MallocAll(Probe!Start(h), u))
<1> DEFINE g == Probe!Start(h)
           r == Probe!MallocAll(g, u)
<1>1. Record(g) /\ g.heap = h /\ g.ptrs = <<>>
  BY DEF Record, Probe!Start
<1> HIDE DEF g
<1>2. /\ Record(r) /\ WellFormed(r.heap) /\ r.heap.tcache_count = h.tcache_count
      /\ Fresh(r.ptrs, <<>>, Len(u), Probe!InUse(h))
      /\ Probe!InUse(r.heap) = Probe!InUse(h) \cup NewOnes(r.ptrs, <<>>, Len(u))
  <2>1. g.ptrs \in Seq(Nat) /\ WellFormed(g.heap)
    BY <1>1
  <2>2. Continued(g, Len(u), r)
    BY <1>1, <2>1, AllAnswered
  <2> QED BY <1>1, <2>2 DEF Continued
<1> HIDE DEF r
<1>3. Len(<<>>) = 0 /\ Len(u) \in Nat /\ 0 + 1 = 1 /\ 0 + Len(u) = Len(u)
  OBVIOUS
<1> QED BY <1>2, <1>3 DEF Begun, Fresh, Distinct, NewOnes, r, g

-----------------------------------------------------------------------------
(* The probes.                                                             *)
LEMMA ProbeConstants ==
  /\ NULL \notin Nat /\ TEST_SIZE_TCACHEBIN \in Nat \ {0} /\ MaxEarly \in Nat
  /\ EarlySizes \subseteq Nat \ {0} /\ TcacheCounts \subseteq Nat
  /\ NULL # TCACHE /\ ONE # TCACHE
BY PartsAssumption DEF Probe!LeakProbeConstants

LEMMA ProbeSizes ==
  /\ Probe!TEST_SIZE_TCACHEMALLOC \in Nat \ {0} /\ Probe!TEST_SIZE_LEAK \in Nat \ {0}
  /\ Probe!TEST_SIZE_BARRIER \in Nat \ {0} /\ Probe!SIZEOF_ARENA_INFO \in Nat \ {0}
<1>1. /\ Probe!request2units(1) \in Nat \ {0} /\ Probe!request2units(8) \in Nat \ {0}
      /\ Probe!request2units(4096) \in Nat \ {0} /\ Probe!request2units(280) \in Nat \ {0}
  BY DEF Probe!request2units, Probe!MINSIZE
<1> QED BY <1>1 DEF Probe!TEST_SIZE_TCACHEMALLOC, Probe!TEST_SIZE_LEAK,
                    Probe!TEST_SIZE_BARRIER, Probe!SIZEOF_ARENA_INFO

LEMMA TimesSeq ==
  ASSUME NEW k \in Nat, NEW m \in Nat \ {0}
  PROVE  Probe!Times(k, m) \in Seq(Nat \ {0}) /\ Len(Probe!Times(k, m)) = k
BY DEF Probe!Times

LEMMA WithBarrier ==
  ASSUME NEW k \in Nat, NEW m \in Nat \ {0}, NEW b \in Nat \ {0}
  PROVE  /\ <<b>> \o Probe!Times(k, m) \in Seq(Nat \ {0})
         /\ Len(<<b>> \o Probe!Times(k, m)) = k + 1
<1>1. Probe!Times(k, m) \in Seq(Nat \ {0}) /\ Len(Probe!Times(k, m)) = k
  BY TimesSeq
<1>2. <<b>> \in Seq(Nat \ {0}) /\ Len(<<b>>) = 1
  OBVIOUS
<1> HIDE DEF Probe!Times
<1> QED BY <1>1, <1>2

(* The test for a tcache gives back all it allocates, whatever the answer; *)
(* it takes a word for the tcache only if it is the key of an entry.       *)
Tested(h, t) ==
  /\ WellFormed(t.heap) /\ Probe!InUse(t.heap) = Probe!InUse(h)
  /\ t.heap.tcache_count = h.tcache_count
  /\ t.present \in {NULL, ONE, TCACHE}
  /\ t.present = TCACHE => version = "2.29" /\ h.tcache_count # 0

LEMMA TcacheTested ==
  ASSUME NEW h, WellFormed(h)
  PROVE  Tested(h, Probe!test_tcache(h))
         /\ Probe!test_tcache(h) = [heap |-> Probe!test_tcache(h).heap,
                                    present |-> Probe!test_tcache(h).present]
<1> DEFINE T == TEST_SIZE_TCACHEBIN
           m == Probe!TEST_SIZE_TCACHEMALLOC
           b == Probe!TEST_SIZE_BARRIER
           u1 == Probe!Times(2 * T, m)
           u2 == <<b>> \o Probe!Times(T, m)
           g1 == Probe!MallocAll(Probe!Start(h), u1)
           p1 == g1.ptrs
           g2 == Probe!Freed(g1)
           g3 == Probe!MallocAll(g2, u2)
           p3 == g3.ptrs
           used == Probe!InUse(h)
           A == {p1[i] : i \in 1..T}
           B == {p1[i] : i \in T + 1..2 * T}
           C == {p3[i] : i \in 2 * T + 1..3 * T + 1}
           s1 == SubSeq(p1, T + 1, 2 * T)
           s2 == SubSeq(p3, 2 * T + 2, 3 * T + 1)
           s3 == SubSeq(p3, 1, T)
           s4 == <<p3[2 * T + 1]>>
<1>1. /\ NULL \notin Nat /\ T \in Nat /\ T > 0 /\ m \in Nat \ {0} /\ b \in Nat \ {0}
  BY ProbeConstants, ProbeSizes
<1>2. /\ u1 \in Seq(Nat \ {0}) /\ Len(u1) = 2 * T
      /\ u2 \in Seq(Nat \ {0}) /\ Len(u2) = T + 1
  <2> HIDE DEF T, m, b
  <2>1. 2 * T \in Nat
    BY <1>1
  <2> QED BY <1>1, <2>1, TimesSeq, WithBarrier
<1>3. Probe!test_tcache(h) = Probe!Compared(g2.heap, g3)
  BY DEF Probe!test_tcache, Probe!Refilled
<1> HIDE DEF T, m, b, u1, u2
<1>4. /\ Record(g1) /\ WellFormed(g1.heap) /\ g1.heap.tcache_count = h.tcache_count
      /\ p1 \in Seq(Nat) /\ Len(p1) = 2 * T
      /\ \A i \in 1..2 * T : p1[i] \notin used
      /\ Distinct(p1, 1, 2 * T)
      /\ Probe!InUse(g1.heap) = used \cup {p1[i] : i \in 1..2 * T}
  <2>1. Begun(h, Len(u1), g1)
    BY <1>1, <1>2, FirstAnswered
  <2> HIDE DEF g1
  <2> QED BY <1>2, <2>1 DEF Begun
<1> HIDE DEF g1
<1>5. /\ {p1[i] : i \in 1..2 * T} = A \cup B
      /\ A \cap B = {} /\ A \cap used = {} /\ B \cap used = {}
  <2>1. /\ 1..2 * T = (1..T) \cup (T + 1..2 * T)
        /\ \A i \in 1..T, j \in T + 1..2 * T : i \in 1..2 * T /\ j \in 1..2 * T /\ i # j
    BY <1>1
  <2>2. {p1[i] : i \in 1..2 * T} = A \cup B
    BY <2>1
  <2>3. \A i \in 1..T, j \in T + 1..2 * T : p1[i] # p1[j]
    BY <1>4, <2>1 DEF Distinct
  <2>4. /\ \A i \in 1..T : p1[i] \notin used
        /\ \A i \in T + 1..2 * T : p1[i] \notin used
    BY <1>4, <2>1
  <2> HIDE DEF p1, used
  <2> QED BY <2>2, <2>3, <2>4
<1>6. List(s1) /\ Probe!ToSet(s1) = B
  <2>1. \A i \in T + 1..2 * T : i \in 1..2 * T
    BY <1>1
  <2>2. Distinct(p1, T + 1, 2 * T)
    BY <1>4, <2>1 DEF Distinct
  <2>3. T + 1 \in Nat \ {0} /\ 2 * T \in Nat /\ T + 1 <= 2 * T + 1 /\ 2 * T <= Len(p1)
    BY <1>1, <1>4
  <2> HIDE DEF p1
  <2> QED BY <1>4, <2>2, <2>3, PartOfSeq
<1>7. /\ Record(g2) /\ g2.ptrs = p1 /\ WellFormed(g2.heap)
      /\ g2.heap.tcache_count = h.tcache_count
      /\ Probe!InUse(g2.heap) = used \cup A
  <2>1. g2 = [heap |-> Probe!FreeAll(g1.heap, s1), ptrs |-> p1]
    BY <1>4 DEF Probe!Freed, Probe!buffers1, Record, T
  <2>2. /\ WellFormed(Probe!FreeAll(g1.heap, s1))
        /\ Probe!FreeAll(g1.heap, s1).tcache_count = g1.heap.tcache_count
        /\ Probe!InUse(Probe!FreeAll(g1.heap, s1)) = Probe!InUse(g1.heap) \ B
    <3> HIDE DEF p1, s1, B
    <3> QED BY <1>4, <1>5, <1>6, AllFreed
  <2> HIDE DEF g2, p1, s1, A, B, used
  <2> QED BY <1>4, <1>5, <2>1, <2>2 DEF Record
<1> HIDE DEF g2
<1>8. /\ Record(g3) /\ WellFormed(g3.heap) /\ g3.heap.tcache_count = h.tcache_count
      /\ Fresh(p3, p1, T + 1, used \cup A)
      /\ Probe!InUse(g3.heap) = (used \cup A) \cup NewOnes(p3, p1, T + 1)
  <2>1. Continued(g2, Len(u2), g3)
    <3> HIDE DEF p1, g3, used, A
    <3>1. g2.ptrs \in Seq(Nat)
      BY <1>4, <1>7
    <3> QED BY <1>1, <1>2, <1>7, <3>1, AllAnswered DEF g3
  <2> HIDE DEF p1, g3, used, A
  <2> QED BY <1>2, <1>7, <2>1 DEF Continued
<1> HIDE DEF g3
<1>9. /\ p3 \in Seq(Nat) /\ Len(p3) = 3 * T + 1
      /\ \A i \in 1..2 * T : p3[i] = p1[i]
      /\ \A i \in 2 * T + 1..3 * T + 1 : p3[i] \notin used \cup A
      /\ Distinct(p3, 2 * T + 1, 3 * T + 1)
      /\ NewOnes(p3, p1, T + 1) = C
  <2>1. Len(p1) + (T + 1) = 3 * T + 1 /\ Len(p1) = 2 * T
    BY <1>1, <1>4
  <2> QED BY <1>8, <2>1 DEF Fresh, NewOnes
<1>10. C \cap (used \cup A) = {}
  BY <1>9
<1>11. List(s3) /\ Probe!ToSet(s3) = A
  <2>1. \A i \in 1..T : i \in 1..2 * T
    BY <1>1
  <2>2. Distinct(p3, 1, T)
    BY <1>4, <1>9, <2>1 DEF Distinct
  <2>3. 1 \in Nat \ {0} /\ T \in Nat /\ 1 <= T + 1 /\ T <= Len(p3)
    BY <1>1, <1>9
  <2>4. {p3[i] : i \in 1..T} = A
    BY <1>9, <2>1
  <2> HIDE DEF p3, A
  <2> QED BY <1>9, <2>2, <2>3, <2>4, PartOfSeq
<1>12. List(s2) /\ Probe!ToSet(s2) = {p3[i] : i \in 2 * T + 2..3 * T + 1}
  <2>1. \A i \in 2 * T + 2..3 * T + 1 : i \in 2 * T + 1..3 * T + 1
    BY <1>1
  <2>2. Distinct(p3, 2 * T + 2, 3 * T + 1)
    BY <1>9, <2>1 DEF Distinct
  <2>3. /\ 2 * T + 2 \in Nat \ {0} /\ 3 * T + 1 \in Nat /\ 2 * T + 2 <= (3 * T + 1) + 1
        /\ 3 * T + 1 <= Len(p3)
    BY <1>1, <1>9
  <2> HIDE DEF p3
  <2> QED BY <1>9, <2>2, <2>3, PartOfSeq
<1>13. List(s4) /\ Probe!ToSet(s4) = {p3[2 * T + 1]}
  <2>1. p3[2 * T + 1] \in Nat
    <3>1. 2 * T + 1 \in 1..3 * T + 1
      BY <1>1
    <3>2. p3 \in Seq(Nat) /\ Len(p3) = 3 * T + 1
      BY <1>9
    <3> HIDE DEF p3
    <3> QED BY <3>1, <3>2, ElementOfSeq
  <2> QED BY <2>1, SingleList
<1>14. List((s2 \o s3) \o s4) /\ Probe!ToSet((s2 \o s3) \o s4) = A \cup C
  <2>1. 2 * T + 1..3 * T + 1 = (2 * T + 2..3 * T + 1) \cup {2 * T + 1} /\ 2 * T + 1 \notin 2 * T + 2..3 * T + 1
    BY <1>1
  <2>2. C = Probe!ToSet(s2) \cup Probe!ToSet(s4)
    BY <1>12, <1>13, <2>1
  <2>3. Probe!ToSet(s2) \cap Probe!ToSet(s4) = {}
    <3>1. \A i \in 2 * T + 2..3 * T + 1 : p3[i] # p3[2 * T + 1]
      BY <1>9, <2>1 DEF Distinct
    <3> QED BY <1>12, <1>13, <3>1
  <2>4. Probe!ToSet(s2) \cap A = {} /\ Probe!ToSet(s4) \cap A = {}
    BY <1>10, <2>2
  <2> HIDE DEF s2, s3, s4, A, C
  <2>5. List(s2 \o s3) /\ Probe!ToSet(s2 \o s3) = Probe!ToSet(s2) \cup A
    BY <1>11, <1>12, <2>4, JoinedLists
  <2>6. /\ List((s2 \o s3) \o s4)
        /\ Probe!ToSet((s2 \o s3) \o s4) = Probe!ToSet(s2 \o s3) \cup Probe!ToSet(s4)
    BY <1>13, <2>3, <2>4, <2>5, JoinedLists
  <2> QED BY <2>2, <2>5, <2>6
<1> DEFINE f == Probe!FreeAll(g3.heap, (s2 \o s3) \o s4)
<1>15. WellFormed(f) /\ Probe!InUse(f) = used /\ f.tcache_count = h.tcache_count
  <2> HIDE DEF s2, s3, s4, A, C, used
  <2>1. /\ WellFormed(f) /\ Probe!InUse(f) = Probe!InUse(g3.heap) \ (A \cup C)
        /\ f.tcache_count = g3.heap.tcache_count
    BY <1>8, <1>9, <1>14, AllFreed
  <2> QED BY <1>5, <1>8, <1>9, <1>10, <2>1
<1>16. Probe!Compared(g2.heap, g3).heap = f
  BY <1>9 DEF Probe!Compared, Probe!buffers2, Probe!barrier1, Probe!barrier2, T
<1>17. /\ Probe!Compared(g2.heap, g3).present \in {NULL, ONE, TCACHE}
       /\ Probe!Compared(g2.heap, g3).present = TCACHE =>
            version = "2.29" /\ h.tcache_count # 0
  <2> DEFINE w(c) == Probe!might_be_tcache(g2.heap, c)
  <2>1. \A c : w(c) \in {ONE, TCACHE}
    BY DEF Probe!might_be_tcache
  <2>2. ASSUME NEW c, w(c) = TCACHE PROVE version = "2.29" /\ h.tcache_count # 0
    <3>1. version = "2.29" /\ Probe!In(c, g2.heap.tc)
      BY <2>2, ProbeConstants DEF Probe!might_be_tcache
    <3>2. g2.heap.tc # <<>>
      BY <3>1 DEF Probe!In
    <3>3. g2.heap.tcache_count # 0
      BY <1>7, <3>2 DEF WellFormed
    <3> QED BY <1>7, <3>1, <3>3
  <2>3. \/ Probe!Compared(g2.heap, g3).present = NULL
        \/ \E c : Probe!Compared(g2.heap, g3).present = w(c)
    BY DEF Probe!Compared
  <2> HIDE DEF w
  <2> QED BY <2>1, <2>2, <2>3, ProbeConstants
<1>18. Probe!Compared(g2.heap, g3) = [heap |-> Probe!Compared(g2.heap, g3).heap,
                                      present |-> Probe!Compared(g2.heap, g3).present]
  BY DEF Probe!Compared
<1> QED BY <1>3, <1>15, <1>16, <1>17, <1>18 DEF Tested

LEMMA InfoFound ==
  ASSUME NEW h, WellFormed(h)
  PROVE  Tested(h, Probe!GLIBC_INFO(h))
<1>1. CASE version = "2.24"
  <2>1. Probe!GLIBC_INFO(h) = [heap |-> h, present |-> NULL]
    BY <1>1 DEF Probe!GLIBC_INFO
  <2> QED BY <2>1, ProbeConstants DEF Tested
<1>2. CASE version # "2.24"
  <2> DEFINE t == Probe!test_tcache(h)
             r == Probe!Read(t)
  <2>1. Tested(h, t) /\ t = [heap |-> t.heap, present |-> t.present]
    BY TcacheTested
  <2>2. Probe!GLIBC_INFO(h) = r
    BY <1>2 DEF Probe!GLIBC_INFO
  <2>3. r = IF version = "2.26" /\ t.present # NULL THEN [t EXCEPT !.present = ONE] ELSE t
    BY DEF Probe!Read
  <2> HIDE DEF t, r
  <2>4. /\ r.heap = t.heap /\ r.present \in {NULL, ONE, TCACHE}
        /\ r.present = TCACHE => version = "2.29" /\ h.tcache_count # 0
    <3>1. CASE version = "2.26" /\ t.present # NULL
      <4>1. r = [t EXCEPT !.present = ONE]
        BY <2>3, <3>1
      <4> QED BY <2>1, <4>1, ProbeConstants
    <3>2. CASE ~(version = "2.26" /\ t.present # NULL)
      BY <2>1, <2>3, <3>2 DEF Tested
    <3> QED BY <3>1, <3>2
  <2> QED BY <2>1, <2>2, <2>4 DEF Tested
<1> QED BY <1>1, <1>2

LEMMA FourList ==
  ASSUME NEW x \in Nat, NEW y \in Nat, NEW z \in Nat, NEW w \in Nat,
         x # y, x # z, x # w, y # z, y # w, z # w
  PROVE  List(<<x, y, z, w>>) /\ Probe!ToSet(<<x, y, z, w>>) = {x, y, z, w}
<1> DEFINE s == <<x, y, z, w>>
<1>1. /\ s \in Seq(Nat) /\ DOMAIN s = {1, 2, 3, 4}
      /\ s[1] = x /\ s[2] = y /\ s[3] = z /\ s[4] = w
  OBVIOUS
<1> HIDE DEF s
<1>2. \A i, j \in {1, 2, 3, 4} : s[i] = s[j] => i = j
  BY <1>1
<1> QED BY <1>1, <1>2 DEF List, Probe!ToSet, s

(* The leak of the arena frees everything it allocated: the fillers and a, *)
(* and once a is sorted the other four chunks.                             *)
Leaks(h, u, b, g, freed, e, left) ==
  /\ g = Probe!MallocAll(Probe!Start(h), u)
  /\ freed = Probe!FreeAll(g.heap, SubSeq(g.ptrs, 5, Len(g.ptrs)) \o <<g.ptrs[3]>>)
  /\ e = Probe!Malloc(freed, b)
  /\ left = Probe!FreeAll(e.heap, <<g.ptrs[2], g.ptrs[4], e.ptr, g.ptrs[1]>>)

LEMMA LeakGivesBack ==
  ASSUME NEW h, WellFormed(h), NEW u \in Seq(Nat \ {0}), Len(u) >= 4, NEW b \in Nat \ {0},
         NEW g, NEW freed, NEW e, NEW left, Leaks(h, u, b, g, freed, e, left)
  PROVE  /\ WellFormed(left) /\ Probe!InUse(left) = Probe!InUse(h)
         /\ left.tcache_count = h.tcache_count
<1> DEFINE p == g.ptrs
           n == Len(u)
           used == Probe!InUse(h)
           rest == {p[i] : i \in 5..n}
           s == SubSeq(p, 5, n)
<1>1. n \in Nat /\ n >= 4 /\ NULL \notin Nat
  BY ProbeConstants
<1>2. /\ WellFormed(g.heap) /\ g.heap.tcache_count = h.tcache_count
      /\ p \in Seq(Nat) /\ Len(p) = n
      /\ \A i \in 1..n : p[i] \notin used
      /\ \A i, j \in 1..n : p[i] = p[j] => i = j
      /\ Probe!InUse(g.heap) = used \cup {p[i] : i \in 1..n}
  <2>1. Begun(h, n, g)
    BY <1>1, FirstAnswered DEF Leaks
  <2> HIDE DEF n
  <2> QED BY <2>1 DEF Begun, Distinct
<1> HIDE DEF n, p, used
<1>3. 1..n = {1, 2, 3, 4} \cup 5..n /\ 5..n \cap {1, 2, 3, 4} = {}
  BY <1>1
<1>4. p[1] \in Nat /\ p[2] \in Nat /\ p[3] \in Nat /\ p[4] \in Nat
  <2>1. 1 \in 1..n /\ 2 \in 1..n /\ 3 \in 1..n /\ 4 \in 1..n
    BY <1>3
  <2> QED BY <1>2, <2>1, ElementOfSeq
<1>5. /\ p[1] # p[2] /\ p[1] # p[3] /\ p[1] # p[4] /\ p[2] # p[3] /\ p[2] # p[4] /\ p[3] # p[4]
      /\ {p[1], p[2], p[3], p[4]} \cap rest = {}
      /\ {p[i] : i \in 1..n} = {p[1], p[2], p[3], p[4]} \cup rest
      /\ ({p[1], p[2], p[3], p[4]} \cup rest) \cap used = {}
  <2>1. /\ 1 \in 1..n /\ 2 \in 1..n /\ 3 \in 1..n /\ 4 \in 1..n
        /\ \A i \in 5..n : i \in 1..n /\ i # 1 /\ i # 2 /\ i # 3 /\ i # 4
    BY <1>3
  <2>2. /\ 1 # 2 /\ 1 # 3 /\ 1 # 4 /\ 2 # 3 /\ 2 # 4 /\ 3 # 4
    OBVIOUS
  <2>3. {p[1], p[2], p[3], p[4]} \cap rest = {}
    BY <1>2, <2>1
  <2>4. {p[i] : i \in 1..n} = {p[1], p[2], p[3], p[4]} \cup rest
    BY <1>3, <2>1
  <2>5. p[1] # p[2] /\ p[1] # p[3] /\ p[1] # p[4] /\ p[2] # p[3] /\ p[2] # p[4] /\ p[3] # p[4]
    BY <1>2, <2>1, <2>2
  <2>6. {p[i] : i \in 1..n} \cap used = {}
    BY <1>2
  <2> HIDE DEF rest
  <2> QED BY <2>3, <2>4, <2>5, <2>6
<1>6. List(s) /\ Probe!ToSet(s) = rest
  <2>1. Distinct(p, 5, n)
    BY <1>2, <1>3 DEF Distinct
  <2>2. 5 \in Nat \ {0} /\ n \in Nat /\ 5 <= n + 1 /\ n <= Len(p)
    BY <1>1, <1>2
  <2> QED BY <1>2, <2>1, <2>2, PartOfSeq
<1> HIDE DEF rest
<1>7. List(s \o <<p[3]>>) /\ Probe!ToSet(s \o <<p[3]>>) = rest \cup {p[3]}
  <2>1. List(<<p[3]>>) /\ Probe!ToSet(<<p[3]>>) = {p[3]}
    BY <1>4, SingleList
  <2> HIDE DEF s
  <2>2. Probe!ToSet(s) \cap Probe!ToSet(<<p[3]>>) = {}
    BY <1>5, <1>6, <2>1
  <2> QED BY <1>6, <2>1, <2>2, JoinedLists
<1>8. /\ WellFormed(freed) /\ freed.tcache_count = h.tcache_count
      /\ Probe!InUse(freed) = used \cup {p[1], p[2], p[4]}
  <2>1. freed = Probe!FreeAll(g.heap, s \o <<p[3]>>)
    BY <1>2 DEF p, Leaks
  <2> HIDE DEF s
  <2>2. Probe!ToSet(s \o <<p[3]>>) \subseteq Probe!InUse(g.heap)
    BY <1>2, <1>5, <1>7
  <2>3. /\ WellFormed(freed) /\ freed.tcache_count = g.heap.tcache_count
        /\ Probe!InUse(freed) = Probe!InUse(g.heap) \ Probe!ToSet(s \o <<p[3]>>)
    BY <1>2, <1>7, <2>1, <2>2, AllFreed
  <2> QED BY <1>2, <1>5, <1>7, <2>3
<1>9. /\ WellFormed(e.heap) /\ e.heap.tcache_count = freed.tcache_count
      /\ e.ptr \in Nat /\ e.ptr \notin Probe!InUse(freed)
      /\ Probe!InUse(e.heap) = Probe!InUse(freed) \cup {e.ptr}
  <2>1. e = Probe!Malloc(freed, b)
    BY DEF Leaks
  <2>2. Answers(freed, e)
    BY <1>1, <1>8, <2>1, MallocAnswers
  <2> QED BY <2>2 DEF Answers
<1> DEFINE t == <<p[2], p[4], e.ptr, p[1]>>
<1>10. List(t) /\ Probe!ToSet(t) = {p[2], p[4], e.ptr, p[1]}
  <2>1. e.ptr # p[1] /\ e.ptr # p[2] /\ e.ptr # p[4]
    BY <1>8, <1>9
  <2>2. p[2] # p[4] /\ p[2] # p[1] /\ p[4] # p[1]
    BY <1>5
  <2> DEFINE x == p[2]
             y == p[4]
             z == e.ptr
             w == p[1]
  <2>3. /\ x \in Nat /\ y \in Nat /\ z \in Nat /\ w \in Nat
        /\ x # y /\ x # z /\ x # w /\ y # z /\ y # w /\ z # w
    BY <1>4, <1>9, <2>1, <2>2
  <2>4. t = <<x, y, z, w>> /\ {p[2], p[4], e.ptr, p[1]} = {x, y, z, w}
    OBVIOUS
  <2> HIDE DEF t, x, y, z, w
  <2>5. List(<<x, y, z, w>>) /\ Probe!ToSet(<<x, y, z, w>>) = {x, y, z, w}
    BY <2>3, FourList
  <2> QED BY <2>4, <2>5
<1>11. left = Probe!FreeAll(e.heap, t)
  BY DEF p, Leaks
<1> HIDE DEF t
<1>12. Probe!ToSet(t) \subseteq Probe!InUse(e.heap)
  BY <1>8, <1>9, <1>10
<1>13. /\ WellFormed(left) /\ Probe!InUse(left) = Probe!InUse(e.heap) \ Probe!ToSet(t)
       /\ left.tcache_count = e.heap.tcache_count
  BY <1>9, <1>10, <1>11, <1>12, AllFreed
<1>14. Probe!InUse(left) = used
  BY <1>5, <1>8, <1>9, <1>10, <1>13
<1> QED BY <1>8, <1>9, <1>13, <1>14 DEF used

LEMMA CleanUnits ==
  [i \in DOMAIN Probe!CleanSizes |-> Probe!request2units(Probe!CleanSizes[i])]
    \in Seq(Nat \ {0})
<1> DEFINE s == Probe!CleanSizes
           u == [i \in DOMAIN s |-> Probe!request2units(s[i])]
<1>1. s \in Seq(Nat \ {0})
  <2> DEFINE x == Probe!Times(7, 16)
             y == Probe!Times(7, 256)
  <2>1. x \in Seq(Nat \ {0}) /\ y \in Seq(Nat \ {0})
    BY TimesSeq
  <2>2. s = ((<<4180, 80, 784>> \o x) \o y) \o <<1024>>
    BY DEF Probe!CleanSizes
  <2>3. <<4180, 80, 784>> \in Seq(Nat \ {0}) /\ <<1024>> \in Seq(Nat \ {0})
    OBVIOUS
  <2> HIDE DEF s, x, y
  <2>4. <<4180, 80, 784>> \o x \in Seq(Nat \ {0})
    BY <2>1, <2>3
  <2>5. (<<4180, 80, 784>> \o x) \o y \in Seq(Nat \ {0})
    BY <2>1, <2>4
  <2> QED BY <2>2, <2>3, <2>5
<1> HIDE DEF s
<1>2. Len(s) \in Nat /\ DOMAIN s = 1..Len(s) /\ \A i \in 1..Len(s) : s[i] \in Nat \ {0}
  BY <1>1
<1>3. \A n \in Nat : Probe!request2units(n) \in Nat \ {0}
  BY DEF Probe!request2units, Probe!MINSIZE
<1>4. u \in [1..Len(s) -> Nat \ {0}]
  BY <1>2, <1>3
<1> HIDE DEF u
<1>5. u \in Seq(Nat \ {0})
  BY <1>2, <1>4
<1> QED BY <1>5 DEF u, s

LEMMA EmptyWellFormed ==
  ASSUME NEW count, NEW trims
  PROVE  /\ WellFormed(Probe!EmptyHeap(count, trims))
         /\ Probe!InUse(Probe!EmptyHeap(count, trims)) = {}
         /\ Probe!EmptyHeap(count, trims).tcache_count = count
<1> DEFINE h == Probe!EmptyHeap(count, trims)
<1>1. /\ Fields(h) /\ DOMAIN h.size = {} /\ h.top = 0
      /\ h.tc = <<>> /\ h.fast = <<>> /\ h.us = <<>> /\ h.sorted = <<>>
  BY DEF Probe!EmptyHeap, Fields
<1> HIDE DEF h
<1>2. Tiled(h.size, h.top)
  BY <1>1 DEF Tiled
<1>3. Placed(DOMAIN h.size, Probe!ToSet(h.tc), Probe!ToSet(h.fast), Probe!ToSet(h.us),
             Probe!ToSet(h.sorted))
  BY <1>1, EmptyList DEF Placed
<1>4. WellFormed(h)
  BY <1>1, <1>2, <1>3, EmptyList DEF WellFormed
<1>5. Probe!InUse(h) = {}
  BY <1>1 DEF Probe!InUse
<1>6. h.tcache_count = count
  BY DEF h, Probe!EmptyHeap
<1> QED BY <1>4, <1>5, <1>6 DEF h
-----------------------------------------------------------------------------
(* The probes only ever leave well-formed heaps, in which exactly the      *)
(* chunks that somebody holds are in use.  Nobody gives back a chunk that  *)
(* ShadowHeap keeps: it keeps none before the application's last free().   *)
(* A word is taken for the tcache struct only where the key or the patched *)
(* libc says so, and neither does where there is none.                     *)
Held ==
  /\ WellFormed(heap) /\ Probe!InUse(heap) = live \cup kept
  /\ phase = "early" => kept = {}
Typed ==
  /\ phase \in {"early", "leak_arena", "arena_info", "clean", "ready", "aborted"}
  /\ tcache_present \in {NULL, ONE, TCACHE} /\ tcache \in {NULL, TCACHE}
  /\ arena \in {0, ELSEWHERE} /\ nearly \in 0..MaxEarly
StructReal ==
  /\ heap.tcache_count \in Nat
  /\ tcache = TCACHE => Probe!HasTcache /\ (patched \/ version = "2.29")
ProbeInv == Held /\ Typed /\ StructReal

LEMMA StaysReal ==
  ASSUME StructReal, heap'.tcache_count = heap.tcache_count, tcache' = tcache,
         version' = version, patched' = patched
  PROVE  StructReal'
BY DEF StructReal, Probe!HasTcache

LEMMA ProbeInit == Probe!Init => ProbeInv
<1> SUFFICES ASSUME Probe!Init PROVE ProbeInv
  OBVIOUS
<1>1. PICK count, trims : count \in Nat /\ heap = Probe!EmptyHeap(count, trims)
  BY ProbeConstants DEF Probe!Init
<1>2. WellFormed(heap) /\ Probe!InUse(heap) = {} /\ heap.tcache_count = count
  BY <1>1, EmptyWellFormed
<1>3. /\ live = {} /\ kept = {} /\ phase = "early" /\ nearly = 0
      /\ tcache_present = NULL /\ tcache = NULL /\ arena = ELSEWHERE
  BY DEF Probe!Init
<1>4. Held
  BY <1>2, <1>3 DEF Held
<1>5. Typed
  BY <1>3, ProbeConstants DEF Typed
<1>6. StructReal
  BY <1>1, <1>2, <1>3, ProbeConstants DEF StructReal
<1> QED BY <1>4, <1>5, <1>6 DEF ProbeInv

LEMMA EarlyMallocStep ==
  ASSUME ProbeInv, NEW n \in EarlySizes, Probe!EarlyMalloc(n)
  PROVE  ProbeInv'
<1>1. Held /\ Typed /\ StructReal
  BY DEF ProbeInv
<1> DEFINE m == Probe!Malloc(heap, n)
<1>2. Answers(heap, m)
  BY <1>1, ProbeConstants, MallocAnswers DEF Held
<1>3. /\ phase = "early" /\ nearly < MaxEarly /\ nearly' = nearly + 1
      /\ heap' = m.heap /\ live' = live \cup {m.ptr}
      /\ phase' = phase /\ kept' = kept /\ tcache_present' = tcache_present
      /\ tcache' = tcache /\ arena' = arena /\ version' = version /\ patched' = patched
  BY DEF Probe!EarlyMalloc
<1> HIDE DEF m
<1>4. Held'
  <2>1. WellFormed(heap') /\ Probe!InUse(heap') = live' \cup kept'
    BY <1>1, <1>2, <1>3 DEF Held, Answers
  <2> QED BY <1>1, <1>3, <2>1 DEF Held
<1>5. Typed'
  BY <1>1, <1>3, ProbeConstants DEF Typed
<1>6. StructReal'
  BY <1>1, <1>2, <1>3, StaysReal DEF Answers
<1> QED BY <1>4, <1>5, <1>6 DEF ProbeInv

LEMMA EarlyFreeStep ==
  ASSUME ProbeInv, NEW c \in live, Probe!EarlyFree(c)
  PROVE  ProbeInv'
<1>1. Held /\ Typed /\ StructReal
  BY DEF ProbeInv
<1>2. /\ phase = "early" /\ heap' = Probe!Free(heap, c) /\ live' = live \ {c}
      /\ phase' = phase /\ kept' = kept /\ tcache_present' = tcache_present
      /\ tcache' = tcache /\ arena' = arena /\ nearly' = nearly
      /\ version' = version /\ patched' = patched
  BY DEF Probe!EarlyFree
<1>3. WellFormed(heap) /\ Probe!InUse(heap) = live /\ kept = {}
  BY <1>1, <1>2 DEF Held
<1>4. /\ WellFormed(heap') /\ Probe!InUse(heap') = live \ {c}
      /\ heap'.tcache_count = heap.tcache_count
  BY <1>2, <1>3, FreedHeap
<1>5. Held'
  BY <1>2, <1>3, <1>4 DEF Held
<1>6. Typed'
  BY <1>1, <1>2 DEF Typed
<1>7. StructReal'
  BY <1>1, <1>2, <1>4, StaysReal
<1> QED BY <1>5, <1>6, <1>7 DEF ProbeInv

LEMMA InfoStep ==
  ASSUME ProbeInv, Probe!get_arenainfo
  PROVE  ProbeInv'
<1>1. Held /\ Typed /\ StructReal
  BY DEF ProbeInv
<1> DEFINE t == Probe!GLIBC_INFO(heap)
<1>2. Tested(heap, t)
  BY <1>1, InfoFound DEF Held
<1>3. /\ \/ phase' = "aborted" /\ heap' = heap /\ tcache_present' = tcache_present
         \/ phase' = "leak_arena" /\ heap' = t.heap /\ tcache_present' = t.present
      /\ live' = live /\ kept' = kept /\ tcache' = tcache /\ arena' = arena
      /\ nearly' = nearly /\ version' = version /\ patched' = patched
  BY DEF Probe!get_arenainfo
<1> HIDE DEF t
<1>4. Held'
  <2>1. WellFormed(heap') /\ Probe!InUse(heap') = live' \cup kept'
    BY <1>1, <1>2, <1>3 DEF Held, Tested
  <2> QED BY <1>3, <2>1 DEF Held
<1>5. Typed'
  BY <1>1, <1>2, <1>3 DEF Typed, Tested
<1>6. StructReal'
  BY <1>1, <1>2, <1>3, StaysReal DEF Tested
<1> QED BY <1>4, <1>5, <1>6 DEF ProbeInv

LEMMA LeakUnits ==
  /\ <<Probe!TEST_SIZE_BARRIER>> \o Probe!Times(3, Probe!TEST_SIZE_LEAK) \o Probe!fillers
       \in Seq(Nat \ {0})
  /\ Len(<<Probe!TEST_SIZE_BARRIER>> \o Probe!Times(3, Probe!TEST_SIZE_LEAK) \o Probe!fillers) >= 4
<1> DEFINE b == <<Probe!TEST_SIZE_BARRIER>> \o Probe!Times(3, Probe!TEST_SIZE_LEAK)
           f == Probe!fillers
<1>1. b \in Seq(Nat \ {0}) /\ Len(b) = 4
  BY ProbeSizes, WithBarrier
<1>2. f \in Seq(Nat \ {0})
  <2>1. Probe!Times(TEST_SIZE_TCACHEBIN, Probe!TEST_SIZE_LEAK) \in Seq(Nat \ {0})
    BY ProbeConstants, ProbeSizes, TimesSeq
  <2> QED BY <2>1 DEF Probe!fillers
<1> HIDE DEF b, f
<1>3. b \o f \in Seq(Nat \ {0})
  BY <1>1, <1>2, ConcatProperties
<1>4. Len(b \o f) = Len(b) + Len(f)
  BY <1>1, <1>2, ConcatProperties
<1>5. Len(f) \in Nat
  BY <1>2
<1>6. Len(b \o f) >= 4
  BY <1>1, <1>4, <1>5
<1> QED BY <1>3, <1>6 DEF b, f

LEMMA LeakStep ==
  ASSUME ProbeInv, Probe!leak_arena
  PROVE  ProbeInv'
<1>1. Held /\ Typed /\ StructReal
  BY DEF ProbeInv
<1> DEFINE u == <<Probe!TEST_SIZE_BARRIER>> \o Probe!Times(3, Probe!TEST_SIZE_LEAK)
                \o Probe!fillers
<1>2. PICK g, freed, e : Leaks(heap, u, Probe!TEST_SIZE_BARRIER, g, freed, e, heap')
  BY DEF Probe!leak_arena, Leaks
<1>3. u \in Seq(Nat \ {0}) /\ Len(u) >= 4 /\ Probe!TEST_SIZE_BARRIER \in Nat \ {0}
  BY LeakUnits, ProbeSizes
<1> HIDE DEF u
<1>4. /\ WellFormed(heap') /\ Probe!InUse(heap') = Probe!InUse(heap)
      /\ heap'.tcache_count = heap.tcache_count
  BY <1>1, <1>2, <1>3, LeakGivesBack DEF Held
<1>5. /\ phase' = "arena_info" /\ live' = live /\ kept' = kept
      /\ tcache_present' = tcache_present /\ tcache' = tcache /\ arena' = arena
      /\ nearly' = nearly /\ version' = version /\ patched' = patched
  BY DEF Probe!leak_arena
<1>6. Held'
  BY <1>1, <1>4, <1>5 DEF Held
<1>7. Typed'
  BY <1>1, <1>5 DEF Typed
<1>8. StructReal'
  BY <1>1, <1>4, <1>5, StaysReal
<1> QED BY <1>6, <1>7, <1>8 DEF ProbeInv

LEMMA ArenaInfoStep ==
  ASSUME ProbeInv, Probe!ARENA_INFO
  PROVE  ProbeInv'
<1>1. Held /\ Typed /\ StructReal
  BY DEF ProbeInv
<1> DEFINE new == Probe!Malloc(heap, Probe!SIZEOF_ARENA_INFO)
           info == Probe!GLIBC_INFO(new.heap)
<1>2. Answers(heap, new)
  BY <1>1, ProbeConstants, ProbeSizes, MallocAnswers DEF Held
<1>3. /\ heap' = IF info.present = ONE THEN Probe!malloc_consolidate(info.heap) ELSE info.heap
      /\ tcache_present' = info.present /\ kept' = kept \cup {new.ptr}
      /\ tcache' = Probe!tcache_struct(info.present)
      /\ phase' \in {"clean", "aborted"} /\ arena' \in {0, ELSEWHERE}
      /\ live' = live /\ nearly' = nearly /\ version' = version /\ patched' = patched
  BY DEF Probe!ARENA_INFO
<1> HIDE DEF new
<1>4. Tested(new.heap, info)
  BY <1>2, InfoFound DEF Answers
<1> HIDE DEF info
<1>5. /\ WellFormed(heap') /\ Probe!InUse(heap') = Probe!InUse(new.heap)
      /\ heap'.tcache_count = new.heap.tcache_count
  BY <1>3, <1>4, Consolidated DEF Tested
<1>6. Held'
  <2>1. Probe!InUse(heap') = live' \cup kept'
    BY <1>1, <1>2, <1>3, <1>5 DEF Held, Answers
  <2> QED BY <1>3, <1>5, <2>1 DEF Held
<1>7. Typed'
  <2>1. tcache' \in {NULL, TCACHE}
    BY <1>3, <1>4 DEF Probe!tcache_struct, Tested
  <2> QED BY <1>1, <1>3, <1>4, <2>1 DEF Typed, Tested
<1>8. StructReal'
  <2>1. new.heap.tcache_count = heap.tcache_count
    BY <1>2 DEF Answers
  <2>2. heap'.tcache_count = heap.tcache_count /\ heap.tcache_count \in Nat
    BY <1>1, <1>5, <2>1 DEF StructReal
  <2>3. ASSUME tcache' = TCACHE
        PROVE  Probe!HasTcache /\ (patched \/ version = "2.29")
    <3>1. CASE info.present = TCACHE
      <4>1. version = "2.29" /\ new.heap.tcache_count # 0
        BY <1>4, <3>1 DEF Tested
      <4> QED BY <2>1, <2>2, <4>1 DEF Probe!HasTcache
    <3>2. CASE info.present # TCACHE
      BY <1>3, <2>3, <3>2, ProbeConstants DEF Probe!tcache_struct
    <3> QED BY <3>1, <3>2
  <2> QED BY <1>3, <2>2, <2>3 DEF StructReal, Probe!HasTcache
<1> QED BY <1>6, <1>7, <1>8 DEF ProbeInv

LEMMA CleanStep ==
  ASSUME ProbeInv, Probe!cleanHeap
  PROVE  ProbeInv'
<1>1. Held /\ Typed /\ StructReal
  BY DEF ProbeInv
<1> DEFINE u == [i \in DOMAIN Probe!CleanSizes |-> Probe!request2units(Probe!CleanSizes[i])]
           g == Probe!MallocAll(Probe!Start(heap), u)
<1>2. u \in Seq(Nat \ {0})
  BY CleanUnits
<1>3. /\ phase' = "ready" /\ heap' = g.heap /\ kept' = kept \cup Probe!ToSet(g.ptrs)
      /\ live' = live /\ tcache_present' = tcache_present /\ tcache' = tcache
      /\ arena' = arena /\ nearly' = nearly /\ version' = version /\ patched' = patched
  BY DEF Probe!cleanHeap
<1> HIDE DEF u
<1>4. Begun(heap, Len(u), g)
  BY <1>1, <1>2, ProbeConstants, FirstAnswered DEF Held
<1> HIDE DEF g
<1>5. Probe!ToSet(g.ptrs) = {g.ptrs[i] : i \in 1..Len(u)}
  BY <1>4 DEF Begun, Probe!ToSet
<1>6. Held'
  <2>1. WellFormed(heap') /\ Probe!InUse(heap') = live' \cup kept'
    BY <1>1, <1>3, <1>4, <1>5 DEF Held, Begun
  <2> QED BY <1>3, <2>1 DEF Held
<1>7. Typed'
  BY <1>1, <1>3 DEF Typed
<1>8. StructReal'
  BY <1>1, <1>3, <1>4, StaysReal DEF Begun
<1> QED BY <1>6, <1>7, <1>8 DEF ProbeInv

LEMMA FinishedStep ==
  ASSUME ProbeInv, Probe!Finished
  PROVE  ProbeInv'
<1>1. /\ heap' = heap /\ live' = live /\ kept' = kept /\ phase' = phase
      /\ tcache_present' = tcache_present /\ tcache' = tcache /\ arena' = arena
      /\ nearly' = nearly /\ version' = version /\ patched' = patched
  BY DEF Probe!Finished, Probe!vars
<1> QED BY <1>1, StaysReal DEF ProbeInv, Held, Typed

LEMMA HeapStep ==
  ASSUME ProbeInv, Probe!Next
  PROVE  ProbeInv'
BY EarlyMallocStep, EarlyFreeStep, InfoStep, LeakStep, ArenaInfoStep, CleanStep,
   FinishedStep DEF Probe!Next

LEMMA ProbeMeans ==
  ASSUME ProbeInv
  PROVE  Probe!ProbesKeepNothing /\ Probe!TcacheStructReal /\ Probe!TypeOK
<1>1. Held /\ Typed /\ StructReal
  BY DEF ProbeInv
<1>2. DOMAIN heap.size \subseteq Nat
  BY <1>1 DEF Held, WellFormed, Tiled
<1>3. Probe!InUse(heap) = live \cup kept
  BY <1>1 DEF Held
<1>4. Probe!TcacheStructReal
  BY <1>1 DEF StructReal, Probe!TcacheStructReal
<1> QED BY <1>1, <1>2, <1>3, <1>4 DEF Typed, Probe!ProbesKeepNothing, Probe!TypeOK
-----------------------------------------------------------------------------
(* Only the steps of the probes change their variables.                    *)
THEOREM ProbesBalanced == PartsSpec => [](part = "probe" => ProbeInv)
<1>1. PartsInit => (part = "probe" => ProbeInv)
  BY ProbeInit DEF PartsInit
<1>2. (part = "probe" => ProbeInv) /\ [PartsNext]_all => (part = "probe" => ProbeInv)'
  <2> SUFFICES ASSUME part = "probe" => ProbeInv, [PartsNext]_all, part' = "probe"
               PROVE  ProbeInv'
    OBVIOUS
  <2>1. part' = part
    BY DEF PartsNext, Realloc, Bootstrap, Construct, Leak, Drive, Ended, all
  <2>2. part = "probe" /\ ProbeInv
    BY <2>1
  <2>3. CASE UNCHANGED all
    <3>1. /\ heap' = heap /\ live' = live /\ kept' = kept /\ phase' = phase
          /\ tcache_present' = tcache_present /\ tcache' = tcache /\ arena' = arena
          /\ nearly' = nearly /\ version' = version /\ patched' = patched
      BY <2>3 DEF all, probeVars
    <3> QED BY <2>2, <3>1, StaysReal DEF ProbeInv, Held, Typed
  <2>4. CASE Leak
    BY <2>2, <2>4, HeapStep DEF Leak
  <2>5. CASE Ended
    BY <2>3, <2>5 DEF Ended
  <2> QED BY <2>2, <2>3, <2>4, <2>5 DEF PartsNext, Realloc, Bootstrap, Construct, Drive
<1> QED BY <1>1, <1>2, PTL DEF PartsSpec

(* leak.cxx: in every heap that the calls before the constructor can leave *)
(* behind, the probes give back all the chunks they allocate, but for the  *)
(* ARENA_INFO and those that cleanHeap holds on purpose.                   *)
THEOREM ProbesKeepNothingAlways == PartsSpec => []ProbesKeepNothing
<1>1. (part = "probe" => ProbeInv) => ProbesKeepNothing
  BY ProbeMeans DEF ProbesKeepNothing
<1> QED BY <1>1, ProbesBalanced, PTL

(* leak.cxx, leak.h: whatever the heap before the constructor, and even    *)
(* where the order of the chunks makes the test see a tcache that is not   *)
(* there, the snapshots are given a tcache struct only where there is one. *)
THEOREM TcacheStructRealAlways == PartsSpec => []TcacheStructReal
<1>1. (part = "probe" => ProbeInv) => TcacheStructReal
  BY ProbeMeans DEF TcacheStructReal
<1> QED BY <1>1, ProbesBalanced, PTL

(* The types of the parts that have any, each in the behaviours of its     *)
(* part; of the probes: every chunk that ShadowHeap or the application     *)
(* holds is in use in the heap of glibc.                                   *)
THEOREM PartsTypes == PartsSpec => []TypeOK
<1>1. PartsSpec => [](part = "probe" => Probe!TypeOK)
  <2>1. (part = "probe" => ProbeInv) => (part = "probe" => Probe!TypeOK)
    BY ProbeMeans
  <2> QED BY <2>1, ProbesBalanced, PTL
<1>2. /\ part = "hook" => Hook!TypeOK
      /\ part = "startup" => Start!TypeOK
      /\ part = "probe" => Probe!TypeOK
      /\ part = "runner" => Runner!TypeOK
      => TypeOK
  BY DEF TypeOK
<1> QED BY <1>1, <1>2, RegionsBalanced, StartupTypes, WorkIsBounded, PTL
=============================================================================
