--------------------------- MODULE HookInfoProofs ---------------------------
(***************************************************************************)
(* Proofs about the bootstrap of the hooks (src/src/hook/hookinfo.h), for  *)
(* any memory values, and for clients that call the four functions in any  *)
(* order before, during and after the constructor.                         *)
(*                                                                         *)
(* None of the properties is inductive.  IInv describes the whole stack:   *)
(* it is at most a call, its setup, the calloc() of dlsym(), its setup and *)
(* the calloc() of that (Nested).  The third frame is in the region if the *)
(* first is not (Regions), so the fifth finds a region and returns at once *)
(* with the static buffer or NULL.  dlsym() has no buffer while it asks    *)
(* for one (Asking), so the static buffer is lent once.                    *)
(***************************************************************************)
EXTENDS MCParts, SequenceTheorems, FiniteSetTheorems, TLAPS

(* The frames: of calls, of calls that have not begun, and of setups.      *)
CallFrames ==
  [fn : Hook!ToSet(Hook!Names), obj : Hook!Objects, checked : BOOLEAN,
   at : {"enter", "pointers", "raw"}, locked : BOOLEAN]
FreshCalls == {f \in CallFrames : f.at = "enter" /\ ~f.locked}
SetupFrames ==
  [fn : {"setupPointers"}, obj : Hook!Objects, next : 1..5, asked : BOOLEAN, locked : {FALSE}]
Frames == CallFrames \cup SetupFrames

(* Frame i of stack s, when the pointers in ptrs are looked up.            *)
CallAt(s, i) ==
  /\ s[i] \in CallFrames
  /\ i < Len(s) => s[i].at = "raw"
  /\ i > 1 => s[i].fn = "calloc" /\ s[i].obj = wrapper /\ s[i].checked
  /\ s[i].at = "enter" => ~s[i].locked
  /\ s[i].locked => s[i].checked

SetupAt(s, ptrs, i) ==
  /\ s[i] \in SetupFrames
  /\ s[i].obj = s[i - 1].obj
  /\ i < Len(s) => s[i].next <= 4 /\ s[i].asked
  /\ \A k \in 1..4 : k < s[i].next => Hook!Names[k] \in ptrs[s[i].obj]

(* The stack: a call, its setup, the calloc() of dlsym(), its setup and    *)
(* the calloc() of that, which does not get further.                       *)
Nested(s, ptrs) ==
  /\ s \in Seq(Frames) /\ Len(s) <= 5
  /\ Len(s) >= 1 => CallAt(s, 1)
  /\ Len(s) >= 2 => SetupAt(s, ptrs, 2)
  /\ Len(s) >= 3 => CallAt(s, 3)
  /\ Len(s) >= 4 => SetupAt(s, ptrs, 4)
  /\ Len(s) >= 5 => CallAt(s, 5) /\ s[5].at = "enter"

(* Who is in a region.                                                     *)
LockedAt(s, i) == i <= Len(s) /\ s[i].locked
Regions(s, rec) ==
  /\ rec = IF LockedAt(s, 1) \/ LockedAt(s, 3) THEN 1 ELSE 0
  /\ Len(s) >= 3 /\ s[3].at # "enter" => s[3].locked /\ ~s[1].locked

(* dlsym() asks for a buffer while it has none.                            *)
Asking(s, result) == Len(s) \in {3, 5} /\ s[Len(s)].at = "enter" => result = NULL

(* A call that is about to be made is made through a known pointer.        *)
Callable(s, ptrs) ==
  \A i \in {1, 3, 5} : i = Len(s) /\ s[i].at = "raw" => s[i].fn \in ptrs[s[i].obj]

StackOK(s, ptrs, rec, result) ==
  Nested(s, ptrs) /\ Regions(s, rec) /\ Asking(s, result) /\ Callable(s, ptrs)

IInv ==
  /\ phase \in {"early", "constructing", "ready"}
  /\ todo \in Seq(FreshCalls)
  /\ isInitialized \in [Hook!Objects -> BOOLEAN]
  /\ pointers \in [Hook!Objects -> SUBSET Hook!ToSet(Hook!Names)]
  /\ dlresult \in {NULL, CHUNK, CALLOCBASE} /\ last = CHUNK
  /\ StackOK(stack, pointers, recursive, dlresult)
  /\ \A o \in Hook!Objects : isInitialized[o] => \A k \in 1..4 : Hook!Names[k] \in pointers[o]
  /\ handed_out \in {0, 1} /\ (handed_out = 1 => dlresult # NULL)
-----------------------------------------------------------------------------
(* What the stack operations do to the stack.                              *)
LEMMA Replaced ==
  ASSUME NEW s \in Seq(Frames), s # <<>>, NEW f \in Frames
  PROVE  /\ Hook!Front(s) \o <<f>> \in Seq(Frames) /\ Len(Hook!Front(s) \o <<f>>) = Len(s)
         /\ \A i \in 1..Len(s) - 1 : (Hook!Front(s) \o <<f>>)[i] = s[i]
         /\ (Hook!Front(s) \o <<f>>)[Len(s)] = f
BY DEF Hook!Front

(* The innermost frame returns.                                            *)
LEMMA Popped ==
  ASSUME NEW s \in Seq(Frames), s # <<>>
  PROVE  /\ Hook!Front(s) \in Seq(Frames) /\ Len(Hook!Front(s)) = Len(s) - 1
         /\ \A i \in 1..Len(s) - 1 : Hook!Front(s)[i] = s[i]
<1>1. Len(s) \in Nat /\ Len(s) >= 1 /\ \A i \in 1..Len(s) : s[i] \in Frames
  OBVIOUS
<1> DEFINE n == Len(s) - 1
           u == SubSeq(s, 1, n)
<1>2. n \in Nat /\ n \in Int /\ 1 \in Int /\ \A i \in 1..n : s[i] \in Frames
  BY <1>1
<1> HIDE DEF n
<1>3. /\ u \in Seq(Frames)
      /\ Len(u) = IF 1 <= n THEN n - 1 + 1 ELSE 0
      /\ \A i \in 1..n - 1 + 1 : u[i] = s[1 + i - 1]
  BY <1>2, SubSeqProperties
<1> HIDE DEF u
<1>4. Len(u) = n /\ \A i \in 1..n : u[i] = s[i]
  BY <1>2, <1>3
<1>5. Hook!Front(s) = u
  BY DEF Hook!Front, u, n
<1> QED BY <1>3, <1>4, <1>5 DEF n

(* The innermost frame is changed and calls another.                       *)
LEMMA Pushed ==
  ASSUME NEW s \in Seq(Frames), s # <<>>, NEW f \in Frames, NEW g \in Frames
  PROVE  LET t == Hook!Front(s) \o <<f, g>>
         IN /\ t \in Seq(Frames) /\ Len(t) = Len(s) + 1
            /\ \A i \in 1..Len(s) - 1 : t[i] = s[i]
            /\ t[Len(s)] = f /\ t[Len(s) + 1] = g
<1> DEFINE u == Hook!Front(s)
           v == <<f, g>>
           t == u \o v
<1>1. u \in Seq(Frames) /\ Len(u) = Len(s) - 1 /\ \A i \in 1..Len(s) - 1 : u[i] = s[i]
  BY Popped
<1>2. v \in Seq(Frames) /\ Len(v) = 2
  OBVIOUS
<1>3. Len(s) \in Nat /\ Len(s) >= 1
  OBVIOUS
<1>4. v[1] = f /\ v[2] = g
  OBVIOUS
<1> HIDE DEF u, v
<1>5. /\ u \o v \in Seq(Frames) /\ Len(u \o v) = Len(u) + Len(v)
      /\ \A i \in 1..Len(u) + Len(v) : (u \o v)[i] = IF i <= Len(u) THEN u[i] ELSE v[i - Len(u)]
  BY <1>1, <1>2, ConcatProperties
<1>6. Len(t) = Len(s) + 1 /\ \A i \in 1..Len(s) - 1 : t[i] = s[i]
  BY <1>1, <1>2, <1>3, <1>5
<1>7. t[Len(s)] = f /\ t[Len(s) + 1] = g
  <2>1. /\ Len(s) \in 1..Len(u) + Len(v) /\ Len(s) + 1 \in 1..Len(u) + Len(v)
        /\ ~(Len(s) <= Len(u)) /\ ~(Len(s) + 1 <= Len(u))
        /\ Len(s) - Len(u) = 1 /\ Len(s) + 1 - Len(u) = 2
    BY <1>1, <1>2, <1>3
  <2>2. (u \o v)[Len(s)] = v[1]
    BY <1>5, <2>1
  <2>3. (u \o v)[Len(s) + 1] = v[2]
    BY <1>5, <2>1
  <2> QED BY <1>4, <2>2, <2>3
<1>8. t = Hook!Front(s) \o <<f, g>>
  BY DEF u, v
<1> HIDE DEF t
<1> QED BY <1>5, <1>6, <1>7, <1>8 DEF t

-----------------------------------------------------------------------------
(* The four names are the ones that a setup looks up.                      *)
LEMMA AllNames ==
  /\ Hook!ToSet(Hook!Names) = {"malloc", "calloc", "realloc", "free"}
  /\ \A fn \in Hook!ToSet(Hook!Names) : \E k \in 1..4 : fn = Hook!Names[k]
  /\ Len(Hook!Names) = 4 /\ \A k \in 1..4 : Hook!Names[k] \in Hook!ToSet(Hook!Names)
BY DEF Hook!ToSet, Hook!Names

(* The frame on top.                                                       *)
LEMMA TopIsCall ==
  ASSUME NEW s, NEW ptrs, Nested(s, ptrs), s # <<>>, Hook!Last(s).fn # "setupPointers"
  PROVE  /\ s \in Seq(Frames) /\ Hook!Last(s) = s[Len(s)]
         /\ Len(s) \in {1, 3, 5} /\ Hook!Last(s) \in CallFrames /\ CallAt(s, Len(s))
<1>0. s \in Seq(Frames) /\ Len(s) <= 5
  BY DEF Nested
<1>a. Len(s) \in Nat /\ Len(s) # 0
  BY <1>0
<1>b. Hook!Last(s) = s[Len(s)]
  BY DEF Hook!Last
<1>c. Len(s) \in 1..5
  <2> DEFINE n == Len(s)
  <2>1. n \in Nat /\ n # 0 /\ n <= 5
    BY <1>0, <1>a
  <2> HIDE DEF n
  <2>2. n \in 1..5
    BY <2>1
  <2> QED BY <2>2 DEF n
<1>1. s \in Seq(Frames) /\ Hook!Last(s) = s[Len(s)] /\ Len(s) \in 1..5
  BY <1>0, <1>b, <1>c
<1>2. CASE Len(s) \in {1, 3, 5}
  <2>1. CallAt(s, Len(s))
    <3>1. Len(s) = 1 => CallAt(s, 1)
      BY DEF Nested
    <3>2. Len(s) = 3 => CallAt(s, 3)
      BY DEF Nested
    <3>3. Len(s) = 5 => CallAt(s, 5)
      BY DEF Nested
    <3> QED BY <1>2, <3>1, <3>2, <3>3
  <2>2. Hook!Last(s) \in CallFrames
    BY <1>1, <2>1 DEF CallAt
  <2> QED BY <1>1, <1>2, <2>1, <2>2
<1>3. CASE Len(s) \in {2, 4}
  <2>1. SetupAt(s, ptrs, Len(s))
    <3>1. Len(s) = 2 => SetupAt(s, ptrs, 2)
      BY DEF Nested
    <3>2. Len(s) = 4 => SetupAt(s, ptrs, 4)
      BY DEF Nested
    <3> QED BY <1>3, <3>1, <3>2
  <2> QED BY <1>1, <2>1 DEF SetupAt, SetupFrames
<1> QED BY <1>1, <1>2, <1>3

(* A setup on top is at an even place, above the call that needs it.       *)
LEMMA TopIsSetup ==
  ASSUME NEW s, NEW ptrs, Nested(s, ptrs), s # <<>>, Hook!Last(s).fn = "setupPointers"
  PROVE  /\ s \in Seq(Frames) /\ Hook!Last(s) = s[Len(s)]
         /\ Len(s) \in {2, 4} /\ Hook!Last(s) \in SetupFrames /\ SetupAt(s, ptrs, Len(s))
         /\ CallAt(s, Len(s) - 1) /\ s[Len(s) - 1].at = "raw"
<1>0. s \in Seq(Frames) /\ Len(s) <= 5
  BY DEF Nested
<1>a. Len(s) \in Nat /\ Len(s) # 0
  BY <1>0
<1>b. Hook!Last(s) = s[Len(s)]
  BY DEF Hook!Last
<1>c. Len(s) \in 1..5
  <2> DEFINE n == Len(s)
  <2>1. n \in Nat /\ n # 0 /\ n <= 5
    BY <1>0, <1>a
  <2> HIDE DEF n
  <2>2. n \in 1..5
    BY <2>1
  <2> QED BY <2>2 DEF n
<1>1. s \in Seq(Frames) /\ Hook!Last(s) = s[Len(s)] /\ Len(s) \in 1..5
  BY <1>0, <1>b, <1>c
<1>2. CASE Len(s) \in {1, 3, 5}
  <2>1. CallAt(s, Len(s))
    <3>1. Len(s) = 1 => CallAt(s, 1)
      BY DEF Nested
    <3>2. Len(s) = 3 => CallAt(s, 3)
      BY DEF Nested
    <3>3. Len(s) = 5 => CallAt(s, 5)
      BY DEF Nested
    <3> QED BY <1>2, <3>1, <3>2, <3>3
  <2>2. "setupPointers" \notin Hook!ToSet(Hook!Names)
    BY DEF Hook!ToSet, Hook!Names
  <2> QED BY <1>1, <2>1, <2>2 DEF CallAt, CallFrames
<1>3. CASE Len(s) = 2
  <2>1. SetupAt(s, ptrs, 2) /\ CallAt(s, 1)
    BY <1>3 DEF Nested
  <2> QED BY <1>1, <1>3, <2>1 DEF SetupAt, CallAt
<1>4. CASE Len(s) = 4
  <2>1. SetupAt(s, ptrs, 4) /\ CallAt(s, 3)
    BY <1>4 DEF Nested
  <2> QED BY <1>1, <1>4, <2>1 DEF SetupAt, CallAt
<1> QED BY <1>1, <1>2, <1>3, <1>4

(* The innermost calloc() cannot enter a region: dlsym() is in one.        *)
LEMMA InnermostInRegion ==
  ASSUME NEW s, NEW ptrs, NEW rec, Nested(s, ptrs), Regions(s, rec), Len(s) = 5
  PROVE  s[5].at = "enter" /\ s[5].fn = "calloc" /\ s[5].checked /\ rec = 1
<1>1. CallAt(s, 3) /\ CallAt(s, 5) /\ s[5].at = "enter"
  BY DEF Nested
<1>2. s[3].at = "raw" /\ s[5].fn = "calloc" /\ s[5].checked
  BY <1>1 DEF CallAt
<1>3. s[3].locked
  BY <1>2 DEF Regions
<1> QED BY <1>1, <1>2, <1>3 DEF Regions, LockedAt

(* A call enters, in a region if it must.                                  *)
LEMMA EnterKeeps ==
  ASSUME NEW s, NEW ptrs, NEW rec, NEW result, StackOK(s, ptrs, rec, result),
         Len(s) \in {1, 3}, s[Len(s)].at = "enter",
         NEW t \in Seq(Frames), Len(t) = Len(s), \A i \in 1..Len(s) - 1 : t[i] = s[i],
         NEW g \in CallFrames, t[Len(s)] = g, g.at = "pointers",
         g.fn = s[Len(s)].fn, g.obj = s[Len(s)].obj, g.checked = s[Len(s)].checked,
         g.locked = (g.checked /\ rec = 0), ~(g.fn = "calloc" /\ g.checked /\ rec > 0)
  PROVE  StackOK(t, ptrs, IF g.locked THEN rec + 1 ELSE rec, result)
<1>1. CASE Len(s) = 1
  <2>1. CallAt(s, 1) /\ ~s[1].locked
    BY <1>1 DEF StackOK, Nested, CallAt
  <2>2. rec = 0
    BY <1>1, <2>1 DEF StackOK, Regions, LockedAt
  <2>3. CallAt(t, 1)
    BY <1>1, <2>1, <2>2 DEF CallAt
  <2>4. Regions(t, IF g.locked THEN rec + 1 ELSE rec)
    BY <1>1, <2>2 DEF Regions, LockedAt
  <2> QED BY <1>1, <2>3, <2>4 DEF StackOK, Nested, Asking, Callable
<1>2. CASE Len(s) = 3
  <2>1. /\ CallAt(s, 1) /\ SetupAt(s, ptrs, 2) /\ CallAt(s, 3) /\ ~s[3].locked
        /\ t[1] = s[1] /\ t[2] = s[2] /\ t[3] = g
    BY <1>2 DEF StackOK, Nested, CallAt
  <2>2. rec = 0 /\ ~s[1].locked
    BY <1>2, <2>1 DEF StackOK, Regions, LockedAt, CallAt
  <2>3. CallAt(t, 1) /\ CallAt(t, 3)
    BY <1>2, <2>1, <2>2 DEF CallAt
  <2>4. SetupAt(t, ptrs, 2)
    BY <1>2, <2>1 DEF SetupAt
  <2>5. Regions(t, IF g.locked THEN rec + 1 ELSE rec)
    <3>0. s[3].checked
      BY <1>2, <2>1 DEF CallAt
    <3>a. g.checked = TRUE /\ s[Len(s)] = s[3]
      BY <1>2, <3>0 DEF CallFrames
    <3>b. g.locked = TRUE
      BY <1>2, <2>2, <3>0
    <3>1. g.locked = TRUE /\ 1 <= Len(t) /\ 3 <= Len(t)
      BY <1>2, <3>b
    <3> QED BY <1>2, <2>1, <2>2, <3>1 DEF Regions, LockedAt
  <2> QED BY <1>2, <2>1, <2>3, <2>4, <2>5 DEF StackOK, Nested, Asking, Callable
<1> QED BY <1>1, <1>2

(* Stacks that are short enough for a setup to be on top.                  *)
LEMMA NestedShort ==
  ASSUME NEW t \in Seq(Frames), NEW ptrs
  PROVE  /\ Len(t) = 0 => Nested(t, ptrs)
         /\ Len(t) = 1 /\ CallAt(t, 1) => Nested(t, ptrs)
         /\ Len(t) = 2 /\ CallAt(t, 1) /\ SetupAt(t, ptrs, 2) => Nested(t, ptrs)
<1> DEFINE n == Len(t)
<1>1. Nested(t, ptrs) <=>
        /\ n <= 5
        /\ n >= 1 => CallAt(t, 1)
        /\ n >= 2 => SetupAt(t, ptrs, 2)
        /\ n >= 3 => CallAt(t, 3)
        /\ n >= 4 => SetupAt(t, ptrs, 4)
        /\ n >= 5 => CallAt(t, 5) /\ t[5].at = "enter"
  BY DEF Nested
<1> HIDE DEF n
<1>2. n = 0 => Nested(t, ptrs)
  BY <1>1
<1>3. n = 1 /\ CallAt(t, 1) => Nested(t, ptrs)
  BY <1>1
<1>4. n = 2 /\ CallAt(t, 1) /\ SetupAt(t, ptrs, 2) => Nested(t, ptrs)
  BY <1>1
<1> QED BY <1>2, <1>3, <1>4 DEF n

(* A setup that begins has looked nothing up.                              *)
LEMMA FreshSetup ==
  ASSUME NEW t, NEW ptrs, Len(t) = 2, t[2] \in SetupFrames, t[2].obj = t[1].obj,
         t[2].next = 1
  PROVE  SetupAt(t, ptrs, 2)
<1>1. \A k \in 1..4 : ~(k < t[2].next)
  OBVIOUS
<1> QED BY <1>1 DEF SetupAt

(* The call on top returns, and leaves its region.                         *)
LEMMA CallReturnKeeps ==
  ASSUME NEW s, NEW ptrs, NEW rec, NEW result, NEW value, StackOK(s, ptrs, rec, result),
         Len(s) \in {1, 3, 5},
         NEW t \in Seq(Frames), Len(t) = Len(s) - 1, \A i \in 1..Len(s) - 1 : t[i] = s[i]
  PROVE  StackOK(t, ptrs, IF s[Len(s)].locked THEN rec - 1 ELSE rec, value)
<1>1. CASE Len(s) = 1
  <2>1. Len(t) = 0
    BY <1>1
  <2>2. Regions(t, IF s[1].locked THEN rec - 1 ELSE rec)
    BY <1>1, <2>1 DEF StackOK, Regions, LockedAt
  <2>3. Nested(t, ptrs)
    BY <2>1, NestedShort
  <2> QED BY <1>1, <2>1, <2>2, <2>3 DEF StackOK, Asking, Callable
<1>2. CASE Len(s) = 3
  <2>1. Len(t) = 2 /\ t[1] = s[1] /\ t[2] = s[2]
    BY <1>2
  <2>2. CallAt(s, 1) /\ SetupAt(s, ptrs, 2) /\ CallAt(s, 3)
    BY <1>2 DEF StackOK, Nested
  <2>3. CallAt(t, 1) /\ SetupAt(t, ptrs, 2)
    BY <1>2, <2>1, <2>2 DEF CallAt, SetupAt
  <2>4. Nested(t, ptrs)
    BY <2>1, <2>3, NestedShort
  <2>5. Regions(t, IF s[3].locked THEN rec - 1 ELSE rec)
    <3>1. Regions(s, rec)
      BY DEF StackOK
    <3>2. s[3].locked => ~s[1].locked
      BY <1>2, <2>2, <3>1 DEF Regions, CallAt
    <3> QED BY <1>2, <2>1, <3>1, <3>2 DEF Regions, LockedAt
  <2> QED BY <1>2, <2>1, <2>4, <2>5 DEF StackOK, Asking, Callable
<1>3. CASE Len(s) = 5
  <2>1. Len(t) = 4 /\ t[1] = s[1] /\ t[2] = s[2] /\ t[3] = s[3] /\ t[4] = s[4]
    BY <1>3
  <2>2. /\ CallAt(s, 1) /\ SetupAt(s, ptrs, 2) /\ CallAt(s, 3) /\ SetupAt(s, ptrs, 4)
        /\ ~s[5].locked
    BY <1>3 DEF StackOK, Nested, CallAt
  <2>3. CallAt(t, 1) /\ SetupAt(t, ptrs, 2)
    BY <1>3, <2>1, <2>2 DEF CallAt, SetupAt
  <2>4. CallAt(t, 3) /\ SetupAt(t, ptrs, 4)
    BY <1>3, <2>1, <2>2 DEF CallAt, SetupAt
  <2>5. Nested(t, ptrs)
    BY <2>1, <2>3, <2>4 DEF Nested
  <2>6. Regions(t, rec)
    BY <1>3, <2>1 DEF StackOK, Regions, LockedAt
  <2> QED BY <1>3, <2>1, <2>2, <2>5, <2>6 DEF StackOK, Asking, Callable
<1> QED BY <1>1, <1>2, <1>3

(* The setup on top returns to the call that needs the pointers.           *)
LEMMA SetupReturnKeeps ==
  ASSUME NEW s, NEW ptrs, NEW rec, NEW result, StackOK(s, ptrs, rec, result),
         Len(s) \in {2, 4}, s[Len(s)].next > 4,
         NEW t \in Seq(Frames), Len(t) = Len(s) - 1, \A i \in 1..Len(s) - 1 : t[i] = s[i]
  PROVE  StackOK(t, ptrs, rec, result)
<1>1. CASE Len(s) = 2
  <2>1. Len(t) = 1 /\ t[1] = s[1]
    BY <1>1
  <2>2. CallAt(s, 1) /\ SetupAt(s, ptrs, 2)
    BY <1>1 DEF StackOK, Nested
  <2>3. CallAt(t, 1) /\ t[1].at = "raw"
    BY <1>1, <2>1, <2>2 DEF CallAt
  <2>4. t[1].fn \in ptrs[t[1].obj]
    <3>1. s[1].fn \in Hook!ToSet(Hook!Names)
      BY <2>2 DEF CallAt, CallFrames
    <3>a. s[2].obj = s[1].obj
      BY <2>2 DEF SetupAt
    <3>b. s[2].next \in 1..5
      BY <2>2 DEF SetupAt, SetupFrames
    <3>2. \A k \in 1..4 : Hook!Names[k] \in ptrs[s[2].obj]
      BY <1>1, <2>2, <3>b DEF SetupAt
    <3> QED BY <2>1, <3>1, <3>2, <3>a, AllNames
  <2>5. Nested(t, ptrs)
    BY <2>1, <2>3, NestedShort
  <2>6. Regions(t, rec)
    BY <1>1, <2>1 DEF StackOK, Regions, LockedAt
  <2> QED BY <2>1, <2>3, <2>4, <2>5, <2>6 DEF StackOK, Asking, Callable
<1>2. CASE Len(s) = 4
  <2>1. Len(t) = 3 /\ t[1] = s[1] /\ t[2] = s[2] /\ t[3] = s[3]
    BY <1>2
  <2>2. CallAt(s, 1) /\ SetupAt(s, ptrs, 2) /\ CallAt(s, 3) /\ SetupAt(s, ptrs, 4)
    BY <1>2 DEF StackOK, Nested
  <2>3. CallAt(t, 1) /\ SetupAt(t, ptrs, 2)
    BY <1>2, <2>1, <2>2 DEF CallAt, SetupAt
  <2>4. CallAt(t, 3) /\ t[3].at = "raw"
    BY <1>2, <2>1, <2>2 DEF CallAt
  <2>5. t[3].fn \in ptrs[t[3].obj]
    <3>1. s[3].fn \in Hook!ToSet(Hook!Names)
      BY <2>2 DEF CallAt, CallFrames
    <3>a. s[4].obj = s[3].obj
      BY <2>2 DEF SetupAt
    <3>b. s[4].next \in 1..5
      BY <2>2 DEF SetupAt, SetupFrames
    <3>2. \A k \in 1..4 : Hook!Names[k] \in ptrs[s[4].obj]
      BY <1>2, <2>2, <3>b DEF SetupAt
    <3> QED BY <2>1, <3>1, <3>2, <3>a, AllNames
  <2>6. Nested(t, ptrs)
    BY <2>1, <2>3, <2>4 DEF Nested
  <2>7. Regions(t, rec)
    BY <1>2, <2>1 DEF StackOK, Regions, LockedAt
  <2> QED BY <2>1, <2>4, <2>5, <2>6, <2>7 DEF StackOK, Asking, Callable
<1> QED BY <1>1, <1>2

(* The call on top finds its pointers.                                     *)
LEMMA RawKeeps ==
  ASSUME NEW s, NEW ptrs, NEW rec, NEW result, StackOK(s, ptrs, rec, result),
         Len(s) \in {1, 3}, s[Len(s)].at = "pointers",
         NEW t \in Seq(Frames), Len(t) = Len(s), \A i \in 1..Len(s) - 1 : t[i] = s[i],
         NEW g \in CallFrames, t[Len(s)] = g, g.at = "raw",
         g.fn = s[Len(s)].fn, g.obj = s[Len(s)].obj, g.checked = s[Len(s)].checked,
         g.locked = s[Len(s)].locked, g.fn \in ptrs[g.obj]
  PROVE  StackOK(t, ptrs, rec, result)
<1>1. CASE Len(s) = 1
  <2>1. CallAt(t, 1) /\ t[1] = g
    BY <1>1 DEF StackOK, Nested, CallAt
  <2>2. Regions(t, rec)
    BY <1>1, <2>1 DEF StackOK, Regions, LockedAt
  <2> QED BY <1>1, <2>1, <2>2 DEF StackOK, Nested, Asking, Callable
<1>2. CASE Len(s) = 3
  <2>1. /\ CallAt(s, 1) /\ SetupAt(s, ptrs, 2) /\ CallAt(s, 3)
        /\ t[1] = s[1] /\ t[2] = s[2] /\ t[3] = g
    BY <1>2 DEF StackOK, Nested
  <2>2. CallAt(t, 1) /\ SetupAt(t, ptrs, 2)
    BY <1>2, <2>1 DEF CallAt, SetupAt
  <2>3. CallAt(t, 3)
    BY <1>2, <2>1 DEF CallAt
  <2>4. Regions(t, rec)
    BY <1>2, <2>1 DEF StackOK, Regions, LockedAt
  <2> QED BY <1>2, <2>1, <2>2, <2>3, <2>4 DEF StackOK, Nested, Asking, Callable
<1> QED BY <1>1, <1>2

(* The call on top sets the pointers up.                                   *)
LEMMA SetupKeeps ==
  ASSUME NEW s, NEW ptrs, NEW rec, NEW result, StackOK(s, ptrs, rec, result),
         Len(s) \in {1, 3}, s[Len(s)].at = "pointers",
         NEW t \in Seq(Frames), Len(t) = Len(s) + 1, \A i \in 1..Len(s) - 1 : t[i] = s[i],
         NEW g \in CallFrames, t[Len(s)] = g, g.at = "raw",
         g.fn = s[Len(s)].fn, g.obj = s[Len(s)].obj, g.checked = s[Len(s)].checked,
         g.locked = s[Len(s)].locked, t[Len(s) + 1] = Hook!Setup(g.obj)
  PROVE  StackOK(t, ptrs, rec, result)
<1>0. /\ Hook!Setup(g.obj) \in SetupFrames
      /\ Hook!Setup(g.obj).next = 1 /\ Hook!Setup(g.obj).obj = g.obj
  BY DEF Hook!Setup, SetupFrames, CallFrames
<1>1. CASE Len(s) = 1
  <2>1. t[1] = g /\ t[2] = Hook!Setup(g.obj) /\ Len(t) = 2
    BY <1>1
  <2>2. CallAt(t, 1)
    BY <1>1, <2>1 DEF StackOK, Nested, CallAt
  <2>3. SetupAt(t, ptrs, 2)
    <3>1. t[2] \in SetupFrames /\ t[2].obj = t[1].obj /\ t[2].next = 1
      BY <1>0, <2>1
    <3> QED BY <2>1, <3>1, FreshSetup
  <2>4. Regions(t, rec)
    BY <1>1, <2>1 DEF StackOK, Regions, LockedAt
  <2> QED BY <1>1, <2>1, <2>2, <2>3, <2>4 DEF StackOK, Nested, Asking, Callable
<1>2. CASE Len(s) = 3
  <2>1. /\ CallAt(s, 1) /\ SetupAt(s, ptrs, 2) /\ CallAt(s, 3)
        /\ t[1] = s[1] /\ t[2] = s[2] /\ t[3] = g /\ t[4] = Hook!Setup(g.obj) /\ Len(t) = 4
    BY <1>2 DEF StackOK, Nested
  <2>2. CallAt(t, 1) /\ SetupAt(t, ptrs, 2)
    BY <1>2, <2>1 DEF CallAt, SetupAt
  <2>3. CallAt(t, 3)
    BY <1>2, <2>1 DEF CallAt
  <2>4. SetupAt(t, ptrs, 4)
    <3>1. t[4] \in SetupFrames /\ t[4].obj = t[4 - 1].obj /\ t[4].next = 1
      BY <1>0, <2>1
    <3>2. \A k \in 1..4 : ~(k < t[4].next)
      BY <3>1
    <3> QED BY <2>1, <3>1, <3>2 DEF SetupAt
  <2>5. Regions(t, rec)
    BY <1>2, <2>1 DEF StackOK, Regions, LockedAt
  <2> QED BY <1>2, <2>1, <2>2, <2>3, <2>4, <2>5 DEF StackOK, Nested, Asking, Callable
<1> QED BY <1>1, <1>2

(* dlsym() calls calloc().                                                 *)
LEMMA AllocatesKeeps ==
  ASSUME NEW s, NEW ptrs, NEW rec, StackOK(s, ptrs, rec, NULL),
         Len(s) \in {2, 4}, s[Len(s)].next <= 4,
         NEW t \in Seq(Frames), Len(t) = Len(s) + 1, \A i \in 1..Len(s) - 1 : t[i] = s[i],
         NEW g \in SetupFrames, t[Len(s)] = g, g.asked = TRUE,
         g.obj = s[Len(s)].obj, g.next = s[Len(s)].next,
         t[Len(s) + 1] = Hook!Call("calloc", wrapper, TRUE)
  PROVE  StackOK(t, ptrs, rec, NULL)
<1> DEFINE c == Hook!Call("calloc", wrapper, TRUE)
<1>0. /\ c \in CallFrames /\ c.at = "enter" /\ c.fn = "calloc" /\ c.obj = wrapper
      /\ c.checked /\ ~c.locked
  BY DEF Hook!Call, CallFrames, Hook!Objects, Hook!Names, Hook!ToSet
<1> HIDE DEF c
<1>1. CASE Len(s) = 2
  <2>1. /\ CallAt(s, 1) /\ SetupAt(s, ptrs, 2) /\ Len(t) = 3
        /\ t[1] = s[1] /\ t[2] = g /\ t[3] = c
    <3>1. CallAt(s, 1) /\ SetupAt(s, ptrs, 2)
      BY <1>1 DEF StackOK, Nested
    <3>2. t[3] = c
      <4>1. Len(s) + 1 = 3
        BY <1>1
      <4> QED BY <4>1 DEF c
    <3> QED BY <1>1, <3>1, <3>2
  <2>2. CallAt(t, 1) /\ CallAt(t, 3)
    BY <1>0, <1>1, <2>1 DEF CallAt
  <2>3. SetupAt(t, ptrs, 2)
    BY <1>1, <2>1 DEF SetupAt
  <2>4. Regions(t, rec)
    BY <1>0, <1>1, <2>1 DEF StackOK, Regions, LockedAt
  <2> QED BY <1>0, <2>1, <2>2, <2>3, <2>4 DEF StackOK, Nested, Asking, Callable
<1>2. CASE Len(s) = 4
  <2>1. /\ CallAt(s, 1) /\ SetupAt(s, ptrs, 2) /\ CallAt(s, 3) /\ SetupAt(s, ptrs, 4)
        /\ Len(t) = 5
        /\ t[1] = s[1] /\ t[2] = s[2] /\ t[3] = s[3] /\ t[4] = g /\ t[5] = c
    <3>1. CallAt(s, 1) /\ SetupAt(s, ptrs, 2) /\ CallAt(s, 3) /\ SetupAt(s, ptrs, 4)
      BY <1>2 DEF StackOK, Nested
    <3>2. t[5] = c
      <4>1. Len(s) + 1 = 5
        BY <1>2
      <4> QED BY <4>1 DEF c
    <3> QED BY <1>2, <3>1, <3>2
  <2>2. CallAt(t, 1) /\ CallAt(t, 3) /\ CallAt(t, 5)
    BY <1>0, <1>2, <2>1 DEF CallAt
  <2>3. SetupAt(t, ptrs, 2)
    BY <1>2, <2>1 DEF SetupAt
  <2>4. SetupAt(t, ptrs, 4)
    BY <1>2, <2>1 DEF SetupAt
  <2>5. Regions(t, rec)
    BY <1>2, <2>1 DEF StackOK, Regions, LockedAt
  <2>6. Nested(t, ptrs)
    BY <1>0, <2>1, <2>2, <2>3, <2>4 DEF Nested
  <2>7. Callable(t, ptrs)
    BY <1>0, <2>1 DEF Callable
  <2> QED BY <2>5, <2>6, <2>7 DEF StackOK, Asking
<1> QED BY <1>1, <1>2

(* dlsym() returns a pointer.                                              *)
LEMMA TypedKeeps ==
  ASSUME NEW s, NEW ptrs, NEW rec, NEW result, StackOK(s, ptrs, rec, result),
         Len(s) \in {2, 4}, s[Len(s)].next <= 4,
         NEW t \in Seq(Frames), Len(t) = Len(s), \A i \in 1..Len(s) - 1 : t[i] = s[i],
         NEW g \in SetupFrames, t[Len(s)] = g,
         g.obj = s[Len(s)].obj, g.next = s[Len(s)].next + 1,
         NEW more, \A o \in Hook!Objects : ptrs[o] \subseteq more[o],
         Hook!Names[s[Len(s)].next] \in more[s[Len(s)].obj]
  PROVE  StackOK(t, more, rec, result)
<1>1. CASE Len(s) = 2
  <2>1. /\ CallAt(s, 1) /\ SetupAt(s, ptrs, 2) /\ Len(t) = 2
        /\ t[1] = s[1] /\ t[2] = g
    BY <1>1 DEF StackOK, Nested
  <2>2. CallAt(t, 1)
    BY <1>1, <2>1 DEF CallAt
  <2>3. SetupAt(t, more, 2)
    <3>1. s[2].obj \in Hook!Objects /\ s[2].next \in 1..5
      BY <2>1 DEF SetupAt, SetupFrames
    <3>2. \A k \in 1..4 : k < g.next => Hook!Names[k] \in more[g.obj]
      BY <1>1, <2>1, <3>1 DEF SetupAt
    <3> QED BY <1>1, <2>1, <3>2 DEF SetupAt
  <2>4. Regions(t, rec)
    BY <1>1, <2>1 DEF StackOK, Regions, LockedAt
  <2> QED BY <2>1, <2>2, <2>3, <2>4 DEF StackOK, Nested, Asking, Callable
<1>2. CASE Len(s) = 4
  <2>1. /\ CallAt(s, 1) /\ SetupAt(s, ptrs, 2) /\ CallAt(s, 3) /\ SetupAt(s, ptrs, 4)
        /\ Len(t) = 4 /\ t[1] = s[1] /\ t[2] = s[2] /\ t[3] = s[3] /\ t[4] = g
    BY <1>2 DEF StackOK, Nested
  <2>2. CallAt(t, 1) /\ CallAt(t, 3)
    BY <1>2, <2>1 DEF CallAt
  <2>3. SetupAt(t, more, 2)
    <3>1. s[2].obj \in Hook!Objects
      BY <2>1 DEF SetupAt, SetupFrames
    <3> QED BY <1>2, <2>1, <3>1 DEF SetupAt
  <2>4. SetupAt(t, more, 4)
    <3>1. s[4].obj \in Hook!Objects /\ s[4].next \in 1..5
      BY <2>1 DEF SetupAt, SetupFrames
    <3>2. \A k \in 1..4 : k < g.next => Hook!Names[k] \in more[g.obj]
      BY <1>2, <2>1, <3>1 DEF SetupAt
    <3> QED BY <1>2, <2>1, <3>2 DEF SetupAt
  <2>5. Regions(t, rec)
    BY <1>2, <2>1 DEF StackOK, Regions, LockedAt
  <2> QED BY <2>1, <2>2, <2>3, <2>4, <2>5 DEF StackOK, Nested, Asking, Callable
<1> QED BY <1>1, <1>2

(* The next call of the client.                                            *)
LEMMA NextCallKeeps ==
  ASSUME NEW s, NEW ptrs, NEW rec, NEW result, StackOK(s, ptrs, rec, result), s = <<>>,
         NEW f \in FreshCalls
  PROVE  StackOK(<<f>>, ptrs, rec, result)
<1> DEFINE t == <<f>>
<1>1. t \in Seq(Frames) /\ Len(t) = 1 /\ t[1] = f /\ f \in CallFrames
      /\ f.at = "enter" /\ ~f.locked
  BY DEF FreshCalls, Frames
<1> HIDE DEF t
<1>2. CallAt(t, 1)
  BY <1>1 DEF CallAt
<1>3. Regions(t, rec)
  BY <1>1 DEF StackOK, Regions, LockedAt
<1>4. StackOK(t, ptrs, rec, result)
  BY <1>1, <1>2, <1>3 DEF StackOK, Nested, Asking, Callable
<1> QED BY <1>4 DEF t

-----------------------------------------------------------------------------
(* The steps of a call.                                                    *)
LEMMA TopCall ==
  ASSUME IInv, Hook!IsCall
  PROVE  /\ stack # <<>> /\ stack \in Seq(Frames) /\ Hook!top = stack[Len(stack)]
         /\ Len(stack) \in {1, 3, 5} /\ Hook!top \in CallFrames /\ Hook!top \in Frames
         /\ CallAt(stack, Len(stack)) /\ (Len(stack) = 5 => Hook!top.at = "enter")
<1>1. stack # <<>> /\ Hook!top.fn # "setupPointers"
  BY DEF Hook!IsCall
<1>2. Nested(stack, pointers)
  BY DEF IInv, StackOK
<1>3. /\ stack \in Seq(Frames) /\ Hook!top = stack[Len(stack)]
      /\ Len(stack) \in {1, 3, 5} /\ Hook!top \in CallFrames /\ CallAt(stack, Len(stack))
  BY <1>1, <1>2, TopIsCall DEF Hook!top
<1>4. Len(stack) = 5 => stack[5].at = "enter"
  BY <1>2 DEF Nested
<1> QED BY <1>1, <1>3, <1>4 DEF Frames

(* What the invariant says of a setup on top.                              *)
LEMMA TopSetup ==
  ASSUME IInv, Hook!IsSetup
  PROVE  /\ stack # <<>> /\ stack \in Seq(Frames) /\ Hook!top = stack[Len(stack)]
         /\ Len(stack) \in {2, 4} /\ Hook!top \in SetupFrames /\ Hook!top \in Frames
         /\ SetupAt(stack, pointers, Len(stack))
<1>1. stack # <<>> /\ Hook!top.fn = "setupPointers"
  BY DEF Hook!IsSetup
<1>2. Nested(stack, pointers)
  BY DEF IInv, StackOK
<1>3. /\ stack \in Seq(Frames) /\ Hook!top = stack[Len(stack)]
      /\ Len(stack) \in {2, 4} /\ Hook!top \in SetupFrames /\ SetupAt(stack, pointers, Len(stack))
  BY <1>1, <1>2, TopIsSetup DEF Hook!top
<1> QED BY <1>1, <1>3 DEF Frames

(* A call enters: the innermost calloc() cannot, so a region is entered    *)
(* only by the client's call or by the calloc() of dlsym().                *)
LEMMA EnterStep ==
  ASSUME IInv, Hook!enter
  PROVE  IInv'
<1>1. Hook!IsCall /\ Hook!top.at = "enter"
  BY DEF Hook!enter
<1>2. /\ stack # <<>> /\ stack \in Seq(Frames) /\ Hook!top = stack[Len(stack)]
      /\ Len(stack) \in {1, 3, 5} /\ Hook!top \in CallFrames
  BY <1>1, TopCall
<1>3. Len(stack) \in {1, 3}
  <2>1. SUFFICES ASSUME Len(stack) = 5 PROVE FALSE
    BY <1>2
  <2>2. Nested(stack, pointers) /\ Regions(stack, recursive)
    BY DEF IInv, StackOK
  <2>3. stack[5].fn = "calloc" /\ stack[5].checked /\ recursive = 1
    BY <2>1, <2>2, InnermostInRegion
  <2> QED BY <1>2, <2>1, <2>3 DEF Hook!enter, Hook!InLookup
<1> DEFINE g == [Hook!top EXCEPT !.at = "pointers", !.locked = Hook!NeedsRegion]
           t == Hook!Front(stack) \o <<g>>
<1>4. /\ g \in CallFrames /\ g.at = "pointers" /\ g.fn = Hook!top.fn /\ g.obj = Hook!top.obj
      /\ g.checked = Hook!top.checked /\ g.locked = (Hook!top.checked /\ recursive = 0)
  BY <1>2 DEF CallFrames, Hook!NeedsRegion
<1>5. stack' = t /\ UNCHANGED <<phase, todo, isInitialized, pointers, dlresult, last, handed_out>>
  BY DEF Hook!enter, Hook!Top
<1>6. recursive' = IF g.locked THEN recursive + 1 ELSE recursive
  BY <1>4 DEF Hook!enter, Hook!NeedsRegion
<1>7. ~(g.fn = "calloc" /\ g.checked /\ recursive > 0)
  BY <1>4 DEF Hook!enter, Hook!InLookup
<1> HIDE DEF g
<1>8. g \in Frames
  BY <1>4 DEF Frames
<1>9. /\ t \in Seq(Frames) /\ Len(t) = Len(stack)
      /\ \A i \in 1..Len(stack) - 1 : t[i] = stack[i]
      /\ t[Len(stack)] = g
  BY <1>2, <1>8, Replaced
<1> HIDE DEF t
<1>10. StackOK(stack, pointers, recursive, dlresult)
  BY DEF IInv
<1>11. stack[Len(stack)].at = "enter"
  BY <1>1, <1>2
<1>12. /\ g.fn = stack[Len(stack)].fn /\ g.obj = stack[Len(stack)].obj
       /\ g.checked = stack[Len(stack)].checked /\ g.locked = (g.checked /\ recursive = 0)
  BY <1>2, <1>4
<1>13. StackOK(t, pointers, IF g.locked THEN recursive + 1 ELSE recursive, dlresult)
  BY <1>3, <1>4, <1>7, <1>9, <1>10, <1>11, <1>12, EnterKeeps
<1>14. StackOK(stack, pointers, recursive, dlresult)'
  BY <1>5, <1>6, <1>13
<1> QED BY <1>5, <1>14 DEF IInv

(* A call that finds its object initialized has its pointer, another sets  *)
(* the pointers up.                                                        *)
LEMMA CheckInitializedStep ==
  ASSUME IInv, Hook!check_initialized
  PROVE  IInv'
<1>1. Hook!IsCall /\ Hook!top.at = "pointers"
  BY DEF Hook!check_initialized
<1>2. /\ stack # <<>> /\ stack \in Seq(Frames) /\ Hook!top = stack[Len(stack)]
      /\ Len(stack) \in {1, 3, 5} /\ Hook!top \in CallFrames /\ (Len(stack) = 5 => Hook!top.at = "enter")
  BY <1>1, TopCall
<1>3. Len(stack) \in {1, 3}
  BY <1>1, <1>2
<1> DEFINE g == [Hook!top EXCEPT !.at = "raw"]
<1>4. /\ g \in CallFrames /\ g.at = "raw" /\ g.fn = Hook!top.fn /\ g.obj = Hook!top.obj
      /\ g.checked = Hook!top.checked /\ g.locked = Hook!top.locked
  BY <1>2 DEF CallFrames
<1>5. /\ UNCHANGED <<phase, todo, isInitialized, pointers, recursive, dlresult, last, handed_out>>
      /\ IF isInitialized[Hook!top.obj] THEN stack' = Hook!Front(stack) \o <<g>>
         ELSE stack' = Hook!Front(stack) \o <<g, Hook!Setup(Hook!top.obj)>>
  BY DEF Hook!check_initialized, Hook!Top
<1> HIDE DEF g
<1>6. g \in Frames
  BY <1>4 DEF Frames
<1>7. StackOK(stack, pointers, recursive, dlresult)
  BY DEF IInv
<1>8. /\ stack[Len(stack)].at = "pointers"
      /\ g.fn = stack[Len(stack)].fn /\ g.obj = stack[Len(stack)].obj
      /\ g.checked = stack[Len(stack)].checked /\ g.locked = stack[Len(stack)].locked
  BY <1>1, <1>2, <1>4
<1>9. CASE isInitialized[Hook!top.obj]
  <2> DEFINE t == Hook!Front(stack) \o <<g>>
  <2>1. /\ t \in Seq(Frames) /\ Len(t) = Len(stack)
        /\ \A i \in 1..Len(stack) - 1 : t[i] = stack[i]
        /\ t[Len(stack)] = g
    BY <1>2, <1>6, Replaced
  <2>2. stack' = t
    BY <1>5, <1>9
  <2> HIDE DEF t
  <2>3. g.obj \in Hook!Objects /\ g.fn \in Hook!ToSet(Hook!Names)
    BY <1>4 DEF CallFrames
  <2>4. g.fn \in pointers[g.obj]
    <3>1. \A k \in 1..4 : Hook!Names[k] \in pointers[g.obj]
      BY <1>4, <1>9, <2>3 DEF IInv
    <3> QED BY <2>3, <3>1, AllNames
  <2>5. StackOK(t, pointers, recursive, dlresult)
    BY <1>3, <1>4, <1>7, <1>8, <2>1, <2>4, RawKeeps
  <2>6. StackOK(stack, pointers, recursive, dlresult)'
    BY <1>5, <2>2, <2>5
  <2> QED BY <1>5, <2>6 DEF IInv
<1>10. CASE ~isInitialized[Hook!top.obj]
  <2> DEFINE c == Hook!Setup(Hook!top.obj)
             t == Hook!Front(stack) \o <<g, c>>
  <2>1. c \in Frames
    BY <1>2 DEF Hook!Setup, Frames, SetupFrames, CallFrames
  <2> HIDE DEF c
  <2>2. /\ t \in Seq(Frames) /\ Len(t) = Len(stack) + 1
        /\ \A i \in 1..Len(stack) - 1 : t[i] = stack[i]
        /\ t[Len(stack)] = g /\ t[Len(stack) + 1] = c
    BY <1>2, <1>6, <2>1, Pushed
  <2>3. stack' = t
    BY <1>5, <1>10 DEF c
  <2>4. t[Len(stack) + 1] = Hook!Setup(g.obj)
    BY <1>4, <2>2 DEF c
  <2> HIDE DEF t
  <2>5. StackOK(t, pointers, recursive, dlresult)
    BY <1>3, <1>4, <1>7, <1>8, <2>2, <2>4, SetupKeeps
  <2>6. StackOK(stack, pointers, recursive, dlresult)'
    BY <1>5, <2>3, <2>5
  <2> QED BY <1>5, <2>6 DEF IInv
<1> QED BY <1>9, <1>10

(* A return: the stack, and where the value goes.                          *)
LEMMA ReturnStep ==
  ASSUME IInv, Hook!IsCall, NEW value, Hook!Return(value),
         recursive' = IF Hook!top.locked THEN recursive - 1 ELSE recursive,
         UNCHANGED pointers
  PROVE  StackOK(stack, pointers, recursive, dlresult)'
<1>1. /\ stack # <<>> /\ stack \in Seq(Frames) /\ Hook!top = stack[Len(stack)]
      /\ Len(stack) \in {1, 3, 5}
  BY TopCall
<1> DEFINE t == Hook!Front(stack)
<1>2. /\ t \in Seq(Frames) /\ Len(t) = Len(stack) - 1
      /\ \A i \in 1..Len(stack) - 1 : t[i] = stack[i]
  BY <1>1, Popped
<1>3. stack' = t
  BY DEF Hook!Return
<1> HIDE DEF t
<1>4. StackOK(stack, pointers, recursive, dlresult)
  BY DEF IInv
<1>5. StackOK(t, pointers, IF stack[Len(stack)].locked THEN recursive - 1 ELSE recursive,
              dlresult')
  BY <1>1, <1>2, <1>4, CallReturnKeeps
<1> QED BY <1>1, <1>3, <1>5

(* A call that reached glibc returns a chunk and leaves its region.        *)
LEMMA CallRawStep ==
  ASSUME IInv, Hook!call_raw, Hook!HookConstants
  PROVE  IInv'
<1>1. /\ Hook!IsCall /\ Hook!top.at = "raw" /\ Hook!Return(CHUNK)
      /\ recursive' = IF Hook!top.locked THEN recursive - 1 ELSE recursive
      /\ UNCHANGED <<phase, todo, isInitialized, pointers>>
  BY DEF Hook!call_raw, Hook!Leave
<1>2. StackOK(stack, pointers, recursive, dlresult)'
  BY <1>1, ReturnStep
<1>3. last' = CHUNK /\ dlresult' \in {dlresult, CHUNK} /\ handed_out' = handed_out
  BY <1>1 DEF Hook!Return, IInv, Hook!HookConstants
<1> QED BY <1>1, <1>2, <1>3 DEF IInv, Hook!HookConstants

(* calloc() is in a region only when dlsym() made the call and has no      *)
(* buffer yet.                                                             *)
LEMMA CallInRegionStep ==
  ASSUME IInv, Hook!call_calloc_in_region, Hook!HookConstants
  PROVE  IInv'
<1> DEFINE value == IF isInitialized[Hook!top.obj] THEN NULL ELSE CALLOCBASE
<1>1. /\ Hook!IsCall /\ Hook!top.at = "enter" /\ recursive > 0 /\ Hook!Return(value)
      /\ UNCHANGED <<phase, todo, isInitialized, pointers, recursive>>
  BY DEF Hook!call_calloc_in_region, Hook!InLookup
<1>2. value \in {NULL, CALLOCBASE}
  OBVIOUS
<1> HIDE DEF value
<1>3. /\ stack # <<>> /\ Hook!top = stack[Len(stack)] /\ Len(stack) \in {1, 3, 5}
      /\ CallAt(stack, Len(stack))
  BY <1>1, TopCall
<1>4. ~Hook!top.locked
  BY <1>1, <1>3 DEF CallAt
<1>5. StackOK(stack, pointers, recursive, dlresult)'
  BY <1>1, <1>4, ReturnStep
<1>6. Len(stack) # 1
  <2>1. SUFFICES ASSUME Len(stack) = 1 PROVE FALSE
    OBVIOUS
  <2>2. Regions(stack, recursive)
    BY DEF IInv, StackOK
  <2>3. ~LockedAt(stack, 1) /\ ~LockedAt(stack, 3)
    BY <1>3, <1>4, <2>1 DEF LockedAt
  <2> QED BY <1>1, <2>2, <2>3 DEF Regions
<1>7. dlresult = NULL
  BY <1>1, <1>3, <1>6 DEF IInv, StackOK, Asking
<1>8. handed_out = 0
  BY <1>7 DEF IInv
<1>9. /\ dlresult' = value /\ last' = last
      /\ handed_out' = IF value = CALLOCBASE THEN 1 ELSE 0
  BY <1>1, <1>6, <1>8 DEF Hook!Return
<1>10. /\ dlresult' \in {NULL, CHUNK, CALLOCBASE}
       /\ handed_out' \in {0, 1} /\ (handed_out' = 1 => dlresult' # NULL)
  BY <1>2, <1>9 DEF Hook!HookConstants
<1> QED BY <1>1, <1>5, <1>9, <1>10 DEF IInv

-----------------------------------------------------------------------------
(* The steps of a setup.                                                   *)
LEMMA AllocatesStep ==
  ASSUME IInv, Hook!dlsym_allocates
  PROVE  IInv'
<1>1. Hook!IsSetup /\ Hook!top.next <= 4 /\ dlresult = NULL
  BY AllNames DEF Hook!dlsym_allocates
<1>2. /\ stack # <<>> /\ stack \in Seq(Frames) /\ Hook!top = stack[Len(stack)]
      /\ Len(stack) \in {2, 4} /\ Hook!top \in SetupFrames
  BY <1>1, TopSetup
<1> DEFINE g == [Hook!top EXCEPT !.asked = TRUE]
           c == Hook!Call("calloc", wrapper, TRUE)
           t == Hook!Front(stack) \o <<g, c>>
<1>3. g \in SetupFrames /\ g.asked = TRUE /\ g.obj = Hook!top.obj /\ g.next = Hook!top.next
  BY <1>2 DEF SetupFrames
<1>4. /\ stack' = t
      /\ UNCHANGED <<phase, todo, isInitialized, pointers, recursive, dlresult, last, handed_out>>
  BY DEF Hook!dlsym_allocates
<1>5. c \in Frames
  BY DEF Hook!Call, Frames, CallFrames, Hook!Objects, Hook!Names, Hook!ToSet
<1> HIDE DEF g
<1>6. g \in Frames
  BY <1>3 DEF Frames
<1>7. /\ t \in Seq(Frames) /\ Len(t) = Len(stack) + 1
      /\ \A i \in 1..Len(stack) - 1 : t[i] = stack[i]
      /\ t[Len(stack)] = g /\ t[Len(stack) + 1] = c
  <2> HIDE DEF c
  <2> QED BY <1>2, <1>5, <1>6, Pushed
<1> HIDE DEF t
<1>8. StackOK(stack, pointers, recursive, NULL)
  BY <1>1 DEF IInv
<1>9. /\ stack[Len(stack)].next <= 4
      /\ g.obj = stack[Len(stack)].obj /\ g.next = stack[Len(stack)].next
  BY <1>1, <1>2, <1>3
<1>10. StackOK(t, pointers, recursive, NULL)
  BY <1>2, <1>3, <1>7, <1>8, <1>9, AllocatesKeeps
<1>11. StackOK(stack, pointers, recursive, dlresult)'
  BY <1>1, <1>4, <1>10
<1> QED BY <1>4, <1>11 DEF IInv

(* A setup goes on to the next name.                                       *)
LEMMA NextFrame ==
  ASSUME NEW f \in SetupFrames, f.next \in 1..4
  PROVE  LET g == [f EXCEPT !.next = @ + 1, !.asked = FALSE]
         IN g \in SetupFrames /\ g.obj = f.obj /\ g.next = f.next + 1
<1>1. f.next + 1 \in 1..5
  OBVIOUS
<1> QED BY <1>1 DEF SetupFrames

(* A lookup adds its name, and the flag is set when all four are there.    *)
LEMMA TypedStep ==
  ASSUME IInv, Hook!dlsym_typed
  PROVE  IInv'
<1>1. Hook!IsSetup /\ Hook!top.next <= 4
  BY AllNames DEF Hook!dlsym_typed
<1>2. /\ stack # <<>> /\ stack \in Seq(Frames) /\ Hook!top = stack[Len(stack)]
      /\ Len(stack) \in {2, 4} /\ Hook!top \in SetupFrames
      /\ SetupAt(stack, pointers, Len(stack))
  BY <1>1, TopSetup
<1> DEFINE g == [Hook!top EXCEPT !.next = @ + 1, !.asked = FALSE]
           t == Hook!Front(stack) \o <<g>>
           more == [pointers EXCEPT ![Hook!top.obj] = @ \cup {Hook!Names[Hook!top.next]}]
<1>3. Hook!top.next \in 1..4 /\ Hook!top.obj \in Hook!Objects
  <2>1. Hook!top.next \in 1..5 /\ Hook!top.obj \in Hook!Objects
    BY <1>2 DEF SetupFrames
  <2> QED BY <1>1, <2>1
<1>4. g \in SetupFrames /\ g.obj = Hook!top.obj /\ g.next = Hook!top.next + 1
  BY <1>2, <1>3, NextFrame
<1>5. /\ stack' = t /\ pointers' = more
      /\ UNCHANGED <<phase, todo, recursive, dlresult, last, handed_out>>
      /\ isInitialized' = IF Hook!Flag THEN [isInitialized EXCEPT ![Hook!top.obj] = TRUE]
                          ELSE isInitialized
  BY DEF Hook!dlsym_typed, Hook!Top
<1>6. pointers \in [Hook!Objects -> SUBSET Hook!ToSet(Hook!Names)]
  BY DEF IInv
<1>7. Hook!Names[Hook!top.next] \in Hook!ToSet(Hook!Names)
  BY <1>3, AllNames
<1>8. /\ more \in [Hook!Objects -> SUBSET Hook!ToSet(Hook!Names)]
      /\ \A o \in Hook!Objects : pointers[o] \subseteq more[o]
      /\ Hook!Names[Hook!top.next] \in more[Hook!top.obj]
  BY <1>3, <1>6, <1>7
<1> HIDE DEF g, more
<1>9. g \in Frames
  BY <1>4 DEF Frames
<1>10. /\ t \in Seq(Frames) /\ Len(t) = Len(stack)
       /\ \A i \in 1..Len(stack) - 1 : t[i] = stack[i]
       /\ t[Len(stack)] = g
  BY <1>2, <1>9, Replaced
<1> HIDE DEF t
<1>11. StackOK(stack, pointers, recursive, dlresult)
  BY DEF IInv
<1>12. /\ stack[Len(stack)].next <= 4
       /\ g.obj = stack[Len(stack)].obj /\ g.next = stack[Len(stack)].next + 1
       /\ Hook!Names[stack[Len(stack)].next] \in more[stack[Len(stack)].obj]
  BY <1>1, <1>2, <1>4, <1>8
<1>13. StackOK(t, more, recursive, dlresult)
  BY <1>2, <1>4, <1>8, <1>10, <1>11, <1>12, TypedKeeps
<1>14. StackOK(stack, pointers, recursive, dlresult)'
  BY <1>5, <1>13
<1>15. \A o \in Hook!Objects : isInitialized'[o] => \A k \in 1..4 : Hook!Names[k] \in more[o]
  <2>1. SUFFICES ASSUME NEW o \in Hook!Objects, isInitialized'[o], NEW k \in 1..4
                 PROVE  Hook!Names[k] \in more[o]
    OBVIOUS
  <2>2. CASE isInitialized[o]
    BY <1>8, <2>2 DEF IInv
  <2>3. CASE ~isInitialized[o]
    <3>1. o = Hook!top.obj /\ Hook!top.next = 4
      BY <1>5, <2>1, <2>3, AllNames DEF IInv, Hook!Flag
    <3>2. k < 4 => Hook!Names[k] \in pointers[o]
      BY <1>2, <3>1 DEF SetupAt
    <3> QED BY <1>8, <3>1, <3>2
  <2> QED BY <2>2, <2>3
<1>16. isInitialized' \in [Hook!Objects -> BOOLEAN]
  BY <1>5 DEF IInv
<1> QED BY <1>5, <1>8, <1>14, <1>15, <1>16 DEF IInv

(* A setup that is done has looked up what the call below it needs.        *)
LEMMA SetupReturnStep ==
  ASSUME IInv, Hook!setupPointers
  PROVE  IInv'
<1>1. /\ Hook!IsSetup /\ Hook!top.next > 4 /\ stack' = Hook!Front(stack)
      /\ UNCHANGED <<phase, todo, isInitialized, pointers, recursive, dlresult, last, handed_out>>
  BY AllNames DEF Hook!setupPointers
<1>2. /\ stack # <<>> /\ stack \in Seq(Frames) /\ Hook!top = stack[Len(stack)]
      /\ Len(stack) \in {2, 4}
  BY <1>1, TopSetup
<1> DEFINE t == Hook!Front(stack)
<1>3. /\ t \in Seq(Frames) /\ Len(t) = Len(stack) - 1
      /\ \A i \in 1..Len(stack) - 1 : t[i] = stack[i]
  BY <1>2, Popped
<1>4. stack' = t
  BY <1>1
<1> HIDE DEF t
<1>5. StackOK(stack, pointers, recursive, dlresult) /\ stack[Len(stack)].next > 4
  BY <1>1, <1>2 DEF IInv
<1>6. StackOK(t, pointers, recursive, dlresult)
  BY <1>2, <1>3, <1>5, SetupReturnKeeps
<1>7. StackOK(stack, pointers, recursive, dlresult)'
  BY <1>1, <1>4, <1>6
<1> QED BY <1>1, <1>7 DEF IInv

-----------------------------------------------------------------------------
(* The steps of the clients.                                               *)
LEMMA CallsAreFresh ==
  ASSUME NEW fn \in Hook!ToSet(Hook!Names), NEW o \in Hook!Objects, NEW checked \in BOOLEAN
  PROVE  Hook!Call(fn, o, checked) \in FreshCalls
BY DEF Hook!Call, FreshCalls, CallFrames

(* A client may make a single call.                                        *)
LEMMA OneCall ==
  ASSUME NEW f \in FreshCalls
  PROVE  <<f>> \in Seq(FreshCalls)
OBVIOUS

(* The application calls one of the four functions.                        *)
LEMMA ApplicationStep ==
  ASSUME IInv, NEW fn \in Hook!ToSet(Hook!Names), Hook!Application(fn)
  PROVE  IInv'
<1>1. /\ todo' = Hook!CallsOf(fn)
      /\ UNCHANGED <<phase, stack, isInitialized, pointers, recursive, dlresult, last, handed_out>>
  BY DEF Hook!Application
<1>2. {wrapper, facade} \subseteq Hook!Objects /\ {"malloc", "calloc", "free"} \subseteq Hook!ToSet(Hook!Names)
  BY AllNames DEF Hook!Objects
<1>3. /\ Hook!Call("malloc", wrapper, TRUE) \in FreshCalls
      /\ Hook!Call("calloc", wrapper, TRUE) \in FreshCalls
      /\ Hook!Call("free", wrapper, FALSE) \in FreshCalls
      /\ Hook!Call("malloc", wrapper, FALSE) \in FreshCalls
      /\ Hook!Call("free", facade, FALSE) \in FreshCalls
  BY <1>2, CallsAreFresh
<1>4. Hook!CallsOf(fn) \in Seq(FreshCalls)
  <2>1. CASE fn \in {"malloc", "calloc"}
    <3>1. Hook!CallsOf(fn) = <<Hook!Call(fn, wrapper, TRUE)>>
      BY <2>1 DEF Hook!CallsOf
    <3>2. Hook!Call(fn, wrapper, TRUE) \in FreshCalls
      BY <1>3, <2>1
    <3> QED BY <3>1, <3>2, OneCall
  <2>2. CASE fn = "free"
    <3>1. Hook!CallsOf(fn) = <<Hook!Call("free", wrapper, FALSE)>>
      BY <2>2 DEF Hook!CallsOf
    <3> QED BY <1>3, <3>1, OneCall
  <2>3. CASE fn = "realloc"
    <3> DEFINE first == Hook!Call("malloc", wrapper, FALSE)
               second == Hook!Call("free", facade, FALSE)
    <3>1. Hook!CallsOf(fn) = <<first>> \o (IF phase = "ready" THEN <<second>> ELSE <<>>)
      BY <2>3 DEF Hook!CallsOf
    <3>2. first \in FreshCalls /\ second \in FreshCalls
      BY <1>3
    <3> HIDE DEF first, second
    <3> QED BY <3>1, <3>2
  <2> QED BY <2>1, <2>2, <2>3, AllNames
<1>5. StackOK(stack, pointers, recursive, dlresult)'
  BY <1>1 DEF IInv
<1> QED BY <1>1, <1>4, <1>5 DEF IInv

(* The store calls, with an allocator it has used before or a copy.        *)
LEMMA StoreCallsStep ==
  ASSUME IInv, NEW fn \in {"malloc", "free"}, Hook!Store(fn)
  PROVE  IInv'
<1> DEFINE f == Hook!Call(fn, allocator, FALSE)
<1>1. /\ stack = <<>> /\ todo' = <<f>> \o todo
      /\ UNCHANGED <<phase, stack, recursive, dlresult, last, handed_out>>
      /\ \/ UNCHANGED <<isInitialized, pointers>>
         \/ /\ isInitialized' = [isInitialized EXCEPT ![allocator] = FALSE]
            /\ pointers' = [pointers EXCEPT ![allocator] = {}]
  BY DEF Hook!Store
<1>2. f \in FreshCalls
  <2>1. allocator \in Hook!Objects /\ {"malloc", "free"} \subseteq Hook!ToSet(Hook!Names)
    BY AllNames DEF Hook!Objects
  <2> QED BY <2>1, CallsAreFresh
<1> HIDE DEF f
<1>3. todo' \in Seq(FreshCalls)
  BY <1>1, <1>2 DEF IInv
<1>4. StackOK(stack, pointers, recursive, dlresult)'
  BY <1>1 DEF IInv, StackOK, Nested, Regions, LockedAt, Asking, Callable
<1>5. /\ isInitialized' \in [Hook!Objects -> BOOLEAN]
      /\ pointers' \in [Hook!Objects -> SUBSET Hook!ToSet(Hook!Names)]
      /\ \A o \in Hook!Objects :
           isInitialized'[o] => \A k \in 1..4 : Hook!Names[k] \in pointers'[o]
  BY <1>1 DEF IInv
<1> QED BY <1>1, <1>3, <1>4, <1>5 DEF IInv

(* The constructor resets the flags, which only makes the objects look the *)
(* functions up again.                                                     *)
LEMMA ConstructStep ==
  ASSUME IInv, Hook!Construct
  PROVE  IInv'
<1> DEFINE w == Hook!Call("malloc", allocator, FALSE)
           x == Hook!Call("malloc", leak, FALSE)
           y == Hook!Call("free", leak, FALSE)
           z == Hook!Call("malloc", wrapper, TRUE)
<1>1. /\ phase' = "constructing" /\ isInitialized' = [o \in Hook!Objects |-> FALSE]
      /\ todo' = <<w, x, y, z>>
      /\ UNCHANGED <<stack, pointers, recursive, dlresult, last, handed_out>>
  BY DEF Hook!Construct
<1>2. /\ {allocator, leak, wrapper} \subseteq Hook!Objects
      /\ {"malloc", "free"} \subseteq Hook!ToSet(Hook!Names)
  BY AllNames DEF Hook!Objects
<1>3. w \in FreshCalls /\ x \in FreshCalls /\ y \in FreshCalls /\ z \in FreshCalls
  BY <1>2, CallsAreFresh
<1> HIDE DEF w, x, y, z
<1>4. todo' \in Seq(FreshCalls)
  BY <1>1, <1>3
<1>5. StackOK(stack, pointers, recursive, dlresult)'
  BY <1>1 DEF IInv
<1> QED BY <1>1, <1>4, <1>5 DEF IInv

(* A client's next call is the only frame.                                 *)
LEMMA NextCallStep ==
  ASSUME IInv, Hook!NextCall
  PROVE  IInv'
<1>1. /\ stack = <<>> /\ todo # <<>> /\ stack' = <<Head(todo)>> /\ todo' = Tail(todo)
      /\ UNCHANGED <<phase, isInitialized, pointers, recursive, dlresult, last, handed_out>>
  BY DEF Hook!NextCall
<1>2. Head(todo) \in FreshCalls /\ todo' \in Seq(FreshCalls)
  BY <1>1 DEF IInv
<1>3. StackOK(stack, pointers, recursive, dlresult)
  BY DEF IInv
<1>4. StackOK(<<Head(todo)>>, pointers, recursive, dlresult)
  BY <1>1, <1>2, <1>3, NextCallKeeps
<1>5. StackOK(stack, pointers, recursive, dlresult)'
  BY <1>1, <1>4
<1> QED BY <1>1, <1>2, <1>5 DEF IInv

-----------------------------------------------------------------------------
(* The invariant holds before the first call.                              *)
LEMMA HookInit == Hook!Init => IInv
<1>1. SUFFICES ASSUME Hook!Init PROVE IInv
  OBVIOUS
<1>2. StackOK(<<>>, pointers, 0, NULL)
  <2>1. <<>> \in Seq(Frames) /\ Len(<<>>) = 0
    OBVIOUS
  <2>2. Nested(<<>>, pointers)
    BY <2>1, NestedShort
  <2>3. Regions(<<>>, 0)
    BY DEF Regions, LockedAt
  <2>4. Asking(<<>>, NULL) /\ Callable(<<>>, pointers)
    BY DEF Asking, Callable
  <2> QED BY <2>2, <2>3, <2>4 DEF StackOK
<1>3. StackOK(stack, pointers, recursive, dlresult)
  BY <1>1, <1>2 DEF Hook!Init
<1> QED BY <1>1, <1>3 DEF Hook!Init, IInv

(* Every step of the bootstrap keeps the invariant.                        *)
LEMMA HookStep ==
  ASSUME IInv, Hook!Next, Hook!HookConstants
  PROVE  IInv'
<1>1. ASSUME NEW fn \in Hook!ToSet(Hook!Names), Hook!Application(fn) PROVE IInv'
  BY <1>1, ApplicationStep
<1>2. CASE Hook!Construct
  BY <1>2, ConstructStep
<1>3. CASE Hook!Constructed
  <2>1. StackOK(stack, pointers, recursive, dlresult)'
    BY <1>3 DEF Hook!Constructed, IInv
  <2> QED BY <1>3, <2>1 DEF Hook!Constructed, IInv
<1>4. CASE Hook!NextCall
  BY <1>4, NextCallStep
<1>5. CASE Hook!call_calloc_in_region
  BY <1>5, CallInRegionStep
<1>6. CASE Hook!enter
  BY <1>6, EnterStep
<1>7. CASE Hook!check_initialized
  BY <1>7, CheckInitializedStep
<1>8. CASE Hook!call_raw
  BY <1>8, CallRawStep
<1>9. CASE Hook!dlsym_allocates
  BY <1>9, AllocatesStep
<1>10. CASE Hook!dlsym_typed
  BY <1>10, TypedStep
<1>11. CASE Hook!setupPointers
  BY <1>11, SetupReturnStep
<1>12. ASSUME NEW fn \in {"malloc", "free"}, Hook!Store(fn) PROVE IInv'
  BY <1>12, StoreCallsStep
<1> QED BY <1>1, <1>2, <1>3, <1>4, <1>5, <1>6, <1>7, <1>8, <1>9, <1>10, <1>11, <1>12 DEF Hook!Next

(* HookInfo counts with the library's operator.                            *)
LEMMA SameCardinality == \A inside : Hook!Cardinality(inside) = Cardinality(inside)
BY DEF Hook!Cardinality, Cardinality

(* The counter of regions is the number of frames that are in one.         *)
LEMMA RegionsCounted ==
  ASSUME NEW s, NEW ptrs, NEW rec, Nested(s, ptrs), Regions(s, rec)
  PROVE  rec = Hook!Cardinality({i \in DOMAIN s : s[i].locked})
<1> DEFINE inside == {i \in DOMAIN s : s[i].locked}
<1>1. s \in Seq(Frames) /\ Len(s) <= 5
  BY DEF Nested
<1>2. DOMAIN s = 1..Len(s) /\ Len(s) \in Nat
  BY <1>1
<1>3. /\ 1 <= Len(s) => CallAt(s, 1)
      /\ 2 <= Len(s) => ~s[2].locked
      /\ 3 <= Len(s) => CallAt(s, 3) /\ (s[3].locked => ~s[1].locked)
      /\ 4 <= Len(s) => ~s[4].locked
      /\ 5 <= Len(s) => ~s[5].locked
  <2>1. 1 <= Len(s) => CallAt(s, 1)
    BY <1>2 DEF Nested
  <2>2. 2 <= Len(s) => ~s[2].locked
    BY <1>2 DEF Nested, SetupAt, SetupFrames
  <2>3. 3 <= Len(s) => CallAt(s, 3)
    BY <1>2 DEF Nested
  <2>4. 3 <= Len(s) => (s[3].locked => ~s[1].locked)
    BY <1>2, <2>3 DEF Regions, CallAt
  <2>5. 4 <= Len(s) => ~s[4].locked
    BY <1>2 DEF Nested, SetupAt, SetupFrames
  <2>6. 5 <= Len(s) => ~s[5].locked
    BY <1>2 DEF Nested, CallAt
  <2> QED BY <2>1, <2>2, <2>3, <2>4, <2>5, <2>6
<1>4. \A i \in inside : i = 1 \/ i = 3
  BY <1>1, <1>2, <1>3
<1>5. CASE LockedAt(s, 1)
  <2>1. inside = {1}
    BY <1>2, <1>3, <1>4, <1>5 DEF LockedAt
  <2>2. rec = 1
    BY <1>5 DEF Regions
  <2> QED BY <2>1, <2>2, FS_Singleton, SameCardinality
<1>6. CASE ~LockedAt(s, 1) /\ LockedAt(s, 3)
  <2>1. inside = {3}
    BY <1>2, <1>3, <1>4, <1>6 DEF LockedAt
  <2>2. rec = 1
    BY <1>6 DEF Regions
  <2> QED BY <2>1, <2>2, FS_Singleton, SameCardinality
<1>7. CASE ~LockedAt(s, 1) /\ ~LockedAt(s, 3)
  <2>1. inside = {}
    BY <1>2, <1>3, <1>4, <1>7 DEF LockedAt
  <2>2. rec = 0
    BY <1>7 DEF Regions
  <2> QED BY <2>1, <2>2, FS_EmptySet, SameCardinality
<1> QED BY <1>5, <1>6, <1>7

(* The invariant implies what the runs check.                              *)
LEMMA HookMeans ==
  ASSUME IInv
  PROVE  /\ Hook!TypeOK /\ Hook!RecursionEnds /\ Hook!RawCallsHavePointers
         /\ Hook!StaticBufferOnce /\ Hook!ClientsGetChunks
<1>1. Hook!RecursionEnds
  BY DEF IInv, StackOK, Nested, Hook!RecursionEnds
<1>2. Hook!RawCallsHavePointers
  <2>1. SUFFICES ASSUME Hook!IsCall, Hook!top.at = "raw" PROVE Hook!top.fn \in pointers[Hook!top.obj]
    BY DEF Hook!RawCallsHavePointers
  <2>2. Hook!top = stack[Len(stack)] /\ Len(stack) \in {1, 3, 5}
    BY <2>1, TopCall
  <2> QED BY <2>1, <2>2 DEF IInv, StackOK, Callable
<1>3. Hook!StaticBufferOnce /\ Hook!ClientsGetChunks
  BY DEF IInv, Hook!StaticBufferOnce, Hook!ClientsGetChunks
<1>4. Hook!TypeOK
  <2>1. recursive = Hook!Cardinality({i \in DOMAIN stack : stack[i].locked})
    BY RegionsCounted DEF IInv, StackOK
  <2> QED BY <2>1 DEF IInv, Hook!TypeOK
<1> QED BY <1>1, <1>2, <1>3, <1>4

-----------------------------------------------------------------------------
(* hookinfo.h: in every behaviour of the bootstrap the C stack is at most  *)
(* a call, its setup, the calloc() of dlsym(), its setup and the calloc()  *)
(* of that, with one region at most, and with every pointer looked up that *)
(* is about to be called.                                                  *)
THEOREM BootstrapCorrect ==
  PartsSpec => [](part = "hook" => IInv)
<1>1. PartsInit => (part = "hook" => IInv)
  BY HookInit DEF PartsInit
<1>2. (part = "hook" => IInv) /\ [PartsNext]_all => (part = "hook" => IInv)'
  <2>1. SUFFICES ASSUME part = "hook" => IInv, [PartsNext]_all, part' = "hook"
                 PROVE  IInv'
    OBVIOUS
  <2>2. CASE UNCHANGED all
    <3>1. IInv
      BY <2>1, <2>2 DEF all
    <3>2. UNCHANGED <<phase, todo, stack, isInitialized, pointers, recursive, dlresult,
                      last, handed_out>>
      BY <2>2 DEF all, hookVars
    <3>3. StackOK(stack, pointers, recursive, dlresult)'
      BY <3>1, <3>2 DEF IInv
    <3> QED BY <3>1, <3>2, <3>3 DEF IInv
  <2>3. CASE Bootstrap
    <3>1. IInv /\ Hook!Next
      BY <2>1, <2>3 DEF Bootstrap
    <3>2. Hook!HookConstants
      BY PartsAssumption
    <3> QED BY <3>1, <3>2, HookStep
  <2>4. part' = part
    BY <2>1 DEF PartsNext, Realloc, Bootstrap, Construct, Leak, Drive, Ended, all
  <2>5. part = "hook"
    BY <2>1, <2>4
  <2>6. CASE Ended
    BY <2>2, <2>6 DEF Ended
  <2> QED BY <2>1, <2>2, <2>3, <2>5, <2>6 DEF PartsNext, Realloc, Construct, Leak, Drive
<1> QED BY <1>1, <1>2, PTL DEF PartsSpec

(* What the runs check of the bootstrap, for every value of the constants. *)

(* hookinfo.h: dlsym() and calloc() do not call each other for ever; at    *)
(* most two setups are under way.                                          *)
THEOREM RecursionEndsAlways == PartsSpec => []RecursionEnds
<1>1. (part = "hook" => IInv) => RecursionEnds
  BY HookMeans DEF RecursionEnds
<1> QED BY <1>1, BootstrapCorrect, PTL

(* hookinfo.h: no function is called through a pointer that dlsym() has    *)
(* not returned yet.                                                       *)
THEOREM RawCallsHavePointersAlways == PartsSpec => []RawCallsHavePointers
<1>1. (part = "hook" => IInv) => RawCallsHavePointers
  BY HookMeans DEF RawCallsHavePointers
<1> QED BY <1>1, BootstrapCorrect, PTL

(* hookinfo.h: the static buffer that calloc() hands to dlsym() has one    *)
(* holder at most.                                                         *)
THEOREM StaticBufferOnceAlways == PartsSpec => []StaticBufferOnce
<1>1. (part = "hook" => IInv) => StaticBufferOnce
  BY HookMeans DEF StaticBufferOnce
<1> QED BY <1>1, BootstrapCorrect, PTL

(* hookinfo.h: the static buffer, and the NULL of a late lookup, never     *)
(* reach a client of the wrapper.                                          *)
THEOREM ClientsGetChunksAlways == PartsSpec => []ClientsGetChunks
<1>1. (part = "hook" => IInv) => ClientsGetChunks
  BY HookMeans DEF ClientsGetChunks
<1> QED BY <1>1, BootstrapCorrect, PTL

(* hookinfo.h: the types, and that the counter of recursive regions is the *)
(* number of calls that are in one, so every region that was entered is    *)
(* left.                                                                   *)
THEOREM RegionsBalanced == PartsSpec => [](part = "hook" => Hook!TypeOK)
<1>1. (part = "hook" => IInv) => (part = "hook" => Hook!TypeOK)
  BY HookMeans
<1> QED BY <1>1, BootstrapCorrect, PTL
=============================================================================
