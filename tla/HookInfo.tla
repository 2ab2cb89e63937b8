------------------------------ MODULE HookInfo ------------------------------
(***************************************************************************)
(* How the wrapper reaches the real allocator (src/src/hook/hookinfo.h):   *)
(* every HookInfo object looks the four functions up with dlsym() at its   *)
(* first use.  dlsym() may itself call calloc(), which is the wrapper's    *)
(* calloc() and needs the pointers that are being looked up; a counter of  *)
(* recursive regions and a static buffer get it out of the circle.         *)
(*                                                                         *)
(* One thread; the C stack is a sequence of frames, the innermost last.    *)
(* dlsym() keeps the buffer that it asked calloc() for, and asks until it  *)
(* has one.                                                                *)
(***************************************************************************)
EXTENDS Naturals, FiniteSets, SequencesExt

CONSTANTS
  wrapper, facade, leak, allocator,   \* the objects that have a HookInfo
  NULL, CHUNK, CALLOCBASE             \* no memory; glibc's; the static buffer

(* The three values are told apart.                                        *)
HookConstants == NULL # CHUNK /\ CALLOCBASE \notin {NULL, CHUNK}

Objects == {wrapper, facade, leak, allocator}
Names == <<"malloc", "calloc", "realloc", "free">>

VARIABLES
  phase,                              \* of the process: before, in, after the
                                      \* constructor of the wrapper
  todo,                               \* calls the current client still makes
  stack,                              \* frames of calls and of setupPointers
  isInitialized, pointers,            \* of each object; names looked up so far
  recursive,                          \* regions entered and not left
  dlresult,                           \* the buffer of dlsym()
  last,                               \* what the client's last call returned
  handed_out, setups                  \* counts: CALLOCBASE, setups per object

vars == <<phase, todo, stack, isInitialized, pointers, recursive, dlresult,
          last, handed_out, setups>>

Call(fn, obj, checked) ==
  [fn |-> fn, obj |-> obj, checked |-> checked, at |-> "enter", locked |-> FALSE]
Setup(obj) ==
  [fn |-> "setupPointers", obj |-> obj, next |-> 1, asked |-> FALSE, locked |-> FALSE]

top == Last(stack)
Top(frame) == stack' = Front(stack) \o <<frame>>
IsCall == stack # <<>> /\ top.fn # "setupPointers"
IsSetup == stack # <<>> /\ top.fn = "setupPointers"

Init ==
  /\ phase = "early" /\ todo = <<>> /\ stack = <<>> /\ last = CHUNK
  /\ isInitialized = [o \in Objects |-> FALSE] /\ pointers = [o \in Objects |-> {}]
  /\ recursive = 0 /\ dlresult = NULL /\ handed_out = 0
  /\ setups = [o \in Objects |-> 0]

-----------------------------------------------------------------------------
(* Clients.  realloc() is a malloc() and, once there is a facade, a free() *)
(* through the facade's own object.                                        *)
CallsOf(fn) ==
  CASE fn \in {"malloc", "calloc"} -> <<Call(fn, wrapper, TRUE)>>
    [] fn = "free" -> <<Call("free", wrapper, FALSE)>>
    [] fn = "realloc" ->
         <<Call("malloc", wrapper, FALSE)>>
         \o (IF phase = "ready" THEN <<Call("free", facade, FALSE)>> ELSE <<>>)

Application(fn) ==
  /\ stack = <<>> /\ todo = <<>> /\ phase # "constructing"
  /\ todo' = CallsOf(fn)
  /\ UNCHANGED <<phase, stack, isInitialized, pointers, recursive, dlresult, last,
                 handed_out, setups>>

(* The constructor resets the flags that early calls have set, and works   *)
(* through its parts: store, probe, and the probe's calls of malloc().     *)
Construct ==
  /\ stack = <<>> /\ todo = <<>> /\ phase = "early" /\ phase' = "constructing"
  /\ isInitialized' = [o \in Objects |-> FALSE]
  /\ todo' = <<Call("malloc", allocator, FALSE), Call("malloc", leak, FALSE),
               Call("free", leak, FALSE), Call("malloc", wrapper, TRUE)>>
  /\ UNCHANGED <<stack, pointers, recursive, dlresult, last, handed_out, setups>>

Constructed ==
  /\ stack = <<>> /\ todo = <<>> /\ phase = "constructing" /\ phase' = "ready"
  /\ UNCHANGED <<todo, stack, isInitialized, pointers, recursive, dlresult, last,
                 handed_out, setups>>

NextCall ==
  /\ stack = <<>> /\ todo # <<>>
  /\ stack' = <<Head(todo)>> /\ todo' = Tail(todo)
  /\ UNCHANGED <<phase, isInitialized, pointers, recursive, dlresult, last,
                 handed_out, setups>>

(* put() and remove() of the store allocate and free raw memory, each      *)
(* through the HookInfo of an allocator of their own; a container makes    *)
(* copies of its allocator, and a copy has not looked anything up yet.     *)
Store(fn) ==
  /\ stack = <<>> /\ phase = "ready" /\ (todo # <<>> => Head(todo).obj = facade)
  /\ todo' = <<Call(fn, allocator, FALSE)>> \o todo
  /\ \/ UNCHANGED <<isInitialized, pointers, setups>>
     \/ /\ isInitialized' = [isInitialized EXCEPT ![allocator] = FALSE]
        /\ pointers' = [pointers EXCEPT ![allocator] = {}]
        /\ setups' = [setups EXCEPT ![allocator] = 0]
  /\ UNCHANGED <<phase, stack, recursive, dlresult, last, handed_out>>

-----------------------------------------------------------------------------
(* The frame on top returns value to the frame below it, which is dlsym()  *)
(* in a setup, or to the client.                                           *)
LeaveNever(frame) == recursive' = recursive                    \* mutant
Leave(frame) == recursive' = IF frame.locked THEN recursive - 1 ELSE recursive

Return(value) ==
  /\ stack' = Front(stack)
  /\ IF Len(stack) = 1 THEN last' = value /\ UNCHANGED dlresult
     ELSE dlresult' = value /\ UNCHANGED last
  /\ handed_out' = IF value = CALLOCBASE THEN handed_out + 1 ELSE handed_out

(* calloc() in a region comes from dlsym(): it gets the static buffer, or  *)
(* nothing once the functions are known.                                   *)
InLookupAnyFirst == ~isInitialized[top.obj]                    \* mutant
InLookup == recursive > 0

call_calloc_in_region ==
  /\ IsCall /\ top.at = "enter" /\ top.fn = "calloc" /\ top.checked /\ InLookup
  /\ Return(IF isInitialized[top.obj] THEN NULL ELSE CALLOCBASE)
  /\ UNCHANGED <<phase, todo, isInitialized, pointers, recursive, setups>>

(* The other calls go to the raw function, the checked ones in a region.   *)
NeedsRegionMallocOnly == top.fn = "malloc" /\ top.checked      \* mutant
NeedsRegion == top.checked /\ recursive = 0

enter ==
  /\ IsCall /\ top.at = "enter"
  /\ ~(top.fn = "calloc" /\ top.checked /\ InLookup)
  /\ recursive' = IF NeedsRegion THEN recursive + 1 ELSE recursive
  /\ Top([top EXCEPT !.at = "pointers", !.locked = NeedsRegion])
  /\ UNCHANGED <<phase, todo, isInitialized, pointers, dlresult, last, handed_out, setups>>

check_initialized ==
  /\ IsCall /\ top.at = "pointers"
  /\ LET caller == [top EXCEPT !.at = "raw"]
     IN IF isInitialized[top.obj] THEN Top(caller)
        ELSE stack' = Front(stack) \o <<caller, Setup(top.obj)>>
  /\ UNCHANGED <<phase, todo, isInitialized, pointers, recursive, dlresult, last,
                 handed_out, setups>>

call_raw ==
  /\ IsCall /\ top.at = "raw"
  /\ Return(CHUNK) /\ Leave(top)
  /\ UNCHANGED <<phase, todo, isInitialized, pointers, setups>>

-----------------------------------------------------------------------------
(* setupPointers: one dlsym() after the other, then the flag.              *)
dlsym_allocates ==
  /\ IsSetup /\ top.next <= Len(Names) /\ ~top.asked /\ dlresult = NULL
  /\ stack' = Front(stack) \o <<[top EXCEPT !.asked = TRUE], Call("calloc", wrapper, TRUE)>>
  /\ UNCHANGED <<phase, todo, isInitialized, pointers, recursive, dlresult, last,
                 handed_out, setups>>

FlagEarly == top.next = 1                                      \* mutant
Flag == top.next = Len(Names)

dlsym_typed ==
  /\ IsSetup /\ top.next <= Len(Names)
  /\ pointers' = [pointers EXCEPT ![top.obj] = @ \cup {Names[top.next]}]
  /\ isInitialized' = IF Flag THEN [isInitialized EXCEPT ![top.obj] = TRUE] ELSE isInitialized
  /\ Top([top EXCEPT !.next = @ + 1, !.asked = FALSE])
  /\ UNCHANGED <<phase, todo, recursive, dlresult, last, handed_out, setups>>

setupPointers ==
  /\ IsSetup /\ top.next > Len(Names)
  /\ stack' = Front(stack)
  /\ setups' = [setups EXCEPT ![top.obj] = @ + 1]
  /\ UNCHANGED <<phase, todo, isInitialized, pointers, recursive, dlresult, last, handed_out>>

Next ==
  \/ \E fn \in ToSet(Names) : Application(fn)
  \/ \E fn \in {"malloc", "free"} : Store(fn)
  \/ Construct \/ Constructed \/ NextCall
  \/ call_calloc_in_region \/ enter \/ check_initialized \/ call_raw
  \/ dlsym_allocates \/ dlsym_typed \/ setupPointers

Spec == Init /\ [][Next]_vars

-----------------------------------------------------------------------------
(* The counter of regions is the number of frames that will leave one.     *)
TypeOK ==
  /\ phase \in {"early", "constructing", "ready"}
  /\ isInitialized \in [Objects -> BOOLEAN]
  /\ pointers \in [Objects -> SUBSET ToSet(Names)]
  /\ {last, dlresult} \subseteq {NULL, CHUNK, CALLOCBASE}
  /\ recursive = Cardinality({i \in DOMAIN stack : stack[i].locked})

(* The recursion of dlsym() through calloc() ends: a call, the setup, the  *)
(* calloc() of dlsym(), its setup and the calloc() of that.                *)
RecursionEnds == Len(stack) <= 5

(* No function is called through a pointer that has not been looked up,    *)
(* although a nested setup may finish in the middle of another.            *)
RawCallsHavePointers ==
  IsCall /\ top.at = "raw" => top.fn \in pointers[top.obj]

(* The static buffer has one holder at most.                               *)
StaticBufferOnce == handed_out <= 1

(* Only dlsym() gets the static buffer or nothing; a client gets a chunk.  *)
ClientsGetChunks == last = CHUNK

(* hookinfo.h:86-87: setupPointers() "will be called at most once" (for    *)
(* each object).                                                           *)
SetupAtMostOnce == \A o \in Objects : setups[o] <= 1
=============================================================================
