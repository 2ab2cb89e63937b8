----------------------------- MODULE LeakProbe -----------------------------
(***************************************************************************)
(* How ShadowHeap finds the structures of glibc (src/src/leak/leak.cxx and *)
(* leak.h): it allocates, frees, allocates again and reads the links left  *)
(* in the freed chunks.  test_tcache finds out whether there is a tcache,  *)
(* leak_arena where the arena is; cleanHeap then allocates what the probes *)
(* left free.  All of it runs in the constructor, on whatever heap the     *)
(* calls before it have left behind.                                       *)
(*                                                                         *)
(* The address of the arena is where bin_at(2) has to be; candidates for   *)
(* it are distances from the arena in units, ELSEWHERE if not inside it.   *)
(***************************************************************************)
EXTENDS Ptmalloc, FiniteSets

CONSTANTS
  Versions,                      \* of glibc: "2.24" "2.26" "2.28" "2.29" "other"
  TcacheCounts,                  \* values of glibc.malloc.tcache_count, 0: off
  TEST_SIZE_TCACHEBIN,           \* how many chunks the probes fill a bin with
  EarlySizes,                    \* chunk sizes of calls before the constructor
  MaxEarly,                      \* bound: how many such allocations
  TCACHE, ELSEWHERE, ONE         \* the tcache struct; no place; the pointer 1

(* What the constants have to be.                                         *)
LeakProbeConstants ==
  /\ Versions \subseteq {"2.24", "2.26", "2.28", "2.29", "other"}
  /\ TEST_SIZE_TCACHEBIN \in Nat \ {0}
  /\ TcacheCounts \subseteq Nat /\ MaxEarly \in Nat /\ EarlySizes \subseteq Nat \ {0}
  /\ NULL \notin Nat /\ NULL # TCACHE /\ ONE # TCACHE

VARIABLES
  heap, live,                    \* glibc's heap; the application's chunks
  version, patched,              \* of glibc; does its mallopt() tell the tcache?
  phase,                         \* of the probe: "early" to "ready" or "aborted"
  tcache_present,                \* GLIBC_INFO: NULL, ONE or TCACHE
  a, ptr_a_fd,                   \* leak_arena: its chunk a, and ptr_a->fd read
  arena, refs, tcache,           \* ARENA_INFO: arena and the other addresses
  kept,                          \* chunks ShadowHeap does not give back
  nearly                         \* allocations before the constructor

vars == <<heap, live, version, patched, phase, tcache_present, a, ptr_a_fd, arena, refs,
          tcache, kept, nearly>>

TEST_SIZE_TCACHEMALLOC == request2units(1)
TEST_SIZE_LEAK == request2units(8)
TEST_SIZE_BARRIER == request2units(4096)
SIZEOF_ARENA_INFO == request2units(280)

HasTcache == version \in {"2.26", "2.28", "2.29"} /\ heap.tcache_count > 0

(* Allocations in a row, after those of g, and frees in order.             *)
Start(h) == [heap |-> h, ptrs |-> <<>>]
Allocated(g, m) == [heap |-> m.heap, ptrs |-> Append(g.ptrs, m.ptr)]
MallocAll(g, units) == FoldLeft(LAMBDA x, n : Allocated(x, Malloc(x.heap, n)), g, units)
FreeAllButLast(h, ptrs) ==                                     \* mutant
  FoldLeft(Free, h, SubSeq(ptrs, 1, Len(ptrs) - 1))
FreeAll(h, ptrs) == FoldLeft(Free, h, ptrs)
Times(k, n) == [i \in 1..k |-> n]

-----------------------------------------------------------------------------
(* The second word of an entry of the tcache is the key, from 2.29 on.     *)
might_be_tcacheFirstWord(h, c) == ONE                          \* mutant
might_be_tcache(h, c) == IF version = "2.29" /\ In(c, h.tc) THEN TCACHE ELSE ONE

(* A tcache is last in, first out.                                         *)
AllMatchInOrder(buffers1, buffers2) == buffers1 = buffers2     \* mutant
AllMatch(buffers1, buffers2) == buffers1 = Reverse(buffers2)

(* barrier1, buffers1, barrier2 and buffers2 are one sequence of pointers. *)
barrier1(ptrs) == SubSeq(ptrs, 1, TEST_SIZE_TCACHEBIN)
buffers1(ptrs) == SubSeq(ptrs, TEST_SIZE_TCACHEBIN + 1, 2 * TEST_SIZE_TCACHEBIN)
barrier2(ptrs) == ptrs[2 * TEST_SIZE_TCACHEBIN + 1]
buffers2(ptrs) == SubSeq(ptrs, 2 * TEST_SIZE_TCACHEBIN + 2, Len(ptrs))

Compared(freed, g) ==
  [heap |-> FreeAll(g.heap, buffers2(g.ptrs) \o barrier1(g.ptrs) \o <<barrier2(g.ptrs)>>),
   present |-> IF AllMatch(buffers1(g.ptrs), buffers2(g.ptrs))
               THEN might_be_tcache(freed, buffers1(g.ptrs)[1]) ELSE NULL]
Refilled(g) ==
  Compared(g.heap, MallocAll(g, <<TEST_SIZE_BARRIER>>
                                \o Times(TEST_SIZE_TCACHEBIN, TEST_SIZE_TCACHEMALLOC)))
Freed(g) == [g EXCEPT !.heap = FreeAll(@, buffers1(g.ptrs))]
test_tcache(h) ==
  Refilled(Freed(MallocAll(Start(h), Times(2 * TEST_SIZE_TCACHEBIN, TEST_SIZE_TCACHEMALLOC))))

(* GLIBC_INFO: only from 2.26 on there is a tcache to test for, and before *)
(* 2.28 the word found is not taken for a pointer.                         *)
Read(t) == IF version = "2.26" /\ t.present # NULL THEN [t EXCEPT !.present = ONE] ELSE t
GLIBC_INFO(h) ==
  IF version = "2.24" THEN [heap |-> h, present |-> NULL] ELSE Read(test_tcache(h))

Init ==
  /\ version \in Versions /\ patched \in BOOLEAN
  /\ heap \in {EmptyHeap(count, trims) :
                 count \in IF version = "2.24" THEN {0} ELSE TcacheCounts, trims \in BOOLEAN}
  /\ live = {} /\ kept = {} /\ phase = "early" /\ nearly = 0
  /\ tcache_present = NULL /\ tcache = NULL /\ a = NULL /\ ptr_a_fd = ELSEWHERE
  /\ arena = ELSEWHERE /\ refs = ELSEWHERE

(* Calls before the constructor go straight to glibc.                      *)
EarlyMalloc(n) ==
  /\ phase = "early" /\ nearly < MaxEarly
  /\ \E m \in {Malloc(heap, n)} : heap' = m.heap /\ live' = live \cup {m.ptr}
  /\ nearly' = nearly + 1
  /\ UNCHANGED <<version, patched, phase, tcache_present, a, ptr_a_fd, arena, refs, tcache, kept>>

EarlyFree(c) ==
  /\ phase = "early"
  /\ heap' = Free(heap, c) /\ live' = live \ {c}
  /\ UNCHANGED <<version, patched, phase, tcache_present, a, ptr_a_fd, arena, refs, tcache, kept, nearly>>

get_arenainfo ==
  /\ phase = "early"
  /\ IF version = "other"
     THEN phase' = "aborted" /\ UNCHANGED <<heap, tcache_present>>
     ELSE \E info \in {GLIBC_INFO(heap)} :
            /\ heap' = info.heap /\ tcache_present' = info.present
            /\ phase' = "leak_arena"
  /\ UNCHANGED <<live, version, patched, a, ptr_a_fd, arena, refs, tcache, kept, nearly>>

-----------------------------------------------------------------------------
(* The word at chunk c where a free chunk has its forward link: the next   *)
(* chunk of its list, or at the end NULL (tcache, fastbins) or the bin.    *)
BinAt(n) == [bin |-> n]
After(list, c, end) ==
  LET i == CHOOSE j \in DOMAIN list : list[j] = c
  IN IF i = Len(list) THEN end ELSE [chunk |-> list[i + 1]]
fd(h, c) ==
  LET n == h.size[c]
  IN CASE In(c, h.tc) -> After(OfSize(h, h.tc, n), c, NULL)
       [] In(c, h.fast) -> After(OfSize(h, h.fast, n), c, NULL)
       [] In(c, h.us) -> After(h.us, c, BinAt(1))
       [] In(c, h.sorted) -> After(OfSize(h, h.sorted, n), c, BinAt(n))

fillersNever == <<>>                                           \* mutant
fillers ==
  IF tcache_present = NULL THEN <<>> ELSE Times(TEST_SIZE_TCACHEBIN, TEST_SIZE_LEAK)

(* Chunks that a joined have it inside them: then the link it had as it    *)
(* was freed is still there.                                               *)
LinkRead(freed, sorted, c) ==
  IF c \in DOMAIN sorted.size \ InUse(sorted) THEN fd(sorted, c)
  ELSE IF c \in DOMAIN freed.size THEN fd(freed, c) ELSE ELSEWHERE

(* The pointers are barrier1, two chunks and a between them, the fillers.  *)
leak_arena ==
  /\ phase = "leak_arena" /\ phase' = "arena_info"
  /\ \E g \in {MallocAll(Start(heap), <<TEST_SIZE_BARRIER>> \o Times(3, TEST_SIZE_LEAK)
                                      \o fillers)} :
     \E freed \in {FreeAll(g.heap, SubSeq(g.ptrs, 5, Len(g.ptrs)) \o <<g.ptrs[3]>>)} :
     \E barrier3 \in {Malloc(freed, TEST_SIZE_BARRIER)} :
       /\ a' = g.ptrs[3]
       /\ ptr_a_fd' = LinkRead(freed, barrier3.heap, g.ptrs[3])
       /\ heap' = FreeAll(barrier3.heap, <<g.ptrs[2], g.ptrs[4], barrier3.ptr, g.ptrs[1]>>)
  /\ UNCHANGED <<live, version, patched, tcache_present, arena, refs, tcache, kept, nearly>>

(* From the address of a bin the candidate is as far from the arena as the *)
(* bin is from bin 2; from any other address it is outside of it.          *)
IsBin(link) == link \in [bin : Nat]
candidate == IF IsBin(ptr_a_fd) THEN ptr_a_fd.bin - 2 ELSE ELSEWHERE

(* The value 1 is no pointer: then the patched mallopt() is asked, and     *)
(* that of any other libc does not know the question.  Either way it first *)
(* consolidates the heap.                                                  *)
tcache_structAnyTrue(present) == present                       \* mutant
tcache_structAnyWord(present) ==                               \* mutant
  IF present # NULL THEN TCACHE ELSE NULL
tcache_struct(present) ==
  IF present # ONE THEN present ELSE IF patched /\ HasTcache THEN TCACHE ELSE NULL

(* A link that is NULL makes checkVal 0 (line 219: arena and offset add up *)
(* to the link again), so that neither test reads through it.  Otherwise   *)
(* arena->next leads back to the only arena, and the second test reads it  *)
(* two units further down through next_free, whose place in the struct it  *)
(* has from 2.26 on.  The tcache test runs once more, in the conversion    *)
(* of the HookInfo to a GLIBC_INFO.                                        *)
ARENA_INFO ==
  /\ phase = "arena_info"
  /\ \E new \in {Malloc(heap, SIZEOF_ARENA_INFO)} : \E info \in {GLIBC_INFO(new.heap)} :
       /\ heap' = IF info.present = ONE THEN malloc_consolidate(info.heap) ELSE info.heap
       /\ tcache_present' = info.present
       /\ kept' = kept \cup {new.ptr}
       /\ tcache' = tcache_struct(info.present)
  /\ refs' = candidate
  /\ IF candidate = 0 \/ (candidate = 2 /\ version # "2.24")
     THEN arena' = 0 /\ phase' = "clean"
     ELSE arena' = ELSEWHERE /\ phase' = "aborted"
  /\ UNCHANGED <<live, version, patched, a, ptr_a_fd, nearly>>

CleanSizesSix ==                                               \* mutant
  <<4180, 80, 784>> \o Times(6, 16) \o Times(7, 256) \o <<1024>>
CleanSizes == <<4180, 80, 784>> \o Times(7, 16) \o Times(7, 256) \o <<1024>>

cleanHeap ==
  /\ phase = "clean" /\ phase' = "ready"
  /\ \E g \in {MallocAll(Start(heap), [i \in DOMAIN CleanSizes |-> request2units(CleanSizes[i])])} :
       heap' = g.heap /\ kept' = kept \cup ToSet(g.ptrs)
  /\ UNCHANGED <<live, version, patched, tcache_present, a, ptr_a_fd, arena, refs, tcache, nearly>>

Finished == phase \in {"ready", "aborted"} /\ UNCHANGED vars

Next ==
  \/ \E n \in EarlySizes : EarlyMalloc(n)
  \/ \E c \in live : EarlyFree(c)
  \/ get_arenainfo
  \/ leak_arena
  \/ ARENA_INFO
  \/ cleanHeap
  \/ Finished

Spec == Init /\ [][Next]_vars

-----------------------------------------------------------------------------
(* Every chunk ShadowHeap or the application holds is in use in the heap.  *)
TypeOK ==
  /\ DOMAIN heap.size \subseteq Nat /\ live \cup kept \subseteq InUse(heap)
  /\ phase \in {"early", "leak_arena", "arena_info", "clean", "ready", "aborted"}
  /\ tcache_present \in {NULL, ONE, TCACHE} /\ tcache \in {NULL, TCACHE}
  /\ arena \in {0, ELSEWHERE} /\ nearly \in 0..MaxEarly

(* While no more chunks were freed than a tcache bin takes, every free     *)
(* chunk is in the tcache, if there is one.                                *)
FreedEarly == nearly - Cardinality(live)
OnlyTcacheHoldsFree == EarlySizes \subseteq 1..MAX_TCACHE /\ FreedEarly <= heap.tcache_count

(* What the code takes for the structures of the arena are those           *)
(* structures, whatever was freed before.  It aborts on a glibc it does    *)
(* not know and, on others, only where the bins of the tcache have another *)
(* size than the probes assume (more: leak.cxx:141; fewer: leak.cxx:106)   *)
(* or the free chunks are not all in the tcache; so never in a process     *)
(* that made no calls before and has no tcache or the usual one.           *)
ProbeSucceeds ==
  /\ phase \in {"clean", "ready"} => arena = 0 /\ refs = 0
  /\ phase = "aborted" /\ version # "other" =>
       IF HasTcache THEN heap.tcache_count # TEST_SIZE_TCACHEBIN \/ ~OnlyTcacheHoldsFree
       ELSE FreedEarly > 0

(* "Check if a tcache exists" (leak.cxx:55): the order in which freed      *)
(* chunks come back tells a tcache from the fastbins and the small bins.   *)
(* Both tests, the one before leak_arena and the one after it, get it      *)
(* right: a tcache whose bins the test fills is seen while all that was    *)
(* freed before is in it, and where there is none, none is seen while      *)
(* fewer chunks were freed than the test compares.                         *)
TcacheAnswerRight ==
  phase \notin {"early", "aborted"} =>
    /\ HasTcache /\ heap.tcache_count >= TEST_SIZE_TCACHEBIN /\ OnlyTcacheHoldsFree
         => tcache_present # NULL
    /\ ~HasTcache /\ FreedEarly < TEST_SIZE_TCACHEBIN => tcache_present = NULL

(* The tcache snapshots never read a tcache struct where there is none or  *)
(* nothing tells where it is, whatever the tcache test has answered.       *)
TcacheStructReal == tcache = TCACHE => HasTcache /\ (patched \/ version = "2.29")

(* They do have a struct to read where there is a tcache of the usual size *)
(* with all that was freed before in it, and the key or the patched libc   *)
(* tells where it is.                                                      *)
TcacheStructFound ==
  phase = "ready" /\ HasTcache /\ OnlyTcacheHoldsFree /\ (patched \/ version = "2.29")
    => tcache = TCACHE

(* The probes give back all they allocate, but for the result and for what *)
(* cleanHeap holds on purpose.                                             *)
ProbesKeepNothing == InUse(heap) = live \cup kept

(* cleanHeap "removes leftover chunks from leak process" (leak.h:128): in  *)
(* a process that made no earlier calls the tcache and the fastbins are    *)
(* empty when the application starts.                                      *)
LeftoversRemoved ==
  phase = "ready" /\ nearly = 0 => heap.tc = <<>> /\ heap.fast = <<>>

(* leak.cxx:55 "Check if a tcache exists. If not: return null. If it       *)
(* exists, return the word": of every process.                             *)
TcacheAnswerAlwaysRight ==
  phase \notin {"early", "aborted"} => (tcache_present # NULL) = HasTcache

(* leak.cxx:151 "This should sort our freed chunk a into smallbins[0]",    *)
(* where its link is the address of that bin.                              *)
SortedIntoSmallbin0 ==
  phase \notin {"early", "leak_arena"} /\ version # "other" => ptr_a_fd = BinAt(MINSIZE)

(* leak.cxx:141 "tcache (if present) is full and therefore a will go to    *)
(* the unsorted_bin", and from there to a bin.                             *)
AWentPastTcache == phase = "arena_info" /\ HasTcache => IsBin(ptr_a_fd)

(* leak.cxx:35 "Starting with 2.28, tcache entries have a key that lets us *)
(* leak tcache easily."                                                    *)
TcacheLeakedFrom228 ==
  phase = "ready" /\ HasTcache /\ version \in {"2.28", "2.29"} => tcache = TCACHE
=============================================================================
