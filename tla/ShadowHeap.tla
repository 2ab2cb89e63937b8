----------------------------- MODULE ShadowHeap -----------------------------
(***************************************************************************)
(* ShadowHeap between one application thread and glibc: the wrapper that   *)
(* replaces malloc, calloc, realloc and free (ShadowHeapWrapper), the      *)
(* facade that takes and verifies snapshots around every call into glibc   *)
(* (ShadowHeapFacade) and the snapshots themselves (ShadowHeapData).  The  *)
(* library is not thread safe, so one API call is one step.  The steps of  *)
(* the application are its calls and the memory errors it commits between  *)
(* them: a stray write to allocator metadata, a free() of what it does not *)
(* own.                                                                    *)
(***************************************************************************)
EXTENDS GlibcHeap, MetaStore, FiniteSets

CONSTANTS
  USB_ENTRIES_MAX,               \* unsorted chunks that are snapshotted
  TCA_BIN_SIZE,                  \* chunks that are snapshotted per tcache bin
  ptrMode, topMode, usbMode, tcaMode, leakMode,    \* the SHADOWHEAP_* modes
  MallocMayFail,                 \* may glibc run out of memory?
  EarlyCalls,                    \* is malloc used before the constructor ran?
  BadFrees,                      \* does the application free what it lacks?
  MaxWrites                      \* bound: stray writes per run

ASSUME ShadowAssumption ==
  /\ USB_ENTRIES_MAX \in Nat \ {0} /\ TCA_BIN_SIZE \in Nat \ {0}
  /\ {ptrMode, topMode, usbMode, tcaMode, leakMode} \subseteq BOOLEAN
  /\ {MallocMayFail, EarlyCalls, BadFrees} \subseteq BOOLEAN
  /\ MaxWrites \in Nat

VARIABLES
  heap,                          \* glibc's heap, see GlibcHeap
  initialized,                   \* ShadowHeapFacade::isInitialized
  store,                         \* data.store, see MetaStore
  topchunksize,                  \* data.topchunksize
  unsorted,                      \* data.unsorted[0 .. unsorted_size - 1]
  tcache,                        \* data.tcache
  tcacheHasData,                 \* data.tcacheHasData
  status,                        \* how the process is doing
  owned,                         \* the chunks the application holds
  early,                         \* those it got before the constructor ran
  written,                       \* history: the metadata overwritten by it
  badFree,                       \* history: has it freed what it lacks?
  fresh,                         \* history: snapshots taken after the last
                                 \* call that went through glibc
  freeing                        \* history: the chunk whose free() ended the
                                 \* process, after the checks on snapshots

snapshots == <<topchunksize, unsorted, tcache, tcacheHasData>>
vars == <<heap, initialized, store, topchunksize, unsorted, tcache,
          tcacheHasData, status, owned, early, written, badFree, fresh, freeing>>

tcaActive == tcaMode /\ leakMode

-----------------------------------------------------------------------------
(* Snapshots.                                                              *)

LinkMeta(h, n) ==
  [ptr |-> n, chunksize |-> chunksize(h.hdr[n].size),
   fd |-> h.hdr[n].fd, bk |-> h.hdr[n].bk]

TcacheMeta(h, p) ==
  [orig_ptr |-> p, size |-> chunksize(h.hdr[p].size), next |-> h.hdr[p].fd]

EmptyBucket == [orig_ptr |-> NULL, size |-> 0, next |-> NULL]

(* The paths a loop over the unsorted ring can take, and the one it takes: *)
(* *unsorted_bin is the bin's fd, so the walk starts at the first chunk    *)
(* (at the bin itself if it is empty) and goes along fd until the ring     *)
(* closes, with the bin as its last node, or the snapshot is full.         *)
UnsortedPathsOneMore ==                                           \* mutant
  UNION {[1..n -> Node] : n \in 1..USB_ENTRIES_MAX + 1}
UnsortedPaths == UNION {[1..n -> Node] : n \in 1..USB_ENTRIES_MAX}
unsorted_start(h) == h.hdr[BIN].fd
IsUnsortedWalk(h, w) ==
  /\ w[1] = unsorted_start(h)
  /\ \A i \in 1..Len(w) - 1 : h.hdr[w[i]].fd # w[1] /\ w[i + 1] = h.hdr[w[i]].fd
  /\ h.hdr[w[Len(w)]].fd = w[1] \/ Len(w) = USB_ENTRIES_MAX

(* A tcache bin that is empty, or counted as empty, is skipped: <<>>.      *)
TcachePaths == UNION {[1..n -> Ptr] : n \in 0..TCA_BIN_SIZE}
tcacheUsed(h, t) == entries(h, t) # NULL /\ counts(h, t) > 0
IsTcacheWalk(h, t, w) ==
  IF ~tcacheUsed(h, t) THEN w = <<>>
  ELSE /\ w # <<>> /\ w[1] = entries(h, t)
       /\ \A i \in 1..Len(w) - 1 :
            h.hdr[w[i]].fd # NULL /\ w[i + 1] = h.hdr[w[i]].fd
       /\ h.hdr[w[Len(w)]].fd = NULL \/ Len(w) = TCA_BIN_SIZE

store_topchunk(h) == topchunksize' = IF topMode THEN h.top ELSE topchunksize

store_unsorted(h) ==
  IF usbMode
  THEN \E w \in UnsortedPaths :
         /\ IsUnsortedWalk(h, w)
         /\ unsorted' = [i \in 1..Len(w) |-> LinkMeta(h, w[i])]
  ELSE UNCHANGED unsorted

(* Buckets past the end of a walk keep what an earlier call stored.  Every *)
(* store_tcache() follows a check_tcache() that left tcacheHasData FALSE.  *)
store_tcache(h) ==
  IF tcaActive
  THEN \E ws \in [TcIdx -> TcachePaths] :
         /\ \A t \in TcIdx : IsTcacheWalk(h, t, ws[t])
         /\ tcache' = [t \in TcIdx |-> [b \in 1..TCA_BIN_SIZE |->
                         IF b <= Len(ws[t]) THEN TcacheMeta(h, ws[t][b])
                                            ELSE tcache[t][b]]]
         /\ tcacheHasData' = (\E t \in TcIdx : ws[t] # <<>>)
  ELSE UNCHANGED <<tcache, tcacheHasData>>

take_snapshots(h) == store_tcache(h) /\ store_unsorted(h) /\ store_topchunk(h)

-----------------------------------------------------------------------------
(* Verification: the three checks every call begins with, on the memory as *)
(* the application left it, and the one a chunk passes before it is freed. *)

check_topchunk == topMode /\ topchunksize # 0 => topchunksize = heap.top

(* The loop starts where the bin points now.  Node i is compared before    *)
(* its fd is followed, so the stored fd of node i is where the loop looks  *)
(* for node i + 1.                                                         *)
check_unsortedAllButLast ==                                       \* mutant
  usbMode /\ unsorted # <<>> =>
    \A i \in 1..Len(unsorted) - 1 : unsorted[i] = LinkMeta(heap, unsorted[i].ptr)
check_unsorted ==
  usbMode /\ unsorted # <<>> =>
    /\ unsorted_start(heap) \in Node
    /\ unsorted[1] = LinkMeta(heap, unsorted_start(heap))
    /\ \A i \in 1..Len(unsorted) - 1 :
         /\ unsorted[i].fd \in Node
         /\ unsorted[i + 1] = LinkMeta(heap, unsorted[i].fd)

bucket_ok(b, p) == p \in Ptr /\ b = TcacheMeta(heap, p)

check_tcacheHeadsOnly ==                                          \* mutant
  tcaActive /\ tcacheHasData =>
    \A t \in TcIdx : tcacheUsed(heap, t) => bucket_ok(tcache[t][1], entries(heap, t))
(* The loop stops at the first bucket without a successor.                 *)
check_tcache ==
  tcaActive /\ tcacheHasData =>
    \A t \in TcIdx : tcacheUsed(heap, t) =>
      \E n \in 1..TCA_BIN_SIZE :
        /\ bucket_ok(tcache[t][1], entries(heap, t))
        /\ \A b \in 1..n - 1 : /\ tcache[t][b].next # NULL
                               /\ bucket_ok(tcache[t][b + 1], tcache[t][b].next)
        /\ n = TCA_BIN_SIZE \/ tcache[t][n].next = NULL

pre_checks == initialized => check_topchunk /\ check_unsorted /\ check_tcache

(* The first node is read before anything is compared: if the bin points   *)
(* nowhere, the check itself faults.                                       *)
check_faults ==
  /\ initialized /\ usbMode /\ unsorted # <<>>
  /\ check_topchunk /\ unsorted_start(heap) = NULL

header_meta(p) == [ptr |-> p, size |-> heap.hdr[p].size]

check_pointer_before_freeIsStored(p) ==                           \* mutant
  initialized /\ ptrMode => p \in DOMAIN store
check_pointer_before_free(p) ==
  initialized /\ ptrMode =>
    /\ equals_ptr_size(StoreGet(store, p), header_meta(p))
    /\ RemoveOk(store, header_meta(p))

-----------------------------------------------------------------------------
(* What glibc finds when it is called.  It goes on only if its free        *)
(* memory, the arena and the tcache struct are as it left them and, to     *)
(* free p, the header of p is.  Any other damage, as in the header of a    *)
(* chunk in use beside the one it works on, it may trip over or not.       *)

FreeMemoryIntact == \A w \in written : w[1] \in heap.live
ChunkIntact(p) == \A w \in written : w[1] # p
AnyDamage == written # {}

(* The process ends here: a failed check raises SIGILL, glibc works on     *)
(* metadata that is not its own, or an access faults.                      *)
Stop(how) ==
  /\ status' = how
  /\ UNCHANGED <<heap, initialized, store, snapshots, owned, early, written, fresh>>
StopCalling(how) == Stop(how) /\ freeing' = {}
StopFreeing(p, how) == Stop(how) /\ freeing' = {p}

StopAtChecks == ~pre_checks /\ StopCalling(IF check_faults THEN "segv" ELSE "trapped")

Calling == status = "running" /\ (initialized \/ EarlyCalls)

-----------------------------------------------------------------------------
Init ==
  /\ heap \in InitialHeaps
  /\ initialized = FALSE
  /\ store = EmptyStore
  /\ topchunksize = 0
  /\ unsorted = <<>>
  /\ tcache = [t \in TcIdx |-> [b \in 1..TCA_BIN_SIZE |-> EmptyBucket]]
  /\ tcacheHasData = FALSE
  /\ status = "running"
  /\ owned = {}
  /\ early = {}
  /\ written = {}
  /\ badFree = FALSE
  /\ fresh = FALSE
  /\ freeing = {}

(* The constructor: reserving the store and probing the arena allocate and *)
(* free; no snapshot is taken.                                             *)
ensure_initialized ==
  /\ status = "running" /\ ~initialized
  /\ heap' \in Rearranged(heap, heap.live)
  /\ initialized' = TRUE
  /\ UNCHANGED <<store, snapshots, status, owned, early, written, badFree, fresh, freeing>>

(* put() may allocate memory of its own.  h is the heap after that; the    *)
(* size field that is stored was read before, with the flags of then.      *)
store_pointer(h, p) ==
  IF ptrMode
  THEN \E z \in RawSizes :
         /\ chunksize(z) = chunksize(h.hdr[p].size)
         /\ store' = StorePut(store, [ptr |-> p, size |-> z])
  ELSE UNCHANGED store

malloc_postSnapshotFirst(h, p) ==                                 \* mutant
  IF initialized
  THEN store_pointer(h, p) /\ \E h0 \in Rearranged(heap, h.live) : take_snapshots(h0)
  ELSE UNCHANGED <<store, snapshots>>
malloc_post(h, p) ==
  IF initialized THEN store_pointer(h, p) /\ take_snapshots(h)
                 ELSE UNCHANGED <<store, snapshots>>

(* malloc() and calloc(), which do the same but for the call into glibc. A *)
(* NULL answer is returned without snapshots.                              *)
AllocateSucceeds ==
  \E p \in Ptr \ heap.live : \E h \in Rearranged(heap, heap.live \cup {p}) :
    /\ heap' = h
    /\ malloc_post(h, p)
    /\ owned' = owned \cup {p}
    /\ early' = IF initialized THEN early ELSE early \cup {p}
    /\ fresh' = initialized

AllocateFails ==
  /\ MallocMayFail
  /\ heap' \in Rearranged(heap, heap.live)
  /\ tcacheHasData' = (tcacheHasData /\ ~(initialized /\ tcaActive))
  /\ fresh' = FALSE
  /\ UNCHANGED <<store, topchunksize, unsorted, tcache, owned, early>>

Allocate ==
  /\ Calling
  /\ UNCHANGED badFree
  /\ \/ StopAtChecks
     \/ pre_checks /\ AnyDamage /\ StopCalling("undefined")
     \/ /\ pre_checks /\ FreeMemoryIntact
        /\ AllocateSucceeds \/ AllocateFails
        /\ UNCHANGED <<initialized, status, written, freeing>>

(* free(p) for p # NULL; free(NULL) does nothing.                          *)
free(p) ==
  /\ Calling
  /\ p \in owned \/ BadFrees
  /\ badFree' = (badFree \/ p \notin owned)
  /\ \/ StopAtChecks
     \/ pre_checks /\ ~check_pointer_before_free(p) /\ StopFreeing(p, "trapped")
     \/ /\ pre_checks /\ check_pointer_before_free(p)
        /\ AnyDamage \/ p \notin heap.live
        /\ StopFreeing(p, "undefined")
     \/ /\ pre_checks /\ check_pointer_before_free(p)
        /\ FreeMemoryIntact /\ p \in heap.live /\ ChunkIntact(p)
        /\ \E h \in Rearranged(heap, heap.live \ {p}) :
             /\ heap' = h
             /\ IF initialized THEN take_snapshots(h) ELSE UNCHANGED snapshots
        /\ store' = IF initialized /\ ptrMode
                    THEN StoreRemove(store, header_meta(p)) ELSE store
        /\ owned' = owned \ {p}
        /\ early' = early \ {p}
        /\ fresh' = initialized
        /\ UNCHANGED <<initialized, status, written, freeing>>

(* realloc(p, len) for p # NULL and len # 0; otherwise it is malloc(len)   *)
(* or free(p).  A new chunk q is allocated and stored, the data is copied, *)
(* then p is verified and freed; before initialization p is not freed.     *)
ReallocFreesNever(p) == {}                                        \* mutant
ReallocFrees(p) == IF initialized THEN {p} ELSE {}

MoveTo(p, q) ==
  \E h \in Rearranged(heap, (heap.live \cup {q}) \ ReallocFrees(p)) :
    /\ heap' = h
    /\ IF initialized THEN take_snapshots(h) ELSE UNCHANGED snapshots
    /\ IF initialized /\ ptrMode
       THEN \E z \in RawSizes :
              LET put == StorePut(store, [ptr |-> q, size |-> z])
              IN /\ chunksize(z) = chunksize(h.hdr[q].size)
                 /\ store' = StoreRemove(put, header_meta(p))
       ELSE UNCHANGED store
    /\ owned' = (owned \ {p}) \cup {q}
    /\ early' = (early \ {p}) \cup (IF initialized THEN {} ELSE {q})
    /\ fresh' = initialized

realloc(p) ==
  /\ Calling
  /\ p \in owned
  /\ UNCHANGED badFree
  /\ \/ StopAtChecks
     \/ pre_checks /\ AnyDamage /\ StopCalling("undefined")
     \/ pre_checks /\ FreeMemoryIntact /\ MallocMayFail /\ StopCalling("segv")
     \/ \E q \in Ptr \ heap.live :
          /\ pre_checks /\ FreeMemoryIntact
          /\ \/ ~ChunkIntact(p) /\ StopCalling("segv")
             \/ ~check_pointer_before_free(p) /\ StopFreeing(p, "trapped")
             \/ /\ check_pointer_before_free(p) /\ AnyDamage
                /\ StopFreeing(p, "undefined")
             \/ /\ check_pointer_before_free(p) /\ ChunkIntact(p)
                /\ MoveTo(p, q)
                /\ UNCHANGED <<initialized, status, written, freeing>>

(* A memory error of the application: one word of allocator metadata gets  *)
(* another value.  "size" changes the chunk size, "flags" only the flags.  *)
(* The words are those of the chunk headers and of the unsorted bin, ...   *)
WriteNode(n, field) ==
  \/ /\ field \in {"size", "flags"}
     /\ \E z \in RawSizes \ {heap.hdr[n].size} :
          /\ (field = "flags") <=> (chunksize(z) = chunksize(heap.hdr[n].size))
          /\ heap' = [heap EXCEPT !.hdr[n].size = z]
  \/ /\ field = "fd" /\ n \notin heap.live
     /\ \E x \in Link \ {heap.hdr[n].fd} : heap' = [heap EXCEPT !.hdr[n].fd = x]
  \/ /\ field = "bk" /\ n \notin heap.live
     /\ \E x \in Link \ {heap.hdr[n].bk} : heap' = [heap EXCEPT !.hdr[n].bk = x]

(* ... the size of the top chunk and the arena's pointer to it, which then *)
(* leads to any other word and no longer to that size, ...                 *)
WriteTop(field) ==
  \/ /\ field = "size" /\ <<TOP, "ptr">> \notin written
     /\ \E z \in TopSizes \ {heap.top} : heap' = [heap EXCEPT !.top = z]
  \/ field = "size" /\ <<TOP, "ptr">> \in written /\ UNCHANGED heap
  \/ field = "ptr" /\ \E z \in TopSizes : heap' = [heap EXCEPT !.top = z]

(* ... and the heads and counts of the tcache bins, of which a count only  *)
(* matters for being 0 or not.                                             *)
WriteBin(t, field) ==
  \/ /\ field = "entries"
     /\ \E x \in Link \ {entries(heap, t)} : heap' = [heap EXCEPT !.entries[t] = x]
  \/ /\ field = "counts"
     /\ \E k \in {0, 1} \ {counts(heap, t)} : heap' = [heap EXCEPT !.counts[t] = k]

Places == Node \cup {TOP} \cup TcIdx
Fields == {"size", "flags", "fd", "bk", "ptr", "entries", "counts"}

StrayWrite(n, field) ==
  /\ status = "running" /\ initialized
  /\ Cardinality(written) < MaxWrites /\ <<n, field>> \notin written
  /\ \/ n \in Node /\ WriteNode(n, field)
     \/ n = TOP /\ WriteTop(field)
     \/ n \in TcIdx /\ WriteBin(n, field)
  /\ written' = written \cup {<<n, field>>}
  /\ UNCHANGED <<initialized, store, snapshots, status, owned, early, badFree, fresh, freeing>>

Stopped == status # "running" /\ UNCHANGED vars

Next ==
  \/ ensure_initialized
  \/ Allocate
  \/ \E p \in Ptr : free(p)
  \/ \E p \in Ptr : realloc(p)
  \/ \E n \in Places, field \in Fields : StrayWrite(n, field)
  \/ Stopped

Spec == Init /\ [][Next]_vars

-----------------------------------------------------------------------------
Bucket == [orig_ptr : Ptr \cup {NULL}, size : Nat, next : Link]

TypeOK ==
  /\ heap \in Heap
  /\ initialized \in BOOLEAN
  /\ DOMAIN store \subseteq Ptr /\ \A p \in DOMAIN store : store[p] \in Nat
  /\ topchunksize \in Nat
  /\ Len(unsorted) <= USB_ENTRIES_MAX
  /\ unsorted \in Seq([ptr : Node, chunksize : Nat, fd : Link, bk : Link])
  /\ tcache \in [TcIdx -> [1..TCA_BIN_SIZE -> Bucket]]
  /\ tcacheHasData \in BOOLEAN
  /\ status \in {"running", "trapped", "undefined", "segv"}
  /\ early \subseteq owned /\ owned \subseteq Ptr
  /\ written \subseteq Places \X Fields
  /\ badFree \in BOOLEAN
  /\ fresh \in BOOLEAN
  /\ freeing \subseteq Ptr

(* No false alarm: a legal program without memory errors is never stopped  *)
(* by a check, whatever glibc does with its free memory in a call.         *)
AlarmOnlyOnError == status = "trapped" => written # {} \/ badFree

(* With failing allocations and calls before the constructor ran, the only *)
(* alarms that are not the application's fault are a check against the     *)
(* snapshots from before a failed allocation, and that of a chunk which is *)
(* from before the constructor and is now passed to free() or realloc().   *)
AlarmExplained ==
  status = "trapped" => \/ written # {} \/ badFree
                        \/ ~fresh /\ freeing = {}
                        \/ ptrMode /\ freeing # {} /\ freeing \subseteq early

(* The facade reports damage before glibc can work on it: the first call   *)
(* after a call that was snapshotted ends the process if a word is damaged *)
(* that the enabled modes cover.  (A check that faults on a pointer to     *)
(* nowhere ends it just as early.)  What is covered is the first chunks of *)
(* each list.  The unsorted bin is covered with its head.  The arena's     *)
(* pointer to the top chunk is not, nor are the head and count of a tcache *)
(* bin that says it is empty, so damage behind these is not.               *)
FirstOf(s, n) == {s[i] : i \in {j \in DOMAIN s : j <= n}}
TopCovered == IF <<TOP, "ptr">> \in written THEN {} ELSE {<<TOP, "size">>}
UnsortedCovered ==
  {<<BIN, "fd">>} \cup FirstOf(heap.us \o <<BIN>>, USB_ENTRIES_MAX) \X {"size", "fd", "bk"}
BinCovered(t) == {<<t, "entries">>} \cup FirstOf(heap.tc[t], TCA_BIN_SIZE) \X {"size", "fd"}
Covered ==
  (IF topMode THEN TopCovered ELSE {})
    \cup (IF usbMode THEN UnsortedCovered ELSE {})
    \cup (IF tcaActive
          THEN UNION {BinCovered(t) : t \in {u \in TcIdx : heap.tc[u] # <<>> /\ tcacheUsed(heap, u)}}
          ELSE {})

DamageCaughtAtNextCall ==
  [][status = "running" /\ fresh /\ written \cap Covered # {} /\ written' = written
       => status' \in {"trapped", "segv"}]_vars

(* How it would be if the counts of the tcache could not be "manipulated"  *)
(* (ShadowHeapFacade.h:158): the first chunks glibc has put in a tcache    *)
(* bin are covered, whatever the bin says of itself now.                   *)
ListedDamageCaughtAtNextCall ==
  [][/\ status = "running" /\ fresh /\ tcaActive /\ written' = written
     /\ \E t \in TcIdx :
          written \cap FirstOf(heap.tc[t], TCA_BIN_SIZE) \X {"size", "fd"} # {}
       => status' \in {"trapped", "segv"}]_vars

(* Whatever glibc trips over in its free(): with ptrMode it was asked to   *)
(* free a chunk the application got after the constructor and has not      *)
(* freed, whose chunk size is what it was when it was handed out.          *)
FreesAreVerified ==
  status = "undefined" /\ initialized /\ ptrMode =>
    \A p \in freeing : p \in (owned \ early) \cap heap.live /\ <<p, "size">> \notin written

(* A wrong free() ends the program at once.                                *)
BadFreeCaught ==
  [][initialized /\ ptrMode /\ badFree' /\ ~badFree
       => status' \in {"trapped", "segv"}]_vars

(* The store knows exactly the chunks handed out since initialization, at  *)
(* their true size: put(), remove() and the checks never drift apart.      *)
StoreTracksLive ==
  status = "running" /\ initialized /\ ptrMode =>
    /\ DOMAIN store = owned \ early
    /\ \A p \in DOMAIN store : <<p, "size">> \notin written =>
         chunksize(store[p]) = chunksize(heap.hdr[p].size)

(* realloc is "a malloc-memcpy-free approach" (ShadowHeapWrapper.h:84): no *)
(* chunk stays allocated that the application gave back.                   *)
NothingLeaks == status = "running" => heap.live = owned

(* The shadow copy holds "all in-use memory chunks" (README.md:45-46).     *)
StoreHoldsAllInUse ==
  status = "running" /\ initialized /\ ptrMode => DOMAIN store = heap.live

(* realloc copies into memory that is there ("ensure dereferenceability of *)
(* last ret byte", ShadowHeapWrapper.h:121): a fault in the wrapper needs  *)
(* overwritten metadata.                                                   *)
FaultOnlyOnError == status = "segv" => written # {}

(* The allocator that the application is promised knows of every error and *)
(* of all damage; the facade has to find out from its snapshots.           *)
Promise == INSTANCE AllocatorSpec WITH
  Verified <- ptrMode,
  held <- owned,
  state <- (IF status \in {"trapped", "segv"} THEN "stopped" ELSE status),
  faulty <- (written # {} \/ badFree),
  tainted <- (fresh /\ written \cap Covered # {})

(* Given a glibc that always has memory and no calls before the            *)
(* constructor, the wrapper keeps that promise: no chunk is handed out     *)
(* twice, no correct program is stopped, every wrong free() and all        *)
(* covered damage stop the program before glibc works on it.               *)
KeepsPromise == Promise!Spec
=============================================================================
