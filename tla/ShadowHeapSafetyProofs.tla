----------------------- MODULE ShadowHeapSafetyProofs -----------------------
(***************************************************************************)
(* Safety of ShadowHeap, for any set of chunks, any caps and any modes.    *)
(* The inductive invariant SInv ties the store to the chunks in use, the   *)
(* snapshots to the memory, and the end of the process to its cause.       *)
(***************************************************************************)
EXTENDS ShadowHeapProofs

Checks == check_topchunk /\ check_unsorted /\ check_tcache
NoSnapshots == topchunksize = 0 /\ unsorted = <<>> /\ ~tcacheHasData

-----------------------------------------------------------------------------
(* Snapshots that have just been taken of the memory match it.             *)

(* An unsorted bin that was just snapshotted passes its check.             *)
LEMMA UnsortedMatches ==
  ASSUME heap' \in Heap, usbMode, store_unsorted(heap')
  PROVE  check_unsorted'
<1>1. PICK w \in UnsortedPaths :
        /\ IsUnsortedWalk(heap', w)
        /\ unsorted' = [i \in 1..Len(w) |-> LinkMeta(heap', w[i])]
  BY DEF store_unsorted
<1>2. w \in Seq(Node) /\ Len(w) \in Nat /\ Len(w) >= 1
  BY UnsortedPathFacts
<1>3. Len(unsorted') = Len(w)
  BY <1>1, <1>2
<1>4. /\ unsorted_start(heap') \in Node
      /\ unsorted'[1] = LinkMeta(heap', unsorted_start(heap'))
  BY <1>1, <1>2 DEF IsUnsortedWalk
<1>5. ASSUME NEW i \in 1..Len(w) - 1
      PROVE  /\ unsorted'[i].fd \in Node
             /\ unsorted'[i + 1] = LinkMeta(heap', unsorted'[i].fd)
  <2>1. i \in 1..Len(w) /\ i + 1 \in 1..Len(w)
    BY <1>2
  <2>2. w[i + 1] = heap'.hdr[w[i]].fd /\ w[i + 1] \in Node
    BY <1>1, <1>2, <2>1 DEF IsUnsortedWalk
  <2>3. unsorted'[i].fd = w[i + 1]
    BY <1>1, <2>1, <2>2 DEF LinkMeta
  <2> QED
    BY <1>1, <2>1, <2>2, <2>3
<1> QED
  BY <1>3, <1>4, <1>5 DEF check_unsorted

(* Tcache bins that were just snapshotted pass their check.                *)
LEMMA TcacheMatches ==
  ASSUME heap' \in Heap, tcaActive, store_tcache(heap')
  PROVE  check_tcache'
<1>1. PICK ws \in [TcIdx -> TcachePaths] :
        /\ \A t \in TcIdx : IsTcacheWalk(heap', t, ws[t])
        /\ tcache' = [t \in TcIdx |-> [b \in 1..TCA_BIN_SIZE |->
                        IF b <= Len(ws[t]) THEN TcacheMeta(heap', ws[t][b])
                                           ELSE tcache[t][b]]]
  BY DEF store_tcache
<1> SUFFICES ASSUME NEW t \in TcIdx, tcacheUsed(heap', t)
             PROVE  \E n \in 1..TCA_BIN_SIZE :
                      /\ bucket_ok(tcache[t][1], entries(heap, t))'
                      /\ \A b \in 1..n - 1 :
                           /\ tcache'[t][b].next # NULL
                           /\ bucket_ok(tcache[t][b + 1], tcache[t][b].next)'
                      /\ n = TCA_BIN_SIZE \/ tcache'[t][n].next = NULL
  BY DEF check_tcache, tcacheUsed, entries, counts
<1> DEFINE w == ws[t]
           n == Len(w)
<1>2. w \in Seq(Ptr) /\ n \in 0..TCA_BIN_SIZE
  BY TcachePathFacts
<1>3. /\ w # <<>> /\ w[1] = entries(heap', t)
      /\ \A i \in 1..n - 1 :
           heap'.hdr[w[i]].fd # NULL /\ w[i + 1] = heap'.hdr[w[i]].fd
      /\ heap'.hdr[w[n]].fd = NULL \/ n = TCA_BIN_SIZE
  BY <1>1 DEF IsTcacheWalk
<1>4. n \in 1..TCA_BIN_SIZE /\ n \in Nat /\ TCA_BIN_SIZE \in Nat
  BY <1>2, <1>3, ShadowAssumption
<1>5. ASSUME NEW b \in 1..n
      PROVE  w[b] \in Ptr /\ tcache'[t][b] = TcacheMeta(heap', w[b])
  BY <1>1, <1>2, <1>4
<1>6. bucket_ok(tcache[t][1], entries(heap, t))'
  <2>1. w[1] \in Ptr /\ tcache'[t][1] = TcacheMeta(heap', w[1])
    BY <1>4, <1>5
  <2>2. w[1] = entries(heap', t)
    BY <1>3
  <2> QED
    BY <2>1, <2>2 DEF bucket_ok, TcacheMeta, entries
<1>7. ASSUME NEW b \in 1..n - 1
      PROVE  /\ tcache'[t][b].next # NULL
             /\ bucket_ok(tcache[t][b + 1], tcache[t][b].next)'
  <2>1. b \in 1..n /\ b + 1 \in 1..n
    BY <1>4
  <2>2. tcache'[t][b].next = heap'.hdr[w[b]].fd
    <3>1. tcache'[t][b] = TcacheMeta(heap', w[b])
      BY <1>5, <2>1
    <3> QED
      BY <3>1 DEF TcacheMeta
  <2>3. w[b + 1] = heap'.hdr[w[b]].fd /\ heap'.hdr[w[b]].fd # NULL
    BY <1>3
  <2>4. w[b + 1] \in Ptr /\ tcache'[t][b + 1] = TcacheMeta(heap', w[b + 1])
    BY <1>5, <2>1
  <2> QED
    BY <2>2, <2>3, <2>4 DEF bucket_ok, TcacheMeta
<1>8. n = TCA_BIN_SIZE \/ tcache'[t][n].next = NULL
  <2>1. tcache'[t][n] = TcacheMeta(heap', w[n])
    BY <1>4, <1>5
  <2> QED
    BY <1>3, <2>1 DEF TcacheMeta
<1> QED
  BY <1>4, <1>6, <1>7, <1>8

(* All three checks pass after take_snapshots().                           *)
LEMMA SnapshotsMatch ==
  ASSUME heap' \in Heap, take_snapshots(heap')
  PROVE  Checks'
<1>1. check_topchunk'
  BY DEF take_snapshots, store_topchunk, check_topchunk
<1>2. check_unsorted'
  BY UnsortedMatches DEF take_snapshots, check_unsorted
<1>3. check_tcache'
  BY TcacheMatches DEF take_snapshots, check_tcache, tcaActive
<1> QED
  BY <1>1, <1>2, <1>3 DEF Checks

(* All three checks pass as long as no snapshot was taken.                 *)
LEMMA NoSnapshotsPass == NoSnapshots => Checks
BY DEF NoSnapshots, Checks, check_topchunk, check_unsorted, check_tcache

-----------------------------------------------------------------------------
(* The inductive invariant.                                                *)

(* What the application holds is in use.                                   *)
OwnedInUse == owned \subseteq heap.live

(* Before the constructor nothing is stored, snapshotted or written.       *)
NotYet ==
  ~initialized => /\ written = {} /\ store = EmptyStore /\ owned = early
                  /\ NoSnapshots /\ ~fresh

SnapshotsFit == initialized /\ written = {} /\ fresh => Checks

(* An overwritten chunk size differs from the stored one, and of a stored  *)
(* chunk nothing but its size field is known to glibc.                     *)
OverwritesShow ==
  initialized /\ ptrMode =>
    \A p \in DOMAIN store, field \in Fields : <<p, field>> \in written =>
      \/ field = "flags"
      \/ field = "size" /\ chunksize(store[p]) # chunksize(heap.hdr[p].size)

(* Why a check may have failed.                                            *)
AlarmCause == \/ written # {} \/ badFree
              \/ ~fresh /\ ~NoSnapshots /\ freeing = {}
              \/ ptrMode /\ freeing # {} /\ freeing \subseteq early

SInv ==
  /\ status = "running" => OwnedInUse /\ NotYet /\ SnapshotsFit /\ OverwritesShow
  /\ StoreTracksLive
  /\ status = "trapped" => AlarmCause
  /\ FreesAreVerified

(* The initial states satisfy SInv.                                        *)
LEMMA InitSafe == Init => SInv
<1> SUFFICES ASSUME Init PROVE SInv
  OBVIOUS
<1>1. OwnedInUse /\ NotYet /\ SnapshotsFit /\ OverwritesShow
  BY DEF Init, OwnedInUse, NotYet, SnapshotsFit, OverwritesShow, NoSnapshots
<1> QED
  BY <1>1 DEF Init, SInv, StoreTracksLive, FreesAreVerified

(* Every step but Stop leaves the process running; the rest is then about  *)
(* the running process only.                                               *)
LEMMA RunningOn ==
  ASSUME status' = "running", StoreTracksLive',
         (OwnedInUse /\ NotYet /\ SnapshotsFit /\ OverwritesShow)'
  PROVE  SInv'
BY DEF SInv, FreesAreVerified

-----------------------------------------------------------------------------
(* Stopping.                                                               *)

(* If the checks on snapshots fail, the invariant names the cause.         *)
LEMMA ChecksFail ==
  ASSUME SInv, status = "running", ~pre_checks
  PROVE  written # {} \/ (~fresh /\ ~NoSnapshots)
BY NoSnapshotsPass DEF SInv, pre_checks, SnapshotsFit, Checks

(* A chunk of the application that is not from before the constructor and  *)
(* has an intact size passes its check.                                    *)
LEMMA PointerChecks ==
  ASSUME SInv, status = "running", NEW p \in owned \ early,
         <<p, "size">> \notin written
  PROVE  check_pointer_before_free(p)
BY DEF SInv, StoreTracksLive, check_pointer_before_free, header_meta, StoreGet,
       RemoveOk, equals_ptr_size

(* If the check of a pointer fails, the invariant names the cause.         *)
LEMMA PointerChecksFail ==
  ASSUME SInv, status = "running", NEW p \in Ptr, ~check_pointer_before_free(p),
         badFree' = (badFree \/ p \notin owned), StopFreeing(p, "trapped")
  PROVE  AlarmCause'
<1>1. /\ initialized /\ ptrMode /\ freeing' = {p}
      /\ UNCHANGED <<written, early>>
  BY DEF check_pointer_before_free, StopFreeing, Stop
<1>2. CASE p \notin owned
  BY <1>2 DEF AlarmCause
<1>3. CASE p \in early
  BY <1>1, <1>3 DEF AlarmCause
<1>4. CASE p \in owned \ early
  BY <1>1, <1>4, PointerChecks DEF AlarmCause
<1> QED
  BY <1>2, <1>3, <1>4

(* An alarm that has a cause keeps SInv.                                   *)
LEMMA StopTrapped ==
  ASSUME SInv, Stop("trapped"), AlarmCause'
  PROVE  SInv'
BY DEF SInv, Stop, StoreTracksLive, FreesAreVerified

(* A fault keeps SInv.                                                     *)
LEMMA StopFaulted == ASSUME SInv, Stop("segv") PROVE SInv'
BY DEF SInv, Stop, StoreTracksLive, FreesAreVerified

(* Foreign metadata keeps SInv, if the chunk to be freed was verified.     *)
LEMMA StopUndefined ==
  ASSUME SInv, Stop("undefined"),
         initialized /\ ptrMode =>
           \A p \in freeing' : /\ p \in (owned \ early) \cap heap.live
                              /\ <<p, "size">> \notin written
  PROVE  SInv'
BY DEF SInv, Stop, StoreTracksLive, FreesAreVerified

-----------------------------------------------------------------------------
(* One lemma for each call and for the application's memory errors.        *)

(* An alarm of the checks on snapshots keeps SInv.                         *)
LEMMA StopOnChecks ==
  ASSUME SInv, status = "running", StopAtChecks, badFree => badFree'
  PROVE  SInv'
<1>1. CASE StopCalling("segv")
  BY <1>1, StopFaulted DEF StopCalling
<1>2. CASE StopCalling("trapped")
  <2>1. written # {} \/ (~fresh /\ ~NoSnapshots)
    BY ChecksEnd, ChecksFail
  <2>2. AlarmCause'
    BY <1>2, <2>1 DEF AlarmCause, Stop, StopCalling, snapshots, NoSnapshots
  <2> QED
    BY <1>2, <2>2, StopTrapped DEF StopCalling
<1> QED
  BY <1>1, <1>2, ChecksEnd

(* Foreign metadata met by a call that frees nothing keeps SInv.           *)
LEMMA StopOnCall == ASSUME SInv, StopCalling("undefined") PROVE SInv'
BY StopUndefined DEF StopCalling

(* glibc keeps the size of every stored chunk that stays in use.           *)
LEMMA StoredSizesKept ==
  ASSUME SInv, status = "running", initialized, ptrMode,
         NEW live \in SUBSET Ptr, heap' \in Rearranged(heap, live),
         NEW r \in DOMAIN store, r \in live
  PROVE  chunksize(heap'.hdr[r].size) = chunksize(heap.hdr[r].size)
<1>1. r \in heap.live
  BY DEF SInv, StoreTracksLive, OwnedInUse
<1> QED
  BY <1>1, RearrangedFacts

(* malloc() and calloc() keep SInv, whether they succeed or not.           *)
LEMMA AllocateSafe == ASSUME TypeOK, SInv, Allocate PROVE SInv'
<1>0. status = "running" /\ UNCHANGED badFree
  BY DEF Allocate, Calling
<1>1. CASE StopAtChecks
  BY <1>0, <1>1, StopOnChecks
<1>2. CASE StopCalling("undefined")
  BY <1>2, StopOnCall
<1>3. CASE /\ FreeMemoryIntact /\ AllocateSucceeds
           /\ UNCHANGED <<initialized, status, written, freeing>>
  <2>0. PICK p \in Ptr \ heap.live : \E h \in Rearranged(heap, heap.live \cup {p}) :
          /\ heap' = h
          /\ malloc_post(h, p)
          /\ owned' = owned \cup {p}
          /\ early' = IF initialized THEN early ELSE early \cup {p}
          /\ fresh' = initialized
    BY <1>3 DEF AllocateSucceeds
  <2>1. /\ heap' \in Rearranged(heap, heap.live \cup {p})
        /\ malloc_post(heap', p)
        /\ owned' = owned \cup {p}
        /\ early' = IF initialized THEN early ELSE early \cup {p}
        /\ fresh' = initialized
    BY <2>0
  <2>2. heap.live \cup {p} \in SUBSET Ptr
    BY DEF TypeOK, Heap
  <2>3. heap' \in Heap /\ heap'.live = heap.live \cup {p}
    BY <2>1, <2>2, RearrangedFacts
  <2>4. OwnedInUse /\ NotYet /\ OverwritesShow /\ StoreTracksLive
    BY <1>0 DEF SInv
  <2>5. p \notin owned /\ p \notin early /\ \A field : <<p, field>> \notin written
    BY <1>3, <2>4, TypeOKParts DEF Typed, OwnedInUse, FreeMemoryIntact
  <2>6. CASE initialized
    <3>1. store_pointer(heap', p) /\ take_snapshots(heap')
      BY <2>1, <2>6 DEF malloc_post
    <3>2. Checks'
      BY <2>3, <3>1, SnapshotsMatch
    <3>3. CASE ptrMode
      <4>1. PICK z \in RawSizes :
              /\ chunksize(z) = chunksize(heap'.hdr[p].size)
              /\ store' = StorePut(store, [ptr |-> p, size |-> z])
        BY <3>1, <3>3 DEF store_pointer
      <4>2. p # NULL /\ p \notin DOMAIN store /\ DOMAIN store = owned \ early
        BY <1>0, <2>4, <2>5, <2>6, <3>3, HeapAssumption DEF StoreTracksLive
      <4>3. store' = [r \in DOMAIN store \cup {p} |-> IF r = p THEN z ELSE store[r]]
        BY <4>1, <4>2 DEF StorePut, PutOk
      <4>4. ASSUME NEW r \in DOMAIN store
            PROVE  chunksize(heap'.hdr[r].size) = chunksize(heap.hdr[r].size)
        <5>1. r \in heap.live \cup {p}
          BY <2>4, <4>2 DEF OwnedInUse
        <5> QED
          BY <1>0, <2>1, <2>2, <2>6, <3>3, <5>1, StoredSizesKept
      <4>5. StoreTracksLive'
        BY <1>0, <1>3, <2>1, <2>4, <2>5, <2>6, <3>3, <4>1, <4>2, <4>3, <4>4
           DEF StoreTracksLive
      <4>6. OverwritesShow'
        BY <1>3, <2>4, <2>5, <2>6, <3>3, <4>3, <4>4 DEF OverwritesShow
      <4> QED
        BY <1>0, <1>3, <2>1, <2>3, <2>4, <2>6, <3>2, <4>5, <4>6, RunningOn
           DEF OwnedInUse, NotYet, SnapshotsFit
    <3>4. CASE ~ptrMode
      BY <1>0, <1>3, <2>1, <2>3, <2>4, <2>6, <3>2, <3>4, RunningOn
         DEF OwnedInUse, NotYet, SnapshotsFit, OverwritesShow, StoreTracksLive
    <3> QED
      BY <3>3, <3>4
  <2>7. CASE ~initialized
    <3>1. UNCHANGED <<store, topchunksize, unsorted, tcacheHasData>>
      BY <2>1, <2>7 DEF malloc_post, snapshots
    <3>2. OwnedInUse' /\ NotYet'
      BY <1>3, <2>1, <2>3, <2>4, <2>7, <3>1 DEF OwnedInUse, NotYet, NoSnapshots
    <3> QED
      BY <1>0, <1>3, <2>7, <3>2, RunningOn
         DEF SnapshotsFit, OverwritesShow, StoreTracksLive
  <2> QED
    BY <2>6, <2>7
<1>4. CASE AllocateFails /\ UNCHANGED <<initialized, status, written, freeing>>
  <2>1. heap.live \in SUBSET Ptr /\ heap' \in Rearranged(heap, heap.live)
    BY <1>4 DEF TypeOK, Heap, AllocateFails
  <2>2. heap'.live = heap.live
    BY <2>1, RearrangedFacts
  <2>3. OwnedInUse /\ NotYet /\ OverwritesShow /\ StoreTracksLive
    BY <1>0 DEF SInv
  <2>4. ASSUME initialized, ptrMode, NEW r \in DOMAIN store
        PROVE  chunksize(heap'.hdr[r].size) = chunksize(heap.hdr[r].size)
    <3>1. r \in heap.live
      BY <1>0, <2>3, <2>4 DEF StoreTracksLive, OwnedInUse
    <3> QED
      BY <1>0, <2>1, <2>4, <3>1, StoredSizesKept
  <2>5. UNCHANGED <<store, owned, early, topchunksize, unsorted>> /\ fresh' = FALSE
    BY <1>4 DEF AllocateFails
  <2>6. StoreTracksLive' /\ OverwritesShow'
    BY <1>0, <1>4, <2>3, <2>4, <2>5 DEF StoreTracksLive, OverwritesShow
  <2>7. OwnedInUse' /\ SnapshotsFit'
    BY <2>2, <2>3, <2>5 DEF OwnedInUse, SnapshotsFit
  <2>8. NotYet'
    BY <1>4, <2>3, <2>5 DEF NotYet, NoSnapshots, AllocateFails
  <2> QED
    BY <1>0, <1>4, <2>6, <2>7, <2>8, RunningOn
<1> QED
  BY <1>1, <1>2, <1>3, <1>4 DEF Allocate

(* A verified chunk is the application's and has its size.                 *)
LEMMA CheckedIsIntact ==
  ASSUME SInv, status = "running", initialized, ptrMode, NEW p,
         check_pointer_before_free(p)
  PROVE  p \in (owned \ early) \cap heap.live /\ <<p, "size">> \notin written
<1>1. p \in DOMAIN store /\ chunksize(store[p]) = chunksize(heap.hdr[p].size)
  BY DEF check_pointer_before_free, RemoveOk, header_meta, StoreGet, equals_ptr_size
<1>2. p \in owned \ early /\ p \in heap.live
  BY <1>1 DEF SInv, StoreTracksLive, OwnedInUse
<1>3. "size" \in Fields
  BY DEF Fields
<1> QED
  BY <1>1, <1>2, <1>3 DEF SInv, OverwritesShow

(* Foreign metadata met while a verified chunk is freed keeps SInv.        *)
LEMMA StopOnChunk ==
  ASSUME SInv, status = "running", NEW p,
         check_pointer_before_free(p), StopFreeing(p, "undefined")
  PROVE  SInv'
BY CheckedIsIntact, StopUndefined DEF StopFreeing

(* free() keeps SInv.                                                      *)
LEMMA FreeSafe == ASSUME TypeOK, SInv, NEW p \in Ptr, free(p) PROVE SInv'
<1>0. /\ status = "running" /\ Calling /\ (p \in owned \/ BadFrees)
      /\ badFree' = (badFree \/ p \notin owned)
  BY DEF free, Calling
<1>1. CASE \/ StopAtChecks
           \/ ~check_pointer_before_free(p) /\ StopFreeing(p, "trapped")
  <2>1. CASE StopAtChecks
    BY <1>0, <2>1, StopOnChecks
  <2>2. CASE ~check_pointer_before_free(p) /\ StopFreeing(p, "trapped")
    <3>1. AlarmCause'
      BY <1>0, <2>2, PointerChecksFail
    <3> QED
      BY <2>2, <3>1, StopTrapped DEF StopFreeing
  <2> QED
    BY <1>1, <2>1, <2>2
<1>2. CASE check_pointer_before_free(p) /\ StopFreeing(p, "undefined")
  BY <1>0, <1>2, StopOnChunk
<1>3. CASE /\ check_pointer_before_free(p)
           /\ FreeMemoryIntact /\ p \in heap.live /\ ChunkIntact(p)
           /\ \E h \in Rearranged(heap, heap.live \ {p}) :
                /\ heap' = h
                /\ IF initialized THEN take_snapshots(h) ELSE UNCHANGED snapshots
           /\ store' = IF initialized /\ ptrMode
                       THEN StoreRemove(store, header_meta(p)) ELSE store
           /\ owned' = owned \ {p} /\ early' = early \ {p}
           /\ fresh' = initialized
           /\ UNCHANGED <<initialized, status, written, freeing>>
  <2>1. /\ heap' \in Rearranged(heap, heap.live \ {p})
        /\ IF initialized THEN take_snapshots(heap') ELSE UNCHANGED snapshots
    BY <1>3
  <2>2. heap.live \ {p} \in SUBSET Ptr
    BY DEF TypeOK, Heap
  <2>3. heap' \in Heap /\ heap'.live = heap.live \ {p}
    BY <2>1, <2>2, RearrangedFacts
  <2>4. OwnedInUse /\ NotYet /\ OverwritesShow /\ StoreTracksLive
    BY <1>0 DEF SInv
  <2>5. OwnedInUse'
    BY <1>3, <2>3, <2>4 DEF OwnedInUse
  <2>6. SnapshotsFit' /\ NotYet'
    <3>1. initialized => Checks'
      BY <2>1, <2>3, SnapshotsMatch
    <3>2. ~initialized => NotYet'
      BY <1>3, <2>1, <2>4 DEF NotYet, NoSnapshots, snapshots
    <3> QED
      BY <1>3, <3>1, <3>2 DEF SnapshotsFit, NotYet
  <2>7. CASE initialized /\ ptrMode
    <3>1. RemoveOk(store, header_meta(p)) /\ header_meta(p).ptr = p
      BY <1>3, <2>7 DEF check_pointer_before_free, header_meta
    <3>2. store' = [r \in DOMAIN store \ {p} |-> store[r]]
      BY <1>3, <2>7, <3>1 DEF StoreRemove
    <3>3. ASSUME NEW r \in DOMAIN store, r # p
          PROVE  chunksize(heap'.hdr[r].size) = chunksize(heap.hdr[r].size)
      <4>1. r \in heap.live \ {p}
        BY <1>0, <2>4, <2>7, <3>3 DEF StoreTracksLive, OwnedInUse
      <4> QED
        BY <1>0, <2>1, <2>2, <2>7, <3>3, <4>1, StoredSizesKept
    <3>4. StoreTracksLive'
      BY <1>0, <1>3, <2>4, <2>7, <3>2, <3>3 DEF StoreTracksLive
    <3>5. OverwritesShow'
      BY <1>3, <2>4, <2>7, <3>2, <3>3 DEF OverwritesShow
    <3> QED
      BY <1>0, <1>3, <2>5, <2>6, <3>4, <3>5, RunningOn
  <2>8. CASE ~(initialized /\ ptrMode)
    BY <1>0, <1>3, <2>5, <2>6, <2>8, RunningOn DEF StoreTracksLive, OverwritesShow
  <2> QED
    BY <2>7, <2>8
<1> QED
  BY <1>1, <1>2, <1>3 DEF free

(* A realloc() that succeeds keeps SInv.                                   *)
LEMMA MoveSafe ==
  ASSUME TypeOK, SInv, Calling, NEW p \in owned, NEW q \in Ptr \ heap.live,
         FreeMemoryIntact, check_pointer_before_free(p), MoveTo(p, q),
         UNCHANGED <<initialized, status, written, badFree, freeing>>
  PROVE  SInv'
<1>0. status = "running"
  BY DEF Calling
<1>1. /\ heap' \in Rearranged(heap, (heap.live \cup {q}) \ ReallocFrees(p))
      /\ IF initialized THEN take_snapshots(heap') ELSE UNCHANGED snapshots
      /\ IF initialized /\ ptrMode
         THEN \E z \in RawSizes :
                LET put == StorePut(store, [ptr |-> q, size |-> z])
                IN /\ chunksize(z) = chunksize(heap'.hdr[q].size)
                   /\ store' = StoreRemove(put, header_meta(p))
         ELSE UNCHANGED store
      /\ owned' = (owned \ {p}) \cup {q}
      /\ early' = (early \ {p}) \cup (IF initialized THEN {} ELSE {q})
      /\ fresh' = initialized
  BY DEF MoveTo
<1>2. OwnedInUse /\ NotYet /\ OverwritesShow /\ StoreTracksLive
  BY <1>0 DEF SInv
<1>3. /\ p # q /\ p \in heap.live /\ q \notin owned /\ q \notin early
      /\ \A field : <<q, field>> \notin written
  BY <1>2, TypeOKParts DEF Typed, OwnedInUse, FreeMemoryIntact
<1>4. (heap.live \cup {q}) \ ReallocFrees(p) \in SUBSET Ptr
  BY DEF TypeOK, Heap
<1>5. heap' \in Heap /\ heap'.live = (heap.live \cup {q}) \ ReallocFrees(p)
  BY <1>1, <1>4, RearrangedFacts
<1>6. OwnedInUse'
  BY <1>1, <1>2, <1>3, <1>5 DEF OwnedInUse, ReallocFrees
<1>7. SnapshotsFit' /\ NotYet'
  <2>1. initialized => Checks'
    BY <1>1, <1>5, SnapshotsMatch
  <2>2. ~initialized => NotYet'
    BY <1>1, <1>2 DEF NotYet, NoSnapshots, snapshots
  <2> QED
    BY <2>1, <2>2 DEF SnapshotsFit, NotYet
<1>8. CASE initialized /\ ptrMode
  <2>1. PICK z \in RawSizes :
          /\ chunksize(z) = chunksize(heap'.hdr[q].size)
          /\ store' = StoreRemove(StorePut(store, [ptr |-> q, size |-> z]), header_meta(p))
    BY <1>1, <1>8
  <2>2. DOMAIN store = owned \ early /\ q # NULL /\ q \notin DOMAIN store
    BY <1>0, <1>2, <1>3, <1>8, HeapAssumption DEF StoreTracksLive
  <2> DEFINE put == [r \in DOMAIN store \cup {q} |-> IF r = q THEN z ELSE store[r]]
  <2>3. StorePut(store, [ptr |-> q, size |-> z]) = put
    BY <2>2 DEF StorePut, PutOk
  <2>4. RemoveOk(store, header_meta(p)) /\ header_meta(p).ptr = p /\ p \in DOMAIN store
    BY <1>8 DEF check_pointer_before_free, header_meta, RemoveOk
  <2>5. RemoveOk(put, header_meta(p))
    BY <1>3, <2>4 DEF RemoveOk, StoreGet, equals_ptr_size
  <2>6. store' = [r \in (DOMAIN store \cup {q}) \ {p} |-> IF r = q THEN z ELSE store[r]]
    BY <2>1, <2>3, <2>4, <2>5 DEF StoreRemove
  <2>7. ASSUME NEW r \in DOMAIN store, r # p
        PROVE  chunksize(heap'.hdr[r].size) = chunksize(heap.hdr[r].size)
    <3>1. r \in (heap.live \cup {q}) \ ReallocFrees(p)
      BY <1>2, <2>2, <2>7 DEF OwnedInUse, ReallocFrees
    <3> QED
      BY <1>0, <1>1, <1>4, <1>8, <3>1, StoredSizesKept
  <2>8. StoreTracksLive'
    <3>1. DOMAIN store' = owned' \ early'
      BY <1>1, <1>3, <1>8, <2>2, <2>4, <2>6
    <3>2. ASSUME NEW r \in DOMAIN store', <<r, "size">> \notin written
          PROVE  chunksize(store'[r]) = chunksize(heap'.hdr[r].size)
      <4>1. CASE r = q
        <5>1. store'[r] = z
          BY <2>6, <3>2, <4>1
        <5> QED
          BY <2>1, <4>1, <5>1
      <4>2. CASE r # q
        <5>1. r \in DOMAIN store /\ r # p /\ store'[r] = store[r]
          BY <2>6, <3>2, <4>2
        <5>2. chunksize(store[r]) = chunksize(heap.hdr[r].size)
          BY <1>0, <1>2, <1>8, <3>2, <5>1 DEF StoreTracksLive
        <5> QED
          BY <2>7, <5>1, <5>2
      <4> QED
        BY <4>1, <4>2
    <3> QED
      BY <3>1, <3>2 DEF StoreTracksLive
  <2>9. OverwritesShow'
    BY <1>2, <1>3, <1>8, <2>6, <2>7 DEF OverwritesShow
  <2> QED
    BY <1>0, <1>6, <1>7, <2>8, <2>9, RunningOn
<1>9. CASE ~(initialized /\ ptrMode)
  BY <1>0, <1>6, <1>7, <1>9, RunningOn DEF StoreTracksLive, OverwritesShow
<1> QED
  BY <1>8, <1>9

(* realloc() keeps SInv.                                                   *)
LEMMA ReallocSafe == ASSUME TypeOK, SInv, NEW p \in Ptr, realloc(p) PROVE SInv'
<1>0. status = "running" /\ Calling /\ p \in owned /\ UNCHANGED badFree
  BY DEF realloc, Calling
<1>1. CASE StopAtChecks
  BY <1>0, <1>1, StopOnChecks
<1>2. CASE StopCalling("undefined")
  BY <1>2, StopOnCall
<1>3. CASE StopCalling("segv")
  BY <1>3, StopFaulted DEF StopCalling
<1>4. CASE ~check_pointer_before_free(p) /\ StopFreeing(p, "trapped")
  <2>1. badFree' = (badFree \/ p \notin owned)
    BY <1>0, TypeOKParts DEF Typed
  <2>2. AlarmCause'
    BY <1>0, <1>4, <2>1, PointerChecksFail
  <2> QED
    BY <1>4, <2>2, StopTrapped DEF StopFreeing
<1>5. CASE check_pointer_before_free(p) /\ StopFreeing(p, "undefined")
  BY <1>0, <1>5, StopOnChunk
<1>6. CASE \E q \in Ptr \ heap.live :
             /\ FreeMemoryIntact /\ check_pointer_before_free(p) /\ MoveTo(p, q)
             /\ UNCHANGED <<initialized, status, written, freeing>>
  BY <1>0, <1>6, MoveSafe
<1> QED
  BY <1>1, <1>2, <1>3, <1>4, <1>5, <1>6 DEF realloc

(* What a stray write leaves as it is: the chunks in use, and the size of  *)
(* every chunk but the one it goes to, of which "flags" keeps the size.    *)
LEMMA StrayWriteFacts ==
  ASSUME TypeOK, NEW n \in Places, NEW field \in Fields, StrayWrite(n, field)
  PROVE  /\ heap'.live = heap.live
         /\ \A p \in Ptr :
              IF n = p /\ field = "size"
              THEN chunksize(heap'.hdr[p].size) # chunksize(heap.hdr[p].size)
              ELSE chunksize(heap'.hdr[p].size) = chunksize(heap.hdr[p].size)
         /\ n \in heap.live => field \in {"size", "flags"}
<1>0. heap \in [hdr : [Node -> Header], top : Nat, entries : [TcIdx -> Link],
                counts : [TcIdx -> Nat], us : Seq(Ptr),
                tc : [TcIdx -> Seq(Ptr)], live : SUBSET Ptr]
  BY DEF TypeOK, Heap
<1>1. CASE n = TOP /\ WriteTop(field)
  <2>1. heap'.live = heap.live /\ heap'.hdr = heap.hdr
    BY <1>0, <1>1 DEF WriteTop
  <2>2. n \notin Ptr
    BY <1>1, HeapAssumption
  <2> QED
    BY <1>0, <2>1, <2>2
<1>3. CASE n \in TcIdx /\ WriteBin(n, field)
  <2>1. heap'.live = heap.live /\ heap'.hdr = heap.hdr
    BY <1>0, <1>3 DEF WriteBin
  <2>2. n \notin Ptr
    BY <1>3, HeapAssumption
  <2> QED
    BY <1>0, <2>1, <2>2
<1>2. CASE n \in Node /\ WriteNode(n, field)
  <2>1. WriteNode(n, field) /\ n \in Node
    BY <1>2
  <2>2. ASSUME NEW hd, heap' = [heap EXCEPT !.hdr[n] = hd]
        PROVE  /\ heap'.live = heap.live
               /\ \A p \in Ptr \ {n} : heap'.hdr[p] = heap.hdr[p]
               /\ heap'.hdr[n] = hd
    BY <1>0, <2>1, <2>2 DEF Node
  <2>3. heap.hdr[n] \in Header
    BY <1>0, <2>1
  <2>4. CASE field \in {"size", "flags"}
    <3>1. PICK z \in RawSizes \ {heap.hdr[n].size} :
            /\ (field = "flags") <=> (chunksize(z) = chunksize(heap.hdr[n].size))
            /\ heap' = [heap EXCEPT !.hdr[n].size = z]
      BY <2>1, <2>4 DEF WriteNode
    <3>2. heap' = [heap EXCEPT !.hdr[n] = [heap.hdr[n] EXCEPT !.size = z]]
      BY <3>1
    <3>3. [heap.hdr[n] EXCEPT !.size = z].size = z
      BY <2>3 DEF Header
    <3>4. heap'.hdr[n].size = z
      BY <2>2, <3>2, <3>3
    <3> QED
      BY <2>2, <2>4, <3>1, <3>2, <3>4
  <2>5. CASE field \in {"fd", "bk"}
    <3>1. PICK hd : /\ heap' = [heap EXCEPT !.hdr[n] = hd]
                    /\ hd.size = heap.hdr[n].size
      <4>1. CASE field = "fd"
        <5>1. PICK x \in Link : heap' = [heap EXCEPT !.hdr[n].fd = x]
          BY <2>1, <4>1 DEF WriteNode
        <5>2. [heap.hdr[n] EXCEPT !.fd = x].size = heap.hdr[n].size
          BY <2>3 DEF Header
        <5> QED
          BY <5>1, <5>2
      <4>2. CASE field = "bk"
        <5>1. PICK x \in Link : heap' = [heap EXCEPT !.hdr[n].bk = x]
          BY <2>1, <4>2 DEF WriteNode
        <5>2. [heap.hdr[n] EXCEPT !.bk = x].size = heap.hdr[n].size
          BY <2>3 DEF Header
        <5> QED
          BY <5>1, <5>2
      <4> QED
        BY <2>5, <4>1, <4>2
    <3>2. n \notin heap.live
      BY <2>1, <2>5 DEF WriteNode
    <3> QED
      BY <2>2, <2>5, <3>1, <3>2
  <2> QED
    BY <2>1, <2>4, <2>5 DEF WriteNode
<1> QED
  BY <1>1, <1>2, <1>3 DEF StrayWrite

(* A stray write keeps SInv.                                               *)
LEMMA StrayWriteSafe ==
  ASSUME TypeOK, SInv, NEW n \in Places, NEW field \in Fields, StrayWrite(n, field)
  PROVE  SInv'
<1>1. /\ status = "running" /\ initialized /\ <<n, field>> \notin written
      /\ written' = written \cup {<<n, field>>}
      /\ UNCHANGED <<initialized, store, status, owned, early>>
  BY DEF StrayWrite
<1>2. OwnedInUse /\ OverwritesShow /\ StoreTracksLive
  BY <1>1 DEF SInv
<1>3. DOMAIN store \subseteq Ptr
  BY TypeOKParts DEF Typed, StoreTypes
<1>4. OwnedInUse' /\ NotYet' /\ SnapshotsFit'
  BY <1>1, <1>2, StrayWriteFacts DEF OwnedInUse, NotYet, SnapshotsFit
<1>5. ASSUME ptrMode, NEW p \in DOMAIN store
      PROVE  /\ p \in Ptr /\ p \in heap.live
             /\ <<p, "size">> \notin written =>
                  chunksize(store[p]) = chunksize(heap.hdr[p].size)
  BY <1>1, <1>2, <1>3, <1>5 DEF StoreTracksLive, OwnedInUse
<1>6. StoreTracksLive'
  BY <1>1, <1>2, <1>5, StrayWriteFacts DEF StoreTracksLive
<1>7. OverwritesShow'
  <2> SUFFICES ASSUME ptrMode, NEW p \in DOMAIN store, NEW fld \in Fields,
                      <<p, fld>> \in written'
               PROVE  \/ fld = "flags"
                      \/ fld = "size" /\ chunksize(store[p]) # chunksize(heap'.hdr[p].size)
    BY <1>1 DEF OverwritesShow
  <2>1. CASE <<p, fld>> \in written
    <3>1. \/ fld = "flags"
          \/ fld = "size" /\ chunksize(store[p]) # chunksize(heap.hdr[p].size)
      BY <1>1, <1>2, <2>1 DEF OverwritesShow
    <3>2. CASE fld = "size"
      BY <1>1, <1>5, <2>1, <3>1, <3>2, StrayWriteFacts
    <3> QED
      BY <3>1, <3>2
  <2>2. CASE n = p /\ field = fld /\ <<p, fld>> \notin written
    <3>1. fld \in {"size", "flags"}
      <4>1. n \in heap.live
        BY <1>5, <2>2
      <4> QED
        BY <2>2, <4>1, StrayWriteFacts
    <3>2. CASE fld = "size"
      <4>1. chunksize(store[p]) = chunksize(heap.hdr[p].size)
        BY <1>5, <2>2, <3>2
      <4>2. chunksize(heap'.hdr[p].size) # chunksize(heap.hdr[p].size)
        BY <1>5, <2>2, <3>2, StrayWriteFacts
      <4> QED
        BY <3>2, <4>1, <4>2
    <3> QED
      BY <3>1, <3>2
  <2> QED
    BY <1>1, <2>1, <2>2
<1> QED
  BY <1>1, <1>4, <1>6, <1>7, RunningOn

(* The constructor establishes what SInv says of an initialized facade.    *)
LEMMA ConstructorSafe == ASSUME TypeOK, SInv, ensure_initialized PROVE SInv'
<1>1. /\ status = "running" /\ ~initialized /\ initialized' = TRUE
      /\ heap' \in Rearranged(heap, heap.live)
      /\ UNCHANGED <<store, snapshots, status, owned, early, written, fresh>>
  BY DEF ensure_initialized
<1>2. OwnedInUse /\ NotYet
  BY <1>1 DEF SInv
<1>3. heap'.live = heap.live
  <2>1. heap.live \in SUBSET Ptr
    BY DEF TypeOK, Heap
  <2> QED
    BY <1>1, <2>1, RearrangedFacts
<1>4. DOMAIN store = {}
  BY <1>1, <1>2 DEF NotYet, EmptyStore
<1>5. StoreTracksLive' /\ OverwritesShow'
  BY <1>1, <1>2, <1>4 DEF NotYet, StoreTracksLive, OverwritesShow
<1>6. OwnedInUse' /\ NotYet' /\ SnapshotsFit'
  BY <1>1, <1>2, <1>3 DEF OwnedInUse, NotYet, SnapshotsFit
<1> QED
  BY <1>1, <1>5, <1>6, RunningOn

(* Every step keeps SInv.                                                  *)
LEMMA NextSafe == TypeOK /\ SInv /\ [Next]_vars => SInv'
<1> SUFFICES ASSUME TypeOK, SInv, [Next]_vars PROVE SInv'
  OBVIOUS
<1>1. CASE ensure_initialized
  BY <1>1, ConstructorSafe
<1>2. CASE Allocate
  BY <1>2, AllocateSafe
<1>3. CASE \E p \in Ptr : free(p) \/ realloc(p)
  BY <1>3, FreeSafe, ReallocSafe
<1>4. CASE \E n \in Places, field \in Fields : StrayWrite(n, field)
  BY <1>4, StrayWriteSafe
<1>5. CASE Stopped \/ UNCHANGED vars
  <2>1. UNCHANGED vars
    BY <1>5 DEF Stopped
  <2>2. UNCHANGED Checks /\ UNCHANGED NoSnapshots
    BY <2>1 DEF vars, NoSnapshots, Checks, check_topchunk, check_unsorted, check_tcache,
                tcacheUsed, entries, counts, bucket_ok
  <2> QED
    BY <2>1, <2>2 DEF vars, SInv, OwnedInUse, NotYet, SnapshotsFit, OverwritesShow,
                StoreTracksLive, AlarmCause, FreesAreVerified
<1> QED
  BY <1>1, <1>2, <1>3, <1>4, <1>5 DEF Next

(* SInv holds in every reachable state, whatever the modes.                *)
THEOREM SafetyInvariant == Spec => [](TypeOK /\ SInv)
<1>1. Init => TypeOK /\ SInv
  BY InitTyped, InitSafe
<1>2. (TypeOK /\ SInv) /\ [Next]_vars => (TypeOK /\ SInv)'
  BY NextTyped, NextSafe
<1> QED
  BY <1>1, <1>2, PTL DEF Spec

-----------------------------------------------------------------------------
(* What follows from the invariant alone.                                  *)

(* The store of check_pointer_before_free() holds exactly the chunks       *)
(* handed out since the constructor, at their true size.                   *)
THEOREM StoreTracksLiveAlways == Spec => []StoreTracksLive
<1>1. TypeOK /\ SInv => StoreTracksLive
  BY DEF SInv
<1> QED
  BY <1>1, SafetyInvariant, PTL

(* Every alarm is due to the application, to a failed allocation before    *)
(* it, or to the freeing of a chunk from before the constructor.           *)
THEOREM AlarmExplainedAlways == Spec => []AlarmExplained
<1>1. TypeOK /\ SInv => AlarmExplained
  BY DEF SInv, AlarmCause, AlarmExplained
<1> QED
  BY <1>1, SafetyInvariant, PTL

(* With ptrMode, every chunk that reaches call_free_raw() after the        *)
(* constructor is in use, the application's and of intact size, whatever   *)
(* it has overwritten and freed before.                                    *)
THEOREM FreesAreVerifiedAlways == Spec => []FreesAreVerified
<1>1. TypeOK /\ SInv => FreesAreVerified
  BY DEF SInv
<1> QED
  BY <1>1, SafetyInvariant, PTL

(* With ptrMode, the free() of a pointer the application does not own      *)
(* never reaches glibc.                                                    *)
THEOREM BadFreeCaughtAlways == Spec => BadFreeCaught
<1>1. TypeOK /\ SInv /\ [Next]_vars =>
        (initialized /\ ptrMode /\ badFree' /\ ~badFree
          => status' \in {"trapped", "segv"})
  <2> SUFFICES ASSUME TypeOK, SInv, Next, initialized, ptrMode, badFree', ~badFree
               PROVE  status' \in {"trapped", "segv"}
    BY DEF vars
  <2>1. PICK p \in Ptr : free(p) /\ p \notin owned
    BY DEF Next, ensure_initialized, Allocate, free, realloc, StrayWrite, Stopped, vars
  <2>2. p \notin DOMAIN store
    BY <2>1 DEF free, Calling, SInv, StoreTracksLive
  <2>3. ~check_pointer_before_free(p)
    BY <2>2 DEF check_pointer_before_free, RemoveOk, header_meta
  <2> QED
    BY <2>1, <2>3, ChecksEnd DEF free, StopCalling, StopFreeing, Stop
<1> QED
  BY <1>1, SafetyInvariant, PTL DEF Spec, BadFreeCaught

-----------------------------------------------------------------------------
(* A glibc that always has memory, called after the constructor only.      *)

AlwaysSnapshotted == early = {} /\ (fresh \/ NoSnapshots)

(* Without failing and early calls every call leaves new snapshots.        *)
LEMMA AlwaysSnapshottedStep ==
  ASSUME ~MallocMayFail, ~EarlyCalls, AlwaysSnapshotted, [Next]_vars
  PROVE  AlwaysSnapshotted'
<1>1. CASE fresh' = TRUE /\ early' \subseteq early
  BY <1>1 DEF AlwaysSnapshotted
<1>2. CASE UNCHANGED <<snapshots, early, fresh>>
  BY <1>2 DEF AlwaysSnapshotted, NoSnapshots, snapshots
<1>3. CASE Allocate
  BY <1>1, <1>2, <1>3, ChecksEnd 
     DEF Allocate, Calling, StopCalling, Stop, AllocateSucceeds, AllocateFails
<1>4. CASE \E p \in Ptr : free(p)
  BY <1>1, <1>2, <1>4, ChecksEnd
     DEF free, Calling, StopCalling, StopFreeing, Stop
<1>5. CASE \E p \in Ptr : realloc(p)
  BY <1>1, <1>2, <1>5, ChecksEnd
     DEF realloc, Calling, StopCalling, StopFreeing, Stop, MoveTo
<1> QED
  BY <1>2, <1>3, <1>4, <1>5
     DEF Next, ensure_initialized, StrayWrite, Stopped, vars, snapshots

(* The facade raises no false alarm as long as glibc has memory and is not *)
(* called before the constructor.                                          *)
THEOREM AlarmOnlyOnErrorAlways ==
  ASSUME ~MallocMayFail, ~EarlyCalls
  PROVE  Spec => []AlarmOnlyOnError
<1>1. Init => AlwaysSnapshotted
  BY DEF Init, AlwaysSnapshotted, NoSnapshots
<1>2. AlwaysSnapshotted /\ [Next]_vars => AlwaysSnapshotted'
  BY AlwaysSnapshottedStep
<1>3. TypeOK /\ SInv /\ AlwaysSnapshotted => AlarmOnlyOnError
  BY DEF SInv, AlarmCause, AlwaysSnapshotted, AlarmOnlyOnError
<1> QED
  BY <1>1, <1>2, <1>3, SafetyInvariant, PTL DEF Spec

(* Without early calls every call keeps owned and live the same set.       *)
LEMMA NothingLeaksStep ==
  ASSUME ~EarlyCalls, TypeOK, SInv, NothingLeaks, [Next]_vars
  PROVE  NothingLeaks'
<1>1. CASE status' # "running"
  BY <1>1 DEF NothingLeaks
<1>2. CASE UNCHANGED <<status, owned>> /\ heap'.live = heap.live
  BY <1>2 DEF NothingLeaks
<1>3. CASE ensure_initialized
  <2>1. heap.live \in SUBSET Ptr
    BY DEF TypeOK, Heap
  <2>2. heap'.live = heap.live
    BY <1>3, <2>1, RearrangedFacts DEF ensure_initialized
  <2> QED
    BY <1>2, <1>3, <2>2 DEF ensure_initialized
<1>4. CASE Allocate
  <2>1. CASE AllocateSucceeds /\ status = "running"
    <3>1. PICK p \in Ptr \ heap.live :
            heap' \in Rearranged(heap, heap.live \cup {p}) /\ owned' = owned \cup {p}
      BY <2>1 DEF AllocateSucceeds
    <3>2. heap'.live = heap.live \cup {p}
      <4>1. heap.live \cup {p} \in SUBSET Ptr
        BY DEF TypeOK, Heap
      <4> QED
        BY <3>1, <4>1, RearrangedFacts
    <3> QED
      BY <2>1, <3>1, <3>2 DEF NothingLeaks
  <2>2. CASE AllocateFails /\ UNCHANGED status
    <3>1. heap' \in Rearranged(heap, heap.live) /\ owned' = owned
      BY <2>2 DEF AllocateFails
    <3>2. heap'.live = heap.live
      <4>1. heap.live \in SUBSET Ptr
        BY DEF TypeOK, Heap
      <4> QED
        BY <3>1, <4>1, RearrangedFacts
    <3> QED
      BY <1>2, <2>2, <3>1, <3>2
  <2> QED
    BY <1>1, <1>4, <2>1, <2>2, ChecksEnd
       DEF Allocate, Stop, StopCalling, Calling
<1>5. CASE \E p \in Ptr : free(p)
  <2>1. PICK p \in Ptr : free(p)
    BY <1>5
  <2>2. CASE StopFreeing(p, "trapped") \/ StopFreeing(p, "undefined") \/ StopAtChecks
    BY <1>1, <2>2, ChecksEnd DEF Stop, StopCalling, StopFreeing
  <2>3. CASE ~(StopFreeing(p, "trapped") \/ StopFreeing(p, "undefined") \/ StopAtChecks)
    <3>1. /\ heap' \in Rearranged(heap, heap.live \ {p}) /\ owned' = owned \ {p}
          /\ status = "running"
      BY <2>1, <2>3 DEF free, Calling
    <3>2. heap'.live = heap.live \ {p}
      <4>1. heap.live \ {p} \in SUBSET Ptr
        BY DEF TypeOK, Heap
      <4> QED
        BY <3>1, <4>1, RearrangedFacts
    <3> QED
      BY <3>1, <3>2 DEF NothingLeaks
  <2> QED
    BY <2>2, <2>3
<1>6. CASE \E p \in Ptr : realloc(p)
  <2>1. PICK p \in Ptr : realloc(p)
    BY <1>6
  <2>2. status = "running" /\ initialized /\ p \in owned
    BY <2>1 DEF realloc, Calling
  <2>3. CASE Stop("trapped") \/ Stop("undefined") \/ Stop("segv")
    BY <1>1, <2>3 DEF Stop
  <2>4. CASE \E q \in Ptr \ heap.live : MoveTo(p, q)
    <3>1. PICK q \in Ptr \ heap.live :
            /\ heap' \in Rearranged(heap, (heap.live \cup {q}) \ {p})
            /\ owned' = (owned \ {p}) \cup {q}
      BY <2>2, <2>4 DEF MoveTo, ReallocFrees
    <3>2. heap'.live = (heap.live \cup {q}) \ {p}
      <4>1. (heap.live \cup {q}) \ {p} \in SUBSET Ptr
        BY DEF TypeOK, Heap
      <4> QED
        BY <3>1, <4>1, RearrangedFacts
    <3>3. heap.live = owned /\ q # p
      BY <2>2, <3>1 DEF NothingLeaks
    <3> QED
      BY <3>1, <3>2, <3>3 DEF NothingLeaks
  <2> QED
    BY <2>1, <2>3, <2>4, ChecksEnd DEF realloc, StopCalling, StopFreeing
<1>7. CASE \E n \in Places, field \in Fields : StrayWrite(n, field)
  <2>1. UNCHANGED <<status, owned>>
    BY <1>7 DEF StrayWrite
  <2> QED
    BY <1>2, <1>7, <2>1, StrayWriteFacts
<1> QED
  BY <1>2, <1>3, <1>4, <1>5, <1>6, <1>7 DEF Next, Stopped, vars

(* The malloc-memcpy-free realloc() and free() give every chunk back to    *)
(* glibc, if there are no calls before the constructor.                    *)
THEOREM NothingLeaksAlways ==
  ASSUME ~EarlyCalls
  PROVE  Spec => []NothingLeaks
<1>1. Init => NothingLeaks
  BY InitialHeapFacts DEF Init, NothingLeaks
<1>2. TypeOK /\ SInv /\ NothingLeaks /\ [Next]_vars => NothingLeaks'
  BY NothingLeaksStep
<1> QED
  BY <1>1, <1>2, SafetyInvariant, PTL DEF Spec
=============================================================================
