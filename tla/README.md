# A TLA+ model of ShadowHeap

ShadowHeap is preloaded between an application and glibc. It replaces
`malloc`, `calloc`, `realloc` and `free`; before every call into glibc it
compares parts of the allocator's metadata with snapshots it took at the end
of the call before, and after the call it takes them anew. It keeps a copy of
the header of every chunk in use in a *metadata store*, and `free` is only
forwarded when the chunk's header still matches.

This directory holds the model of that program, the configurations that check
it with TLC, and the theorems about it that TLAPS checks.

    tlc -workers 2 -config MCShadowHeapErrors.cfg MCShadowHeap     one run
    tlapm ShadowHeapSafetyProofs.tla                               one proof module

## 1. The system

| Component (source) | State | Operations | Talks to |
|---|---|---|---|
| wrapper (`wrapper/ShadowHeapWrapper.h`, `malloc_hooks.cxx`) | whether it was constructed (through the facade) | `malloc`, `calloc`, `realloc`, `free`; `malloc_memcpy_free_approach` | the pre and post hooks of the facade around each call into glibc |
| facade (`facade/ShadowHeapFacade.h`) | `isInitialized`, the modes | `*_pre`: three checks; `*_post`: `store_pointer` and three snapshots; `check_pointer_before_free`; `realloc_mallochandler`, `realloc_freehandler` | reads glibc's structures in place, calls the store |
| snapshot data (`facade/ShadowHeapData.h`) | `store`, `topchunksize`, `unsorted[]`, `tcache[][]`, `tcacheHasData` | none | |
| chunk metadata (`common/malloc_meta.h`) | none | masks, `useable_size`, comparisons | |
| cached store (`store/CachedMetaStore.h`) | bins of fixed size, `cache_entries`, a fallback store | `put` `get` `remove` `update` `size` `reserve` `clear`, growth by `reserve_double` | allocates on the very heap that is being snapshotted |
| plain stores (`MapMetaStore.h`, `HashMetaStore.h`, `UnorderedMapMetaStore.h`, `VectorMetaStore.h`) | a container | the same interface, `metastore.h` | |
| hook bootstrap (`hook/hookinfo.h`, `InternalAllocator.h`) | the four `dlsym` pointers, a per-thread recursion counter, a static buffer | `setupPointers`, `call_*_raw`, `call_*_recursive*` | `dlsym` may call `calloc` back |
| arena leak (`leak/leak.cxx`, `leak.h`) | addresses of top chunk, unsorted bin and tcache struct | `test_tcache`, `leak_arena`, `get_arenainfo` | allocates and frees until chunk links give the addresses away |
| mode reader (`tools/ModeReader.h`) | the modes and the initial size of the store | reads the environment once | |
| glibc (outside the repository) | the heap | `malloc`, `free` | |
| experiment runner (`run-experiment.py`) | a JSON file of results, the same in memory, a schedule | `run` (resumes), `delete-experiment`, `sync_json` after every result | starts the measured commands |
| tests, benchmarks and runners (`tests/`, `perf/`, shell scripts) | none | | not modelled |

**What is hard about it.** Nothing runs concurrently: the README of the
program says that it is not thread safe. The difficulty lies in the *order* of
steps over long sequences of calls, and in the other party:

* glibc may rearrange all its free memory in any call, and every rearrangement
  must be in the snapshot before the call returns, or the next call stops a
  correct program. The store allocates memory itself, in between.
* a call may fail half way: `malloc` returns NULL, or `realloc` gets no second
  chunk.
* calls come in before the constructor ran; those chunks come back later.
* both walks are capped, along lists that may be longer than the cap and whose
  links may just have been overwritten.
* the store moves its entries between bins while it loops over the bins, and
  moves entries to a fallback store and never back.
* `dlsym` calls the wrapper's `calloc` while the wrapper is looking up where
  `calloc` is, and objects are used before their constructors have run.
* the size of the store comes from the environment as any number; it is grown
  with an `int` factor and a capacity that wraps.
* the probes for tcache and arena run on a heap that other libraries have used
  before, and conclude from the order in which freed chunks come back.
* the results of an experiment are in a buffer while the next one runs.
* the amount `realloc` copies follows from a header field alone.

**What makes each component correct.** Wrapper and facade: no alarm without a
memory error (`AlarmOnlyOnError`), every alarm has a known cause
(`AlarmExplained`), covered damage is reported by the next call
(`DamageCaughtAtNextCall`), a wrong `free` is (`BadFreeCaught`), what reaches
glibc's `free` was verified (`FreesAreVerified`), store and heap agree
(`StoreTracksLive`), nothing leaks (`NothingLeaks`), and the whole is the
allocator of `AllocatorSpec` (`KeepsPromise`). Cached store: it is a map
(`ImplementsMap`), with every entry where it is looked up (`EntriesFindable`),
exact counters (`SizeIsExact`), room for every entry that moves
(`TargetHasSpace`), and growth that ends (`RehashEnds`). The plain stores are
the same map (`ImplementsMap`, `HashImplementsMap`, `NoDuplicates`). `realloc`'s
copy stays in both chunks and keeps the data (`CopyFits`, `CopyKeepsData`). The
bootstrap comes to an end (`RecursionEnds`), calls nothing that has not been
found (`RawCallsHavePointers`), and lends its static buffer once, to `dlsym`
only (`StaticBufferOnce`, `ClientsGetChunks`). The constructor ends
(`StartupEnds`) with the modes that were asked for (`ModesAsAsked`) and a table
of the size asked for (`StoreLargeEnough`). The probes find the structures that
are there (`ProbeSucceeds`, `TcacheAnswerRight`, `TcacheStructFound`), take
nothing else for a tcache (`TcacheStructReal`), and leave
nothing behind (`ProbesKeepNothing`, `LeftoversRemoved`). The runner keeps what
it measured (`ResultsKept`), measures nothing twice (`NotTooOften`) and gets
everything in the end (`AllMeasured`).

The hazards themselves, with the line each one bites at and the property that
watches it, are the `hazards` of `PROJECT.json`.

## 2. The modules

| Module | Models |
|---|---|
| `ChunkMeta` | the size field: flags, `chunksize`, `useable_size`, the comparisons of `MALLOC_META` |
| `MetaStore` | what each operation of an `IMetaStore` does to a map and what it answers (`MapMetaStore` is the reference) |
| `MetaStoreSpec` | the same as an abstract state machine |
| `CachedMetaStore` | the hash table, one step per operation, growth one doubling and one entry per step |
| `PlainStore` | what the next two share: the chunks their clients store |
| `VectorMetaStore`, `HashMetaStore` | the store that is a vector; the one that is an `unordered_map`, the fallback of production builds |
| `GlibcHeap` | glibc: the most general allocator the facade can cope with (external) |
| `AllocatorSpec` | what the four functions promise the application, as an abstract state machine |
| `ShadowHeap` | wrapper, facade and snapshot data over `GlibcHeap` and `MetaStore` |
| `ReallocCopy` | the sizes in `realloc`'s copy, over glibc's size rounding |
| `HookInfo` | the lookup of glibc's functions, its recursion and the static buffer |
| `Startup` | the constructor: environment, modes, creation and growth of the store |
| `Ptmalloc` | glibc's free lists and the order they work in (external) |
| `LeakProbe` | the probes for tcache and arena, over `Ptmalloc` |
| `ExperimentRunner` | the driver of the experiments and its result file |
| `MCShadowHeap`, `MCCachedMetaStore` | small instances for TLC |
| `MCPlainStores` | the vector and the hash store given the same calls |
| `MCParts` | `ReallocCopy`, `HookInfo`, `Startup`, `LeakProbe` and `ExperimentRunner`, one per behaviour |
| `MCLeakProbe` | `LeakProbe` alone, with smaller bins, and for counterexamples |
| `MCHookInfo`, `MCStartup`, `MCExperimentRunner` | the other modules alone, for counterexamples |
| `ShadowHeapProofs`, `ShadowHeapSafetyProofs`, `ShadowHeapDamageProofs` | the theorems about the wrapper, the facade and glibc |
| `CachedMetaStoreProofs`, `PlainStoresProofs` | the theorems about the stores |
| `HookInfoProofs`, `PartsProofs`, `LeakProbeProofs` | the theorems about the parts of `MCParts` |

`ShadowHeap` composes the wrapper, the facade, glibc and a store (as the map of
`MetaStore`) and is shown to implement `AllocatorSpec`; `CachedMetaStore`, `VectorMetaStore` and `HashMetaStore` are shown
to implement that map as `MetaStoreSpec`. The constructor is one step
in `ShadowHeap`; its parts are `Startup` (which ends in the probe's answer) and
`LeakProbe` (which is that probe). `HookInfo` is below all of them: every call
into glibc that the other modules make as one step goes through it.

### ShadowHeap

Variables correspond to fields one by one: `initialized` is
`ShadowHeapFacade::isInitialized`; `store`, `topchunksize`, `unsorted`,
`tcache`, `tcacheHasData` are those of `ShadowHeapData` (`unsorted_size` is
`Len(unsorted)`); `heap` is glibc's memory. `status` says how the process is
doing, `owned` what the application holds. `early`, `written`, `badFree`,
`fresh` and `freeing` are history variables: what was allocated before the
constructor, which words have been overwritten, whether the application has
freed what it lacks, whether the last call was snapshotted, and which chunk's
`free` ended the process. Only properties, the application's guards and glibc's
reaction to damage read them.

One call of the API is one step, because the library runs in the caller's
thread and is not thread safe. Inside the step the order of the code is kept:
checks on the heap as it was found; the call into glibc, giving a new heap `h`;
`put` on the store, which may allocate and is therefore part of how `h` came
about; snapshots of `h`. So `malloc_post(h, p)` takes its snapshots from the
heap *after* `put`, as the code does; its mutant takes them before and raises
false alarms. `realloc` has the failure points of
`malloc_memcpy_free_approach` in their order: checks, raw malloc (may give
NULL), `put`, read of the old size and copy (may fault), verification of the
old chunk, `remove`, raw free.

| Action | Code |
|---|---|
| `ensure_initialized` | the static wrapper's constructor |
| `Allocate` (`AllocateSucceeds`, `AllocateFails`) | `malloc` and `calloc`, which differ only in the function of glibc they call; `realloc(NULL, n)` is `malloc(n)` |
| `free(p)` | `free`; `realloc(p, 0)` is `free(p)` |
| `realloc(p)` | the rest of `realloc` |
| `StrayWrite(n, field)` (`WriteNode`, `WriteTop`, `WriteBin`) | a memory error of the application |
| `Stopped` | the process has ended |

The three walks are stated as paths: `UnsortedPaths` and `TcachePaths` are the
sequences a capped loop can visit, `IsUnsortedWalk` and `IsTcacheWalk` say
which one it does. The unsorted walk starts at the first chunk and the bin
itself comes last, as in the code. The checks follow the *stored* links, which is what the
code does too, because it compares each node before it follows the node's link.

A stray write gives one word another value. The words are size, flags and links
of every chunk header, the unsorted bin's own links and the word in place of its
size, the size of the top chunk, the arena's pointer to the top chunk, and the
head and the count of every tcache bin, which `check_tcache` reads in place
(`ShadowHeapFacade.h:157-160`, with a TODO that they might be manipulated).

`status` ends as `"trapped"` when a check raises SIGILL (default action: the
process dies), `"undefined"` when glibc trips over damage, or `"segv"`. Once a
word has been overwritten, any call that passes the checks may end as
`"undefined"`, wherever the word is: glibc's `free` and `malloc` also read the
header of the neighbour of the chunk they work on, for one. A call may go on all
the same if the damage is in a header in use that is not the one to be freed. If
it is in free memory, the arena or the tcache, glibc's lists are no longer the
ones the model knows, so the process always ends there. After undefined
behaviour anything could happen; the properties speak about how it got there.

### AllocatorSpec

The allocator the application is promised has no snapshots, no store and no
lists. It knows which chunks are `held`, whether the application has made an
error (`faulty`) and whether covered metadata is damaged (`tainted`). It hands
out only chunks nobody holds, serves a call only while nothing is tainted, ends
only after an error, ends at once in a wrong `free`, and never lets glibc work
on tainted metadata. Damage may also take a taint away: a bin that is made to
look empty is not looked at, so what is damaged in it is not covered any longer.
`ShadowHeap` implements it under the refinement mapping
`held <- owned`, `faulty <- written # {} \/ badFree`,
`tainted <- fresh /\ written \cap Covered # {}`, `state` from `status`: the
checks have to find out from their snapshots what the abstract allocator knows.
The promise is for a glibc that always has memory and for calls after the
constructor (`KeepsPromise`); `hard_times` and the violated runs say what
happens otherwise.

### GlibcHeap

glibc is not in the repository. `Rearranged(h, live)` is every heap it may
leave when it is called on `h` and afterwards exactly `live` is in use: any
free chunk on any list or on none, any list order, any legal size field for
free chunks, any size of the top chunk, any flags. It promises only that
chunks in use keep their chunk size and that its lists are well linked. The
real allocator does much less, so what holds here holds for it. `hdr`, `top`,
`entries` and `counts` are words in memory, which a stray write may change; `us`
and `tc` are the lists glibc meant, and the words agree with them whenever a
call returns. What the facade reads, it reads from the words. Headers of
chunks on no list, which nothing reads, have size 0 so that TLC does not
enumerate them. The unsorted bin's own pseudo-chunk has a "size" like any
node: that word is another field of `malloc_state`, and the facade snapshots
it as the code does.

### CachedMetaStore

`hash` and `victim` are chosen arbitrarily in `Init`, so every hash function
into the given number of bits is checked and not one particular function. A
`put` that finds the table full, and a `reserve`, start the loop of
`ensure_capacity`: `GrowStep` is one doubling of the factor, `StartRehash` is
`bins.resize`, `RehashStep` one entry of the nested loops, and in `RehashDone`
a waiting `put` goes on. `MoveEntry` has both forms of the move: slot 0 swaps
with slot 0 of the new bin, later slots go to the first empty one. `put` is
called for pointers that are not in the store; `StoreTracksLive` shows that the
facade calls it for no others. Nor does it pass NULL metadata, which is left out:
`remove` of it would match an empty slot and count one entry too few
(`CachedMetaStore.h:203-215`), and no caller does it. Integers are unbounded
here; their width is the subject of `Startup`.

### VectorMetaStore, HashMetaStore

`elements` is the container, `ret` the answer of the last call. Clients call
anything with any pointer, also `put` for a pointer that is there and calls
with the NULL metadata; sizes are those of chunks, so not 0. `VectorMetaStore` finds by position, removes by swapping
with the last element and `pop_back`, and inherits `update` (get, remove, put)
from the interface. `HashMetaStore` uses `emplace`, which keeps what is there,
and an `update` of its own. `MapMetaStore`, and `UnorderedMapMetaStore` with the
same code, are the operators of `MetaStore` themselves.

### ReallocCopy

`request2size`, the mmap rounding and the flags are glibc's, stated from how the
program reads headers; `Moved` is the number of bytes the wrapper copies.

### HookInfo

The C stack is the variable `stack`, a sequence of frames: calls and
`setupPointers`. `enter` is the decision of `call_*_recursive*` whether a call is
in a region, `check_initialized` the test before the raw call, `dlsym_typed` one
lookup, `dlsym_allocates` the `calloc` of `dlsym`, `call_calloc_in_region` the
answer to it; `Store` is a call the store's own allocator makes to glibc's
functions (`InternalAllocator.h:33-60`), through an object of its own or a copy
made for it. `recursive` is the thread's counter. `Construct` resets the
`isInitialized` of every object, as their default member initializers do after
early calls have set them. `handed_out` and `setups` count for the properties.

### Startup

`disable_via_env` reads one mode per step in the order of the code and only if
it is compiled in; `getenv_size` is `strtoul` with its minus sign and its
ERANGE; `check_environ` the search for unknown names; `new_store`, `grow` and
`reserve_double` create the store and grow it; `probe` is the outcome of
`LeakProbe`, with the modes that follow. A `size_t` has `WORDS` values, an `int`
`INTS`. The overflow of the `int` factor is undefined: each doubling either wraps
or is made in a wider register, and every mixture of the two is checked. A table
of more than `MaxBins` bins, and any smaller one, may fail to be allocated, the
one the store starts with included.
`IsPowerOfTwo` is the single bit that the code asserts, said without bits: no odd
number but 1 divides it. `MCParts` lists the powers of two up to 1000 as a check
of that (`PowersOfTwo`).

### Ptmalloc, LeakProbe

The probes depend on the order of glibc's lists, so `GlibcHeap`, which promises
no order, cannot serve them. `Ptmalloc` is glibc's `malloc` and `free` on
explicit lists: tcache and fastbins last in first out, the unsorted bin sorted
from its tail, small bins first in first out with stashing into the tcache,
best fit with splitting, coalescing, and consolidation of the fastbins.
Addresses and sizes count units of 16 bytes. `EarlyMalloc` and `EarlyFree` are
what other libraries did before the constructor. `get_arenainfo` chooses by the
version of glibc and runs `test_tcache`; `leak_arena` plants and reads the
chunk `a`; `ARENA_INFO` derives the addresses, checks them with
`arena->next`, allocates its result and runs the tcache test again, as the
conversion in the code does; `cleanHeap` takes the leftovers. If the link is
NULL, `checkVal` is 0 (`leak.cxx:219-220` add the offset that was subtracted
before), neither of the two tests reads through it, and the process aborts at
`leak.h:123`. What the code
reads from a link is what `Ptmalloc`'s list has at that place, or what was left
there when the chunk was freed, if it has been joined to another since.
The loops of both modules (over the unsorted bin, the fastbins, a list of
requests) are folds, each of a named single step, so that they can be proved
about.

### ExperimentRunner

`file` is what is on disk, `buffered` whether the JSON is still in the buffer of
the open file, `db` and `schedule` are in memory. `run`, `capture_performance`,
`truncate` and `dump_json` (the halves of `sync_json`) and `finish` are the
driver's steps. `command_fails` is a measured command that exits with an error
(`check=True` ends the driver, and click closes the file), `kill` an end without
closing. `recorded` is a history variable: what was measured and not deleted.

### MCParts

The five parts share no state and are checked in one instance: `part` names the
one a behaviour belongs to, all variables of the others are NULL. An invariant
of a part is stated for behaviours of that part; `Ended` is the stuttering of a
constructor that is done and of a driver that cannot load its file.

## 3. The runs

| Run | Question | Result |
|---|---|---|
| `memory_errors` | With up to two stray writes and any wrong frees: is a correct program ever stopped, do store and heap agree, does anything leak, is what the modes cover reported before glibc works on it, and is the whole the promised allocator? | holds (refinement) |
| `hard_times` | With failing allocations and early calls, which alarms remain? | the two known kinds only |
| `cache_table` | For every hash function, are entries always findable, counted, and with room to move? Is the table the abstract map? | holds (refinement) |
| `cache_rehash_ends` | Does growth end? | holds |
| `plain_stores` | Are the vector and the hash store the abstract map? | holds (refinement) |
| `parts` | Does `realloc`'s copy fit; does the bootstrap end and lend its buffer once; does the constructor end with what was asked for; do the probes find what is there; are results kept and completed? | holds |
| `probe_small_bins` | With few earlier calls that fill and overfill every bin, and tcaches of any count: when do the two tests for a tcache answer right, when does the process start, and is anything else ever taken for the structures? | holds |
| `failed_malloc` | no false alarm when allocations may fail | **violated** |
| `failed_realloc` | a fault in the wrapper needs overwritten metadata | **violated** |
| `early_realloc` | `realloc` frees the old chunk | **violated** |
| `startup_minus_one` | the constructor ends for a size of -1 | **violated** |
| `experiments_kill` | a killed driver can be resumed | **violated** |

Further statements of comments and of the program's README that do not hold have
a configuration each. `tlc` finds the counterexample in
seconds; section 5 says what each one shows.

| Configuration | Module | Property |
|---|---|---|
| `MCShadowHeapEarly.cfg` | `MCShadowHeap` | `StoreHoldsAllInUse` |
| `MCShadowHeapCounts.cfg` | `MCShadowHeap` | `ListedDamageCaughtAtNextCall` |
| `MCCachedMetaStoreBits.cfg` | `MCCachedMetaStore` | `MovesOneBit` |
| `MCHookInfoOnce.cfg` | `MCHookInfo` | `SetupAtMostOnce` |
| `MCStartupAssert.cfg` | `MCStartup` | `GrowthAssertion` |
| `MCStartupForeign.cfg` | `MCStartup` | `ForeignNamesRefused` |
| `MCLeakProbe228.cfg` | `MCLeakProbe` | `TcacheLeakedFrom228` |
| `MCLeakProbeCount.cfg` | `MCLeakProbe` | `AWentPastTcache` |
| `MCLeakProbeEarly.cfg` | `MCLeakProbe` | `SortedIntoSmallbin0` |
| `MCLeakProbeFull.cfg`, `MCLeakProbeNone.cfg` | `MCLeakProbe` | `TcacheAnswerAlwaysRight` |
| `MCExperimentRunnerDelete.cfg` | `MCExperimentRunner` | `DeletesOnlyNamed` |

**Bounds.** `ShadowHeap` runs with two chunks, one tcache bin and two top sizes.
`hard_times` has three raw sizes, two of which differ in a flag only;
`memory_errors` has two of different chunk size, so no write there changes flags
alone (the theorems cover those). Two
chunks are enough for every shape the code distinguishes: with
`USB_ENTRIES_MAX = 2` a ring of the bin and two chunks is longer than the cap,
one of the bin and one chunk fills it exactly, and the bin alone is shorter;
`TCA_BIN_SIZE` is 1 in `hard_times`, where a list may exceed the cap, and 2 in
`memory_errors`, where a list must fit. `realloc` needs a second chunk and has
one. `MaxWrites = 2`: one write meets every check, and a second one can take
away what leads a check to the first, as a head, a count or the pointer to the
top chunk does. The theorems are for any number.

The cached store has bins of two slots (the code: 4), three pointers, one bin to
start with and at most four after growth by `put`, or by `reserve(7)`, which
doubles the factor twice and grows one bin to four in one go; with two bits of
hash value every distribution over four bins occurs. Two sizes make `remove`
and `update` with another size occur. The plain stores have three pointers and
three sizes, two of which differ in a flag only: a vector of three entries has a
first, a middle and a last one to remove.

In `parts`, `ReallocCopy` covers requests at the minimum chunk, on both sides of
the rounding boundaries, and around the first page for mmapped chunks.
`HookInfo` has all four objects; its behaviours are unbounded in length but the
stack is not (`RecursionEnds`). `Startup` has words of 8 and an `int` of 4 bits,
with sizes at and around the initial capacity and its doublings, beyond the
range of the factor (where the overflow happens), at ERANGE, and with a minus
sign; sizes in the upper half of the words are the subject of
`startup_minus_one`. `LeakProbe` has there all four versions and an unknown one,
the program's own constants, `tcache_count` of 0, 7 (the default) and 8, and up
to three earlier allocations (`MaxEarly`) of the smallest chunk, of the largest
of a fastbin and of one larger, freed in any order at any time. At 7 those three
all fit in the tcache. `probe_small_bins` has rounds and bins of two in place of
seven (`TEST_SIZE_TCACHEBIN = 2`), `tcache_count` of 0 to 3 and four earlier
allocations, so that bins are filled, overfilled, and spill into fastbins and
small bins. What is only true within limits says so in the property: how many
free chunks there are, and that all of them are in the tcache. The cases beyond
those limits are items 12 to 15 of section 5. `LeakProbeProofs` has no bound on
any of these.
`ExperimentRunner` has three experiments, two with a common prefix, repeated
twice, a buffer that holds three of six results, two failures, one deletion and
one kill.

**Symmetry** is used on chunks in the `ShadowHeap` runs and on pointers in
`cache_table`, none of which checks liveness; no definition distinguishes them,
and choices that `CHOOSE` makes are among slots and sizes.

**Deadlock** is checked in every passing run: a process that has ended stutters
by `Stopped`, a probe that is done by `Finished`, a constructor that is done and
a driver that cannot load its file by `Ended`; these are actions, and nothing
else may stop. Only the `MCStartup*` configurations switch it off, because the
constructor alone ends.

**Fairness.** Safety is checked without any. `cache_rehash_ends` assumes weak
fairness of the four steps of the store's loops (`GrowStep`, `StartRehash`,
`RehashStep`, `RehashDone`): they run in the thread that called `put`, and
nothing can preempt it for ever within the process. `StartupEnds` assumes it of
the constructor's steps for the same reason. `AllMeasured` assumes it of the
driver's own steps, of the measured commands (they end) and of `run`: the user
starts a driver that has ended again. Nothing is assumed of the application, of
failures or of kills.

## 4. What is proved

Every theorem is for any values of the constants: for `ShadowHeap` any finite
set of chunks, any caps, any subset of the modes and any number of stray writes
to any of the words named in section 2, with and without failing allocations,
early calls and wrong frees (`HeapAssumption` and `ShadowAssumption` only say
that the constants are of their kind).

**Wrapper, facade, glibc**

| Theorem | States | Assumes besides |
|---|---|---|
| `RearrangedFacts`, `ListsAreLinked` | what a call into glibc guarantees | |
| `TypeCorrect` | `[]TypeOK` | |
| `SafetyInvariant`, `DamageShowsAlways` | the inductive invariants `SInv` and `DamageShows` | |
| `StoreTracksLiveAlways` | `[]StoreTracksLive` | |
| `AlarmExplainedAlways` | `[]AlarmExplained` | |
| `BadFreeCaughtAlways` | `BadFreeCaught` | |
| `DamageCaughtAlways` | `DamageCaughtAtNextCall` | |
| `FreesAreVerifiedAlways` | `[]FreesAreVerified` | |
| `AlarmOnlyOnErrorAlways` | `[]AlarmOnlyOnError` | `~MallocMayFail`, `~EarlyCalls` |
| `NothingLeaksAlways` | `[]NothingLeaks` | `~EarlyCalls` |
| `KeepsPromiseAlways` | `KeepsPromise`: `ShadowHeap` implements `AllocatorSpec` | `~MallocMayFail`, `~EarlyCalls` |

**Stores**

| Theorem | States |
|---|---|
| `CachedMetaStoreProofs!TypeCorrect` | `[]TypeOK` of the cached store |
| `RehashFindsRoom` | `[]TargetHasSpace` |
| `EntriesAreFindable` | `[]EntriesFindable` |
| `SizeCorrect` | `[]SizeIsExact` |
| `CachedMetaStoreProofs!Implements` | `ImplementsMap` of the cached store |
| `PlainStoresProofs!Invariant`, `!Implements` | `[](TypeOK /\ NoDuplicates)`, `ImplementsMap` of the vector |
| `HashTypeCorrect`, `HashImplements` | `[]TypeOK`, `ImplementsMap` of the hash store |
| `BothTypeCorrect`, `BothImplements` | the same of the two given the same calls, as the run has them |

**The other parts**, each as `PartsSpec => []...` with the definition the run
`parts` checks:

| Theorem | States |
|---|---|
| `CopyFitsAlways`, `CopyKeepsDataAlways` | `CopyFits`, `CopyKeepsData` |
| `BootstrapCorrect` | the inductive invariant of the bootstrap |
| `RecursionEndsAlways`, `RawCallsHavePointersAlways`, `StaticBufferOnceAlways`, `ClientsGetChunksAlways` | `RecursionEnds`, `RawCallsHavePointers`, `StaticBufferOnce`, `ClientsGetChunks` |
| `RegionsBalanced` | types, and the recursion counter is the number of open regions |
| `ModesAsAskedAlways` | `ModesAsAsked` |
| `StoreLargeEnoughAlways`, `StartupTypes` | `StoreLargeEnough`, and types: what is computed from the size stays a word |
| `ResultsKeptAlways`, `NotTooOftenAlways`, `WorkIsBounded` | `ResultsKept`, `NotTooOften`, and types with the bound on what is measured |
| `PartsInvariant` | the inductive invariants behind the last ones |
| `ProbesBalanced` | the inductive invariant of the probes |
| `ProbesKeepNothingAlways` | `ProbesKeepNothing` |
| `TcacheStructRealAlways` | `TcacheStructReal` |
| `PartsTypes` | `TypeOK` of the parts together |

The assumptions in the last column of the first table are not for convenience.
`failed_malloc` shows a false alarm once allocations may fail, `hard_times` keeps
chunks from before the constructor as a cause of alarms, and `early_realloc`
shows the leak.

### The argument for ShadowHeap

`ShadowHeapProofs` first shows that `Rearranged` yields well-typed heaps with exactly
the requested chunks in use, the others' sizes kept, and lists whose links lead
through their chunks; from that it derives type correctness action by action. `ShadowHeapSafetyProofs` proves that `SInv` is inductive. None of the
properties is inductive by itself, so `SInv` adds what ties them together, for
a running process:

* `OwnedInUse`: what the application holds is in use, so that a chunk glibc
  hands out next is not in the store and has no stray write on it;
* `NotYet`: before the constructor there is nothing stored, snapshotted or
  written, so that `StoreTracksLive` holds the moment the constructor is done;
* `SnapshotsFit`: after a call that was snapshotted, and before any stray
  write, all three checks pass. The lemma behind it, `SnapshotsMatch`, is the
  heart of "no false alarm": for both capped walks, storing and then checking
  the same memory succeeds at every length of list;
* `OverwritesShow`: an overwritten size of a stored chunk differs from the stored
  one, so that a chunk that passes the verification has the size it was handed
  out with (`CheckedIsIntact`). That is `FreesAreVerified`, which says nothing
  about the rest of the heap: glibc may trip over damage anywhere
  (`StopOnCall`, `StopOnChunk`);
* `AlarmCause`: the causes of an alarm, one step more precise than
  `AlarmExplained`, so that `AlarmOnlyOnError` follows once failing and early
  calls are excluded. `freeing` tells the alarm of a chunk that is freed from
  that of a snapshot.

`ShadowHeapDamageProofs` proves the converse, that an alarm is not missed.
`DamageShows` says that there is a heap with well-linked lists of which the
snapshots were taken (`SnapshotOf`), and that the memory differs from it in
exactly what has been written since (`WrittenSince`); history and memory are
tied word by word. Two arguments carry it to the checks. A walk that was stored
visits every node of its list up to the cap (`UnsortedWalkCovers`,
`TcacheWalkCovers`; the least node it had missed would be the successor of one
it visited). And a check that passes has met these nodes one after the other:
the first where the bin points now, each further one through the stored link of
the node before, which has just been compared; so each word it compared is
unwritten (`TopCheckFinds`, `UnsortedCheckFinds`, `TcacheCheckFinds`). Together,
`ChecksCoverDamage`: if the checks pass, nothing covered was written. A walk
starts at a head that is read from memory. That of the unsorted bin is compared
with the first snapshot; so is that of a tcache bin, but only if head and count
do not say that the bin is empty. So `Covered` has the chunks of a bin only while
they do not, and the top chunk's size only while the pointer to it is the
arena's: there the code trusts what it reads (item 17 of section 5). That the
next call then ends is the step to `DamageCaughtAtNextCall`.

`KeepsPromiseAlways` puts both directions together. The calls of `AllocatorSpec`
are served untainted, because the checks that let the call through have found
nothing (`CallsAreClean`), and leave it untainted, because the checks would pass
on the memory after the snapshots (`ServedClean`). A chunk that is handed out is
held by nobody because it was not in use (`NothingLeaks`). Every end has a cause
in the application (`AlarmMeansError` and `PointerChecks`), and the wrong `free`
ends at once. The constructor and the rearrangements of glibc are stutters.

### The argument for the stores

`PlainStoresProofs` is for any set of pointers and any set of sizes but 0. For
the vector the inductive invariant is that all entries are chunks with distinct
pointers. It is what makes a search from the front find *the* entry, and the
removal by swapping take out that entry and no other; under it each operation is
the operation of the same name on the map `Contents`, with the same answer, so
the vector implements `MetaStoreSpec`. The hash store's `elements` is already a
map, and the theorem is that its own `emplace` and `update` do what the
interface's do.

`CachedMetaStoreProofs` is for any pointers and sizes, any hash function, any
choice of victims, any number of slots in a bin and of bins to start with, and
for growth by any factor (`StoreAssumption`; integers have no width, see
`Startup` for the overflow of the factor). The invariant `IInv` has, besides
types and the exact count,

* `Distinct`: a pointer has one entry at most, in the table or in the fallback
  store;
* `Settled`: outside the loops of `reserve_double` every entry is in the bin of
  its hash;
* `HalfSettled`: inside them an entry the loops have passed is in its bin of the
  new table, another in its bin of the old one, and a new bin `b` has entries
  only in slots the loops have passed in the old bin `b % oldsize`. The last
  part, which no property states, is why there is room: hashes modulo the new
  size agree modulo the old one (`ModMod`), so a new bin is fed by one old bin,
  slot by slot, and the slot with the number of the moving entry is still free
  (`RoomInNewBin`);
* `Waiting`: the chunk whose `put` made the table grow is not stored meanwhile,
  and the table will have a slot for it.

The refinement of the map follows. `Contents` is determined by which entries
there are and not by their places (`Holds`, `Determined`). So `put` with its
eviction, `get`, `remove`, `update` and `clear` each are the operation of that
name on the map, with the same answer, because `Lookup` shows that the search of
one bin and then of the fallback store misses nothing; and the steps of a
growing table leave the map unchanged.

### The argument for the other parts

The parts share no state, so an invariant of one is carried by its own steps and
untouched by the others'. `PartsAssumption` names what the constants have to be.

*The bootstrap* (`HookInfoProofs`, `IInv`) is about the shape of the C stack. It
is at most a call, its setup, the `calloc` of `dlsym`, its setup and the `calloc`
of that, and a setup has found the names it has passed (`Nested`). If the first
call is not in a region then the third is, once it goes on (`Regions`); so the
fifth finds a region and returns at once with the static buffer or NULL, and the
stack grows no further. `dlsym` asks for a buffer only while it has none
(`Asking`), so the static buffer is lent once. A call that is about to go to
glibc has its pointer (`Callable`), and an object that believes it is
initialized has all four. There is at most one region, which makes the counter
the number of regions on the stack (`RegionsCounted`).

*The constructor* (`PartsProofs`, `StartInv`): the modes asked for so far are
those before the index of the loop, and the modes that are on are those compiled
in less the ones refused so far.

*The store it makes* (`StoreInv`), for any number given, any initial size and
any widths that are powers of two (`StartupConstants`; a vector takes up less
than half of the addresses): while the loop of `ensure_capacity` runs, `newcap`
is 0 or the capacity of a number `n` of bins that is a power of two and less than
twice too large (`Wanted`). The factor is right for `n`, or has overflowed
(`FactorFor`): it is 0, or half an `int` below 0, or a power of two below the
number of words. What `reserve_double` computes from the last two is 0 or at
least half of all words, and so refused by the assertion or by the vector
(`NewSize`); a size that is accepted is `n`. That powers of two divide each other
(`Pow2Divides`), on which all the wrapping depends, is shown from a least
counterexample.

*The runner* (`RunnerInv`): wherever the driver could end by itself, disk and
memory agree, and without kills they have everything recorded (`DiskAgrees`);
what is there and what is still scheduled is never more than was asked for
(`Planned`); a kill costs at most one whole set of results (`Measured`).

*The copy* (`CopyInv`): each raw size glibc may choose for a request serves it,
by arithmetic on alignment, and the two properties follow.

*The probes* (`LeakProbeProofs`, `ProbeInv`), for any number of calls before the
constructor, of any sizes, any `tcache_count` and any `TEST_SIZE_TCACHEBIN`
(`LeakProbeConstants`). That the probes keep nothing is not inductive: a chunk
that is freed twice, or handed out while it is in use, can leave the right
number of chunks in use for a while. The invariant is about the heap:

* `WellFormed`: the chunks lie one after the other and fill the memory below the
  top chunk (`Tiled`); every free chunk is on one of the four lists, once
  (`List`, `Placed`); without a tcache the tcache's list is empty;
* `Held`: the chunks in use are exactly those of the application and those
  ShadowHeap keeps, of which there are none before the constructor.

Every operation of `Ptmalloc` keeps `WellFormed` and does one thing to the chunks
in use: `free` takes its chunk out (`FreedHeap`), `malloc` adds one that was not
in use (`Answers`, `MallocAnswers`), and everything else (putting a chunk into a
bin, joining it with its neighbours, consolidation, sorting, stashing, cutting)
changes none. Joining and cutting are where the tiling matters: a neighbour that
is joined is the next or the last chunk, so nothing else starts in between. The
folds are unrolled once and for all: a fold is the last element of a run of
single steps (`Run`), and an invariant of the steps holds along the run. A probe
then allocates pointers that differ from each other and from those in use
(`Begun`), and frees each of them once (`Leaks`, `Tested`), so it leaves the
chunks in use as they were. For `TcacheStructReal` the invariant adds where a
struct can have come from (`StructReal`): a key, which only an entry of a tcache
of 2.29 has, or the patched `mallopt`.

### Only model-checked

* `ProbeSucceeds`, `TcacheAnswerRight` and `TcacheStructFound`. They are about
  the order of the lists. Each states under which conditions it holds (the count
  of the tcache, the number of free chunks and where they are); items 12 to 15 of
  section 5 are what happens otherwise.
* `LeftoversRemoved`: that the fixed numbers of chunks in `cleanHeap` are the
  right ones is a computation, done by TLC.
* Liveness (`RehashEnds`, `StartupEnds`, `AllMeasured`), which is out of the
  prover's reach.

## 5. What the code does otherwise than it says

The first five have a run.

1. **A failed `malloc` leaves old snapshots behind** (`failed_malloc`,
   `ShadowHeapFacade.h:395`, `:418`). `malloc_post` returns on NULL before it
   takes snapshots. The failed call may have consolidated free chunks, and the
   next call stops a correct program.
2. **A failed `realloc` faults** (`failed_realloc`,
   `ShadowHeapWrapper.h:123`). The copy is made to NULL.
3. **An early `realloc` frees nothing** (`early_realloc`,
   `ShadowHeapFacade.h:450`): it is malloc and memcpy without free.
4. **`SHADOWHEAP_SIZE_INITIAL=-1` never starts** (`startup_minus_one`,
   `CachedMetaStore.h:98`). `strtoul` reads it as the largest word; the capacity
   doubles until it wraps to 0, and 0 is always too small. So does every size in
   the upper half of the words.
5. **A kill loses all results** (`experiments_kill`, `run-experiment.py:307`).
   `sync_json` truncates the file and writes to a buffer that nothing flushes
   while the next experiment runs. A command that fails, or an interrupt that
   becomes an exception, loses nothing (`ResultsKept`).

The next ones have a configuration (section 3).

6. **Chunks from before the constructor are unknown** (`StoreHoldsAllInUse` in
   `MCShadowHeapEarly.cfg`, `ShadowHeapFacade.h:394`). "All in-use memory chunks"
   (`README.md:45-46`) are those handed out since; the others' `free` is stopped.
7. **Entries may move by more than one bit** (`MovesOneBit`,
   `CachedMetaStore.h:139`), when the table grows by more than two. The
   conclusion drawn there, that the new bin has space, is right for every
   factor (`TargetHasSpace`).
8. **`setupPointers` is not called "at most once"** (`SetupAtMostOnce`,
   `hookinfo.h:86-87`): the `calloc` of `dlsym` calls it inside itself, and an
   object that was used before its constructor does everything again. Both are
   harmless (`RawCallsHavePointers`).
9. **The assertion of `reserve_double` can fail** (`GrowthAssertion`,
   `CachedMetaStore.h:116`): a factor that has overflowed to a negative number
   or 0 makes the new size no larger than the old one.
10. **Misspelled variables** (`ForeignNamesRefused`, `ModeReader.h:185`): a name
    that continues `SHADOWHEAP` without an underscore is not refused, though the
    comment speaks of names that start with `SHADOWHEAP`.
11. **glibc 2.28** (`TcacheLeakedFrom228`, `leak.cxx:35`): the key of tcache
    entries comes with 2.29. On 2.28 the tcache is detected and its struct is
    not found, unless glibc's `mallopt` is the patched one.
12. **Any `glibc.malloc.tcache_count` but 0 and 7** (`AWentPastTcache`,
    `leak.cxx:141`). Above 7 the fillers do not fill the tcache, the probe's
    chunk goes there, and its link is NULL or another entry of the tcache. From 1
    to 6 the tcache is taken for absent, nothing is filled, and the same happens
    (`leak.cxx:106`). The process aborts at start.
13. **The probe's chunk may not be alone in its bin** (`SortedIntoSmallbin0`,
    `leak.cxx:151`): without a tcache, a chunk of 0x40 or 0x80 bytes freed
    earlier is cut up by the probe's own allocations, what is left of it has the
    probe's size and goes to the same bin. The link that is read is not the
    address of that bin, and the process aborts at start. It never takes another
    address for the arena's (`ProbeSucceeds`).
14. **Free chunks hide the tcache** (`TcacheAnswerAlwaysRight` in
    `MCLeakProbeFull.cfg`, `leak.cxx:55`). With one more free chunk of the
    probe's size than tcache and the probe's two rounds hold, the second round
    is not served in the order the test expects, and the tcache is taken for
    absent. The configuration shows it with bins of two entries in place of
    seven; the default needs 15 chunks. One larger free chunk outside the tcache
    does the same, if the probe's requests are cut from it and the last piece is
    one unit too large to be cut again (at the default, 17 to 29 units of 16
    bytes, odd). The test is run twice, and the second answer, of the conversion
    at `leak.cxx:174`, can differ from the first. So `TcacheAnswerRight` asks
    that all free chunks are in the tcache.
15. **A tcache where there is none** (`TcacheAnswerAlwaysRight` in
    `MCLeakProbeNone.cfg`, `leak.cxx:114` "we definitely have a tcache now").
    Without a tcache, chunks that are free and not neighbours come back from the
    fastbins by way of the small bins, and that reverses them as well. The
    configuration shows it with rounds of two chunks in place of seven, after
    four chunks of the probe's size were freed; the default needs 14. It is
    harmless: the word that is read was zeroed, which counts as "no key", and
    then `mallopt` is asked (`TcacheStructReal`, proved for every heap).
16. **`delete-experiment` deletes more than named** (`DeletesOnlyNamed`,
    `run-experiment.py:167`): `re.match` accepts every name that starts with the
    argument, so deleting `shadow` deletes `shadow-usb` as well.
17. **Heads and counts of the tcache are trusted**
    (`ListedDamageCaughtAtNextCall` in `MCShadowHeapCounts.cfg`,
    `ShadowHeapFacade.h:157-160`). A bin whose head is NULL or whose count is 0
    is skipped, "TODO counts might be manipulated". After one write to the count
    and one to the link of a chunk in the bin no check fails, though that chunk
    is one of those snapshotted. A changed head that is not NULL is caught. The
    arena's pointer to the top chunk is trusted as well.

## 6. Not modelled, and why

* The message texts, statistics, `print_arenainfo` and the `print_` and `count_`
  functions of the probes: output only.
* The two layouts of the tcache struct: the same fields at other widths.
* `update_next_chunk_in_storage`, `matches_chunk` and the commented-out
  consolidation code: nothing calls them.
* The `memalign` family and threads, which the program's README says are not
  supported (`README.md:91-94`); `mallopt` and `malloc_trim`, which
  are not among the functions it lists as wrapped; returning from a SIGILL
  handler (the default action is assumed). Those that bite in code that is
  modelled are listed as hazards.
* Stray writes before the constructor: nothing is protected yet.
* Stray writes to ShadowHeap's own data: the addresses in `ARENA_INFO`, the
  snapshots and the store, which lies on the same heap as the application's
  chunks. A damaged store or snapshot may cause an alarm or miss damage.
* How a process goes on after glibc has worked on damaged free memory.
* The contents of application memory, except for the sizes in `ReallocCopy`.
* "Dumped" chunks of the main arena, which `ReallocCopy` leaves out: only
  `malloc_set_state` makes them.
* In `Ptmalloc`: the last remainder, and a top chunk that is too small. A probe
  that meets either is not covered.
* `convert-to-csv` and `plot` of the experiment runner only read the results.
* Tests, benchmarks, runners: read as statements of intent.

## 7. Plan

In this order; modules marked * exist.

1. `ChunkMeta`*, `MetaStore`*, `MetaStoreSpec`*, `GlibcHeap`*, `ShadowHeap`*:
   the protocol of checks and snapshots, its main safety proved*.
2. `CachedMetaStore`*: the production store, as a refinement of the map, with
   its invariants and the refinement proved*.
3. `ReallocCopy`*: sizes in the copy, proved*.
4. `VectorMetaStore`*, `HashMetaStore`*: the other stores as implementations of
   `MetaStoreSpec`, proved*.
5. `Startup`*: the environment, and growth at machine width, proved*.
6. `HookInfo`*: the `dlsym` bootstrap, proved*.
7. `Ptmalloc`*, `LeakProbe`*: the probes on explicit free lists; that they keep
   nothing and are given no false struct proved*, for every heap before them.
8. `ExperimentRunner`*: resume and save with failures and a kill.
9. Proofs*: `DamageCaughtAtNextCall`, with the invariant that a snapshot
   describes the memory except for what was written since; the invariants of
   `HookInfo`, of `Startup`'s modes, of `ExperimentRunner` and of the probes.
10. `AllocatorSpec`*: what the four functions promise the application, and
    `ShadowHeap` shown to implement it, checked and proved*.

What is left is in the prover's way rather than in the plan: see the end of
section 4.
