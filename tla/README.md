# A TLA+ development of the oversubscribed GPU data structures

The repository holds hash tables and skip lists for NVIDIA GPUs that live in
unified (managed) memory and may be larger than the device: HTUVM, a flat
open-addressed hash table; HTOVS, a two-level one with an inner table per key
range; GFSL, a chunked skip list with fine-grained locks; its two-level version;
and the applications built on them. This directory models the parts that run
concurrently, checks them with TLC on small instances, and proves with TLAPS,
for every instance, the safety of the hash tables, of the k-mer counter, of the
BUSY_WAIT token and of the two-level skip list, and of GFSL itself the locks and
the shape of the list.

## 1. Inventory

| component | state | operations | interaction |
|---|---|---|---|
| HTOVS, `gpu/hashtable/gpu_part_batch_HoH_CG.cuh` | outer slots (range, unique_keys), inner slots (key, value) | insert, delete, search kernels; one cooperative group per operation | kernels on shared memory, launched by the driver |
| its driver, `driver_hetero_hash_batch.cu` | batches, one result buffer per kind | insert phase, delete phase, search phase | waits for each kernel |
| HTUVM, `gpu_impl_UVM_CG.cuh`, `driver_hashtable_UVM.cu` | one table of (key, value) | the same three kernels; several runs on one table | same |
| k-mer counting, `gpu/applications/kmer_counting*.cu`, `*_kmer.cuh` | a table whose values are counts | insert kernel with `atomicAdd` | batches of the genome |
| metacache, `gpu/applications/metacache*.cu` | a hash table of k-mers to taxa | insert, then search | uses the tables' kernels |
| GFSL, `gpu/skiplist/skiplist_gfsl.cuh` | chunks of sorted keys per level, locks, zombies, a pool, a counter per level | insert, erase, contains, predecessor, first and last key, by warps | spin locks; readers and searchers without locks |
| its drivers, `trace_bm_gfsl_uvm.cu` ... | batches, result buffer, the flags of BUSY_WAIT | one kernel per batch, the loop of a warp, the token | warps spin for each other's flags |
| two-level GFSL, `skiplist_gfsl_hetero*.cuh`, `trace_bm_gfsl_hetero.cu` | a GFSL per range, a GFSL of ranges, minKey and maxKey of each range | batches; predecessor across ranges | calls into GFSL |
| GFSL variants (fixed index, separate pool, unsorted, range, k-mer) | as GFSL | as GFSL | as GFSL |
| `include/` | options, primes, record layouts | capacity, comparators, trace input | used by all |
| scripts, vendored code | - | - | not part of the running system |

What is hard in this code:

* **Groups and warps of one kernel interleave at every memory access.** The
  tables' groups race for slots with `atomicCAS`, read with plain loads that may
  be stale, store values after the key is visible, and decrement a counter
  without atomics; the counter decides whether a whole range is given back.
* **The probe sequence is different for different operations**: lanes start
  with different positions, so some leave the loop windows before others.
* **Tombstones, full tables, duplicate keys in a batch, key 0.**
* **Result buffers are reused** by all batches of a kind and only partly
  written.
* **The skip list's searches go without locks** through chunks that are being
  split, merged and shifted, past zombies that they unlink themselves, down
  pointers that are brought up to date late; inserts and erases hold locks of two
  levels while they search again.
* **The kernels' loops** depend on three numbers the host computes in different
  ways, and in the BUSY_WAIT build on which blocks are resident.

What makes each component correct: a table behaves as a map between kernels
and never loses or duplicates a key; counts are what they claim to count;
kernels end; a skip list behaves as a linearizable set, its levels stay sorted
and disjoint, every key is reachable at any time, and its locks are not waited
for in a circle; every operation of a batch is executed once.

`PROJECT.json` lists each hazard at its line with the properties that would
catch it.

## 2. Modules

    ProbeSequence        windows and lanes of a probe; a read-only scan
      GroupInsert        ballot, atomicCAS, value store; NoHole, OneSlotPerKey
        BatchDriver      phases, batches, buffers of the host
          HoHTable       HTOVS                <- MCHoHTable
          UVMTable       HTUVM                <- MCUVMTable
            BatchMap     (abstract) what UVMTable implements
        KmerTable        k-mer counting       <- MCKmerTable

    GFSLChunk            a chunk and what a warp computes from one it has read
      GFSL               insert and erase, step by step; host and kernel
        GFSLProperties   invariants, refinement of
          ConcurrentSet  (abstract) a linearizable set
          GFSLQuery      contains, predecessor, first, last  <- MCGFSL
          GFSLList       the inductive invariant of the list
    TwoLevelList         the two-level skip list             <- MCTwoLevelList
    WarpToken            kernel loops, grids, BUSY_WAIT      <- MCWarpToken

    BatchDriver_proofs   lemmas shared by the two tables' proofs
      HoHTable_proofs    types, holes, unique keys, counts of HTOVS; HTOVS is a map
      UVMTable_proofs    HTUVM implements BatchMap
    KmerTable_proofs     the k-mer counts
    WarpToken_proofs     each operation once, first chunks in order
    TwoLevelList_proofs  lookups, bounds, predecessors
    GFSL_proofs          who holds which lock of the skip list; what a step changes
      GFSLList_proofs    the list stays sorted, linked and reachable

No module uses a RECURSIVE operator.

### Hash tables

**ProbeSequence.** A group of `GroupSize` lanes (COOP_GROUP_SIZE) looks at a
window of as many consecutive slots and goes on by `Stride`, the second hash,
which is a constant: COOP_GROUP_SIZE in HTOVS, whose targets in the Makefile
define CG (`driver_hetero_hash_batch.cu:166`), 32 in the flat driver whatever the
group size (`driver_hashtable_UVM.cu:203`) and in the k-mer counter, whose target
does not define CG (`Makefile:87`, `global-vars.h:31`) while its groups have 16
lanes (`constants.h:54`). `home + w * Stride + lane`, modulo the capacity, is the
code's `i`. Which lanes are still in the loop in window `w` is derived from the
initial value of `pos` and the loop's end test: `InsertLanes` (inserts and flat
deletes; with a stride wider than the group lane r starts with `pos = r`, and the
loop runs for as many windows as there are slots), `EarlyLanes` (inner deletes and
searches of HTOVS, where lane r starts with `pos = r`), `LookupLanes` (flat
lookups). The hash function is abstracted to `Home`, any function of the key.

**GroupInsert.** The insert of one group, step by step, as in
`insertgpu_inner_hashtable_CG` and its two copies: `Ballot` (load the window,
vote for a hit, else for free slots), `Claim` (the lowest lane of the mask
tries its CAS: won, duplicate, or lost), `NextWindow`, `StoreValue` (rank 0
writes through the returned address, after the key is visible).
A plain load of a word that other groups write may return the word of the
kernel's start or the current one: words change at most once in an insert
kernel, so these are all the values there are.

**BatchDriver.** The host: insert, delete, search batches in this order; a
batch is any assignment of operations to the groups 1 .. n. Buffers survive
from batch to batch. `requested` and `deleted` are history variables.

**HoHTable.** Outer slot, inner table and count. `AddUnique` is the atomicAdd
of the winner; that of the leader lane and the value store of rank 0 are
ordered one way here, nothing in the kernel reads either. The delete is
`DeleteRange`, `DeleteScan`, `WriteTombstone`, `LoadCount`, `StoreCount`,
`FreeRange`: the decrement is a plain load (of any value the count had since
the kernel started) and a plain store, and the outer leader, lane 0, looks at
the count on its own, possibly before the lane that hit has stored it.

**UVMTable.** The same with one table, no count, the wide stride, and
`NextRun`, the memset between runs. `BatchMap` is its specification: a map
that is worked on by batches of operations that take effect one at a time in
any order. The refinement maps an insert to its value store and a delete to
its tombstone, or to the ballot that ends an unsuccessful scan.

**KmerTable.** The insertion protocol with `AddOne` for the value store, with
key 0 (poly-A) allowed, as `encode_base` and `build_kmer_key_host` allow it. The
stride is wider than the group, so windows leave slots out and lanes leave the loop
one by one (`gpu_impl_UVM_CG_kmer.cuh:153`, 217). `KmerAssumption` asks that such
a stride and the capacity have no common divisor, or that one window is as wide as
the table: the stride is 32 and the capacity a prime (`getCapacity`).

**Steps that stand for several loads.** A search kernel changes nothing it
reads, so a search is one step. In a delete kernel other groups change only the
slot of the key itself among those a scan can stop at, so the scan is one step
that sees the present or the starting state of the table.
`FreeRange` joins its load of the count and its store of the range; a later
store shows in `oldRange`, which stale loads may return.

### Skip list

**GFSLChunk.** A chunk is `[data, max, next, lock]`: DSIZE entries, the word
with the maximum and the successor, the lock word (unlocked, locked, zombie).
A warp reads a chunk into its lanes' registers and decides by ballots; the
operators have the code's names (`TidForNextStep`, `InsertionIdx`, ...) and
work on a chunk that was read.

**GFSL.** `chunk` is the pool, `ctr` the counters of the head, `allocated` the
allocation counter; `pc` and `loc` are the program counter and the registers of
each warp; `trace`, `batch`, `pos`, `result` are the driver's: one kernel per
batch, warp w takes the operations w, w + W, ... An action is one memory
instruction with the computation that follows it, under the name of the
function or of what it does:

| function of the code | actions |
|---|---|
| `searchSlow` | SearchStart, SearchRead, SearchMeetZombie, TryLockPrev, TryLockFails, RecheckPrev, GiveUpUnlink, SkipZombie, UnlinkZombies, UnlockPrev, StepRight, StepDown, BackTrack, RestartSearch |
| `findAndLockEnclosing` | WalkToEnclosing, LockEnclosing, NotEnclosing, RetryEnclosing |
| `insert`, `insertToLevel`, `executeInsert` | SearchRefuses, SearchLeads, InsertPresent, InsertFits, InsertOverflows, ShiftRight, IsLevelEmpty, IncrementNumChunks, RaiseKey, UnlockEnclosing, UnlockBottom |
| `splitInsert`, `preSplit`, `splitCopy`, `insertNewData` | FindNext (ReadNext, WalkToNext, LockNext, CheckNext, RedirectNext), GetNewChunk, UnlockNext, SplitCopy, EmptyMoved, UnlockOther |
| `erase`, `eraseFromLevel`, `executeDelete` | EraseAbsent, EraseInPlace, LowerMax, ShiftLeft, ReadHeight |
| `mergeDelete`, `MarkZombie` | EraseByMerge, MergeRead, MergeShift, ShiftData, MergeCopy, MarkZombie, DecrementNumChunks, UnlockMerged |
| `updateDownPtrs` | DownSearched, DownRead, DownLock, DownWrite, DownUnlock |

A register is named for the code's variable; `caller` is the return address of
`searchSlow`, which `insert` and `erase` call and `updateDownPtrs` as well.

`decided` is a history variable: the answer an operation is bound to give, set at
the instruction that fixes it (the store that makes the key appear or, for a
merge, the zombie mark). **ConcurrentSet** is the abstract specification; the
refinement maps its set to the keys of level 0 as a walk would find them
(`LevelKeys(0)`: the keys in the chunks that enclose them) and its calls and
answers to the kernel's.

Abstractions: memory is sequentially consistent, a chunk is read in one step and
a store that several lanes execute together is one step (the 32 words of a
chunk are read by one load instruction of the warp, but the hardware does not
promise that it is atomic); a spin is the guard of the step that ends it; the
limit of 10,000,000 restarts of a search is no limit; a value is its key; the
lanes of a warp stay together (they do at each collective). The branches for an
invalid successor are unreachable, since the last chunk of a level never becomes
a zombie; TLC would stop at a chunk that is none.

**GFSLQuery.** The queries run in kernels of their own in the drivers, so they
are functions of the pool. A result the code leaves uninitialised is any key.

**TwoLevelList.** `range`, `inner`, `minKey`, `maxKey` of each slot and
`rangeList`; a step per memory instruction around the inner lists, which are the
sets that GFSL implements (their operations take effect in one step: that is
what `ImplementsSet` says). The tests `minKey > key` and `maxKey < key` are plain
loads and may return any value of the word since the launch (`pastMin`,
`pastMax`).

**WarpToken.** The loop head, the spin, the chunk of KEYS_PER_WARP operations,
the flag handed on, for a run of kernels with the grid and the number of warps
each is given (the OPT_GRID build, whose insert grid is a constant).
`Dispatch` is the hardware's: the next block starts when one of the `Resident`
ones ends.

## 3. What is left out of the modelled parts

* The collision path of the outer hash table: the drivers make the outer table at
  least as large as the number of ranges and index it by the range, so every
  range has a slot of its own. Searches start lane r at outer slot range + r;
  only the result of lane 0, which looks at the range's own slot, is stored.
* LINEAR_PROBING, QUADRATIC_PROBING, STATS and the prefetch/advise options.
* Sorting of batches (FSORT, BSORT): it permutes a batch or the trace, and a
  batch is arbitrary here. Trace files, options, timing, printing.
* The key UINT32_MAX, which is TOMBSTONE_KEY and POS_INF: `Keys` excludes it by
  an assumption. Keys and values of the traces are not 0 except in `KmerTable`.
* Word sizes other than that of `unique_keys` (`CounterMod`).
* GFSL: the end of the pool. `GetNewChunk` wraps as the code does, but the pools
  of the runs are larger than what they allocate.

### Not modelled

* The **vendored code** (cccl, cuCollections, catch2, gph), which is some 665,000
  of the repository's 678,000 lines: not this program. It is the reason why the
  map can cover only a small share of all lines.
* **k-mer counting on the two-level table**: HoHTable's insert with KmerTable's
  `atomicAdd` in place of the value store and, as its target does not define CG
  either, KmerTable's wide stride; each of these is modelled, their combination is
  not.
* **metacache**: file reading and batches over the tables' kernels. `metacache-htovs`
  runs the two-level table without CG, so with a stride of 32 for groups of 16;
  `HoHTable` assumes Stride = GroupSize and is about the `htovs` targets.
* **GFSL variants**: each file repeats `skiplist_gfsl.cuh` with one change of
  layout (index arrays, a pool per level, unsorted chunks) and would need a copy
  of `GFSL`; the k-mer and classifier versions of the two-level list and of the
  drivers differ in input handling.
* **Statistics** feed no decision; **scripts** are no part of the system.

## 4. Runs

All bounds are CONSTANTS of the configurations. Hash tables: `MaxInserts`,
`MaxDeletes`, `MaxSearches` (batches of a kind), `BatchSize` (groups of a kernel),
`MaxRuns`, `MaxKmers`, `Capacity`, `GroupSize`. Two groups are enough for a race
on one word and three for a third one that finds the aftermath; capacity 3 with
windows of 2 has windows that overlap and wrap, and three keys fill it. The stride
of `kmer_counts` is twice the group, as 32 is of 16; its four keys other than 0
collide and take a group to its third window. Lane 1 leaves the loop before the
fifth and last, by when every slot has been looked at: a group gets there only if
the table is full of other keys, which it never is. `CounterMod = 8` leaves the
counter room to go below zero and be seen as huge. Skip list: `DSize`, `TopLevel`,
`PoolSize`, `MaxKey`, and `Traces`: the list is built by batches of one operation,
whose steps do not interleave, and then batches of two or three operations race;
with chunks of three entries eight to ten keys make three levels. The traces of
`MCGFSL` were chosen so that each action is taken and each race named there
happens; an exhaustive choice of batches is out of reach.

| run | question | result |
|---|---|---|
| `hoh_delete` | three groups, colliding keys of two ranges, then two delete batches without duplicates and with unsynchronised decrements: holes, double slots, wrong addresses, a range freed with keys in it, a delete lost or not reported? | holds |
| `hoh_batches` | two insert batches, enough of one range to fill its inner table, then searches: does each key have a value of the last batch that named it, and does every kernel end? | holds |
| `uvm_map` | does the flat table implement `BatchMap`, over two runs and with duplicate deletes? | holds |
| `kmer_counts` | are the counts of racing k-mers exact at all times, but for poly-A, and does every k-mer add one somewhere? | holds |
| `gfsl_ops` | six traces of racing inserts and erases: is the list a linearizable set, are its chunks, counters, locks and down pointers as they should be, is each lock held by one warp and each new chunk free, do the queries answer right, does every operation return? | holds |
| `token` | three BUSY_WAIT kernels, more blocks than are resident, flags left set: is each operation executed once, do waiting warps start in order, does nobody spin for ever? | holds |
| `hetero` | three warps, two insert batches, one delete batch, four ranges: lookups, bounds, predecessors? | holds |
| `hoh_dup_delete` | the same key twice in a delete batch | violated: finding 1 |
| `hoh_probe_end` | is every inserted key found? | violated: finding 2 |
| `gfsl_livelock` | does every delete answer that it deleted its key? | violated: finding 3 |
| `gfsl_pred` | is a predecessor below its key? | violated: finding 4 |
| `hetero_pred` | does a predecessor 0 mean that there is none? | violated: finding 5 |

`PredecessorRight`, `FirstKeyRight` and `LastKeyRight` of the skip list exclude by
name the situations in which the code is wrong (finding 4 and the list below), and
only those. `CHECK_DEADLOCK` is on everywhere: when the driver is through it
stutters explicitly (`Finished`), and any other state without a step, a circle
of locks for one, would be an error.

**Fairness.** Hash tables (`KernelsFinish`): weak fairness of the steps of each
group; a group is never waited for by another one, so it suffices that the
hardware runs each launched block to completion, which CUDA guarantees. Skip list
(`AllReturn`): weak fairness of each warp and of the host; warps spin for locks of
others, and independent progress of warps of resident blocks is what the hardware
gives. A spin gets a lock that stays free; a lock that others take again and again
is not promised to anybody, and the traces are finite. The erase of
`gfsl_livelock` runs all the time, so no stronger fairness of steps changes that
run; the traces of `gfsl_ops` have restarts that end (RestartPlan) and none of the
deletes of finding 3, so there `AllReturn` is about everything else. Token
(`AllKernelsEnd`): in addition blocks start in the order of their numbers as
others end. CUDA's hardware does this, its documentation promises no order; with
another order the resident blocks could all wait for one that is not.

## 5. Findings

1. **Duplicate deletes free a range that holds keys** (`hoh_dup_delete`,
   `gpu_part_batch_HoH_CG.cuh:377`). Two groups that delete one key both see it
   and both decrement `unique_keys`. When it reaches 0 the outer slot is zeroed
   although the inner table holds another key, whose later deletion fails.
2. **Unreachable keys** (`hoh_probe_end`, line 518): a key in a late window at a
   high lane is inserted but neither found nor deleted, against the comment on
   the loop's end. It takes a nearly full inner table, as the program's own
   numbers allow: capacity 1031 and groups of 16 give 65 windows.
3. **A delete that does not end** (`gfsl_livelock`, `skiplist_gfsl.cuh:1134`). An
   erase that merged a chunk searches for the smallest key the chunk had, to update
   the down pointers above; when the deleted key was the first of its chunk that is
   the deleted key. With chunks merged on levels 0, 1 and 2 and the key still on
   level 3, the search comes down into the zombie of level 2 and backtracks through
   it to a chunk without a smaller key, where it starts again. One warp and one
   delete suffice; other erases then spin for the locks it holds. With the limit of
   10,000,000 restarts the search ends without a path and the down pointers are
   written through an invalid chunk. With chunks of 30 entries, merged from 11
   down, it takes a list with four levels that deletes have thinned.
4. **A predecessor that is no predecessor** (`gfsl_pred`, line 2084): the walk
   takes the maximum of the zombie it came from.
5. **Predecessors across ranges after deletes** (`hetero_pred`,
   `trace_bm_gfsl_hetero.cu:246`): minKey and maxKey are not lowered.

Further deviations, read off the code and not given a run:

* A failed delete is not written to the reused status buffer
  (`gpu_part_batch_HoH_CG.cuh:471`), although the driver says that all indices
  are overwritten (`driver_hetero_hash_batch.cu:356-357`); so for failed searches
  (line 638 and 457-459). `DeletesReported` is about successful deletes.
* A poly-A k-mer adds to the count of a slot it does not own
  (`gpu_impl_UVM_CG_kmer.cuh:164`); `CountsAreExact` bounds the error by the
  number of poly-A k-mers and `EveryKmerAddsOne` shows that nothing else is lost.
* The predecessor of an absent key may be returned uninitialised
  (`skiplist_gfsl.cuh:2101`); `findFirst` looks into chunk 0 also when it is a
  zombie (2146); `findLast` takes lane -1 of an empty last chunk (2132).
* The pool is made for 15 keys a chunk (`trace_bm_gfsl_uvm.cu:332`), but zombies
  are never used again and merges split; at its end the counter wraps and hands
  out the first chunk of level 0 (`skiplist_gfsl.cuh:805`). `createSparseGFSL`
  allocates (1 << ks)/15 + 33 chunks and tells the pool (1 << ks)/14
  (`skiplist_gfsl_hetero.cuh:37-74`).
* The UVM driver divides a delete kernel's number of warps by KEYS_PER_WARP in
  builds without BUSY_WAIT as well (`trace_bm_gfsl_uvm.cu:697`), where warps take
  one operation at a time: with KEYS_PER_WARP above 1 some deletes run twice.
  (`WarpToken` with `BusyWait = FALSE` violates `EachOnce`.)
* A stale maxKey may be returned as the predecessor after its key was deleted.

## 6. Proofs

Each theorem is about the `Spec` that the runs check and holds for every value of
the constants that the named ASSUMEs allow: every capacity, group size, stride,
home function, number of groups, warps, batches and keys.

| module | theorem | statement |
|---|---|---|
| HoHTable_proofs | `TypeCorrect` | `Spec => []TypeOK` |
| | `NoHoleAlways`, `KeysAreUnique`, `AddressesAreRight` | `Spec => []NoHole`, `[]OneSlotPerKey`, `[]ValueAddressIsOfKey` |
| | `SlotsOnlyMoveForward` | `Spec => SlotsMoveForward` (an action property) |
| | `CountsMatchSlots` | `Spec => []CountMatchesSlots` |
| | `CountsCoverKeys`, `FreedRangesAreEmpty` | DistinctDeletes: `Spec => []CountCoversKeys`, `[]FreedRangeHoldsNoKey` |
| | `MapIsRight` | Roomy, DistinctDeletes: `Spec => []TableIsMap` |
| | `DeletionsSucceed`, `DeletesAreReported` | Roomy, DistinctDeletes: `Spec => []NoFailedDeletion`, `[]DeletesReported` |
| | `RoomInNumbers` | a condition on numbers that implies Roomy |
| UVMTable_proofs | `TypeCorrect`, `NoHoleAlways`, `KeysAreUnique`, `AddressesAreRight` | as for HTOVS |
| | `TableImplementsMap` | UVMRoomy: `Spec => ImplementsMap` (refinement of `BatchMap`) |
| | `UVMRoomInNumbers` | a condition on numbers that implies UVMRoomy |
| KmerTable_proofs | `TypeCorrect`, `CountsAreRight`, `KmersAddUp` | `Spec => []TypeOK`, `[]CountsAreExact`, `[]EveryKmerAddsOne` |
| WarpToken_proofs | `WarpsStartInOrder` | `Spec => []FirstChunksInOrder` |
| | `OperationsRunOnce` | GridCovers: `Spec => []EachOnce` |
| TwoLevelList_proofs | `LookupsAreRight`, `BoundsAreExact`, `PredecessorsAreRight` | `Spec => []LookupsRight`, `[]BoundsExact`, `[]PredecessorRight` |
| GFSL_proofs | `LocksAreReleased` | `Spec => []LocksReleased` |
| | `LocksAreExclusive` | NewChunkIsFree: `Spec => []LocksExclusive` |
| | `WritesAreLocked` | NewChunkIsFree: `Spec => StoresAreLocked` (an action property) |
| GFSLList_proofs | `ListIsKept` | PoolSuffices: `Spec => []CountedInv`, the invariant of the list and of the head's counters |
| | `NewChunksAreFree` | PoolSuffices: `Spec => []NewChunkIsFree` |
| | `LocksStayExclusive`, `WritesStayLocked` | PoolSuffices: `Spec => []LocksExclusive`, `StoresAreLocked` |
| | `ChunksAreSorted` | PoolSuffices: `Spec => []ChunksSorted` |
| | `DownPointersAreLeft` | PoolSuffices: `Spec => []DownPointersLagLeft` |
| | `KeysGoRight` | PoolSuffices: `Spec => KeysMoveRight` (an action property) |
| | `CountersAreRight`, `TypesAreKept` | PoolSuffices: `Spec => []CountersMatch`, `[]TypeOK` |

### Hypotheses

The ASSUMEs of the modules, which TLC evaluates in the runs, are the numbers the
drivers guarantee. Five more hypotheses stand in the theorems that need them,
because the code guarantees none of them in every build:

* **DistinctDeletes** (a constant of `BatchDriver`): no delete batch of HTOVS names a
  key twice.
  Without it the theorems are false: finding 1, run `hoh_dup_delete`.
* **Roomy** (`HoHTable_proofs`): the keys of each range fit in its inner table, and
  no lane has left the loop of a delete or search before the windows that many
  keys can occupy. Without it they are false: finding 2, run `hoh_probe_end`.
  Lane r leaves r windows early, so what is out of reach is at the end of the
  probe sequence. For the default range of 1 << 10 keys and the capacity 1031
  (`getCapacity`), every range of at most 1023 keys is Roomy with groups of 4, of
  983 with groups of 8, of 815 with groups of 16, of 95 with groups of 32.
  `RoomInNumbers` proves it from a bound that is simpler and a little lower
  (1023, 983, 807, 71): keys plus (GroupSize - 1)^2 - 1 do not exceed the
  capacity, nor do the keys. The constants of `hoh_delete` and `hoh_batches`
  satisfy both hypotheses.
* **UVMRoomy** (`UVMTable_proofs`): either the windows of a group overlap or touch
  (Stride <= GroupSize), or they all start at different slots and the inserts,
  or the keys there are, leave GroupSize slots free. `UVMRoomInNumbers` proves it
  for the driver's stride of 32 and every odd capacity (`getCapacity` returns a
  prime) of at least ten group sizes, because the driver fills the table to nine
  tenths. The constants of `uvm_map` satisfy it with Stride 3 and GroupSize 2.
* **GridCovers** (`WarpToken_proofs`): where the host divides a delete kernel's
  warps by KEYS_PER_WARP (`trace_bm_gfsl_uvm.cu:697`, 784, 839), a block has as
  many warps as the operations it is launched for, and KEYS_PER_WARP is 1 unless
  the kernel spins. True for the defaults BLOCK_SIZE = 512 and KEYS_PER_WARP = 1;
  the options allow others, for which deletes run twice.
* **PoolSuffices** (`GFSLProperties`), at all times: the allocation counter of the
  pool, which wraps to 0 at its end (`skiplist_gfsl.cuh:805`), has not wrapped.
  The code does not check it, and `GetNewChunk` in the model hands out
  whatever the counter names; in `gfsl_ops` it is a conjunct of `TypeOK`, which TLC
  checks. Without it two warps hold one chunk and the list is no list.
  The theorems of `GFSL_proofs` state what of it they need, NewChunkIsFree: the
  counter names no chunk that is held; `NewChunksAreFree` derives it.
  `LocksAreReleased` needs neither. `TypesAreKept` proves the rest of `TypeOK` from it.

No run checks `StoresAreLocked` itself, which is about every step of every warp.

### The arguments

None of the properties is inductive; TLC checked each of the strengthenings
below on an instance before it was proved.

**Insertion protocol** (`BatchDriver_proofs`: `InsertInv`). *A free slot is the
only thing that changes in an insert kernel, and it changes once.* From it follow
the strengthenings: a word read earlier is either still there or was free when
read; every slot a group has passed without a hit (windows before `win[g]`, lanes
of this window that are out of its mask or below its leader) is not free and
does not hold its key, and never will; a slot still in the mask was free at the
ballot. So a successful CAS puts a key where every earlier slot is occupied (no
hole) and none holds the key (one slot). That the second key cannot arrive later
in a passed slot rests on `NoHole` and `OneSlotPerKey` themselves, which is why
they are one invariant. Deletes only turn keys into tombstones, which are not
free; the next insert phase of the flat table starts after the memset.

**Counts of HTOVS** (`CountInv`). In insert kernels the count and the groups
between their CAS and their `atomicAdd` together are the occupied slots. In
delete kernels what survives the lost decrements is an inequality: the count,
every value of it that a group still holds in a register or may still load (loads
return any value since the launch), is at least the keys left plus the
decrements not yet stored. As no key is named twice, each decrement has a key of
its own. A count that is read as 0 then means that there is no key.

**HTOVS is a map** (`MapInv`). `KeysPlaced`: the inserted and not deleted keys
are in their slots with a value of the last batch that named them, or a group is
on its way to do that; `KeysAccounted`: a deleted key is in no slot unless a
group is about to write its tombstone; `KeysReachable`: the offset of a key in its
probe sequence is below the number of keys of its range, since all offsets
before are occupied by others (an injection), and so, by Roomy, in reach of the
delete and search loops; `FindsReported`: which lanes of a delete kernel have
reported what.

**HTUVM implements BatchMap** (`MapInv`). `SlotsCounted` bounds the occupied
slots by the inserts so far, so that an insert never runs out of windows and a
lookup, whose lanes leave GroupSize windows early, still meets its key or a
free slot; `ValuesWritten`: the value word of a free slot is zero, so that the
claim, which makes the key visible with value zero, changes nothing that the
abstract map says, and the value store is the abstract insert; `OldScans`: a scan
that stops at a free slot seen with an old load stops there now; a tombstone is
only written to a slot that held the key at launch. Each action is then shown to
be a step of `BatchMap` or a stutter.

**k-mer counts** (`KmerInv`). `SumsOK`: the k-mers so far are the sum of `genome`,
at most `MaxKmers <= Capacity`. A group that found no place would have passed
every slot: windows that touch cover the table (`NarrowWindowsCover`), so does a
single one as wide as the table, and of windows further apart there are as many as
slots, with lane 0 in all of them and at another slot in each (`WideWindowsCover`;
two windows at one slot make the capacity divide the stride times a smaller
number, and by `CoprimeDivides` that number). So all slots hold other keys, each
with at least one k-mer of the genome, and with its own there would be more k-mers
than slots; so nobody gives up and no k-mer is lost. `CountsOK`: the count of a
slot and the groups on their way to add to it are together at least the
occurrences of its key and, with the poly-A groups that may still add to it, at
most these and all poly-A k-mers; a free slot has at most the poly-A k-mers; a key
without a slot is on its way in all its occurrences. Key 0 makes `Sentinel` a key,
so a group of key 0 "hits" the first free slot it sees.

**Token** (`OrderInv`, `OnceInv`). A set flag says that all waiting warps before it
have finished a chunk of this or an earlier kernel; a warp that works does so
behind a set flag. The chunks of different warps are disjoint arithmetic
progressions, so an operation has one owner (`Owner`), which is behind it if and
only if it ran.

**Two-level list** (`LookupInv`, `BoundsInv`). A present key lies in the slot of its
range, which is marked. The tests of minKey and maxKey may be decided by old
values; but minKey only sinks and maxKey only grows in an insert kernel, so an old
value errs towards one `atomicMin` or `atomicMax` too many. *A key outside the bounds
of its slot has a warp that will move them*, hence none when the kernel is over.

**Locks of the skip list** (`ReleaseInv`, `ExclusiveInv`). A lock word does not name
its owner; a warp knows what it holds by where it is in the code. `Holds(w, c)` says
so: six registers may name a chunk that the warp has locked, each at certain
program counters. `Control` ties these registers to one another and to the program
counter: which of them is Nil where, when `bottom`, the chunk of level 0 that is kept
locked to the end, is the enclosing chunk of this level, on which of its two chunks
a split goes on. *Each locked chunk has a holder* (`Accounted`); when all warps have
returned nobody holds anything, hence `LocksReleased`. The invariant is inductive
by what is proved of a step of a warp: it changes its own registers only (`StepFrame`),
the lock words that `StepLock` names and no others (`StepPool`), keeps `Control`
(`StepControl`) and holds afterwards what it held or locked, less what it unlocked
(`StepHolds`).

For exclusion the converse is needed, that *nobody holds an unlocked chunk*, and
with it that a warp does not have one chunk under two names: it would unlock it
once and believe to hold it still (`Apart`, kept by `StepDiffers`). What a warp
unlocks it holds (`GivesOwn`), so nobody else does, and it does not afterwards
(`StepGives`); what it locks was not locked, so nobody held it; a new chunk is
free by hypothesis. A zombie may have several warps that still name it, which
store to it harmlessly, if at all. `StoresAreLocked` then takes one look at each
store (`StepKeeps`): it goes to a chunk the warp holds, or to the one just
allocated. So what a warp has read from a chunk it has locked stays true until it
unlocks it, on which `insert`, `erase`, splits and merges rely.

**The list** (`ListInv` of `GFSLList`, a part of `CountedInv`). Searches walk
without locks through chunks that are split, merged and shifted meanwhile, so the
invariant must say of *every* chunk ever linked, zombies included, where a walk
from it can lead, and of every register of every warp what it is still good for.
Four ghosts say what the memory does not: `lvl`, the level of a chunk since it was
linked; `low`, the lower end of its keys; `rank`, which falls along every `next`
and so forbids circles; `chain`, the chunks that the next pointers from the head
still pass or that are not zombies. They are under an existential quantifier in
`CountedInv`, so the specification needs no history variable. `Node` is about one
chunk: its successor is on its level, of lower rank, and begins where it ends, if
it is in the chain (`EndOf`: a zombie has no keys left, so it ends where it
begins), or not further right than it began, if it was a zombie before; its
entries are sorted and between `low` and `max` unless a warp is shifting them at
the moment (`Busy`); above level 0 each leads to a chunk one level down that
begins below its key. What makes this inductive is that *`low` of a chunk only
ever sinks* (`Sinks`): a merge moves keys to the right neighbour, whose `low`
becomes the zombie's, a split gives the right part to a new chunk. So a chunk from
which a key could be reached, by going right, is one for ever (`From`), and this
is all that searches, stored paths and down pointers rely on.

The warps' part has one conjunct per stretch of the code: `SearchOK` (a zombie
that is being unlinked is still as it was read, since zombies do not change, and
the locked predecessor still points to it), `LevelOK` (the path leads to the
enclosing chunk on each level), `NextOK` (the successor that is locked next to a
split or merged chunk), `SplitOK`, `ShiftOK`, `MergeOK` (which lanes have been
stored so far, relative to the chunk as it was read: a shift writes the lanes one
after the other and leaves one entry double in between), `DownOK`. TLC checked the
invariant, with the ghosts as explicit variables, over the 93,939 states of
`gfsl_ops` before it was proved.

The proof: what each action does to the pool, in terms of lanes and chunks (`GFSL_proofs`, the
second half: one lemma per kind of store); how the ghosts follow it (`Grown` at a split,
`Sunk` at a merge, `Buried` at the zombie mark, unchanged otherwise); then
each conjunct of the invariant for the warp that stepped, for the others (whose
locked chunks nobody else has written: `StoresAreLocked`), and for the
chunks. `ChunksSorted`, `DownPointersLagLeft` and `KeysMoveRight` follow from the
invariant, the last from it and one step; `NewChunkIsFree` as a register never
names a chunk that has not been allocated.

**The head's counters** (`CountInv` of `GFSLList`, the other part of
`CountedInv`). A split links its new chunk long before `insert` or `erase` counts
it, a merge marks its zombie before it counts it down, and a merge that has split
just before does neither; meanwhile other warps split and merge on the same level.
*A counter that is positive and the warps on their way to count a chunk
(`Laggers`) are together the chunks alive and the warps on their way to count one
down (`Uncounters`)*, and there are fewer of the former than chunks alive. A
counter that is zero says that the level has one chunk, without keys but for an
insert that is about to store the first (`FitsIn`) and will see the zero when it
has (`isEmpty`). Why a merge never takes the counter to zero is the hard part: the
warp that merges holds two chunks alive, each lagger holds its enclosing chunk,
alive and on the same level, and no two warps hold one chunk, so at least two more
chunks are alive than there are laggers (`RoomForZombie`, an injection of the
laggers into the chunks). That `over`, which tells a merge not to count, is set if
and only if it split is in `CountOK` (the code decides it a second time from the
same numbers). From `CountInv` come that some level always counts a chunk, so that
`searchSlow` has a level to begin on (`HeadIsCounted`), and, as nobody is on the
way when a kernel has ended, `CountersMatch`.

### Induction and sums

The library's induction theorems take an operator as a parameter and cannot be
used with the installed provers. Two things replace them where a proof needs
induction: the least element of a nonempty set of numbers (`LeastNatural` in
`BatchDriver_proofs` and `GFSL_proofs`, from the well-foundedness of `<`), and
induction over finite sets stated with a set of subsets instead of a predicate
(`SubsetInduction` in `KmerTable_proofs`). From the second come the facts about
`SumFunction`.

### Only model-checked

* GFSL: `DeleteCorrectness`, `ImplementsSet`, the refinement of `ConcurrentSet`, and the query
  results of `GFSLQuery`.
* Liveness: `KernelsFinish`, `AllReturn`, `AllKernelsEnd`. Fairness and ENABLED are
  beyond the prover.

## 7. Plan

The modules of the plan are written; of the proofs, those of the hash tables, the
k-mer counter, the token, the two-level list, and of GFSL those of the locks, of
the list and of the head's counters are done. What remains is about GFSL and rests on
`CountedInv`:

1. `ImplementsSet`: which keys each store adds to level 0 or removes from it, and
   what an operation has decided at each program counter. `DeleteCorrectness` is
   its second half, for the operations that have returned.
