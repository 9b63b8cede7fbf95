# A TLA+ verification of HedgeDB

HedgeDB is a partitioned LSM-tree key-value store in C++20: coroutines on
thread pools, `io_uring` for files, one WAL file per thread.  These modules
model its concurrent and crash-prone core from the source, TLC checks them on
small instances, and TLAPS proves the writer gate for any number of threads,
the flush pipeline, the reads that race with it and the durability of acknowledged
puts for any number of writers, flushes and crashes, the scheduling of compactions
for any number of levels and flushes, the manifest protocol for any number of
flushes and compactions, the rings of the I/O contexts for any depth and any number
of requests, and the links and locks of the skiplist for any number of threads.
`PROJECT.json` maps every definition to the lines it models and lists runs,
mutants, hazards and theorems.  Paths below are relative to the repository.

## 1. The system

| part | state | operations | where |
|---|---|---|---|
| writer gate `rw_sync` | frozen flag, one counter per thread slot | `acquire_writer`, `release`, `freeze_writes`, `any_active_writer` | `src/async/rw_sync.h` |
| memtable | current and pipelined buffer, pending-flush map, flush slots, WAL slots, `can_write` chain | `put_async`, `_flush`, `_flush_inner`, `_make_memtable`, `get`, `acquire_snapshot`, `replay_wal` | `src/db/memtable.cc` |
| WAL | one file per thread and slot | `append`, `reset`, `replay` | `src/db/wal.cc` |
| SST manager | levels per partition, marks on SSTs, permission chains, pending counter, backpressure | `push_new_ssts_to_l0`, `_schedule_compaction`, `_make_compaction_task`, `lookup_async` | `src/db/sst_manager.cc` |
| manifest | one page per partition naming the SSTs of each level | `_persist_partition_state`, `load` | `src/db/sst_manager.cc`, `sst_manager_loader.cc` |
| merge | heap over sorted inputs, deduplicator | `k_way_merge_async2` | `src/db/merge/` |
| range scan | snapshot of memtables and SSTs, heap, deduplicator | `next` | `src/db/range_iterator.cc`, `merge/sst_stream.h` |
| skiplist of a memtable | nodes with links, flags and locks; the head; accessors and recycled nodes | `add`, `remove`, `contains`, `lower_bound`, iteration, `growHeight`, `releaseRef` | `src/db/skiplist/` |
| SST file | pages of blocks, meta index, super index, filter, footer | `flush_memtable`, `_write_index`, `sst::load`, `lookup_async`, `find_range` | `src/db/index_ops.cc`, `sst.cc`, `block.cc` |
| quotient filter | elements of three bits and a remainder, packed into words | `qf_insert`, `qf_may_contain`, `qf_remove`, iterator | `src/db/qf.cc` |
| I/O contexts | per thread: queue of requests, in-flight map, rings | `co_await` of a request, `submit_and_wait`, `reap_cq`, hook of the executor | `include/io/io_ctx.h`, `src/io/io_executor.cc` |

How they interact.  A put enters the current buffer through the gate, inserts
under a fresh sequence number, appends to the WAL of the buffer and returns.
When the buffer is full, one writer freezes it, swaps in the pipelined buffer
and starts a flush job, which waits for the gate to drain, writes SSTs, pushes
them to L0 in the order of the flushes, persists the manifest, waits for the
end of backpressure and resets the WAL.  A push wakes the compaction worker,
which picks adjacent SSTs of a level, merges them and moves the output one
level down.  A get looks at the current buffer, the pending buffers and the
levels, newest first.  `database::load` rebuilds the levels from the manifests
and the memtable from the WAL.

What makes this hard: threads that enter a buffer while it is frozen; jobs that
finish in another order than they began; three lookups of a get between which
data moves from one place to the next; compaction rounds that work on stale
copies of the levels; manifests written by several jobs at once; crashes
between any two of these; semaphores that a failing task does not release;
searches of the skiplist that hold no lock; encodings whose edge cases are ends
of pages, words and tables; rings with less room than there are requests.

What must hold: a buffer that is flushed does not change; every place searched
is in the order of time; an acknowledged put is on disk and a get finds it or a
later one; no deleted key comes back; every put returns and all backpressure
ends; a merge or scan gives the newest entry of each key exactly once; what was
written into an SST is found in it, and only a complete file loads; every
request that is awaited is completed once.

## 2. Modules

| module | models | lines up with the code as |
|---|---|---|
| `WriterGate` | what the gate promises: enter, leave, close, drain | abstract specification |
| `RwSync` | `rw_sync.h` | one action per atomic access; `wpc` is the place in `acquire_writer`, `scanned` the position of `any_active_writer` |
| `Memtable` | `memtable.cc` without replay | one action per stretch between two awaits or shared accesses; all puts are versions of one key, so "newest" is an order of versions |
| `Recovery` | WAL, sequence numbers, crash, `load`, `replay_wal` | the flush pipeline of `Memtable` cut down to the steps that touch the disk |
| `Buckets` | `create_buckets_from_level` | one fold step per turn of its loop |
| `Compaction` | levels, worker, tasks, counter of `sst_manager.cc` | an SST is the set of flushes whose entries it holds; a task is a record with its program counter, its place in the sequence of tasks is its place in the chain of permissions of its level |
| `Manifest` | `_persist_partition_state`, unlinking, crash, `load` | one action per lock, write and sync; manifests written but not synced may be lost |
| `Dedup` | heap order and deduplicator | operators |
| `Merge` | the loop of `k_way_merge_async2` | one action per turn |
| `RangeScan` | `range_iterator` over SSTs | one action per turn and per return |
| `CompactedScan` | compactions followed by a scan | composes `Merge` and `RangeScan` over the SSTs of a partition |
| `MemtableCursor` | `memtable_cursor`, `acquire_snapshot`, `skiplist_wrapper::insert` | taking a number and entering the list are separate steps, and so are the two searches of the constructor and what it does then |
| `ConcurrentSkipList` | `concurrent_skiplist.h`, `skiplist_details.h` | one action per access to a link, flag, lock or counter that other threads can see, so links are set one layer at a time and searches hold no lock; what a lock keeps others from seeing is one action with the access it prepares |
| `QuotientFilter` | `qf.cc` | operators on a table of words; recursion for its loops |
| `Block` | `block.cc`, `varint.h`, size byte of `key.h` | operators on pages of cells: a cell is a byte, a restart offset or a checksum |
| `SstFile` | partitions and flush of `index_ops.cc`, `write_buffer.h`, `sst.cc` | one action per entry written and per I/O operation; the lookups are operators on the file and the loaded handle |
| `ReadPath` | the four parts of the read path that do not interact | disjoint union of `CompactedScan`, `MemtableCursor`, `SstFile` and sequences of filter operations |
| `IoContext` | `io_ctx.h`, hook of `io_executor.cc` | one action per task that ends or awaits, per hook and per reaping; `kernel` and `cq` are the two sides of a ring |
| `RwSyncProofs` | theorems about `RwSync` | |
| `MemtableProofs` | theorems about `Memtable` | |
| `RecoveryProofs` | theorems about `Recovery` | |
| `ManifestProofs` | theorems about `Manifest` | |
| `IoContextProofs` | theorems about `IoContext` | |
| `CompactionProofs` | the inductive invariant of `Compaction` and what preserves it | |
| `CompactionRoundProofs` | commits and rounds of the worker; the theorems about `Compaction` | |
| `ConcurrentSkipListProofs` | theorems about `ConcurrentSkipList` | |

The `MC*` modules only add symmetry sets and values for constants.  `TypeOK`, where a
module has it, documents the types of its variables; the runs spend their
invariants on other things.

The modules rest on each other as follows.  `Memtable` takes entering and
leaving a buffer as atomic because `RwSync` implements `WriterGate`.  It assumes
that backpressure ends, which `Compaction` checks as `PressureEnds`.  `Recovery`
takes the SSTs of a flush to be durable once the manifest update is done, which
`Manifest` checks as `PersistedStays` and `ManifestNamesOnlyFiles`.
`CompactedScan` discards tombstones only where no older SST is left out, which
`Compaction` checks as `NoResurrection`.  `RangeScan` has only
SSTs as sources.  A memtable would be one more source of ascending keys, which
`MemtableCursor` checks as `EachKeyOnce`, but the two are not composed.
`Memtable` and `MemtableCursor` take the skiplist to be a set with atomic
insertion that loses nothing, which `ConcurrentSkipList` checks as
`NothingIsLost` and `AnswersAreHonest`.  `Merge`, `RangeScan` and `Compaction`
take an SST to be a sorted sequence of entries, which `SstFile` checks as
`IndexReadsBack`, `GetIsExact` and `RangeIsCovered` on the encoded file.
`Manifest` takes a file to be whole or absent; `OnlyWholeFilesLoad` checks that
a flush cut short leaves nothing that loads.  All of them take an awaited
request to be answered, which `IoContext` checks as `EveryTaskEnds`.

## 3. Runs

Passing runs:

| run | properties | what it shows |
|---|---|---|
| `rw_sync` | `DrainedIsQuiet`, `ImplementsGate`, `FrozenDrains` | when each writer has its own counter, a drained buffer has no writer inside, the gate is a `WriterGate`, and a frozen buffer is eventually drained |
| `memtable` | `ChronologicalTiers`, `GetIsFresh`, `DrainedIsImmutable` | writers, a get, flush jobs and failing appends and SST writes in every order |
| `memtable_progress` | `MakerWaitsOnlyForReset`, `PutsReturn`, `JobsFinish` | with a single flush slot nobody waits for ever; WAL slots suffice |
| `recovery` | `AckedIsOnDisk`, `RecoveredIsFresh`, `SlotsAreExclusive` | three crashes at any point; excepted are records that a replay wrongly skips or wrongly puts on top of an SST, see below |
| `compaction` | `SearchedNewestFirst`, `EachFlushOnce`, `BucketsAreThePieces`, `NoResurrection`, `CounterIsExact` | eight flushes on three levels with rounds, failing merges and commits in every order; of the order inside the last level `SearchedNewestFirst` speaks only until it is merged into itself |
| `compaction_progress` | `TasksFinish`, `PressureEnds` | when merges do not fail, chains advance and backpressure ends |
| `manifest` | `ManifestNamesOnlyFiles`, `PersistedStays`, `LoadIsComplete` | two flushes and two merges that persist at once, with I/O failures and crashes |
| `read_path` | `MergeIsExact`, `ScanIsExact` | a scan returns what the flushes wrote last, whatever compactions ran before, and throws only where there is nothing to return |
| | `EachKeyOnce`, `FrozenCursorIsExact` | a scan of a memtable that writers go on filling, also while the cursor is set up: no key is missed or doubled, and the cursor ends if the snapshot holds a key below the upper bound, or if nothing is inserted and the bounds are in order |
| | `RangesAreWhole`, `GetIsExact`, `IndexReadsBack`, `RangeIsCovered`, `OnlyWholeFilesLoad` | a flush into an SST with errors and crashes, and every lookup in the file it leaves |
| | `FilterIsExact` | the filter after any sequence of operations holds exactly the fingerprints of a set |
| `skiplist` | `NothingIsLost`, `AnswersAreHonest`, `NoUseAfterDestroy`, `LinkExists`, `LocksDescend` | three threads in one list, access by access, while its head grows and nodes are recycled |
| `io` | `CqNeverOverflows`, `CompletionsAreFound`, `EveryTaskEnds` | more requests than the rings hold, completions in any order, work stealing |

Runs that show the code to differ from what it says of itself:

| run | property | where |
|---|---|---|
| `recovery_restart` | `SkippedIsPersisted` | after a load that replays nothing, sequence numbers restart below those of the SSTs; records written then are skipped by the next load |
| `compaction_chain` | `ChainIsNeverBroken` | a failed merge does not release `next_can_write`, although its comment says it does |

About the last one: were the permission released as the comment asks, newer
SSTs would sink below the failed inputs, which stay in their level, and lookups
would return old versions.  The mutant `MergeFailsForwarding` shows it.

### Further disagreements

These properties state what a comment or document says.  They are defined in the
modules and TLC refutes each of them when it is put in place of the properties
of the configuration named (with the constants given, if any).

| property | configuration | stated at | what happens |
|---|---|---|---|
| `DrainedIsQuiet` | `MCRwSync.cfg`, `SlotOf <- SharedSlots` | `src/async/rw_sync.h:26` | two threads on one counter, which the header calls safe and `memtable.cc:157` produces: the counter is a flag, and the release of one hides the other |
| `MemtableIsMostRecent` | `MCMemtable.cfg` | `src/db/database.cc:184` | a get that begins between the exchange of `_table` (`memtable.cc:320`) and the increment of the switch epoch (347) reads its cached buffer and returns an overwritten version |
| `UnflushedIsReplayed` | `MCRecovery.cfg` | `src/db/database.cc:161` | the first record has number 0, the threshold without SSTs is 0, and `<=` skips it |
| `PersistedIsSkipped` | `MCRecovery.cfg` | `src/db/database.cc:161` | replayed entries get new numbers from 0 on, so the maximum of an SST flushed from them lies below their numbers in the WAL; after a crash before the reset these records are above the threshold and are put on top of the SST, overwritten ones included |
| `SkippedIsPersisted` | `MCRecoveryRestart.cfg`, two writers, one restart | `src/db/memtable.cc:468` | a writer that inserts late into the old buffer raises its SST's maximum above records acknowledged in the new one |
| `LoadSucceeds` | `MCRecovery.cfg` | `src/db/database.cc:161` | a crash between an SST and its manifest leaves an orphan, and load refuses |
| `LevelsChronological` | `MCCompaction.cfg`, `MaxNumLevels = 2` | `src/db/sst_manager.cc:536` | the output of a merge of the last level into itself is appended behind newer SSTs |
| `IdleIsUnblocked` | `MCCompaction.cfg`, `Threshold = 0` | `include/db/database.h:63` | pressure is applied above the threshold and released only below it |
| `NextReturns` | `MCReadPath.cfg` | `include/db/range_iterator.h:112` | with nothing in range `force_pop` throws |
| `UpperIsExcluded` | `MCReadPath.cfg` | `include/db/database.h:137` | the key at the upper bound is returned |
| `SnapshotIsolation` | `MCReadPath.cfg` | `README.md:32` | the limit is the next number to be given out, and it is visible |
| `NothingAboveLimit` | `MCReadPath.cfg` | `src/db/memtable.h:195` | `pop_front` skips invisible entries before it skips duplicates and may stop on an invisible one |
| `CursorEnds` | `MCReadPath.cfg` | `include/db/range_iterator.h:112` | the constructor of `memtable_cursor` searches for the lower bound and then for the upper one: when entries come in between, `_end` may be in front of `_it` or `_it` past the end, and `_skip_invisible` walks on to the null iterator (`sst_stream.h:206`).  The same with the lower bound above the upper one |
| `UpperIsFound` | `MCReadPath.cfg` | `src/db/sst_manager.h:64` | the end is one entry past the newest version at the upper bound, which may be invisible |
| `LinkExists` | `MCConcurrentSkipList.cfg`, `Ops = {"add", "last"}`, `LastSpec` | `skiplist_details.h:289` | `last()` loads the head and then the height of the list; when the list grew in between it asks the old head for a link it does not have.  HedgeDB does not call it |
| `GetIsExact` | `MCReadPath.cfg`, `Memtables <- LongKeyMemtables` | `src/db/block.h:104` | a key of the greatest allowed length, 256, that shares no prefix with its predecessor: the length of the rest is cast to one byte and becomes 0 (`block.cc:147`) |
| `RangesAreWhole` | `MCReadPath.cfg`, `PartitionSize = 2` | `src/utils.h:77` | with more than 256 partitions the second byte of a one-byte key, which is not there, decides about its partition |
| `EveryTaskEnds` | `MCIoContext.cfg`, `PostRunHook` as `HookIfInFlight` | `src/manual_ctx.h:62` | `tick` submits only when requests are in flight, and none is before the first submission.  Nothing uses `db_ctx` |

### Bounds

* `rw_sync`: three writers with four attempts each.  Any failure of the gate
  involves the flusher, one writer inside and one that comes and goes; the
  theorems cover all other sizes.
* `memtable`: two writers, three puts, a budget of one entry, two flush slots,
  one reader; the append of the second put and the SST write of the first job may
  fail (`FailingPuts`, `FailingJobs`; the theorems cover any).  Three puts fill two
  buffers, so that two jobs are pending while a third buffer is written.
  `memtable_progress` has one flush slot, where every resource is scarce, and no
  failures: after one the chain of jobs stops.
* `recovery`: two writers, four puts, three crashes (a replay that revives an
  overwritten record takes three).  `MaxGap` bounds how often a failed insertion may
  burn a sequence number.
* `compaction`: three levels, widths 2 and 3, eight flushes: two rounds on L0
  and two on L1 overlap.  The last level is not merged into itself next to a
  merge from above within these bounds; that case is `LevelsChronological`.  With
  `MaxNumLevels = 2` and `MaxFlushed = 9`, where it happens, the five properties
  hold as well.
* `manifest`: two flushes, two merges, any number of crashes (jobs do not
  restart, so the state space is finite).
* `read_path`: two SSTs over three keys, three over two and four over one, all
  contents, pages of one entry or of all.  Four are needed for two merges that
  leave nothing, a case of `MergeIsExact`.  Cursor: three keys, four
  insertions, two of them under way at a time.  File: up to six keys, prefixes of one another, each absent, with a
  short value, with a long one, or with an old version besides; bytes have four
  values and pages 20 cells, so that lengths of two varint cells, restarts, full
  pages, full buffers (two pages), several pages of the meta index and the super
  index all occur.  Filter: eight slots of four bits in words of six, so that
  elements span words, and hashes that fill one cluster around the end of the
  table.
* `skiplist`: three threads, one call each, at most one of them a read, on
  lists of none, one and two keys; heights up to two, with nodes below and at the
  height of the head, and a list of two keys outgrows a head of height one.
  A lost update needs two writers at one predecessor, a use after destruction a
  reader and two that remove or grow.
* `io`: depth two, so a completion queue of four; eight requests of five tasks on
  one thread, which is more than all queues hold, or of two threads that steal
  from one another.

### Fairness

`RwSync`, `Memtable`, `Compaction` and `IoContext` use weak fairness of every writer,
background task and worker: each runs on a thread pool that keeps resuming what
is ready, `tmc` semaphores and channels are first come first served, and the
waiting loops yield.  Starting a put, a get or a flush is never fair, nor is a
crash or a failure.  In `IoContext` the kernel completes what was submitted to
it, and the executor goes on running tasks and its hook; stealing and posting
are not fair.  `FairSpec` of `Memtable` and `Compaction` leaves failures
out, since after one the code does wait for ever (`compaction_chain`).

## 4. Proofs

`RwSyncProofs` proves, for every set of writers and every number of counters:

* `Typing`: `Spec => []TypeOK`.
* `GateSafety`: if each writer has a counter of its own (`Unaliased`),
  `Spec => []DrainedIsQuiet`.
* `Refinement`: under the same assumption `Spec => ImplementsGate`.

`DrainedIsQuiet` is not inductive: nothing in it says why a counter that was
read as zero stays harmless.  The inductive invariant adds that the counter of
a writer that is announced or inside is 1; that the flusher scans only once the
flag is set; and that no writer is inside on a counter already scanned, since a
writer that announces itself later finds the flag set and backs off.  The
assumption `Unaliased` is needed for the first of these; section 3 says what
happens without it.

`MemtableProofs` proves, for every set of writers, every budget and every
`max_pending_flushes`:

* `TiersAreChronological`: `Spec => []ChronologicalTiers`.
* `DrainedStaysImmutable`: `Spec => DrainedIsImmutable`.
* `GetsAreFresh`: `Spec => []GetIsFresh`.
* `MakerNeverStarves`: `FairSpec => []MakerWaitsOnlyForReset` (safety; of `FairSpec`
  it only uses that nothing fails).

The inductive invariant `Inv` has two halves.  `Gate` is about the buffers: a writer
inside `_flush` holds `_flush_mutex`; from the freeze to the exchange its buffer is
the current one and frozen; buffers that are pending or have a job are frozen;
nobody is inside the buffer of a job past its drain.  The last one survives
because entering needs a buffer that is not frozen, and it is what keeps an
insertion away from a buffer being written.  `Chain` is about the order: epochs
of jobs increase, and an epoch taken but not yet launched lies above them all,
since the mutex lets one writer at a time be there; the published jobs are the
first `Len(l0)` ones and the only semaphore that is up is that of the next one; a
pending buffer belongs to a job that has not published or to the writer in the
switch.  `ChronologicalTiers` follows from `Chain`, which does not care how jobs
overtake one another before they publish, or fail.

`GetsAreFresh` needs more (`FreshInv`): buffers are numbered by age, the job of
buffer `n` is job `n`, and those between L0 and the current one are exactly the
pending ones; an SST has the newest version of its buffer; a version that was
acknowledged before a put began is in no later buffer than that of the put, since
the put holds a buffer that was current after its start.  Of a get in progress it
says that what it must see is in no buffer newer than the one its switch epoch
belongs to, and, after each lookup that found nothing, only in the places still to
be searched: data moves from the pending map to L0 and never back.  A get that
begins inside a table switch is excepted (`MemtableIsMostRecent`, section 3).

`MakerNeverStarves` is a count (`Balance`): a WAL slot is free or belongs to the
current buffer, the pipelined one, the one being switched or an unfinished job, and a
flush slot is free or belongs to a flushing writer or to a job that did not persist.
If no WAL slot is free when a buffer is made, the two equations leave one more
unfinished job than there are flush slots, so one of them is past its flush slot and
about to reset its WAL.

`RecoveryProofs` proves, for every set of writers, every budget and any number of
puts, flushes and crashes:

* `ExclusiveSlots`: `Spec => []SlotsAreExclusive`.
* `AckedStaysOnDisk`: `Spec => []AckedIsOnDisk`.
* `GetsAfterRecoveryAreFresh`: `Spec => []RecoveredIsFresh`.

The step at risk is `wal::reset`: it truncates all records of a slot, those of
earlier users of the slot and of earlier runs of the process included.  The
inductive invariant `Durable` therefore says of every record in a file of slot `s`
that it was skipped by a replay, is in an SST, or is of a version that the buffer
of the slot or the first buffer has (`replay_wal` puts the records of all slots
into the first one).  Buffers are published from the oldest on, so once any buffer
is published the first one is; a published buffer's versions are in the SSTs, and a
buffer that was reset is empty.  A writer about to append has its entry in a buffer
that is not yet drained, so that its record is covered when it is written.  Nothing
is assumed about sequence numbers: which records a replay skips does not matter
for this theorem, which excepts those it skips wrongly (`lost`).

`GetsAfterRecoveryAreFresh` is about sequence numbers.  Its invariant `Recent`, on top
of `Durable`, says that within a buffer or an SST a later version has a larger number;
that buffers are in the order of time, as in `Memtable`; that a version in memory or in
a newer SST which is older than one of an SST was put there by a replay (`revived`,
which `RecoveredIsFresh` excepts; section 3 says how that comes about); and of the
records that the next replay would insert, that their numbers differ and are in the
order of the versions, below the counter.  `Replay` keeps the order because it inserts
in the order of the numbers and continues above the largest one; the mutant
`ReplayKeepingCounter` shows what happens otherwise.

All these invariants were model-checked on the instances of `memtable` and `recovery`
before they were proved.  The assumptions are those of the modules: `MaxFlushes` is
positive and `None` is not a writer.

`ManifestProofs` proves, for every set of flushes and merges:

* `Typing`: `Spec => []TypeOK`.
* `NamesOnlyFiles`: `Spec => []ManifestNamesOnlyFiles`.
* `PersistedIsDurable`: `Spec => []PersistedStays`.
* `LoadedIsComplete`: `Spec => []LoadIsComplete`.

Each of these speaks of manifests already written or of the levels in memory;
the inductive invariant says the same at every stage on the way from one to the
other.  The levels name files, lack the inputs of every published merge and have
the entries of every published flush.  A snapshot whose generation is current
equals the levels, so what the holder of `state_write_mutex` is about to write
has these properties for all jobs that are writing or past it.  Every manifest
from the one a job's sync covers has them for that job.  A merge may then unlink
its inputs, and a flush counts as persisted, only after its own sync.  The
second half (`CompleteInv`) also needs that a merged SST has the entries of its
inputs.  Both halves were model-checked on the instance of `manifest` before
they were proved.  The only assumption is `JobsAssumption`: flushes and merges
are different jobs, and `NoJob` is none.

`IoContextProofs` proves, for every set of threads, every depth and any tasks and
requests:

* `NoOverflow`: `Spec => []CqNeverOverflows`.
* `ReapFindsAll`: `Spec => []CompletionsAreFound`.

The inductive invariant `RingsInv` says of each thread that the keys of its
in-flight map are finitely many numbers below the next id, no more than the
completion queue has room for; that what the kernel has is among them; and that
the completion queue lists the others, each once.  `submit_and_wait` computes its
margin from the completions that are ready plus all of `_in_flight`, which counts
the ready ones twice: the margin is too small, never too large, so what it
submits fits.  New ids are fresh because they lie above all that are in flight.

`CompactionProofs` and `CompactionRoundProofs` prove, for every number of levels (two
or more), all merge widths (`2 <= MinWidth < MaxWidth`), every threshold and any number of flushes, rounds and failed
merges:

* `NoFlushIsLostOrDoubled`: `Spec => []EachFlushOnce`.
* `DeletedStaysDeleted`: `Spec => []NoResurrection`.
* `SearchGoesBackInTime`: `Spec => []SearchedNewestFirst`.  Every level is newer than
  the levels below, and the SSTs of a level are in the order of time; of the last level
  this is said only until it is merged into itself, for then it is false
  (`LevelsChronological`, section 3).
* `RoundsCutRuns`: `Spec => []BucketsAreThePieces`.
* `CounterCounts`: `Spec => []CounterIsExact`, and the counter is never negative.
* `IdleNeverBlocks`: with a threshold that is not zero, `Spec => []IdleIsUnblocked`.

The difficulty is that a round works from a copy of the levels that other tasks have
changed meanwhile.  `Inv` says of each level that the picked SSTs are the inputs of its
open tasks and occupy its oldest places, in the order of the chain of permissions
(`Queue`); and that the level is the worker's copy without SSTs picked from its front,
followed by SSTs that nobody picked (`SnapshotFits`).  So what a round picks from a
stale copy is still there, unpicked, and next to what was picked before; a commit, which
waits for its turn, takes the oldest SSTs of its level and puts a newer SST on top of
the next one.  A failed merge keeps its inputs marked and its successors waiting, which
keeps the order (and is why passing the permission on would break it).  Tombstones:
only the first task into an empty last level drops them, and its inputs are the oldest
SSTs there are (`FirstDiscards`).  The buckets are a fold over a level; what it computes
is proved by an induction over its positions, done in set form (`SetInduction`: a subset
of `0..n` that has 0 and is closed under successor is all of it), since the library's
induction theorems cannot be instantiated.  The counter is a `Cardinality` and rests on
the library's theorems about finite sets.

`ConcurrentSkipListProofs` proves, for every set of threads, all keys and heights, any
initial list and any number of calls:

* `LoadedLinksExist`: `Spec => []LinkExists`.
* `WaitingIsOrdered`: `Spec => []LocksDescend`.

Searches follow links without a lock, so nothing can be said of where a link leads
except what no step ever changes: a node keeps its key and its height, and a link on
layer `l` leads to a node higher than `l` with a greater key.  `Inv` says this of all
nodes, that the head never becomes lower, and for each place in the code what a thread
knows of the nodes it holds: its predecessors and successors on each layer are before
and behind its key and high enough, predecessors of lower layers have keys that are at
least as large, and the locks of a thread are exactly those its program counter says
(`Holding`).  `LinkExists` follows because the height of the list, which is loaded
first, is at most that of the head loaded after it.  `LocksDescend` follows from the
order of the predecessors: `remove` holds its node, which is behind all of them, and
layers are locked from the bottom up.  The assumptions are those of the module: the
heights of the initial lists are between 1 and `MaxHeight`, and `Ops` names operations
of the list.

Only model-checked, and why:

* Liveness (`FrozenDrains`, `PutsReturn`, `JobsFinish`, `TasksFinish`, `PressureEnds`,
  `EveryTaskEnds`): fairness is out of the prover's reach.
* `NothingIsLost`, `AnswersAreHonest` and `NoUseAfterDestroy` of the skiplist.  They are
  about paths through links that change under a search, and about the history of a key.
* `read_path`: `QuotientFilter`, `Block` and `SstFile` are recursive operators over words
  and pages, about which nothing can be proved with the installed provers; what `Merge`,
  `RangeScan` and `MemtableCursor` return for every input is an induction over streams.
* The two runs that show a disagreement.

## 5. What is not modelled

* Weak memory.  Accesses are sequentially consistent; `rw_sync.h` uses seq_cst
  fences for the pair that matters, and the other atomics guard data that is
  published through locks.
* Power loss for the WAL: it is never synced, so only crashes of the process
  are considered there.  SST files are synced by default
  (`fdatasync_flushed_sst`, `fdatasync_output`), so `Manifest` considers the
  loss of manifests that were not synced.  Whether the directory entry of a new
  file survives is not considered.
* Torn or corrupt WAL records: `load` throws on them.
* A manifest longer than one page.
* Several partitions.  They share the counter behind the backpressure; all else
  is per partition.
* A failed manifest update followed by a WAL reset (`Manifest` has the failure,
  `Recovery` has the reset).
* Scans over SSTs with the lower bound above the upper one, and read errors of scans.
* Scans over SSTs and memtables together, and the memtables that `make_new` erases from
  the snapshot because an SST has their epoch (`range_iterator.cc:56-61`).
* Short writes, and the SSTs of a flush whose other partitions failed.
* The preparation of the single kinds of requests, shutdown of an executor with
  requests in flight, and a failing `io_uring_submit_and_wait` (it throws).
* Of the skiplist: `Skipper` and `findNodeRightDown`, which HedgeDB does not use;
  the random choice of heights, which is any choice here.
* `qf_merge`, which nothing calls.
* Files and descriptors (`fs.hpp`, `file_reader2`), arenas, the buffer pool and the
  ownership of the storage of `key_t`: single-threaded resource management with no
  protocol between threads.  The page cache is a stub in this repository
  (`cache.h`; `cache.cc` is empty).
* Tools, counters, logging, configuration.
