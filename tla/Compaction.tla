----------------------------- MODULE Compaction -----------------------------
(***************************************************************************)
(* sst_manager.cc: the levels of one partition, the compaction worker and the *)
(* compaction tasks, with the counter behind the backpressure on writes.      *)
(*                                                                         *)
(* The flushes of the partition are numbered by time.  An SST is the set of   *)
(* the flushes whose entries it holds, so that "newer" needs no keys and no   *)
(* values: what is said of these sets holds for every key.  The epoch of a    *)
(* merged SST is the least of its inputs' (merge.cc), that is its least flush. *)
(***************************************************************************)
EXTENDS Buckets, FiniteSets

CONSTANTS
    MaxNumLevels,   \* max_num_levels
    MinWidth,       \* min_merge_width
    MaxWidth,       \* max_merge_width
    Threshold,      \* ssts_in_l0_block_write_threshold * number of partitions
    MaxFlushed      \* bound: flushes

ASSUME LevelsAssumption == MaxNumLevels \in Nat \ {0, 1}
ASSUME WidthAssumption == MinWidth \in Nat /\ MaxWidth \in Nat /\ 2 <= MinWidth /\ MinWidth < MaxWidth
ASSUME ThresholdAssumption == Threshold \in Nat

Levels == 0..(MaxNumLevels - 1)
LastLevel == MaxNumLevels - 1

VARIABLES
    levels,     \* levels of the partition: sequences of SSTs, oldest first
    picked,     \* the SSTs that were set IN_COMPACTION
    errored,    \* the SSTs that were set COMPACTION_ERROR
    snapshot,   \* the copy of levels the worker is picking from, or <<>>
    tasks,      \* tasks[l]: compaction tasks of level l in the order they were made
    turn,       \* turn[l]: permissions released so far on the chain of level l
    created,    \* levels that hold an SST or are about to
    pending,    \* _pending_compacting_sst_for_backpressure_count
    pressure,   \* _compaction_backpressure
    flushed,    \* flushes so far
    collected   \* flushes whose tombstones were dropped by a merge

vars == <<levels, picked, errored, snapshot, tasks, turn, created, pending, pressure, flushed,
          collected>>

Init ==
    /\ levels = [l \in Levels |-> <<>>]
    /\ picked = {} /\ errored = {} /\ snapshot = <<>>
    /\ tasks = [l \in Levels |-> <<>>] /\ turn = [l \in Levels |-> 0]
    /\ created = {}
    /\ pending = 0 /\ pressure = FALSE
    /\ flushed = 0 /\ collected = {}

\* pickable_for_compaction
Pickable(s) == s \notin picked /\ s \notin errored

TargetLevel(l) == IF l + 1 < MaxNumLevels THEN l + 1 ELSE LastLevel

\* A counter that lets go of the writers only when it falls to zero or below.
UpdateCounterLate(count) ==
    /\ pending' = pending + count
    /\ pressure' = IF pressure THEN pending' >= 0 ELSE pending' > Threshold

\* _update_pending_compactions_counter
UpdateCounter(count) ==
    /\ pending' = pending + count
    /\ pressure' = IF pressure THEN pending' >= Threshold ELSE pending' > Threshold

-----------------------------------------------------------------------------
\* push_new_ssts_to_l0
Push ==
    /\ flushed < MaxFlushed
    /\ flushed' = flushed + 1
    /\ levels' = [levels EXCEPT ![0] = Append(@, {flushed + 1})]
    /\ UNCHANGED <<picked, errored, snapshot, tasks, turn, created, pending, pressure, collected>>

\* _schedule_compaction copies the levels under the lock.
Snapshot ==
    /\ snapshot = <<>>
    /\ snapshot' = <<levels>>
    /\ UNCHANGED <<levels, picked, errored, tasks, turn, created, pending, pressure, flushed, collected>>

\* The merge widths of a round.
MinOf(compactAll) == IF compactAll THEN 2 ELSE MinWidth
MaxOf(compactAll, level) == IF compactAll THEN Len(level) + 1 ELSE MaxWidth

Flags(level) == [i \in DOMAIN level |-> Pickable(level[i])]

\* The buckets of level l of the snapshot, each the set of its SSTs.
BucketsOf(l, compactAll) ==
    LET level == snapshot[1][l]
        found == PickBuckets(Flags(level), MinOf(compactAll), MaxOf(compactAll, level))
    IN [b \in DOMAIN found |-> {level[found[b][k]] : k \in DOMAIN found[b]}]

\* A merge into the last level that drops tombstones whatever is there already.
CanDiscardAlways(l, b) == b = 1 /\ TargetLevel(l) = LastLevel

\* test_can_discard_keys and level_created: the oldest bucket of a level that
\* merges into the last one, while nothing is there or on its way there.
CanDiscard(l, b) ==
    /\ b = 1
    /\ l + 1 = MaxNumLevels \/ l + 1 = LastLevel
    /\ TargetLevel(l) \notin created

\* A task per bucket of level l.  The tasks of one round run one after the other;
\* the place of a task in tasks[l] is its place in the chain of permissions.
TasksOf(l, found) ==
    [b \in DOMAIN found |->
        [inputs |-> found[b], discard |-> CanDiscard(l, b), first |-> b = 1, pc |-> "merge"]]

SstsIn(buckets) == UNION {buckets[b] : b \in DOMAIN buckets}

\* Pick from the snapshot, mark the SSTs, count those of L0, and start the tasks.
Launch ==
    /\ snapshot # <<>>
    /\ \E compactAll \in BOOLEAN :
       \E found \in {[l \in Levels |-> BucketsOf(l, compactAll)]} :
          /\ tasks' = [l \in Levels |-> tasks[l] \o TasksOf(l, found[l])]
          /\ picked' = picked \cup UNION {SstsIn(found[l]) : l \in Levels}
          /\ created' = created \cup {TargetLevel(l) : l \in {k \in Levels : found[k] # <<>>}}
          /\ UpdateCounter(Cardinality(SstsIn(found[0])))
    /\ snapshot' = <<>>
    /\ UNCHANGED <<levels, errored, turn, flushed, collected>>

-----------------------------------------------------------------------------
(* _make_compaction_task *)

TaskAt(l, t, at) == t \in DOMAIN tasks[l] /\ tasks[l][t].pc = at
TaskGoto(l, t, at) == tasks' = [tasks EXCEPT ![l][t].pc = at]

\* The task before t in run_tasks_in_sequence is over.
IsNext(l, t) == ~tasks[l][t].first => tasks[l][t - 1].pc = "done"

\* k_way_merge_async2 wrote the merged SST.
Merge(l, t) ==
    /\ TaskAt(l, t, "merge") /\ IsNext(l, t)
    /\ TaskGoto(l, t, "commit")
    /\ UNCHANGED <<levels, picked, errored, snapshot, turn, created, pending, pressure, flushed,
                   collected>>

\* A failed merge that passes the permission on, as its comment asks for.
MergeFailsForwarding(l, t) ==
    /\ TaskAt(l, t, "merge") /\ IsNext(l, t)
    /\ errored' = errored \cup tasks[l][t].inputs
    /\ turn' = [turn EXCEPT ![l] = @ + 1]
    /\ TaskGoto(l, t, "count")
    /\ UNCHANGED <<levels, picked, snapshot, created, pending, pressure, flushed, collected>>

\* The merge failed: the inputs are marked and stay where they are.
MergeFails(l, t) ==
    /\ TaskAt(l, t, "merge") /\ IsNext(l, t)
    /\ errored' = errored \cup tasks[l][t].inputs
    /\ TaskGoto(l, t, "count")
    /\ UNCHANGED <<levels, picked, snapshot, turn, created, pending, pressure, flushed, collected>>

\* level without the SSTs of inputs, the others in their order (std::erase_if).
Erase(level, inputs) ==
    LET kept[i \in 0..Len(level)] ==
            IF i = 0 THEN <<>>
            ELSE IF level[i] \in inputs THEN kept[i - 1] ELSE Append(kept[i - 1], level[i])
    IN kept[Len(level)]

\* The levels once the inputs are erased from level l and the output is pushed.
Replaced(l, inputs) ==
    LET erased == [levels EXCEPT ![l] = Erase(@, inputs)]
    IN [erased EXCEPT ![TargetLevel(l)] = Append(@, UNION inputs)]

\* A commit that makes the inputs pickable again.
CommitUnmarking(l, t) ==
    /\ TaskAt(l, t, "commit")
    /\ turn[l] = t - 1
    /\ turn' = [turn EXCEPT ![l] = @ + 1]
    /\ levels' = Replaced(l, tasks[l][t].inputs)
    /\ picked' = picked \ tasks[l][t].inputs
    /\ TaskGoto(l, t, "count")
    /\ UNCHANGED <<errored, snapshot, created, pending, pressure, flushed, collected>>

\* A commit that does not release next_can_write.
CommitKeepingTurn(l, t) ==
    /\ TaskAt(l, t, "commit")
    /\ turn[l] = t - 1
    /\ levels' = Replaced(l, tasks[l][t].inputs)
    /\ TaskGoto(l, t, "count")
    /\ UNCHANGED <<picked, errored, snapshot, turn, created, pending, pressure, flushed,
                   collected>>

\* Await can_write, replace the inputs by the output, release next_can_write.
\* The manifest update and the unlinking that follow are in Manifest.
Commit(l, t) ==
    /\ TaskAt(l, t, "commit")
    /\ turn[l] = t - 1
    /\ turn' = [turn EXCEPT ![l] = @ + 1]
    /\ levels' = Replaced(l, tasks[l][t].inputs)
    /\ collected' = collected \cup IF tasks[l][t].discard THEN UNION tasks[l][t].inputs ELSE {}
    /\ TaskGoto(l, t, "count")
    /\ UNCHANGED <<picked, errored, snapshot, created, pending, pressure, flushed>>

\* A task that counts every level down, not only L0.
CountAnyLevel(l, t) ==
    /\ TaskAt(l, t, "count")
    /\ UpdateCounter(-Cardinality(tasks[l][t].inputs))
    /\ TaskGoto(l, t, "done")
    /\ UNCHANGED <<levels, picked, errored, snapshot, turn, created, flushed, collected>>

\* The end of the task: count its inputs down.
Count(l, t) ==
    /\ TaskAt(l, t, "count")
    /\ IF l = 0 THEN UpdateCounter(-Cardinality(tasks[l][t].inputs))
                ELSE UNCHANGED <<pending, pressure>>
    /\ TaskGoto(l, t, "done")
    /\ UNCHANGED <<levels, picked, errored, snapshot, turn, created, flushed, collected>>

-----------------------------------------------------------------------------
TaskStep(l, t) == Merge(l, t) \/ Commit(l, t) \/ Count(l, t)

\* Merges never fail.
SoundNext ==
    \/ Push \/ Snapshot \/ Launch
    \/ \E l \in Levels : \E t \in DOMAIN tasks[l] : TaskStep(l, t)

Next == SoundNext \/ \E l \in Levels : \E t \in DOMAIN tasks[l] : MergeFails(l, t)

Spec == Init /\ [][Next]_vars

\* The worker and the tasks run whenever they can: every push and every commit
\* posts a signal to the worker, and no task holds a thread while it waits.
Fairness ==
    /\ WF_vars(Snapshot) /\ WF_vars(Launch)
    /\ \A l \in Levels : \A t \in 1..MaxFlushed : WF_vars(TaskStep(l, t))

FairSpec == Init /\ [][SoundNext]_vars /\ Fairness

FailingFairSpec == Init /\ [][Next]_vars /\ Fairness

-----------------------------------------------------------------------------
(* Properties *)

Ssts == UNION {{levels[l][i] : i \in DOMAIN levels[l]} : l \in Levels}

\* The types of the variables.
TypeOK ==
    /\ DOMAIN levels = Levels
    /\ Ssts \cup picked \cup errored \subseteq SUBSET (1..MaxFlushed) \ {{}}
    /\ DOMAIN tasks = Levels
    /\ \A l \in Levels : \A t \in DOMAIN tasks[l] :
          /\ tasks[l][t].inputs \subseteq picked /\ Cardinality(tasks[l][t].inputs) >= 2
          /\ tasks[l][t].pc \in {"merge", "commit", "count", "done"}
          /\ tasks[l][t].discard \in BOOLEAN /\ tasks[l][t].first \in BOOLEAN
    /\ \A l \in Levels : turn[l] \in 0..Len(tasks[l])
    /\ created \subseteq Levels /\ pending \in Nat /\ pressure \in BOOLEAN
    /\ flushed \in 0..MaxFlushed /\ collected \subseteq 1..flushed

\* lookup_async stops at the first SST that has the key, from L0 down and from
\* the end of each level: this is right where every SST it looks at is newer, in
\* all it holds, than every SST it would look at later.  However rounds, merges,
\* failures and commits of several levels interleave, this is so for SSTs of two
\* levels and for those of one level, except that the last level loses its order
\* once it is merged into itself: the output is pushed behind an SST that came from
\* above in the meantime.
SearchedNewestFirst ==
    \A l, m \in Levels : \A i \in DOMAIN levels[l] : \A j \in DOMAIN levels[m] :
        l < m \/ (l = m /\ i > j /\ (l = LastLevel => tasks[l] = <<>>)) =>
           \A f \in levels[l][i] : \A g \in levels[m][j] : f > g

\* create_buckets_from_level cuts each run of pickable SSTs every max_merge_width
\* SSTs and keeps the pieces with at least min_merge_width; a bucket never
\* reaches over an SST that is busy, so that merging it keeps the order of
\* time.  Buckets come out oldest first.  Whatever the levels and the flags are
\* when a round looks at them.
BucketsAreThePieces ==
    \A l \in Levels : \A compactAll \in BOOLEAN :
       LET flags == Flags(levels[l])
           min == MinOf(compactAll)
           max == MaxOf(compactAll, levels[l])
           found == PickBuckets(flags, min, max)
       IN /\ \A b \in DOMAIN found :
                found[b] = [k \in 1..Len(found[b]) |-> found[b][1] + k - 1]
          /\ {<<found[b][1], found[b][Len(found[b])]>> : b \in DOMAIN found} = Pieces(flags, min, max)
          /\ \A b, c \in DOMAIN found : b < c => found[b][1] < found[c][1]

\* Every flush is in exactly one SST of the levels: no round that works from a
\* stale snapshot merges an SST a second time, and none is dropped.
EachFlushOnce ==
    \A f \in 1..flushed :
       \E l \in Levels : \E i \in DOMAIN levels[l] :
          \A m \in Levels : \A j \in DOMAIN levels[m] :
             f \in levels[m][j] <=> m = l /\ j = i

\* A deleted key does not come back: when a merge dropped the tombstones of a
\* flush, no other SST holds anything older that they were hiding.
NoResurrection ==
    \A g \in collected : \A s \in Ssts : g \notin s => \A f \in s : f > g

\* The number behind the backpressure is the number of L0 SSTs in unfinished
\* tasks, so it is never negative (the assertion in
\* _update_pending_compactions_counter) and returns to zero.
CounterIsExact ==
    pending = Cardinality(UNION {tasks[0][t].inputs :
                                   t \in {u \in DOMAIN tasks[0] : tasks[0][u].pc # "done"}})

\* Writers are not held up when there is nothing left to compact.  "L0 SST count
\* threshold above which writes are blocked" (database.h).
IdleIsUnblocked ==
    (\A l \in Levels : \A t \in DOMAIN tasks[l] : tasks[l][t].pc = "done") => ~pressure

\* Every compaction task that is started gets its turn in the chain of its level
\* and ends, when no merge fails.
TasksFinish ==
    \A l \in Levels : \A t \in 1..MaxFlushed : t \in DOMAIN tasks[l] ~> TaskAt(l, t, "done")

\* Every backpressure on the writers ends (a flush job waits for it before it gives
\* back its slot), also while new SSTs keep arriving in L0.
PressureEnds == pressure ~> ~pressure

\* "the chain is never broken" (sst_manager.cc:279): a failed merge does not keep
\* the later tasks of its level from committing.
ChainIsNeverBroken ==
    \A l \in Levels : \A t \in 1..MaxFlushed : TaskAt(l, t, "commit") ~> ~TaskAt(l, t, "commit")

\* "The resulting merged SSTs must be pushed following the same chronological
\* order" (sst_manager.cc:536): each level is sorted by age.
LevelsChronological ==
    \A l \in Levels : \A i, j \in DOMAIN levels[l] :
        i < j => \A f \in levels[l][i] : \A g \in levels[l][j] : f < g
=============================================================================
