------------------------------ MODULE Manifest ------------------------------
(***************************************************************************)
(* _persist_partition_state and its two callers (sst_manager.cc), and what    *)
(* sst_manager::load makes of the files a crash leaves (sst_manager_loader.cc). *)
(*                                                                         *)
(* A job is one flush or one compaction of the partition.  It makes one SST,  *)
(* which carries its name.  The order of SSTs in the levels plays no part     *)
(* here: Compaction is about that.  A manifest write is one page and atomic;  *)
(* until an fdatasync that began after it has ended, a crash may leave any     *)
(* manifest written since the last one that is known to be on disk.          *)
(***************************************************************************)
EXTENDS Integers, Sequences, FiniteSets

CONSTANTS
    Flushes,    \* jobs that add an SST
    Merges      \* jobs that replace SSTs by one

Jobs == Flushes \cup Merges
NoJob == 0

ASSUME JobsAssumption == Flushes \cap Merges = {} /\ NoJob \notin Jobs

VARIABLES
    mode,       \* "up", "down" after a crash, "refused" when load failed
    live,       \* the SSTs of state.levels
    gen,        \* levels_seq_num
    wlock,      \* the job holding state_write_mutex, or NoJob
    jpc,        \* where each job is
    inputs,     \* the SSTs a merge replaces
    buf,        \* the serialized levels of a job: [gen, names]
    mark        \* manifest writes done when the job's fdatasync began

memVars == <<mode, live, gen, wlock, jpc, inputs, buf, mark>>

VARIABLES
    files,      \* SST files in the directory
    written,    \* the manifests since load: the SSTs each one names
    synced,     \* the last of them known to be on disk
    holds,      \* holds[s]: the flushes whose entries SST s has
    persisted   \* flushes whose manifest update succeeded

diskVars == <<files, written, synced, holds, persisted>>
vars == <<memVars, diskVars>>

Nothing == [gen |-> 0, names |-> {}]

Init ==
    /\ mode = "up" /\ live = {} /\ gen = 0 /\ wlock = NoJob
    /\ jpc = [j \in Jobs |-> "idle"]
    /\ inputs = [j \in Jobs |-> {}]
    /\ buf = [j \in Jobs |-> Nothing]
    /\ mark = [j \in Jobs |-> 0]
    /\ files = {} /\ written = <<{}>> /\ synced = 1
    /\ holds = [j \in Jobs |-> {}]
    /\ persisted = {}

Goto(j, at) == jpc' = [jpc EXCEPT ![j] = at]

-----------------------------------------------------------------------------
\* flush_memtable wrote and synced the SST of the flush.
WriteFlushed(j) ==
    /\ mode = "up" /\ jpc[j] = "idle" /\ j \in Flushes
    /\ files' = files \cup {j}
    /\ holds' = [holds EXCEPT ![j] = {j}]
    /\ Goto(j, "publish")
    /\ UNCHANGED <<mode, live, gen, wlock, inputs, buf, mark, written, synced, persisted>>

\* SSTs that a running compaction has picked.
Picked == UNION {inputs[j] : j \in {k \in Merges : jpc[k] = "publish"}}

\* k_way_merge_async2 wrote and synced the merged SST of some inputs.
WriteMerged(j) ==
    /\ mode = "up" /\ jpc[j] = "idle" /\ j \in Merges
    /\ \E ins \in SUBSET (live \ Picked) :
          /\ ins # {}
          /\ inputs' = [inputs EXCEPT ![j] = ins]
          /\ holds' = [holds EXCEPT ![j] = UNION {holds[s] : s \in ins}]
    /\ files' = files \cup {j}
    /\ Goto(j, "publish")
    /\ UNCHANGED <<mode, live, gen, wlock, buf, mark, written, synced, persisted>>

\* An update that erases what any running compaction has picked.
PublishErasingPicked(j) ==
    /\ mode = "up" /\ jpc[j] = "publish"
    /\ live' = (live \ Picked) \cup {j}
    /\ gen' = gen + 1
    /\ Goto(j, "snapshot")
    /\ UNCHANGED <<mode, wlock, inputs, buf, mark, diskVars>>

\* push_new_ssts_to_l0, or the update under the lock in _make_compaction_task.
Publish(j) ==
    /\ mode = "up" /\ jpc[j] = "publish"
    /\ live' = (live \ inputs[j]) \cup {j}
    /\ gen' = gen + 1
    /\ Goto(j, "snapshot")
    /\ UNCHANGED <<mode, wlock, inputs, buf, mark, diskVars>>

-----------------------------------------------------------------------------
(* _persist_partition_state *)

\* The optimistic snapshot and its generation, under the shared lock.
TakeSnapshot(j) ==
    /\ mode = "up" /\ jpc[j] = "snapshot"
    /\ buf' = [buf EXCEPT ![j] = [gen |-> gen, names |-> live]]
    /\ Goto(j, "recheck")
    /\ UNCHANGED <<mode, live, gen, wlock, inputs, mark, diskVars>>

\* A writer that trusts its snapshot.
TrustSnapshot(j) ==
    /\ mode = "up" /\ jpc[j] = "recheck" /\ wlock = NoJob
    /\ wlock' = j
    /\ Goto(j, "write")
    /\ UNCHANGED <<mode, live, gen, inputs, buf, mark, diskVars>>

\* Take state_write_mutex; serialize again if the generation moved on.
Recheck(j) ==
    /\ mode = "up" /\ jpc[j] = "recheck" /\ wlock = NoJob
    /\ wlock' = j
    /\ buf' = IF buf[j].gen = gen THEN buf
              ELSE [buf EXCEPT ![j] = [gen |-> gen, names |-> live]]
    /\ Goto(j, "write")
    /\ UNCHANGED <<mode, live, gen, inputs, mark, diskVars>>

\* pwrite, and leave the mutex.
WriteManifest(j) ==
    /\ mode = "up" /\ jpc[j] = "write"
    /\ written' = Append(written, buf[j].names)
    /\ wlock' = NoJob
    /\ buf' = [buf EXCEPT ![j] = Nothing]
    /\ Goto(j, "sync")
    /\ UNCHANGED <<mode, live, gen, inputs, mark, files, synced, holds, persisted>>

\* fdatasync begins.
BeginSync(j) ==
    /\ mode = "up" /\ jpc[j] = "sync"
    /\ mark' = [mark EXCEPT ![j] = Len(written)]
    /\ Goto(j, "syncing")
    /\ UNCHANGED <<mode, live, gen, wlock, inputs, buf, diskVars>>

\* fdatasync ends: what was written when it began is on disk.
EndSync(j) ==
    /\ mode = "up" /\ jpc[j] = "syncing"
    /\ synced' = IF synced < mark[j] THEN mark[j] ELSE synced
    /\ persisted' = persisted \cup ({j} \cap Flushes)
    /\ mark' = [mark EXCEPT ![j] = 0]
    /\ Goto(j, IF j \in Merges THEN "unlink" ELSE "done")
    /\ UNCHANGED <<mode, live, gen, wlock, inputs, buf, files, written, holds>>

\* The manifest cannot be opened, written or synced: the failure is logged,
\* nothing is unlinked and the levels in memory stay as they are.
PersistFails(j) ==
    /\ mode = "up" /\ jpc[j] \in {"snapshot", "write", "syncing"}
    /\ wlock' = IF jpc[j] = "write" THEN NoJob ELSE wlock
    /\ inputs' = [inputs EXCEPT ![j] = {}]
    /\ buf' = [buf EXCEPT ![j] = Nothing]
    /\ mark' = [mark EXCEPT ![j] = 0]
    /\ Goto(j, "done")
    /\ UNCHANGED <<mode, live, gen, diskVars>>

\* Unlinking once the manifest is written but not synced.
UnlinkUnsynced(j) ==
    /\ mode = "up" /\ jpc[j] \in {"sync", "unlink"}
    /\ \E s \in inputs[j] \cap files : files' = files \ {s}
    /\ UNCHANGED <<memVars, written, synced, holds, persisted>>

\* The task unlinks its inputs one after the other.
Unlink(j) ==
    /\ mode = "up" /\ jpc[j] = "unlink"
    /\ \E s \in inputs[j] \cap files : files' = files \ {s}
    /\ UNCHANGED <<memVars, written, synced, holds, persisted>>

EndMerge(j) ==
    /\ mode = "up" /\ jpc[j] = "unlink"
    /\ inputs[j] \cap files = {}
    /\ inputs' = [inputs EXCEPT ![j] = {}]
    /\ Goto(j, "done")
    /\ UNCHANGED <<mode, live, gen, wlock, buf, mark, diskVars>>

-----------------------------------------------------------------------------
(* Crash and load *)

\* The process or the machine stops; one of the manifests that may be on disk
\* is what is left.  Jobs that had begun are gone.
Crash ==
    /\ mode = "up"
    /\ mode' = "down"
    /\ \E i \in synced..Len(written) : written' = <<written[i]>>
    /\ synced' = 1
    /\ live' = {} /\ gen' = 0 /\ wlock' = NoJob
    /\ jpc' = [j \in Jobs |-> IF jpc[j] = "idle" THEN "idle" ELSE "done"]
    /\ inputs' = [j \in Jobs |-> {}]
    /\ buf' = [j \in Jobs |-> Nothing]
    /\ mark' = [j \in Jobs |-> 0]
    /\ UNCHANGED <<files, holds, persisted>>

\* The levels _parse_manifest_and_load_ssts yields: none at all if an SST that
\* the manifest names cannot be loaded.
Parsed == IF written[1] \subseteq files THEN written[1] ELSE {}

\* _load_partition: every SST file must be in the levels.
Load ==
    /\ mode = "down"
    /\ files \subseteq Parsed
    /\ mode' = "up"
    /\ live' = Parsed
    /\ UNCHANGED <<gen, wlock, jpc, inputs, buf, mark, diskVars>>

LoadRefused ==
    /\ mode = "down"
    /\ ~(files \subseteq Parsed)
    /\ mode' = "refused"
    /\ UNCHANGED <<live, gen, wlock, jpc, inputs, buf, mark, diskVars>>

-----------------------------------------------------------------------------
JobStep(j) ==
    \/ WriteFlushed(j) \/ WriteMerged(j) \/ Publish(j)
    \/ TakeSnapshot(j) \/ Recheck(j) \/ WriteManifest(j) \/ BeginSync(j) \/ EndSync(j)
    \/ PersistFails(j) \/ Unlink(j) \/ EndMerge(j)

Next == (\E j \in Jobs : JobStep(j)) \/ Crash \/ Load \/ LoadRefused

Spec == Init /\ [][Next]_vars

-----------------------------------------------------------------------------
(* Properties *)

States == {"idle", "publish", "snapshot", "recheck", "write", "sync", "syncing", "unlink", "done"}
Contents == [gen : Nat, names : SUBSET Jobs]

\* The types of the variables; a sync covers only manifests that were written.
TypeOK ==
    /\ mode \in {"up", "down", "refused"}
    /\ live \subseteq Jobs /\ gen \in Nat /\ wlock \in Jobs \cup {NoJob}
    /\ jpc \in [Jobs -> States]
    /\ inputs \in [Jobs -> SUBSET Jobs]
    /\ buf \in [Jobs -> Contents]
    /\ mark \in [Jobs -> Nat]
    /\ files \subseteq Jobs
    /\ written \in Seq(SUBSET Jobs) /\ synced \in 1..Len(written)
    /\ \A j \in Jobs : mark[j] <= Len(written)
    /\ holds \in [Jobs -> SUBSET Jobs] /\ persisted \subseteq Jobs

\* No manifest that a crash may leave on disk names an SST that was unlinked,
\* however the jobs' snapshots, writes and syncs overtake one another: the
\* generation check under state_write_mutex keeps an old snapshot from being
\* written after a newer one, and inputs go only after the task's own sync.
ManifestNamesOnlyFiles ==
    \A i \in synced..Len(written) : written[i] \subseteq files

\* The flushes whose entries a set of SSTs has.
Held(names) == UNION {holds[s] : s \in names}

\* Once the manifest update of a flush has succeeded, every manifest a crash may
\* leave has its entries: it is safe to reset the WAL of that flush.
PersistedStays ==
    \A i \in synced..Len(written) : persisted \subseteq Held(written[i])

\* A database that is up, after a load or while merges replace SSTs, has the
\* entries of every flush whose manifest update succeeded: load never ends in a
\* database that silently lacks them (it may refuse to load).
LoadIsComplete == mode = "up" => persisted \subseteq Held(live)
=============================================================================
