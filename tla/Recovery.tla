------------------------------ MODULE Recovery ------------------------------
(***************************************************************************)
(* Durability of puts across crashes of the process: the WAL (wal.cc), the   *)
(* sequence numbers given out by skiplist_wrapper::insert, the maximal       *)
(* sequence number each SST remembers, and what database::load rebuilds from *)
(* the manifest and the WAL (memtable::replay_wal).                          *)
(*                                                                         *)
(* As in Memtable every put is a version of one key.  The flush pipeline is  *)
(* cut down to what durability needs: buffers in order of age, each with a    *)
(* WAL slot; the steps of Memtable between two of these leave the disk alone. *)
(* Bytes appended to a WAL file and a manifest that was written survive the   *)
(* crash of the process; everything in memory is lost.                       *)
(***************************************************************************)
EXTENDS Integers, Sequences, FiniteSets

CONSTANTS
    Writers,        \* threads calling put_async
    MaxPuts,        \* bound: puts started
    Cap,            \* memory_budget_cap, in entries
    MaxFlushes,     \* max_pending_flushes
    MaxRestarts,    \* bound: crashes
    MaxGap          \* bound: a failed insertion takes a number below this one only

ASSUME MaxFlushesAssumption == MaxFlushes \in Nat \ {0}

WalSlots == 1..(MaxFlushes + 2)

VARIABLES
    mode,       \* "up", "down" after a crash, "refused" when load failed
    seq,        \* _seq_nr
    buffers,    \* the buffers of this run of the process, oldest first
    free,       \* the WAL slots waiting in _wal_ch
    wpc,        \* where each writer is in put_async
    at,         \* the buffer each writer holds
    entry,      \* the entry each writer is writing: [seq, v]
    wal,        \* the records in the files of each WAL slot
    ssts,       \* SSTs of the manifest, oldest first: [entries, max]
    orphan      \* an SST file exists that the manifest does not name

VARIABLES
    puts,       \* puts started so far
    acked,      \* the versions whose put returned ok
    before,     \* before[p]: the versions acked when put p started
    restarts,   \* crashes so far
    skipped,    \* records the last replay skipped
    lost,       \* versions that a replay skipped although no SST has them
    revived     \* versions that a replay inserted although an SST has a newer one

diskVars == <<wal, ssts, orphan>>
memVars == <<mode, seq, buffers, free>>
putVars == <<wpc, at, entry, puts, acked, before>>
crashVars == <<restarts, skipped, lost, revived>>

vars == <<memVars, diskVars, putVars, crashVars>>

NoEntry == [seq |-> 0, v |-> 0]

NewBuffer(slot) == [state |-> "active", slot |-> slot, bytes |-> 0, entries |-> {}]

\* A channel that also holds the slot of _table.
ChannelWithFirst == [i \in 1..(MaxFlushes + 1) |-> i]

\* The WAL slots a new memtable object posts to its channel; the first one
\* goes to _table.
Channel == [i \in 1..(MaxFlushes + 1) |-> i + 1]

Init ==
    /\ mode = "up" /\ seq = 0
    /\ buffers = <<NewBuffer(1)>> /\ free = Channel
    /\ wpc = [w \in Writers |-> "idle"]
    /\ at = [w \in Writers |-> 1]
    /\ entry = [w \in Writers |-> NoEntry]
    /\ wal = [s \in WalSlots |-> {}]
    /\ ssts = <<>> /\ orphan = FALSE
    /\ puts = 0 /\ acked = {} /\ before = <<>>
    /\ restarts = 0 /\ skipped = {} /\ lost = {} /\ revived = {}

Active == Len(buffers)

-----------------------------------------------------------------------------
(* put_async *)

\* Start a put and acquire the current buffer.
Put(w) ==
    /\ mode = "up" /\ wpc[w] = "idle" /\ puts < MaxPuts
    /\ puts' = puts + 1
    /\ before' = Append(before, acked)
    /\ entry' = [entry EXCEPT ![w].v = puts + 1]
    /\ at' = [at EXCEPT ![w] = Active]
    /\ wpc' = [wpc EXCEPT ![w] = "insert"]
    /\ UNCHANGED <<memVars, diskVars, acked, crashVars>>

\* Allocate and insert under a new sequence number.  Either may fail for want of
\* memory, the insertion after it took its number.  Go on to flush then or if the
\* budget was exceeded already.
Insert(w) ==
    LET b == buffers[at[w]] IN
    /\ wpc[w] = "insert"
    /\ \E ok \in BOOLEAN : (b.entries = {} => ok) /\
          IF ok
          THEN /\ seq' = seq + 1
               /\ entry' = [entry EXCEPT ![w].seq = seq]
               /\ buffers' = [buffers EXCEPT ![at[w]].entries = @ \cup {entry'[w]},
                                             ![at[w]].bytes = IF @ > Cap THEN @ ELSE @ + 1]
               /\ wpc' = [wpc EXCEPT ![w] = IF b.bytes > Cap THEN "flush" ELSE "log"]
          ELSE /\ seq' \in {seq, IF seq < MaxGap THEN seq + 1 ELSE seq}
               /\ wpc' = [wpc EXCEPT ![w] = "flush"]
               /\ UNCHANGED <<entry, buffers>>
    /\ UNCHANGED <<mode, free, diskVars, at, puts, acked, before, crashVars>>

\* wal::append, then the put returns ok.
Log(w) ==
    /\ wpc[w] = "log"
    /\ wal' = [wal EXCEPT ![buffers[at[w]].slot] = @ \cup {entry[w]}]
    /\ acked' = acked \cup {entry[w].v}
    /\ entry' = [entry EXCEPT ![w] = NoEntry]
    /\ wpc' = [wpc EXCEPT ![w] = "idle"]
    /\ UNCHANGED <<memVars, ssts, orphan, at, puts, before, crashVars>>

\* _flush: swap in the next buffer if nobody did so before, then start over with
\* the current buffer.
Flush(w) ==
    LET waiting == {i \in DOMAIN buffers : buffers[i].state \in {"pending", "written"}} IN
    /\ wpc[w] = "flush"
    /\ IF at[w] # Active THEN UNCHANGED <<buffers, free>>
       ELSE /\ Cardinality(waiting) < MaxFlushes /\ free # <<>>
            /\ buffers' = Append([buffers EXCEPT ![Active].state = "pending"],
                                 NewBuffer(Head(free)))
            /\ free' = Tail(free)
    /\ at' = [at EXCEPT ![w] = Len(buffers')]
    /\ wpc' = [wpc EXCEPT ![w] = "insert"]
    /\ UNCHANGED <<mode, seq, diskVars, entry, puts, acked, before, crashVars>>

-----------------------------------------------------------------------------
(* _flush_inner *)

\* The buffer has no writers: its SST files are written.
WriteSst(b) ==
    /\ mode = "up"
    /\ buffers[b].state = "pending"
    /\ \A w \in Writers : wpc[w] # "idle" => at[w] # b
    /\ buffers' = [buffers EXCEPT ![b].state = "written"]
    /\ orphan' = TRUE
    /\ UNCHANGED <<mode, seq, free, wal, ssts, putVars, crashVars>>

\* The largest sequence number among entries.
MaxSeq(entries) == CHOOSE m \in {e.seq : e \in entries} : \A e \in entries : e.seq <= m

\* push_new_ssts_to_l0 in chain order, and the manifest that names the SSTs.
Publish(b) ==
    /\ mode = "up"
    /\ buffers[b].state = "written"
    /\ \A a \in 1..(b - 1) : buffers[a].state \in {"flushed", "done"}
    /\ ssts' = Append(ssts, [entries |-> buffers[b].entries, max |-> MaxSeq(buffers[b].entries)])
    /\ buffers' = [buffers EXCEPT ![b].state = "flushed"]
    /\ orphan' = (\E a \in DOMAIN buffers : a # b /\ buffers[a].state = "written")
    /\ UNCHANGED <<mode, seq, free, wal, putVars, crashVars>>

\* A flush that truncates the WAL before the SST is published.
ResetWalEarly(b) ==
    /\ mode = "up"
    /\ buffers[b].state = "written"
    /\ wal' = [wal EXCEPT ![buffers[b].slot] = {}]
    /\ UNCHANGED <<mode, seq, buffers, free, ssts, orphan, putVars, crashVars>>

\* wal::reset, and the slot goes back to the channel.
ResetWal(b) ==
    /\ mode = "up"
    /\ buffers[b].state = "flushed"
    /\ wal' = [wal EXCEPT ![buffers[b].slot] = {}]
    /\ free' = Append(free, buffers[b].slot)
    /\ buffers' = [buffers EXCEPT ![b].state = "done", ![b].entries = {}]
    /\ UNCHANGED <<mode, seq, ssts, orphan, putVars, crashVars>>

-----------------------------------------------------------------------------
(* Crash and database::load *)

Crash ==
    /\ mode = "up" /\ restarts < MaxRestarts
    /\ mode' = "down"
    /\ restarts' = restarts + 1
    /\ seq' = 0
    /\ buffers' = <<NewBuffer(1)>> /\ free' = Channel
    /\ wpc' = [w \in Writers |-> "idle"]
    /\ at' = [w \in Writers |-> 1]
    /\ entry' = [w \in Writers |-> NoEntry]
    /\ UNCHANGED <<diskVars, puts, acked, before, skipped, lost, revived>>

\* sst_manager::load refuses a directory with an SST the manifest does not name.
LoadRefused ==
    /\ mode = "down" /\ orphan
    /\ mode' = "refused"
    /\ UNCHANGED <<seq, buffers, free, diskVars, putVars, crashVars>>

Records == UNION {wal[s] : s \in WalSlots}

InSst(v) == \E i \in DOMAIN ssts : \E e \in ssts[i].entries : e.v = v

\* An SST has a version whose put started after the put of v had returned.
Overwritten(v) == \E u \in 1..puts : v \in before[u] /\ InSst(u)

\* sst_manager::max_seq_nr: 0 when there are no SSTs.
FlushedThreshold == MaxSeq({[seq |-> 0, v |-> 0]} \cup
                           {[seq |-> ssts[i].max, v |-> 0] : i \in DOMAIN ssts})

\* The position a record gets when the kept ones are replayed in seq order.
Rank(e, kept) == Cardinality({f \in kept : f.seq < e.seq})

\* A replay that leaves the sequence numbers where the insertions put them.
ReplayKeepingCounter ==
    LET dropped == {e \in Records : e.seq <= FlushedThreshold}
        kept == Records \ dropped
    IN /\ mode = "down" /\ ~orphan
       /\ mode' = "up"
       /\ buffers' = [buffers EXCEPT ![1].entries = {[seq |-> Rank(e, kept), v |-> e.v] : e \in kept}]
       /\ seq' = Cardinality(kept)
       /\ skipped' = dropped
       /\ lost' = lost \cup {v \in {e.v : e \in dropped} : ~InSst(v)}
       /\ revived' = revived \cup {v \in {e.v : e \in kept} : Overwritten(v)}
       /\ UNCHANGED <<free, diskVars, putVars, restarts>>

\* replay_wal: skip what is not above the threshold, insert the rest into the
\* first buffer in seq order under new sequence numbers, and continue above the
\* largest replayed number if there was any.  The WAL files stay as they are.
Replay ==
    LET dropped == {e \in Records : e.seq <= FlushedThreshold}
        kept == Records \ dropped
    IN /\ mode = "down" /\ ~orphan
       /\ mode' = "up"
       /\ buffers' = [buffers EXCEPT ![1].entries = {[seq |-> Rank(e, kept), v |-> e.v] : e \in kept}]
       /\ seq' = IF kept = {} THEN 0 ELSE MaxSeq(kept) + 1
       /\ skipped' = dropped
       /\ lost' = lost \cup {v \in {e.v : e \in dropped} : ~InSst(v)}
       /\ revived' = revived \cup {v \in {e.v : e \in kept} : Overwritten(v)}
       /\ UNCHANGED <<free, diskVars, putVars, restarts>>

-----------------------------------------------------------------------------
Next ==
    \/ \E w \in Writers : Put(w) \/ Insert(w) \/ Log(w) \/ Flush(w)
    \/ \E b \in DOMAIN buffers : WriteSst(b) \/ Publish(b) \/ ResetWal(b)
    \/ Crash \/ LoadRefused \/ Replay

Spec == Init /\ [][Next]_vars
-----------------------------------------------------------------------------
(* What a get returns *)

\* The places a get looks at, in its order: the current buffer, the buffers
\* waiting for their flush from the newest, the SSTs from the newest.
InMemory == {i \in DOMAIN buffers : buffers[i].state \in {"active", "pending", "written"}
                                    /\ buffers[i].entries # {}}

NewestIn(entries) == (CHOOSE e \in entries : e.seq = MaxSeq(entries)).v

Lookup ==
    IF InMemory # {}
    THEN NewestIn(buffers[CHOOSE i \in InMemory : \A j \in InMemory : j <= i].entries)
    ELSE IF ssts # <<>> THEN NewestIn(ssts[Len(ssts)].entries) ELSE 0

-----------------------------------------------------------------------------
(* Properties *)

Entries == [seq : Nat, v : 0..MaxPuts]

\* The types of the variables.
TypeOK ==
    /\ mode \in {"up", "down", "refused"} /\ seq \in Nat
    /\ \A i \in DOMAIN buffers :
          buffers[i] \in [state : {"active", "pending", "written", "flushed", "done"},
                          slot : WalSlots, bytes : 0..(Cap + 1), entries : SUBSET Entries]
    /\ \A i \in DOMAIN free : free[i] \in WalSlots
    /\ wpc \in [Writers -> {"idle", "insert", "log", "flush"}]
    /\ \A w \in Writers : at[w] \in DOMAIN buffers /\ entry[w] \in Entries
    /\ wal \in [WalSlots -> SUBSET Entries]
    /\ \A i \in DOMAIN ssts : ssts[i] \in [entries : SUBSET Entries, max : Nat]
    /\ orphan \in BOOLEAN
    /\ puts \in 0..MaxPuts /\ acked \subseteq 1..puts /\ Len(before) = puts
    /\ restarts \in 0..MaxRestarts /\ skipped \subseteq Entries /\ lost \subseteq 1..puts
    /\ revived \subseteq 1..puts

\* A put that returned ok is on disk from then on, whatever flushes, WAL resets,
\* crashes and replays follow: its record is in a WAL file or its entry went
\* into an SST of the manifest.  Versions a replay wrongly skipped are excepted:
\* SkippedIsPersisted is about those.
AckedIsOnDisk ==
    \A v \in acked \ lost :
       InSst(v) \/ \E e \in Records : e.v = v

\* Across crashes a get never returns a version that was overwritten, unless a
\* replay put it on top of an SST with a newer one: no put that returned ok (and
\* was not skipped by a replay) started after the version read had been
\* acknowledged.
RecoveredIsFresh ==
    mode = "up" =>
       \A u \in acked \ lost :
          Lookup # 0 /\ (Lookup \in before[u] => Lookup \in revived)

\* "skipping entries already persisted in SSTs" (database.cc:161): no record that
\* replay inserts is older than what the SSTs of the manifest have.
PersistedIsSkipped == revived = {}

\* Two buffers in use never share a WAL slot, and a slot in the channel belongs to
\* no buffer in use: a reset truncates the records of its own buffer only.
SlotsAreExclusive ==
    LET used == {i \in DOMAIN buffers : buffers[i].state # "done"} IN
    /\ \A i, j \in used : buffers[i].slot = buffers[j].slot => i = j
    /\ \A i \in used : \A k \in DOMAIN free : free[k] # buffers[i].slot

\* "already persisted in an SST" (memtable.cc:468): a WAL record that replay_wal
\* skips because of the SSTs it finds is the record of an entry in one of them.
SkippedIsPersisted ==
    [][Replay /\ ssts # <<>> => \A e \in skipped' : InSst(e.v)]_vars

\* "skipping entries already persisted in SSTs" (database.cc:161), and only those:
\* while no SST exists, replay skips no record of the WAL.
UnflushedIsReplayed ==
    ssts = <<>> => skipped = {}

\* "Replay WAL files from any prior crash" (database.cc:161): load succeeds
\* after every crash.
LoadSucceeds == mode # "refused"
=============================================================================
