------------------------------ MODULE Memtable ------------------------------
(***************************************************************************)
(* src/src/db/memtable.cc: the write path, the flush pipeline and the read   *)
(* path, seen through one key.  Every put is a version of that key.          *)
(*                                                                         *)
(*   put_async   acquire the buffer, insert, append to the WAL, or flush      *)
(*   _flush      one thread at a time: freeze, take a flush slot, swap in     *)
(*               the pipelined buffer, start a flush job                     *)
(*   _flush_inner one job per swapped buffer: drain, write SSTs, publish in   *)
(*               the order of the can_write chain, give back slot and WAL     *)
(*   get         the thread's cached buffer, the pending buffers, the SSTs    *)
(*                                                                         *)
(* Entering and leaving a buffer is atomic here: RwSync shows that rw_sync   *)
(* is such a gate.  Of the versions in a buffer a lookup returns the one   *)
(* with the highest sequence number, which is the one inserted last: a buffer  *)
(* is the set of its versions and the latest of them, without the numbers.    *)
(***************************************************************************)
EXTENDS Integers, Sequences, FiniteSets

CONSTANTS
    Writers,        \* threads calling put_async
    MaxPuts,        \* bound: puts started
    FailingPuts,    \* bound: the puts whose WAL append may fail
    FailingJobs,    \* bound: the flush jobs whose SST write may fail
    Cap,            \* memory_budget_cap, in entries
    MaxFlushes      \* max_pending_flushes

ASSUME MaxPutsAssumption == MaxPuts \in Nat
ASSUME CapAssumption == Cap \in Nat
ASSUME MaxFlushesAssumption == MaxFlushes \in Nat \ {0}

None == 0           \* no table, no put, no value, no writer

ASSUME WritersAssumption == None \notin Writers

WalSlots == MaxFlushes + 2      \* 1 active + 1 pipelined + the pending ones

VARIABLES
    tables,     \* every buffer made so far: [frozen, bytes, content]
    table,      \* _table
    pipelined,  \* _pipelined_table
    making,     \* a _make_memtable task is running
    walFree,    \* WAL slots in _wal_ch
    slots,      \* permits of _pending_flush_slots
    mutex,      \* _flush_mutex: the writer holding it, or None
    switch,     \* _table_switch_epoch
    pending,    \* _pending_flushes: the set of <<epoch, table>>
    jobs,       \* _flush_inner tasks in the order they were started
    granted,    \* links of the can_write chain whose semaphore is up
    epoch,      \* _flush_epoch
    l0          \* L0 of the partition, oldest first: [epoch, version]

flushVars == <<pipelined, making, walFree, slots, pending, jobs, granted, l0>>

VARIABLES
    wpc,        \* where each writer is in put_async / _flush
    local,      \* put_async's thread_local local_memtable_ref
    put,        \* the version each writer is putting
    wepoch,     \* curr_flush_epoch of a writer in _flush
    puts,       \* puts started so far
    acked,      \* the versions whose put returned ok
    before      \* before[p]: the versions acked when put p started

putVars == <<wpc, local, put, wepoch, puts, acked, before>>

VARIABLES
    rpc,        \* where the reader is in get
    rtable,     \* get's thread_local local_memtable_ref
    rswitch,    \* get's thread_local table_switch_epoch
    rstart,     \* the versions acked when this get started
    result,     \* the version it returns
    midSwitch   \* this get read the switch epoch between swap and increment

getVars == <<rpc, rtable, rswitch, rstart, result, midSwitch>>

vars == <<tables, table, mutex, switch, epoch, flushVars, putVars, getVars>>

-----------------------------------------------------------------------------
NoContent == [versions |-> {}, newest |-> None]
EmptyTable == [frozen |-> FALSE, bytes |-> 0, content |-> NoContent]

Init ==
    /\ tables = <<EmptyTable, EmptyTable>>
    /\ table = 1 /\ pipelined = 2 /\ making = FALSE
    /\ walFree = WalSlots - 2
    /\ slots = MaxFlushes
    /\ mutex = None /\ switch = 0 /\ epoch = 0
    /\ pending = {} /\ jobs = <<>> /\ granted = {1}
    /\ l0 = <<>>
    /\ wpc = [w \in Writers |-> "idle"]
    /\ local = [w \in Writers |-> 1]
    /\ put = [w \in Writers |-> None]
    /\ wepoch = [w \in Writers |-> 0]
    /\ puts = 0 /\ acked = {} /\ before = <<>>
    /\ rpc = "idle" /\ rtable = 1 /\ rswitch = 0
    /\ rstart = {} /\ result = None /\ midSwitch = FALSE

\* The writers inside table t: past acquire_writer and not yet released.
Holding(w, t) == local[w] = t /\ wpc[w] \notin {"idle", "acquire"}

\* What a lookup of the key in table t returns: its latest version, or None.
Newest(t) == tables[t].content.newest

Goto(w, at) == wpc' = [wpc EXCEPT ![w] = at]

-----------------------------------------------------------------------------
(* put_async *)

Put(w) ==
    /\ wpc[w] = "idle" /\ puts < MaxPuts
    /\ puts' = puts + 1
    /\ put' = [put EXCEPT ![w] = puts + 1]
    /\ before' = Append(before, acked)
    /\ Goto(w, "acquire")
    /\ UNCHANGED <<tables, table, mutex, switch, epoch, flushVars, local, wepoch, acked, getVars>>

Acquire(w) ==
    /\ wpc[w] = "acquire"
    /\ ~tables[local[w]].frozen
    /\ Goto(w, "insert")
    /\ UNCHANGED <<tables, table, mutex, switch, epoch, flushVars, local, put, wepoch, puts,
                   acked, before, getVars>>

\* The buffer is frozen and another one is installed.  While it is still the
\* current one the writer spins, then awaits _table: it stays where it is.
Reload(w) ==
    /\ wpc[w] = "acquire"
    /\ tables[local[w]].frozen
    /\ table # local[w]
    /\ local' = [local EXCEPT ![w] = table]
    /\ UNCHANGED <<tables, table, mutex, switch, epoch, flushVars, wpc, put, wepoch, puts, acked,
                   before, getVars>>

\* Allocate, insert, and add to bytes_written.  ok is FALSE when the arena or
\* the skiplist ran out: nothing is inserted then.  An entry that overflows the
\* budget is already inserted when the writer goes to flush.
Insert(w) ==
    LET t == local[w] IN
    /\ wpc[w] = "insert"
    /\ \E ok \in BOOLEAN : (tables[t].bytes = 0 => ok) /\
          LET over == ~ok \/ tables[t].bytes > Cap
              all == tables[t].content.versions \cup {put[w]}
          IN /\ tables' = IF ok
                          THEN [tables EXCEPT ![t].content = [versions |-> all, newest |-> put[w]],
                                              ![t].bytes = IF @ > Cap THEN @ ELSE @ + 1]
                          ELSE tables
             /\ Goto(w, IF over THEN "flush" ELSE "log")
    /\ UNCHANGED <<table, mutex, switch, epoch, flushVars, local, put, wepoch, puts, acked, before,
                   getVars>>

\* Append to the WAL of the buffer, then return and so release the buffer.
Log(w) ==
    /\ wpc[w] = "log"
    /\ acked' = acked \cup {put[w]}
    /\ put' = [put EXCEPT ![w] = None]
    /\ Goto(w, "idle")
    /\ UNCHANGED <<tables, table, mutex, switch, epoch, flushVars, local, wepoch, puts, before, getVars>>

\* The append fails: the put returns the error, the entry stays in the buffer.
LogFails(w) ==
    /\ wpc[w] = "log" /\ put[w] \in FailingPuts
    /\ put' = [put EXCEPT ![w] = None]
    /\ Goto(w, "idle")
    /\ UNCHANGED <<tables, table, mutex, switch, epoch, flushVars, local, wepoch, puts, acked,
                   before, getVars>>

\* continue: the acquired_writer of this iteration is destroyed.
Leave(w) ==
    /\ wpc[w] = "leave"
    /\ Goto(w, "acquire")
    /\ UNCHANGED <<tables, table, mutex, switch, epoch, flushVars, local, put, wepoch, puts,
                   acked, before, getVars>>

-----------------------------------------------------------------------------
(* _flush, run by a writer that still holds the buffer it overflowed *)

\* The compare-and-exchange on _flush_mutex.
TryFlush(w) ==
    /\ wpc[w] = "flush"
    /\ IF mutex = None THEN mutex' = w /\ Goto(w, "guard")
                       ELSE mutex' = mutex /\ Goto(w, "leave")
    /\ UNCHANGED <<tables, table, switch, epoch, flushVars, local, put, wepoch, puts, acked,
                   before, getVars>>

\* Bail out if the buffer was swapped out already; else take the flush epoch
\* and freeze the buffer.
Guard(w) ==
    /\ wpc[w] = "guard"
    /\ IF table # local[w]
       THEN /\ mutex' = None
            /\ Goto(w, "leave")
            /\ UNCHANGED <<tables, epoch, wepoch>>
       ELSE /\ epoch' = epoch + 1
            /\ wepoch' = [wepoch EXCEPT ![w] = epoch]
            /\ tables' = [tables EXCEPT ![local[w]].frozen = TRUE]
            /\ Goto(w, "slot")
            /\ UNCHANGED mutex
    /\ UNCHANGED <<table, switch, flushVars, local, put, puts, acked, before, getVars>>

\* co_await _pending_flush_slots.
AwaitSlot(w) ==
    /\ wpc[w] = "slot" /\ slots > 0
    /\ slots' = slots - 1
    /\ Goto(w, "swap")
    /\ UNCHANGED <<tables, table, mutex, switch, epoch, pipelined, making, walFree, pending, jobs,
                   granted, l0, local, put, wepoch, puts, acked, before, getVars>>

\* Await the pipelined buffer, then exchange both under _pending_flushes_mutex.
Swap(w) ==
    /\ wpc[w] = "swap" /\ pipelined # None
    /\ pending' = pending \cup {<<wepoch[w], table>>}
    /\ table' = pipelined /\ pipelined' = None
    /\ Goto(w, "switch")
    /\ UNCHANGED <<tables, mutex, switch, epoch, making, walFree, slots, jobs, granted, l0, local, put, wepoch, puts, acked, before, getVars>>

\* A flush that never lets go of the mutex.
LaunchKeepingMutex(w) ==
    /\ wpc[w] = "switch"
    /\ switch' = switch + 1
    /\ making' = TRUE
    /\ \E e \in pending :
          /\ e[1] = wepoch[w]
          /\ jobs' = Append(jobs, [epoch |-> e[1], table |-> e[2], pc |-> "drain", sst |-> None])
    /\ Goto(w, "leave")
    /\ UNCHANGED <<tables, table, mutex, epoch, pipelined, walFree, slots, pending, granted, l0, local, put, wepoch, puts, acked, before, getVars>>

\* Wake the writers, advance the switch epoch, start the maker of the next
\* pipelined buffer and the flush job, and let go of the mutex.
Launch(w) ==
    /\ wpc[w] = "switch"
    /\ switch' = switch + 1
    /\ making' = TRUE
    /\ \E e \in pending :
          /\ e[1] = wepoch[w]
          /\ jobs' = Append(jobs, [epoch |-> e[1], table |-> e[2], pc |-> "drain", sst |-> None])
    /\ mutex' = None
    /\ Goto(w, "leave")
    /\ UNCHANGED <<tables, table, epoch, pipelined, walFree, slots, pending, granted, l0,
                   local, put, wepoch, puts, acked, before, getVars>>

-----------------------------------------------------------------------------
(* The background tasks *)

\* _make_memtable: pull a WAL slot, install the buffer.
MakePipelined ==
    /\ making /\ walFree > 0
    /\ making' = FALSE
    /\ walFree' = walFree - 1
    /\ tables' = Append(tables, EmptyTable)
    /\ pipelined' = Len(tables) + 1
    /\ UNCHANGED <<table, mutex, switch, epoch, slots, pending, jobs, granted, l0, putVars,
                   getVars>>

JobAt(n, at) == n \in DOMAIN jobs /\ jobs[n].pc = at
JobGoto(n, at) == jobs' = [jobs EXCEPT ![n].pc = at]

\* A job that starts to write while writers are still inside.
DrainUnchecked(n) ==
    /\ JobAt(n, "drain")
    /\ JobGoto(n, "write")
    /\ UNCHANGED <<tables, table, mutex, switch, epoch, pipelined, making, walFree, slots, pending,
                   granted, l0, putVars, getVars>>

\* _flush_inner: wait until no writer holds the buffer.
Drain(n) ==
    /\ JobAt(n, "drain")
    /\ \A w \in Writers : ~Holding(w, jobs[n].table)
    /\ JobGoto(n, "write")
    /\ UNCHANGED <<tables, table, mutex, switch, epoch, pipelined, making, walFree, slots, pending,
                   granted, l0, putVars, getVars>>

\* index_ops::flush_memtable wrote the SSTs of the buffer: the latest version
\* of each key.
Write(n) ==
    /\ JobAt(n, "write")
    /\ jobs' = [jobs EXCEPT ![n].pc = "publish", ![n].sst = Newest(jobs[n].table)]
    /\ UNCHANGED <<tables, table, mutex, switch, epoch, pipelined, making, walFree, slots, pending,
                   granted, l0, putVars, getVars>>

\* flush_memtable failed: the slot is released and the job ends there.
WriteFails(n) ==
    /\ JobAt(n, "write") /\ n \in FailingJobs
    /\ JobGoto(n, "failed")
    /\ slots' = slots + 1
    /\ UNCHANGED <<tables, table, mutex, switch, epoch, pipelined, making, walFree, pending,
                   granted, l0, putVars, getVars>>

\* A publication that does not wait for its turn in the chain.
PublishUnordered(n) ==
    /\ JobAt(n, "publish")
    /\ granted' = granted \cup {n + 1}
    /\ l0' = Append(l0, [epoch |-> jobs[n].epoch, version |-> jobs[n].sst])
    /\ pending' = {e \in pending : e[1] # jobs[n].epoch}
    /\ JobGoto(n, "persist")
    /\ UNCHANGED <<tables, table, mutex, switch, epoch, pipelined, making, walFree, slots,
                   putVars, getVars>>

\* A publication that does not raise the next semaphore.
PublishKeepingTurn(n) ==
    /\ JobAt(n, "publish") /\ n \in granted
    /\ granted' = granted \ {n}
    /\ l0' = Append(l0, [epoch |-> jobs[n].epoch, version |-> jobs[n].sst])
    /\ pending' = {e \in pending : e[1] # jobs[n].epoch}
    /\ JobGoto(n, "persist")
    /\ UNCHANGED <<tables, table, mutex, switch, epoch, pipelined, making, walFree, slots,
                   putVars, getVars>>

\* Await can_write; push the SSTs to L0 and drop the buffer from the pending
\* map under one lock; raise next_can_write.
Publish(n) ==
    /\ JobAt(n, "publish") /\ n \in granted
    /\ granted' = (granted \ {n}) \cup {n + 1}
    /\ l0' = Append(l0, [epoch |-> jobs[n].epoch, version |-> jobs[n].sst])
    /\ pending' = {e \in pending : e[1] # jobs[n].epoch}
    /\ JobGoto(n, "persist")
    /\ UNCHANGED <<tables, table, mutex, switch, epoch, pipelined, making, walFree, slots,
                   putVars, getVars>>

\* The manifest update is awaited (its failure is only logged), then the end of
\* any backpressure from compactions; then the flush slot is given back.
ReleaseSlot(n) ==
    /\ JobAt(n, "persist")
    /\ slots' = slots + 1
    /\ JobGoto(n, "reset")
    /\ UNCHANGED <<tables, table, mutex, switch, epoch, pipelined, making, walFree, pending,
                   granted, l0, putVars, getVars>>

\* A job that ends without returning its WAL slot.
KeepWal(n) ==
    /\ JobAt(n, "reset")
    /\ JobGoto(n, "done")
    /\ UNCHANGED <<tables, table, mutex, switch, epoch, pipelined, making, walFree, slots, pending,
                   granted, l0, putVars, getVars>>

\* Truncate the WAL files and push the WAL slot back.
ResetWal(n) ==
    /\ JobAt(n, "reset")
    /\ walFree' = walFree + 1
    /\ JobGoto(n, "done")
    /\ UNCHANGED <<tables, table, mutex, switch, epoch, pipelined, making, slots, pending, granted,
                   l0, putVars, getVars>>

-----------------------------------------------------------------------------
(* get, and the lookup in L0 that follows it in database::_find_value *)

\* A get that goes on with the buffer it knows.
BeginCached ==
    /\ rpc = "idle"
    /\ rstart' = acked
    /\ rpc' = "table"
    /\ UNCHANGED <<tables, table, mutex, switch, epoch, flushVars, putVars, rtable, rswitch,
                   result, midSwitch>>

\* Compare the switch epoch with the one seen last.
BeginGet ==
    /\ rpc = "idle"
    /\ rstart' = acked
    /\ rswitch' = switch
    /\ rpc' = IF switch > rswitch THEN "load" ELSE "table"
    /\ midSwitch' = (\E w \in Writers : wpc[w] = "switch")
    /\ UNCHANGED <<tables, table, mutex, switch, epoch, flushVars, putVars, rtable, result>>

LoadTable ==
    /\ rpc = "load"
    /\ rtable' = table
    /\ rpc' = "table"
    /\ UNCHANGED <<tables, table, mutex, switch, epoch, flushVars, putVars, rswitch, rstart,
                   result, midSwitch>>

ReadTable ==
    /\ rpc = "table"
    /\ result' = Newest(rtable)
    /\ rpc' = IF Newest(rtable) # None THEN "returned" ELSE "pending"
    /\ UNCHANGED <<tables, table, mutex, switch, epoch, flushVars, putVars, rtable, rswitch,
                   rstart, midSwitch>>

\* Copy the pending map under the lock and search it, latest epoch first.
ReadPending ==
    LET hits == {e \in pending : Newest(e[2]) # None} IN
    /\ rpc = "pending"
    /\ IF hits = {} THEN rpc' = "l0" /\ result' = None
       ELSE /\ rpc' = "returned"
            /\ \E e \in hits : /\ \A f \in hits : f[1] <= e[1]
                               /\ result' = Newest(e[2])
    /\ UNCHANGED <<tables, table, mutex, switch, epoch, flushVars, putVars, rtable, rswitch,
                   rstart, midSwitch>>

\* lookup_async on a snapshot of the partition, latest SST first.
ReadL0 ==
    LET hits == {i \in DOMAIN l0 : l0[i].version # None} IN
    /\ rpc = "l0"
    /\ rpc' = "returned"
    /\ IF hits = {} THEN result' = None
       ELSE \E i \in hits : (\A j \in hits : j <= i) /\ result' = l0[i].version
    /\ UNCHANGED <<tables, table, mutex, switch, epoch, flushVars, putVars, rtable, rswitch,
                   rstart, midSwitch>>

EndGet ==
    /\ rpc = "returned"
    /\ rpc' = "idle" /\ rstart' = {} /\ result' = None /\ midSwitch' = FALSE
    /\ UNCHANGED <<tables, table, mutex, switch, epoch, flushVars, putVars, rtable, rswitch>>

-----------------------------------------------------------------------------
WriterStep(w) ==
    \/ Acquire(w) \/ Reload(w) \/ Insert(w) \/ Log(w) \/ Leave(w)
    \/ TryFlush(w) \/ Guard(w) \/ AwaitSlot(w) \/ Swap(w) \/ Launch(w)

JobStep(n) == Drain(n) \/ Write(n) \/ Publish(n) \/ ReleaseSlot(n) \/ ResetWal(n)

WriteNext ==
    \/ \E w \in Writers : Put(w) \/ WriterStep(w)
    \/ MakePipelined
    \/ \E n \in DOMAIN jobs : JobStep(n)

GetNext == BeginGet \/ LoadTable \/ ReadTable \/ ReadPending \/ ReadL0 \/ EndGet

\* WAL appends and SST writes that fail.
FailNext == \/ \E w \in Writers : LogFails(w)
            \/ \E n \in DOMAIN jobs : WriteFails(n)

Next == WriteNext \/ GetNext \/ FailNext

Spec == Init /\ [][Next]_vars

\* Threads and tasks that can run do run.  For ReleaseSlot this says that
\* backpressure is released in the end: Compaction checks that it is.  Gets
\* change nothing that a writer or a flush job waits for, and are left out; so are
\* failures, after which flush jobs do wait for ever.
FairSpec == /\ Init /\ [][WriteNext]_vars
            /\ \A w \in Writers : WF_vars(WriterStep(w))
            /\ WF_vars(MakePipelined)
            /\ WF_vars(\E n \in DOMAIN jobs : JobStep(n))

-----------------------------------------------------------------------------
(* Properties *)

Tables == DOMAIN tables
Versions == 1..MaxPuts

\* The types of the variables; the permits of _pending_flush_slots and the WAL
\* slots of _wal_ch never exceed what the constructor put there.
TypeOK ==
    /\ \A t \in Tables : /\ tables[t].frozen \in BOOLEAN
                         /\ tables[t].bytes \in 0..(Cap + 1)
                         /\ tables[t].content \in [versions : SUBSET Versions,
                                                   newest : Versions \cup {None}]
    /\ table \in Tables /\ pipelined \in Tables \cup {None} /\ making \in BOOLEAN
    /\ walFree \in 0..WalSlots /\ slots \in 0..MaxFlushes
    /\ mutex \in Writers \cup {None} /\ switch \in Nat /\ epoch \in Nat
    /\ \A e \in pending : e[1] \in Nat /\ e[2] \in Tables
    /\ \A n \in DOMAIN jobs :
          /\ jobs[n].epoch \in Nat /\ jobs[n].table \in Tables
          /\ jobs[n].pc \in {"drain", "write", "publish", "persist", "reset", "done",
                             "failed"}
          /\ jobs[n].sst \in Versions \cup {None}
    /\ granted \subseteq 1..(Len(jobs) + 1)
    /\ \A i \in DOMAIN l0 : l0[i].epoch \in Nat /\ l0[i].version \in Versions \cup {None}
    /\ wpc \in [Writers -> {"idle", "acquire", "insert", "log", "leave", "flush", "guard", "slot",
                            "swap", "switch"}]
    /\ local \in [Writers -> Tables] /\ put \in [Writers -> Versions \cup {None}]
    /\ wepoch \in [Writers -> Nat] /\ puts \in 0..MaxPuts /\ acked \subseteq Versions
    /\ before \in Seq(SUBSET Versions) /\ Len(before) = puts
    /\ rpc \in {"idle", "load", "table", "pending", "l0", "returned"}
    /\ rtable \in Tables /\ rswitch \in Nat /\ rstart \subseteq Versions
    /\ result \in Versions \cup {None} /\ midSwitch \in BOOLEAN

\* The order in which get and lookup_async search is the order of time: SSTs
\* enter L0 by increasing flush epoch, and whatever is still pending is newer
\* than all of L0, however the flush jobs overtake one another.
ChronologicalTiers ==
    /\ \A i, j \in DOMAIN l0 : i < j => l0[i].epoch < l0[j].epoch
    /\ \A e \in pending : \A i \in DOMAIN l0 : l0[i].epoch < e[1]

\* r is an acceptable answer for a get that started when the puts in known had
\* returned: no put in known came after r had returned.
Fresh(r, known) == IF r = None THEN known = {}
                   ELSE \A p \in known : r \notin before[p]

\* A get that did not start inside a table switch returns a version at least as
\* recent as every put acknowledged before it began, whatever flushes happen
\* between its three lookups.
GetIsFresh == rpc = "returned" /\ ~midSwitch => Fresh(result, rstart)

\* database.cc: "Check the memtable first (contains the most recent data)".
\* Whenever a get begins, it returns nothing older than the puts already
\* acknowledged.
MemtableIsMostRecent == rpc = "returned" => Fresh(result, rstart)

\* Once a flush job has seen its buffer without writers, the buffer it turns
\* into SSTs does not change any more.
DrainedIsImmutable ==
    [][\A n \in DOMAIN jobs : jobs[n].pc # "drain" =>
            tables'[jobs[n].table].content = tables[jobs[n].table].content]_vars

\* "1 active + 1 pipelined + max_pending_flushes pending" WAL slots are enough:
\* the maker of the next buffer only ever waits for a job that is already past
\* its flush slot and is about to give its WAL slot back.
MakerWaitsOnlyForReset ==
    making /\ walFree = 0 => \E n \in DOMAIN jobs : jobs[n].pc = "reset"

\* Every put returns, however many flushes it has to trigger or to wait for.
PutsReturn == \A w \in Writers : wpc[w] # "idle" ~> wpc[w] = "idle"

\* Every flush job publishes its SSTs and gives back what it holds.
JobsFinish == \A n \in 1..MaxPuts : n \in DOMAIN jobs ~> JobAt(n, "done")
=============================================================================
