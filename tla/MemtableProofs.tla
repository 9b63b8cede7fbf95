--------------------------- MODULE MemtableProofs ---------------------------
(***************************************************************************)
(* Proofs about Memtable for any writers, any budget, any number of puts and  *)
(* of pending flushes: a drained buffer does not change any more, the tiers    *)
(* that a get searches are in the order of time, a get returns nothing older    *)
(* than what was acknowledged before it, and the WAL slots are enough.          *)
(***************************************************************************)
EXTENDS Memtable, TLAPS

-----------------------------------------------------------------------------
(* Sequences whose elements need no common type *)

\* s is a sequence.
IsSeq(s) == s \in Seq({s[i] : i \in DOMAIN s})

\* The length of a sequence is a number, and its indices go from 1 to it.
LEMMA SeqDomain ==
    ASSUME NEW s, IsSeq(s)
    PROVE Len(s) \in Nat /\ DOMAIN s = 1..Len(s)
BY DEF IsSeq

\* A function on 1..n is a sequence of length n.
LEMMA FunctionIsSeq ==
    ASSUME NEW n \in Nat, NEW f, f = [i \in 1..n |-> f[i]]
    PROVE IsSeq(f) /\ Len(f) = n
<1> DEFINE S == {f[i] : i \in DOMAIN f}
<1>1. f \in [1..n -> S]
  BY Zenon
<1>2. f \in Seq(S)
  BY <1>1, SMTT(30)
<1>3. Len(f) = n
  BY <1>1, <1>2
<1> QED
  BY <1>2, <1>3, Zenon DEF IsSeq

\* Append adds an element at the end and keeps the others.
LEMMA AppendIsSeq ==
    ASSUME NEW s, IsSeq(s), NEW e
    PROVE /\ IsSeq(Append(s, e)) /\ Len(Append(s, e)) = Len(s) + 1
          /\ \A i \in 1..Len(s) : Append(s, e)[i] = s[i]
          /\ Append(s, e)[Len(s) + 1] = e
<1> DEFINE S == {s[i] : i \in DOMAIN s} \cup {e}
           t == Append(s, e)
<1>1. s \in Seq(S) /\ e \in S
  <2>1. s \in Seq({s[i] : i \in DOMAIN s})
    BY Zenon DEF IsSeq
  <2>2. {s[i] : i \in DOMAIN s} \subseteq S
    BY Zenon
  <2> QED
    BY <2>1, <2>2
<1> HIDE DEF S
<1>2. /\ t \in Seq(S) /\ Len(t) = Len(s) + 1 /\ Len(s) \in Nat
      /\ \A i \in 1..Len(s) : t[i] = s[i]
      /\ t[Len(s) + 1] = e
  BY <1>1
<1> HIDE DEF t
<1>3. t \in [1..Len(t) -> S]
  BY <1>2
<1>4. IsSeq(t)
  BY <1>2, <1>3, FunctionIsSeq
<1> QED
  BY <1>2, <1>4, Zenon DEF t

-----------------------------------------------------------------------------

TableFields == {"frozen", "bytes", "content"}
JobFields == {"epoch", "table", "pc", "sst"}

\* The points of put_async and _flush.
Points == {"idle", "acquire", "insert", "log", "leave", "flush", "guard", "slot", "swap", "switch"}

\* The shape of the variables the argument uses.
Shape ==
    /\ IsSeq(tables) /\ \A t \in 1..Len(tables) : DOMAIN tables[t] = TableFields
    /\ IsSeq(jobs)
    /\ \A n \in 1..Len(jobs) : /\ DOMAIN jobs[n] = JobFields
                               /\ jobs[n].epoch \in Nat /\ jobs[n].table \in 1..Len(tables)
    /\ IsSeq(l0)
    /\ table \in 1..Len(tables) /\ (pipelined # None => pipelined \in 1..Len(tables))
    /\ pending \subseteq Nat \X (1..Len(tables))
    /\ epoch \in Nat /\ wepoch \in [Writers -> Nat]
    /\ local \in [Writers -> 1..Len(tables)] /\ wpc \in [Writers -> Points]

\* A writer between the compare-and-exchange and the release of _flush_mutex
\* holds it.
FlusherHoldsMutex ==
    \A w \in Writers : wpc[w] \in {"guard", "slot", "swap", "switch"} => mutex = w

\* A writer that froze its buffer still has the current one.
FlusherFroze ==
    \A w \in Writers : wpc[w] \in {"slot", "swap"} =>
       local[w] = table /\ tables[table].frozen = TRUE

\* A buffer in the pending map or in a job admits no new writers.
FlushedIsFrozen ==
    /\ \A e \in pending : tables[e[2]].frozen = TRUE
    /\ \A n \in 1..Len(jobs) : tables[jobs[n].table].frozen = TRUE

\* No writer is inside the buffer of a job past its drain.
DrainedIsEmpty ==
    \A n \in 1..Len(jobs) : jobs[n].pc # "drain" =>
       \A w \in Writers : ~Holding(w, jobs[n].table)

Gate == Shape /\ FlusherHoldsMutex /\ FlusherFroze /\ FlushedIsFrozen /\ DrainedIsEmpty

\* A writer that took its flush epoch and has no job for it yet.
Flushing(w) == wpc[w] \in {"slot", "swap", "switch"}

\* Jobs are started in the order of their epochs; an epoch taken is larger than
\* those of all jobs and smaller than the next one.
JobsInOrder ==
    /\ \A m, n \in 1..Len(jobs) : m < n => jobs[m].epoch < jobs[n].epoch
    /\ \A n \in 1..Len(jobs) : jobs[n].epoch < epoch
    /\ \A w \in Writers : Flushing(w) => wepoch[w] < epoch
    /\ \A n \in 1..Len(jobs) : \A w \in Writers : Flushing(w) => jobs[n].epoch < wepoch[w]

\* The can_write chain: the jobs that have published are the first ones, and the
\* next one holds the only semaphore that is up.
PublishedInOrder ==
    /\ Len(l0) <= Len(jobs) /\ granted = {Len(l0) + 1}
    /\ \A i \in 1..Len(l0) : l0[i].epoch = jobs[i].epoch

\* A pending buffer belongs to a job that has not published, or to the writer
\* that is about to start its job.
PendingIsUnpublished ==
    \A e \in pending :
       \/ \E n \in 1..Len(jobs) : Len(l0) < n /\ e[1] = jobs[n].epoch
       \/ \E w \in Writers : wpc[w] = "switch" /\ e[1] = wepoch[w]

Chain == JobsInOrder /\ PublishedInOrder /\ PendingIsUnpublished

Inv == Gate /\ Chain

-----------------------------------------------------------------------------
(* Updates of the sequences of buffers and of jobs *)

\* us has the buffers of ts, frozen if they were, and maybe more.
TablesKept(ts, us) ==
    /\ IsSeq(us) /\ Len(ts) <= Len(us) /\ Len(ts) \in Nat /\ Len(us) \in Nat
    /\ \A t \in 1..Len(us) : DOMAIN us[t] = TableFields
    /\ \A t \in 1..Len(ts) : ts[t].frozen = TRUE => us[t].frozen = TRUE

\* Job n of js moves to the point at; nothing else of the jobs changes.
JobMoved(js, ks, n, at) ==
    /\ IsSeq(ks) /\ Len(ks) = Len(js)
    /\ \A i \in 1..Len(js) : /\ DOMAIN ks[i] = JobFields
                             /\ ks[i].epoch = js[i].epoch /\ ks[i].table = js[i].table
    /\ \A i \in 1..Len(js) : i # n => ks[i].pc = js[i].pc
    /\ ks[n].pc = at

\* The jobs variable is assigned an EXCEPT of one job's pc, and maybe its sst.
IsJobUpdate(js, ks, n, at) ==
    \/ ks = [js EXCEPT ![n].pc = at]
    \/ \E x : ks = [js EXCEPT ![n].pc = at, ![n].sst = x]

\* Such an assignment moves the job.
LEMMA MoveJob ==
    ASSUME NEW js, IsSeq(js), \A i \in 1..Len(js) : DOMAIN js[i] = JobFields,
           NEW n \in 1..Len(js), NEW at, NEW ks, IsJobUpdate(js, ks, n, at)
    PROVE JobMoved(js, ks, n, at)
<1>1. Len(js) \in Nat /\ DOMAIN js = 1..Len(js)
  BY SeqDomain, Zenon
<1>2. ks = [i \in 1..Len(js) |-> ks[i]]
  BY <1>1, Zenon DEF IsJobUpdate
<1>3. IsSeq(ks) /\ Len(ks) = Len(js)
  BY <1>1, <1>2, FunctionIsSeq, Zenon
<1>4. /\ \A i \in 1..Len(js) : /\ DOMAIN ks[i] = JobFields
                               /\ ks[i].epoch = js[i].epoch /\ ks[i].table = js[i].table
      /\ \A i \in 1..Len(js) : i # n => ks[i].pc = js[i].pc
      /\ ks[n].pc = at
  <2>1. CASE ks = [js EXCEPT ![n].pc = at]
    BY <2>1, <1>1, Zenon DEF JobFields
  <2>2. CASE \E x : ks = [js EXCEPT ![n].pc = at, ![n].sst = x]
    BY <2>2, <1>1 DEF JobFields
  <2> QED
    BY <2>1, <2>2, Zenon DEF IsJobUpdate
<1> QED
  BY <1>3, <1>4, Zenon DEF JobMoved

\* The assignments to the buffers: an insertion into t, or t frozen.
IsTableUpdate(ts, us, t) ==
    \/ us = [ts EXCEPT ![t].frozen = TRUE]
    \/ \E c, y : us = [ts EXCEPT ![t].content = c, ![t].bytes = y]

\* They keep all buffers, and the content of every buffer but t; a frozen t
\* keeps its content too.
LEMMA UpdateTable ==
    ASSUME NEW ts, IsSeq(ts), \A i \in 1..Len(ts) : DOMAIN ts[i] = TableFields,
           NEW t \in 1..Len(ts), NEW us, IsTableUpdate(ts, us, t)
    PROVE /\ TablesKept(ts, us) /\ Len(us) = Len(ts)
          /\ \A i \in 1..Len(ts) : i # t => us[i] = ts[i]
          /\ us = [ts EXCEPT ![t].frozen = TRUE] =>
                us[t].frozen = TRUE /\ us[t].content = ts[t].content
<1>1. Len(ts) \in Nat /\ DOMAIN ts = 1..Len(ts)
  BY SeqDomain, Zenon
<1>2. us = [i \in 1..Len(ts) |-> us[i]]
  BY <1>1, Zenon DEF IsTableUpdate
<1>3. IsSeq(us) /\ Len(us) = Len(ts)
  BY <1>1, <1>2, FunctionIsSeq, Zenon
<1>4. /\ \A i \in 1..Len(ts) : DOMAIN us[i] = TableFields
      /\ \A i \in 1..Len(ts) : i # t => us[i] = ts[i]
      /\ ts[t].frozen = TRUE => us[t].frozen = TRUE
      /\ us = [ts EXCEPT ![t].frozen = TRUE] =>
            us[t].frozen = TRUE /\ us[t].content = ts[t].content
  <2>1. CASE us = [ts EXCEPT ![t].frozen = TRUE]
    BY <2>1, <1>1, Zenon DEF TableFields
  <2>2. CASE \E c, y : us = [ts EXCEPT ![t].content = c, ![t].bytes = y]
    BY <2>2, <1>1 DEF TableFields
  <2> QED
    BY <2>1, <2>2, ZenonT(60) DEF IsTableUpdate
<1>5. \A i \in 1..Len(ts) : ts[i].frozen = TRUE => us[i].frozen = TRUE
  BY <1>4, Zenon
<1> QED
  BY <1>1, <1>3, <1>4, <1>5 DEF TablesKept

-----------------------------------------------------------------------------
(* The invariant and the steps *)

\* The invariant holds in a new memtable.
LEMMA InitInv == Init => Inv
<1> SUFFICES ASSUME Init PROVE Inv
  BY Zenon
<1>1. /\ tables = <<EmptyTable, EmptyTable>> /\ jobs = <<>> /\ l0 = <<>> /\ pending = {}
      /\ table = 1 /\ pipelined = 2 /\ epoch = 0 /\ granted = {1}
      /\ wpc = [w \in Writers |-> "idle"] /\ local = [w \in Writers |-> 1]
      /\ wepoch = [w \in Writers |-> 0]
  BY Zenon DEF Init
<1>2. IsSeq(jobs) /\ Len(jobs) = 0 /\ IsSeq(l0) /\ Len(l0) = 0
  BY <1>1 DEF IsSeq
<1>3. IsSeq(tables) /\ Len(tables) = 2 /\ \A t \in 1..Len(tables) : DOMAIN tables[t] = TableFields
  <2>1. tables = [t \in 1..2 |-> tables[t]] /\ tables[1] = EmptyTable /\ tables[2] = EmptyTable
    BY <1>1
  <2>2. IsSeq(tables) /\ Len(tables) = 2
    BY <2>1, FunctionIsSeq, Zenon
  <2>3. DOMAIN EmptyTable = TableFields
    BY Zenon DEF EmptyTable, TableFields
  <2>4. \A t \in 1..2 : t = 1 \/ t = 2
    OBVIOUS
  <2> HIDE DEF EmptyTable
  <2> QED
    BY <2>1, <2>2, <2>3, <2>4, Zenon
<1>4. Shape
  BY <1>1, <1>2, <1>3 DEF Shape, Points
<1>5. FlusherHoldsMutex /\ FlusherFroze /\ FlushedIsFrozen /\ DrainedIsEmpty
  BY <1>1, <1>2 DEF FlusherHoldsMutex, FlusherFroze, FlushedIsFrozen, DrainedIsEmpty
<1>6. Chain
  BY <1>1, <1>2 DEF Chain, JobsInOrder, PublishedInOrder, PendingIsUnpublished, Flushing
<1> QED
  BY <1>4, <1>5, <1>6, Zenon DEF Inv, Gate

InMutex == {"guard", "slot", "swap", "switch"}

\* Writer w moves to p outside the switch of buffers: it has the mutex where it
\* needs it, and it enters no frozen buffer.
WriterMoves(w, p) ==
    /\ TablesKept(tables, tables')
    /\ UNCHANGED <<table, pipelined, jobs, l0, pending, granted, epoch, wepoch, local>>
    /\ wpc' = [wpc EXCEPT ![w] = p] /\ p \in Points
    /\ p \in InMutex => mutex' = w
    /\ \A v \in Writers : v # w /\ wpc[v] \in InMutex => mutex' = v
    /\ p \in {"slot", "swap"} => wpc[w] \in {"slot", "swap"}
    /\ \/ p \in {"idle", "acquire"}
       \/ wpc[w] \notin {"idle", "acquire"}
       \/ tables[local[w]].frozen # TRUE
    /\ p # "switch" /\ wpc[w] # "switch"

\* A move of a writer preserves the invariant.
LEMMA WriterMovesInv ==
    ASSUME Inv, NEW w \in Writers, NEW p, WriterMoves(w, p)
    PROVE Inv'
<1> USE DEF Inv, Gate, Chain
<1>1. /\ UNCHANGED <<table, pipelined, jobs, l0, pending, granted, epoch, wepoch, local>>
      /\ wpc'[w] = p /\ \A v \in Writers : v # w => wpc'[v] = wpc[v]
      /\ wpc' \in [Writers -> Points]
  BY Zenon DEF WriterMoves, Shape
<1>2. /\ IsSeq(tables') /\ Len(tables) \in Nat /\ Len(tables') \in Nat /\ Len(tables) <= Len(tables')
      /\ \A t \in 1..Len(tables') : DOMAIN tables'[t] = TableFields
      /\ \A t \in 1..Len(tables) : tables[t].frozen = TRUE => tables'[t].frozen = TRUE
      /\ 1..Len(tables) \subseteq 1..Len(tables')
  BY DEF WriterMoves, TablesKept
<1>3. Shape'
  BY <1>1, <1>2, Zenon DEF Shape
<1>4. FlusherHoldsMutex'
  BY <1>1, Zenon DEF FlusherHoldsMutex, WriterMoves, InMutex
<1>5. FlusherFroze'
  <2>1. \A v \in Writers : wpc'[v] \in {"slot", "swap"} => wpc[v] \in {"slot", "swap"}
    BY <1>1, Zenon DEF WriterMoves
  <2>2. table \in 1..Len(tables)
    BY Zenon DEF Shape
  <2> QED
    BY <1>1, <1>2, <2>1, <2>2, Zenon DEF FlusherFroze
<1>6. FlushedIsFrozen'
  <2>1. \A e \in pending : e[2] \in 1..Len(tables)
    BY Zenon DEF Shape
  <2>2. \A n \in 1..Len(jobs) : jobs[n].table \in 1..Len(tables)
    BY Zenon DEF Shape
  <2> QED
    BY <1>1, <1>2, <2>1, <2>2, Zenon DEF FlushedIsFrozen
<1>7. DrainedIsEmpty'
  <2> SUFFICES ASSUME NEW n \in 1..Len(jobs), jobs[n].pc # "drain", NEW v \in Writers,
                      local[v] = jobs[n].table, wpc'[v] \notin {"idle", "acquire"}
               PROVE FALSE
    BY <1>1, Zenon DEF DrainedIsEmpty, Holding
  <2>1. wpc[v] \in {"idle", "acquire"}
    BY Zenon DEF DrainedIsEmpty, Holding
  <2>2. v = w /\ p \notin {"idle", "acquire"}
    BY <1>1, <2>1, Zenon
  <2>3. tables[local[w]].frozen # TRUE
    BY <2>1, <2>2, Zenon DEF WriterMoves
  <2> QED
    BY <2>2, <2>3, Zenon DEF FlushedIsFrozen
<1>8. JobsInOrder'
  <2>1. \A v \in Writers : Flushing(v)' => Flushing(v)
    BY <1>1, Zenon DEF WriterMoves, Flushing
  <2> QED
    BY <1>1, <2>1, Zenon DEF JobsInOrder
<1>9. PublishedInOrder'
  BY <1>1, Zenon DEF PublishedInOrder
<1>10. PendingIsUnpublished'
  <2>1. \A v \in Writers : wpc[v] = "switch" => wpc'[v] = "switch"
    BY <1>1, Zenon DEF WriterMoves
  <2> QED
    BY <1>1, <2>1, Zenon DEF PendingIsUnpublished
<1> QED
  BY <1>3, <1>4, <1>5, <1>6, <1>7, <1>8, <1>9, <1>10, Zenon

\* Buffers that stay as they are are kept.
LEMMA KeptUnchanged ==
    ASSUME Inv, UNCHANGED tables
    PROVE TablesKept(tables, tables')
<1>1. IsSeq(tables) /\ \A t \in 1..Len(tables) : DOMAIN tables[t] = TableFields
  BY Zenon DEF Inv, Gate, Shape
<1>2. Len(tables) \in Nat
  BY <1>1, SeqDomain, Zenon
<1> QED
  BY <1>1, <1>2 DEF TablesKept

\* The steps of put_async and _flush that only move the writer.
LEMMA SimpleWriterInv ==
    ASSUME Inv, NEW w \in Writers,
           \/ Put(w) \/ Acquire(w) \/ Log(w) \/ LogFails(w) \/ Leave(w)
           \/ TryFlush(w) \/ AwaitSlot(w)
    PROVE Inv'
<1> USE DEF Goto, flushVars, putVars, Points, InMutex
<1>0. /\ \A v \in Writers : wpc[v] \in InMutex => mutex = v
      /\ UNCHANGED tables /\ TablesKept(tables, tables')
  <2>1. UNCHANGED tables
    BY Zenon DEF Put, Acquire, Log, LogFails, Leave, TryFlush, AwaitSlot
  <2> QED
    BY <2>1, KeptUnchanged, Zenon DEF Inv, Gate, FlusherHoldsMutex
<1>1. CASE Put(w)
  <2>1. WriterMoves(w, "acquire")
    BY <1>0, <1>1, Zenon DEF Put, WriterMoves
  <2> QED
    BY <2>1, WriterMovesInv, Zenon
<1>2. CASE Acquire(w)
  <2>1. tables[local[w]].frozen # TRUE
    BY <1>2, Zenon DEF Acquire
  <2>2. WriterMoves(w, "insert")
    BY <1>0, <1>2, <2>1, ZenonT(60) DEF Acquire, WriterMoves
  <2> QED
    BY <2>2, WriterMovesInv, Zenon
<1>3. CASE Log(w) \/ LogFails(w)
  <2>1. WriterMoves(w, "idle")
    BY <1>0, <1>3, Zenon DEF Log, LogFails, WriterMoves
  <2> QED
    BY <2>1, WriterMovesInv, Zenon
<1>4. CASE Leave(w)
  <2>1. WriterMoves(w, "acquire")
    BY <1>0, <1>4, Zenon DEF Leave, WriterMoves
  <2> QED
    BY <2>1, WriterMovesInv, Zenon
<1>5. CASE TryFlush(w)
  <2>1. CASE mutex = None
    <3>1. \A v \in Writers : wpc[v] \notin InMutex
      BY <1>0, <2>1, WritersAssumption, Zenon
    <3>2. WriterMoves(w, "guard")
      BY <1>0, <1>5, <2>1, <3>1, Zenon DEF TryFlush, WriterMoves
    <3> QED
      BY <3>2, WriterMovesInv, Zenon
  <2>2. CASE mutex # None
    <3>1. WriterMoves(w, "leave")
      BY <1>0, <1>5, <2>2, Zenon DEF TryFlush, WriterMoves
    <3> QED
      BY <3>1, WriterMovesInv, Zenon
  <2> QED
    BY <2>1, <2>2, Zenon
<1>6. CASE AwaitSlot(w)
  <2>1. WriterMoves(w, "swap")
    BY <1>0, <1>6, Zenon DEF AwaitSlot, WriterMoves
  <2> QED
    BY <2>1, WriterMovesInv, Zenon
<1> QED
  BY <1>1, <1>2, <1>3, <1>4, <1>5, <1>6, Zenon

\* skiplist_wrapper::insert changes the content of the writer's own buffer only.
LEMMA InsertKeeps ==
    ASSUME Inv, NEW w \in Writers, Insert(w)
    PROVE /\ TablesKept(tables, tables')
          /\ \A t \in 1..Len(tables) : t # local[w] => tables'[t] = tables[t]
<1> DEFINE t == local[w]
<1>1. /\ IsSeq(tables) /\ \A i \in 1..Len(tables) : DOMAIN tables[i] = TableFields
      /\ t \in 1..Len(tables)
  BY Zenon DEF Inv, Gate, Shape
<1>2. CASE UNCHANGED tables
  BY <1>2, KeptUnchanged, Zenon
<1>3. CASE \E c : tables' = [tables EXCEPT ![t].content = c,
                                            ![t].bytes = IF @ > Cap THEN @ ELSE @ + 1]
  <2>1. Len(tables) \in Nat /\ DOMAIN tables = 1..Len(tables)
    BY <1>1, SeqDomain, Zenon
  <2> DEFINE y == IF tables[t].bytes > Cap THEN tables[t].bytes ELSE tables[t].bytes + 1
  <2>2. \E c : tables' = [tables EXCEPT ![t].content = c, ![t].bytes = y]
    BY <1>1, <1>3, <2>1, Zenon DEF TableFields
  <2>3. IsTableUpdate(tables, tables', t)
    BY <2>2, Zenon DEF IsTableUpdate
  <2> HIDE DEF t
  <2>4. /\ TablesKept(tables, tables')
        /\ \A i \in 1..Len(tables) : i # t => tables'[i] = tables[i]
    BY <1>1, <2>3, UpdateTable, ZenonT(60)
  <2> QED
    BY <2>4, Zenon DEF t
<1> QED
  BY <1>2, <1>3, Zenon DEF Insert

\* An insertion preserves the invariant.
LEMMA InsertInv ==
    ASSUME Inv, NEW w \in Writers, Insert(w)
    PROVE Inv'
<1>1. TablesKept(tables, tables')
  BY InsertKeeps, Zenon
<1>2. PICK p \in {"flush", "log"} : wpc' = [wpc EXCEPT ![w] = p]
  BY ZenonT(60) DEF Insert, Goto
<1>3. /\ UNCHANGED <<table, mutex, pipelined, jobs, l0, pending, granted, epoch, wepoch, local>>
      /\ wpc[w] = "insert"
  BY Zenon DEF Insert, flushVars
<1>4. WriterMoves(w, p)
  BY <1>1, <1>2, <1>3, Zenon DEF WriterMoves, Points, InMutex, Inv, Gate, FlusherHoldsMutex
<1> QED
  BY <1>4, WriterMovesInv, Zenon

\* A writer that is in no buffer takes the current one.
LEMMA ReloadInv ==
    ASSUME Inv, NEW w \in Writers, Reload(w)
    PROVE Inv'
<1> USE DEF Inv, Gate, Chain
<1>1. /\ UNCHANGED <<tables, table, mutex, pipelined, jobs, l0, pending, granted, epoch, wepoch, wpc>>
      /\ wpc[w] = "acquire" /\ local' = [local EXCEPT ![w] = table]
  BY Zenon DEF Reload, flushVars
<1>2. Shape' /\ FlusherHoldsMutex' /\ FlushedIsFrozen'
  BY <1>1, Zenon DEF Shape, FlusherHoldsMutex, FlushedIsFrozen
<1>3. \A v \in Writers : v # w => local'[v] = local[v]
  BY <1>1, Zenon DEF Shape
<1>4. FlusherFroze' /\ DrainedIsEmpty'
  BY <1>1, <1>3 DEF FlusherFroze, DrainedIsEmpty, Holding
<1>5. JobsInOrder' /\ PublishedInOrder' /\ PendingIsUnpublished'
  BY <1>1, Zenon DEF JobsInOrder, PublishedInOrder, PendingIsUnpublished, Flushing
<1> QED
  BY <1>2, <1>4, <1>5, Zenon

\* _flush bails out, or takes the next epoch and freezes the buffer.
LEMMA GuardInv ==
    ASSUME Inv, NEW w \in Writers, Guard(w)
    PROVE Inv'
<1>0. /\ UNCHANGED <<table, pipelined, jobs, l0, pending, granted, local>>
      /\ wpc[w] = "guard" /\ mutex = w
  BY Zenon DEF Guard, flushVars, Inv, Gate, FlusherHoldsMutex
<1>1. CASE table # local[w]
  <2>1. UNCHANGED <<tables, epoch, wepoch>> /\ wpc' = [wpc EXCEPT ![w] = "leave"]
    BY <1>1, Zenon DEF Guard, Goto
  <2>2. \A v \in Writers : v # w => wpc[v] \notin InMutex
    BY <1>0, Zenon DEF Inv, Gate, FlusherHoldsMutex, InMutex
  <2>3. TablesKept(tables, tables')
    BY <2>1, KeptUnchanged, Zenon
  <2>4. WriterMoves(w, "leave")
    BY <1>0, <2>1, <2>2, <2>3, Zenon DEF WriterMoves, Points, InMutex
  <2> QED
    BY <2>4, WriterMovesInv, Zenon
<1>2. CASE table = local[w]
  <2> USE DEF Inv, Gate, Chain
  <2>1. /\ UNCHANGED mutex /\ epoch' = epoch + 1 /\ wepoch' = [wepoch EXCEPT ![w] = epoch]
        /\ tables' = [tables EXCEPT ![table].frozen = TRUE]
        /\ wpc' = [wpc EXCEPT ![w] = "slot"]
    BY <1>2, Zenon DEF Guard, Goto
  <2>2. /\ IsSeq(tables) /\ \A t \in 1..Len(tables) : DOMAIN tables[t] = TableFields
        /\ table \in 1..Len(tables)
    BY Zenon DEF Shape
  <2>3. IsTableUpdate(tables, tables', table)
    BY <2>1, Zenon DEF IsTableUpdate
  <2>4. /\ TablesKept(tables, tables') /\ Len(tables') = Len(tables)
        /\ tables'[table].frozen = TRUE
    BY <2>1, <2>2, <2>3, UpdateTable, ZenonT(60)
  <2>5. /\ IsSeq(tables') /\ \A t \in 1..Len(tables) : DOMAIN tables'[t] = TableFields
        /\ \A t \in 1..Len(tables) : tables[t].frozen = TRUE => tables'[t].frozen = TRUE
    BY <2>4, Zenon DEF TablesKept
  <2>6. /\ wpc'[w] = "slot" /\ wepoch'[w] = epoch /\ epoch' \in Nat /\ epoch \in Nat
        /\ \A v \in Writers : v # w => wpc'[v] = wpc[v] /\ wepoch'[v] = wepoch[v]
        /\ wpc' \in [Writers -> Points] /\ wepoch' \in [Writers -> Nat]
    BY <2>1 DEF Shape, Points
  <2>7. \A v \in Writers : v # w => wpc'[v] \notin InMutex
    BY <1>0, <2>6, Zenon DEF FlusherHoldsMutex, InMutex
  <2>8. Shape'
    BY <1>0, <2>4, <2>5, <2>6, Zenon DEF Shape
  <2>9. FlusherHoldsMutex' /\ FlusherFroze'
    BY <1>0, <1>2, <2>1, <2>4, <2>7, Zenon DEF FlusherHoldsMutex, FlusherFroze, InMutex
  <2>10. FlushedIsFrozen'
    <3>1. \A e \in pending : e[2] \in 1..Len(tables)
      BY Zenon DEF Shape
    <3>2. \A n \in 1..Len(jobs) : jobs[n].table \in 1..Len(tables)
      BY Zenon DEF Shape
    <3> QED
      BY <1>0, <2>5, <3>1, <3>2, Zenon DEF FlushedIsFrozen
  <2>11. DrainedIsEmpty'
    BY <1>0, <2>6, Zenon DEF DrainedIsEmpty, Holding
  <2>12. JobsInOrder'
    <3>1. \A n \in 1..Len(jobs) : jobs[n].epoch \in Nat /\ jobs[n].epoch < epoch
      BY Zenon DEF Shape, JobsInOrder
    <3>2. \A v \in Writers : Flushing(v)' => v = w
      BY <2>7, Zenon DEF Flushing, InMutex
    <3>3. \A n \in 1..Len(jobs) : jobs[n].epoch < epoch'
      BY <2>1, <2>6, <3>1
    <3>4. epoch < epoch'
      BY <2>1, <2>6
    <3> QED
      BY <1>0, <2>6, <3>1, <3>2, <3>3, <3>4, Zenon DEF JobsInOrder
  <2>13. PublishedInOrder'
    BY <1>0, Zenon DEF PublishedInOrder
  <2>14. PendingIsUnpublished'
    BY <1>0, <2>6 DEF PendingIsUnpublished
  <2> QED
    BY <2>8, <2>9, <2>10, <2>11, <2>12, <2>13, <2>14, Zenon
<1> QED
  BY <1>1, <1>2, Zenon

\* The frozen buffer goes to the pending map and the pipelined one takes its
\* place.
LEMMA SwapInv ==
    ASSUME Inv, NEW w \in Writers, Swap(w)
    PROVE Inv'
<1> USE DEF Inv, Gate, Chain
<1>1. /\ UNCHANGED <<tables, mutex, jobs, l0, granted, epoch, wepoch, local>>
      /\ pending' = pending \cup {<<wepoch[w], table>>}
      /\ table' = pipelined /\ pipelined # None /\ pipelined' = None
      /\ wpc[w] = "swap" /\ mutex = w
  BY Zenon DEF Swap, FlusherHoldsMutex
<1>2. /\ wpc'[w] = "switch" /\ \A v \in Writers : v # w => wpc'[v] = wpc[v]
      /\ wpc' \in [Writers -> Points]
  BY Zenon DEF Swap, Goto, Shape, Points
<1>3. wepoch[w] \in Nat /\ table \in 1..Len(tables) /\ tables[table].frozen = TRUE
  BY <1>1, Zenon DEF Shape, FlusherFroze
<1>4. \A v \in Writers : v # w => wpc'[v] \notin InMutex
  BY <1>1, <1>2, Zenon DEF FlusherHoldsMutex, InMutex
<1>5. Shape'
  BY <1>1, <1>2, <1>3 DEF Shape
<1>6. FlusherHoldsMutex' /\ FlusherFroze'
  BY <1>1, <1>2, <1>4, Zenon DEF FlusherHoldsMutex, FlusherFroze, InMutex
<1>7. FlushedIsFrozen'
  BY <1>1, <1>3 DEF FlushedIsFrozen
<1>8. DrainedIsEmpty'
  BY <1>1, <1>2, Zenon DEF DrainedIsEmpty, Holding
<1>9. JobsInOrder'
  <2>1. \A v \in Writers : Flushing(v)' => Flushing(v)
    BY <1>1, <1>2, Zenon DEF Flushing
  <2> QED
    BY <1>1, <2>1, Zenon DEF JobsInOrder
<1>10. PublishedInOrder'
  BY <1>1, Zenon DEF PublishedInOrder
<1>11. PendingIsUnpublished'
  <2>1. \A v \in Writers : wpc[v] = "switch" => wpc'[v] = "switch"
    BY <1>1, <1>2, Zenon
  <2> QED
    BY <1>1, <1>2, <2>1 DEF PendingIsUnpublished
<1> QED
  BY <1>5, <1>6, <1>7, <1>8, <1>9, <1>10, <1>11, Zenon

\* The job of the pending buffer is started: its epoch is the largest so far.
LEMMA LaunchInv ==
    ASSUME Inv, NEW w \in Writers, Launch(w)
    PROVE Inv'
<1> USE DEF Inv, Gate, Chain
<1> DEFINE k == Len(jobs)
<1>1. /\ UNCHANGED <<tables, table, pipelined, l0, pending, granted, epoch, wepoch, local>>
      /\ wpc[w] = "switch" /\ mutex = w
  BY Zenon DEF Launch, FlusherHoldsMutex
<1>2. /\ wpc'[w] = "leave" /\ \A v \in Writers : v # w => wpc'[v] = wpc[v]
      /\ wpc' \in [Writers -> Points]
  BY Zenon DEF Launch, Goto, Shape, Points
<1>3. PICK e \in pending :
         /\ e[1] = wepoch[w]
         /\ jobs' = Append(jobs, [epoch |-> e[1], table |-> e[2], pc |-> "drain", sst |-> None])
  BY Zenon DEF Launch
<1> DEFINE new == [epoch |-> e[1], table |-> e[2], pc |-> "drain", sst |-> None]
<1>4. /\ DOMAIN new = JobFields /\ new.epoch = wepoch[w] /\ new.table = e[2] /\ new.pc = "drain"
      /\ e[2] \in 1..Len(tables) /\ wepoch[w] \in Nat /\ tables[e[2]].frozen = TRUE
  <2>1. DOMAIN new = JobFields /\ new.epoch = wepoch[w] /\ new.table = e[2] /\ new.pc = "drain"
    BY <1>3, Zenon DEF JobFields
  <2>2. e[2] \in 1..Len(tables) /\ wepoch[w] \in Nat
    BY Zenon DEF Shape
  <2>3. tables[e[2]].frozen = TRUE
    BY Zenon DEF FlushedIsFrozen
  <2> QED
    BY <2>1, <2>2, <2>3, Zenon
<1>5. jobs' = Append(jobs, new)
  BY <1>3, Zenon
<1> HIDE DEF new
<1>6. /\ IsSeq(jobs') /\ Len(jobs') = k + 1 /\ k \in Nat
      /\ \A n \in 1..k : jobs'[n] = jobs[n]
      /\ jobs'[k + 1] = new
      /\ \A n \in 1..(k + 1) : n \in 1..k \/ n = k + 1
      /\ 1..k \subseteq 1..(k + 1) /\ k + 1 \in 1..(k + 1)
  <2>1. IsSeq(jobs)
    BY Zenon DEF Shape
  <2>2. k \in Nat
    BY <2>1, SeqDomain, Zenon
  <2>3. /\ IsSeq(jobs') /\ Len(jobs') = k + 1
        /\ \A n \in 1..k : jobs'[n] = jobs[n]
        /\ jobs'[k + 1] = new
    BY <1>5, <2>1, AppendIsSeq
  <2> HIDE DEF k
  <2>4. /\ \A n \in 1..(k + 1) : n \in 1..k \/ n = k + 1
        /\ 1..k \subseteq 1..(k + 1) /\ k + 1 \in 1..(k + 1)
    BY <2>2
  <2> QED
    BY <2>2, <2>3, <2>4, Zenon
<1>7. \A v \in Writers : wpc'[v] \notin InMutex
  BY <1>1, <1>2, Zenon DEF FlusherHoldsMutex, InMutex
<1>8. Shape'
  <2>1. \A n \in 1..Len(jobs') : /\ DOMAIN jobs'[n] = JobFields
                                 /\ jobs'[n].epoch \in Nat /\ jobs'[n].table \in 1..Len(tables)
    BY <1>4, <1>6, ZenonT(60) DEF Shape
  <2> QED
    BY <1>1, <1>2, <1>6, <2>1, Zenon DEF Shape
<1>9. FlusherHoldsMutex' /\ FlusherFroze'
  BY <1>7, Zenon DEF FlusherHoldsMutex, FlusherFroze, InMutex
<1>10. FlushedIsFrozen'
  BY <1>1, <1>4, <1>6, Zenon DEF FlushedIsFrozen
<1>11. DrainedIsEmpty'
  <2>1. \A v \in Writers : wpc'[v] \notin {"idle", "acquire"} => wpc[v] \notin {"idle", "acquire"}
    BY <1>1, <1>2, Zenon
  <2> SUFFICES ASSUME NEW n \in 1..(k + 1), jobs'[n].pc # "drain", NEW v \in Writers,
                      local[v] = jobs'[n].table, wpc'[v] \notin {"idle", "acquire"}
               PROVE FALSE
    BY <1>1, <1>6, Zenon DEF DrainedIsEmpty, Holding
  <2>2. n \in 1..k
    BY <1>4, <1>6, Zenon
  <2> QED
    BY <1>6, <2>1, <2>2, Zenon DEF DrainedIsEmpty, Holding
<1>12. JobsInOrder'
  <2>1. \A n \in 1..k : jobs[n].epoch < wepoch[w]
    BY <1>1, Zenon DEF JobsInOrder, Flushing
  <2>2. wepoch[w] < epoch
    BY <1>1, Zenon DEF JobsInOrder, Flushing
  <2>3. \A n \in 1..(k + 1) : jobs'[n].epoch < epoch
    BY <1>4, <1>6, <2>2, Zenon DEF JobsInOrder
  <2>4. \A v \in Writers : ~Flushing(v)'
    BY <1>7, Zenon DEF Flushing, InMutex
  <2>5. ASSUME NEW m \in 1..(k + 1), NEW n \in 1..(k + 1), m < n
        PROVE jobs'[m].epoch < jobs'[n].epoch
    <3>1. m \in 1..k
      BY <1>6, <2>5
    <3>2. CASE n \in 1..k
      BY <1>6, <2>5, <3>1, <3>2, Zenon DEF JobsInOrder
    <3>3. CASE n = k + 1
      BY <1>4, <1>6, <2>1, <3>1, <3>3, Zenon
    <3> QED
      BY <1>6, <3>2, <3>3, Zenon
  <2> QED
    BY <1>1, <1>6, <2>3, <2>4, <2>5, Zenon DEF JobsInOrder
<1>13. Len(l0) \in Nat /\ Len(l0) <= k
  BY SeqDomain, Zenon DEF Shape, PublishedInOrder
<1>14. PublishedInOrder'
  <2>1. 1..Len(l0) \subseteq 1..k /\ Len(l0) <= k + 1
    BY <1>6, <1>13
  <2> QED
    BY <1>1, <1>6, <2>1, Zenon DEF PublishedInOrder
<1>15. PendingIsUnpublished'
  <2> SUFFICES ASSUME NEW f \in pending
               PROVE \E n \in 1..(k + 1) : Len(l0) < n /\ f[1] = jobs'[n].epoch
    BY <1>1, <1>6 DEF PendingIsUnpublished
  <2>1. CASE \E n \in 1..k : Len(l0) < n /\ f[1] = jobs[n].epoch
    BY <1>6, <2>1, Zenon
  <2>2. CASE \E v \in Writers : wpc[v] = "switch" /\ f[1] = wepoch[v]
    <3>1. f[1] = wepoch[w]
      BY <1>1, <2>2, Zenon DEF FlusherHoldsMutex
    <3>2. Len(l0) < k + 1
      BY <1>6, <1>13
    <3> QED
      BY <1>4, <1>6, <3>1, <3>2, Zenon
  <2> QED
    BY <2>1, <2>2, Zenon DEF PendingIsUnpublished
<1> QED
  BY <1>8, <1>9, <1>10, <1>11, <1>12, <1>14, <1>15, Zenon

\* _make_memtable adds an empty buffer and changes no other.
LEMMA MakeKeeps ==
    ASSUME Inv, MakePipelined
    PROVE /\ TablesKept(tables, tables') /\ Len(tables') = Len(tables) + 1
          /\ \A t \in 1..Len(tables) : tables'[t] = tables[t]
<1>1. IsSeq(tables) /\ \A t \in 1..Len(tables) : DOMAIN tables[t] = TableFields
  BY Zenon DEF Inv, Gate, Shape
<1>2. Len(tables) \in Nat
  BY <1>1, SeqDomain, Zenon
<1>3. DOMAIN EmptyTable = TableFields
  BY Zenon DEF EmptyTable, TableFields
<1>4. /\ IsSeq(tables') /\ Len(tables') = Len(tables) + 1
      /\ \A t \in 1..Len(tables) : tables'[t] = tables[t]
      /\ tables'[Len(tables) + 1] = EmptyTable
  BY <1>1, AppendIsSeq DEF MakePipelined
<1>5. \A t \in 1..(Len(tables) + 1) : t \in 1..Len(tables) \/ t = Len(tables) + 1
  BY <1>2
<1>6. Len(tables) + 1 \in Nat /\ Len(tables) <= Len(tables) + 1
  BY <1>2
<1> QED
  BY <1>1, <1>2, <1>3, <1>4, <1>5, <1>6, Zenon DEF TablesKept

\* The new pipelined buffer preserves the invariant.
LEMMA MakeInv ==
    ASSUME Inv, MakePipelined
    PROVE Inv'
<1> USE DEF Inv, Gate, Chain
<1>1. /\ UNCHANGED <<table, mutex, jobs, l0, pending, granted, epoch, wepoch, local, wpc>>
      /\ pipelined' = Len(tables) + 1
  BY Zenon DEF MakePipelined, putVars
<1>2. /\ TablesKept(tables, tables') /\ Len(tables') = Len(tables) + 1
      /\ \A t \in 1..Len(tables) : tables'[t] = tables[t]
  BY MakeKeeps, Zenon
<1>3. /\ Len(tables) \in Nat /\ IsSeq(tables')
      /\ \A t \in 1..Len(tables') : DOMAIN tables'[t] = TableFields
  BY <1>2, Zenon DEF TablesKept
<1>4. 1..Len(tables) \subseteq 1..Len(tables') /\ pipelined' \in 1..Len(tables')
  BY <1>1, <1>2, <1>3
<1>5. Shape'
  BY <1>1, <1>3, <1>4, Zenon DEF Shape
<1>6. FlusherHoldsMutex' /\ DrainedIsEmpty'
  BY <1>1, Zenon DEF FlusherHoldsMutex, DrainedIsEmpty, Holding
<1>7. FlusherFroze' /\ FlushedIsFrozen'
  <2>1. /\ table \in 1..Len(tables)
        /\ \A e \in pending : e[2] \in 1..Len(tables)
        /\ \A n \in 1..Len(jobs) : jobs[n].table \in 1..Len(tables)
    BY Zenon DEF Shape
  <2> QED
    BY <1>1, <1>2, <2>1, Zenon DEF FlusherFroze, FlushedIsFrozen
<1>8. JobsInOrder' /\ PublishedInOrder' /\ PendingIsUnpublished'
  BY <1>1, Zenon DEF JobsInOrder, PublishedInOrder, PendingIsUnpublished, Flushing
<1> QED
  BY <1>5, <1>6, <1>7, <1>8, Zenon

-----------------------------------------------------------------------------
(* The flush jobs *)

\* A job moves to the point at: past its drain nobody is in its buffer.
JobMoves(n, at) ==
    /\ UNCHANGED <<tables, table, mutex, pipelined, epoch, wepoch, local, wpc>>
    /\ JobMoved(jobs, jobs', n, at)
    /\ at # "drain"
    /\ jobs[n].pc = "drain" => \A w \in Writers : ~Holding(w, jobs[n].table)

\* A move of a job preserves what the invariant says of buffers and writers.
LEMMA JobMovesGate ==
    ASSUME Inv, NEW n \in 1..Len(jobs), NEW at, JobMoves(n, at),
           IsSeq(l0'), pending' \subseteq pending
    PROVE Gate'
<1> USE DEF Inv, Gate
<1>1. UNCHANGED <<tables, table, mutex, pipelined, epoch, wepoch, local, wpc>>
  BY Zenon DEF JobMoves
<1>2. /\ IsSeq(jobs') /\ Len(jobs') = Len(jobs)
      /\ \A i \in 1..Len(jobs) : /\ DOMAIN jobs'[i] = JobFields
                                 /\ jobs'[i].epoch = jobs[i].epoch /\ jobs'[i].table = jobs[i].table
      /\ \A i \in 1..Len(jobs) : i # n => jobs'[i].pc = jobs[i].pc
  BY Zenon DEF JobMoves, JobMoved
<1>3. Shape'
  BY <1>1, <1>2, Zenon DEF Shape
<1>4. FlusherHoldsMutex' /\ FlusherFroze'
  BY <1>1, Zenon DEF FlusherHoldsMutex, FlusherFroze
<1>5. FlushedIsFrozen'
  BY <1>1, <1>2, Zenon DEF FlushedIsFrozen
<1>6. DrainedIsEmpty'
  <2>1. \A i \in 1..Len(jobs) : jobs'[i].pc # "drain" =>
           \A w \in Writers : ~Holding(w, jobs[i].table)
    BY <1>2, Zenon DEF DrainedIsEmpty, JobMoves
  <2>2. \A w \in Writers : \A t : Holding(w, t)' <=> Holding(w, t)
    BY <1>1, Zenon DEF Holding
  <2> QED
    BY <1>2, <2>1, <2>2, Zenon DEF DrainedIsEmpty
<1> QED
  BY <1>3, <1>4, <1>5, <1>6, Zenon

\* A job has the shape that MoveJob asks for.
LEMMA JobsShape ==
    ASSUME Inv
    PROVE /\ IsSeq(jobs) /\ DOMAIN jobs = 1..Len(jobs) /\ Len(jobs) \in Nat
          /\ \A n \in 1..Len(jobs) : DOMAIN jobs[n] = JobFields
          /\ IsSeq(l0) /\ DOMAIN l0 = 1..Len(l0) /\ Len(l0) \in Nat
BY SeqDomain, Zenon DEF Inv, Gate, Shape

\* The steps of _flush_inner other than the publication.
LEMMA JobInv ==
    ASSUME Inv, NEW n \in DOMAIN jobs,
           Drain(n) \/ Write(n) \/ WriteFails(n) \/ ReleaseSlot(n) \/ ResetWal(n)
    PROVE Inv'
<1>1. UNCHANGED <<tables, table, mutex, pipelined, epoch, wepoch, local, wpc, l0, pending, granted>>
  BY Zenon DEF Drain, Write, WriteFails, ReleaseSlot, ResetWal, putVars
<1>2. PICK at \in {"write", "publish", "failed", "reset", "done"} : IsJobUpdate(jobs, jobs', n, at)
  <2>1. CASE Drain(n)
    BY <2>1, Zenon DEF Drain, JobGoto, IsJobUpdate
  <2>2. CASE Write(n)
    BY <2>2, ZenonT(60) DEF Write, IsJobUpdate
  <2>3. CASE WriteFails(n)
    BY <2>3, Zenon DEF WriteFails, JobGoto, IsJobUpdate
  <2>4. CASE ReleaseSlot(n)
    BY <2>4, Zenon DEF ReleaseSlot, JobGoto, IsJobUpdate
  <2>5. CASE ResetWal(n)
    BY <2>5, Zenon DEF ResetWal, JobGoto, IsJobUpdate
  <2> QED
    BY <2>1, <2>2, <2>3, <2>4, <2>5, Zenon
<1>3. JobMoved(jobs, jobs', n, at)
  BY <1>2, JobsShape, MoveJob, Zenon
<1>4. jobs[n].pc = "drain" => \A w \in Writers : ~Holding(w, jobs[n].table)
  BY Zenon DEF Drain, Write, WriteFails, ReleaseSlot, ResetWal, JobAt
<1>5. JobMoves(n, at)
  BY <1>1, <1>3, <1>4, Zenon DEF JobMoves
<1>6. Gate'
  BY <1>1, <1>5, JobsShape, JobMovesGate, Zenon
<1>7. /\ Len(jobs') = Len(jobs)
      /\ \A i \in 1..Len(jobs) : jobs'[i].epoch = jobs[i].epoch
  BY <1>3, Zenon DEF JobMoved
<1>8. 1..Len(l0) \subseteq 1..Len(jobs)
  BY JobsShape DEF Inv, Chain, PublishedInOrder
<1>9. JobsInOrder' /\ PublishedInOrder' /\ PendingIsUnpublished'
  BY <1>1, <1>7, <1>8 DEF Inv, Chain, JobsInOrder, PublishedInOrder, PendingIsUnpublished, Flushing
<1> QED
  BY <1>6, <1>9, Zenon DEF Inv, Chain

\* Only the job after the last published one can publish.
LEMMA PublishInv ==
    ASSUME Inv, NEW n \in DOMAIN jobs, Publish(n)
    PROVE Inv'
<1> DEFINE k == Len(l0)
<1>1. /\ UNCHANGED <<tables, table, mutex, pipelined, epoch, wepoch, local, wpc>>
      /\ n = k + 1 /\ granted' = {n + 1} /\ k \in Nat /\ n \in 1..Len(jobs) /\ Len(jobs) \in Nat
      /\ pending' = {e \in pending : e[1] # jobs[n].epoch}
  <2>1. granted = {k + 1} /\ n \in granted /\ granted' = (granted \ {n}) \cup {n + 1}
    BY Zenon DEF Publish, Inv, Chain, PublishedInOrder
  <2>2. n = k + 1
    BY <2>1, Zenon
  <2>3. granted' = {n + 1}
    BY <2>1, <2>2, Zenon
  <2> QED
    BY <2>2, <2>3, JobsShape, ZenonT(60) DEF Publish, putVars
<1>2. JobMoved(jobs, jobs', n, "persist")
  <2>1. IsJobUpdate(jobs, jobs', n, "persist")
    BY Zenon DEF Publish, JobGoto, IsJobUpdate
  <2> QED
    BY <1>1, <2>1, JobsShape, MoveJob, Zenon
<1>3. JobMoves(n, "persist")
  BY <1>1, <1>2, ZenonT(60) DEF JobMoves, Publish, JobAt
<1> DEFINE new == [epoch |-> jobs[n].epoch, version |-> jobs[n].sst]
<1>4. l0' = Append(l0, new) /\ new.epoch = jobs[n].epoch
  BY Zenon DEF Publish
<1> HIDE DEF new
<1>5. /\ IsSeq(l0') /\ Len(l0') = k + 1
      /\ \A i \in 1..k : l0'[i] = l0[i]
      /\ l0'[k + 1] = new
  BY <1>4, JobsShape, AppendIsSeq
<1>6. Gate'
  BY <1>1, <1>3, <1>5, JobMovesGate, Zenon
<1>7. /\ Len(jobs') = Len(jobs)
      /\ \A i \in 1..Len(jobs) : jobs'[i].epoch = jobs[i].epoch
  BY <1>2, Zenon DEF JobMoved
<1>8. JobsInOrder'
  BY <1>1, <1>7, SMTT(30) DEF Inv, Chain, JobsInOrder, Flushing
<1> HIDE DEF k
<1>9. PublishedInOrder'
  <2>1. /\ k + 1 <= Len(jobs) /\ granted' = {Len(l0') + 1}
        /\ \A i \in 1..(k + 1) : i \in 1..Len(jobs) /\ (i \in 1..k \/ i = n)
    BY <1>1, <1>5
  <2>2. \A i \in 1..k : l0[i].epoch = jobs[i].epoch
    BY Zenon DEF Inv, Chain, PublishedInOrder, k
  <2>3. \A i \in 1..(k + 1) : l0'[i].epoch = jobs'[i].epoch
    BY <1>1, <1>4, <1>5, <1>7, <2>1, <2>2, Zenon
  <2> QED
    BY <1>5, <1>7, <2>1, <2>3, Zenon DEF PublishedInOrder
<1>10. PendingIsUnpublished'
  <2> SUFFICES ASSUME NEW e \in pending, e[1] # jobs[n].epoch
               PROVE \/ \E m \in 1..Len(jobs) : k + 1 < m /\ e[1] = jobs'[m].epoch
                     \/ \E w \in Writers : wpc[w] = "switch" /\ e[1] = wepoch[w]
    BY <1>1, <1>5, <1>7, Zenon DEF PendingIsUnpublished
  <2>1. CASE \E m \in 1..Len(jobs) : k < m /\ e[1] = jobs[m].epoch
    <3>1. PICK m \in 1..Len(jobs) : k < m /\ e[1] = jobs[m].epoch
      BY <2>1, Zenon
    <3>2. m # n
      BY <3>1, Zenon
    <3>3. k + 1 < m
      BY <1>1, <3>1, <3>2
    <3> QED
      BY <1>7, <3>1, <3>3, Zenon
  <2>2. CASE \E w \in Writers : wpc[w] = "switch" /\ e[1] = wepoch[w]
    BY <2>2, Zenon
  <2> QED
    BY <2>1, <2>2, Zenon DEF Inv, Chain, PendingIsUnpublished, k
<1> QED
  BY <1>6, <1>8, <1>9, <1>10, Zenon DEF Inv, Chain

-----------------------------------------------------------------------------
(* The theorems *)

\* A step of a get, or none at all, changes nothing the invariant is about.
LEMMA StillInv ==
    ASSUME Inv, GetNext \/ UNCHANGED vars
    PROVE Inv' /\ UNCHANGED <<tables, jobs>>
<1>1. UNCHANGED <<tables, table, mutex, epoch, pipelined, pending, jobs, granted, l0, wpc, local, wepoch>>
  BY ZenonT(60) DEF GetNext, BeginGet, LoadTable, ReadTable, ReadPending, ReadL0, EndGet, vars, flushVars,
         putVars
<1>2. Gate'
  BY <1>1, Zenon DEF Inv, Gate, Shape, FlusherHoldsMutex, FlusherFroze, FlushedIsFrozen, DrainedIsEmpty,
              Holding
<1>3. Chain'
  BY <1>1, Zenon DEF Inv, Chain, JobsInOrder, PublishedInOrder, PendingIsUnpublished, Flushing
<1> QED
  BY <1>1, <1>2, <1>3, Zenon DEF Inv

\* Every step preserves the invariant.
LEMMA NextInv == Inv /\ [Next]_vars => Inv'
<1> SUFFICES ASSUME Inv, [Next]_vars PROVE Inv'
  BY Zenon
<1>1. CASE GetNext \/ UNCHANGED vars
  BY <1>1, StillInv, Zenon
<1>2. CASE FailNext
  <2>1. CASE \E w \in Writers : LogFails(w)
    BY <2>1, SimpleWriterInv, Zenon
  <2>2. CASE \E n \in DOMAIN jobs : WriteFails(n)
    BY <2>2, JobInv, Zenon
  <2> QED
    BY <1>2, <2>1, <2>2, Zenon DEF FailNext
<1>3. CASE WriteNext
  <2>1. ASSUME NEW w \in Writers, Put(w) \/ WriterStep(w)
        PROVE Inv'
    BY <2>1, SimpleWriterInv, ReloadInv, InsertInv, GuardInv, SwapInv, LaunchInv, Zenon DEF WriterStep
  <2>2. CASE MakePipelined
    BY <2>2, MakeInv, Zenon
  <2>3. ASSUME NEW n \in DOMAIN jobs, JobStep(n)
        PROVE Inv'
    BY <2>3, JobInv, PublishInv, Zenon DEF JobStep
  <2> QED
    BY <1>3, <2>1, <2>2, <2>3, Zenon DEF WriteNext
<1> QED
  BY <1>1, <1>2, <1>3, Zenon DEF Next

\* The inductive invariant of the flush pipeline holds in every reachable state.
THEOREM InvAlways == Spec => []Inv
BY InitInv, NextInv, PTL DEF Spec

\* The invariant orders L0, and the pending buffers behind it.
LEMMA InvOrdersTiers == Inv => ChronologicalTiers
<1> SUFFICES ASSUME Inv PROVE ChronologicalTiers
  BY Zenon
<1>1. /\ DOMAIN l0 = 1..Len(l0) /\ Len(l0) \in Nat /\ Len(jobs) \in Nat
      /\ 1..Len(l0) \subseteq 1..Len(jobs)
      /\ \A i \in 1..Len(l0) : l0[i].epoch = jobs[i].epoch
  BY JobsShape DEF Inv, Chain, PublishedInOrder
<1>2. \A i, j \in DOMAIN l0 : i < j => l0[i].epoch < l0[j].epoch
  BY <1>1 DEF Inv, Chain, JobsInOrder
<1>3. ASSUME NEW e \in pending, NEW i \in 1..Len(l0)
      PROVE jobs[i].epoch < e[1]
  <2>1. i \in 1..Len(jobs)
    BY <1>1, Zenon
  <2>2. CASE \E n \in 1..Len(jobs) : Len(l0) < n /\ e[1] = jobs[n].epoch
    <3>1. PICK n \in 1..Len(jobs) : Len(l0) < n /\ e[1] = jobs[n].epoch
      BY <2>2, Zenon
    <3>2. i < n
      BY <1>1, <3>1
    <3> QED
      BY <2>1, <3>1, <3>2, Zenon DEF Inv, Chain, JobsInOrder
  <2>3. CASE \E w \in Writers : wpc[w] = "switch" /\ e[1] = wepoch[w]
    BY <2>1, <2>3, Zenon DEF Inv, Chain, JobsInOrder, Flushing
  <2> QED
    BY <2>2, <2>3, Zenon DEF Inv, Chain, PendingIsUnpublished
<1> QED
  BY <1>1, <1>2, <1>3, Zenon DEF ChronologicalTiers

\* For any writers and any max_pending_flushes, SSTs enter L0 in the order in which
\* their buffers were frozen, and all buffers still pending are newer than L0: the
\* order in which get and lookup_async search is the order of time.
THEOREM TiersAreChronological == Spec => []ChronologicalTiers
BY InvAlways, InvOrdersTiers, PTL

\* No step changes the content of the buffer of a job past its drain.
LEMMA StepKeepsDrained ==
    ASSUME Inv, [Next]_vars, NEW n \in DOMAIN jobs, jobs[n].pc # "drain"
    PROVE tables'[jobs[n].table].content = tables[jobs[n].table].content
<1> DEFINE t == jobs[n].table
<1>1. /\ n \in 1..Len(jobs) /\ t \in 1..Len(tables)
      /\ IsSeq(tables) /\ \A i \in 1..Len(tables) : DOMAIN tables[i] = TableFields
      /\ \A w \in Writers : ~Holding(w, t) /\ local[w] \in 1..Len(tables)
  BY JobsShape, Zenon DEF Inv, Gate, Shape, DrainedIsEmpty
<1> HIDE DEF t
<1>2. CASE UNCHANGED tables
  BY <1>2, Zenon
<1>3. CASE \E w \in Writers : Insert(w)
  <2>1. PICK w \in Writers : Insert(w)
    BY <1>3, Zenon
  <2>2. local[w] # t
    BY <1>1, <2>1, Zenon DEF Insert, Holding
  <2>3. tables'[t] = tables[t]
    BY <1>1, <2>1, <2>2, InsertKeeps, Zenon
  <2> QED
    BY <2>3, Zenon DEF t
<1>4. CASE \E w \in Writers : tables' = [tables EXCEPT ![local[w]].frozen = TRUE]
  <2>1. PICK w \in Writers : tables' = [tables EXCEPT ![local[w]].frozen = TRUE]
    BY <1>4, Zenon
  <2>2. DOMAIN tables = 1..Len(tables)
    BY <1>1, SeqDomain, Zenon
  <2>3. tables'[t].content = tables[t].content
    BY <1>1, <2>1, <2>2, Zenon DEF TableFields
  <2> QED
    BY <2>3, Zenon DEF t
<1>5. CASE MakePipelined
  <2>1. tables'[t] = tables[t]
    BY <1>1, <1>5, MakeKeeps, Zenon
  <2> QED
    BY <2>1, Zenon DEF t
<1>6. \/ UNCHANGED tables
      \/ \E w \in Writers : Insert(w)
      \/ \E w \in Writers : tables' = [tables EXCEPT ![local[w]].frozen = TRUE]
      \/ MakePipelined
  <2>1. CASE GetNext \/ UNCHANGED vars
    BY <2>1, StillInv, Zenon
  <2>2. CASE FailNext
    BY <2>2, Zenon DEF FailNext, LogFails, WriteFails
  <2>3. ASSUME NEW w \in Writers, Put(w) \/ WriterStep(w)
        PROVE \/ UNCHANGED tables
              \/ Insert(w)
              \/ tables' = [tables EXCEPT ![local[w]].frozen = TRUE]
    BY <2>3, Zenon DEF WriterStep, Put, Acquire, Reload, Log, Leave, TryFlush, Guard, AwaitSlot, Swap,
                Launch
  <2>4. ASSUME NEW m \in DOMAIN jobs, JobStep(m)
        PROVE UNCHANGED tables
    BY <2>4, Zenon DEF JobStep, Drain, Write, Publish, ReleaseSlot, ResetWal
  <2> QED
    BY <2>1, <2>2, <2>3, <2>4, ZenonT(60) DEF Next, WriteNext
<1> QED
  BY <1>2, <1>3, <1>4, <1>5, <1>6, Zenon

\* For any writers, once _flush_inner has seen its buffer without writers, no step
\* of put_async or of another flush changes what the job writes to its SSTs.
THEOREM DrainedStaysImmutable == Spec => DrainedIsImmutable
<1> DEFINE Kept == \A n \in DOMAIN jobs : jobs[n].pc # "drain" =>
                      tables'[jobs[n].table].content = tables[jobs[n].table].content
<1>1. Inv /\ [Next]_vars => [Kept]_vars
  BY StepKeepsDrained, Zenon
<1>2. Spec => [][Kept]_vars
  BY <1>1, InvAlways, PTL DEF Spec
<1> QED
  BY <1>2, Zenon DEF DrainedIsImmutable

-----------------------------------------------------------------------------
(* What the buffers hold *)

\* The numbers and indices of the invariant.
LEMMA Indices ==
    ASSUME Inv
    PROVE /\ IsSeq(tables) /\ DOMAIN tables = 1..Len(tables) /\ Len(tables) \in Nat
          /\ table \in 1..Len(tables) /\ table \in Nat
          /\ DOMAIN jobs = 1..Len(jobs) /\ Len(jobs) \in Nat
          /\ DOMAIN l0 = 1..Len(l0) /\ Len(l0) \in Nat /\ Len(l0) <= Len(jobs)
          /\ 1..Len(l0) \subseteq 1..Len(jobs)
          /\ \A w \in Writers : local[w] \in 1..Len(tables)
<1>1. /\ IsSeq(tables) /\ table \in 1..Len(tables) /\ Len(l0) <= Len(jobs)
      /\ \A w \in Writers : local[w] \in 1..Len(tables)
  BY Zenon DEF Inv, Gate, Shape, Chain, PublishedInOrder
<1>2. DOMAIN tables = 1..Len(tables) /\ Len(tables) \in Nat
  BY <1>1, SeqDomain, Zenon
<1>3. table \in Nat
  BY <1>1, <1>2
<1>4. 1..Len(l0) \subseteq 1..Len(jobs)
  BY <1>1, JobsShape
<1> QED
  BY <1>1, <1>2, <1>3, <1>4, JobsShape, Zenon

\* At most one writer is between the swap and the launch, and nobody then holds
\* the mutex at another point.
LEMMA OneSwitches ==
    ASSUME Inv, NEW w \in Writers, wpc[w] \in InMutex
    PROVE \A v \in Writers : v # w => wpc[v] \notin InMutex
BY Zenon DEF Inv, Gate, FlusherHoldsMutex, InMutex

\* The versions in table t, and that its latest version is one of them.
Elements(t) == tables[t].content.versions
HasNewest(c) == IF c.versions = {} THEN c.newest = None ELSE c.newest \in c.versions

\* Buffers are numbered by age: the job of buffer n is job n, and the buffers
\* between L0 and the current one are exactly the pending ones.
Numbered ==
    /\ switch = Len(jobs)
    /\ \A n \in 1..Len(jobs) : jobs[n].table = n
    /\ \A t \in 1..(table - 1) : tables[t].frozen = TRUE
    /\ \A w \in Writers : wpc[w] = "switch" =>
          /\ table = Len(jobs) + 2 /\ pipelined = None /\ making = FALSE
          /\ <<wepoch[w], Len(jobs) + 1>> \in pending
    /\ (\A w \in Writers : wpc[w] # "switch") => table = Len(jobs) + 1
    /\ pipelined # None => pipelined = table + 1 /\ Len(tables) = table + 1 /\ making = FALSE
    /\ pipelined = None => Len(tables) = table
    /\ \A n \in (Len(l0) + 1)..Len(jobs) : <<jobs[n].epoch, n>> \in pending
    /\ \A e \in pending :
          \/ \E n \in (Len(l0) + 1)..Len(jobs) : e = <<jobs[n].epoch, n>>
          \/ \E w \in Writers : wpc[w] = "switch" /\ e = <<wepoch[w], Len(jobs) + 1>>

\* An SST holds what its buffer holds.
SstsAreBuffers ==
    /\ \A n \in 1..Len(jobs) :
          jobs[n].pc \in {"publish", "persist", "reset", "done"} => jobs[n].sst = Newest(n)
    /\ \A i \in 1..Len(l0) : /\ jobs[i].pc \in {"persist", "reset", "done"}
                             /\ l0[i].version = Newest(i)

\* No buffer changes its content; new buffers are empty.
ContentsKept ==
    /\ Len(tables') \in Nat /\ Len(tables) <= Len(tables')
    /\ \A t \in 1..Len(tables) : tables'[t].content = tables[t].content
    /\ \A t \in 1..Len(tables') : t \notin 1..Len(tables) => tables'[t].content = NoContent

\* Writer w adds its version to its buffer, as the latest one.
Inserted(w) ==
    /\ Len(tables') = Len(tables)
    /\ \A t \in 1..Len(tables) : t # local[w] => tables'[t].content = tables[t].content
    /\ tables'[local[w]].content =
          [versions |-> tables[local[w]].content.versions \cup {put[w]}, newest |-> put[w]]

\* An insertion that succeeds adds the version of the writer at the end of its
\* buffer; one that fails changes no buffer and sends the writer to flush.
LEMMA InsertContent ==
    ASSUME Inv, NEW w \in Writers, Insert(w)
    PROVE \/ ContentsKept /\ wpc'[w] = "flush"
          \/ Inserted(w) /\ wpc'[w] \in {"flush", "log"}
<1> DEFINE t == local[w]
           d == [versions |-> tables[t].content.versions \cup {put[w]}, newest |-> put[w]]
<1>1. /\ IsSeq(tables) /\ \A i \in 1..Len(tables) : DOMAIN tables[i] = TableFields
      /\ t \in 1..Len(tables) /\ DOMAIN tables = 1..Len(tables) /\ Len(tables) \in Nat
      /\ w \in DOMAIN wpc
  BY Indices, Zenon DEF Inv, Gate, Shape
<1>2. PICK ok \in BOOLEAN :
         /\ tables' = IF ok THEN [tables EXCEPT ![t].content = d,
                                                ![t].bytes = IF @ > Cap THEN @ ELSE @ + 1]
                      ELSE tables
         /\ Goto(w, IF ~ok \/ tables[t].bytes > Cap THEN "flush" ELSE "log")
  BY Zenon DEF Insert
<1>3. CASE ~ok
  <2>1. tables' = tables /\ wpc'[w] = "flush"
    BY <1>1, <1>2, <1>3, Zenon DEF Goto
  <2> QED
    BY <1>1, <2>1 DEF ContentsKept
<1>4. CASE ok
  <2> DEFINE y == IF tables[t].bytes > Cap THEN tables[t].bytes ELSE tables[t].bytes + 1
  <2> HIDE DEF d
  <2>1. tables' = [tables EXCEPT ![t].content = d, ![t].bytes = y]
    BY <1>1, <1>2, <1>4, Zenon DEF TableFields
  <2>2. wpc'[w] \in {"flush", "log"}
    BY <1>1, <1>2, <1>4, Zenon DEF Goto
  <2>3. IsTableUpdate(tables, tables', t)
    BY <2>1, Zenon DEF IsTableUpdate
  <2> HIDE DEF y
  <2>4. tables'[t].content = d
    BY <1>1, <2>1, Zenon DEF TableFields
  <2>5. /\ Len(tables') = Len(tables)
        /\ \A i \in 1..Len(tables) : i # t => tables'[i] = tables[i]
    <3> HIDE DEF t
    <3> QED
      BY <1>1, <2>3, UpdateTable, ZenonT(60)
  <2>6. Inserted(w)
    BY <2>4, <2>5, Zenon DEF Inserted, d
  <2> QED
    BY <2>2, <2>6, Zenon
<1> QED
  BY <1>3, <1>4, Zenon

-----------------------------------------------------------------------------
(* The age of the buffers *)

\* The step changes nothing that Numbered is about, but may freeze buffers.
AgesKept ==
    /\ UNCHANGED <<switch, table, pipelined, making, pending>>
    /\ Len(l0') = Len(l0) /\ Len(jobs') = Len(jobs) /\ Len(tables') = Len(tables)
    /\ \A n \in 1..Len(jobs) : jobs'[n].table = jobs[n].table /\ jobs'[n].epoch = jobs[n].epoch
    /\ \A t \in 1..Len(tables) : tables[t].frozen = TRUE => tables'[t].frozen = TRUE
    /\ \A w \in Writers : wpc'[w] = "switch" <=> wpc[w] = "switch"
    /\ \A w \in Writers : wpc[w] = "switch" => wepoch'[w] = wepoch[w]

\* Such a step keeps the numbering.
LEMMA AgesKeptNumbered ==
    ASSUME Inv, Numbered, AgesKept
    PROVE Numbered'
<1>1. (Len(l0) + 1)..Len(jobs) \subseteq 1..Len(jobs) /\ 1..(table - 1) \subseteq 1..Len(tables)
  BY Indices
<1>2. /\ \A t \in 1..(table - 1) : tables'[t].frozen = TRUE
      /\ \A n \in 1..Len(jobs) : jobs'[n].table = n
  BY <1>1, Zenon DEF Numbered, AgesKept
<1>3. \A n \in (Len(l0) + 1)..Len(jobs) : jobs'[n].epoch = jobs[n].epoch
  BY <1>1, Zenon DEF AgesKept
<1>4. ASSUME NEW e \in pending
      PROVE \/ \E n \in (Len(l0) + 1)..Len(jobs) : e = <<jobs'[n].epoch, n>>
            \/ \E w \in Writers : wpc'[w] = "switch" /\ e = <<wepoch'[w], Len(jobs) + 1>>
  BY <1>3, ZenonT(60) DEF Numbered, AgesKept
<1>5. /\ UNCHANGED <<switch, table, pipelined, making, pending>>
      /\ Len(l0') = Len(l0) /\ Len(jobs') = Len(jobs) /\ Len(tables') = Len(tables)
  BY Zenon DEF AgesKept
<1>6. ASSUME NEW w \in Writers, wpc'[w] = "switch"
      PROVE /\ table = Len(jobs) + 2 /\ pipelined = None /\ making = FALSE
            /\ <<wepoch'[w], Len(jobs) + 1>> \in pending
  <2>1. wpc[w] = "switch" /\ wepoch'[w] = wepoch[w]
    BY <1>6, Zenon DEF AgesKept
  <2> QED
    BY <2>1, Zenon DEF Numbered
<1>7. (\A w \in Writers : wpc'[w] # "switch") => table = Len(jobs) + 1
  BY Zenon DEF Numbered, AgesKept
<1>8. \A n \in (Len(l0) + 1)..Len(jobs) : <<jobs'[n].epoch, n>> \in pending
  BY <1>3, Zenon DEF Numbered
<1>9. /\ switch = Len(jobs) /\ (pipelined = None => Len(tables) = table)
      /\ pipelined # None => pipelined = table + 1 /\ Len(tables) = table + 1 /\ making = FALSE
  BY Zenon DEF Numbered
<1> QED
  BY <1>2, <1>4, <1>5, <1>6, <1>7, <1>8, <1>9, ZenonT(60) DEF Numbered

\* The exchange of the buffers.
LEMMA SwapNumbered ==
    ASSUME Inv, Numbered, NEW w \in Writers, Swap(w)
    PROVE Numbered'
<1>1. /\ UNCHANGED <<tables, switch, making, jobs, l0, wepoch>>
      /\ pending' = pending \cup {<<wepoch[w], table>>}
      /\ table' = pipelined /\ pipelined # None /\ pipelined' = None
      /\ wpc[w] = "swap"
  BY Zenon DEF Swap
<1>2. /\ wpc'[w] = "switch" /\ \A v \in Writers : v # w => wpc'[v] = wpc[v]
  BY Zenon DEF Swap, Goto, Inv, Gate, Shape
<1>3. \A v \in Writers : wpc[v] # "switch"
  BY <1>1, OneSwitches, Zenon DEF InMutex
<1>4. /\ table = Len(jobs) + 1 /\ table' = Len(jobs) + 2 /\ Len(tables) = table' /\ making = FALSE
      /\ Len(jobs) \in Nat
  BY <1>1, <1>3, Indices DEF Numbered
<1>5. tables[table].frozen = TRUE
  BY <1>1, Zenon DEF Inv, Gate, FlusherFroze
<1>6. \A t \in 1..(table' - 1) : t \in 1..(table - 1) \/ t = table
  BY <1>4
<1>7. \A t \in 1..(table' - 1) : tables'[t].frozen = TRUE
  BY <1>1, <1>5, <1>6, Zenon DEF Numbered
<1>8. \A v \in Writers : wpc'[v] = "switch" => v = w
  BY <1>2, <1>3, Zenon
<1>9. /\ \A n \in (Len(l0) + 1)..Len(jobs) : <<jobs[n].epoch, n>> \in pending'
      /\ <<wepoch[w], Len(jobs) + 1>> \in pending'
  BY <1>1, <1>4, Zenon DEF Numbered
<1>10. ASSUME NEW e \in pending'
       PROVE \/ \E n \in (Len(l0) + 1)..Len(jobs) : e = <<jobs[n].epoch, n>>
             \/ e = <<wepoch[w], Len(jobs) + 1>>
  BY <1>1, <1>3, <1>4, Zenon DEF Numbered
<1> QED
  BY <1>1, <1>2, <1>4, <1>7, <1>8, <1>9, <1>10 DEF Numbered

\* The start of the job.
LEMMA LaunchNumbered ==
    ASSUME Inv, Numbered, NEW w \in Writers, Launch(w)
    PROVE /\ Numbered' /\ Len(jobs') = Len(jobs) + 1
          /\ \A n \in 1..Len(jobs) : jobs'[n] = jobs[n]
          /\ jobs'[Len(jobs) + 1].pc = "drain"
<1> DEFINE k == Len(jobs)
<1>1. /\ UNCHANGED <<tables, table, pipelined, l0, pending, wepoch>>
      /\ wpc[w] = "switch" /\ switch' = switch + 1
  BY Zenon DEF Launch
<1>2. \A v \in Writers : wpc'[v] # "switch"
  BY <1>1, OneSwitches, Zenon DEF Launch, Goto, Inv, Gate, Shape, InMutex
<1>3. PICK e \in pending :
         /\ e[1] = wepoch[w]
         /\ jobs' = Append(jobs, [epoch |-> e[1], table |-> e[2], pc |-> "drain", sst |-> None])
  BY Zenon DEF Launch
<1>4. e = <<wepoch[w], k + 1>>
  <2>1. CASE \E n \in (Len(l0) + 1)..k : e = <<jobs[n].epoch, n>>
    <3>1. PICK n \in (Len(l0) + 1)..k : e = <<jobs[n].epoch, n>>
      BY <2>1, Zenon
    <3>2. n \in 1..k
      BY Indices
    <3>3. jobs[n].epoch < wepoch[w] /\ jobs[n].epoch = wepoch[w] /\ wepoch[w] \in Nat
      BY <1>1, <1>3, <3>1, <3>2, Zenon DEF Inv, Chain, JobsInOrder, Flushing, Gate, Shape
    <3> QED
      BY <3>3
  <2>2. CASE \E v \in Writers : wpc[v] = "switch" /\ e = <<wepoch[v], k + 1>>
    BY <1>1, <2>2, OneSwitches, Zenon DEF InMutex
  <2> QED
    BY <2>1, <2>2, Zenon DEF Numbered
<1> DEFINE new == [epoch |-> e[1], table |-> e[2], pc |-> "drain", sst |-> None]
<1>5. jobs' = Append(jobs, new) /\ new.epoch = wepoch[w] /\ new.table = k + 1 /\ new.pc = "drain"
  BY <1>3, <1>4, Zenon
<1> HIDE DEF new
<1>6. /\ Len(jobs') = k + 1 /\ jobs'[k + 1] = new
      /\ \A n \in 1..k : jobs'[n] = jobs[n]
  BY <1>5, JobsShape, AppendIsSeq
<1>7. k \in Nat /\ Len(l0) \in Nat /\ Len(l0) <= k
  BY Indices, Zenon
<1>8. /\ switch = k /\ table = k + 2 /\ pipelined = None /\ Len(tables) = table
      /\ <<wepoch[w], k + 1>> \in pending
  BY <1>1, Zenon DEF Numbered
<1> HIDE DEF k
<1>9. /\ \A n \in 1..(k + 1) : n \in 1..k \/ n = k + 1
      /\ \A n \in (Len(l0) + 1)..(k + 1) : n \in (Len(l0) + 1)..k \/ n = k + 1
      /\ (Len(l0) + 1)..k \subseteq 1..k
      /\ (Len(l0) + 1)..k \subseteq (Len(l0) + 1)..(k + 1) /\ k + 1 \in (Len(l0) + 1)..(k + 1)
      /\ switch + 1 = k + 1 /\ k + 2 = (k + 1) + 1
  BY <1>7, <1>8
<1>10. \A n \in 1..(k + 1) : jobs'[n].table = n
  BY <1>5, <1>6, <1>9 DEF Numbered, k
<1>11. \A n \in (Len(l0) + 1)..(k + 1) : <<jobs'[n].epoch, n>> \in pending
  BY <1>5, <1>6, <1>8, <1>9, SMTT(30) DEF Numbered, k
<1>12. ASSUME NEW f \in pending
       PROVE \E n \in (Len(l0) + 1)..(k + 1) : f = <<jobs'[n].epoch, n>>
  <2>1. CASE \E n \in (Len(l0) + 1)..k : f = <<jobs[n].epoch, n>>
    BY <1>6, <1>9, <2>1, Zenon
  <2>2. CASE \E v \in Writers : wpc[v] = "switch" /\ f = <<wepoch[v], k + 1>>
    <3>1. f = <<wepoch[w], k + 1>>
      BY <1>1, <2>2, OneSwitches, Zenon DEF InMutex
    <3> QED
      BY <1>5, <1>6, <1>9, <3>1, Zenon
  <2> QED
    BY <2>1, <2>2, Zenon DEF Numbered, k
<1>13. Numbered'
  BY <1>1, <1>2, <1>6, <1>8, <1>9, <1>10, <1>11, <1>12 DEF Numbered
<1> QED
  BY <1>5, <1>6, <1>13, Zenon DEF k

\* A new pipelined buffer.
LEMMA MakeNumbered ==
    ASSUME Inv, Numbered, MakePipelined
    PROVE Numbered'
<1>1. /\ UNCHANGED <<table, switch, pending, jobs, l0, wpc, wepoch>>
      /\ making /\ making' = FALSE /\ pipelined' = Len(tables) + 1
  BY Zenon DEF MakePipelined, putVars
<1>2. /\ Len(tables') = Len(tables) + 1
      /\ \A t \in 1..Len(tables) : tables'[t] = tables[t]
  BY MakeKeeps, Zenon
<1>3. pipelined = None /\ Len(tables) = table /\ \A w \in Writers : wpc[w] # "switch"
  BY <1>1, Zenon DEF Numbered
<1>4. 1..(table - 1) \subseteq 1..Len(tables) /\ pipelined' # None
  BY <1>1, Indices DEF None
<1>5. \A t \in 1..(table - 1) : tables'[t].frozen = TRUE
  BY <1>2, <1>4, Zenon DEF Numbered
<1> QED
  BY <1>1, <1>2, <1>3, <1>4, <1>5, Zenon DEF Numbered

\* A publication takes the oldest pending buffer off the map.
LEMMA PublishNumbered ==
    ASSUME Inv, Numbered, NEW n \in DOMAIN jobs, Publish(n)
    PROVE /\ Numbered' /\ n = Len(l0) + 1 /\ Len(l0') = n
          /\ \A i \in 1..Len(l0) : l0'[i] = l0[i]
          /\ l0'[n].version = jobs[n].sst
<1> DEFINE k == Len(l0)
<1>1. /\ UNCHANGED <<tables, table, switch, pipelined, making, wpc, wepoch>>
      /\ pending' = {e \in pending : e[1] # jobs[n].epoch}
  BY Zenon DEF Publish, putVars
<1>2. n = k + 1 /\ k \in Nat /\ n \in 1..Len(jobs) /\ Len(jobs) \in Nat
  BY Indices, Zenon DEF Publish, Inv, Chain, PublishedInOrder
<1> DEFINE new == [epoch |-> jobs[n].epoch, version |-> jobs[n].sst]
<1>3. l0' = Append(l0, new) /\ new.version = jobs[n].sst
  BY Zenon DEF Publish
<1> HIDE DEF new
<1>4. /\ Len(l0') = k + 1 /\ \A i \in 1..k : l0'[i] = l0[i]
      /\ l0'[k + 1] = new
  BY <1>3, JobsShape, AppendIsSeq
<1>5. /\ Len(jobs') = Len(jobs)
      /\ \A i \in 1..Len(jobs) : jobs'[i].epoch = jobs[i].epoch /\ jobs'[i].table = jobs[i].table
  <2>1. IsJobUpdate(jobs, jobs', n, "persist")
    BY Zenon DEF Publish, JobGoto, IsJobUpdate
  <2>2. JobMoved(jobs, jobs', n, "persist")
    BY <1>2, <2>1, JobsShape, MoveJob, Zenon
  <2> QED
    BY <2>2, Zenon DEF JobMoved
<1> HIDE DEF k
<1>6. /\ \A m \in (n + 1)..Len(jobs) : m \in 1..Len(jobs) /\ n < m /\ m \in (k + 1)..Len(jobs)
      /\ \A m \in (k + 1)..Len(jobs) : m \in (n + 1)..Len(jobs) \/ m = n
  BY <1>2
<1>7. /\ \A i \in 1..Len(jobs) : jobs[i].epoch \in Nat
      /\ \A i, j \in 1..Len(jobs) : i < j => jobs[i].epoch < jobs[j].epoch
      /\ \A w \in Writers : wpc[w] = "switch" => jobs[n].epoch < wepoch[w] /\ wepoch[w] \in Nat
  BY <1>2, Zenon DEF Inv, Gate, Shape, Chain, JobsInOrder, Flushing
<1>8. /\ \A m \in (n + 1)..Len(jobs) : jobs[m].epoch # jobs[n].epoch
      /\ \A w \in Writers : wpc[w] = "switch" => jobs[n].epoch # wepoch[w]
  BY <1>2, <1>6, <1>7, SMTT(30)
<1>9. /\ \A m \in (n + 1)..Len(jobs) : <<jobs'[m].epoch, m>> \in pending'
      /\ \A w \in Writers : wpc[w] = "switch" => <<wepoch[w], Len(jobs) + 1>> \in pending'
  BY <1>1, <1>5, <1>6, <1>8, ZenonT(60) DEF Numbered, k
<1>10. ASSUME NEW e \in pending'
       PROVE \/ \E m \in (n + 1)..Len(jobs) : e = <<jobs'[m].epoch, m>>
             \/ \E w \in Writers : wpc[w] = "switch" /\ e = <<wepoch[w], Len(jobs) + 1>>
  <2>1. e \in pending /\ e[1] # jobs[n].epoch
    BY <1>1, Zenon
  <2>2. CASE \E m \in (k + 1)..Len(jobs) : e = <<jobs[m].epoch, m>>
    <3>1. PICK m \in (k + 1)..Len(jobs) : e = <<jobs[m].epoch, m>>
      BY <2>2, Zenon
    <3>2. m \in (n + 1)..Len(jobs)
      BY <1>6, <2>1, <3>1, Zenon
    <3> QED
      BY <1>5, <1>6, <3>1, <3>2, Zenon
  <2> QED
    BY <2>1, <2>2, ZenonT(60) DEF Numbered, k
<1>11. Numbered'
  <2>1. /\ \A m \in 1..Len(jobs) : jobs'[m].table = m
        /\ \A t \in 1..(table - 1) : tables[t].frozen = TRUE
        /\ \A w \in Writers : wpc[w] = "switch" =>
              table = Len(jobs) + 2 /\ pipelined = None /\ making = FALSE
        /\ (\A w \in Writers : wpc[w] # "switch") => table = Len(jobs) + 1
        /\ switch = Len(jobs) /\ (pipelined = None => Len(tables) = table)
        /\ pipelined # None => pipelined = table + 1 /\ Len(tables) = table + 1 /\ making = FALSE
    BY <1>5, ZenonT(60) DEF Numbered
  <2>2. Len(l0') = n
    BY <1>2, <1>4, Zenon
  <2>3. /\ switch' = Len(jobs') /\ \A m \in 1..Len(jobs') : jobs'[m].table = m
        /\ \A t \in 1..(table' - 1) : tables'[t].frozen = TRUE
        /\ (\A w \in Writers : wpc'[w] # "switch") => table' = Len(jobs') + 1
        /\ pipelined' = None => Len(tables') = table'
        /\ pipelined' # None => /\ pipelined' = table' + 1 /\ Len(tables') = table' + 1
                               /\ making' = FALSE
    BY <1>1, <1>5, <2>1, Zenon
  <2>4. /\ \A m \in (Len(l0') + 1)..Len(jobs') : <<jobs'[m].epoch, m>> \in pending'
        /\ \A w \in Writers : wpc'[w] = "switch" =>
              /\ table' = Len(jobs') + 2 /\ pipelined' = None /\ making' = FALSE
              /\ <<wepoch'[w], Len(jobs') + 1>> \in pending'
    BY <1>1, <1>5, <1>9, <2>1, <2>2, Zenon
  <2>5. \A e \in pending' :
           \/ \E m \in (Len(l0') + 1)..Len(jobs') : e = <<jobs'[m].epoch, m>>
           \/ \E w \in Writers : wpc'[w] = "switch" /\ e = <<wepoch'[w], Len(jobs') + 1>>
    BY <1>1, <1>5, <1>10, <2>2
  <2> QED
    BY <2>3, <2>4, <2>5, Zenon DEF Numbered
<1> QED
  BY <1>2, <1>3, <1>4, <1>11, Zenon DEF k

-----------------------------------------------------------------------------
(* The SSTs *)

\* The buffer of a job past its drain keeps its latest version.
LEMMA NewestKept ==
    ASSUME Inv, Numbered, [Next]_vars, NEW n \in 1..Len(jobs), jobs[n].pc # "drain"
    PROVE Newest(n)' = Newest(n)
<1>1. jobs[n].table = n
  BY Zenon DEF Numbered
<1>2. tables'[n].content = tables[n].content
  BY <1>1, StepKeepsDrained, Indices, Zenon
<1> QED
  BY <1>2, Zenon DEF Newest

\* A step that moves no job.
LEMMA SstsKept ==
    ASSUME Inv, Numbered, SstsAreBuffers, [Next]_vars, UNCHANGED <<jobs, l0>>
    PROVE SstsAreBuffers'
<1>1. \A n \in 1..Len(jobs) : jobs[n].pc # "drain" => Newest(n)' = Newest(n)
  BY NewestKept, Zenon
<1> QED
  BY <1>1, Indices, Zenon DEF SstsAreBuffers

\* The start of a job: it has no SST yet.
LEMMA LaunchSsts ==
    ASSUME Inv, Numbered, SstsAreBuffers, [Next]_vars, NEW w \in Writers, Launch(w)
    PROVE SstsAreBuffers'
<1>1. /\ Len(jobs') = Len(jobs) + 1
      /\ \A n \in 1..Len(jobs) : jobs'[n] = jobs[n]
      /\ jobs'[Len(jobs) + 1].pc = "drain"
      /\ l0' = l0
  BY LaunchNumbered, Zenon DEF Launch
<1>2. \A n \in 1..Len(jobs) : jobs[n].pc # "drain" => Newest(n)' = Newest(n)
  BY NewestKept, Zenon
<1>3. \A n \in 1..(Len(jobs) + 1) : n \in 1..Len(jobs) \/ n = Len(jobs) + 1
  BY Indices
<1> QED
  BY <1>1, <1>2, <1>3, Indices, ZenonT(60) DEF SstsAreBuffers

\* The jobs after the step of one of them.
LEMMA OneJobMoves ==
    ASSUME Inv, NEW n \in 1..Len(jobs), NEW at, IsJobUpdate(jobs, jobs', n, at)
    PROVE /\ Len(jobs') = Len(jobs) /\ jobs'[n].pc = at
          /\ \A i \in 1..Len(jobs) : i # n => jobs'[i] = jobs[i]
<1>1. IsSeq(jobs) /\ \A i \in 1..Len(jobs) : DOMAIN jobs[i] = JobFields
  BY JobsShape, Zenon
<1>2. JobMoved(jobs, jobs', n, at)
  BY <1>1, MoveJob, Zenon
<1>3. \A i \in 1..Len(jobs) : i # n => jobs'[i] = jobs[i]
  BY Indices, ZenonT(60) DEF IsJobUpdate
<1> QED
  BY <1>2, <1>3, Zenon DEF JobMoved

\* A step of a job that adds nothing to L0.
LEMMA OneJobSsts ==
    ASSUME Inv, Numbered, SstsAreBuffers, [Next]_vars, NEW n \in 1..Len(jobs), l0' = l0,
           Len(jobs') = Len(jobs), \A i \in 1..Len(jobs) : i # n => jobs'[i] = jobs[i],
           jobs'[n].pc \in {"publish", "persist", "reset", "done"} =>
              jobs[n].pc # "drain" /\ jobs'[n].sst = Newest(n),
           n \in 1..Len(l0) => jobs'[n].pc \in {"persist", "reset", "done"}
    PROVE SstsAreBuffers'
<1>1. \A m \in 1..Len(jobs) : jobs[m].pc # "drain" => Newest(m)' = Newest(m)
  BY NewestKept, Zenon
<1>2. 1..Len(l0) \subseteq 1..Len(jobs)
  BY Indices, Zenon
<1>3. ASSUME NEW i \in 1..Len(jobs), jobs'[i].pc \in {"publish", "persist", "reset", "done"}
      PROVE jobs'[i].sst = Newest(i)'
  BY <1>1, <1>3, ZenonT(60) DEF SstsAreBuffers
<1>4. ASSUME NEW i \in 1..Len(l0)
      PROVE jobs'[i].pc \in {"persist", "reset", "done"} /\ l0[i].version = Newest(i)'
  BY <1>1, <1>2, <1>4, ZenonT(60) DEF SstsAreBuffers
<1> QED
  BY <1>3, <1>4, Zenon DEF SstsAreBuffers

\* The steps of a job: it writes what its buffer holds, and L0 gets that.
LEMMA JobSsts ==
    ASSUME Inv, Numbered, SstsAreBuffers, [Next]_vars, NEW n \in DOMAIN jobs,
           JobStep(n) \/ WriteFails(n)
    PROVE SstsAreBuffers'
<1>2. n \in 1..Len(jobs) /\ 1..Len(l0) \subseteq 1..Len(jobs) /\ Len(l0) \in Nat /\ n \in Nat
  BY Indices
<1>3. n \in DOMAIN jobs /\ DOMAIN jobs[n] = JobFields
  BY <1>2, JobsShape, Zenon
<1>5. CASE Drain(n) \/ WriteFails(n)
  <2>1. PICK at \in {"write", "failed"} : jobs' = [jobs EXCEPT ![n].pc = at]
    BY <1>5, Zenon DEF Drain, WriteFails, JobGoto
  <2>2. /\ Len(jobs') = Len(jobs) /\ jobs'[n].pc = at
        /\ \A i \in 1..Len(jobs) : i # n => jobs'[i] = jobs[i]
    BY <1>2, <2>1, OneJobMoves, ZenonT(60) DEF IsJobUpdate
  <2>3. jobs[n].pc \in {"drain", "write"} /\ l0' = l0
    BY <1>5, Zenon DEF Drain, WriteFails, JobAt
  <2>4. n \notin 1..Len(l0)
    BY <2>3, Zenon DEF SstsAreBuffers
  <2>5. jobs'[n].pc \notin {"publish", "persist", "reset", "done"}
    BY <2>2, Zenon
  <2> QED
    BY <1>2, <2>2, <2>3, <2>4, <2>5, OneJobSsts, Zenon
<1>6. CASE Write(n)
  <2>1. jobs' = [jobs EXCEPT ![n].pc = "publish", ![n].sst = Newest(jobs[n].table)]
    BY <1>6, Zenon DEF Write
  <2>2. /\ Len(jobs') = Len(jobs) /\ jobs'[n].pc = "publish"
        /\ \A i \in 1..Len(jobs) : i # n => jobs'[i] = jobs[i]
    <3>1. IsJobUpdate(jobs, jobs', n, "publish")
      BY <2>1, ZenonT(60) DEF IsJobUpdate
    <3> QED
      BY <1>2, <3>1, OneJobMoves, Zenon
  <2>3. jobs[n].pc = "write" /\ l0' = l0 /\ jobs[n].table = n
    BY <1>2, <1>6, Zenon DEF Write, JobAt, Numbered
  <2>4. n \notin 1..Len(l0)
    BY <2>3, Zenon DEF SstsAreBuffers
  <2>5. jobs'[n].sst = Newest(n)
    BY <1>3, <2>1, <2>3, Zenon DEF JobFields
  <2> QED
    BY <1>2, <2>2, <2>3, <2>4, <2>5, OneJobSsts, Zenon
<1>7. CASE ReleaseSlot(n) \/ ResetWal(n)
  <2>1. PICK at \in {"reset", "done"} : jobs' = [jobs EXCEPT ![n].pc = at]
    BY <1>7, Zenon DEF ReleaseSlot, ResetWal, JobGoto
  <2>2. /\ Len(jobs') = Len(jobs) /\ jobs'[n].pc = at
        /\ \A i \in 1..Len(jobs) : i # n => jobs'[i] = jobs[i]
    BY <1>2, <2>1, OneJobMoves, ZenonT(60) DEF IsJobUpdate
  <2>3. jobs[n].pc \in {"persist", "reset"} /\ l0' = l0
    BY <1>7, Zenon DEF ReleaseSlot, ResetWal, JobAt
  <2>4. jobs'[n].sst = jobs[n].sst
    BY <1>3, <2>1, Zenon DEF JobFields
  <2>5. jobs[n].sst = Newest(n) /\ jobs[n].pc # "drain"
    BY <1>2, <2>3, Zenon DEF SstsAreBuffers
  <2>6. jobs'[n].pc \in {"persist", "reset", "done"}
    BY <2>2, Zenon
  <2> QED
    BY <1>2, <2>2, <2>3, <2>4, <2>5, <2>6, OneJobSsts, Zenon
<1>8. CASE Publish(n)
  <2>1. jobs' = [jobs EXCEPT ![n].pc = "persist"] /\ jobs[n].pc = "publish"
    BY <1>8, Zenon DEF Publish, JobGoto, JobAt
  <2>2. /\ Len(jobs') = Len(jobs) /\ jobs'[n].pc = "persist"
        /\ \A i \in 1..Len(jobs) : i # n => jobs'[i] = jobs[i]
    BY <1>2, <2>1, OneJobMoves, ZenonT(60) DEF IsJobUpdate
  <2>3. /\ n = Len(l0) + 1 /\ Len(l0') = n
        /\ \A i \in 1..Len(l0) : l0'[i] = l0[i]
        /\ l0'[n].version = jobs[n].sst
    BY <1>8, PublishNumbered, Zenon
  <2>4. jobs'[n].sst = jobs[n].sst
    BY <1>3, <2>1, Zenon DEF JobFields
  <2>5. \A i \in 1..n : i \in 1..Len(l0) \/ i = n
    BY <1>2, <2>3
  <2>6. \A i \in 1..Len(l0) : i # n /\ i \in 1..Len(jobs)
    BY <1>2, <2>3
  <2>7. \A m \in 1..Len(jobs) : jobs[m].pc # "drain" => Newest(m)' = Newest(m)
    BY NewestKept, Zenon
  <2>8. jobs[n].sst = Newest(n) /\ Newest(n)' = Newest(n)
    BY <1>2, <2>1, <2>7, Zenon DEF SstsAreBuffers
  <2>9. ASSUME NEW i \in 1..Len(l0')
        PROVE jobs'[i].pc \in {"persist", "reset", "done"} /\ l0'[i].version = Newest(i)'
    <3>1. CASE i = n
      BY <2>2, <2>3, <2>8, <3>1, Zenon
    <3>2. CASE i \in 1..Len(l0)
      <4>1. jobs[i].pc \in {"persist", "reset", "done"} /\ l0[i].version = Newest(i)
        BY <3>2, Zenon DEF SstsAreBuffers
      <4> QED
        BY <2>2, <2>3, <2>6, <2>7, <3>2, <4>1, Zenon
    <3> QED
      BY <2>3, <2>5, <2>9, <3>1, <3>2, Zenon
  <2>10. ASSUME NEW i \in 1..Len(jobs), jobs'[i].pc \in {"publish", "persist", "reset", "done"}
         PROVE jobs'[i].sst = Newest(i)'
    <3>1. CASE i = n
      BY <2>4, <2>8, <3>1, Zenon
    <3>2. CASE i # n
      BY <2>2, <2>7, <2>10, <3>2, ZenonT(60) DEF SstsAreBuffers
    <3> QED
      BY <3>1, <3>2, Zenon
  <2> QED
    BY <2>2, <2>9, <2>10, Zenon DEF SstsAreBuffers
<1> QED
  BY <1>5, <1>6, <1>7, <1>8, Zenon DEF JobStep

-----------------------------------------------------------------------------
(* The puts and the places of their versions *)

\* Puts in progress are distinct and not acknowledged; buffers hold only puts
\* that were started, and only buffers that were current hold any.
PutsShape ==
    /\ puts \in Nat /\ IsSeq(before) /\ Len(before) = puts
    /\ acked \subseteq 1..puts /\ \A p \in 1..puts : before[p] \subseteq acked
    /\ DOMAIN put = Writers
    /\ \A w \in Writers : wpc[w] # "idle" => put[w] \in 1..puts /\ put[w] \notin acked
    /\ \A v, w \in Writers : v # w /\ wpc[v] # "idle" /\ wpc[w] # "idle" => put[v] # put[w]
    /\ \A w \in Writers : local[w] <= table
    /\ \A t \in 1..Len(tables) : HasNewest(tables[t].content) /\ Elements(t) \subseteq 1..puts
    /\ \A t \in 1..Len(tables) : t > table => Elements(t) = {}

\* Where the versions are: an acknowledged put is in a buffer; a writer inside a
\* buffer is in the same one or a later one than what its put must be newer than;
\* the latest version of a buffer is older than a put only if it is in an earlier one.
VersionsByAge ==
    /\ \A p \in acked : \E t \in 1..Len(tables) : p \in Elements(t)
    /\ \A w \in Writers : wpc[w] = "log" => put[w] \in Elements(local[w])
    /\ \A w \in Writers : wpc[w] \notin {"idle", "acquire"} =>
          \A t \in 1..Len(tables) : Elements(t) \cap before[put[w]] # {} => t <= local[w]
    /\ \A t, u \in 1..Len(tables) : \A p \in Elements(t) :
          Newest(u) # None /\ Newest(u) \in before[p] => u < t

\* Contents that are kept have the same elements and the same latest version.
LEMMA KeptElements ==
    ASSUME ContentsKept
    PROVE /\ \A t \in 1..Len(tables) : Elements(t)' = Elements(t) /\ Newest(t)' = Newest(t)
          /\ \A t \in 1..Len(tables') : t \notin 1..Len(tables) =>
                Elements(t)' = {} /\ Newest(t)' = None
<1>1. \A t \in 1..Len(tables) : Elements(t)' = Elements(t) /\ Newest(t)' = Newest(t)
  BY Zenon DEF ContentsKept, Elements, Newest
<1>2. NoContent.versions = {} /\ NoContent.newest = None
  BY Zenon DEF NoContent
<1>3. \A t \in 1..Len(tables') : t \notin 1..Len(tables) => Elements(t)' = {} /\ Newest(t)' = None
  BY <1>2, Zenon DEF ContentsKept, Elements, Newest
<1> QED
  BY <1>1, <1>3, Zenon

\* A step that starts and ends no put and inserts nothing; a writer that enters a
\* buffer enters the current one.
QuietStep ==
    /\ ContentsKept
    /\ UNCHANGED <<puts, before, acked, put, local>>
    /\ table' \in Nat /\ table <= table'
    /\ \A w \in Writers : wpc'[w] = "idle" <=> wpc[w] = "idle"
    /\ \A w \in Writers : wpc'[w] = "log" => wpc[w] = "log"
    /\ \A w \in Writers : wpc'[w] \notin {"idle", "acquire"} =>
          wpc[w] \notin {"idle", "acquire"} \/ (wpc[w] = "acquire" /\ local[w] = table)

\* Such a step keeps what is known of puts and versions.
LEMMA QuietPuts ==
    ASSUME Inv, PutsShape, VersionsByAge, QuietStep
    PROVE PutsShape' /\ VersionsByAge'
<1>1. /\ UNCHANGED <<puts, before, acked, put, local>> /\ table \in Nat /\ table' \in Nat
      /\ table <= table' /\ Len(tables) \in Nat /\ Len(tables') \in Nat
      /\ 1..Len(tables) \subseteq 1..Len(tables')
      /\ \A w \in Writers : local[w] \in 1..Len(tables)
  BY Indices DEF QuietStep, ContentsKept
<1>2. /\ \A t \in 1..Len(tables) : Elements(t)' = Elements(t) /\ Newest(t)' = Newest(t)
      /\ \A t \in 1..Len(tables') : t \notin 1..Len(tables) =>
            Elements(t)' = {} /\ Newest(t)' = None
  BY KeptElements, Zenon DEF QuietStep
<1>3. \A t \in 1..Len(tables') : HasNewest(tables'[t].content)
  <2>1. HasNewest(NoContent)
    BY Zenon DEF HasNewest, NoContent
  <2> QED
    BY <2>1, ZenonT(60) DEF QuietStep, ContentsKept, PutsShape
<1>4. PutsShape'
  <2>1. \A t \in 1..Len(tables') : Elements(t)' \subseteq 1..puts
    BY <1>2, Zenon DEF PutsShape
  <2>2. \A t \in 1..Len(tables') : t > table' => Elements(t)' = {}
    <3>1. \A t \in 1..Len(tables') : t > table' => t > table
      BY <1>1
    <3> QED
      BY <1>2, <3>1, Zenon DEF PutsShape
  <2>3. \A w \in Writers : local[w] <= table'
    BY <1>1 DEF PutsShape
  <2> QED
    BY <1>1, <1>3, <2>1, <2>2, <2>3, SMTT(30) DEF PutsShape, QuietStep
<1>5. \A p \in acked : \E t \in 1..Len(tables') : p \in Elements(t)'
  BY <1>1, <1>2, Zenon DEF VersionsByAge
<1>6. \A w \in Writers : wpc'[w] = "log" => put[w] \in Elements(local[w])'
  BY <1>1, <1>2, Zenon DEF VersionsByAge, QuietStep
<1>7. ASSUME NEW w \in Writers, wpc'[w] \notin {"idle", "acquire"},
             NEW t \in 1..Len(tables'), Elements(t)' \cap before[put[w]] # {}
      PROVE t <= local[w]
  <2>1. t \in 1..Len(tables) /\ Elements(t) \cap before[put[w]] # {}
    BY <1>2, <1>7, Zenon
  <2>2. CASE wpc[w] \notin {"idle", "acquire"}
    BY <2>1, <2>2, Zenon DEF VersionsByAge
  <2>3. CASE local[w] = table
    <3>1. ~(t > table)
      BY <2>1, Zenon DEF PutsShape
    <3> QED
      BY <1>1, <2>1, <2>3, <3>1
  <2> QED
    BY <1>7, <2>2, <2>3, Zenon DEF QuietStep
<1>8. ASSUME NEW t \in 1..Len(tables'), NEW u \in 1..Len(tables'), NEW p \in Elements(t)',
             Newest(u)' # None, Newest(u)' \in before[p]
      PROVE u < t
  <2>1. t \in 1..Len(tables) /\ u \in 1..Len(tables)
    BY <1>2, <1>8, Zenon
  <2> QED
    BY <1>2, <1>8, <2>1, Zenon DEF VersionsByAge
<1>9. VersionsByAge'
  BY <1>1, <1>5, <1>6, <1>7, <1>8, Zenon DEF VersionsByAge
<1> QED
  BY <1>4, <1>9, Zenon

\* A put that starts.
LEMMA PutPuts ==
    ASSUME Inv, PutsShape, VersionsByAge, NEW w \in Writers, Put(w)
    PROVE PutsShape' /\ VersionsByAge' /\ \A p \in 1..puts : before'[p] = before[p]
<1>1. /\ UNCHANGED <<tables, table, local, acked>> /\ puts' = puts + 1
      /\ put' = [put EXCEPT ![w] = puts + 1] /\ before' = Append(before, acked)
      /\ wpc[w] = "idle"
  BY Zenon DEF Put, flushVars
<1>2. /\ wpc'[w] = "acquire" /\ put'[w] = puts + 1 /\ DOMAIN put' = Writers
      /\ \A v \in Writers : v # w => wpc'[v] = wpc[v] /\ put'[v] = put[v]
  BY <1>1, Zenon DEF Put, Goto, Inv, Gate, Shape, PutsShape
<1>3. puts \in Nat /\ IsSeq(before) /\ Len(before) = puts
  BY ZenonT(60) DEF PutsShape
<1>4. /\ IsSeq(before') /\ Len(before') = puts + 1
      /\ \A p \in 1..puts : before'[p] = before[p]
      /\ before'[puts + 1] = acked
  BY <1>1, <1>3, AppendIsSeq
<1>5. /\ \A p \in 1..(puts + 1) : p \in 1..puts \/ p = puts + 1
      /\ 1..puts \subseteq 1..(puts + 1) /\ puts + 1 \in 1..(puts + 1) /\ puts + 1 \notin 1..puts
      /\ puts + 1 \in Nat
  BY <1>3
<1>6. \A t : Elements(t)' = Elements(t) /\ Newest(t)' = Newest(t)
  BY <1>1, Zenon DEF Elements, Newest
<1>7. /\ acked \subseteq 1..puts /\ \A p \in 1..puts : before[p] \subseteq acked
      /\ \A t \in 1..Len(tables) : HasNewest(tables[t].content) /\ Elements(t) \subseteq 1..puts
      /\ \A t \in 1..Len(tables) : t > table => Elements(t) = {}
      /\ \A v \in Writers : local[v] <= table
      /\ \A v \in Writers : wpc[v] # "idle" => put[v] \in 1..puts /\ put[v] \notin acked
      /\ \A u, v \in Writers : u # v /\ wpc[u] # "idle" /\ wpc[v] # "idle" => put[u] # put[v]
  BY Zenon DEF PutsShape
<1>8. PutsShape'
  <2>1. acked \subseteq 1..(puts + 1) /\ \A p \in 1..(puts + 1) : before'[p] \subseteq acked
    BY <1>4, <1>5, <1>7, ZenonT(60)
  <2>2. \A v \in Writers : wpc'[v] # "idle" => put'[v] \in 1..(puts + 1) /\ put'[v] \notin acked
    BY <1>2, <1>5, <1>7
  <2>3. \A u, v \in Writers : u # v /\ wpc'[u] # "idle" /\ wpc'[v] # "idle" => put'[u] # put'[v]
    BY <1>2, <1>5, <1>7
  <2>4. \A t \in 1..Len(tables) : HasNewest(tables[t].content) /\ Elements(t) \subseteq 1..(puts + 1)
    BY <1>5, <1>7, Zenon
  <2> QED
    BY <1>1, <1>2, <1>4, <1>5, <1>6, <1>7, <2>1, <2>2, <2>3, <2>4, ZenonT(60) DEF PutsShape
<1>9. VersionsByAge'
  <2>1. \A p \in acked : \E t \in 1..Len(tables) : p \in Elements(t)
    BY ZenonT(60) DEF VersionsByAge
  <2>2. \A v \in Writers : wpc'[v] = "log" => put'[v] \in Elements(local[v])
    BY <1>2, Zenon DEF VersionsByAge
  <2>3. ASSUME NEW v \in Writers, wpc'[v] \notin {"idle", "acquire"},
               NEW t \in 1..Len(tables), Elements(t) \cap before'[put'[v]] # {}
        PROVE t <= local[v]
    <3>1. v # w /\ wpc[v] \notin {"idle", "acquire"} /\ put'[v] = put[v]
      BY <1>2, <2>3, Zenon
    <3>2. before'[put[v]] = before[put[v]]
      BY <1>4, <1>7, <3>1, Zenon
    <3> QED
      BY <2>3, <3>1, <3>2, Zenon DEF VersionsByAge
  <2>4. ASSUME NEW t \in 1..Len(tables), NEW u \in 1..Len(tables), NEW p \in Elements(t),
               Newest(u) # None, Newest(u) \in before'[p]
        PROVE u < t
    <3>1. before'[p] = before[p]
      BY <1>4, <1>7, Zenon
    <3> QED
      BY <2>4, <3>1, Zenon DEF VersionsByAge
  <2> QED
    BY <1>1, <1>6, <2>1, <2>2, <2>3, <2>4, ZenonT(60) DEF VersionsByAge
<1> QED
  BY <1>4, <1>8, <1>9, Zenon

\* A put that returns, with or without success.
LEMMA LogPuts ==
    ASSUME Inv, PutsShape, VersionsByAge, NEW w \in Writers, Log(w) \/ LogFails(w)
    PROVE PutsShape' /\ VersionsByAge'
<1>1. /\ UNCHANGED <<tables, table, local, puts, before>>
      /\ acked' = acked \/ acked' = acked \cup {put[w]}
      /\ put' = [put EXCEPT ![w] = None] /\ wpc[w] = "log"
  BY Zenon DEF Log, LogFails, flushVars
<1>2. /\ wpc'[w] = "idle" /\ DOMAIN put' = Writers
      /\ \A v \in Writers : v # w => wpc'[v] = wpc[v] /\ put'[v] = put[v]
  BY <1>1, Zenon DEF Log, LogFails, Goto, Inv, Gate, Shape, PutsShape
<1>3. \A t : Elements(t)' = Elements(t) /\ Newest(t)' = Newest(t)
  BY <1>1, Zenon DEF Elements, Newest
<1>4. /\ put[w] \in 1..puts /\ put[w] \in Elements(local[w]) /\ local[w] \in 1..Len(tables)
      /\ \A v \in Writers : v # w /\ wpc[v] # "idle" => put[v] # put[w]
  BY <1>1, Indices, Zenon DEF PutsShape, VersionsByAge
<1>5. PutsShape'
  <2>1. acked' \subseteq 1..puts /\ \A p \in 1..puts : before[p] \subseteq acked'
    BY <1>1, <1>4, ZenonT(60) DEF PutsShape
  <2>2. \A v \in Writers : wpc'[v] # "idle" => put'[v] \in 1..puts /\ put'[v] \notin acked'
    BY <1>1, <1>2, <1>4, ZenonT(60) DEF PutsShape
  <2>3. \A u, v \in Writers : u # v /\ wpc'[u] # "idle" /\ wpc'[v] # "idle" => put'[u] # put'[v]
    BY <1>2, ZenonT(60) DEF PutsShape
  <2> QED
    BY <1>1, <1>2, <1>3, <2>1, <2>2, <2>3, ZenonT(60) DEF PutsShape
<1>6. VersionsByAge'
  <2>1. \A p \in acked' : \E t \in 1..Len(tables) : p \in Elements(t)
    BY <1>1, <1>4 DEF VersionsByAge
  <2>2. \A v \in Writers : wpc'[v] = "log" => put'[v] \in Elements(local[v])
    BY <1>2, Zenon DEF VersionsByAge
  <2>3. \A v \in Writers : wpc'[v] \notin {"idle", "acquire"} =>
           \A t \in 1..Len(tables) : Elements(t) \cap before[put'[v]] # {} => t <= local[v]
    BY <1>2, Zenon DEF VersionsByAge
  <2> QED
    BY <1>1, <1>3, <2>1, <2>2, <2>3, ZenonT(60) DEF VersionsByAge
<1> QED
  BY <1>5, <1>6, Zenon

\* A writer that is in no buffer takes the current one.
LEMMA ReloadPuts ==
    ASSUME Inv, PutsShape, VersionsByAge, NEW w \in Writers, Reload(w)
    PROVE PutsShape' /\ VersionsByAge'
<1>1. /\ UNCHANGED <<tables, table, wpc, put, puts, before, acked>>
      /\ wpc[w] = "acquire" /\ local' = [local EXCEPT ![w] = table]
  BY Zenon DEF Reload, flushVars
<1>2. local'[w] = table /\ \A v \in Writers : v # w => local'[v] = local[v]
  BY <1>1, Zenon DEF Inv, Gate, Shape
<1>3. \A t : Elements(t)' = Elements(t) /\ Newest(t)' = Newest(t)
  BY <1>1, Zenon DEF Elements, Newest
<1>4. \A v \in Writers : local'[v] <= table
  BY <1>2, Indices DEF PutsShape
<1>5. PutsShape'
  BY <1>1, <1>3, <1>4, Zenon DEF PutsShape
<1>6. VersionsByAge'
  BY <1>1, <1>2, <1>3, ZenonT(60) DEF VersionsByAge
<1> QED
  BY <1>5, <1>6, Zenon

\* An insertion: the version is newer than those it must be newer than, because
\* they are in the same buffer or in an older one.
LEMMA InsertPuts ==
    ASSUME Inv, PutsShape, VersionsByAge, NEW w \in Writers, Insert(w), Inserted(w),
           wpc'[w] \in {"flush", "log"}
    PROVE PutsShape' /\ VersionsByAge'
<1>0. PICK b \in 1..Len(tables) : b = local[w]
  BY Indices, ZenonT(60)
<1>1. /\ UNCHANGED <<table, local, put, puts, before, acked>> /\ wpc[w] = "insert"
      /\ \A v \in Writers : v # w => wpc'[v] = wpc[v]
  BY Zenon DEF Insert, Goto, Inv, Gate, Shape
<1>2. /\ Len(tables') = Len(tables) /\ b \in 1..Len(tables) /\ table \in Nat /\ Len(tables) \in Nat
      /\ HasNewest(tables'[b].content)
      /\ Elements(b)' = Elements(b) \cup {put[w]} /\ Newest(b)' = put[w]
      /\ \A t \in 1..Len(tables) : t # b => tables'[t].content = tables[t].content
  BY <1>0, <1>1, Indices DEF Inserted, Elements, HasNewest, Newest
<1>3. \A t \in 1..Len(tables) : t # b => Elements(t)' = Elements(t) /\ Newest(t)' = Newest(t)
  BY <1>2, Zenon DEF Elements, Newest
<1>4. /\ put[w] \in 1..puts /\ put[w] \notin acked /\ b <= table
      /\ \A p \in 1..puts : before[p] \subseteq acked
      /\ \A t \in 1..Len(tables) : HasNewest(tables[t].content) /\ Elements(t) \subseteq 1..puts
      /\ \A t \in 1..Len(tables) : t > table => Elements(t) = {}
  BY <1>0, <1>1, Zenon DEF PutsShape
<1>5. PutsShape'
  <2>1. \A t \in 1..Len(tables) : HasNewest(tables'[t].content) /\ Elements(t)' \subseteq 1..puts
    BY <1>2, <1>3, <1>4, ZenonT(60)
  <2>2. \A t \in 1..Len(tables) : t > table => t # b
    BY <1>2, <1>4
  <2>3. \A t \in 1..Len(tables) : t > table => Elements(t)' = {}
    BY <1>3, <1>4, <2>2, ZenonT(60)
  <2>4. \A v \in Writers : wpc'[v] # "idle" => wpc[v] # "idle"
    BY <1>1, Zenon
  <2> QED
    BY <1>1, <1>2, <2>1, <2>3, <2>4, ZenonT(60) DEF PutsShape
<1>6. ASSUME NEW t \in 1..Len(tables), NEW p \in 1..puts, Elements(t)' \cap before[p] # {}
      PROVE Elements(t) \cap before[p] # {}
  BY <1>2, <1>3, <1>4, <1>6, Zenon
<1>7. \A p \in acked : \E t \in 1..Len(tables) : p \in Elements(t)'
  <2>1. \A t \in 1..Len(tables) : Elements(t) \subseteq Elements(t)'
    BY <1>2, <1>3, Zenon
  <2> QED
    BY <2>1, ZenonT(60) DEF VersionsByAge
<1>8. \A v \in Writers : wpc'[v] = "log" => put[v] \in Elements(local[v])'
  <2>1. \A v \in Writers : v # w /\ wpc'[v] = "log" => put[v] \in Elements(local[v])
    BY <1>1, ZenonT(60) DEF VersionsByAge
  <2>2. \A v \in Writers : local[v] \in 1..Len(tables)
    BY Indices, Zenon
  <2> QED
    BY <1>0, <1>1, <1>2, <1>3, <2>1, <2>2, ZenonT(60)
<1>9. ASSUME NEW v \in Writers, wpc'[v] \notin {"idle", "acquire"},
             NEW t \in 1..Len(tables), Elements(t)' \cap before[put[v]] # {}
      PROVE t <= local[v]
  <2>1. wpc[v] \notin {"idle", "acquire"}
    BY <1>1, <1>9, Zenon
  <2>2. put[v] \in 1..puts
    BY <2>1, Zenon DEF PutsShape
  <2>3. Elements(t) \cap before[put[v]] # {}
    BY <1>6, <1>9, <2>2, Zenon
  <2> QED
    BY <2>1, <2>3, ZenonT(60) DEF VersionsByAge
<1>10. ASSUME NEW t \in 1..Len(tables), NEW u \in 1..Len(tables), NEW p \in Elements(t)',
              Newest(u)' # None, Newest(u)' \in before[p]
       PROVE u < t
  <2>1. p \in 1..puts
    BY <1>2, <1>3, <1>4, Zenon
  <2>2. u # b /\ Newest(u)' = Newest(u)
    BY <1>2, <1>3, <1>4, <1>10, <2>1, Zenon
  <2>3. CASE p \in Elements(t)
    BY <1>10, <2>2, <2>3, ZenonT(60) DEF VersionsByAge
  <2>4. CASE p \notin Elements(t)
    <3>1. t = b /\ p = put[w]
      BY <1>2, <1>3, <2>4
    <3>2. Newest(u) \in Elements(u)
      BY <1>4, <1>10, <2>2, ZenonT(60) DEF HasNewest, Elements, Newest
    <3>3. u <= b
      BY <1>0, <1>1, <1>10, <2>2, <3>1, <3>2, ZenonT(60) DEF VersionsByAge
    <3> QED
      BY <1>2, <2>2, <3>1, <3>3
  <2> QED
    BY <2>3, <2>4, Zenon
<1>11. VersionsByAge'
  BY <1>1, <1>2, <1>7, <1>8, <1>9, <1>10, ZenonT(60) DEF VersionsByAge
<1> QED
  BY <1>5, <1>11, Zenon

-----------------------------------------------------------------------------
(* The invariant of the read path *)

\* The puts a get must see are no later than the buffer it goes on with.
ReaderKnows ==
    /\ rtable \in 1..table /\ rswitch \in Nat /\ rswitch <= switch
    /\ rpc # "load" => rtable >= rswitch + 1
    /\ rstart \subseteq acked
    /\ rpc # "idle" /\ ~midSwitch => \A t \in 1..Len(tables) : Elements(t) \cap rstart # {} =>
          /\ t <= rswitch + 1
          /\ rpc = "pending" => t < rtable
          /\ rpc = "l0" => t <= Len(l0)
    /\ rpc = "returned" /\ ~midSwitch => Fresh(result, rstart)

FreshInv == Numbered /\ SstsAreBuffers /\ PutsShape /\ VersionsByAge /\ ReaderKnows

-----------------------------------------------------------------------------
(* The reader *)

\* A step of a writer or of a job: nothing moves back, and no version that a get
\* must see changes its place.
OthersMove ==
    /\ UNCHANGED getVars
    /\ table' \in Nat /\ table <= table'
    /\ switch' \in Nat /\ switch <= switch'
    /\ Len(l0') \in Nat /\ Len(l0) <= Len(l0')
    /\ acked \subseteq acked' /\ \A p \in 1..puts : before'[p] = before[p]
    /\ \A t \in 1..Len(tables') : Elements(t)' \cap rstart # {} =>
          t \in 1..Len(tables) /\ Elements(t) \cap rstart # {}

\* Such a step keeps what the reader knows.
LEMMA OthersKeepReader ==
    ASSUME Inv, Numbered, PutsShape, ReaderKnows, OthersMove
    PROVE ReaderKnows'
<1>1. /\ UNCHANGED <<rpc, rtable, rswitch, rstart, result, midSwitch>>
      /\ table' \in Nat /\ table <= table' /\ switch' \in Nat /\ switch <= switch'
      /\ Len(l0') \in Nat /\ Len(l0) <= Len(l0')
      /\ table \in Nat /\ switch \in Nat /\ Len(l0) \in Nat /\ Len(tables) \in Nat
  BY Indices, Zenon DEF OthersMove, getVars, Numbered
<1>2. /\ rtable \in 1..table' /\ rswitch \in Nat /\ rswitch <= switch'
      /\ rpc # "load" => rtable >= rswitch + 1
  BY <1>1 DEF ReaderKnows
<1>3. rstart \subseteq acked' /\ rstart \subseteq 1..puts
  BY Zenon DEF OthersMove, ReaderKnows, PutsShape
<1>4. ASSUME rpc # "idle", ~midSwitch, NEW t \in 1..Len(tables'), Elements(t)' \cap rstart # {}
      PROVE /\ t <= rswitch + 1
            /\ rpc = "pending" => t < rtable
            /\ rpc = "l0" => t <= Len(l0')
  <2>1. t \in 1..Len(tables) /\ Elements(t) \cap rstart # {}
    BY <1>4, Zenon DEF OthersMove
  <2>2. /\ t <= rswitch + 1
        /\ rpc = "pending" => t < rtable
        /\ rpc = "l0" => t <= Len(l0)
    BY <1>4, <2>1, Zenon DEF ReaderKnows
  <2> QED
    BY <1>1, <2>1, <2>2
<1>5. rpc = "returned" /\ ~midSwitch => Fresh(result, rstart)'
  BY <1>1, <1>3, Zenon DEF ReaderKnows, Fresh, OthersMove
<1> QED
  BY <1>1, <1>2, <1>3, <1>4, <1>5, Zenon DEF ReaderKnows

\* A step that keeps the contents, or inserts the version of a put in progress,
\* moves no version a get must see.
LEMMA PlacesKept ==
    ASSUME Inv, PutsShape, ReaderKnows,
           ContentsKept \/ \E w \in Writers : Inserted(w) /\ wpc[w] # "idle"
                                              /\ UNCHANGED <<local, put>>
    PROVE \A t \in 1..Len(tables') : Elements(t)' \cap rstart # {} =>
             t \in 1..Len(tables) /\ Elements(t) \cap rstart # {}
<1>1. CASE ContentsKept
  BY <1>1, KeptElements, Zenon
<1>2. ASSUME NEW w \in Writers, Inserted(w), wpc[w] # "idle", UNCHANGED <<local, put>>
      PROVE \A t \in 1..Len(tables') : Elements(t)' \cap rstart # {} =>
               t \in 1..Len(tables) /\ Elements(t) \cap rstart # {}
  <2>1. put[w] \notin rstart
    BY <1>2, Zenon DEF PutsShape, ReaderKnows
  <2>2. Len(tables') = Len(tables)
    BY <1>2, Zenon DEF Inserted
  <2>3. \A t \in 1..Len(tables) : Elements(t)' \subseteq Elements(t) \cup {put[w]}
    BY <1>2 DEF Inserted, Elements
  <2> QED
    BY <2>1, <2>2, <2>3, Zenon
<1> QED
  BY <1>1, <1>2, Zenon

\* A get starts: unless a switch is under way, everything acknowledged is in the
\* current buffer or in an older one.
LEMMA BeginReader ==
    ASSUME Inv, Numbered, PutsShape, ReaderKnows, BeginGet
    PROVE ReaderKnows'
<1>1. /\ UNCHANGED <<tables, table, switch, l0, acked, before, rtable>>
      /\ rstart' = acked /\ rswitch' = switch
      /\ rpc' = IF switch > rswitch THEN "load" ELSE "table"
      /\ midSwitch' = (\E w \in Writers : wpc[w] = "switch")
  BY Zenon DEF BeginGet, flushVars, putVars
<1>2. /\ rtable \in 1..table /\ rswitch \in Nat /\ switch \in Nat /\ rswitch <= switch
      /\ rpc = "idle" /\ rtable >= rswitch + 1 /\ table \in Nat /\ Len(tables) \in Nat
  BY Indices, Zenon DEF BeginGet, ReaderKnows, Numbered
<1>3. rpc' # "load" => rtable >= rswitch' + 1
  BY <1>1, <1>2
<1>4. \A t : Elements(t)' = Elements(t)
  BY <1>1, Zenon DEF Elements
<1>5. ASSUME ~midSwitch', NEW t \in 1..Len(tables), Elements(t) \cap acked # {}
      PROVE t <= switch + 1
  <2>1. table = switch + 1
    BY <1>1, <1>5, Zenon DEF Numbered
  <2>2. ~(t > table)
    BY <1>5, Zenon DEF PutsShape
  <2> QED
    BY <1>2, <2>1, <2>2
<1>6. rpc' \in {"load", "table"}
  BY <1>1, Zenon
<1> QED
  BY <1>1, <1>2, <1>3, <1>4, <1>5, <1>6 DEF ReaderKnows

\* The get takes the current buffer.
LEMMA LoadReader ==
    ASSUME Inv, Numbered, ReaderKnows, LoadTable
    PROVE ReaderKnows'
<1>1. /\ UNCHANGED <<tables, table, switch, l0, acked, before, rswitch, rstart, midSwitch>>
      /\ rpc = "load" /\ rpc' = "table" /\ rtable' = table
  BY Zenon DEF LoadTable, flushVars, putVars
<1>2. /\ rswitch \in Nat /\ switch \in Nat /\ rswitch <= switch /\ table >= switch + 1
      /\ table \in 1..table
  <2>1. table = switch + 1 \/ table = switch + 2
    BY ZenonT(60) DEF Numbered
  <2>2. switch \in Nat /\ table \in 1..table
    BY Indices DEF Numbered
  <2> QED
    BY <2>1, <2>2 DEF ReaderKnows
<1>3. table >= rswitch + 1
  BY <1>2, Indices
<1>4. \A t : Elements(t)' = Elements(t)
  BY <1>1, Zenon DEF Elements
<1> QED
  BY <1>1, <1>2, <1>3, <1>4, Zenon DEF ReaderKnows

\* The answer of one buffer is fresh if nothing the get must see is in a later one.
LEMMA NewestIsFresh ==
    ASSUME Inv, PutsShape, VersionsByAge, ReaderKnows, NEW u \in 1..Len(tables), Newest(u) # None,
           \A t \in 1..Len(tables) : Elements(t) \cap rstart # {} => t <= u
    PROVE Fresh(Newest(u), rstart)
<1> SUFFICES ASSUME NEW p \in rstart, Newest(u) \in before[p] PROVE FALSE
  BY Zenon DEF Fresh
<1>1. PICK t \in 1..Len(tables) : p \in Elements(t)
  BY Zenon DEF VersionsByAge, ReaderKnows
<1>2. t <= u
  BY <1>1, Zenon
<1>3. u < t
  BY <1>1, Zenon DEF VersionsByAge
<1> QED
  BY <1>2, <1>3, Indices

\* A buffer in which a get finds nothing is empty.
LEMMA NoneIsEmpty ==
    ASSUME PutsShape, NEW t \in 1..Len(tables), Newest(t) = None
    PROVE Elements(t) = {}
<1>1. HasNewest(tables[t].content) /\ Elements(t) \subseteq 1..puts /\ puts \in Nat
  BY Zenon DEF PutsShape
<1>2. None \notin 1..puts
  BY <1>1 DEF None
<1> QED
  BY <1>1, <1>2, Zenon DEF HasNewest, Elements, Newest

\* The lookup in the buffer the thread knows.
LEMMA ReadTableReader ==
    ASSUME Inv, Numbered, PutsShape, VersionsByAge, ReaderKnows, ReadTable
    PROVE ReaderKnows'
<1>1. /\ UNCHANGED <<tables, table, switch, l0, acked, before, rtable, rswitch, rstart, midSwitch>>
      /\ rpc = "table" /\ result' = Newest(rtable)
      /\ rpc' = IF Newest(rtable) # None THEN "returned" ELSE "pending"
  BY Zenon DEF ReadTable, flushVars, putVars
<1>2. /\ rtable \in 1..Len(tables) /\ rswitch \in Nat /\ rtable \in Nat /\ rtable >= rswitch + 1
  BY <1>1, Indices DEF ReaderKnows
<1>3. \A t : Elements(t)' = Elements(t)
  BY <1>1, Zenon DEF Elements
<1>4. ASSUME ~midSwitch, NEW t \in 1..Len(tables), Elements(t) \cap rstart # {}
      PROVE t <= rswitch + 1 /\ t <= rtable
  <2>1. t <= rswitch + 1
    BY <1>1, <1>4, Zenon DEF ReaderKnows
  <2> QED
    BY <1>2, <2>1, Indices
<1>5. CASE Newest(rtable) # None
  <2>1. rpc' = "returned"
    BY <1>1, <1>5, Zenon
  <2>2. ~midSwitch => Fresh(Newest(rtable), rstart)
    BY <1>2, <1>4, <1>5, NewestIsFresh, Zenon
  <2>3. ~midSwitch => Fresh(result, rstart)'
    BY <1>1, <2>2, Zenon DEF Fresh
  <2> QED
    BY <1>1, <1>2, <1>3, <1>4, <2>1, <2>3, Zenon DEF ReaderKnows
<1>6. CASE Newest(rtable) = None
  <2>1. rpc' = "pending" /\ Elements(rtable) = {}
    BY <1>1, <1>2, <1>6, NoneIsEmpty, Zenon
  <2>2. ASSUME ~midSwitch, NEW t \in 1..Len(tables), Elements(t) \cap rstart # {}
        PROVE t < rtable
    <3>1. t <= rtable /\ t # rtable
      BY <1>4, <2>1, <2>2, Zenon
    <3> QED
      BY <1>2, <3>1, Indices
  <2> QED
    BY <1>1, <1>2, <1>3, <1>4, <2>1, <2>2, Zenon DEF ReaderKnows
<1> QED
  BY <1>5, <1>6, Zenon

\* Every buffer between L0 and the current one is pending, and nothing else is;
\* later ones have larger epochs.
LEMMA PendingBuffers ==
    ASSUME Inv, Numbered
    PROVE /\ \A e \in pending : e[2] \in 1..Len(tables) /\ Len(l0) < e[2] /\ e[1] \in Nat
          /\ \A t \in 1..Len(tables) : Len(l0) < t /\ t < table => \E e \in pending : e[2] = t
          /\ \A e, f \in pending : e[2] < f[2] => e[1] < f[1]
<1>0. /\ Len(l0) \in Nat /\ Len(jobs) \in Nat /\ table \in Nat /\ Len(l0) <= Len(jobs)
      /\ Len(tables) \in Nat
  BY Indices, Zenon
<1>1. \A e \in pending : e[2] \in 1..Len(tables) /\ e[1] \in Nat
  BY Zenon DEF Inv, Gate, Shape
<1>2. ASSUME NEW e \in pending PROVE Len(l0) < e[2]
  <2>1. CASE \E n \in (Len(l0) + 1)..Len(jobs) : e = <<jobs[n].epoch, n>>
    BY <1>0, <2>1
  <2>2. CASE e[2] = Len(jobs) + 1
    BY <1>0, <2>2
  <2> QED
    BY <2>1, <2>2 DEF Numbered
<1>3. ASSUME NEW t \in 1..Len(tables), Len(l0) < t, t < table
      PROVE \E e \in pending : e[2] = t
  <2>1. CASE t <= Len(jobs)
    <3>1. t \in (Len(l0) + 1)..Len(jobs)
      BY <1>0, <1>3, <2>1
    <3>2. <<jobs[t].epoch, t>> \in pending /\ <<jobs[t].epoch, t>>[2] = t
      BY <3>1, Zenon DEF Numbered
    <3> QED
      BY <3>2, Zenon
  <2>2. CASE ~(t <= Len(jobs))
    <3>1. PICK w \in Writers : wpc[w] = "switch"
      BY <1>0, <1>3, <2>2 DEF Numbered
    <3>2. table = Len(jobs) + 2 /\ <<wepoch[w], Len(jobs) + 1>> \in pending
      BY <3>1, Zenon DEF Numbered
    <3>3. t = Len(jobs) + 1
      BY <1>0, <1>3, <2>2, <3>2
    <3>4. <<wepoch[w], t>> \in pending /\ <<wepoch[w], t>>[2] = t
      BY <3>2, <3>3, Zenon
    <3> QED
      BY <3>4, Zenon
  <2> QED
    BY <2>1, <2>2, Zenon
<1>4. ASSUME NEW e \in pending, NEW f \in pending, e[2] < f[2] PROVE e[1] < f[1]
  <2>1. (Len(l0) + 1)..Len(jobs) \subseteq 1..Len(jobs)
    BY <1>0
  <2>2. CASE \E n \in (Len(l0) + 1)..Len(jobs) : e = <<jobs[n].epoch, n>>
    <3>1. PICK n \in 1..Len(jobs) : e = <<jobs[n].epoch, n>>
      BY <2>1, <2>2, Zenon
    <3>2. CASE \E m \in (Len(l0) + 1)..Len(jobs) : f = <<jobs[m].epoch, m>>
      <4>1. PICK m \in 1..Len(jobs) : f = <<jobs[m].epoch, m>>
        BY <2>1, <3>2, Zenon
      <4>2. n < m
        BY <1>4, <3>1, <4>1, Zenon
      <4>3. jobs[n].epoch < jobs[m].epoch
        BY <4>2, Zenon DEF Inv, Chain, JobsInOrder
      <4> QED
        BY <3>1, <4>1, <4>3, Zenon
    <3>3. CASE \E w \in Writers : wpc[w] = "switch" /\ f = <<wepoch[w], Len(jobs) + 1>>
      BY <3>1, <3>3 DEF Inv, Chain, JobsInOrder, Flushing
    <3> QED
      BY <3>2, <3>3, Zenon DEF Numbered
  <2>3. CASE \E w \in Writers : wpc[w] = "switch" /\ e = <<wepoch[w], Len(jobs) + 1>>
    <3>1. e[2] = Len(jobs) + 1
      BY <2>3
    <3>2. CASE \E m \in (Len(l0) + 1)..Len(jobs) : f = <<jobs[m].epoch, m>>
      BY <1>0, <1>4, <3>1, <3>2
    <3>3. CASE \E w \in Writers : wpc[w] = "switch" /\ f = <<wepoch[w], Len(jobs) + 1>>
      BY <1>0, <1>4, <3>1, <3>3
    <3> QED
      BY <3>2, <3>3, Zenon DEF Numbered
  <2> QED
    BY <2>2, <2>3, Zenon DEF Numbered
<1> QED
  BY <1>1, <1>2, <1>3, <1>4, Zenon

\* The search of the pending buffers, latest first.
LEMMA ReadPendingReader ==
    ASSUME Inv, Numbered, PutsShape, VersionsByAge, ReaderKnows, ReadPending
    PROVE ReaderKnows'
<1> DEFINE hits == {e \in pending : Newest(e[2]) # None}
<1>1. /\ UNCHANGED <<tables, table, switch, l0, acked, before, rtable, rswitch, rstart, midSwitch>>
      /\ rpc = "pending"
      /\ hits = {} => rpc' = "l0"
      /\ hits # {} => /\ rpc' = "returned"
                      /\ \E e \in hits : /\ \A f \in hits : f[1] <= e[1]
                                         /\ result' = Newest(e[2])
  BY Zenon DEF ReadPending, flushVars, putVars
<1>2. \A t : Elements(t)' = Elements(t)
  BY <1>1, Zenon DEF Elements
<1>3. ASSUME ~midSwitch, NEW t \in 1..Len(tables), Elements(t) \cap rstart # {}
      PROVE /\ t <= rswitch + 1
            /\ t <= Len(l0) \/ \E e \in hits : e[2] = t
  <2>1. t <= rswitch + 1 /\ t < rtable
    BY <1>1, <1>3, Zenon DEF ReaderKnows
  <2>2. t < table
    BY <2>1, Indices DEF ReaderKnows
  <2>3. Newest(t) # None
    BY <1>3, NoneIsEmpty, Zenon
  <2>4. CASE Len(l0) < t
    <3>1. PICK e \in pending : e[2] = t
      BY <2>2, <2>4, PendingBuffers, Zenon
    <3>2. e \in hits
      BY <2>3, <3>1, Zenon
    <3> QED
      BY <2>1, <3>1, <3>2, Zenon
  <2> QED
    BY <2>1, <2>4, Indices
<1>4. /\ rtable \in 1..table /\ rswitch \in Nat /\ rswitch <= switch /\ rtable >= rswitch + 1
      /\ rstart \subseteq acked
  BY <1>1, Zenon DEF ReaderKnows
<1>5. CASE hits = {}
  BY <1>1, <1>2, <1>3, <1>4, <1>5, Zenon DEF ReaderKnows
<1>6. CASE hits # {}
  <2>1. PICK e \in hits : (\A f \in hits : f[1] <= e[1]) /\ result' = Newest(e[2])
    BY <1>1, <1>6, Zenon
  <2>2. e \in pending /\ Newest(e[2]) # None /\ e[2] \in 1..Len(tables)
    BY PendingBuffers, Zenon
  <2>3. ASSUME ~midSwitch, NEW t \in 1..Len(tables), Elements(t) \cap rstart # {}
        PROVE t <= e[2]
    <3>1. CASE t <= Len(l0)
      BY <2>2, <3>1, PendingBuffers, Indices
    <3>2. CASE \E f \in hits : f[2] = t
      <4>1. PICK f \in hits : f[2] = t
        BY <3>2, Zenon
      <4>2. f[1] <= e[1] /\ f[1] \in Nat /\ e[1] \in Nat
        BY <2>1, PendingBuffers, Zenon
      <4>3. ~(e[2] < f[2])
        BY <4>2, PendingBuffers
      <4> QED
        BY <2>2, <4>1, <4>3, Indices
    <3> QED
      BY <1>3, <2>3, <3>1, <3>2, Zenon
  <2>4. ~midSwitch => Fresh(Newest(e[2]), rstart)
    BY <2>2, <2>3, NewestIsFresh, Zenon
  <2>5. ~midSwitch => Fresh(result, rstart)'
    BY <1>1, <2>1, <2>4, Zenon DEF Fresh
  <2>6. rpc' = "returned"
    BY <1>1, <1>6, Zenon
  <2> QED
    BY <1>1, <1>2, <1>3, <1>4, <2>5, <2>6, Zenon DEF ReaderKnows
<1> QED
  BY <1>5, <1>6, Zenon

\* The search of L0, latest first.
LEMMA ReadL0Reader ==
    ASSUME Inv, Numbered, SstsAreBuffers, PutsShape, VersionsByAge, ReaderKnows, ReadL0
    PROVE ReaderKnows'
<1> DEFINE hits == {i \in DOMAIN l0 : l0[i].version # None}
<1>1. /\ UNCHANGED <<tables, table, switch, l0, acked, before, rtable, rswitch, rstart, midSwitch>>
      /\ rpc = "l0" /\ rpc' = "returned"
      /\ hits = {} => result' = None
      /\ hits # {} => \E i \in hits : (\A j \in hits : j <= i) /\ result' = l0[i].version
  BY Zenon DEF ReadL0, flushVars, putVars
<1>2. \A t : Elements(t)' = Elements(t)
  BY <1>1, Zenon DEF Elements
<1>3. /\ DOMAIN l0 = 1..Len(l0) /\ Len(l0) \in Nat /\ Len(tables) \in Nat
      /\ \A i \in 1..Len(l0) : l0[i].version = Newest(i) /\ i \in 1..Len(tables)
  <2>1. \A n \in 1..Len(jobs) : n \in 1..Len(tables)
    BY Zenon DEF Numbered, Inv, Gate, Shape
  <2> QED
    BY <2>1, Indices, Zenon DEF SstsAreBuffers
<1>4. ASSUME ~midSwitch, NEW t \in 1..Len(tables), Elements(t) \cap rstart # {}
      PROVE t <= rswitch + 1 /\ t \in hits
  <2>1. t <= rswitch + 1 /\ t <= Len(l0)
    BY <1>1, <1>4, Zenon DEF ReaderKnows
  <2>2. Newest(t) # None
    BY <1>4, NoneIsEmpty, Zenon
  <2> QED
    BY <1>3, <2>1, <2>2
<1>5. /\ rtable \in 1..table /\ rswitch \in Nat /\ rswitch <= switch /\ rtable >= rswitch + 1
      /\ rstart \subseteq acked
  BY <1>1, Zenon DEF ReaderKnows
<1>6. ~midSwitch => Fresh(result, rstart)'
  <2>1. CASE hits = {}
    <3>1. ~midSwitch => \A t \in 1..Len(tables) : Elements(t) \cap rstart = {}
      BY <1>4, <2>1, Zenon
    <3>2. ~midSwitch => rstart = {}
      BY <1>5, <3>1, Zenon DEF VersionsByAge
    <3> QED
      BY <1>1, <2>1, <3>2, Zenon DEF Fresh
  <2>2. CASE hits # {}
    <3>1. PICK i \in hits : (\A j \in hits : j <= i) /\ result' = l0[i].version
      BY <1>1, <2>2, Zenon
    <3>2. i \in 1..Len(tables) /\ Newest(i) # None /\ result' = Newest(i)
      BY <1>3, <3>1, Zenon
    <3>3. ~midSwitch => \A t \in 1..Len(tables) : Elements(t) \cap rstart # {} => t <= i
      BY <1>4, <3>1, Zenon
    <3>4. ~midSwitch => Fresh(Newest(i), rstart)
      BY <3>2, <3>3, NewestIsFresh, Zenon
    <3> QED
      BY <1>1, <3>2, <3>4, Zenon DEF Fresh
  <2> QED
    BY <2>1, <2>2, Zenon
<1> QED
  BY <1>1, <1>2, <1>4, <1>5, <1>6, Zenon DEF ReaderKnows

\* The get is over.
LEMMA EndReader ==
    ASSUME Inv, ReaderKnows, EndGet
    PROVE ReaderKnows'
<1>1. /\ UNCHANGED <<table, switch, acked, rtable, rswitch>>
      /\ rpc = "returned" /\ rpc' = "idle" /\ rstart' = {}
  BY Zenon DEF EndGet, flushVars, putVars
<1> QED
  BY <1>1, Zenon DEF ReaderKnows

-----------------------------------------------------------------------------
(* A get never misses what was acknowledged *)

\* The invariant of the read path holds in a new memtable.
LEMMA InitFresh == Init => FreshInv
<1> SUFFICES ASSUME Init PROVE FreshInv
  BY Zenon
<1>1. /\ tables = <<EmptyTable, EmptyTable>> /\ jobs = <<>> /\ l0 = <<>> /\ pending = {}
      /\ table = 1 /\ pipelined = 2 /\ making = FALSE /\ switch = 0
      /\ wpc = [w \in Writers |-> "idle"] /\ local = [w \in Writers |-> 1]
      /\ put = [w \in Writers |-> None] /\ puts = 0 /\ acked = {} /\ before = <<>>
      /\ rpc = "idle" /\ rtable = 1 /\ rswitch = 0 /\ rstart = {}
  BY Zenon DEF Init
<1>2. Len(jobs) = 0 /\ Len(l0) = 0 /\ Len(before) = 0 /\ IsSeq(before) /\ Len(tables) = 2
  BY <1>1 DEF IsSeq
<1>3. \A t \in 1..2 : tables[t].content = NoContent
  <2>1. \A t \in 1..2 : tables[t] = EmptyTable
    BY <1>1
  <2> QED
    BY <2>1 DEF EmptyTable
<1>4. HasNewest(NoContent) /\ \A t \in 1..2 : Elements(t) = {} /\ Newest(t) = None
  BY <1>3 DEF HasNewest, NoContent, Elements, Newest
<1>5. Numbered
  BY <1>1, <1>2 DEF Numbered, None
<1>6. SstsAreBuffers /\ VersionsByAge
  BY <1>1, <1>2, <1>4 DEF SstsAreBuffers, VersionsByAge
<1>7. PutsShape /\ ReaderKnows
  BY <1>1, <1>2, <1>3, <1>4 DEF PutsShape, ReaderKnows
<1> QED
  BY <1>5, <1>6, <1>7, Zenon DEF FreshInv

\* Buffers that stay as they are keep their contents.
LEMMA SameContents ==
    ASSUME Inv, UNCHANGED tables
    PROVE ContentsKept
BY Indices DEF ContentsKept

\* The steps of put_async and _flush that move the writer and touch no version.
LEMMA QuietWriter ==
    ASSUME Inv, FreshInv, [Next]_vars, NEW w \in Writers,
           Acquire(w) \/ Leave(w) \/ TryFlush(w) \/ Guard(w) \/ AwaitSlot(w)
    PROVE FreshInv'
<1> USE DEF FreshInv
<1>1. /\ UNCHANGED <<table, switch, pipelined, making, pending, jobs, l0, local, put, puts, acked, before,
                     getVars>>
      /\ wpc[w] \in {"acquire", "leave", "flush", "guard", "slot"}
  BY Zenon DEF Acquire, Leave, TryFlush, Guard, AwaitSlot, flushVars
<1>2. /\ \A v \in Writers : v # w => wpc'[v] = wpc[v]
      /\ \A v \in Writers : v # w => wepoch'[v] = wepoch[v]
      /\ wpc'[w] \in {"insert", "acquire", "guard", "leave", "slot", "swap"}
      /\ wpc[w] = "acquire" => Acquire(w)
  BY <1>1, Zenon DEF Acquire, Leave, TryFlush, Guard, AwaitSlot, Goto, Inv, Gate, Shape
<1>3. /\ ContentsKept /\ Len(tables') = Len(tables)
      /\ \A t \in 1..Len(tables) : tables[t].frozen = TRUE => tables'[t].frozen = TRUE
  <2>1. CASE UNCHANGED tables
    BY <2>1, SameContents, Zenon
  <2>2. CASE tables' = [tables EXCEPT ![local[w]].frozen = TRUE]
    <3>0. PICK b \in 1..Len(tables) : b = local[w]
      BY Indices, Zenon
    <3>1. IsSeq(tables) /\ \A t \in 1..Len(tables) : DOMAIN tables[t] = TableFields
      BY Zenon DEF Inv, Gate, Shape
    <3>2. IsTableUpdate(tables, tables', b)
      BY <2>2, <3>0, Zenon DEF IsTableUpdate
    <3>3. /\ TablesKept(tables, tables') /\ Len(tables') = Len(tables)
          /\ \A t \in 1..Len(tables) : t # b => tables'[t] = tables[t]
      BY <3>1, <3>2, UpdateTable, ZenonT(60)
    <3>4. tables'[b].content = tables[b].content
      BY <2>2, <3>0, <3>1, Indices, Zenon DEF TableFields
    <3> QED
      BY <3>3, <3>4, Zenon DEF ContentsKept, TablesKept
  <2> QED
    BY <2>1, <2>2, ZenonT(60) DEF Acquire, Leave, TryFlush, Guard, AwaitSlot
<1>4. Numbered'
  <2>1. AgesKept
    BY <1>1, <1>2, <1>3, Zenon DEF AgesKept
  <2> QED
    BY <2>1, AgesKeptNumbered, Zenon
<1>5. wpc[w] = "acquire" => local[w] = table
  <2> SUFFICES ASSUME Acquire(w) PROVE local[w] = table
    BY <1>2, Zenon
  <2>1. ~tables[local[w]].frozen /\ local[w] \in 1..Len(tables) /\ local[w] <= table
    BY Indices, Zenon DEF Acquire, PutsShape
  <2>2. local[w] \notin 1..(table - 1)
    BY <2>1, Zenon DEF Numbered
  <2> QED
    BY <2>1, <2>2, Indices
<1>6. QuietStep
  BY <1>1, <1>2, <1>3, <1>5, Indices, SMTT(30) DEF QuietStep
<1>7. PutsShape' /\ VersionsByAge'
  BY <1>6, QuietPuts, Zenon
<1>8. OthersMove
  BY <1>1, <1>3, PlacesKept, Indices, SMTT(30) DEF OthersMove, Numbered
<1> QED
  BY <1>1, <1>4, <1>7, <1>8, SstsKept, OthersKeepReader, Zenon

\* The start and the end of a put, and the load of the current buffer.
LEMMA PutWriter ==
    ASSUME Inv, FreshInv, [Next]_vars, NEW w \in Writers,
           Put(w) \/ Log(w) \/ LogFails(w) \/ Reload(w)
    PROVE FreshInv'
<1> USE DEF FreshInv
<1>1. /\ UNCHANGED <<tables, table, switch, pipelined, making, pending, jobs, l0, wepoch, getVars>>
      /\ wpc[w] \in {"idle", "log", "acquire"} /\ acked \subseteq acked'
  BY Zenon DEF Put, Log, LogFails, Reload, flushVars
<1>2. /\ \A v \in Writers : v # w => wpc'[v] = wpc[v]
      /\ wpc'[w] \in {"acquire", "idle"}
  BY <1>1, Zenon DEF Put, Log, LogFails, Reload, Goto, Inv, Gate, Shape
<1>3. Numbered'
  <2>1. AgesKept
    BY <1>1, <1>2, Zenon DEF AgesKept
  <2> QED
    BY <2>1, AgesKeptNumbered, Zenon
<1>4. PutsShape' /\ VersionsByAge' /\ \A p \in 1..puts : before'[p] = before[p]
  <2>1. CASE Put(w)
    BY <2>1, PutPuts, Zenon
  <2>2. CASE Log(w) \/ LogFails(w)
    BY <2>2, LogPuts, Zenon DEF Log, LogFails
  <2>3. CASE Reload(w)
    BY <2>3, ReloadPuts, Zenon DEF Reload
  <2> QED
    BY <2>1, <2>2, <2>3, Zenon
<1>5. ContentsKept
  BY <1>1, SameContents, ZenonT(60)
<1>6. OthersMove
  BY <1>1, <1>4, <1>5, PlacesKept, Indices DEF OthersMove, Numbered
<1> QED
  BY <1>1, <1>3, <1>4, <1>6, SstsKept, OthersKeepReader, Zenon

\* An insertion.
LEMMA InsertWriter ==
    ASSUME Inv, FreshInv, [Next]_vars, NEW w \in Writers, Insert(w)
    PROVE FreshInv'
<1> USE DEF FreshInv
<1>1. /\ UNCHANGED <<table, switch, pipelined, making, pending, jobs, l0, local, put, puts, acked, before,
                     wepoch, getVars>>
      /\ wpc[w] = "insert" /\ \A v \in Writers : v # w => wpc'[v] = wpc[v]
  BY Zenon DEF Insert, Goto, flushVars, Inv, Gate, Shape
<1>2. \/ ContentsKept /\ wpc'[w] = "flush"
      \/ Inserted(w) /\ wpc'[w] \in {"flush", "log"}
  BY InsertContent, Indices, Zenon DEF PutsShape
<1>3. Len(tables') = Len(tables)
  <2>1. CASE UNCHANGED tables
    BY <2>1, Zenon
  <2>2. CASE \E c, y : tables' = [tables EXCEPT ![local[w]].content = c, ![local[w]].bytes = y]
    <3>1. IsTableUpdate(tables, tables', local[w])
      BY <2>2, ZenonT(60) DEF IsTableUpdate
    <3>2. /\ IsSeq(tables) /\ \A t \in 1..Len(tables) : DOMAIN tables[t] = TableFields
          /\ local[w] \in 1..Len(tables)
      BY Zenon DEF Inv, Gate, Shape
    <3> QED
      BY <3>1, <3>2, UpdateTable, Zenon
  <2> QED
    BY <2>1, <2>2, Zenon DEF Insert
<1>4. Numbered'
  <2>1. \A t \in 1..Len(tables) : tables[t].frozen = TRUE => tables'[t].frozen = TRUE
    BY InsertKeeps, ZenonT(60) DEF TablesKept
  <2>2. AgesKept
    BY <1>1, <1>2, <1>3, <2>1, Zenon DEF AgesKept
  <2> QED
    BY <2>2, AgesKeptNumbered, Zenon
<1>5. PutsShape' /\ VersionsByAge'
  <2>1. CASE ContentsKept /\ wpc'[w] = "flush"
    <3>1. QuietStep
      BY <1>1, <2>1, Indices DEF QuietStep
    <3> QED
      BY <3>1, QuietPuts, ZenonT(60)
  <2>2. CASE Inserted(w) /\ wpc'[w] \in {"flush", "log"}
    BY <2>2, InsertPuts, ZenonT(60)
  <2> QED
    BY <1>2, <2>1, <2>2, Zenon
<1>6. OthersMove
  <2>1. \A t \in 1..Len(tables') : Elements(t)' \cap rstart # {} =>
           t \in 1..Len(tables) /\ Elements(t) \cap rstart # {}
    BY <1>1, <1>2, PlacesKept, Zenon
  <2> QED
    BY <1>1, <2>1, Indices DEF OthersMove, Numbered
<1> QED
  BY <1>1, <1>4, <1>5, <1>6, SstsKept, OthersKeepReader, Zenon

\* The current buffer, the switch epoch and L0 only grow.
MovesForward ==
    /\ table' \in Nat /\ table <= table' /\ switch' \in Nat /\ switch <= switch'
    /\ Len(l0') \in Nat /\ Len(l0) <= Len(l0')

\* The steps that change which buffer is current, pending, or in L0.
LEMMA SwitchStep ==
    ASSUME Inv, FreshInv, [Next]_vars,
           \/ \E w \in Writers : Swap(w) \/ Launch(w)
           \/ MakePipelined
           \/ \E n \in DOMAIN jobs : JobStep(n) \/ WriteFails(n)
    PROVE FreshInv'
<1> USE DEF FreshInv
<1>1. UNCHANGED <<local, put, puts, acked, before, getVars>>
  BY ZenonT(60) DEF Swap, Launch, MakePipelined, JobStep, WriteFails, Drain, Write, Publish, ReleaseSlot,
         ResetWal, putVars
<1>2. /\ \A v \in Writers : wpc'[v] = wpc[v]
                            \/ (wpc[v] \in {"swap", "switch"} /\ wpc'[v] \in {"switch", "leave"})
  <2>1. ASSUME NEW w \in Writers, Swap(w) \/ Launch(w)
        PROVE \A v \in Writers : wpc'[v] = wpc[v]
                 \/ (wpc[v] \in {"swap", "switch"} /\ wpc'[v] \in {"switch", "leave"})
    BY <2>1, Zenon DEF Swap, Launch, Goto, Inv, Gate, Shape
  <2>2. CASE MakePipelined \/ \E n \in DOMAIN jobs : JobStep(n) \/ WriteFails(n)
    BY <2>2, ZenonT(60) DEF MakePipelined, JobStep, WriteFails, Drain, Write, Publish, ReleaseSlot, ResetWal,
                putVars
  <2> QED
    BY <2>1, <2>2, Zenon
<1>3. ContentsKept
  <2>1. CASE MakePipelined
    <3>1. /\ Len(tables') = Len(tables) + 1
          /\ \A t \in 1..Len(tables) : tables'[t] = tables[t]
      BY <2>1, MakeKeeps, Zenon
    <3>2. tables'[Len(tables) + 1] = EmptyTable
      BY <2>1, Indices, AppendIsSeq, ZenonT(60) DEF MakePipelined
    <3>3. \A t \in 1..(Len(tables) + 1) : t \notin 1..Len(tables) => t = Len(tables) + 1
      BY Indices
    <3>4. EmptyTable.content = NoContent
      BY Zenon DEF EmptyTable
    <3> QED
      BY <3>1, <3>2, <3>3, <3>4, Indices DEF ContentsKept
  <2>2. CASE ~MakePipelined
    <3>1. UNCHANGED tables
      BY <2>2, ZenonT(60) DEF Swap, Launch, JobStep, WriteFails, Drain, Write, Publish, ReleaseSlot, ResetWal
    <3> QED
      BY <3>1, SameContents, Zenon
  <2> QED
    BY <2>1, <2>2, Zenon
<1>4. Numbered' /\ SstsAreBuffers' /\ MovesForward
  <2>0. /\ table \in Nat /\ switch \in Nat /\ Len(l0) \in Nat /\ Len(jobs) \in Nat
        /\ DOMAIN jobs = 1..Len(jobs)
    BY Indices, Zenon DEF Numbered
  <2>1. ASSUME NEW w \in Writers, Swap(w)
        PROVE Numbered' /\ SstsAreBuffers' /\ MovesForward
    <3>1. UNCHANGED <<switch, jobs, l0>> /\ table' = table + 1
      BY <2>1, ZenonT(60) DEF Swap, Numbered
    <3>2. MovesForward
      BY <2>0, <3>1 DEF MovesForward
    <3> QED
      BY <2>1, <3>1, <3>2, SwapNumbered, SstsKept, Zenon
  <2>2. ASSUME NEW w \in Writers, Launch(w)
        PROVE Numbered' /\ SstsAreBuffers' /\ MovesForward
    <3>1. UNCHANGED <<table, l0>> /\ switch' = switch + 1
      BY <2>2, Zenon DEF Launch
    <3>2. MovesForward
      BY <2>0, <3>1 DEF MovesForward
    <3> QED
      BY <2>2, <3>2, LaunchNumbered, LaunchSsts, Zenon
  <2>3. CASE MakePipelined
    <3>1. UNCHANGED <<table, switch, jobs, l0>>
      BY <2>3, Zenon DEF MakePipelined
    <3>2. MovesForward
      BY <2>0, <3>1 DEF MovesForward
    <3> QED
      BY <2>3, <3>1, <3>2, MakeNumbered, SstsKept, Zenon
  <2>4. ASSUME NEW n \in DOMAIN jobs, Publish(n)
        PROVE Numbered' /\ SstsAreBuffers' /\ MovesForward
    <3>1. UNCHANGED <<table, switch>> /\ n = Len(l0) + 1 /\ Len(l0') = n
      BY <2>4, PublishNumbered, Zenon DEF Publish
    <3>2. MovesForward
      BY <2>0, <3>1 DEF MovesForward
    <3> QED
      BY <2>4, <3>2, PublishNumbered, JobSsts, Zenon DEF JobStep
  <2>5. ASSUME NEW n \in DOMAIN jobs,
               Drain(n) \/ Write(n) \/ ReleaseSlot(n) \/ ResetWal(n) \/ WriteFails(n)
        PROVE Numbered' /\ SstsAreBuffers' /\ MovesForward
    <3>1. UNCHANGED <<tables, table, switch, pipelined, making, pending, l0, wpc, wepoch>>
      BY <2>5, Zenon DEF Drain, Write, ReleaseSlot, ResetWal, WriteFails, putVars
    <3>2. PICK at : IsJobUpdate(jobs, jobs', n, at)
      <4>1. CASE Write(n)
        BY <4>1, ZenonT(60) DEF Write, IsJobUpdate
      <4>2. CASE Drain(n) \/ ReleaseSlot(n) \/ ResetWal(n) \/ WriteFails(n)
        <5>1. \E at : jobs' = [jobs EXCEPT ![n].pc = at]
          BY <4>2, Zenon DEF Drain, ReleaseSlot, ResetWal, WriteFails, JobGoto
        <5> QED
          BY <5>1, ZenonT(60) DEF IsJobUpdate
      <4> QED
        BY <2>5, <4>1, <4>2, Zenon
    <3>3. JobMoved(jobs, jobs', n, at)
      BY <2>0, <3>2, JobsShape, MoveJob, Zenon
    <3>4. AgesKept
      BY <3>1, <3>3, Zenon DEF AgesKept, JobMoved
    <3>5. MovesForward
      BY <2>0, <3>1 DEF MovesForward
    <3> QED
      BY <2>5, <3>4, <3>5, AgesKeptNumbered, JobSsts, Zenon DEF JobStep
  <2> QED
    BY <2>1, <2>2, <2>3, <2>4, <2>5, Zenon DEF JobStep
<1>5. QuietStep
  BY <1>1, <1>2, <1>3, <1>4, ZenonT(60) DEF QuietStep, MovesForward
<1>6. PutsShape' /\ VersionsByAge'
  BY <1>5, QuietPuts, Zenon
<1>7. OthersMove
  BY <1>1, <1>3, <1>4, PlacesKept, Zenon DEF OthersMove, MovesForward
<1> QED
  BY <1>4, <1>6, <1>7, OthersKeepReader, Zenon

\* The steps of a get, and no step at all.
LEMMA GetStep ==
    ASSUME Inv, FreshInv, [Next]_vars, GetNext \/ UNCHANGED vars
    PROVE FreshInv'
<1> USE DEF FreshInv
<1>1. UNCHANGED <<tables, table, switch, pipelined, making, pending, jobs, l0, putVars>>
  BY ZenonT(60) DEF GetNext, BeginGet, LoadTable, ReadTable, ReadPending, ReadL0, EndGet, vars, flushVars
<1>2. UNCHANGED <<wpc, local, put, wepoch, puts, acked, before>>
  BY <1>1, Zenon DEF putVars
<1>3. AgesKept
  BY <1>1, <1>2, ZenonT(60) DEF AgesKept
<1>4. ContentsKept
  BY <1>1, SameContents, Zenon
<1>5. QuietStep
  BY <1>1, <1>2, <1>4, Indices DEF QuietStep
<1>6. Numbered' /\ SstsAreBuffers' /\ PutsShape' /\ VersionsByAge'
  BY <1>1, <1>3, <1>5, AgesKeptNumbered, SstsKept, QuietPuts, Zenon
<1>7. ReaderKnows'
  <2>1. CASE UNCHANGED vars
    <3>1. OthersMove
      BY <1>1, <1>2, <1>4, <2>1, PlacesKept, Indices, SMTT(30) DEF OthersMove, Numbered, vars
    <3> QED
      BY <3>1, OthersKeepReader, ZenonT(60)
  <2>2. CASE GetNext
    BY <2>2, BeginReader, LoadReader, ReadTableReader, ReadPendingReader, ReadL0Reader, EndReader, Zenon
       DEF GetNext
  <2> QED
    BY <2>1, <2>2, Zenon
<1> QED
  BY <1>6, <1>7, Zenon

\* Every step preserves the invariant of the read path.
LEMMA NextFresh == Inv /\ FreshInv /\ [Next]_vars => FreshInv'
<1> SUFFICES ASSUME Inv, FreshInv, [Next]_vars PROVE FreshInv'
  BY Zenon
<1>1. CASE GetNext \/ UNCHANGED vars
  BY <1>1, GetStep, Zenon
<1>2. CASE FailNext
  BY <1>2, PutWriter, SwitchStep, Zenon DEF FailNext
<1>3. CASE WriteNext
  <2>1. ASSUME NEW w \in Writers, Put(w) \/ WriterStep(w)
        PROVE FreshInv'
    BY <2>1, PutWriter, QuietWriter, InsertWriter, SwitchStep, Zenon DEF WriterStep
  <2> QED
    BY <1>3, <2>1, SwitchStep, Zenon DEF WriteNext
<1> QED
  BY <1>1, <1>2, <1>3, Zenon DEF Next

\* The invariant of the read path holds in every reachable state.
THEOREM FreshAlways == Spec => []FreshInv
BY InitFresh, NextFresh, InvAlways, PTL DEF Spec

\* For any writers, any budget and any number of pending flushes, a get that did not
\* start inside a table switch returns a version at least as recent as every put
\* acknowledged before it began, whatever flushes, publications and failures happen
\* between its lookups in the buffer, in the pending map and in L0.
THEOREM GetsAreFresh == Spec => []GetIsFresh
<1>1. FreshInv => GetIsFresh
  BY Zenon DEF FreshInv, ReaderKnows, GetIsFresh
<1> QED
  BY <1>1, FreshAlways, PTL

-----------------------------------------------------------------------------
(* The WAL slots and the flush slots *)

INSTANCE FiniteSetTheorems

\* One if b, else none.
Bit(b) == IF b THEN 1 ELSE 0

\* The jobs that hold a WAL slot, and those that hold a flush slot.
Undone == {n \in 1..Len(jobs) : jobs[n].pc # "done"}
Unflushed == {n \in 1..Len(jobs) : jobs[n].pc \in {"drain", "write", "publish", "persist"}}

AnyAt(S) == \E w \in Writers : wpc[w] \in S

\* As long as nothing fails, every WAL slot is free, or belongs to the current
\* buffer, to the pipelined one, to the one a writer is switching, or to a job; and
\* every flush slot is free, or belongs to a flushing writer or to a job. The next
\* buffer is made only while there is none, and not while a writer switches.
Balance ==
    /\ walFree \in Nat /\ slots \in Nat
    /\ \A n \in 1..Len(jobs) :
          jobs[n].pc \in {"drain", "write", "publish", "persist", "reset", "done"}
    /\ walFree + Cardinality(Undone) + Bit(pipelined # None) + Bit(AnyAt({"switch"}))
          = MaxFlushes + 1
    /\ slots + Cardinality(Unflushed) + Bit(AnyAt({"swap", "switch"})) = MaxFlushes
    /\ making \/ AnyAt({"switch"}) => pipelined = None
    /\ ~(making /\ AnyAt({"switch"}))

\* The sets of jobs are finite.
LEMMA JobSetsFinite ==
    ASSUME Inv
    PROVE /\ IsFiniteSet(Undone) /\ Cardinality(Undone) \in Nat
          /\ IsFiniteSet(Unflushed) /\ Cardinality(Unflushed) \in Nat
<1>1. IsFiniteSet(1..Len(jobs))
  BY FS_Interval, Indices, SMTT(30)
<1>2. Undone \subseteq 1..Len(jobs) /\ Unflushed \subseteq 1..Len(jobs)
  BY Zenon DEF Undone, Unflushed
<1> QED
  BY <1>1, <1>2, FS_Subset, FS_CardinalityType, ZenonT(60)

\* The balance holds in a new memtable.
LEMMA InitBalance == Init => Balance
<1> SUFFICES ASSUME Init PROVE Balance
  BY Zenon
<1>1. /\ jobs = <<>> /\ walFree = WalSlots - 2 /\ slots = MaxFlushes /\ pipelined = 2
      /\ ~making /\ wpc = [w \in Writers |-> "idle"]
  BY Zenon DEF Init
<1>2. Undone = {} /\ Unflushed = {} /\ ~AnyAt({"switch"}) /\ ~AnyAt({"swap", "switch"})
  BY <1>1 DEF Undone, Unflushed, AnyAt
<1>3. Cardinality({}) = 0
  BY FS_EmptySet, Zenon
<1>4. walFree = MaxFlushes /\ walFree \in Nat /\ slots \in Nat /\ pipelined # None
      /\ MaxFlushes \in Nat
  BY <1>1, MaxFlushesAssumption, SMTT(30) DEF WalSlots, None
<1> QED
  BY <1>1, <1>2, <1>3, <1>4, SMTT(30) DEF Balance, Bit

\* A step that takes and gives back no slot.
LEMMA BalanceKept ==
    ASSUME Inv, Balance, UNCHANGED <<walFree, slots, pipelined, making, jobs>>,
           \A w \in Writers : /\ wpc'[w] = "switch" <=> wpc[w] = "switch"
                              /\ wpc'[w] = "swap" <=> wpc[w] = "swap"
    PROVE Balance'
<1>1. AnyAt({"switch"})' <=> AnyAt({"switch"})
  BY Zenon DEF AnyAt
<1>2. AnyAt({"swap", "switch"})' <=> AnyAt({"swap", "switch"})
  BY Zenon DEF AnyAt
<1>3. Undone' = Undone /\ Unflushed' = Unflushed
  BY Zenon DEF Undone, Unflushed
<1>4. Bit(AnyAt({"switch"})') = Bit(AnyAt({"switch"}))
      /\ Bit(AnyAt({"swap", "switch"})') = Bit(AnyAt({"swap", "switch"}))
  BY <1>1, <1>2, Zenon DEF Bit
<1> HIDE DEF AnyAt
<1> QED
  BY <1>3, <1>4, SMTT(30) DEF Balance, Bit

\* The slot that a flushing writer takes, the buffer it swaps in, the job it starts.
LEMMA FlusherBalance ==
    ASSUME Inv, Balance, NEW w \in Writers, AwaitSlot(w) \/ Swap(w) \/ Launch(w)
    PROVE Balance'
<1>0. /\ \A v \in Writers : v # w => wpc[v] \notin InMutex /\ wpc'[v] = wpc[v]
      /\ w \in DOMAIN wpc
  <2>1. wpc[w] \in InMutex /\ \A v \in Writers : v # w => wpc'[v] = wpc[v]
    BY Zenon DEF AwaitSlot, Swap, Launch, InMutex, Goto, Inv, Gate, Shape
  <2> QED
    BY <2>1, OneSwitches, Zenon DEF Inv, Gate, Shape
<1>1. /\ walFree \in Nat /\ slots \in Nat /\ MaxFlushes \in Nat
      /\ Cardinality(Undone) \in Nat /\ Cardinality(Unflushed) \in Nat
  BY JobSetsFinite, MaxFlushesAssumption, ZenonT(60) DEF Balance
<1>2. CASE AwaitSlot(w)
  <2>1. /\ UNCHANGED <<walFree, pipelined, making, jobs>> /\ slots' = slots - 1 /\ slots > 0
        /\ wpc[w] = "slot" /\ wpc'[w] = "swap"
    BY <1>0, <1>2, Zenon DEF AwaitSlot, Goto
  <2>2. /\ ~AnyAt({"switch"}) /\ ~AnyAt({"switch"})'
        /\ ~AnyAt({"swap", "switch"}) /\ AnyAt({"swap", "switch"})'
    BY <1>0, <2>1, Zenon DEF AnyAt, InMutex
  <2>3. Undone' = Undone /\ Unflushed' = Unflushed
    BY <2>1, ZenonT(60) DEF Undone, Unflushed
  <2> QED
    BY <1>1, <2>1, <2>2, <2>3, SMTT(30) DEF Balance, Bit
<1>3. CASE Swap(w)
  <2>1. /\ UNCHANGED <<walFree, slots, making, jobs>> /\ pipelined # None /\ pipelined' = None
        /\ wpc[w] = "swap" /\ wpc'[w] = "switch"
    BY <1>0, <1>3, Zenon DEF Swap, Goto
  <2>2. /\ ~AnyAt({"switch"}) /\ AnyAt({"switch"})'
        /\ AnyAt({"swap", "switch"}) /\ AnyAt({"swap", "switch"})'
    BY <1>0, <2>1, Zenon DEF AnyAt, InMutex
  <2>3. Undone' = Undone /\ Unflushed' = Unflushed
    BY <2>1, ZenonT(60) DEF Undone, Unflushed
  <2> QED
    BY <1>1, <2>1, <2>2, <2>3, SMTT(30) DEF Balance, Bit
<1>4. CASE Launch(w)
  <2> DEFINE k == Len(jobs)
  <2>1. /\ UNCHANGED <<walFree, slots, pipelined>>
        /\ wpc[w] = "switch" /\ wpc'[w] = "leave"
    BY <1>0, <1>4, Zenon DEF Launch, Goto
  <2>2. /\ AnyAt({"switch"}) /\ ~AnyAt({"switch"})'
        /\ AnyAt({"swap", "switch"}) /\ ~AnyAt({"swap", "switch"})'
    BY <1>0, <2>1, ZenonT(60) DEF AnyAt, InMutex
  <2>3. /\ Len(jobs') = k + 1 /\ jobs'[k + 1].pc = "drain" /\ k \in Nat
        /\ \A n \in 1..k : jobs'[n] = jobs[n]
    <3>1. PICK e \in pending :
             jobs' = Append(jobs, [epoch |-> e[1], table |-> e[2], pc |-> "drain", sst |-> None])
      BY <1>4, Zenon DEF Launch
    <3> DEFINE new == [epoch |-> e[1], table |-> e[2], pc |-> "drain", sst |-> None]
    <3>2. jobs' = Append(jobs, new) /\ new.pc = "drain"
      BY <3>1, Zenon
    <3> HIDE DEF new
    <3> QED
      BY <3>2, JobsShape, AppendIsSeq, SMTT(30)
  <2> HIDE DEF k
  <2>4. /\ k + 1 \notin 1..k /\ 1..(k + 1) = (1..k) \cup {k + 1}
    BY <2>3
  <2>5. /\ Undone' = Undone \cup {k + 1} /\ Unflushed' = Unflushed \cup {k + 1}
        /\ k + 1 \notin Undone /\ k + 1 \notin Unflushed
    BY <2>3, <2>4, Zenon DEF Undone, Unflushed, k
  <2>6. /\ Cardinality(Undone') = Cardinality(Undone) + 1
        /\ Cardinality(Unflushed') = Cardinality(Unflushed) + 1
    BY <2>5, JobSetsFinite, FS_AddElement, ZenonT(60)
  <2>7. \A n \in 1..Len(jobs') :
           jobs'[n].pc \in {"drain", "write", "publish", "persist", "reset", "done"}
    BY <2>3, <2>4, ZenonT(60) DEF Balance, k
  <2> QED
    BY <1>1, <2>1, <2>2, <2>6, <2>7, SMTT(30) DEF Balance, Bit
<1> QED
  BY <1>2, <1>3, <1>4, Zenon

\* The WAL slot of a new pipelined buffer.
LEMMA MakeBalance ==
    ASSUME Inv, Balance, MakePipelined
    PROVE Balance'
<1>1. /\ UNCHANGED <<slots, jobs, wpc>> /\ walFree' = walFree - 1 /\ walFree > 0
      /\ pipelined' # None /\ making /\ ~making'
  BY Indices DEF MakePipelined, putVars, None
<1>2. pipelined = None /\ ~AnyAt({"switch"})
  BY <1>1, Zenon DEF Balance
<1>3. Undone' = Undone /\ Unflushed' = Unflushed
  BY <1>1, Zenon DEF Undone, Unflushed
<1>4. /\ walFree \in Nat /\ slots \in Nat /\ MaxFlushes \in Nat
      /\ Cardinality(Undone) \in Nat /\ Cardinality(Unflushed) \in Nat
  BY JobSetsFinite, MaxFlushesAssumption, Zenon DEF Balance
<1>5. /\ AnyAt({"switch"})' <=> AnyAt({"switch"})
      /\ AnyAt({"swap", "switch"})' <=> AnyAt({"swap", "switch"})
  BY <1>1, Zenon DEF AnyAt
<1> QED
  BY <1>1, <1>2, <1>3, <1>4, <1>5, SMTT(30) DEF Balance, Bit

\* A job keeps both slots until it gives back first the one, then the other.
LEMMA JobBalance ==
    ASSUME Inv, Balance, NEW n \in DOMAIN jobs, JobStep(n)
    PROVE Balance'
<1>0. UNCHANGED <<pipelined, making, wpc>> /\ n \in 1..Len(jobs)
  BY Indices, Zenon DEF JobStep, Drain, Write, Publish, ReleaseSlot, ResetWal, putVars
<1>1. /\ walFree \in Nat /\ slots \in Nat /\ MaxFlushes \in Nat
      /\ Cardinality(Undone) \in Nat /\ Cardinality(Unflushed) \in Nat
  BY JobSetsFinite, MaxFlushesAssumption, Zenon DEF Balance
<1>2. /\ AnyAt({"switch"})' <=> AnyAt({"switch"})
      /\ AnyAt({"swap", "switch"})' <=> AnyAt({"swap", "switch"})
  BY <1>0, Zenon DEF AnyAt
<1> HIDE DEF AnyAt
<1>3. ASSUME NEW at, IsJobUpdate(jobs, jobs', n, at)
      PROVE /\ Len(jobs') = Len(jobs) /\ jobs'[n].pc = at
            /\ \A i \in 1..Len(jobs) : i # n => jobs'[i].pc = jobs[i].pc
  <2>1. JobMoved(jobs, jobs', n, at)
    BY <1>0, <1>3, JobsShape, MoveJob, ZenonT(60)
  <2> QED
    BY <2>1, Zenon DEF JobMoved
<1>4. CASE Drain(n) \/ Write(n) \/ Publish(n)
  <2>1. PICK at \in {"write", "publish", "persist"} : IsJobUpdate(jobs, jobs', n, at)
    <3>1. CASE Write(n)
      BY <3>1, ZenonT(60) DEF Write, IsJobUpdate
    <3>2. CASE Drain(n)
      BY <3>2, Zenon DEF Drain, JobGoto, IsJobUpdate
    <3>3. CASE Publish(n)
      BY <3>3, Zenon DEF Publish, JobGoto, IsJobUpdate
    <3> QED
      BY <1>4, <3>1, <3>2, <3>3, ZenonT(60)
  <2>2. jobs[n].pc \in {"drain", "write", "publish"} /\ UNCHANGED <<walFree, slots>>
    BY <1>4, Zenon DEF Drain, Write, Publish, JobAt
  <2>3. Undone' = Undone /\ Unflushed' = Unflushed
    BY <1>0, <1>3, <2>1, <2>2, Zenon DEF Undone, Unflushed
  <2>4. \A i \in 1..Len(jobs') :
           jobs'[i].pc \in {"drain", "write", "publish", "persist", "reset", "done"}
    BY <1>3, <2>1, Zenon DEF Balance
  <2> QED
    BY <1>0, <1>1, <1>2, <2>2, <2>3, <2>4, ZenonT(60) DEF Balance, Bit
<1>5. CASE ReleaseSlot(n)
  <2>1. IsJobUpdate(jobs, jobs', n, "reset")
    BY <1>5, Zenon DEF ReleaseSlot, JobGoto, IsJobUpdate
  <2>2. jobs[n].pc = "persist" /\ UNCHANGED walFree /\ slots' = slots + 1
    BY <1>5, ZenonT(60) DEF ReleaseSlot, JobAt
  <2>3. Undone' = Undone /\ Unflushed' = Unflushed \ {n} /\ n \in Unflushed
    <3>1. /\ Len(jobs') = Len(jobs) /\ jobs'[n].pc = "reset"
          /\ \A i \in 1..Len(jobs) : i # n => jobs'[i].pc = jobs[i].pc
      BY <1>3, <2>1, Zenon
    <3> QED
      BY <1>0, <2>2, <3>1, SMTT(30) DEF Undone, Unflushed
  <2>4. Cardinality(Unflushed') = Cardinality(Unflushed) - 1
    BY <2>3, JobSetsFinite, FS_RemoveElement, ZenonT(60)
  <2>5. \A i \in 1..Len(jobs') :
           jobs'[i].pc \in {"drain", "write", "publish", "persist", "reset", "done"}
    BY <1>3, <2>1, ZenonT(60) DEF Balance
  <2>6. /\ Bit(AnyAt({"swap", "switch"})) \in Nat
        /\ Bit(AnyAt({"switch"})') = Bit(AnyAt({"switch"}))
        /\ Bit(AnyAt({"swap", "switch"})') = Bit(AnyAt({"swap", "switch"}))
    BY <1>2, ZenonT(60) DEF Bit
  <2>7. slots' + Cardinality(Unflushed') + Bit(AnyAt({"swap", "switch"})) = MaxFlushes
    BY <1>1, <2>2, <2>4, <2>6, SMTT(30) DEF Balance
  <2>8. Cardinality(Undone') = Cardinality(Undone) /\ slots' \in Nat
    BY <1>1, <2>2, <2>3, SMTT(30)
  <2>9. /\ making' \/ AnyAt({"switch"})' => pipelined' = None
        /\ ~(making' /\ AnyAt({"switch"})')
    BY <1>0, <1>2, Zenon DEF Balance
  <2> QED
    BY <1>0, <2>2, <2>5, <2>6, <2>7, <2>8, <2>9, ZenonT(60) DEF Balance
<1>6. CASE ResetWal(n)
  <2>1. IsJobUpdate(jobs, jobs', n, "done")
    BY <1>6, Zenon DEF ResetWal, JobGoto, IsJobUpdate
  <2>2. jobs[n].pc = "reset" /\ UNCHANGED slots /\ walFree' = walFree + 1
    BY <1>6, ZenonT(60) DEF ResetWal, JobAt
  <2>3. Undone' = Undone \ {n} /\ Unflushed' = Unflushed /\ n \in Undone
    <3>1. /\ Len(jobs') = Len(jobs) /\ jobs'[n].pc = "done"
          /\ \A i \in 1..Len(jobs) : i # n => jobs'[i].pc = jobs[i].pc
      BY <1>3, <2>1, Zenon
    <3> QED
      BY <1>0, <2>2, <3>1, SMTT(30) DEF Undone, Unflushed
  <2>4. Cardinality(Undone') = Cardinality(Undone) - 1
    BY <2>3, JobSetsFinite, FS_RemoveElement, ZenonT(60)
  <2>5. \A i \in 1..Len(jobs') :
           jobs'[i].pc \in {"drain", "write", "publish", "persist", "reset", "done"}
    BY <1>3, <2>1, ZenonT(60) DEF Balance
  <2>6. /\ Bit(pipelined # None) \in Nat /\ Bit(AnyAt({"switch"})) \in Nat
        /\ Bit(AnyAt({"switch"})') = Bit(AnyAt({"switch"}))
        /\ Bit(AnyAt({"swap", "switch"})') = Bit(AnyAt({"swap", "switch"}))
    BY <1>2, ZenonT(60) DEF Bit
  <2>7. walFree' + Cardinality(Undone') + Bit(pipelined # None) + Bit(AnyAt({"switch"}))
           = MaxFlushes + 1
    BY <1>1, <2>2, <2>4, <2>6, SMTT(30) DEF Balance
  <2>8. Cardinality(Unflushed') = Cardinality(Unflushed) /\ walFree' \in Nat
    BY <1>1, <2>2, <2>3, SMTT(30)
  <2>9. /\ making' \/ AnyAt({"switch"})' => pipelined' = None
        /\ ~(making' /\ AnyAt({"switch"})')
    BY <1>0, <1>2, Zenon DEF Balance
  <2> QED
    BY <1>0, <2>2, <2>5, <2>6, <2>7, <2>8, <2>9, ZenonT(60) DEF Balance
<1> QED
  BY <1>4, <1>5, <1>6, Zenon DEF JobStep

\* Every step without failures preserves the balance.
LEMMA NextBalance == Inv /\ Balance /\ [WriteNext]_vars => Balance'
<1> SUFFICES ASSUME Inv, Balance, [WriteNext]_vars PROVE Balance'
  BY Zenon
<1>1. CASE UNCHANGED vars
  BY <1>1, BalanceKept, Zenon DEF vars, flushVars, putVars
<1>2. ASSUME NEW w \in Writers,
             \/ Put(w) \/ Acquire(w) \/ Reload(w) \/ Insert(w) \/ Log(w) \/ Leave(w)
             \/ TryFlush(w) \/ Guard(w)
      PROVE Balance'
  <2>1. UNCHANGED <<walFree, slots, pipelined, making, jobs>>
    BY <1>2, ZenonT(60) DEF Put, Acquire, Reload, Insert, Log, Leave, TryFlush, Guard, flushVars
  <2>2. /\ wpc[w] \notin {"swap", "switch"} /\ wpc'[w] \notin {"swap", "switch"}
        /\ \A v \in Writers : v # w => wpc'[v] = wpc[v]
    <3>1. wpc[w] \notin {"swap", "switch"}
      BY <1>2, Zenon DEF Put, Acquire, Reload, Insert, Log, Leave, TryFlush, Guard
    <3>2. \/ wpc' = wpc
          \/ \E p \in Points \ {"swap", "switch"} : wpc' = [wpc EXCEPT ![w] = p]
      BY <1>2, ZenonT(60) DEF Put, Acquire, Reload, Insert, Log, Leave, TryFlush, Guard, Goto, Points
    <3> QED
      BY <3>1, <3>2, ZenonT(60) DEF Inv, Gate, Shape
  <2> QED
    BY <2>1, <2>2, BalanceKept, ZenonT(60)
<1>3. ASSUME NEW w \in Writers, AwaitSlot(w) \/ Swap(w) \/ Launch(w)
      PROVE Balance'
  BY <1>3, FlusherBalance, Zenon
<1>4. CASE MakePipelined
  BY <1>4, MakeBalance, Zenon
<1>5. ASSUME NEW n \in DOMAIN jobs, JobStep(n)
      PROVE Balance'
  BY <1>5, JobBalance, ZenonT(60)
<1> QED
  BY <1>1, <1>2, <1>3, <1>4, <1>5, ZenonT(60) DEF WriteNext, WriterStep

\* With all WAL slots taken and no job about to return its own, more jobs would hold
\* a flush slot than there are flush slots.
LEMMA BalanceFreesMaker ==
    ASSUME Inv, Balance
    PROVE MakerWaitsOnlyForReset
<1> SUFFICES ASSUME making, walFree = 0, \A n \in DOMAIN jobs : jobs[n].pc # "reset"
             PROVE FALSE
  BY Zenon DEF MakerWaitsOnlyForReset
<1>1. pipelined = None /\ ~AnyAt({"switch"})
  BY Zenon DEF Balance
<1>2. Undone = Unflushed
  BY Indices, Zenon DEF Undone, Unflushed, Balance
<1>3. /\ slots \in Nat /\ MaxFlushes \in Nat /\ Cardinality(Undone) \in Nat
      /\ Bit(AnyAt({"swap", "switch"})) \in Nat
  BY JobSetsFinite, MaxFlushesAssumption, ZenonT(60) DEF Balance, Bit
<1>4. Cardinality(Undone) = MaxFlushes + 1
  BY <1>1, <1>3, SMTT(30) DEF Balance, Bit
<1>5. Cardinality(Undone) <= MaxFlushes
  BY <1>2, <1>3 DEF Balance
<1> QED
  BY <1>3, <1>4, <1>5, SMTT(30)

\* For any writers and any max_pending_flushes, and as long as no write fails,
\* "1 active + 1 pipelined + max_pending_flushes pending" WAL slots are enough: the
\* maker of the next buffer waits only for a job that is past its flush slot and
\* about to give its WAL slot back.
THEOREM MakerNeverStarves == FairSpec => []MakerWaitsOnlyForReset
<1>1. [WriteNext]_vars => [Next]_vars
  BY Zenon DEF Next
<1>2. FairSpec => Init /\ [][WriteNext]_vars
  BY PTL DEF FairSpec
<1>3. FairSpec => Spec
  BY <1>1, <1>2, PTL DEF Spec
<1>4. Inv /\ Balance => MakerWaitsOnlyForReset
  BY BalanceFreesMaker, Zenon
<1> QED
  BY <1>2, <1>3, <1>4, InvAlways, InitBalance, NextBalance, PTL
=============================================================================
