------------------------------- MODULE RwSync -------------------------------
(***************************************************************************)
(* src/src/async/rw_sync.h: the striped writer gate around one memtable     *)
(* buffer.  A writer stores 1 in the counter of its slot, and only then      *)
(* loads the frozen flag; the flusher stores the flag, and only then reads   *)
(* the counters, one at a time, until one pass finds them all zero.  The     *)
(* seq_cst fence between the writer's store and load, and the seq_cst store  *)
(* and loads of the flusher, make every such access one atomic step here.    *)
(*                                                                         *)
(* Each access is a step of its own, so a pass of the flusher interleaves    *)
(* with announcements, withdrawals and releases in every order.              *)
(***************************************************************************)
EXTENDS Integers

CONSTANTS
    Writers,    \* the threads (or coroutines) calling acquire_writer
    NumSlots,   \* thread_count: the number of counters
    SlotOf,     \* this_thread_idx of each writer
    Attempts    \* failed acquisitions after which put_async stops trying

ASSUME NumSlotsAssumption == NumSlots \in Nat \ {0}
ASSUME SlotOfAssumption == SlotOf \in [Writers -> 1..NumSlots]
ASSUME AttemptsAssumption == Attempts \in Nat

\* Every writer has a counter of its own.
Unaliased == \A v, w \in Writers : SlotOf[v] = SlotOf[w] => v = w

VARIABLES
    frozen,     \* _frozen
    counters,   \* _counters[i].c
    wpc,        \* where each writer is in acquire_writer / its write
    failed,     \* insert_attempts of put_async on this buffer
    scanned,    \* counters the current any_active_writer() pass found zero
    drained     \* the flusher has left its waiting loop

vars == <<frozen, counters, wpc, failed, scanned, drained>>

Slots == 1..NumSlots

\* The types of the variables: a counter of rw_sync is a flag, and the pass of
\* any_active_writer stays within the counters.
TypeOK == /\ frozen \in BOOLEAN
          /\ counters \in [Slots -> 0..1]
          /\ wpc \in [Writers -> {"idle", "announced", "inside", "gone"}]
          /\ failed \in [Writers -> Nat]
          /\ scanned \in 0..NumSlots
          /\ drained \in BOOLEAN

Init == /\ frozen = FALSE
        /\ counters = [i \in Slots |-> 0]
        /\ wpc = [w \in Writers |-> "idle"]
        /\ failed = [w \in Writers |-> 0]
        /\ scanned = 0
        /\ drained = FALSE

-----------------------------------------------------------------------------
(* The writer *)

\* A writer that loads the flag without having announced itself.
AnnounceWithoutStore(w) ==
    /\ wpc[w] = "idle"
    /\ wpc' = [wpc EXCEPT ![w] = "announced"]
    /\ UNCHANGED <<frozen, counters, failed, scanned, drained>>

\* acquire_writer: counter.store(1).
Announce(w) ==
    /\ wpc[w] = "idle"
    /\ counters' = [counters EXCEPT ![SlotOf[w]] = 1]
    /\ wpc' = [wpc EXCEPT ![w] = "announced"]
    /\ UNCHANGED <<frozen, failed, scanned, drained>>

\* A writer that enters whatever the flag says.
EnterUnchecked(w) ==
    /\ wpc[w] = "announced"
    /\ wpc' = [wpc EXCEPT ![w] = "inside"]
    /\ UNCHANGED <<frozen, counters, failed, scanned, drained>>

\* acquire_writer: the flag is clear, the buffer is handed out.
Enter(w) ==
    /\ wpc[w] = "announced"
    /\ ~frozen
    /\ wpc' = [wpc EXCEPT ![w] = "inside"]
    /\ UNCHANGED <<frozen, counters, failed, scanned, drained>>

\* acquire_writer: the flag is set, counter.store(0), nullptr is returned.
\* put_async tries the same buffer again Attempts times and then awaits the
\* next one; it may also find the next one installed and leave at once.
BackOff(w) ==
    /\ wpc[w] = "announced"
    /\ frozen
    /\ counters' = [counters EXCEPT ![SlotOf[w]] = 0]
    /\ failed' = [failed EXCEPT ![w] = @ + 1]
    /\ \E next \in {"idle", "gone"} :
          /\ next = "idle" => failed[w] < Attempts
          /\ wpc' = [wpc EXCEPT ![w] = next]
    /\ UNCHANGED <<frozen, scanned, drained>>

\* A release that forgets the counter.
ReleaseKeepingCounter(w) ==
    /\ wpc[w] = "inside"
    /\ wpc' = [wpc EXCEPT ![w] = "idle"]
    /\ UNCHANGED <<frozen, counters, failed, scanned, drained>>

\* acquired_writer::release: counter.store(0).
Release(w) ==
    /\ wpc[w] = "inside"
    /\ counters' = [counters EXCEPT ![SlotOf[w]] = 0]
    /\ wpc' = [wpc EXCEPT ![w] = "idle"]
    /\ UNCHANGED <<frozen, failed, scanned, drained>>

-----------------------------------------------------------------------------
(* The flusher *)

\* freeze_writes.
Freeze ==
    /\ ~frozen
    /\ frozen' = TRUE
    /\ UNCHANGED <<counters, wpc, failed, scanned, drained>>

\* any_active_writer: the next counter is zero, the pass goes on.
SeeIdle ==
    /\ frozen /\ ~drained
    /\ scanned < NumSlots
    /\ counters[scanned + 1] = 0
    /\ scanned' = scanned + 1
    /\ UNCHANGED <<frozen, counters, wpc, failed, drained>>

\* any_active_writer: a counter is up, the flusher yields and starts again.
SeeActive ==
    /\ frozen /\ ~drained
    /\ scanned < NumSlots
    /\ counters[scanned + 1] > 0
    /\ scanned' = 0
    /\ UNCHANGED <<frozen, counters, wpc, failed, drained>>

\* any_active_writer returned false: the waiting loop ends.
Drain ==
    /\ frozen /\ ~drained
    /\ scanned = NumSlots
    /\ drained' = TRUE
    /\ UNCHANGED <<frozen, counters, wpc, failed, scanned>>

-----------------------------------------------------------------------------
WriterStep(w) == Announce(w) \/ Enter(w) \/ BackOff(w) \/ Release(w)

FlusherStep == SeeIdle \/ SeeActive \/ Drain

Next == (\E w \in Writers : WriterStep(w)) \/ Freeze \/ FlusherStep

Spec == Init /\ [][Next]_vars

\* A thread that announced itself or holds the buffer goes on running, and so
\* does the flusher.  Nothing says a new put must come, or a flush must start.
Fairness == /\ WF_vars(FlusherStep)
            /\ \A w \in Writers : WF_vars(Enter(w) \/ BackOff(w) \/ Release(w))

FairSpec == Spec /\ Fairness

-----------------------------------------------------------------------------
(* Properties *)

Inside == {w \in Writers : wpc[w] = "inside"}

\* Once _flush_inner has left its loop on any_active_writer(), no writer holds
\* the buffer, at that moment or at any later one: the flush reads a buffer
\* that no longer changes.
DrainedIsQuiet == drained => Inside = {}

\* A frozen buffer is eventually drained: the flusher does not wait for ever on
\* writers that only come to be turned away.
FrozenDrains == frozen ~> drained

\* The gate that these steps implement.
Gate == INSTANCE WriterGate WITH
            inside <- Inside,
            gate <- IF drained THEN "drained" ELSE IF frozen THEN "closed" ELSE "open"

\* rw_sync is a WriterGate: entering is the load that finds the flag clear,
\* closing the store of the flag, draining the end of the first clean pass.
ImplementsGate == Gate!Spec
=============================================================================
