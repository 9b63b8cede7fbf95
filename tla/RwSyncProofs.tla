---------------------------- MODULE RwSyncProofs ----------------------------
(***************************************************************************)
(* Proofs about RwSync for any number of writers and counters.              *)
(*                                                                         *)
(* The safety argument: a writer past its announcement holds its counter up  *)
(* (AnnouncedIsCounted), so a pass that finds a counter at zero knows its    *)
(* writer is not inside (PassedIsQuiet), and nobody enters behind the pass   *)
(* because passes only happen once the flag is set (PassMeansFrozen).        *)
(***************************************************************************)
EXTENDS RwSync, TLAPS

\* A writer that announced itself and did not back off keeps its counter at 1.
AnnouncedIsCounted ==
    \A w \in Writers : wpc[w] \in {"announced", "inside"} => counters[SlotOf[w]] = 1

\* The flusher only reads counters of a frozen buffer.
PassMeansFrozen == scanned > 0 \/ drained => frozen

\* No writer is inside behind the counters the current pass has read.
PassedIsQuiet == \A w \in Writers : SlotOf[w] <= scanned => wpc[w] # "inside"

\* The waiting loop ends only after a full pass.
DrainedIsFullPass == drained => scanned = NumSlots

Handshake == /\ AnnouncedIsCounted
             /\ PassMeansFrozen
             /\ PassedIsQuiet
             /\ DrainedIsFullPass

IInv == TypeOK /\ Handshake

\* Every step of rw_sync keeps its state well typed.
LEMMA TypingStep == TypeOK /\ [Next]_vars => TypeOK'
<1> SUFFICES ASSUME TypeOK, [Next]_vars PROVE TypeOK'
  OBVIOUS
<1> USE NumSlotsAssumption, SlotOfAssumption, AttemptsAssumption DEF TypeOK, Slots
<1>1. ASSUME NEW w \in Writers, Announce(w) PROVE TypeOK'
  BY <1>1 DEF Announce
<1>2. ASSUME NEW w \in Writers, Enter(w) PROVE TypeOK'
  BY <1>2 DEF Enter
<1>3. ASSUME NEW w \in Writers, BackOff(w) PROVE TypeOK'
  BY <1>3 DEF BackOff
<1>4. ASSUME NEW w \in Writers, Release(w) PROVE TypeOK'
  BY <1>4 DEF Release
<1>5. CASE Freeze
  BY <1>5 DEF Freeze
<1>6. CASE SeeIdle
  BY <1>6 DEF SeeIdle
<1>7. CASE SeeActive
  BY <1>7 DEF SeeActive
<1>8. CASE Drain
  BY <1>8 DEF Drain
<1>9. CASE UNCHANGED vars
  BY <1>9 DEF vars
<1> QED
  BY <1>1, <1>2, <1>3, <1>4, <1>5, <1>6, <1>7, <1>8, <1>9
  DEF Next, WriterStep, FlusherStep

\* With a counter per writer, every step keeps the inductive invariant.
LEMMA InvariantStep == ASSUME Unaliased PROVE IInv /\ [Next]_vars => IInv'
<1> SUFFICES ASSUME IInv, [Next]_vars PROVE IInv'
  OBVIOUS
<1> USE NumSlotsAssumption, SlotOfAssumption DEF Slots
<1>0. TypeOK'
  BY TypingStep DEF IInv
<1> SUFFICES Handshake'
  BY <1>0 DEF IInv
<1>1. ASSUME NEW w \in Writers, Announce(w) PROVE Handshake'
  BY <1>1 DEF Announce, IInv, Handshake, TypeOK, AnnouncedIsCounted, PassMeansFrozen,
              PassedIsQuiet, DrainedIsFullPass
<1>2. ASSUME NEW w \in Writers, Enter(w) PROVE Handshake'
  <2>1. scanned = 0 /\ ~drained
    BY <1>2 DEF Enter, IInv, Handshake, TypeOK, PassMeansFrozen
  <2>2. PassedIsQuiet'
    BY <1>2, <2>1 DEF Enter, PassedIsQuiet
  <2> QED
    BY <1>2, <2>1, <2>2 DEF Enter, IInv, Handshake, TypeOK, AnnouncedIsCounted,
                            PassMeansFrozen, DrainedIsFullPass
<1>3. ASSUME NEW w \in Writers, BackOff(w) PROVE Handshake'
  <2>1. AnnouncedIsCounted'
    <3> SUFFICES ASSUME NEW v \in Writers, wpc'[v] \in {"announced", "inside"}
                 PROVE  counters'[SlotOf[v]] = 1
      BY DEF AnnouncedIsCounted
    <3>1. v # w
      BY <1>3 DEF BackOff, IInv, Handshake, TypeOK
    <3>2. SlotOf[v] # SlotOf[w]
      BY <3>1 DEF Unaliased
    <3> QED
      BY <1>3, <3>1, <3>2 DEF BackOff, IInv, Handshake, TypeOK, AnnouncedIsCounted
  <2>2. PassedIsQuiet'
    BY <1>3 DEF BackOff, IInv, Handshake, TypeOK, PassedIsQuiet
  <2> QED
    BY <1>3, <2>1, <2>2 DEF BackOff, IInv, Handshake, PassMeansFrozen, DrainedIsFullPass
<1>4. ASSUME NEW w \in Writers, Release(w) PROVE Handshake'
  <2>1. AnnouncedIsCounted'
    <3> SUFFICES ASSUME NEW v \in Writers, wpc'[v] \in {"announced", "inside"}
                 PROVE  counters'[SlotOf[v]] = 1
      BY DEF AnnouncedIsCounted
    <3>1. v # w
      BY <1>4 DEF Release, IInv, Handshake, TypeOK
    <3>2. SlotOf[v] # SlotOf[w]
      BY <3>1 DEF Unaliased
    <3> QED
      BY <1>4, <3>1, <3>2 DEF Release, IInv, Handshake, TypeOK, AnnouncedIsCounted
  <2>2. PassedIsQuiet'
    BY <1>4 DEF Release, IInv, Handshake, TypeOK, PassedIsQuiet
  <2> QED
    BY <1>4, <2>1, <2>2 DEF Release, IInv, Handshake, PassMeansFrozen, DrainedIsFullPass
<1>5. CASE Freeze
  BY <1>5 DEF Freeze, IInv, Handshake, AnnouncedIsCounted, PassMeansFrozen,
              PassedIsQuiet, DrainedIsFullPass
<1>6. CASE SeeIdle
  <2>1. ASSUME NEW w \in Writers, SlotOf[w] <= scanned' PROVE wpc[w] # "inside"
    <3>1. SlotOf[w] \in 1..NumSlots
      OBVIOUS
    <3>2. SlotOf[w] <= scanned \/ SlotOf[w] = scanned + 1
      BY <1>6, <2>1, <3>1 DEF SeeIdle, IInv, Handshake, TypeOK
    <3> QED
      BY <1>6, <3>2 DEF SeeIdle, IInv, Handshake, TypeOK, AnnouncedIsCounted, PassedIsQuiet
  <2> QED
    BY <1>6, <2>1 DEF SeeIdle, IInv, Handshake, AnnouncedIsCounted, PassMeansFrozen,
                      PassedIsQuiet, DrainedIsFullPass
<1>7. CASE SeeActive
  BY <1>7 DEF SeeActive, IInv, Handshake, TypeOK, AnnouncedIsCounted, PassMeansFrozen,
              PassedIsQuiet, DrainedIsFullPass
<1>8. CASE Drain
  BY <1>8 DEF Drain, IInv, Handshake, AnnouncedIsCounted, PassMeansFrozen,
              PassedIsQuiet, DrainedIsFullPass
<1>9. CASE UNCHANGED vars
  BY <1>9 DEF vars, IInv, Handshake, AnnouncedIsCounted, PassMeansFrozen,
              PassedIsQuiet, DrainedIsFullPass
<1> QED
  BY <1>1, <1>2, <1>3, <1>4, <1>5, <1>6, <1>7, <1>8, <1>9
  DEF Next, WriterStep, FlusherStep

\* A new buffer is well typed.
LEMMA TypingInit == Init => TypeOK
<1> SUFFICES ASSUME Init PROVE TypeOK
  OBVIOUS
<1>1. frozen \in BOOLEAN /\ drained \in BOOLEAN
  BY Zenon DEF Init
<1>2. scanned \in 0..NumSlots
  BY NumSlotsAssumption DEF Init
<1>3. /\ counters \in [Slots -> 0..1]
      /\ wpc \in [Writers -> {"idle", "announced", "inside", "gone"}]
      /\ failed \in [Writers -> Nat]
  BY DEF Init
<1> QED
  BY <1>1, <1>2, <1>3 DEF TypeOK

\* The invariant holds when the buffer is made.
LEMMA InvariantInit == Init => IInv
<1> SUFFICES ASSUME Init PROVE IInv
  OBVIOUS
<1>1. TypeOK
  BY TypingInit
<1>2. AnnouncedIsCounted /\ PassedIsQuiet
  BY DEF Init, AnnouncedIsCounted, PassedIsQuiet
<1>3. PassMeansFrozen /\ DrainedIsFullPass
  BY DEF Init, PassMeansFrozen, DrainedIsFullPass
<1> QED
  BY <1>1, <1>2, <1>3 DEF IInv, Handshake

\* A full pass that saw only zeros leaves no writer inside.
LEMMA InvariantSafe == IInv => DrainedIsQuiet
BY NumSlotsAssumption, SlotOfAssumption
DEF IInv, Handshake, TypeOK, PassedIsQuiet, DrainedIsFullPass, DrainedIsQuiet, Inside

\* rw_sync keeps its state well typed, aliased counters or not.
THEOREM Typing == Spec => []TypeOK
BY TypingInit, TypingStep, PTL DEF Spec

\* With a counter per writer the flusher never reads a buffer somebody writes:
\* after any_active_writer() returned false no writer is inside, now or later.
THEOREM GateSafety == ASSUME Unaliased PROVE Spec => []DrainedIsQuiet
<1>1. Spec => []IInv
  BY InvariantInit, InvariantStep, PTL DEF Spec
<1> QED
  BY <1>1, InvariantSafe, PTL

\* With a counter per writer rw_sync implements the WriterGate.
THEOREM Refinement == ASSUME Unaliased PROVE Spec => ImplementsGate
<1> USE DEF Gate!Init, Gate!Next, Gate!vars
<1>1. Init => Gate!Init
  BY DEF Init, Inside
<1>2. IInv /\ [Next]_vars => [Gate!Next]_(Gate!vars)
  <2> SUFFICES ASSUME IInv, [Next]_vars PROVE [Gate!Next]_(Gate!vars)
    OBVIOUS
  <2>1. ASSUME NEW w \in Writers, Announce(w) PROVE UNCHANGED Gate!vars
    BY <2>1 DEF Announce, Inside, IInv, Handshake, TypeOK
  <2>2. ASSUME NEW w \in Writers, Enter(w) PROVE Gate!Enter(w)
    <3>1. ~drained
      BY <2>2 DEF Enter, IInv, Handshake, PassMeansFrozen
    <3>2. Inside' = Inside \cup {w}
      BY <2>2 DEF Enter, Inside, IInv, Handshake, TypeOK
    <3>3. w \notin Inside
      BY <2>2 DEF Enter, Inside
    <3> QED
      BY <2>2, <3>1, <3>2, <3>3 DEF Enter, Gate!Enter
  <2>3. ASSUME NEW w \in Writers, BackOff(w) PROVE UNCHANGED Gate!vars
    BY <2>3 DEF BackOff, Inside, IInv, Handshake, TypeOK
  <2>4. ASSUME NEW w \in Writers, Release(w) PROVE Gate!Leave(w)
    <3>1. Inside' = Inside \ {w}
      BY <2>4 DEF Release, Inside, IInv, Handshake, TypeOK
    <3> QED
      BY <2>4, <3>1 DEF Release, Inside, Gate!Leave
  <2>5. CASE Freeze
    BY <2>5 DEF Freeze, Inside, IInv, Handshake, PassMeansFrozen, Gate!Close
  <2>6. CASE SeeIdle
    BY <2>6 DEF SeeIdle, Inside
  <2>7. CASE SeeActive
    BY <2>7 DEF SeeActive, Inside
  <2>8. CASE Drain
    <3>1. IInv'
      BY InvariantStep
    <3>2. Inside' = {}
      <4>1. DrainedIsQuiet'
        BY <3>1, InvariantSafe, PTL
      <4> QED
        BY <2>8, <4>1 DEF Drain, DrainedIsQuiet
    <3> QED
      BY <2>8, <3>2 DEF Drain, Inside, Gate!Drain
  <2>9. CASE UNCHANGED vars
    BY <2>9 DEF vars, Inside
  <2> QED
    BY <2>1, <2>2, <2>3, <2>4, <2>5, <2>6, <2>7, <2>8, <2>9
    DEF Next, WriterStep, FlusherStep
<1>3. Spec => []IInv
  BY InvariantInit, InvariantStep, PTL DEF Spec
<1> QED
  BY <1>1, <1>2, <1>3, PTL DEF Spec, ImplementsGate, Gate!Spec
=============================================================================
