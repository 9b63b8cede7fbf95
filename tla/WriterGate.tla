----------------------------- MODULE WriterGate -----------------------------
(***************************************************************************)
(* What one memtable buffer promises its flusher: writers come and go while *)
(* the gate is open; once it is closed nobody enters; and it is drained     *)
(* only when nobody is inside.  A flusher that has seen "drained" may read   *)
(* the buffer without locks.  RwSync implements this with striped counters.  *)
(***************************************************************************)
CONSTANT Writers

VARIABLES
    inside,     \* the writers holding the buffer
    gate        \* "open" -> "closed" -> "drained"

vars == <<inside, gate>>

Init == inside = {} /\ gate = "open"

Enter(w) == /\ gate = "open"
            /\ w \notin inside
            /\ inside' = inside \cup {w}
            /\ UNCHANGED gate

Leave(w) == /\ w \in inside
            /\ inside' = inside \ {w}
            /\ UNCHANGED gate

Close == gate = "open" /\ gate' = "closed" /\ UNCHANGED inside

Drain == gate = "closed" /\ inside = {} /\ gate' = "drained" /\ UNCHANGED inside

Next == \/ \E w \in Writers : Enter(w) \/ Leave(w)
        \/ Close
        \/ Drain

Spec == Init /\ [][Next]_vars
=============================================================================
