------------------------------ MODULE MCRwSync ------------------------------
EXTENDS RwSync

\* Three writers, each with a counter of its own.
OwnSlots == [w \in 1..3 |-> w]

\* Three writers on two counters: THIS_THREAD_IDX % num_writer_threads.
SharedSlots == [w \in 1..3 |-> IF w = 3 THEN 1 ELSE w]
=============================================================================
