----------------------------- MODULE MCIoContext -----------------------------
EXTENDS IoContext

CONSTANTS a, b

\* Eight requests of five tasks can fill the completion queue of one thread, which
\* has four entries; two threads share fewer.
SmallExecutors ==
    {[threads |-> {a}, work |-> <<2, 2, 2, 1, 1>>],
     [threads |-> {a, b}, work |-> <<2, 1, 2, 0, 0>>],
     [threads |-> {a, b}, work |-> <<0, 1, 1, 1, 1>>]}
=============================================================================
