----------------------------- MODULE MCMemtable -----------------------------
EXTENDS Memtable, TLC

\* Writers are interchangeable.
WriterSymmetry == Permutations(Writers)
=============================================================================
