----------------------------- MODULE MCRecovery -----------------------------
(* Recovery on small instances: model values for the writers.              *)
EXTENDS Recovery, TLC

WriterSymmetry == Permutations(Writers)
=============================================================================
