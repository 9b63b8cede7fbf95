----------------------------- MODULE MCManifest -----------------------------
(* Manifest on small instances: model values for the jobs.                 *)
EXTENDS Manifest, TLC

JobSymmetry == Permutations(Flushes) \cup Permutations(Merges)
=============================================================================
