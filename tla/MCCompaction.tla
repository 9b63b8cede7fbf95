---------------------------- MODULE MCCompaction ----------------------------
(* Compaction on small instances.                                          *)
EXTENDS Compaction
=============================================================================
