---------------------------- MODULE CompactedScan ----------------------------
(***************************************************************************)
(* Compactions and a range scan over the SSTs of one partition.  Merge and     *)
(* RangeScan are used as they are: compactions rewrite the SSTs one after the  *)
(* other, and then a scan runs over what they have left.  A scan works on its  *)
(* own copy of the levels, which keeps its SSTs alive, so a compaction that    *)
(* commits during the scan changes nothing for it.                          *)
(*                                                                         *)
(* The variables that a merge and a scan have in common are shared, for only   *)
(* one of them runs at a time.                                              *)
(***************************************************************************)
EXTENDS Dedup

CONSTANTS
    Keys,       \* keys to choose bounds from, positive integers
    Shapes      \* how many SSTs there are and over which keys: [ssts, keys]

VARIABLES
    tree,       \* the SSTs: a function from epochs to sets of entries
    flushed,    \* all entries as the flushes wrote them
    discard, output, filtered,                          \* of the merge
    lower, upper, initialized, exhausted, result,       \* of the scan
    all, source, heap, dedup, pc                        \* of whichever runs

partition == <<tree, flushed>>
mergeOnly == <<discard, output, filtered>>
scanOnly == <<lower, upper, initialized, exhausted, result>>
vars == <<partition, mergeOnly, scanOnly, all, source, heap, dedup, pc>>

M == INSTANCE Merge
S == INSTANCE RangeScan

\* What an SST flushed as number i holds: a value or a tombstone for some keys.
Flushed(i, has) ==
    {[key |-> k, epoch |-> i, written |-> i, dead |-> has[k] = "tombstone"] :
       k \in {k \in DOMAIN has : has[k] # "nothing"}}

Init ==
    /\ \E shape \in Shapes :
       \E has \in [1..shape.ssts -> [shape.keys -> {"nothing", "value", "tombstone"}]] :
          tree = [i \in 1..shape.ssts |-> Flushed(i, has[i])]
    /\ {} \notin Range(tree)
    /\ flushed = UNION Range(tree)
    /\ discard = FALSE /\ output = <<>> /\ filtered = 0
    /\ lower = S!NoBound /\ upper = S!NoBound /\ initialized = FALSE /\ exhausted = FALSE
    /\ result = <<>>
    /\ all = {} /\ source = <<>> /\ heap = {} /\ dedup = EmptyDedup
    /\ pc = "quiet"

\* Adjacent SSTs of the tree, at least two.
Runs == {E \in SUBSET DOMAIN tree :
           /\ Cardinality(E) >= 2
           /\ \A a, b \in E : \A c \in DOMAIN tree : a < c /\ c < b => c \in E}

\* A compaction of adjacent SSTs starts.  Tombstones are discarded only when no
\* older SST is left out: Compaction checks that as NoResurrection.
StartMerge ==
    /\ pc = "quiet"
    /\ \E inputs \in Runs : \E discards \in BOOLEAN :
          /\ discards => Min(DOMAIN tree) \in inputs
          /\ M!Start(Restrict(tree, inputs), discards)
    /\ UNCHANGED <<partition, scanOnly>>

MergeStep == M!Next /\ UNCHANGED <<partition, scanOnly>>

\* The merged SST takes the place of its inputs.
Commit ==
    /\ pc = "merged"
    /\ tree' = [i \in (DOMAIN tree \ DOMAIN source) \cup {M!MergedEpoch} |->
                  IF i = M!MergedEpoch THEN M!MergedSst ELSE tree[i]]
    /\ pc' = "quiet"
    /\ UNCHANGED <<flushed, mergeOnly, scanOnly, all, source, heap, dedup>>

\* acquire_partition_snapshot and make_new.
StartScan ==
    /\ pc = "quiet"
    /\ \E lo, up \in Keys \cup {S!NoBound} : \E single \in BOOLEAN :
          /\ lo # S!NoBound /\ up # S!NoBound => lo <= up
          /\ S!Start(tree, lo, up, single)
    /\ UNCHANGED <<partition, mergeOnly>>

ScanStep == S!Next /\ UNCHANGED <<partition, mergeOnly>>

Next == StartMerge \/ MergeStep \/ Commit \/ StartScan \/ ScanStep

Spec == Init /\ [][Next]_vars

-----------------------------------------------------------------------------
(* Properties *)

\* A merge does not throw, its key counts add up, and the merged SST has, in key
\* order, for each key of its inputs the entry of the newest input that has it, and
\* only where the merge discards does it lack those that are tombstones.
MergeIsExact == M!MergeIsExact

\* A scan cannot tell what compactions there were: at every point it has returned
\* a beginning of what the flushes wrote last within the bounds, and all of it
\* once next() returned END_OF_SCAN, however often next() is called after that.
\* next() throws only where there was nothing to return.
ScanIsExact ==
    LET sees(s) == [i \in DOMAIN s |-> <<s[i].key, s[i].written>>]
        expected == sees(S!Expected(flushed))
    IN /\ pc \in {"idle", "inner", "drain", "ended"} => IsPrefix(sees(result), expected)
       /\ S!Ended => sees(result) = expected
       /\ pc = "thrown" => expected = <<>>

\* "Returns the next key-value pair in the range, or errc::END_OF_SCAN when
\* exhausted" (range_iterator.h:112): next() does not throw.
NextReturns == S!NextReturns

\* "a scan iterator over [lower, upper)" (database.h:137): the upper bound is
\* not part of the scan.
UpperIsExcluded == S!UpperIsExcluded
=============================================================================
