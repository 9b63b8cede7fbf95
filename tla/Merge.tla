-------------------------------- MODULE Merge --------------------------------
(***************************************************************************)
(* index_ops::k_way_merge_async2 (merge.cc): the loop that merges the SSTs of  *)
(* a compaction.  Reading ahead, blocks and the output file are left out: a    *)
(* source gives its entries in key order, and the output is a sequence.       *)
(***************************************************************************)
EXTENDS Dedup

VARIABLES
    discard,    \* discard_deleted_keys
    all,        \* the entries of all inputs
    source,     \* source[i]: the entries the input of epoch i has not given yet
    heap,       \* key_heap
    dedup,      \* the deduplicator
    output,     \* the entries written
    filtered,   \* tombstones dropped
    pc          \* "fill", "loop", then "merged" or "failed"

vars == <<discard, all, source, heap, dedup, output, filtered, pc>>

\* A merge of the inputs, a function from epochs to sets of entries.
Start(inputs, discards) ==
    /\ discard' = discards
    /\ source' = inputs
    /\ all' = UNION Range(inputs)
    /\ heap' = {} /\ dedup' = EmptyDedup /\ output' = <<>> /\ filtered' = 0
    /\ pc' = "fill"

\* The first entry of every input goes into the heap.
Fill ==
    /\ pc = "fill"
    /\ heap' = Firsts(source)
    /\ source' = Rests(source)
    /\ pc' = "loop"
    /\ UNCHANGED <<discard, all, dedup, output, filtered>>

\* Write the items in turn, dropping the tombstones of a merge that discards.
Write(items) ==
    LET dropped(e) == discard /\ e.dead IN
    /\ output' = output \o SelectSeq(items, LAMBDA e : ~dropped(e))
    /\ filtered' = filtered + Len(SelectSeq(items, dropped))

\* One turn of the loop: the top of the heap goes to the deduplicator, the next
\* entry of its input takes its place, and an entry that is ready is written.
Turn ==
    LET e == Top(heap)
        d == Push(dedup, e)
    IN /\ pc = "loop" /\ heap # {}
       /\ heap' = (heap \ {e}) \cup FirstOf(source[e.epoch])
       /\ source' = [source EXCEPT ![e.epoch] = @ \ FirstOf(@)]
       /\ Write(d.ready)
       /\ dedup' = [d EXCEPT !.ready = NoItem]
       /\ UNCHANGED <<discard, all, pc>>

\* What is left in the deduplicator is written; force_pop throws when nothing is.
Finish ==
    /\ pc = "loop" /\ heap = {}
    /\ IF dedup.checked = NoItem
       THEN pc' = "failed" /\ UNCHANGED <<dedup, output, filtered>>
       ELSE /\ Write(dedup.ready \o dedup.checked)
            /\ dedup' = [dedup EXCEPT !.ready = NoItem, !.checked = NoItem]
            /\ pc' = "merged"
    /\ UNCHANGED <<discard, all, source, heap>>

Next == Fill \/ Turn \/ Finish

\* The footer of the merged SST has the least epoch of the inputs: max_element is
\* called with > for its order.
MergedEpoch == Min(DOMAIN source)

MergedSst == {[e EXCEPT !.epoch = MergedEpoch] : e \in Range(output)}

-----------------------------------------------------------------------------
(* Properties *)

\* The assertion check_key_count_matches: each entry taken from an input was
\* written, dropped as a duplicate or as a tombstone, or is the one the
\* deduplicator holds back.
KeysAddUp ==
    Cardinality(all) = Len(output) + dedup.dups + filtered + Len(dedup.checked)
                       + Cardinality(heap) + Cardinality(UNION Range(source))

\* k_way_merge_async2 does not throw, since of the SSTs of a partition at most one,
\* the oldest, can be empty; its key counts add up at every turn; and the merged SST
\* has, in key order, for each key of the inputs the entry of the newest input that
\* has it, and only where the merge discards does it lack those that are tombstones.
MergeIsExact ==
    /\ pc # "failed"
    /\ pc \in {"fill", "loop", "merged"} => KeysAddUp
    /\ pc = "merged" => output = InKeyOrder({e \in NewestOf(all) : ~(discard /\ e.dead)})
=============================================================================
