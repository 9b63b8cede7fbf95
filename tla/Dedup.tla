-------------------------------- MODULE Dedup --------------------------------
(***************************************************************************)
(* What compactions and range scans share: the heap over the first entries of  *)
(* several sorted sources (merge.cc, range_iterator.h) and the deduplicator    *)
(* (merge_utils.h).  An entry is [key, epoch, written, dead]: the epoch of the  *)
(* SST it is read from, the flush that wrote it, which stands for its value,   *)
(* and whether it is a tombstone.  The heap is a set; a source, named by its   *)
(* epoch, is the set of the entries it has not given yet.                     *)
(***************************************************************************)
EXTENDS Integers, Sequences, FiniteSets, SequencesExt

\* The heap pops the least key first, and of one key the highest epoch.
PopsBefore(a, b) == a.key < b.key \/ (a.key = b.key /\ a.epoch > b.epoch)

Top(heap) == CHOOSE e \in heap : \A f \in heap : e = f \/ PopsBefore(e, f)

\* The first entry of a source, as a set: empty at the end of the source.
FirstOf(source) == {e \in source : \A f \in source : e.key <= f.key}

\* The first entries of all sources, and what the sources have left then.
Firsts(sources) == UNION {FirstOf(sources[i]) : i \in DOMAIN sources}
Rests(sources) == [i \in DOMAIN sources |-> sources[i] \ FirstOf(sources[i])]

\* An optional entry is a sequence of length 0 or 1.
NoItem == <<>>
EmptyDedup == [checked |-> NoItem, ready |-> NoItem, dups |-> 0]

\* A deduplicator that keeps the last of several entries with one key.
PushKeepingLast(d, e) ==
    IF d.checked = NoItem THEN [d EXCEPT !.checked = <<e>>]
    ELSE IF d.checked[1].key # e.key THEN [d EXCEPT !.ready = d.checked, !.checked = <<e>>]
    ELSE [d EXCEPT !.checked = <<e>>, !.dups = @ + 1]

\* deduplicator::push
Push(d, e) ==
    IF d.checked = NoItem THEN [d EXCEPT !.checked = <<e>>]
    ELSE IF d.checked[1].key # e.key THEN [d EXCEPT !.ready = d.checked, !.checked = <<e>>]
    ELSE [d EXCEPT !.dups = @ + 1]

\* The newest entries among some: for each key the one of the highest epoch.
NewestOf(entries) == {e \in entries : \A f \in entries : f.key = e.key => f.epoch <= e.epoch}

InKeyOrder(entries) == SetToSortSeq(entries, LAMBDA a, b : a.key < b.key)
=============================================================================
