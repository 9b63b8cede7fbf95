------------------------------- MODULE Buckets -------------------------------
(***************************************************************************)
(* sst_manager::create_buckets_from_level: which SSTs of a level are merged   *)
(* together.  A level is given by its flags pickable_for_compaction(), oldest *)
(* SST first; a bucket is the sequence of the positions picked.             *)
(***************************************************************************)
EXTENDS Integers, Sequences

\* A turn that goes on to the next SST also at the end of the level.
PickStepDroppingEnd(acc, i, flags, min, max) ==
    IF acc.candidates # <<>> /\ flags[i] /\ Len(acc.candidates) < max
    THEN [acc EXCEPT !.candidates = Append(@, i)]
    ELSE [candidates |-> IF flags[i] THEN <<i>> ELSE <<>>,
          buckets |-> IF Len(acc.candidates) >= min THEN Append(acc.buckets, acc.candidates)
                                                    ELSE acc.buckets]

\* One turn of the loop at position i of n.  An SST that is pickable joins the
\* candidates while they are fewer than max; otherwise, or at the end of the
\* level, the candidates are emitted if there are min of them, and the next
\* candidates start at i unless i is not pickable (any more).
PickStep(acc, i, flags, min, max) ==
    LET n == Len(flags)
        grows == acc.candidates # <<>> /\ flags[i] /\ Len(acc.candidates) < max
        now == IF grows THEN Append(acc.candidates, i) ELSE acc.candidates
        emits == Len(now) >= min
        restart == IF flags[i] /\ ~(emits /\ grows) THEN <<i>> ELSE <<>>
    IN IF grows /\ i < n
       THEN [acc EXCEPT !.candidates = now]
       ELSE [candidates |-> restart,
             buckets |-> IF emits THEN Append(acc.buckets, now) ELSE acc.buckets]

\* What the loop holds before its first turn.
NothingPicked == [candidates |-> <<>>, buckets |-> <<>>]

\* The buckets of one level, in the order in which they are emitted.
PickBuckets(flags, min, max) ==
    LET scan[i \in 0..Len(flags)] ==
            IF i = 0 THEN NothingPicked ELSE PickStep(scan[i - 1], i, flags, min, max)
    IN IF Len(flags) < min THEN <<>> ELSE scan[Len(flags)].buckets

-----------------------------------------------------------------------------
(* What the buckets should be, without the loop *)

AllPickable(flags, a, b) == \A i \in a..b : flags[i]

\* a is where a longest run of pickable SSTs starts, b is where one ends.
RunStart(flags, a) == flags[a] /\ (a = 1 \/ ~flags[a - 1])
RunEnd(flags, b) == flags[b] /\ (b = Len(flags) \/ ~flags[b + 1])

\* a is where a piece starts when every run is cut after each max SSTs.
IsCut(flags, max, a) ==
    \E s \in 1..a : RunStart(flags, s) /\ AllPickable(flags, s, a) /\ (a - s) % max = 0

\* The positions a..b are such a piece, and are at least min.
IsPiece(flags, min, max, a, b) ==
    /\ b - a + 1 \in min..max
    /\ AllPickable(flags, a, b)
    /\ IsCut(flags, max, a)
    /\ b - a + 1 = max \/ RunEnd(flags, b)

\* The pieces of a level as pairs of positions.
Pieces(flags, min, max) ==
    {p \in (DOMAIN flags) \X (DOMAIN flags) : IsPiece(flags, min, max, p[1], p[2])}
=============================================================================
