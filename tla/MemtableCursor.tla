--------------------------- MODULE MemtableCursor ---------------------------
(***************************************************************************)
(* memtable_cursor (sst_stream.h): how a range scan walks through a memtable   *)
(* while writers go on inserting into it.  The skiplist keeps all versions of *)
(* a key, ordered by key and then from the newest sequence number down.  An   *)
(* insertion takes its number first and enters the list later.               *)
(*                                                                         *)
(* The constructor searches the skiplist twice and then steps from what it     *)
(* found: three steps, with insertions in between.  The loops that skip        *)
(* entries are one step: an insertion in the middle of one is an insertion     *)
(* before it, if in front of the cursor, or after it.  They compare with _end  *)
(* and with nothing else, so a cursor that is past _end runs off the list.     *)
(***************************************************************************)
EXTENDS Integers, Sequences, FiniteSets

CONSTANTS
    Keys,       \* a set of positive integers
    MaxSeq,     \* bound: sequence numbers given out
    MaxClaimed  \* bound: insertions under way at a time

NoBound == 0
NoLimit == MaxSeq + 1       \* numeric_limits<uint64_t>::max()

VARIABLES
    entries,        \* the skiplist: [key, seq]
    seq,            \* the next sequence number
    claimed,        \* entries that have their number and are not in the list yet
    lower, upper,   \* the bounds of the scan: a key or NoBound
    maxSeq,         \* _max_seq
    seen,           \* the entries when the snapshot was taken
    it, end,        \* _it and _end: an entry or End
    pc,             \* "new", "made" after acquire_snapshot, "lower" and "upper" in the
                    \* constructor, "open", "null" once a null iterator was dereferenced
    yielded         \* the entries the scan has taken from the cursor

cursorVars == <<lower, upper, maxSeq, seen, it, end, pc, yielded>>
vars == <<entries, seq, claimed, cursorVars>>

\* The past-the-end position.
End == [key |-> 1 + (CHOOSE m \in Keys : \A k \in Keys : k <= m), seq |-> 0]

Before(a, b) == a.key < b.key \/ (a.key = b.key /\ a.seq > b.seq)

\* The first of some positions, End if there is none.
First(positions) ==
    CHOOSE p \in positions \cup {End} : \A q \in positions : p = q \/ Before(p, q)

\* ++it
After(p) == First({e \in entries : Before(p, e)})

\* lower_bound with the least sequence number in place of the greatest.
LowerBoundOldest(k) == First({e \in entries : e.key > k \/ (e.key = k /\ e.seq = 0)})

\* lower_bound({k, numeric_limits<uint64_t>::max()})
LowerBound(k) == First({e \in entries : e.key >= k})

\* Where a loop that starts at p halts: at last, where test holds, or past the end.
SkipTo(p, last, test(_)) == First({e \in entries : ~Before(e, p) /\ (e = last \/ test(e))})

SkipInvisible(p, last) == SkipTo(p, last, LAMBDA e : e.seq <= maxSeq)

SkipDuplicates(p, last, k) == SkipTo(p, last, LAMBDA e : e.key # k)

\* The cursor at p after such loops.  A loop that meets the past-the-end position
\* without _end being there has read through it.
Halt(p, last) == it' = p /\ pc' = IF p = End /\ last # End THEN "null" ELSE "open"

Init ==
    /\ entries = {} /\ seq = 0 /\ claimed = {}
    /\ lower \in Keys \cup {NoBound} /\ upper \in Keys \cup {NoBound}
    /\ maxSeq = NoLimit /\ seen = {}
    /\ it = End /\ end = End /\ pc = "new" /\ yielded = <<>>

-----------------------------------------------------------------------------
\* skiplist_wrapper::insert: fetch_add on the shared counter ...
Claim(k) ==
    /\ seq < MaxSeq /\ Cardinality(claimed) < MaxClaimed
    /\ claimed' = claimed \cup {[key |-> k, seq |-> seq]}
    /\ seq' = seq + 1
    /\ UNCHANGED <<entries, cursorVars>>

\* ... then add to the skiplist.
Insert(e) ==
    /\ entries' = entries \cup {e}
    /\ claimed' = claimed \ {e}
    /\ UNCHANGED <<seq, cursorVars>>

\* acquire_snapshot of the current memtable: the limit is its sequence counter.
SnapshotCurrent ==
    /\ pc = "new"
    /\ maxSeq' = seq
    /\ seen' = entries
    /\ pc' = "made"
    /\ UNCHANGED <<entries, seq, claimed, lower, upper, it, end, yielded>>

\* A memtable waiting for its flush is scanned without a limit.
SnapshotPending ==
    /\ pc = "new"
    /\ maxSeq' = NoLimit
    /\ seen' = entries
    /\ pc' = "made"
    /\ UNCHANGED <<entries, seq, claimed, lower, upper, it, end, yielded>>

\* The constructor: find the first entry at or above lower, ...
OpenLower ==
    /\ pc = "made"
    /\ it' = IF lower = NoBound THEN First(entries) ELSE LowerBound(lower)
    /\ pc' = "lower"
    /\ UNCHANGED <<entries, seq, claimed, lower, upper, maxSeq, seen, end, yielded>>

\* ... then the first at or above upper, ...
OpenUpper ==
    /\ pc = "lower"
    /\ end' = IF upper = NoBound THEN End ELSE LowerBound(upper)
    /\ pc' = "upper"
    /\ UNCHANGED <<entries, seq, claimed, lower, upper, maxSeq, seen, it, yielded>>

\* A cursor that stops in front of the upper bound.
OpenBelowUpper ==
    /\ pc = "upper"
    /\ Halt(SkipInvisible(it, end), end)
    /\ UNCHANGED <<entries, seq, claimed, lower, upper, maxSeq, seen, end, yielded>>

\* ... and end one entry past that.
Open ==
    LET last == IF end = End THEN End ELSE After(end)
    IN /\ pc = "upper"
       /\ end' = last
       /\ Halt(SkipInvisible(it, last), last)
       /\ UNCHANGED <<entries, seq, claimed, lower, upper, maxSeq, seen, yielded>>

\* source_pop_entry: take the entry, step, skip the invisible, then skip the
\* other versions of the key.
PopFront ==
    /\ pc = "open" /\ it # end
    /\ yielded' = Append(yielded, it)
    /\ Halt(SkipDuplicates(SkipInvisible(After(it), end), end, it.key), end)
    /\ UNCHANGED <<entries, seq, claimed, lower, upper, maxSeq, seen, end>>

-----------------------------------------------------------------------------
Done == pc = "open" /\ it = end

\* What is inserted once the scan is through with the cursor is left out.
Inserts ==
    /\ ~Done /\ pc # "null"
    /\ (\E k \in Keys : Claim(k)) \/ (\E e \in claimed : Insert(e))

Next == Inserts \/ SnapshotCurrent \/ SnapshotPending
        \/ OpenLower \/ OpenUpper \/ Open \/ PopFront

Spec == Init /\ [][Next]_vars

-----------------------------------------------------------------------------
(* Properties *)

InRange(e) == (lower # NoBound => e.key >= lower) /\ (upper # NoBound => e.key <= upper)

\* What the snapshot holds of the range: the newest version of each key.
SnapshotView ==
    {e \in seen : InRange(e) /\ \A f \in seen : f.key = e.key => f.seq <= e.seq}

Yielded == {yielded[i] : i \in DOMAIN yielded}

\* "for each key it should yield only the entry with the highest sequence number"
\* (range_scan_test.cc:764): over a memtable that nothing was inserted into since
\* the snapshot, drained or not, the scan gets exactly the newest version of each
\* key in the range, and the cursor comes to its end if the bounds are in order.
FrozenCursorIsExact ==
    entries = seen =>
       /\ Done => {e \in Yielded : InRange(e)} = SnapshotView
       /\ pc = "null" => upper < lower

\* The scan's heap and deduplicator need the cursor to give each key at most once
\* and in ascending order, also while entries are inserted around it.
KeysAscend == \A i, j \in DOMAIN yielded : i < j => yielded[i].key < yielded[j].key

\* Insertions during the scan never hide a key: for every key below the upper
\* bound that the snapshot holds the cursor gives that version or a later one.
NoKeyIsMissed ==
    Done => \A e \in SnapshotView : e.key # upper =>
               \E y \in Yielded : y.key = e.key /\ y.seq >= e.seq

\* A cursor over a snapshot that holds something below the upper bound does not run
\* off the list, whatever is inserted between the searches of its constructor.
StaysInside ==
    pc = "null" => \A e \in seen : InRange(e) => e.key = upper

\* "Snapshot isolation over range scans" (README.md:32): the scan returns no
\* entry that got its sequence number after the snapshot was taken.
SnapshotIsolation == \A y \in Yielded : y.seq < maxSeq

\* "MVCC snapshot for consistent range scans" (memtable.h:195): no entry above
\* the limit the cursor itself uses is given.
NothingAboveLimit == \A y \in Yielded : y.seq <= maxSeq

\* "deduplicated entries within [lower, upper]" (sst_manager.h:64): a key at the upper bound
\* that the snapshot holds is given.
UpperIsFound ==
    Done => \A e \in SnapshotView : e.key = upper => \E y \in Yielded : y.key = e.key

\* "Returns the next key-value pair in the range, or errc::END_OF_SCAN when
\* exhausted" (range_iterator.h:112): no cursor runs off the list.
CursorEnds == pc # "null"
=============================================================================
