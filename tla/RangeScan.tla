------------------------------ MODULE RangeScan ------------------------------
(***************************************************************************)
(* range_iterator (range_iterator.cc): a scan over the SSTs of a partition,    *)
(* one call of next() after the other.                                       *)
(*                                                                         *)
(* A source is an SST, which is read by whole pages.  The memtables of the     *)
(* snapshot are not among the sources: what a scan gets from one memtable is   *)
(* in MemtableCursor, and which of them make_new erases from the snapshot is   *)
(* not modelled.  The bounds are in order: lower <= upper where both are given. *)
(***************************************************************************)
EXTENDS Dedup

NoBound == 0

VARIABLES
    lower, upper,   \* _lower and _upper: a key or NoBound
    all,            \* the entries of all sources
    source,         \* source[i]: the entries the source of epoch i has not given yet
    heap,           \* _heap
    dedup,          \* _dedup
    initialized, exhausted,
    result,         \* the entries next() returned so far
    pc              \* "idle", inside next() "inner" or "drain", "ended", "thrown"

bounds == <<lower, upper>>
vars == <<lower, upper, all, source, heap, dedup, initialized, exhausted, result, pc>>

\* How the last call ended: with END_OF_SCAN.
Ended == pc = "ended"

\* find_range: no pages of an SST that ends below lo; otherwise the pages from the
\* one that holds the first key at or above lo to the one that holds the first
\* key at or above up.  Pages hold a single entry, or all.
PagesOf(entries, lo, up, single) ==
    IF lo # NoBound /\ \A e \in entries : e.key < lo THEN {}
    ELSE {e \in entries :
            single => /\ lo # NoBound => e.key >= lo
                      /\ up # NoBound => ~\E f \in entries : up <= f.key /\ f.key < e.key}

\* make_new on some SSTs, a function from epochs to sets of entries.
Start(sources, lo, up, single) ==
    /\ lower' = lo /\ upper' = up
    /\ source' = [i \in DOMAIN sources |-> PagesOf(sources[i], lo, up, single)]
    /\ all' = UNION Range(sources)
    /\ heap' = {} /\ dedup' = EmptyDedup
    /\ initialized' = FALSE /\ exhausted' = FALSE
    /\ result' = <<>> /\ pc' = "idle"

\* next(): fill the heap at the first call; nothing more to do when exhausted.
Call ==
    /\ pc \in {"idle", "ended"}
    /\ initialized' = TRUE
    /\ IF initialized THEN UNCHANGED <<heap, source>>
       ELSE heap' = Firsts(source) /\ source' = Rests(source)
    /\ pc' = IF exhausted THEN "ended" ELSE "inner"
    /\ UNCHANGED <<bounds, all, dedup, exhausted, result>>

BelowLower(e) == lower # NoBound /\ e.key < lower

AboveUpper(e) == upper # NoBound /\ e.key > upper

\* _emit on an item taken from the deduplicator: return it, skip it (goes on at
\* skip), or end the scan.
Emit(e, end, skip) ==
    IF BelowLower(e) THEN pc' = skip /\ UNCHANGED <<result, exhausted>>
    ELSE IF AboveUpper(e) THEN pc' = end /\ exhausted' = TRUE /\ UNCHANGED result
    ELSE IF e.dead THEN pc' = skip /\ UNCHANGED <<result, exhausted>>
    ELSE pc' = "idle" /\ result' = Append(result, e) /\ UNCHANGED exhausted

\* One turn of the loop in _next_inner.
Inner ==
    /\ pc = "inner" /\ heap # {}
    /\ LET e == Top(heap)
           d == Push(dedup, e)
       IN /\ heap' = (heap \ {e}) \cup FirstOf(source[e.epoch])
          /\ source' = [source EXCEPT ![e.epoch] = @ \ FirstOf(@)]
          /\ dedup' = [d EXCEPT !.ready = NoItem]
          /\ IF d.ready = NoItem THEN UNCHANGED <<result, exhausted, pc>>
             ELSE Emit(d.ready[1], "drain", "inner")
    /\ UNCHANGED <<bounds, all, initialized>>

\* _next_inner returns END_OF_SCAN when the heap is empty.
InnerEnds ==
    /\ pc = "inner" /\ heap = {}
    /\ pc' = "drain"
    /\ UNCHANGED <<bounds, all, source, heap, dedup, initialized, exhausted, result>>

\* A scan that forgets the last item when it is not above the bound.
DrainNothing ==
    /\ pc = "drain"
    /\ exhausted' = TRUE
    /\ pc' = "ended"
    /\ UNCHANGED <<bounds, all, source, heap, dedup, initialized, result>>

\* After END_OF_SCAN: the deduplicator is never ready here, and its last item is
\* forced out; force_pop throws when there is none.
Drain ==
    /\ pc = "drain"
    /\ IF dedup.checked = NoItem
       THEN pc' = "thrown" /\ UNCHANGED <<dedup, exhausted, result>>
       ELSE LET e == dedup.checked[1]
                ok == ~BelowLower(e) /\ ~AboveUpper(e) /\ ~e.dead
            IN /\ dedup' = [dedup EXCEPT !.checked = NoItem]
               /\ exhausted' = TRUE
               /\ result' = IF ok THEN Append(result, e) ELSE result
               /\ pc' = IF ok THEN "idle" ELSE "ended"
    /\ UNCHANGED <<bounds, all, source, heap, initialized>>

Next == Call \/ Inner \/ InnerEnds \/ Drain

-----------------------------------------------------------------------------
(* Properties *)

\* The entries of the range a scan should return, in order, when these are all
\* the entries there are: the newest of each key, unless that is a tombstone.
Expected(entries) ==
    InKeyOrder({e \in NewestOf(entries) : ~BelowLower(e) /\ ~AboveUpper(e) /\ ~e.dead})

\* "Returns the next key-value pair in the range, or errc::END_OF_SCAN when
\* exhausted" (range_iterator.h:112): next() does not throw.
NextReturns == pc # "thrown"

\* "a scan iterator over [lower, upper)" (database.h:137): the upper bound is
\* not part of the scan.
UpperIsExcluded ==
    \A i \in DOMAIN result : upper # NoBound => result[i].key < upper
=============================================================================
