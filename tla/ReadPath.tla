------------------------------ MODULE ReadPath -------------------------------
(***************************************************************************)
(* What a reader of the database goes through: the cursor over a memtable that  *)
(* is written to (MemtableCursor), the file of an SST from its flush to a get    *)
(* (SstFile), its filter (QuotientFilter), and the SSTs of a partition that       *)
(* compactions rewrite and a scan merges (CompactedScan).  They share nothing   *)
(* that changes while one of them runs, so that a behaviour is one of a single   *)
(* part; the initial states are those of all of them.                          *)
(***************************************************************************)
EXTENDS Integers, Sequences, FiniteSets

CONSTANTS
    Keys, Shapes,                           \* of CompactedScan
    MaxSeq, MaxClaimed,                     \* of MemtableCursor
    ByteValues, PageCells, RestartGroup,    \* of Block
    RBits, WordBits,                        \* of QuotientFilter
    Memtables, KeyHash, PartitionSize,      \* of SstFile
    BufferPages, KeysPerMetaPage, SuperThreshold,
    FilterQBits, Hashes                     \* a filter on its own, and what goes into it

ASSUME KeysAssumption == Keys \subseteq Nat \ {0} /\ IsFiniteSet(Keys)
ASSUME MaxSeqAssumption == MaxSeq \in Nat
ASSUME MaxClaimedAssumption == MaxClaimed \in Nat
ASSUME BlockAssumption ==
    /\ ByteValues \in Nat /\ ByteValues >= 4 /\ ByteValues % 2 = 0
    /\ PageCells \in Nat /\ RestartGroup \in Nat \ {0}
    /\ BufferPages \in Nat \ {0} /\ KeysPerMetaPage \in Nat \ {0} /\ SuperThreshold \in Nat
ASSUME FilterAssumption ==
    /\ RBits \in Nat \ {0} /\ FilterQBits \in Nat \ {0}
    /\ WordBits \in Nat /\ WordBits >= RBits + 3
    /\ Hashes \subseteq Nat

VARIABLES
    tree, flushed, discard, output, filtered, initialized, exhausted, result,
    all, source, heap, dedup,                               \* of CompactedScan
    entries, seq, claimed, maxSeq, seen, it, end, yielded,  \* of MemtableCursor
    mem, items, pos, w, maxSeqNr, written, metaAt, file, handle,    \* of SstFile
    filter,         \* of SstFile, and the filter on its own
    held,           \* the fingerprints in the filter on its own
    lower, upper,   \* the bounds of a scan
    pc

treeVars == <<tree, flushed, discard, output, filtered, initialized, exhausted, result,
              all, source, heap, dedup>>
cursorVars == <<entries, seq, claimed, maxSeq, seen, it, end, yielded>>
fileVars == <<mem, items, pos, w, maxSeqNr, written, metaAt, file, handle>>
bounds == <<lower, upper>>
vars == <<pc, treeVars, cursorVars, fileVars, filter, held, bounds>>

T == INSTANCE CompactedScan
C == INSTANCE MemtableCursor
F == INSTANCE SstFile

\* The parts that do not take part in a behaviour.
NoTree ==
    /\ tree = <<>> /\ flushed = {} /\ discard = FALSE /\ output = <<>> /\ filtered = 0
    /\ initialized = FALSE /\ exhausted = FALSE /\ result = <<>>
    /\ all = {} /\ source = <<>> /\ heap = {} /\ dedup = <<>>
NoCursor ==
    /\ entries = {} /\ seq = 0 /\ claimed = {} /\ maxSeq = 0 /\ seen = {}
    /\ it = <<>> /\ end = <<>> /\ yielded = <<>>
NoFile ==
    /\ mem = <<>> /\ items = <<>> /\ pos = 0 /\ w = <<>> /\ maxSeqNr = 0
    /\ written = 0 /\ metaAt = 0 /\ file = <<>> /\ handle = <<>>
NoBounds == lower = 0 /\ upper = 0

Init ==
    \/ T!Init /\ NoCursor /\ NoFile /\ filter = <<>> /\ held = {}
    \/ C!Init /\ NoTree /\ NoFile /\ filter = <<>> /\ held = {}
    \/ F!Init /\ NoTree /\ NoCursor /\ NoBounds /\ held = {}
    \/ /\ pc = "filtering" /\ filter = F!QfInit(FilterQBits) /\ held = {}
       /\ NoTree /\ NoCursor /\ NoFile /\ NoBounds

-----------------------------------------------------------------------------
(* A filter on its own (quotient_filter.cc): the fingerprint is the low bits. *)

Fingerprint(h) == h % 2 ^ (FilterQBits + RBits)

FilterInsert(h) ==
    /\ pc = "filtering"
    /\ filter' = F!QfInsert(filter, h)
    /\ held' = IF filter.entries < 2 ^ FilterQBits THEN held \cup {Fingerprint(h)} ELSE held
    /\ UNCHANGED <<pc, treeVars, cursorVars, fileVars, bounds>>

\* A hash that has more bits than a fingerprint is refused.
FilterRemove(h) ==
    /\ pc = "filtering"
    /\ filter' = F!QfRemove(filter, h)
    /\ held' = held \ {h}
    /\ UNCHANGED <<pc, treeVars, cursorVars, fileVars, bounds>>

\* quotient_filter::clear
FilterClear ==
    /\ pc = "filtering"
    /\ filter' = F!QfClear(filter)
    /\ held' = {}
    /\ UNCHANGED <<pc, treeVars, cursorVars, fileVars, bounds>>

-----------------------------------------------------------------------------
InTree == pc \in {"quiet", "fill", "loop", "merged", "failed", "idle", "inner", "drain", "ended",
                  "thrown"}
InCursor == pc \in {"new", "made", "lower", "upper", "open", "null"}
InFile == pc \in F!Writing \cup {"memtable", "aborted", "sealed", "loaded", "rejected"}

Next ==
    \/ InTree /\ T!Next /\ UNCHANGED <<cursorVars, fileVars, filter, held>>
    \/ InCursor /\ C!Next /\ UNCHANGED <<treeVars, fileVars, filter, held>>
    \/ InFile /\ F!Next /\ UNCHANGED <<treeVars, cursorVars, held, bounds>>
    \/ \E h \in Hashes : FilterInsert(h) \/ FilterRemove(h)
    \/ FilterClear

Spec == Init /\ [][Next]_vars

-----------------------------------------------------------------------------
(* Properties of the SSTs of a partition *)

\* k_way_merge_async2 does not throw, its key counts add up at every turn, and the
\* merged SST has, in key order, for each key of its inputs the entry of the newest
\* input that has it, and only where the merge discards does it lack those that are
\* tombstones.
MergeIsExact == InTree => T!MergeIsExact

\* A scan cannot tell what compactions there were: at every point range_iterator
\* has returned a beginning of what the flushes wrote last within the bounds, and
\* all of it once next() returned END_OF_SCAN; next() throws only where there was
\* nothing to return.
ScanIsExact == InTree => T!ScanIsExact

\* "Returns the next key-value pair in the range, or errc::END_OF_SCAN when
\* exhausted" (range_iterator.h:112): next() does not throw.
NextReturns == InTree => T!NextReturns

\* "a scan iterator over [lower, upper)" (database.h:137): the upper bound is
\* not part of the scan.
UpperIsExcluded == InTree => T!UpperIsExcluded

-----------------------------------------------------------------------------
(* Properties of the cursor over a memtable *)

\* "for each key it should yield only the entry with the highest sequence number"
\* (range_scan_test.cc:764), over a memtable that nothing was inserted into since
\* the snapshot; and memtable_cursor comes to its end if the bounds are in order.
FrozenCursorIsExact == InCursor => C!FrozenCursorIsExact

\* Insertions around memtable_cursor neither hide a key nor show one twice: it gives
\* keys in ascending order, as the heap and the deduplicator of a scan need, and for
\* every key below the upper bound that the snapshot holds that version or a later one.
\* If there is such a key, insertions between the two searches of the constructor do
\* not make it run off the list.
EachKeyOnce == InCursor => C!KeysAscend /\ C!NoKeyIsMissed /\ C!StaysInside

\* "Snapshot isolation over range scans" (README.md:32): the scan returns no
\* entry that got its sequence number after the snapshot was taken.
SnapshotIsolation == InCursor => C!SnapshotIsolation

\* "MVCC snapshot for consistent range scans" (memtable.h:195): memtable_cursor
\* gives no entry above its own limit.
NothingAboveLimit == InCursor => C!NothingAboveLimit

\* "deduplicated entries within [lower, upper]" (sst_manager.h:64): memtable_cursor
\* gives a key at the upper bound that the snapshot holds.
UpperIsFound == InCursor => C!UpperIsFound

\* "Returns the next key-value pair in the range, or errc::END_OF_SCAN when
\* exhausted" (range_iterator.h:112): no memtable_cursor runs off the list.
CursorEnds == InCursor => C!CursorEnds

-----------------------------------------------------------------------------
(* Properties of the file of an SST *)

\* The ranges a flush makes of a memtable (_partition_ranges_generator) together
\* are the memtable, no two are of one partition, and every key is in the partition
\* where a get looks for it.  Whatever is behind a key of one byte does not matter as
\* long as a partition has all keys with the same first byte (PartitionSize >= ByteValues,
\* at most 256 partitions); with smaller partitions it does.
RangesAreWhole == InFile => F!RangesAreWhole

\* A get on an SST (probe_filter, lookup_async) answers with the newest version of
\* every key that was flushed and with KEY_NOT_FOUND for all others, both through
\* the object that the flush returns and after sst::load.
GetIsExact == InFile => F!GetIsExact

\* Reading the blocks of an SST in turn (block_buffer_reader), as merges and scans
\* do, gives the newest version of every key, in order, and nothing else.
IndexReadsBack == InFile => F!IndexReadsBack

\* find_range gives pages that hold every key between the bounds, and nullopt only
\* where there is none.
RangeIsCovered == InFile => F!RangeIsCovered

\* An export that reported success left a file that sst::load accepts, and the file
\* of an export that was cut short is accepted only if it is whole.
OnlyWholeFilesLoad == InFile => F!OnlyWholeFilesLoad

-----------------------------------------------------------------------------
(* Properties of a filter on its own *)

\* qf_may_contain says yes to the fingerprints that were inserted and not removed
\* since, and to no other, also when the table is full and when a cluster wraps
\* around its end; the count is theirs, and qfi_next meets each of them once.
FilterIsExact ==
    pc = "filtering" =>
        /\ filter.entries = Cardinality(held)
        /\ \A h \in Hashes : F!QfMayContain(filter, h) <=> Fingerprint(h) \in held
        /\ LET met == F!Fingerprints(filter)
           IN Len(met) = Cardinality(held) /\ {met[i] : i \in DOMAIN met} = held

=============================================================================
