------------------------------- MODULE Block --------------------------------
(***************************************************************************)
(* The blocks of an SST (block.cc, varint.h).  A block is one page: entries in *)
(* key order from its start, each key stored as what it does not share with    *)
(* the key before it, except the first of every restart group; and at its end  *)
(* the offsets of the restart groups, their count, and a footer.  A page is a  *)
(* sequence of cells.  A cell is a byte, of ByteValues values instead of 256,  *)
(* except in the tail, where it is an offset, a count or the checksum.         *)
(***************************************************************************)
EXTENDS Integers, Sequences, FiniteSets, SequencesExt, FiniteSetsExt

CONSTANTS
    ByteValues,     \* values of a byte, an even number: 256 in the code
    PageCells,      \* block_size_in_bytes
    RestartGroup    \* restart_group_size

\* key_comparator, and operator< of a key
RECURSIVE Less(_, _)
Less(a, b) ==
    /\ b # <<>>
    /\ a = <<>> \/ a[1] < b[1] \/ (a[1] = b[1] /\ Less(Tail(a), Tail(b)))

\* encode_key_size and decode_key_size
EncodeKeySize(n) == (n - 1) % ByteValues
DecodeKeySize(c) == c + 1

\* unsafe_varint: half of the values of a byte say that another follows.
RECURSIVE Varint(_)
Varint(n) ==
    LET base == ByteValues \div 2
    IN IF n < base THEN <<n>> ELSE <<base + (n % base)>> \o Varint(n \div base)

\* try_decode_varint at offset "at": the value, and the offset behind it.
RECURSIVE DecodeVarint(_, _)
DecodeVarint(page, at) ==
    LET base == ByteValues \div 2
        rest == DecodeVarint(page, at + 1)
    IN IF page[at + 1] < base THEN [n |-> page[at + 1], at |-> at + 1]
       ELSE [n |-> (page[at + 1] % base) + base * rest.n, at |-> rest.at]

-----------------------------------------------------------------------------
ZeroPage == [i \in 1 .. PageCells |-> 0]

\* Copies cells into a page from an offset on; what is elsewhere stays.
WriteCells(page, at, cells) ==
    [i \in 1 .. PageCells |-> IF at < i /\ i <= at + Len(cells) THEN cells[i - at] ELSE page[i]]

\* _checksum: any function of the cells before it will do, if it tells a page of
\* zeros from a block.
Checksum(page) == 1 + FoldLeft(LAMBDA a, c : (3 * a + c) % 1009, 0, SubSeq(page, 1, PageCells - 1))

\* block_footer without the checksum, and the restart count
TailCells == 3

\* The state of a block_encoder, new or after reset().
NewEncoder == [head |-> 0, written |-> TailCells, last |-> <<>>, offsets |-> <<>>, count |-> 0]

\* block_encoder::_commit: the offsets, their count and the footer, at the end.
Commit(page, enc) ==
    LET tail == enc.offsets \o <<Len(enc.offsets), enc.count>>
        q == WriteCells(page, PageCells - 1 - Len(tail), tail)
    IN [q EXCEPT ![PageCells] = Checksum(q)]

\* _compute_shared_prefix_length
SharedPrefix(prev, curr) ==
    CHOOSE n \in 0 .. Len(prev) :
        /\ n <= Len(curr) /\ SubSeq(prev, 1, n) = SubSeq(curr, 1, n)
        /\ n = Len(prev) \/ n = Len(curr) \/ prev[n + 1] # curr[n + 1]

\* The cells of an entry: with the whole key, or with what follows the prefix
\* that it shares with the last key.
EntryCells(enc, key, value) ==
    LET shared == SharedPrefix(enc.last, key)
    IN (IF enc.count % RestartGroup = 0 THEN <<EncodeKeySize(Len(key))>> \o key
        ELSE <<shared % ByteValues, (Len(key) - shared) % ByteValues>>
                \o SubSeq(key, shared + 1, Len(key)))
       \o Varint(Len(value)) \o value

\* block_encoder::push: a restart entry also needs room for its offset.  A block
\* with no room left is committed.
Push(page, enc, key, value) ==
    LET restart == enc.count % RestartGroup = 0
        cells == EntryCells(enc, key, value)
        written == enc.written + Len(cells) + (IF restart THEN 1 ELSE 0)
    IN IF written > PageCells THEN [full |-> TRUE, page |-> Commit(page, enc), enc |-> enc]
       ELSE [full |-> FALSE,
             page |-> WriteCells(page, enc.head, cells),
             enc |-> [head |-> enc.head + Len(cells), written |-> written, last |-> key,
                      offsets |-> IF restart THEN Append(enc.offsets, enc.head) ELSE enc.offsets,
                      count |-> enc.count + 1]]

-----------------------------------------------------------------------------
\* block_iterator: the entries from index idx, at offset "at", up to index stop.
\* A restart entry has its whole key; another one extends a prefix of the last key.
RECURSIVE Entries(_, _, _, _, _)
Entries(page, at, idx, stop, last) ==
    LET restart == idx % RestartGroup = 0
        prefix == IF restart THEN <<>> ELSE SubSeq(last, 1, page[at + 1])
        from == IF restart THEN at + 1 ELSE at + 2
        n == IF restart THEN DecodeKeySize(page[at + 1]) ELSE page[at + 2]
        key == prefix \o SubSeq(page, from + 1, from + n)
        length == DecodeVarint(page, from + n)
        value == SubSeq(page, length.at + 1, length.at + length.n)
    IN IF idx >= stop THEN <<>>
       ELSE <<[key |-> key, value |-> value]>>
                \o Entries(page, length.at + length.n, idx + 1, stop, key)

KvCount(page) == page[PageCells - 1]
RestartCount(page) == page[PageCells - 2]
RestartOffset(page, i) == page[PageCells - 3 - RestartCount(page) + i]

\* block_decoder::sanity_check
SanityCheck(page) == page[PageCells] = Checksum(page)

\* block_decoder::begin() to end()
AllEntries(page) == Entries(page, 0, 0, KvCount(page), <<>>)

\* block_decoder::find that takes the first restart key that is not smaller.
FindFromLowerBound(page, key) ==
    LET restarts == {i \in 1 .. RestartCount(page) :
                        LET at == RestartOffset(page, i)
                        IN Less(SubSeq(page, at + 2, at + 1 + DecodeKeySize(page[at + 1])), key)}
        group == Cardinality(restarts)
        idx == (group - 1) * RestartGroup
        stop == Min({idx + RestartGroup, KvCount(page)})
        found == SelectSeq(Entries(page, RestartOffset(page, group), idx, stop, <<>>),
                           LAMBDA e : e.key = key)
    IN IF group = 0 \/ found = <<>> THEN <<>> ELSE found[1].value

\* block_decoder::find: the last restart group that does not start behind the key
\* (std::upper_bound, then one back), and a scan of that group; empty if not there.
Find(page, key) ==
    LET restarts == {i \in 1 .. RestartCount(page) :
                        LET at == RestartOffset(page, i)
                        IN ~Less(key, SubSeq(page, at + 2, at + 1 + DecodeKeySize(page[at + 1])))}
        group == Cardinality(restarts)
        idx == (group - 1) * RestartGroup
        stop == Min({idx + RestartGroup, KvCount(page)})
        found == SelectSeq(Entries(page, RestartOffset(page, group), idx, stop, <<>>),
                           LAMBDA e : e.key = key)
    IN IF group = 0 \/ found = <<>> THEN <<>> ELSE found[1].value
=============================================================================
