------------------------------- MODULE SstFile -------------------------------
(***************************************************************************)
(* An SST from the memtable to the reader: the flush of one partition          *)
(* (index_ops.cc, write_buffer.h), the file it leaves, and opening and looking  *)
(* up that file (sst.cc).  The file is a sequence of pages, and every page is  *)
(* encoded and decoded as in the code.  Every write may fail, and the process   *)
(* may stop between any two steps, after which the file is loaded as it is.    *)
(***************************************************************************)
EXTENDS Block, QuotientFilter

CONSTANTS
    Memtables,          \* the memtables to flush: sequences of [key, seq, value]
    KeyHash,            \* xxh64 of each key
    PartitionSize,      \* key prefixes in a partition
    BufferPages,        \* pages of the write buffer
    KeysPerMetaPage,    \* KEYS_PER_META_INDEX_PAGE
    SuperThreshold      \* SUPER_INDEX_ENABLE_THRESHOLD

VARIABLES
    mem,        \* the memtable, before the flush
    items,      \* the entries of the partition that is flushed
    pos,        \* the next of them
    w,          \* the merge_write_buffer and the meta index
    filter,     \* the quotient filter
    maxSeqNr,     \* max_seq_nr
    written,    \* bytes_written, in pages
    metaAt,     \* meta_index_offset, in pages
    file,       \* the pages of the file
    handle,     \* the sst object: [meta, super, filter, footer]
    pc          \* "memtable", then what is written next, "sealed" or "aborted";
                \* after a restart "loaded" or "rejected"

sstVars == <<mem, items, pos, w, filter, maxSeqNr, written, metaAt, file, handle>>

-----------------------------------------------------------------------------
(* Splitting a memtable into partitions *)

\* find_partition_prefix_for_key with the bytes of the prefix in the other order.
PartitionIdSwapped(key, stale) ==
    LET prefix == key[1] + (IF Len(key) > 1 THEN key[2] ELSE stale) * ByteValues
    IN ((prefix + PartitionSize) \div PartitionSize) * PartitionSize - 1

\* find_partition_prefix_for_key.  The prefix is two bytes; a key of one byte has
\* whatever is behind it in the key object for the second.
PartitionId(key, stale) ==
    LET prefix == key[1] * ByteValues + (IF Len(key) > 1 THEN key[2] ELSE stale)
    IN ((prefix + PartitionSize) \div PartitionSize) * PartitionSize - 1

\* _partition_ranges_generator
RECURSIVE PartitionRanges(_, _)
PartitionRanges(s, stale) ==
    LET id == PartitionId(s[1].key, stale)
        n == CHOOSE n \in 1 .. Len(s) :
                /\ \A i \in 1 .. n : PartitionId(s[i].key, stale) = id
                /\ n = Len(s) \/ PartitionId(s[n + 1].key, stale) # id
    IN IF s = <<>> THEN <<>>
       ELSE <<[id |-> id, items |-> SubSeq(s, 1, n)]>>
                \o PartitionRanges(SubSeq(s, n + 1, Len(s)), stale)

-----------------------------------------------------------------------------
(* The write buffer *)

NewWriter == [buf |-> [i \in 1 .. BufferPages |-> ZeroPage], cur |-> 1, enc |-> NewEncoder,
              meta |-> <<>>, bytes |-> <<>>, indexed |-> 0]

\* append_meta_index_key and emplace_back, for the last key of a block.
AppendMeta(u) ==
    LET last == u.enc.last
    IN [u EXCEPT !.meta = Append(@, last),
                 !.bytes = @ \o <<EncodeKeySize(Len(last))>> \o last]

\* block_encoder::push into the current page of the buffer.
PushHere(u, e) ==
    LET a == Push(u.buf[u.cur], u.enc, e.key, e.value)
    IN [full |-> a.full, u |-> [u EXCEPT !.buf[u.cur] = a.page, !.enc = a.enc,
                                         !.indexed = IF a.full THEN @ ELSE @ + 1]]

\* write_item and block_buffer_writer::push: on to the next page when one is full,
\* if the buffer has one.
WriteItem(u, e) ==
    LET a == PushHere(u, e)
        indexed == AppendMeta(a.u)
    IN IF ~a.full THEN a
       ELSE IF u.cur = BufferPages THEN [full |-> TRUE, u |-> indexed]
       ELSE PushHere([indexed EXCEPT !.cur = @ + 1, !.enc = NewEncoder], e)

\* The pages that flush() writes, the current one committed.
FlushPages(u) == [i \in 1 .. u.cur |-> IF i = u.cur THEN Commit(u.buf[i], u.enc) ELSE u.buf[i]]

\* flush() of a write buffer that keeps its encoder.
AfterFlushKeepingEncoder(u) == [u EXCEPT !.buf[u.cur] = Commit(@, u.enc), !.cur = 1]

\* The buffer after flush(): the pages keep what is in them.
AfterFlush(u) == [u EXCEPT !.buf[u.cur] = Commit(@, u.enc), !.cur = 1, !.enc = NewEncoder]

BufferEmpty(u) == u.cur = 1 /\ u.enc.count = 0

-----------------------------------------------------------------------------
(* The file *)

\* Cells, padded to whole pages.
Paged(cells) ==
    [p \in 1 .. (Len(cells) + PageCells - 1) \div PageCells |->
        [i \in 1 .. PageCells |->
            LET j == (p - 1) * PageCells + i IN IF j <= Len(cells) THEN cells[j] ELSE 0]]

\* pwrite of whole pages.
WriteAt(f, at, pages) ==
    [i \in 1 .. Max({Len(f), at + Len(pages)}) |->
        IF at < i /\ i <= at + Len(pages) THEN pages[i - at] ELSE f[i]]

CeilDiv(a, b) == (a + b - 1) \div b

\* create_qf_for_key_count: the least power of two with a quarter of it to spare.
QBits(n) ==
    LET slots == (n * 4 + 2) \div 3
    IN CHOOSE q \in 1 .. n + 1 : 2 ^ q >= slots /\ (q = 1 \/ 2 ^ (q - 1) < slots)

FilterPages(f) == Paged(<<f.q, f.entries>>) \o Paged([i \in 1 .. TableSize(f.q) |-> f.table[i - 1]])

\* estimate_sst_size, in pages: what the file is created with.
EstimatedPages(range) ==
    LET n == Len(range)
        average == CeilDiv(FoldLeft(LAMBDA a, e : a + Len(e.key) + Len(e.value), 0, range), n)
        pages == CeilDiv(n, CeilDiv(PageCells, average))
    IN pages + CeilDiv(pages, KeysPerMetaPage) + Len(FilterPages(QfInit(QBits(n)))) + 1

\* sst_footer as sst_footer_builder::build makes it.  The first field is the magic.
Magic == ByteValues * PageCells
FooterCells(f) ==
    <<Magic, f.upperBound, f.indexed, f.entries, f.metaAt, f.qfAt, f.qfPages, f.footerAt, f.maxSeq>>
ReadFooter(page) ==
    [upperBound |-> page[2], indexed |-> page[3], entries |-> page[4], metaAt |-> page[5],
     qfAt |-> page[6], qfPages |-> page[7], footerAt |-> page[8], maxSeq |-> page[9]]

\* The keys that are encoded one after the other, "n" of them from offset "at".
RECURSIVE ReadKeys(_, _, _)
ReadKeys(cells, at, n) ==
    LET size == DecodeKeySize(cells[at + 1])
    IN IF n = 0 THEN <<>>
       ELSE <<SubSeq(cells, at + 2, at + 1 + size)>> \o ReadKeys(cells, at + 1 + size, n - 1)

\* The super index of sst::load, and create_super_index: the last key of each page
\* of the meta index, if there are enough pages.
SuperIndex(meta) ==
    IF Len(meta) <= KeysPerMetaPage * SuperThreshold THEN <<>>
    ELSE [i \in 1 .. CeilDiv(Len(meta), KeysPerMetaPage) |-> meta[Min({i * KeysPerMetaPage, Len(meta)})]]

\* quotient_filter::load from the header page and the pages of the table.
ReadFilter(pages) ==
    LET cells == FlattenSeq(Tail(pages))
    IN [q |-> pages[1][1], entries |-> pages[1][2],
        table |-> [i \in 0 .. TableSize(pages[1][1]) - 1 |-> cells[i + 1]]]

HasMagic(f) == f # <<>> /\ Last(f)[1] = Magic

\* sst::load of a file with a footer
Loaded(f) ==
    LET footer == ReadFooter(Last(f))
        meta == ReadKeys(FlattenSeq(SubSeq(f, footer.metaAt + 1, footer.qfAt)), 0, footer.entries)
    IN [meta |-> meta, super |-> SuperIndex(meta), footer |-> footer,
        filter |-> ReadFilter(SubSeq(f, footer.qfAt + 1, footer.qfAt + footer.qfPages))]

NoHandle == [meta |-> <<>>, super |-> <<>>, filter |-> QfInit(1), footer |-> ReadFooter(ZeroPage)]

-----------------------------------------------------------------------------
(* Reading *)

\* std::lower_bound in s over the positions from .. to - 1, counted from 0.
LowerBoundIn(s, from, to, key) ==
    Min({to} \cup {i \in from .. to - 1 : ~Less(s[i + 1], key)})

\* The past-the-end page, where _find_page_id returns nullopt.
NoPage(h) == Len(h.meta)

\* _find_page_id that takes the last page of the meta index for a full one less
\* its remainder.
FindPageIdShort(h, key) ==
    LET page == LowerBoundIn(h.super, 0, Len(h.super), key)
        from == page * KeysPerMetaPage
        rest == Len(h.meta) % KeysPerMetaPage
        to == IF page = Len(h.super) - 1 THEN from + rest ELSE from + KeysPerMetaPage
    IN IF h.super = <<>> THEN LowerBoundIn(h.meta, 0, Len(h.meta), key)
       ELSE IF page = Len(h.super) THEN NoPage(h)
       ELSE LowerBoundIn(h.meta, from, to, key)

\* _find_page_id: the first page whose last key is not smaller than the key, by
\* way of the super index where there is one.
FindPageId(h, key) ==
    LET page == LowerBoundIn(h.super, 0, Len(h.super), key)
        from == page * KeysPerMetaPage
        rest == Len(h.meta) % KeysPerMetaPage
        to == IF page = Len(h.super) - 1 /\ rest # 0 THEN from + rest ELSE from + KeysPerMetaPage
    IN IF h.super = <<>> THEN LowerBoundIn(h.meta, 0, Len(h.meta), key)
       ELSE IF page = Len(h.super) THEN NoPage(h)
       ELSE LowerBoundIn(h.meta, from, to, key)

\* find_range: the pages of the keys between two bounds, where <<>> is no bound;
\* {} is nullopt.
FindRange(h, lower, upper) ==
    LET first == IF lower = <<>> THEN 0 ELSE FindPageId(h, lower)
        last == IF upper = <<>> \/ FindPageId(h, upper) = NoPage(h) THEN Len(h.meta) - 1
                ELSE FindPageId(h, upper)
    IN IF first = NoPage(h) THEN {} ELSE first .. last

\* lookup_async with _load_page_async and _find_in_page: the value, <<>> for
\* KEY_NOT_FOUND, and an answer that no entry has for a checksum mismatch.
Mismatch == <<ByteValues>>
LookupAsync(f, h, key) ==
    LET page == f[FindPageId(h, key) + 1]
    IN IF FindPageId(h, key) = NoPage(h) THEN <<>>
       ELSE IF ~SanityCheck(page) THEN Mismatch
       ELSE Find(page, key)

\* A get on one SST: probe_filter, and lookup_async if it may have the key.
Get(f, h, key) == IF QfMayContain(h.filter, KeyHash[key]) THEN LookupAsync(f, h, key) ELSE <<>>

\* block_buffer_reader over the index: every entry of every block.
ReadIndex(f, h) == FlattenSeq([i \in 1 .. h.footer.metaAt |-> AllEntries(f[i])])

-----------------------------------------------------------------------------
(* The flush *)

Init ==
    /\ mem \in Memtables
    /\ items = <<>> /\ pos = 1 /\ w = NewWriter /\ filter = QfInit(1)
    /\ maxSeqNr = 0 /\ written = 0 /\ metaAt = 0 /\ file = <<>> /\ handle = NoHandle
    /\ pc = "memtable"

\* flush_memtable posts one task for each range; each makes its filter and creates
\* its file.  The tasks share nothing, so one of them is followed.
FlushPartition ==
    /\ pc = "memtable"
    /\ \E stale \in 0 .. ByteValues - 1 : \E r \in Range(PartitionRanges(mem, stale)) :
          /\ items' = r.items
          /\ filter' = QfInit(QBits(Len(r.items)))
          /\ file' = [i \in 1 .. EstimatedPages(r.items) |-> ZeroPage]
    /\ mem' = <<>>
    /\ pc' = "index"
    /\ UNCHANGED <<pos, w, maxSeqNr, written, metaAt, handle>>

\* One turn of the loop of _write_index: an older version of a key is skipped; an
\* entry that the buffer has no room for is written after a flush.
WriteEntry ==
    LET e == items[pos]
        older == pos > 1 /\ items[pos - 1].key = e.key
    IN /\ pc = "index" /\ pos <= Len(items)
       /\ pos' = pos + 1
       /\ \/ older /\ UNCHANGED <<w, filter, maxSeqNr, written, file, pc>>
          \/ /\ ~older
             /\ maxSeqNr' = Max({maxSeqNr, e.seq})
             /\ filter' = QfInsert(filter, KeyHash[e.key])
             /\ \E first \in {WriteItem(w, e)} : \E retry \in {WriteItem(AfterFlush(first.u), e)} :
                   /\ w' = IF first.full THEN retry.u ELSE first.u
                   /\ file' = IF first.full THEN WriteAt(file, written, FlushPages(first.u)) ELSE file
                   /\ written' = IF first.full THEN written + first.u.cur ELSE written
                   /\ pc' = IF first.full /\ retry.full THEN "aborted" ELSE "index"
       /\ UNCHANGED <<mem, items, metaAt, handle>>

\* The rest of the buffer, at the end of _write_index.
FlushRest ==
    /\ pc = "index" /\ pos > Len(items)
    /\ IF BufferEmpty(w) THEN UNCHANGED <<w, file, written>>
       ELSE /\ w' = AfterFlush(AppendMeta(w))
            /\ file' = WriteAt(file, written, FlushPages(w))
            /\ written' = written + w.cur
    /\ pc' = "meta"
    /\ UNCHANGED <<mem, items, pos, filter, maxSeqNr, metaAt, handle>>

\* _export_as_sst_async from here on: the meta index ...
WriteMeta ==
    /\ pc = "meta"
    /\ file' = WriteAt(file, written, Paged(w.bytes))
    /\ metaAt' = written
    /\ written' = written + Len(Paged(w.bytes))
    /\ pc' = "filter"
    /\ UNCHANGED <<mem, items, pos, w, filter, maxSeqNr, handle>>

\* ... the filter ...
WriteFilter ==
    /\ pc = "filter"
    /\ file' = WriteAt(file, written, FilterPages(filter))
    /\ written' = written + Len(FilterPages(filter))
    /\ pc' = "footer"
    /\ UNCHANGED <<mem, items, pos, w, filter, maxSeqNr, metaAt, handle>>

\* ... the footer, which also goes into the sst object that is returned ...
WriteFooter ==
    LET qfPages == Len(FilterPages(filter))
        footer == [upperBound |-> PartitionId(items[1].key, 0), indexed |-> w.indexed,
                   entries |-> Len(w.meta), metaAt |-> metaAt, qfAt |-> written - qfPages,
                   qfPages |-> qfPages, footerAt |-> written, maxSeq |-> maxSeqNr]
    IN /\ pc = "footer"
       /\ file' = WriteAt(file, written, Paged(FooterCells(footer)))
       /\ written' = written + 1
       /\ handle' = [meta |-> w.meta, super |-> <<>>, filter |-> filter, footer |-> footer]
       /\ pc' = "truncate"
       /\ UNCHANGED <<mem, items, pos, w, filter, maxSeqNr, metaAt>>

\* An export that leaves the file at the size it was created with.
TruncateNothing == pc = "truncate" /\ pc' = "sync" /\ UNCHANGED sstVars

\* ... ftruncate to what was written ...
Truncate ==
    /\ pc = "truncate"
    /\ file' = SubSeq(file, 1, written)
    /\ pc' = "sync"
    /\ UNCHANGED <<mem, items, pos, w, filter, maxSeqNr, written, metaAt, handle>>

\* ... and fdatasync.
Sync == pc = "sync" /\ pc' = "sealed" /\ UNCHANGED sstVars

Writing == {"index", "meta", "filter", "footer", "truncate", "sync"}

\* A call fails, and with it the export.
IoError == pc \in Writing /\ pc' = "aborted" /\ UNCHANGED sstVars

\* The process stops and later opens the file: sst::load.
Load ==
    /\ pc \in Writing \cup {"aborted", "sealed"}
    /\ handle' = IF HasMagic(file) THEN Loaded(file) ELSE NoHandle
    /\ pc' = IF HasMagic(file) THEN "loaded" ELSE "rejected"
    /\ w' = NewWriter /\ filter' = QfInit(1) /\ pos' = 1 /\ maxSeqNr' = 0 /\ metaAt' = 0
    /\ UNCHANGED <<mem, items, written, file>>

Next ==
    \/ FlushPartition \/ WriteEntry \/ FlushRest \/ WriteMeta \/ WriteFilter \/ WriteFooter
    \/ Truncate \/ Sync \/ IoError \/ Load

vars == <<sstVars, pc>>

Spec == Init /\ [][Next]_vars

-----------------------------------------------------------------------------
(* Properties *)

\* What the partition's entries say: the first version of each key, the newest.
Newest == SelectSeq(items, LAMBDA e : \A f \in Range(items) : f.key = e.key => f.seq <= e.seq)
Expected(key) == IF \E e \in Range(Newest) : e.key = key
                 THEN (CHOOSE e \in Range(Newest) : e.key = key).value ELSE <<>>

\* The files that can be read: through the object that the flush returns, or loaded.
Readable == pc \in {"sealed", "loaded"}

\* The ranges a flush makes of a memtable (_partition_ranges_generator) together
\* are the memtable, no two are of one partition, and every key is in the partition
\* where a get looks for it.  Whatever is behind a key of one byte does not matter as
\* long as a partition has all keys with the same first byte (PartitionSize >= ByteValues).
RangesAreWhole ==
    pc = "memtable" => \A stale \in 0 .. ByteValues - 1 :
        LET ranges == PartitionRanges(mem, stale)
        IN /\ FlattenSeq([i \in DOMAIN ranges |-> ranges[i].items]) = mem
           /\ \A i, j \in DOMAIN ranges : i # j => ranges[i].id # ranges[j].id
           /\ \A i \in DOMAIN ranges : \A e \in Range(ranges[i].items) :
                 \A other \in 0 .. ByteValues - 1 : PartitionId(e.key, other) = ranges[i].id

\* A get on an SST (probe_filter, lookup_async) answers with the newest version of
\* every key that was flushed and with KEY_NOT_FOUND for all others, both through
\* the object that the flush returns and after sst::load.
GetIsExact == Readable => \A key \in DOMAIN KeyHash : Get(file, handle, key) = Expected(key)

\* Reading the blocks of an SST in turn (block_buffer_reader), as merges and scans
\* do, gives the newest version of every key, in order, and nothing else.
IndexReadsBack ==
    Readable => ReadIndex(file, handle) =
                   [i \in DOMAIN Newest |-> [key |-> Newest[i].key, value |-> Newest[i].value]]

\* find_range gives pages that hold every key between the bounds, and nullopt only
\* where there is none.
RangeIsCovered ==
    Readable => \A lower, upper \in DOMAIN KeyHash \cup {<<>>} :
        LET pages == FindRange(handle, lower, upper)
            has == UNION {{e.key : e \in Range(AllEntries(file[p + 1]))} : p \in pages}
        IN \A e \in Range(Newest) :
              (lower = <<>> \/ ~Less(e.key, lower)) /\ (upper = <<>> \/ ~Less(upper, e.key))
                 => e.key \in has

\* An export that reported success left a file that sst::load accepts, and a file
\* of an export that was cut short is accepted only if it is whole: its footer says
\* how many keys there are and which sequence number is the highest.
OnlyWholeFilesLoad ==
    /\ pc = "sealed" => HasMagic(file)
    /\ Readable => /\ handle.footer.indexed = Len(Newest)
                   /\ handle.footer.maxSeq = Max({e.seq : e \in Range(items)})
                   /\ Len(file) = handle.footer.footerAt + 1
=============================================================================
