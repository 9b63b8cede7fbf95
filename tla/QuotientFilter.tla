--------------------------- MODULE QuotientFilter ---------------------------
(***************************************************************************)
(* The quotient filter of an SST (qf.cc).  A fingerprint is a quotient, which  *)
(* names a slot, and a remainder, which is stored in it or, if it is taken, in *)
(* one of the slots after it; three bits of each slot tell which run of        *)
(* remainders belongs to which quotient.  The slots are packed into words.     *)
(***************************************************************************)
EXTENDS Integers, Sequences, FiniteSets

CONSTANTS
    RBits,      \* remainder bits (QF_BITS_PER_KEY)
    WordBits    \* bits of a word of the table, 64 in the code

ElemBits == RBits + 3

\* qf_table_size, in words.
TableSize(q) == (2 ^ q * ElemBits + WordBits - 1) \div WordBits

\* qf_init
QfInit(q) == [q |-> q, entries |-> 0, table |-> [i \in 0 .. TableSize(q) - 1 |-> 0]]

MaxSize(f) == 2 ^ f.q

\* Where the element of slot idx is: its first word, its place there, and how many
\* of its bits that word has; the rest are the low bits of the next word.
Tab(idx) == (ElemBits * idx) \div WordBits
Slot(idx) == (ElemBits * idx) % WordBits
Here(idx) == IF Slot(idx) + ElemBits <= WordBits THEN ElemBits ELSE WordBits - Slot(idx)

\* The low "width" bits of a word from bit "slot" on, and the word with others there.
Field(word, slot, width) == (word \div 2 ^ slot) % 2 ^ width
WithField(word, slot, width, x) == word + (x - Field(word, slot, width)) * 2 ^ slot

\* get_elem
GetElem(f, idx) ==
    LET low == Field(f.table[Tab(idx)], Slot(idx), Here(idx))
        spill == ElemBits - Here(idx)
    IN IF spill = 0 THEN low
       ELSE low + Field(f.table[Tab(idx) + 1], 0, spill) * 2 ^ Here(idx)

\* set_elem
SetElem(f, idx, elt) ==
    LET spill == ElemBits - Here(idx)
        g == [f EXCEPT !.table[Tab(idx)] = WithField(@, Slot(idx), Here(idx), elt % 2 ^ Here(idx))]
    IN IF spill = 0 THEN g
       ELSE [g EXCEPT !.table[Tab(idx) + 1] = WithField(@, 0, spill, elt \div 2 ^ Here(idx))]

Incr(f, i) == (i + 1) % MaxSize(f)
Decr(f, i) == (i - 1) % MaxSize(f)

-----------------------------------------------------------------------------
\* The bits of an element.
IsOccupied(e) == e % 2 = 1
IsContinuation(e) == (e \div 2) % 2 = 1
IsShifted(e) == (e \div 4) % 2 = 1
SetOccupied(e) == IF IsOccupied(e) THEN e ELSE e + 1
ClrOccupied(e) == IF IsOccupied(e) THEN e - 1 ELSE e
SetContinuation(e) == IF IsContinuation(e) THEN e ELSE e + 2
ClrContinuation(e) == IF IsContinuation(e) THEN e - 2 ELSE e
SetShifted(e) == IF IsShifted(e) THEN e ELSE e + 4
ClrShifted(e) == IF IsShifted(e) THEN e - 4 ELSE e
Remainder(e) == e \div 8
IsEmptyElement(e) == e % 8 = 0
IsClusterStart(e) == IsOccupied(e) /\ ~IsContinuation(e) /\ ~IsShifted(e)
IsRunStart(e) == ~IsContinuation(e) /\ (IsOccupied(e) \/ IsShifted(e))

HashToQuotient(f, hash) == (hash \div 2 ^ RBits) % MaxSize(f)
HashToRemainder(hash) == hash % 2 ^ RBits

-----------------------------------------------------------------------------
\* The first slot after i, all the way round, whose element passes the test.
Forward(f, i, test(_)) ==
    LET d == CHOOSE d \in 1 .. MaxSize(f) :
                /\ test(GetElem(f, (i + d) % MaxSize(f)))
                /\ \A c \in 1 .. d - 1 : ~test(GetElem(f, (i + c) % MaxSize(f)))
    IN (i + d) % MaxSize(f)

RECURSIVE ClusterStart(_, _)
ClusterStart(f, b) == IF IsShifted(GetElem(f, b)) THEN ClusterStart(f, Decr(f, b)) ELSE b

\* From the cluster start, one run for each quotient that has one.
RECURSIVE RunOf(_, _, _, _)
RunOf(f, s, b, fq) ==
    IF b = fq THEN s
    ELSE RunOf(f, Forward(f, s, LAMBDA e : ~IsContinuation(e)), Forward(f, b, IsOccupied), fq)

\* find_run_index
FindRunIndex(f, fq) == RunOf(f, ClusterStart(f, fq), ClusterStart(f, fq), fq)

\* The slot of a run, from s on, where a remainder is or would be: the loops of
\* qf_insert, qf_may_contain and qf_remove.
RECURSIVE Position(_, _, _)
Position(f, s, fr) ==
    IF Remainder(GetElem(f, s)) >= fr \/ ~IsContinuation(GetElem(f, Incr(f, s)))
    THEN IF Remainder(GetElem(f, s)) >= fr THEN s ELSE Incr(f, s)
    ELSE Position(f, Incr(f, s), fr)

\* That slot holds the remainder; behind the end of the run it does not.
HoldsRemainder(f, start, s, fr) ==
    Remainder(GetElem(f, s)) = fr /\ (s = start \/ IsContinuation(GetElem(f, s)))

\* insert_into: shift elements over; the occupied bit belongs to the slot.
RECURSIVE InsertInto(_, _, _)
InsertInto(f, s, elt) ==
    LET prev == GetElem(f, s)
    IN IF IsEmptyElement(prev) THEN SetElem(f, s, elt)
       ELSE InsertInto(SetElem(f, s, IF IsOccupied(prev) THEN SetOccupied(elt) ELSE elt),
                       Incr(f, s), ClrOccupied(SetShifted(prev)))

\* qf_insert.  A filter that is full is left alone.
QfInsert(f, hash) ==
    LET fq == HashToQuotient(f, hash)
        fr == HashToRemainder(hash)
        Tfq == GetElem(f, fq)
        entry == fr * 8
        g == SetElem(f, fq, SetOccupied(Tfq))
        start == FindRunIndex(g, fq)
        s == IF IsOccupied(Tfq) THEN Position(g, start, fr) ELSE start
        h == IF IsOccupied(Tfq) /\ s = start
             THEN SetElem(g, start, SetContinuation(GetElem(g, start))) ELSE g
        continued == IF IsOccupied(Tfq) /\ s # start THEN SetContinuation(entry) ELSE entry
    IN IF f.entries >= MaxSize(f) THEN f
       ELSE IF IsEmptyElement(Tfq)
            THEN [SetElem(f, fq, SetOccupied(entry)) EXCEPT !.entries = f.entries + 1]
       ELSE IF IsOccupied(Tfq) /\ HoldsRemainder(g, start, s, fr) THEN f
       ELSE [InsertInto(h, s, IF s # fq THEN SetShifted(continued) ELSE continued)
                EXCEPT !.entries = f.entries + 1]

\* qf_may_contain
QfMayContain(f, hash) ==
    LET fq == HashToQuotient(f, hash)
        start == FindRunIndex(f, fq)
    IN /\ IsOccupied(GetElem(f, fq))
       /\ HoldsRemainder(f, start, Position(f, start, HashToRemainder(hash)), HashToRemainder(hash))

-----------------------------------------------------------------------------
\* delete_entry: the rest of the cluster slides back by one, from sp into s; curr
\* was in s, and quot is the quotient of the run at sp.
RECURSIVE Slide(_, _, _, _, _, _)
Slide(f, s, sp, curr, quot, orig) ==
    LET next == GetElem(f, sp)
        q == IF IsRunStart(next) THEN Forward(f, quot, IsOccupied) ELSE quot
        settled == IF IsRunStart(next) /\ IsOccupied(curr) /\ q = s THEN ClrShifted(next) ELSE next
    IN IF IsEmptyElement(next) \/ IsClusterStart(next) \/ sp = orig THEN SetElem(f, s, 0)
       ELSE Slide(SetElem(f, s, IF IsOccupied(curr) THEN SetOccupied(settled) ELSE ClrOccupied(settled)),
                  sp, Incr(f, sp), next, q, orig)

\* qf_remove that forgets to make the next element the start of the run.
QfRemoveKeepingRun(f, hash) ==
    LET fq == HashToQuotient(f, hash)
        fr == HashToRemainder(hash)
        start == FindRunIndex(f, fq)
        s == Position(f, start, fr)
    IN IF hash >= 2 ^ (f.q + RBits) \/ ~IsOccupied(GetElem(f, fq)) \/ ~HoldsRemainder(f, start, s, fr)
       THEN f
       ELSE [Slide(f, s, Incr(f, s), GetElem(f, s), fq, s) EXCEPT !.entries = f.entries - 1]

\* qf_remove: the next of a run becomes its start, and a run that has no other
\* element ends.
QfRemove(f, hash) ==
    LET fq == HashToQuotient(f, hash)
        fr == HashToRemainder(hash)
        start == FindRunIndex(f, fq)
        s == Position(f, start, fr)
        kill == GetElem(f, s)
        alone == ~IsContinuation(GetElem(f, Incr(f, s)))
        g == IF IsRunStart(kill) /\ alone THEN SetElem(f, fq, ClrOccupied(GetElem(f, fq))) ELSE f
        h == Slide(g, s, Incr(g, s), GetElem(g, s), fq, s)
        next == ClrContinuation(GetElem(h, s))
        repaired == IF s = fq /\ IsRunStart(next) THEN ClrShifted(next) ELSE next
    IN IF hash >= 2 ^ (f.q + RBits) \/ ~IsOccupied(GetElem(f, fq)) \/ ~HoldsRemainder(f, start, s, fr)
       THEN f
       ELSE [(IF IsRunStart(kill) THEN SetElem(h, s, repaired) ELSE h)
                EXCEPT !.entries = f.entries - 1]

\* qf_clear
QfClear(f) == QfInit(f.q)

-----------------------------------------------------------------------------
\* qfi_next, from slot i in the run of quot, with n fingerprints still to come.
RECURSIVE Visit(_, _, _, _)
Visit(f, i, quot, n) ==
    LET e == GetElem(f, i)
        q == IF IsClusterStart(e) THEN i
             ELSE IF IsRunStart(e) THEN Forward(f, quot, IsOccupied)
             ELSE quot
    IN IF n = 0 THEN <<>>
       ELSE IF IsEmptyElement(e) THEN Visit(f, Incr(f, i), q, n)
       ELSE <<q * 2 ^ RBits + Remainder(e)>> \o Visit(f, Incr(f, i), q, n - 1)

\* qfi_start and then qfi_next to the end: from the first cluster, round the table.
Fingerprints(f) ==
    IF f.entries = 0 THEN <<>>
    ELSE LET start == CHOOSE i \in 0 .. MaxSize(f) - 1 :
                         /\ IsClusterStart(GetElem(f, i))
                         /\ \A j \in 0 .. i - 1 : ~IsClusterStart(GetElem(f, j))
         IN Visit(f, start, start, f.entries)
=============================================================================
