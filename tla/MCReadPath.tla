----------------------------- MODULE MCReadPath ------------------------------
(* ReadPath on small instances.                                            *)
EXTENDS ReadPath, SequencesExt

\* Two SSTs over three keys, three over two, and four, enough for two merges
\* that leave nothing, over one.
SmallShapes == {[ssts |-> 2, keys |-> {1, 2, 3}], [ssts |-> 3, keys |-> {1, 2}],
                [ssts |-> 4, keys |-> {1}]}

\* Keys that are prefixes of one another, in key order; the last is in another
\* partition.  The sequence numbers are not in key order.
FlushKeys == <<<<0>>, <<0, 0>>, <<0, 0, 1>>, <<0, 1>>, <<0, 1, 1>>, <<2>>>>
Seqs == <<2, 12, 4, 8, 10, 6>>

\* A value of one cell; one of five, whose length takes three; one over the other.
Versions(i) ==
    LET v(s, value) == [key |-> FlushKeys[i], seq |-> s, value |-> value]
    IN {<<>>, <<v(Seqs[i], <<1>>)>>, <<v(Seqs[i], <<2, 3, 2, 3, 2>>)>>,
        <<v(Seqs[i], <<3>>), v(Seqs[i] - 1, <<0, 1, 0, 1, 0>>)>>}

\* A value that no page has room for.
Huge == <<[key |-> FlushKeys[2], seq |-> Seqs[2], value |-> [i \in 1 .. 12 |-> 1]]>>

SmallMemtables ==
    {FlattenSeq(<<a, b, c, d, e, f>>) :
        a \in Versions(1), b \in Versions(2) \cup {Huge}, c \in Versions(3),
        d \in Versions(4), e \in Versions(5), f \in Versions(6)} \ {<<>>}

\* A key of the greatest length that shares nothing with the one before it.
LongKeyMemtables ==
    {<<[key |-> <<0>>, seq |-> 2, value |-> <<1>>],
       [key |-> <<1, 1, 1, 1>>, seq |-> 1, value |-> <<1>>]>>}

\* The keys of the memtables and some that are in none of them; some collide.
SmallHash ==
    [k \in ToSet(FlushKeys) \cup {<<0, 0, 0>>, <<1, 1>>, <<1, 1, 1, 1>>, <<3>>} |->
        FoldLeft(LAMBDA a, c : (5 * a + c + 1) % 64, 0, k)]
=============================================================================
