------------------------ MODULE MCConcurrentSkipList ------------------------
(* Instances of ConcurrentSkipList for TLC. *)
EXTENDS ConcurrentSkipList, TLC

\* A list of more than one key outgrows a head of height 1.
OneKey == [h \in 1 .. MaxHeight |-> h]

SmallLists ==
    {[height |-> 1, heights |-> hs] : hs \in {<<>>, 2 :> 1}}
    \cup {[height |-> 2, heights |-> hs] :
              hs \in {<<>>, 2 :> 2, (1 :> 1 @@ 2 :> 2), (1 :> 2 @@ 2 :> 2)}}

Symmetry == Permutations(Threads)
=============================================================================
