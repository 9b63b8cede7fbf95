------------------------- MODULE ConcurrentSkipList -------------------------
(***************************************************************************)
(* The concurrent skip list under the memtable (concurrent_skiplist.h,        *)
(* skiplist_details.h).  Writers lock the predecessors of a node, check that   *)
(* nothing moved and relink; readers take no lock.  A removed node is          *)
(* destroyed when the last accessor lets go of the list.                      *)
(*                                                                         *)
(* A step makes one access that other threads can see.  What a thread reads   *)
(* or writes while its lock keeps all others away is one step with the        *)
(* access it prepares: a check after an acquisition, a store to a node that    *)
(* is not linked yet, a release.                                            *)
(***************************************************************************)
EXTENDS Integers, Sequences, FiniteSets

CONSTANTS
    Threads,
    NoOne,          \* who holds a lock that is free
    Keys,           \* a set of positive integers
    Ops,            \* the operations that threads call
    MaxHeight,      \* MAX_HEIGHT
    SizeLimit,      \* sizeLimitTable_
    Lists,          \* the lists to start from: the height of the head, and of the
                    \* node of each key
    MaxCalls,       \* bound: calls altogether
    MaxReads        \* bound: calls among them that only read

ASSUME KeysAssumption == Keys \subseteq Nat \ {0} /\ IsFiniteSet(Keys)
ASSUME ListsAssumption ==
    \A l \in Lists : /\ l.height \in 1 .. MaxHeight /\ DOMAIN l.heights \subseteq Keys
                     /\ \A k \in DOMAIN l.heights : l.heights[k] \in 1 .. l.height
                     /\ Cardinality(DOMAIN l.heights) <= SizeLimit[l.height]
ASSUME OpsAssumption ==
    Ops \subseteq {"add", "remove", "contains", "lower_bound", "iterate", "last"}
ASSUME NoOneAssumption == NoOne \notin Threads
ASSUME HeightAssumption == MaxHeight \in Nat /\ MaxHeight >= 2

Nil == 0            \* nullptr, and the key of a head

VARIABLES
    node,           \* nodes and heads, in the order of their creation
    head,           \* head_
    size,           \* size_
    refs, dirty, recycled,      \* the NodeRecycler: refs_, dirty_, nodes_
    th,             \* the locals of each thread
    calls, reads,   \* calls so far, and those that only read
    always, ever    \* for each thread: the keys that the list has held throughout
                    \* its call, and those it has held at some time of it

list == <<node, head, size>>
recycler == <<refs, dirty, recycled>>
history == <<always, ever>>
bounds == <<calls, reads>>
vars == <<list, recycler, th, bounds, history>>

Layers == 0 .. MaxHeight - 1

\* SkipListNode::create
Create(k, h, links) ==
    [key |-> k, height |-> h, skip |-> [l \in 0 .. h - 1 |-> links[l]], lock |-> NoOne,
     linked |-> FALSE, marked |-> FALSE, dead |-> FALSE]

NoLinks == [l \in Layers |-> Nil]

Idle ==
    [pc |-> "idle", op |-> "none", key |-> Nil, top |-> 0, layer |-> 0, at |-> -1,
     pred |-> Nil, preds |-> NoLinks, succs |-> NoLinks, height |-> 0, mine |-> Nil,
     size |-> 0, out |-> <<>>, result |-> FALSE, doomed |-> {}]

-----------------------------------------------------------------------------
\* What the list holds.

\* The node behind n on a layer.
Follow(n, layer) == IF n # Nil /\ layer < node[n].height THEN node[n].skip[layer] ELSE Nil

\* The nodes behind n on a layer.
Chain(n, layer) ==
    LET behind[i \in 0 .. Len(node)] == IF i = 0 THEN n ELSE Follow(behind[i - 1], layer)
    IN {behind[i] : i \in 1 .. Len(node)} \ {Nil}

Heads == {n \in DOMAIN node : node[n].key = Nil}

\* The keys whose insertion is complete, and those with a node on the bottom layer.
Present == {node[n].key : n \in {m \in DOMAIN node \ Heads :
                                    node[m].linked /\ ~node[m].marked}}
Visible == {node[n].key : n \in {m \in Chain(head, 0) : ~node[m].marked}}

-----------------------------------------------------------------------------
\* A list that nobody works on: keys and the heights of their nodes.
Quiet(heights, h) ==
    LET at[k \in Keys] == 1 + Cardinality({j \in DOMAIN heights : j <= k})
        After(k, l) == LET later == {j \in DOMAIN heights : j > k /\ heights[j] > l}
                       IN IF later = {} THEN Nil
                          ELSE at[CHOOSE j \in later : \A i \in later : j <= i]
        links(k) == [l \in Layers |-> After(k, l)]
        ByPlace == [i \in 1 .. Cardinality(DOMAIN heights) |->
                        CHOOSE k \in DOMAIN heights : at[k] = i + 1]
    IN <<Create(Nil, h, links(Nil))>>
       \o [i \in DOMAIN ByPlace |->
              [Create(ByPlace[i], heights[ByPlace[i]], links(ByPlace[i]))
                  EXCEPT !.linked = TRUE]]

Init ==
    /\ \E l \in Lists :
          /\ node = Quiet(l.heights, l.height)
          /\ size = Cardinality(DOMAIN l.heights)
    /\ head = 1
    /\ refs = 0 /\ dirty = FALSE /\ recycled = {}
    /\ th = [t \in Threads |-> Idle]
    /\ calls = 0 /\ reads = 0
    /\ always = [t \in Threads |-> {}] /\ ever = [t \in Threads |-> {}]

-----------------------------------------------------------------------------
\* The locals of t after a step, and a call that returns.
Goes(t, locals) == th' = [th EXCEPT ![t] = locals]

Return(t, r, out) ==
    Goes(t, [Idle EXCEPT !.pc = "release", !.op = th[t].op, !.key = th[t].key,
                         !.result = r, !.out = out])

\* t gives its locks up, all but the one on keep.
Released(nodes, t, keep) ==
    [n \in DOMAIN nodes |->
        IF nodes[n].lock = t /\ n # keep THEN [nodes[n] EXCEPT !.lock = NoOne] ELSE nodes[n]]

\* An Accessor: addRef, then the call.
Call(t, op, k) ==
    /\ th[t].pc = "idle"
    /\ calls < MaxCalls
    /\ calls' = calls + 1
    /\ reads' = IF op \in {"add", "remove"} THEN reads ELSE reads + 1
    /\ reads' <= MaxReads
    /\ refs' = refs + 1
    /\ Goes(t, [Idle EXCEPT !.pc = CASE op \in {"add", "remove"} -> "max"
                                     [] op \in {"contains", "lower_bound"} -> "down_head"
                                     [] op = "iterate" -> "begin"
                                     [] op = "last" -> "last_head",
                            !.op = op, !.key = IF op \in {"iterate", "last"} THEN Nil ELSE k])
    /\ UNCHANGED <<list, dirty, recycled>>

-----------------------------------------------------------------------------
\* findInsertionPointGetMaxLayer: the height comes from one load of head_ ...
MaxLayer(t) ==
    /\ th[t].pc = "max"
    /\ Goes(t, [th[t] EXCEPT !.pc = "head", !.top = node[head].height - 1])
    /\ UNCHANGED <<list, recycler, bounds>>

\* ... and the place to start from another.
LoadHead(t) ==
    /\ th[t].pc = "head"
    /\ Goes(t, [th[t] EXCEPT !.pc = "search", !.pred = head, !.layer = th[t].top, !.at = -1])
    /\ UNCHANGED <<list, recycler, bounds>>

\* The height drawn from the greatest one.
NodeHeightUncapped(top) == 1 .. MaxHeight

\* getHeight: capped at the height the search started from.
NodeHeight(top) == 1 .. top + 1

\* findInsertionPoint: one load of a link.  When it ends without the key, an
\* insertion draws the height of its node.
Search(t) ==
    LET me == th[t]
        n == node[me.pred].skip[me.layer]
        found == me.at = -1 /\ n # Nil /\ node[n].key = me.key
        here == [me EXCEPT !.at = IF found THEN me.layer ELSE me.at,
                           !.preds[me.layer] = me.pred,
                           !.succs[me.layer] = IF me.at # -1 THEN me.succs[me.at] ELSE n]
    IN /\ me.pc = "search"
       /\ IF n # Nil /\ node[n].key < me.key THEN Goes(t, [me EXCEPT !.pred = n])
          ELSE IF me.layer > 0 THEN Goes(t, [here EXCEPT !.layer = me.layer - 1])
          ELSE IF me.op = "remove" \/ here.at # -1 THEN Goes(t, [here EXCEPT !.pc = "searched"])
          ELSE \E h \in NodeHeight(me.top) :
                  Goes(t, [here EXCEPT !.pc = "lock", !.height = h, !.pred = Nil])
       /\ UNCHANGED <<list, recycler, bounds>>

-----------------------------------------------------------------------------
\* addOrGetData, the key is there: a node on its way out is searched again.
AddFound(t) ==
    LET me == th[t] IN
    /\ me.pc = "searched" /\ me.op = "add"
    /\ Goes(t, [me EXCEPT !.pc = IF node[me.succs[me.at]].marked THEN "max" ELSE "await"])
    /\ UNCHANGED <<list, recycler, bounds>>

\* It waits until the node is fully linked.
AddAwait(t) ==
    /\ th[t].pc = "await"
    /\ node[th[t].succs[th[t].at]].linked
    /\ Return(t, FALSE, <<>>)
    /\ UNCHANGED <<list, recycler, bounds>>

\* okToDelete
OkToDelete(n, layer) ==
    node[n].linked /\ node[n].height - 1 = layer /\ ~node[n].marked

\* remove: a node that it has marked already, on an earlier try, stays its own.
RemoveFound(t) ==
    LET me == th[t] IN
    /\ me.pc = "searched" /\ me.op = "remove"
    /\ IF me.mine # Nil
       THEN Goes(t, [me EXCEPT !.pc = "lock", !.layer = 0])
       ELSE IF me.at = -1 \/ ~OkToDelete(me.succs[me.at], me.at)
            THEN Return(t, FALSE, <<>>)
            ELSE Goes(t, [me EXCEPT !.pc = "mark"])
    /\ UNCHANGED <<list, recycler, bounds>>

\* Lock the node and mark it, unless another thread did.
RemoveMark(t) ==
    LET me == th[t]
        n == me.succs[me.at]
    IN /\ me.pc = "mark"
       /\ node[n].lock = NoOne
       /\ IF node[n].marked
          THEN Return(t, FALSE, <<>>) /\ UNCHANGED node
          ELSE /\ node' = [node EXCEPT ![n].lock = t, ![n].marked = TRUE]
               /\ Goes(t, [me EXCEPT !.pc = "lock", !.layer = 0, !.mine = n, !.pred = Nil,
                                     !.height = node[n].height])
       /\ UNCHANGED <<head, size, recycler, bounds>>

-----------------------------------------------------------------------------
\* The locks are taken without a second look at the links.
ValidWithoutLinks(t, layer) ==
    LET p == th[t].preds[layer]
        s == th[t].succs[layer]
    IN ~node[p].marked /\ (th[t].op = "add" => s = Nil \/ ~node[s].marked)

\* lockNodesForChange: one layer, from the bottom up.
Valid(t, layer) ==
    LET p == th[t].preds[layer]
        s == th[t].succs[layer]
    IN /\ ~node[p].marked
       /\ node[p].skip[layer] = s
       /\ th[t].op = "add" => s = Nil \/ ~node[s].marked

\* The next try starts with the locks of the last one.
LockNodesKeepingLocks(t) ==
    LET me == th[t]
        p == me.preds[me.layer]
        last == me.layer = me.height - 1
    IN /\ me.pc = "lock"
       /\ me.layer = 0 \/ p # me.preds[me.layer - 1] => node[p].lock \in {NoOne, t}
       /\ node' = [node EXCEPT ![p].lock = t]
       /\ IF Valid(t, me.layer)
          THEN Goes(t, [me EXCEPT !.pc = IF last THEN "change" ELSE "lock",
                                  !.layer = IF ~last THEN me.layer + 1
                                            ELSE IF me.op = "add" THEN 0 ELSE me.layer])
          ELSE Goes(t, [me EXCEPT !.pc = "max"])
       /\ UNCHANGED <<head, size, recycler, bounds>>

LockNodesForChange(t) ==
    LET me == th[t]
        p == me.preds[me.layer]
        last == me.layer = me.height - 1
    IN /\ me.pc = "lock"
       /\ me.layer = 0 \/ p # me.preds[me.layer - 1] => node[p].lock = NoOne
       /\ IF Valid(t, me.layer)
          THEN /\ node' = [node EXCEPT ![p].lock = t]
               /\ Goes(t, [me EXCEPT
                     !.pc = IF last THEN "change" ELSE "lock",
                     !.layer = IF ~last THEN me.layer + 1
                               ELSE IF me.op = "add" THEN 0 ELSE me.layer])
          ELSE /\ node' = Released(node, t, me.mine)
               /\ Goes(t, [me EXCEPT !.pc = "max"])
       /\ UNCHANGED <<head, size, recycler, bounds>>

\* The links of a new node, one layer after the other from the bottom.
AddLink(t) ==
    LET me == th[t]
        new == IF me.layer = 0 THEN Len(node) + 1 ELSE me.mine
        grown == IF me.layer = 0 THEN Append(node, Create(me.key, me.height, NoLinks)) ELSE node
    IN /\ me.pc = "change" /\ me.op = "add"
       /\ node' = [grown EXCEPT ![new].skip[me.layer] = me.succs[me.layer],
                                ![me.preds[me.layer]].skip[me.layer] = new]
       /\ Goes(t, [me EXCEPT !.mine = new, !.layer = me.layer + 1,
                             !.pc = IF me.layer + 1 = me.height THEN "flag" ELSE "change"])
       /\ UNCHANGED <<head, size, recycler, bounds>>

SetFullyLinked(t) ==
    /\ th[t].pc = "flag"
    /\ node' = [node EXCEPT ![th[t].mine].linked = TRUE]
    /\ Goes(t, [th[t] EXCEPT !.pc = "count"])
    /\ UNCHANGED <<head, size, recycler, bounds>>

\* incrementSize(1), and the guards go out of scope.
AddCount(t) ==
    /\ th[t].pc = "count" /\ th[t].op = "add"
    /\ size' = size + 1
    /\ node' = Released(node, t, Nil)
    /\ Goes(t, [Idle EXCEPT !.pc = "limit", !.op = "add", !.key = th[t].key, !.size = size + 1])
    /\ UNCHANGED <<head, recycler, bounds>>

\* The links to a removed node, from its top layer down.
RemoveUnlink(t) ==
    LET me == th[t] IN
    /\ me.pc = "change" /\ me.op = "remove"
    /\ node' = [node EXCEPT ![me.preds[me.layer]].skip[me.layer] = node[me.mine].skip[me.layer]]
    /\ Goes(t, [me EXCEPT !.layer = IF me.layer = 0 THEN 0 ELSE me.layer - 1,
                          !.pc = IF me.layer = 0 THEN "count" ELSE "change"])
    /\ UNCHANGED <<head, size, recycler, bounds>>

RemoveCount(t) ==
    LET me == th[t] IN
    /\ me.pc = "count" /\ me.op = "remove"
    /\ size' = size - 1
    /\ node' = Released(node, t, me.mine)
    /\ Goes(t, [Idle EXCEPT !.pc = "recycle", !.op = "remove", !.key = me.key, !.mine = me.mine])
    /\ UNCHANGED <<head, recycler, bounds>>

-----------------------------------------------------------------------------
\* The end of addOrGetData: is the list too long for its height?
CheckLimit(t) ==
    LET me == th[t]
        hgt == node[head].height
    IN /\ me.pc = "limit"
       /\ IF hgt < MaxHeight /\ me.size > SizeLimit[hgt]
          THEN Goes(t, [me EXCEPT !.pc = "grow", !.height = hgt + 1])
          ELSE Return(t, TRUE, <<>>)
       /\ UNCHANGED <<list, recycler, bounds>>

\* growHeight: load the head; someone else may have done it.
GrowHeight(t) ==
    LET me == th[t] IN
    /\ me.pc = "grow"
    /\ IF node[head].height >= me.height
       THEN Return(t, TRUE, <<>>)
       ELSE Goes(t, [me EXCEPT !.pc = "copy", !.pred = head])
    /\ UNCHANGED <<list, recycler, bounds>>

\* Lock the old head and copy it: copyHead.
CopyHead(t) ==
    LET me == th[t]
        old == node[me.pred]
    IN /\ me.pc = "copy"
       /\ old.lock = NoOne
       /\ node' = Append([node EXCEPT ![me.pred].lock = t],
                         [Create(Nil, me.height, [l \in Layers |-> IF l < old.height THEN old.skip[l]
                                                                   ELSE Nil])
                             EXCEPT !.marked = old.marked])
       /\ Goes(t, [me EXCEPT !.pc = "swap", !.mine = Len(node) + 1])
       /\ UNCHANGED <<head, size, recycler, bounds>>

\* compare_exchange on head_; the old head is marked before its lock is released.
SwapHead(t) ==
    LET me == th[t] IN
    /\ me.pc = "swap"
    /\ IF head = me.pred
       THEN /\ head' = me.mine
            /\ node' = Released([node EXCEPT ![me.pred].marked = TRUE], t, Nil)
            /\ Goes(t, [me EXCEPT !.pc = "recycle", !.mine = me.pred, !.pred = Nil])
       ELSE /\ node' = Released([node EXCEPT ![me.mine].dead = TRUE], t, Nil)
            /\ Return(t, TRUE, <<>>)
            /\ UNCHANGED head
    /\ UNCHANGED <<size, recycler, bounds>>

\* A removed node is destroyed by the thread that unlinked it.
RecycleAtOnce(t) ==
    /\ th[t].pc = "recycle"
    /\ node' = Released([node EXCEPT ![th[t].mine].dead = TRUE], t, Nil)
    /\ Return(t, TRUE, <<>>)
    /\ UNCHANGED <<head, size, recycler, bounds>>

\* NodeRecycler::add; a removed node is unlocked on the way out.
Recycle(t) ==
    /\ th[t].pc = "recycle"
    /\ recycled' = recycled \cup {th[t].mine}
    /\ dirty' = TRUE
    /\ node' = Released(node, t, Nil)
    /\ Return(t, TRUE, <<>>)
    /\ UNCHANGED <<head, size, refs, bounds>>

-----------------------------------------------------------------------------
\* findNodeDownRight: from the head and its height, read once.
DownHead(t) ==
    /\ th[t].pc = "down_head"
    /\ Goes(t, [th[t] EXCEPT !.pc = "down", !.pred = head, !.layer = node[head].height])
    /\ UNCHANGED <<list, recycler, bounds>>

\* The node that findNodeDownRight ends at, found or not.
Arrive(t, n, found) ==
    IF th[t].op = "lower_bound" THEN Goes(t, [th[t] EXCEPT !.pc = "bound", !.pred = n])
    ELSE IF found THEN Goes(t, [th[t] EXCEPT !.pc = "check", !.pred = n])
    ELSE Return(t, FALSE, <<>>)

StepDown(t) ==
    LET me == th[t]
        n == node[me.pred].skip[me.layer - 1]
    IN /\ me.pc = "down"
       /\ IF n = Nil \/ me.key < node[n].key
          THEN IF me.layer = 1 THEN Arrive(t, n, FALSE)
               ELSE Goes(t, [me EXCEPT !.layer = me.layer - 1])
          ELSE IF node[n].key = me.key THEN Arrive(t, n, TRUE)
               ELSE Goes(t, [me EXCEPT !.pc = "right", !.pred = n, !.layer = me.layer - 1])
       /\ UNCHANGED <<list, recycler, bounds>>

StepRight(t) ==
    LET me == th[t]
        n == node[me.pred].skip[me.layer]
    IN /\ me.pc = "right"
       /\ IF n # Nil /\ node[n].key < me.key THEN Goes(t, [me EXCEPT !.pred = n])
          ELSE IF n # Nil /\ node[n].key = me.key THEN Arrive(t, n, TRUE)
          ELSE IF me.layer = 0 THEN Arrive(t, n, FALSE)
          ELSE Goes(t, [me EXCEPT !.pc = "down"])
       /\ UNCHANGED <<list, recycler, bounds>>

\* A node that was found counts, marked or not.
FindUnchecked(t) ==
    /\ th[t].pc = "check"
    /\ Return(t, TRUE, <<>>)
    /\ UNCHANGED <<list, recycler, bounds>>

\* find: a node marked for removal does not count.
FindCheck(t) ==
    /\ th[t].pc = "check"
    /\ Return(t, ~node[th[t].pred].marked, <<>>)
    /\ UNCHANGED <<list, recycler, bounds>>

\* lower_bound steps over marked nodes.
LowerBound(t) ==
    LET me == th[t] IN
    /\ me.pc = "bound"
    /\ IF me.pred = Nil THEN Return(t, TRUE, <<>>)
       ELSE IF node[me.pred].marked
            THEN Goes(t, [me EXCEPT !.pred = node[me.pred].skip[0]])
            ELSE Return(t, TRUE, <<node[me.pred].key>>)
    /\ UNCHANGED <<list, recycler, bounds>>

\* begin(): the head, and then next() like every ++ of the iterator.
Begin(t) ==
    /\ th[t].pc = "begin"
    /\ Goes(t, [th[t] EXCEPT !.pc = "next", !.pred = head])
    /\ UNCHANGED <<list, recycler, bounds>>

\* SkipListNode::next, one load of skip(0) ...
NextNode(t) ==
    LET me == th[t]
        n == node[me.pred].skip[0]
    IN /\ me.pc = "next"
       /\ IF n = Nil THEN Return(t, TRUE, me.out)
          ELSE Goes(t, [me EXCEPT !.pc = "skip_marked", !.pred = n])
       /\ UNCHANGED <<list, recycler, bounds>>

\* ... and the test of the mark; a node that is not marked is the next element.
SkipMarked(t) ==
    LET me == th[t] IN
    /\ me.pc = "skip_marked"
    /\ Goes(t, [me EXCEPT !.pc = "next",
                          !.out = IF node[me.pred].marked THEN me.out
                                  ELSE Append(me.out, node[me.pred].key)])
    /\ UNCHANGED <<list, recycler, bounds>>

-----------------------------------------------------------------------------
\* last(): the head and the height come from two loads of head_.
LastHead(t) ==
    /\ th[t].pc = "last_head"
    /\ Goes(t, [th[t] EXCEPT !.pc = "last_layer", !.pred = head])
    /\ UNCHANGED <<list, recycler, bounds>>

LastLayer(t) ==
    /\ th[t].pc = "last_layer"
    /\ Goes(t, [th[t] EXCEPT !.pc = "last", !.layer = node[head].height - 1])
    /\ UNCHANGED <<list, recycler, bounds>>

LastStep(t) ==
    LET me == th[t]
        n == node[me.pred].skip[me.layer]
    IN /\ me.pc = "last"
       /\ IF n # Nil THEN Goes(t, [me EXCEPT !.pred = n])
          ELSE IF me.layer > 0 THEN Goes(t, [me EXCEPT !.layer = me.layer - 1])
          ELSE Return(t, TRUE, IF me.pred = head THEN <<>> ELSE <<node[me.pred].key>>)
       /\ UNCHANGED <<list, recycler, bounds>>

-----------------------------------------------------------------------------
\* ~Accessor, releaseRef: without anything to destroy, or with other accessors
\* about, it only counts down.  The test and the count are separate accesses.
ReleaseCheck(t) ==
    /\ th[t].pc = "release"
    /\ Goes(t, [Idle EXCEPT !.pc = IF ~dirty \/ refs > 1 THEN "drop" ELSE "drop_last"])
    /\ UNCHANGED <<list, recycler, bounds>>

ReleaseDrop(t) ==
    /\ th[t].pc = "drop"
    /\ refs' = refs - 1
    /\ Goes(t, Idle)
    /\ UNCHANGED <<list, dirty, recycled, bounds>>

\* Under the lock of the recycler: count down, and take the nodes if that was the
\* last accessor.
ReleaseLast(t) ==
    /\ th[t].pc = "drop_last"
    /\ refs' = refs - 1
    /\ IF refs = 1
       THEN /\ recycled' = {} /\ dirty' = FALSE
            /\ Goes(t, [Idle EXCEPT !.pc = "destroy", !.doomed = recycled])
       ELSE /\ Goes(t, Idle)
            /\ UNCHANGED <<recycled, dirty>>
    /\ UNCHANGED <<list, bounds>>

\* The nodes are destroyed after the lock is released.
Destroy(t) ==
    /\ th[t].pc = "destroy"
    /\ node' = [n \in DOMAIN node |-> IF n \in th[t].doomed THEN [node[n] EXCEPT !.dead = TRUE]
                                      ELSE node[n]]
    /\ Goes(t, Idle)
    /\ UNCHANGED <<head, size, recycler, bounds>>

-----------------------------------------------------------------------------
\* The steps of a thread inside a call.
Step(t) ==
    \/ MaxLayer(t) \/ LoadHead(t) \/ Search(t)
    \/ AddFound(t) \/ AddAwait(t) \/ LockNodesForChange(t)
    \/ AddLink(t) \/ SetFullyLinked(t) \/ AddCount(t)
    \/ RemoveFound(t) \/ RemoveMark(t) \/ RemoveUnlink(t) \/ RemoveCount(t)
    \/ CheckLimit(t) \/ GrowHeight(t) \/ CopyHead(t) \/ SwapHead(t) \/ Recycle(t)
    \/ DownHead(t) \/ StepDown(t) \/ StepRight(t) \/ FindCheck(t) \/ LowerBound(t)
    \/ Begin(t) \/ NextNode(t) \/ SkipMarked(t)
    \/ ReleaseCheck(t) \/ ReleaseDrop(t) \/ ReleaseLast(t) \/ Destroy(t)

\* The keys that the answer to a call is about.
Relevant(locals) ==
    CASE locals.op = "iterate" -> Keys
      [] locals.op = "lower_bound" -> {k \in Keys : k >= locals.key}
      [] OTHER -> {locals.key} \cap Keys

\* What the list holds is noted from the call to its answer.
Note ==
    \E present \in {Present'}, visible \in {Visible'} :
        /\ always' = [t \in Threads |-> Relevant(th'[t]) \cap
                        CASE th[t].pc = "idle" -> present
                          [] th[t].pc = "release" -> always[t]
                          [] OTHER -> always[t] \cap present]
        /\ ever' = [t \in Threads |-> Relevant(th'[t]) \cap
                        (ever[t] \cup IF th[t].pc = "release" THEN {} ELSE visible)]

Next ==
    /\ \E t \in Threads : Step(t) \/ \E op \in Ops, k \in Keys : Call(t, op, k)
    /\ Note

Spec == Init /\ [][Next]_vars

\* With calls of last().
LastNext ==
    \/ Next
    \/ /\ \E t \in Threads : LastHead(t) \/ LastLayer(t) \/ LastStep(t)
       /\ Note

LastSpec == Init /\ [][LastNext]_vars

-----------------------------------------------------------------------------
TypeOK ==
    /\ head \in Heads /\ size \in Nat /\ refs \in 0 .. Cardinality(Threads)
    /\ dirty \in BOOLEAN /\ recycled \subseteq DOMAIN node
    /\ \A n \in DOMAIN node :
          /\ node[n].key \in Keys \cup {Nil}
          /\ node[n].height \in 1 .. MaxHeight
          /\ node[n].skip \in [0 .. node[n].height - 1 -> {Nil} \cup DOMAIN node]
          /\ node[n].lock \in Threads \cup {NoOne}
    /\ \A t \in Threads : always[t] \subseteq Keys /\ ever[t] \subseteq Keys

\* Every layer of the list is in ascending order and runs through every node whose
\* insertion is complete, whatever other writers and a growing head
\* (addOrGetData, remove, growHeight) do at the same time: no insertion is lost,
\* no key has two nodes, and no removed node comes back.
NothingIsLost ==
    /\ \A n \in {head} \cup Chain(head, 0) : \A l \in 0 .. node[n].height - 1 :
          LET s == node[n].skip[l]
          IN s # Nil => node[s].key > node[n].key /\ node[s].height > l
    /\ \A n \in DOMAIN node \ Heads : node[n].linked /\ ~node[n].marked =>
          /\ node[n].height <= node[head].height
          /\ \A l \in 0 .. node[n].height - 1 : n \in Chain(head, l)

\* The calls that answer, with their keys in ascending order.
Ascending(s) == \A i, j \in DOMAIN s : i < j => s[i] < s[j]

\* The answer of a call is one that the list could have given at some time
\* between the call and its return: a key that was there throughout is found
\* (find), is bounded by (lower_bound), is met (iteration), is not "not there"
\* (remove); a key that was never there is not.  All without locks, while nodes
\* are linked, unlinked and the head is replaced.
AnswersAreHonest ==
    \A t \in Threads :
        LET me == th[t]
            Out == {me.out[i] : i \in DOMAIN me.out}
        IN me.pc = "release" =>
            CASE me.op = "contains" -> IF me.result THEN me.key \in ever[t] ELSE me.key \notin always[t]
              [] me.op = "remove" -> me.result \/ me.key \notin always[t]
              [] me.op = "add" -> me.key \in ever[t]
              [] me.op = "lower_bound" -> Out \subseteq ever[t]
                    /\ \A k \in always[t] : \E b \in Out : b <= k
              [] me.op = "iterate" -> Ascending(me.out) /\ always[t] \subseteq Out /\ Out \subseteq ever[t]
              [] OTHER -> TRUE

\* The nodes a thread has in its hands.
Held(locals) ==
    ({locals.pred, locals.mine} \cup {locals.preds[l] : l \in Layers}
        \cup {locals.succs[l] : l \in Layers}) \ {Nil}

\* No node is destroyed while the list or a thread inside a call can still get to
\* it: NodeRecycler hands nodes over only when the last accessor is gone, and
\* accessors that come while it does so cannot see them any more.
NoUseAfterDestroy ==
    /\ \A n \in {head} \cup Chain(head, 0) : ~node[n].dead
    /\ \A t \in Threads : \A n \in Held(th[t]) : ~node[n].dead

\* The link a thread is about to load exists: DCHECK_LT(layer, height_) in
\* SkipListNode::skip, with the head replaced by a taller one at any time.
LinkExists ==
    \A t \in Threads :
        LET me == th[t] IN
        /\ me.pc \in {"search", "right", "last"} => me.layer < node[me.pred].height
        /\ me.pc = "down" => me.layer <= node[me.pred].height
        /\ me.pc \in {"lock", "change"} =>
              me.preds[me.layer] # Nil /\ me.layer < node[me.preds[me.layer]].height

\* Nobody waits for somebody who waits for them: a thread that waits for a lock
\* (lockNodesForChange from the bottom layer up, remove after it locked its node,
\* growHeight) holds only locks of greater keys, and one that waits for a node to
\* be linked holds none.
LocksDescend ==
    \A t \in Threads : \A n \in {m \in DOMAIN node : node[m].lock = t} :
        LET me == th[t] IN
        /\ me.pc # "await"
        /\ me.pc = "lock" /\ node[me.preds[me.layer]].lock # t =>
              node[n].key > node[me.preds[me.layer]].key
        /\ me.pc = "mark" => node[n].key > node[me.succs[me.at]].key
        /\ me.pc = "copy" => node[n].key > node[me.pred].key
=============================================================================
