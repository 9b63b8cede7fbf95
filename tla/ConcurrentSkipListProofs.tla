---------------------- MODULE ConcurrentSkipListProofs ----------------------
(***************************************************************************)
(* Proofs about ConcurrentSkipList, for any number of threads, keys, layers    *)
(* and calls: the link a thread loads exists, and locks are taken in            *)
(* descending order of the keys.                                               *)
(***************************************************************************)
EXTENDS ConcurrentSkipList, TLAPS

-----------------------------------------------------------------------------
(* Sequences *)

\* s is a sequence.
IsSeq(s) == s \in Seq({s[i] : i \in DOMAIN s})

\* The length of a sequence is a number, and its indices go from 1 to it.
LEMMA SeqDomain ==
    ASSUME NEW s, IsSeq(s)
    PROVE Len(s) \in Nat /\ DOMAIN s = 1..Len(s)
BY DEF IsSeq

\* A function on 1..n is a sequence of length n.
LEMMA FunctionIsSeq ==
    ASSUME NEW n \in Nat, NEW f, f = [i \in 1..n |-> f[i]]
    PROVE IsSeq(f) /\ Len(f) = n
<1> DEFINE S == {f[i] : i \in DOMAIN f}
<1>1. f \in [1..n -> S]
  BY Zenon
<1>2. f \in Seq(S)
  BY <1>1, SMTT(30)
<1>3. Len(f) = n
  BY <1>1, <1>2
<1> QED
  BY <1>2, <1>3, Zenon DEF IsSeq

\* Append adds an element at the end and keeps the others.
LEMMA AppendIsSeq ==
    ASSUME NEW s, IsSeq(s), NEW e
    PROVE /\ IsSeq(Append(s, e)) /\ Len(Append(s, e)) = Len(s) + 1
          /\ \A i \in 1..Len(s) : Append(s, e)[i] = s[i]
          /\ Append(s, e)[Len(s) + 1] = e
<1> DEFINE S == {s[i] : i \in DOMAIN s} \cup {e}
           t == Append(s, e)
<1>1. s \in Seq(S) /\ e \in S
  <2>1. s \in Seq({s[i] : i \in DOMAIN s})
    BY Zenon DEF IsSeq
  <2>2. {s[i] : i \in DOMAIN s} \subseteq S
    BY Zenon
  <2> QED
    BY <2>1, <2>2
<1> HIDE DEF S
<1>2. /\ t \in Seq(S) /\ Len(t) = Len(s) + 1 /\ Len(s) \in Nat
      /\ \A i \in 1..Len(s) : t[i] = s[i]
      /\ t[Len(s) + 1] = e
  BY <1>1
<1> HIDE DEF t
<1>3. t \in [1..Len(t) -> S]
  BY <1>2
<1>4. IsSeq(t)
  BY <1>2, <1>3, FunctionIsSeq
<1> QED
  BY <1>2, <1>4, Zenon DEF t

-----------------------------------------------------------------------------
(* The inductive invariant: nodes and their links *)

NodeFields == {"key", "height", "skip", "lock", "linked", "marked", "dead"}

\* The link of n on layer l leads to a node of that layer, with a greater key.
Link(N, n, l) ==
    N[n].skip[l] # Nil => /\ N[n].skip[l] \in DOMAIN N
                          /\ l < N[N[n].skip[l]].height
                          /\ N[n].key < N[N[n].skip[l]].key

IsNode(N, n) ==
    /\ DOMAIN N[n] = NodeFields
    /\ N[n].key \in Nat /\ N[n].height \in 1 .. MaxHeight
    /\ DOMAIN N[n].skip = 0 .. N[n].height - 1
    /\ \A l \in 0 .. N[n].height - 1 : Link(N, n, l)

\* N is a list of nodes that all link forwards.
IsNodes(N) == IsSeq(N) /\ Nil \notin DOMAIN N /\ \A n \in DOMAIN N : IsNode(N, n)

\* n is a head of the list.
IsHead(N, n) == n \in DOMAIN N /\ N[n].key = Nil

\* The nodes that t has locked.
LocksOf(N, t) == {n \in DOMAIN N : N[n].lock = t}

-----------------------------------------------------------------------------
(* The inductive invariant: threads *)

Points ==
    {"idle", "max", "head", "search", "searched", "await", "mark", "lock", "change", "flag",
     "count", "limit", "grow", "copy", "swap", "recycle", "down_head", "down", "right", "check",
     "bound", "begin", "next", "skip_marked", "last_head", "release", "drop", "drop_last",
     "destroy"}

LocalFields ==
    {"pc", "op", "key", "top", "layer", "at", "pred", "preds", "succs", "height", "mine",
     "size", "out", "result", "doomed"}

\* What findInsertionPoint found on layer l for key k: preds[l] is before k, and
\* succs[l] is not, nor at k unless the key was found.
Found(N, k, at, p, s, l) ==
    /\ p \in DOMAIN N /\ l < N[p].height /\ N[p].key < k
    /\ s # Nil => s \in DOMAIN N /\ l < N[s].height /\ k <= N[s].key
    /\ s # Nil /\ at = -1 => k < N[s].key

\* p is q or has a greater key.
Behind(N, p, q) == p = q \/ N[q].key < N[p].key

\* What it found on the layers from low to top: the predecessors get closer from
\* layer to layer down, and a node with the key is the successor on all layers
\* below the one where it was met.
Trail(N, k, top, at, preds, succs, low) ==
    /\ \A l \in low .. top : Found(N, k, at, preds[l], succs[l], l)
    /\ \A i, j \in low .. top : i < j => Behind(N, preds[i], preds[j])
    /\ at # -1 => /\ at \in low .. top /\ succs[at] # Nil /\ N[succs[at]].key = k
                  /\ \A l \in low .. at : succs[l] = succs[at]

TrailOf(N, me, low) == Trail(N, me.key, me.top, me.at, me.preds, me.succs, low)

\* Where a search stands: not behind what it found on the layers above.
Stands(N, k, top, preds, p, layer) ==
    /\ p \in DOMAIN N /\ layer \in 0 .. top /\ layer < N[p].height /\ N[p].key < k
    /\ \A l \in layer + 1 .. top : Behind(N, p, preds[l])

\* n is a node with key k and height h.
IsOf(N, n, k, h) == n \in DOMAIN N /\ n # Nil /\ N[n].key = k /\ N[n].height = h

\* Where a lookup stands.
Reads(N, me) ==
    /\ me.pc = "down" => me.pred \in DOMAIN N /\ me.layer \in 1 .. N[me.pred].height
    /\ me.pc = "right" => me.pred \in DOMAIN N /\ me.layer \in 0 .. N[me.pred].height - 1
    /\ me.pc \in {"check", "next", "skip_marked"} => me.pred \in DOMAIN N
    /\ me.pc = "bound" => me.pred = Nil \/ me.pred \in DOMAIN N

\* Where growHeight stands.
Grows(N, me) ==
    /\ me.pc \in {"limit", "grow", "copy", "swap"} => me.op = "add"
    /\ me.pc = "grow" => me.height \in 1 .. MaxHeight
    /\ me.pc \in {"copy", "swap"} =>
          IsHead(N, me.pred) /\ N[me.pred].height < me.height /\ me.height \in 1 .. MaxHeight
    /\ me.pc = "swap" => IsOf(N, me.mine, Nil, me.height)

Changing == {"change", "flag", "count"}
Searching == {"max", "head", "search", "searched"}

\* Where add and remove stand.
Writes(N, hd, me) ==
    /\ me.pc \in Searching \cup Changing \cup {"await", "mark", "lock"} =>
          me.op \in {"add", "remove"} /\ me.key \in Nat \ {0}
    /\ me.pc \in {"head", "search", "searched", "mark", "lock"} \cup Changing =>
          me.top \in Layers /\ me.top < N[hd].height
    /\ me.pc = "search" => /\ Stands(N, me.key, me.top, me.preds, me.pred, me.layer)
                           /\ TrailOf(N, me, me.layer + 1)
    /\ me.pc \in {"searched", "await", "mark", "lock"} \cup Changing => TrailOf(N, me, 0)
    /\ me.pc \in {"lock"} \cup Changing => me.height \in 1 .. me.top + 1
    /\ me.pc \in {"lock", "change"} => me.layer \in 0 .. me.height - 1

\* What add knows of the node it found or makes.
Adds(N, me) ==
    me.op = "add" =>
    /\ me.pc \in Searching \cup {"await", "lock"} => me.mine = Nil
    /\ me.pc \in {"searched", "await"} => me.at # -1
    /\ me.pc \in {"lock"} \cup Changing => me.at = -1
    /\ me.pc = "change" /\ me.layer > 0 => IsOf(N, me.mine, me.key, me.height)
    /\ me.pc \in {"flag", "count"} => IsOf(N, me.mine, me.key, me.height)

\* A search for the predecessors of the node that remove has marked starts high enough.
TopKnown(me) ==
    me.op = "remove" /\ me.pc \in {"head", "search", "searched"} /\ me.mine # Nil =>
        me.height <= me.top + 1

\* What remove knows of the node it found or has marked.
Removes(N, hd, me) ==
    /\ me.pc = "mark" => /\ me.op = "remove" /\ me.at # -1 /\ me.mine = Nil
                         /\ N[me.succs[me.at]].height - 1 = me.at
    /\ me.pc \in {"await", "flag"} => me.op = "add"
    /\ me.op = "remove" /\ me.pc \in {"lock"} \cup Changing => me.mine # Nil
    /\ me.op = "remove" /\ me.pc \in Searching \cup {"lock"} \cup Changing /\ me.mine # Nil =>
          IsOf(N, me.mine, me.key, me.height) /\ me.height <= N[hd].height
    /\ TopKnown(me)
    /\ me.pc = "recycle" => me.mine \in DOMAIN N

\* The nodes that a thread has locked, where it is.
Holding(me) ==
    (CASE me.pc = "lock" -> {me.preds[l] : l \in 0 .. me.layer - 1}
       [] me.pc \in Changing -> {me.preds[l] : l \in 0 .. me.height - 1}
       [] me.pc = "swap" -> {me.pred}
       [] OTHER -> {})
    \cup (IF /\ me.op = "remove" /\ me.mine # Nil
             /\ me.pc \in Searching \cup {"lock", "recycle"} \cup Changing
          THEN {me.mine} ELSE {})

Shape(me) ==
    /\ DOMAIN me = LocalFields /\ me.pc \in Points
    /\ me.preds \in [Layers -> Nat] /\ me.succs \in [Layers -> Nat]

\* What a thread knows of the nodes.
Knows(N, hd, me) ==
    Reads(N, me) /\ Grows(N, me) /\ Writes(N, hd, me) /\ Adds(N, me) /\ Removes(N, hd, me)

Local(N, hd, me, t) ==
    /\ Shape(me)
    /\ Knows(N, hd, me)
    /\ LocksOf(N, t) = Holding(me)

Inv ==
    /\ IsNodes(node) /\ IsHead(node, head)
    /\ DOMAIN th = Threads
    /\ \A t \in Threads : Local(node, head, th[t], t)

-----------------------------------------------------------------------------
(* Nodes keep their key and height: what a thread knows stays true *)

\* Nodes are added, and keep their key and height.
Grown(N, M) ==
    /\ DOMAIN N \subseteq DOMAIN M
    /\ \A n \in DOMAIN N : M[n].key = N[n].key /\ M[n].height = N[n].height

\* The head does not get lower.
Taller(N, hd, M, hd2) == N[hd].height \in Nat /\ M[hd2].height \in Nat
                         /\ N[hd].height <= M[hd2].height

\* What findInsertionPoint found stays before and behind the key.
LEMMA FoundKept ==
    ASSUME NEW N, NEW M, Grown(N, M), NEW k, NEW at, NEW p, NEW s, NEW l,
           Found(N, k, at, p, s, l)
    PROVE Found(M, k, at, p, s, l)
BY Zenon DEF Found, Grown

\* So does the order of what it found.
LEMMA TrailKept ==
    ASSUME NEW N, NEW M, Grown(N, M), NEW k, NEW top, NEW at, NEW preds, NEW succs, NEW low,
           Trail(N, k, top, at, preds, succs, low)
    PROVE Trail(M, k, top, at, preds, succs, low)
<1>1. \A l \in low .. top : Found(M, k, at, preds[l], succs[l], l)
  BY FoundKept, Zenon DEF Trail
<1>2. \A l \in low .. top : preds[l] \in DOMAIN N /\ (succs[l] # Nil => succs[l] \in DOMAIN N)
  BY Zenon DEF Trail, Found
<1>3. \A i, j \in low .. top : i < j => Behind(M, preds[i], preds[j])
  BY <1>2, Zenon DEF Trail, Behind, Grown
<1>4. at # -1 => M[succs[at]].key = k
  BY <1>2, Zenon DEF Trail, Grown
<1> QED
  BY <1>1, <1>3, <1>4, Zenon DEF Trail

\* So does the place where a search stands.
LEMMA StandsKept ==
    ASSUME NEW N, NEW M, Grown(N, M), NEW k, NEW top, NEW preds, NEW p, NEW layer,
           Stands(N, k, top, preds, p, layer), \A l \in layer + 1 .. top : preds[l] \in DOMAIN N
    PROVE Stands(M, k, top, preds, p, layer)
BY Zenon DEF Stands, Behind, Grown

\* The predecessors on a trail are nodes.
LEMMA TrailNodes ==
    ASSUME NEW N, NEW k, NEW top, NEW at, NEW preds, NEW succs, NEW low,
           Trail(N, k, top, at, preds, succs, low)
    PROVE /\ \A l \in low .. top : preds[l] \in DOMAIN N
          /\ \A l \in low .. top : succs[l] # Nil => succs[l] \in DOMAIN N
BY Zenon DEF Trail, Found

\* What a thread knows stays true when nodes are added and the head grows.
LEMMA KnowsKept ==
    ASSUME NEW N, IsNodes(N), NEW M, Grown(N, M), NEW hd, NEW hd2, Taller(N, hd, M, hd2),
           NEW me, Knows(N, hd, me)
    PROVE Knows(M, hd2, me)
<1>1. Reads(M, me)
  BY Zenon DEF Knows, Reads, Grown
<1>2. Grows(M, me)
  BY Zenon DEF Knows, Grows, Grown, IsHead, IsOf
<1>3. Writes(M, hd2, me)
  <2>1. \A low : TrailOf(N, me, low) => TrailOf(M, me, low)
    BY TrailKept, Zenon DEF TrailOf
  <2>2. me.pc = "search" => Stands(M, me.key, me.top, me.preds, me.pred, me.layer)
    <3>1. me.pc = "search" => \A l \in me.layer + 1 .. me.top : me.preds[l] \in DOMAIN N
      BY TrailNodes, Zenon DEF TrailOf, Knows, Writes
    <3> QED
      BY <3>1, StandsKept, Zenon DEF Knows, Writes
  <2>3. me.top \in Layers /\ me.top < N[hd].height => me.top < M[hd2].height
    BY HeightAssumption DEF Layers, Taller
  <2> QED
    BY <2>1, <2>2, <2>3, Zenon DEF Knows, Writes
<1>4. Adds(M, me)
  BY Zenon DEF Knows, Adds, IsOf, Grown
<1>5. Removes(M, hd2, me)
  <2>1. me.pc = "mark" => me.succs[me.at] \in DOMAIN N
    <3>1. me.pc = "mark" => TrailOf(N, me, 0) /\ me.at # -1
      BY Zenon DEF Knows, Writes, Removes
    <3> QED
      BY <3>1, Zenon DEF TrailOf, Trail, Found
  <2>2. \A n, k : IsOf(N, n, k, me.height) => IsOf(M, n, k, me.height)
    BY Zenon DEF IsOf, Grown
  <2>3. \A n : IsOf(N, n, me.key, me.height) /\ me.height <= N[hd].height
                  => me.height <= M[hd2].height
    BY HeightAssumption DEF Taller, IsOf, IsNodes, IsNode
  <2> QED
    BY <2>1, <2>2, <2>3, Zenon DEF Knows, Removes, Grown
<1> QED
  BY <1>1, <1>2, <1>3, <1>4, <1>5, Zenon DEF Knows

-----------------------------------------------------------------------------
(* A step of one thread *)

\* Only t takes and gives up locks.
OnlyLocks(N, M, t) ==
    /\ \A n \in DOMAIN N : M[n].lock = N[n].lock \/ (N[n].lock \in {NoOne, t}
                                                     /\ M[n].lock \in {NoOne, t})
    /\ \A n \in DOMAIN M \ DOMAIN N : M[n].lock \in {NoOne, t}

\* What the others have locked stays so.
LEMMA OthersLocks ==
    ASSUME NEW N, NEW M, DOMAIN N \subseteq DOMAIN M, NEW t \in Threads, OnlyLocks(N, M, t),
           NEW u \in Threads, u # t
    PROVE LocksOf(M, u) = LocksOf(N, u)
BY NoOneAssumption, Zenon DEF OnlyLocks, LocksOf

\* A step of t keeps the invariant if it keeps the nodes, the head and the locals
\* of t in order.
LEMMA StepInv ==
    ASSUME Inv, NEW t \in Threads, NEW new, Goes(t, new),
           IsNodes(node'), Grown(node, node'), IsHead(node', head'),
           Taller(node, head, node', head'), OnlyLocks(node, node', t),
           Shape(new), Knows(node', head', new), LocksOf(node', t) = Holding(new)
    PROVE Inv'
<1>1. DOMAIN th' = Threads /\ th'[t] = new /\ \A u \in Threads : u # t => th'[u] = th[u]
  BY Zenon DEF Inv, Goes
<1>2. ASSUME NEW u \in Threads PROVE Local(node', head', th'[u], u)
  <2>1. CASE u = t
    BY <2>1, <1>1, Zenon DEF Local
  <2>2. CASE u # t
    <3>1. th'[u] = th[u] /\ Local(node, head, th[u], u) /\ IsNodes(node)
      BY <2>2, <1>1, Zenon DEF Inv
    <3>2. LocksOf(node', u) = LocksOf(node, u)
      BY <2>2, OthersLocks, Zenon DEF Grown
    <3>3. Knows(node', head', th[u])
      BY <3>1, KnowsKept, Zenon DEF Local
    <3> QED
      BY <3>1, <3>2, <3>3, Zenon DEF Local
  <2> QED
    BY <2>1, <2>2, Zenon
<1> QED
  BY <1>1, <1>2, Zenon DEF Inv

\* The head has a height.
LEMMA HeadIsTall ==
    ASSUME NEW N, IsNodes(N), NEW hd, IsHead(N, hd)
    PROVE Taller(N, hd, N, hd)
BY HeightAssumption DEF IsNodes, IsNode, IsHead, Taller

\* A step of t that leaves the nodes alone.
LEMMA LocalStep ==
    ASSUME Inv, NEW t \in Threads, NEW new, Goes(t, new), UNCHANGED <<node, head>>,
           Shape(new), Knows(node, head, new), Holding(new) = Holding(th[t])
    PROVE Inv'
<1>1. /\ IsNodes(node) /\ IsHead(node, head) /\ Taller(node, head, node, head)
      /\ LocksOf(node, t) = Holding(th[t])
  BY HeadIsTall, Zenon DEF Inv, Local
<1>2. Grown(node, node) /\ OnlyLocks(node, node, t)
  BY Zenon DEF Grown, OnlyLocks
<1>3. node' = node /\ head' = head
  BY Zenon
<1>4. /\ IsNodes(node') /\ Grown(node, node') /\ IsHead(node', head')
      /\ Taller(node, head, node', head') /\ OnlyLocks(node, node', t)
      /\ Knows(node', head', new) /\ LocksOf(node', t) = Holding(new)
  BY <1>1, <1>2, <1>3, Zenon
<1> QED
  BY <1>4, StepInv, Zenon

\* What the invariant says of the thread that takes a step.
LEMMA Mine ==
    ASSUME Inv, NEW t \in Threads
    PROVE /\ IsNodes(node) /\ IsHead(node, head) /\ Taller(node, head, node, head)
          /\ Shape(th[t]) /\ Knows(node, head, th[t]) /\ LocksOf(node, t) = Holding(th[t])
BY HeadIsTall, Zenon DEF Inv, Local

-----------------------------------------------------------------------------
(* Steps that leave the nodes alone: a call comes and goes *)

\* Where a thread knows nothing of the nodes and has none locked.
Resting ==
    {"idle", "down_head", "begin", "last_head", "release", "drop", "drop_last", "destroy"}

\* At rest there is nothing to know, and nothing is locked.
LEMMA AtRest ==
    ASSUME NEW N, NEW hd, NEW me, me.pc \in Resting
    PROVE Knows(N, hd, me) /\ Holding(me) = {}
<1>1. Reads(N, me)
  BY Zenon DEF Resting, Reads
<1>2. Grows(N, me)
  BY Zenon DEF Resting, Grows
<1>3. Writes(N, hd, me)
  BY Zenon DEF Resting, Writes, Searching, Changing
<1>4. Adds(N, me) /\ Removes(N, hd, me)
  BY Zenon DEF Resting, Adds, Removes, TopKnown, Searching, Changing
<1>5. Holding(me) = {}
  BY Zenon DEF Resting, Holding, Searching, Changing
<1> QED
  BY <1>1, <1>2, <1>3, <1>4, <1>5, Zenon DEF Knows

\* The locals of an idle thread.
LEMMA IdleShape ==
    /\ DOMAIN Idle = LocalFields /\ Idle.mine = Nil
    /\ Idle.preds \in [Layers -> Nat] /\ Idle.succs \in [Layers -> Nat]
    /\ Idle.pc = "idle" /\ Idle.pc \in Points /\ Idle.pc \in Resting
<1>1. DOMAIN Idle = LocalFields
  BY DEF Idle, LocalFields
<1>2. NoLinks \in [Layers -> Nat]
  BY DEF NoLinks, Nil
<1>3. Idle.preds = NoLinks /\ Idle.succs = NoLinks /\ Idle.pc = "idle" /\ Idle.mine = Nil
  BY DEF Idle
<1> QED
  BY <1>1, <1>2, <1>3, Zenon DEF Points, Resting

\* A thread that starts again from nothing.
LEMMA AfreshShape ==
    ASSUME NEW p, NEW o, NEW k, NEW r, NEW out
    PROVE LET new == [Idle EXCEPT !.pc = p, !.op = o, !.key = k, !.result = r, !.out = out]
          IN /\ DOMAIN new = LocalFields /\ new.pc = p /\ new.op = o /\ new.key = k
             /\ new.preds = Idle.preds /\ new.succs = Idle.succs /\ new.mine = Nil
BY IdleShape DEF LocalFields

\* A call that returns with nothing locked.
LEMMA ReturnStep ==
    ASSUME Inv, NEW t \in Threads, NEW r, NEW out, Return(t, r, out), UNCHANGED <<node, head>>,
           Holding(th[t]) = {}
    PROVE Inv'
<1> DEFINE new == [Idle EXCEPT !.pc = "release", !.op = th[t].op, !.key = th[t].key,
                               !.result = r, !.out = out]
<1>1. /\ DOMAIN new = LocalFields /\ new.pc = "release"
      /\ new.preds = Idle.preds /\ new.succs = Idle.succs
  BY AfreshShape
<1>2. Goes(t, new)
  BY Zenon DEF Return
<1> HIDE DEF new
<1>3. Shape(new) /\ new.pc \in Resting
  BY <1>1, IdleShape, Zenon DEF Shape, Points, Resting
<1>4. Knows(node, head, new) /\ Holding(new) = Holding(th[t])
  BY <1>3, AtRest, Zenon
<1> QED
  BY <1>2, <1>3, <1>4, LocalStep, Zenon

\* An accessor lets go of the list.
LEMMA ReleaseStep ==
    ASSUME Inv, NEW t \in Threads, ReleaseCheck(t) \/ ReleaseDrop(t) \/ ReleaseLast(t)
    PROVE Inv'
<1>1. UNCHANGED <<node, head>>
  BY Zenon DEF ReleaseCheck, ReleaseDrop, ReleaseLast, list
<1>2. th[t].pc \in Resting /\ Holding(th[t]) = {}
  <2>1. th[t].pc \in Resting
    BY Zenon DEF ReleaseCheck, ReleaseDrop, ReleaseLast, Resting
  <2> QED
    BY <2>1, AtRest, Zenon
<1>3. ASSUME NEW new, Goes(t, new), DOMAIN new = LocalFields, new.pc \in Resting,
             new.preds = Idle.preds, new.succs = Idle.succs
      PROVE Inv'
  <2>1. Shape(new)
    BY <1>3, IdleShape, Zenon DEF Shape, Resting, Points
  <2>2. Knows(node, head, new) /\ Holding(new) = Holding(th[t])
    BY <1>2, <1>3, AtRest, Zenon
  <2> QED
    BY <1>1, <1>3, <2>1, <2>2, LocalStep, Zenon
<1>4. CASE ReleaseDrop(t)
  BY <1>3, <1>4, IdleShape, Zenon DEF ReleaseDrop
<1>5. CASE ReleaseCheck(t)
  <2> DEFINE new == [Idle EXCEPT !.pc = IF ~dirty \/ refs > 1 THEN "drop" ELSE "drop_last"]
  <2>1. DOMAIN new = LocalFields /\ new.preds = Idle.preds /\ new.succs = Idle.succs
    BY IdleShape, Zenon DEF LocalFields
  <2>2. new.pc \in Resting
    BY IdleShape, Zenon DEF LocalFields, Resting
  <2>3. Goes(t, new)
    BY <1>5, Zenon DEF ReleaseCheck
  <2> QED
    BY <1>3, <2>1, <2>2, <2>3, Zenon
<1>6. CASE ReleaseLast(t)
  <2> DEFINE new == [Idle EXCEPT !.pc = "destroy", !.doomed = recycled]
  <2>1. DOMAIN new = LocalFields /\ new.preds = Idle.preds /\ new.succs = Idle.succs
    BY IdleShape, Zenon DEF LocalFields
  <2>2. new.pc \in Resting
    BY IdleShape, Zenon DEF LocalFields, Resting
  <2>3. Goes(t, new) \/ Goes(t, Idle)
    BY <1>6, Zenon DEF ReleaseLast
  <2> QED
    BY <1>3, <2>1, <2>2, <2>3, IdleShape, Zenon
<1> QED
  BY <1>4, <1>5, <1>6, Zenon

\* An accessor makes a call.
LEMMA CallStep ==
    ASSUME Inv, NEW t \in Threads, NEW op \in Ops, NEW k \in Keys, Call(t, op, k)
    PROVE Inv'
<1> DEFINE p == CASE op \in {"add", "remove"} -> "max"
                  [] op \in {"contains", "lower_bound"} -> "down_head"
                  [] op = "iterate" -> "begin"
                  [] op = "last" -> "last_head"
           key == IF op \in {"iterate", "last"} THEN Nil ELSE k
           new == [Idle EXCEPT !.pc = p, !.op = op, !.key = key]
<1>1. UNCHANGED <<node, head>> /\ Goes(t, new)
  BY Zenon DEF Call, list
<1>2. Holding(th[t]) = {}
  <2>1. Knows(node, head, th[t]) /\ th[t].pc \in Resting => Holding(th[t]) = {}
    BY AtRest, Zenon
  <2> QED
    BY <2>1, Mine, Zenon DEF Call, Resting
<1>3. IF op \in {"add", "remove"} THEN p = "max" /\ key = k ELSE p \in Resting
  BY OpsAssumption, Zenon DEF Resting
<1> HIDE DEF p, key
<1>4. /\ DOMAIN new = LocalFields /\ new.pc = p /\ new.op = op /\ new.key = key /\ new.mine = Nil
      /\ new.preds = Idle.preds /\ new.succs = Idle.succs
  BY IdleShape, Zenon DEF LocalFields
<1> HIDE DEF new
<1>5. Shape(new)
  BY <1>3, <1>4, IdleShape, Zenon DEF Shape, Resting, Points
<1>6. Knows(node, head, new) /\ Holding(new) = {}
  <2>1. CASE op \in {"add", "remove"}
    <3>1. /\ new.pc = "max" /\ new.op \in {"add", "remove"} /\ new.key \in Nat \ {0}
          /\ new.mine = Nil
      BY <2>1, <1>3, <1>4, KeysAssumption, Zenon
    <3>2. Reads(node, new) /\ Grows(node, new)
      BY <3>1, Zenon DEF Reads, Grows
    <3>3. Writes(node, head, new)
      BY <3>1, Zenon DEF Writes, Searching, Changing
    <3>4. Adds(node, new) /\ Removes(node, head, new)
      BY <3>1, Zenon DEF Adds, Removes, TopKnown, Searching, Changing
    <3>5. Holding(new) = {}
      BY <3>1, Zenon DEF Holding, Searching, Changing
    <3> QED
      BY <3>2, <3>3, <3>4, <3>5, Zenon DEF Knows
  <2>2. CASE op \notin {"add", "remove"}
    BY <2>2, <1>3, <1>4, AtRest, Zenon
  <2> QED
    BY <2>1, <2>2, Zenon
<1> QED
  BY <1>1, <1>2, <1>5, <1>6, LocalStep, Zenon

-----------------------------------------------------------------------------
(* Steps that leave the nodes alone: lookups *)

Looking == {"down", "right", "check", "bound", "next", "skip_marked"}

\* A lookup knows where it stands and has nothing locked.
LEMMA LookingKnows ==
    ASSUME NEW N, NEW hd, NEW me, me.pc \in Looking, Reads(N, me)
    PROVE Knows(N, hd, me) /\ Holding(me) = {}
<1>1. Grows(N, me)
  BY Zenon DEF Looking, Grows
<1>2. Writes(N, hd, me)
  BY Zenon DEF Looking, Writes, Searching, Changing
<1>3. Adds(N, me) /\ Removes(N, hd, me)
  BY Zenon DEF Looking, Adds, Removes, TopKnown, Searching, Changing
<1>4. Holding(me) = {}
  BY Zenon DEF Looking, Holding, Searching, Changing
<1> QED
  BY <1>1, <1>2, <1>3, <1>4, Zenon DEF Knows

\* A step of a lookup that ends at a place it can stand at.
LEMMA LookStep ==
    ASSUME Inv, NEW t \in Threads, NEW new, Goes(t, new), UNCHANGED <<node, head>>,
           th[t].pc \in Looking \cup {"down_head", "begin"},
           DOMAIN new = LocalFields, new.preds = th[t].preds, new.succs = th[t].succs,
           new.pc \in Looking, Reads(node, new)
    PROVE Inv'
<1>1. Shape(th[t]) /\ Knows(node, head, th[t])
  BY Mine, Zenon
<1>2. Holding(th[t]) = {}
  <2>1. CASE th[t].pc \in Looking
    BY <2>1, <1>1, LookingKnows, Zenon DEF Knows
  <2>2. CASE th[t].pc \in Resting
    BY <2>2, <1>1, AtRest, Zenon
  <2> QED
    BY <2>1, <2>2, Zenon DEF Resting
<1>3. Knows(node, head, new) /\ Holding(new) = {}
  BY LookingKnows, Zenon
<1>4. Shape(new)
  BY <1>1, Zenon DEF Shape, Looking, Points
<1> QED
  BY <1>2, <1>3, <1>4, LocalStep, Zenon

\* The link of a node leads to a node that is as high, or nowhere.
LEMMA Linked ==
    ASSUME NEW N, IsNodes(N), NEW n \in DOMAIN N, NEW l \in 0 .. N[n].height - 1
    PROVE /\ N[n].skip[l] # Nil => N[n].skip[l] \in DOMAIN N
          /\ N[n].skip[l] # Nil => l < N[N[n].skip[l]].height /\ N[n].key < N[N[n].skip[l]].key
          /\ N[n].skip[l] \in Nat
<1>1. Len(N) \in Nat /\ DOMAIN N = 1 .. Len(N)
  BY SeqDomain, Zenon DEF IsNodes
<1>2. N[n].skip[l] # Nil => N[n].skip[l] \in DOMAIN N
  BY Zenon DEF IsNodes, IsNode, Link
<1>3. N[n].skip[l] \in Nat
  BY <1>1, <1>2 DEF Nil
<1> QED
  BY <1>2, <1>3, Zenon DEF IsNodes, IsNode, Link

\* A node has a key, and a height.
LEMMA NodeIs ==
    ASSUME NEW N, IsNodes(N), NEW n \in DOMAIN N
    PROVE N[n].key \in Nat /\ N[n].height \in Nat /\ N[n].height >= 1 /\ n # Nil
BY HeightAssumption DEF IsNodes, IsNode

\* A lookup that returns.
LEMMA LookReturn ==
    ASSUME Inv, NEW t \in Threads, th[t].pc \in Looking, NEW r, NEW out, Return(t, r, out),
           UNCHANGED <<node, head>>
    PROVE Inv'
<1>1. Holding(th[t]) = {}
  BY Mine, LookingKnows, Zenon DEF Knows
<1> QED
  BY <1>1, ReturnStep, Zenon

\* findNodeDownRight ends.
LEMMA ArriveStep ==
    ASSUME Inv, NEW t \in Threads, th[t].pc \in {"down", "right"}, UNCHANGED <<node, head>>,
           NEW n, n = Nil \/ n \in DOMAIN node, NEW found \in BOOLEAN, found => n # Nil,
           Arrive(t, n, found)
    PROVE Inv'
<1>1. th[t].pc \in Looking /\ Shape(th[t])
  BY Mine, Zenon DEF Looking
<1>2. ASSUME NEW p \in {"bound", "check"}, Goes(t, [th[t] EXCEPT !.pc = p, !.pred = n]),
             p = "check" => n # Nil
      PROVE Inv'
  <2> DEFINE new == [th[t] EXCEPT !.pc = p, !.pred = n]
  <2>1. /\ DOMAIN new = LocalFields /\ new.pc = p /\ new.pred = n
        /\ new.preds = th[t].preds /\ new.succs = th[t].succs
    BY <1>1, Zenon DEF Shape, LocalFields
  <2> HIDE DEF new
  <2>2. Reads(node, new) /\ new.pc \in Looking
    BY <1>2, <2>1, Zenon DEF Reads, Looking
  <2>3. Goes(t, new)
    BY <1>2, Zenon DEF new
  <2> QED
    BY <1>1, <2>1, <2>2, <2>3, LookStep, Zenon
<1>3. CASE Return(t, FALSE, <<>>)
  BY <1>1, <1>3, LookReturn, Zenon
<1> QED
  BY <1>2, <1>3, Zenon DEF Arrive

\* findNodeDownRight starts.
LEMMA DownHeadStep ==
    ASSUME Inv, NEW t \in Threads, DownHead(t)
    PROVE Inv'
<1> DEFINE new == [th[t] EXCEPT !.pc = "down", !.pred = head, !.layer = node[head].height]
<1>1. Shape(th[t]) /\ IsNodes(node) /\ IsHead(node, head)
  BY Mine, Zenon
<1>2. /\ DOMAIN new = LocalFields /\ new.pc = "down" /\ new.pred = head
      /\ new.layer = node[head].height
      /\ new.preds = th[t].preds /\ new.succs = th[t].succs
  BY <1>1, Zenon DEF Shape, LocalFields
<1>3. Goes(t, new) /\ UNCHANGED <<node, head>> /\ th[t].pc = "down_head"
  BY Zenon DEF DownHead, list
<1> HIDE DEF new
<1>4. head \in DOMAIN node /\ node[head].height \in 1 .. node[head].height
  <2>1. head \in DOMAIN node
    BY <1>1, Zenon DEF IsHead
  <2> QED
    BY <1>1, <2>1, NodeIs
<1>5. Reads(node, new) /\ new.pc \in Looking
  BY <1>2, <1>4, Zenon DEF Reads, Looking
<1> QED
  BY <1>2, <1>3, <1>5, LookStep, Zenon

\* It goes down a layer, or to the right from one.
LEMMA StepDownStep ==
    ASSUME Inv, NEW t \in Threads, StepDown(t)
    PROVE Inv'
<1> DEFINE me == th[t]
           n == node[me.pred].skip[me.layer - 1]
           lower == [me EXCEPT !.layer = me.layer - 1]
           over == [me EXCEPT !.pc = "right", !.pred = n, !.layer = me.layer - 1]
<1>1. Shape(me) /\ IsNodes(node) /\ Reads(node, me) /\ me.pc = "down"
  BY Mine, Zenon DEF Knows, StepDown
<1>2. me.pred \in DOMAIN node /\ me.layer \in 1 .. node[me.pred].height
  BY <1>1, Zenon DEF Reads
<1>3. node[me.pred].height \in Nat /\ me.layer - 1 \in 0 .. node[me.pred].height - 1
  <2>1. node[me.pred].height \in Nat
    BY <1>1, <1>2, NodeIs, Zenon
  <2> QED
    BY <1>2, <2>1
<1>4. n # Nil => n \in DOMAIN node /\ me.layer - 1 < node[n].height
  BY <1>1, <1>2, <1>3, Linked, Zenon
<1>5. UNCHANGED <<node, head>>
  BY Zenon DEF StepDown, list
<1>6. IF n = Nil \/ me.key < node[n].key
      THEN IF me.layer = 1 THEN Arrive(t, n, FALSE) ELSE Goes(t, lower)
      ELSE IF node[n].key = me.key THEN Arrive(t, n, TRUE) ELSE Goes(t, over)
  BY Zenon DEF StepDown
<1>7. /\ DOMAIN lower = LocalFields /\ lower.preds = me.preds /\ lower.succs = me.succs
      /\ lower.pc = me.pc /\ lower.pred = me.pred /\ lower.layer = me.layer - 1
  BY <1>1, Zenon DEF Shape, LocalFields
<1>8. /\ DOMAIN over = LocalFields /\ over.preds = me.preds /\ over.succs = me.succs
      /\ over.pc = "right" /\ over.pred = n /\ over.layer = me.layer - 1
  BY <1>1, Zenon DEF Shape, LocalFields
<1> HIDE DEF lower, over, me, n
<1>9. CASE Goes(t, lower) /\ me.layer # 1
  <2>1. me.layer - 1 \in 1 .. node[me.pred].height
    BY <1>9, <1>2, <1>3
  <2>2. Reads(node, lower) /\ lower.pc \in Looking
    BY <1>1, <1>2, <1>7, <2>1, Zenon DEF Reads, Looking
  <2> QED
    BY <1>1, <1>5, <1>7, <1>9, <2>2, LookStep, Zenon DEF me, Looking
<1>10. CASE Goes(t, over) /\ n # Nil
  <2>1. me.layer - 1 \in 0 .. node[n].height - 1
    <3>1. node[n].height \in Nat
      BY <1>1, <1>4, <1>10, NodeIs, Zenon
    <3> QED
      BY <1>2, <1>3, <1>4, <1>10, <3>1
  <2>2. Reads(node, over) /\ over.pc \in Looking
    BY <1>4, <1>8, <1>10, <2>1, Zenon DEF Reads, Looking
  <2> QED
    BY <1>1, <1>5, <1>8, <1>10, <2>2, LookStep, Zenon DEF me, Looking
<1>11. CASE Arrive(t, n, FALSE) \/ (Arrive(t, n, TRUE) /\ n # Nil)
  <2>1. n = Nil \/ n \in DOMAIN node
    BY <1>4, Zenon
  <2> QED
    BY <1>1, <1>5, <1>11, <2>1, ArriveStep, Zenon DEF me
<1> QED
  BY <1>6, <1>9, <1>10, <1>11, Zenon

\* It goes to the right on a layer, or turns down.
LEMMA StepRightStep ==
    ASSUME Inv, NEW t \in Threads, StepRight(t)
    PROVE Inv'
<1> DEFINE me == th[t]
           n == node[me.pred].skip[me.layer]
           on == [me EXCEPT !.pred = n]
           down == [me EXCEPT !.pc = "down"]
<1>1. Shape(me) /\ IsNodes(node) /\ Reads(node, me) /\ me.pc = "right"
  BY Mine, Zenon DEF Knows, StepRight
<1>2. me.pred \in DOMAIN node /\ me.layer \in 0 .. node[me.pred].height - 1
  BY <1>1, Zenon DEF Reads
<1>3. n # Nil => n \in DOMAIN node /\ me.layer < node[n].height
  BY <1>1, <1>2, Linked, Zenon
<1>4. UNCHANGED <<node, head>>
  BY Zenon DEF StepRight, list
<1>5. IF n # Nil /\ node[n].key < me.key THEN Goes(t, on)
      ELSE IF n # Nil /\ node[n].key = me.key THEN Arrive(t, n, TRUE)
      ELSE IF me.layer = 0 THEN Arrive(t, n, FALSE)
      ELSE Goes(t, down)
  BY Zenon DEF StepRight
<1>6. /\ DOMAIN on = LocalFields /\ on.preds = me.preds /\ on.succs = me.succs
      /\ on.pc = me.pc /\ on.pred = n /\ on.layer = me.layer
  BY <1>1, Zenon DEF Shape, LocalFields
<1>7. /\ DOMAIN down = LocalFields /\ down.preds = me.preds /\ down.succs = me.succs
      /\ down.pc = "down" /\ down.pred = me.pred /\ down.layer = me.layer
  BY <1>1, Zenon DEF Shape, LocalFields
<1> HIDE DEF on, down, me, n
<1>8. CASE Goes(t, on) /\ n # Nil
  <2>1. me.layer \in 0 .. node[n].height - 1
    <3>1. node[n].height \in Nat
      BY <1>1, <1>3, <1>8, NodeIs, Zenon
    <3> QED
      BY <1>2, <1>3, <1>8, <3>1
  <2>2. Reads(node, on) /\ on.pc \in Looking
    BY <1>1, <1>3, <1>6, <1>8, <2>1, Zenon DEF Reads, Looking
  <2> QED
    BY <1>1, <1>4, <1>6, <1>8, <2>2, LookStep, Zenon DEF me, Looking
<1>9. CASE Goes(t, down) /\ me.layer # 0
  <2>1. me.layer \in 1 .. node[me.pred].height
    <3>1. node[me.pred].height \in Nat
      BY <1>1, <1>2, NodeIs, Zenon
    <3> QED
      BY <1>2, <1>9, <3>1
  <2>2. Reads(node, down) /\ down.pc \in Looking
    BY <1>2, <1>7, <2>1, Zenon DEF Reads, Looking
  <2> QED
    BY <1>1, <1>4, <1>7, <1>9, <2>2, LookStep, Zenon DEF me, Looking
<1>10. CASE Arrive(t, n, FALSE) \/ (Arrive(t, n, TRUE) /\ n # Nil)
  <2>1. n = Nil \/ n \in DOMAIN node
    BY <1>3, Zenon
  <2> QED
    BY <1>1, <1>4, <1>10, <2>1, ArriveStep, Zenon DEF me
<1> QED
  BY <1>5, <1>8, <1>9, <1>10, Zenon

\* lower_bound steps over marked nodes.
LEMMA LowerBoundStep ==
    ASSUME Inv, NEW t \in Threads, LowerBound(t)
    PROVE Inv'
<1> DEFINE me == th[t]
           n == node[me.pred].skip[0]
           on == [me EXCEPT !.pred = n]
<1>1. Shape(me) /\ IsNodes(node) /\ Reads(node, me) /\ me.pc = "bound"
  BY Mine, Zenon DEF Knows, LowerBound
<1>2. UNCHANGED <<node, head>>
  BY Zenon DEF LowerBound, list
<1>3. \/ \E r, out : Return(t, r, out)
      \/ me.pred # Nil /\ Goes(t, on)
  BY Zenon DEF LowerBound
<1>4. /\ DOMAIN on = LocalFields /\ on.preds = me.preds /\ on.succs = me.succs
      /\ on.pc = me.pc /\ on.pred = n
  BY <1>1, Zenon DEF Shape, LocalFields
<1> HIDE DEF on, me, n
<1>5. CASE me.pred # Nil /\ Goes(t, on)
  <2>1. me.pred \in DOMAIN node
    BY <1>1, <1>5, Zenon DEF Reads
  <2>2. 0 \in 0 .. node[me.pred].height - 1
    BY <1>1, <2>1, NodeIs
  <2>3. n = Nil \/ n \in DOMAIN node
    BY <1>1, <2>1, <2>2, Linked, Zenon DEF n
  <2>4. Reads(node, on) /\ on.pc \in Looking
    BY <1>1, <1>4, <2>3, Zenon DEF Reads, Looking
  <2> QED
    BY <1>1, <1>2, <1>4, <1>5, <2>4, LookStep, Zenon DEF me, Looking
<1>6. CASE \E r, out : Return(t, r, out)
  BY <1>1, <1>2, <1>6, LookReturn, Zenon DEF me, Looking
<1> QED
  BY <1>3, <1>5, <1>6, Zenon

\* An iterator starts from the head.
LEMMA BeginStep ==
    ASSUME Inv, NEW t \in Threads, Begin(t)
    PROVE Inv'
<1> DEFINE new == [th[t] EXCEPT !.pc = "next", !.pred = head]
<1>1. Shape(th[t]) /\ head \in DOMAIN node
  BY Mine, Zenon DEF IsHead
<1>2. /\ DOMAIN new = LocalFields /\ new.pc = "next" /\ new.pred = head
      /\ new.preds = th[t].preds /\ new.succs = th[t].succs
  BY <1>1, Zenon DEF Shape, LocalFields
<1>3. Goes(t, new) /\ UNCHANGED <<node, head>> /\ th[t].pc = "begin"
  BY Zenon DEF Begin, list
<1> HIDE DEF new
<1>4. Reads(node, new) /\ new.pc \in Looking
  BY <1>1, <1>2, Zenon DEF Reads, Looking
<1> QED
  BY <1>2, <1>3, <1>4, LookStep, Zenon

\* It loads the next link.
LEMMA NextNodeStep ==
    ASSUME Inv, NEW t \in Threads, NextNode(t)
    PROVE Inv'
<1> DEFINE me == th[t]
           n == node[me.pred].skip[0]
           new == [me EXCEPT !.pc = "skip_marked", !.pred = n]
<1>1. Shape(me) /\ IsNodes(node) /\ Reads(node, me) /\ me.pc = "next"
  BY Mine, Zenon DEF Knows, NextNode
<1>2. UNCHANGED <<node, head>>
  BY Zenon DEF NextNode, list
<1>3. Return(t, TRUE, me.out) \/ (n # Nil /\ Goes(t, new))
  BY Zenon DEF NextNode
<1>4. /\ DOMAIN new = LocalFields /\ new.preds = me.preds /\ new.succs = me.succs
      /\ new.pc = "skip_marked" /\ new.pred = n
  BY <1>1, Zenon DEF Shape, LocalFields
<1> HIDE DEF new, me, n
<1>5. CASE n # Nil /\ Goes(t, new)
  <2>1. me.pred \in DOMAIN node
    BY <1>1, Zenon DEF Reads
  <2>2. 0 \in 0 .. node[me.pred].height - 1
    BY <1>1, <2>1, NodeIs
  <2>3. n \in DOMAIN node
    BY <1>1, <1>5, <2>1, <2>2, Linked, Zenon DEF n
  <2>4. Reads(node, new) /\ new.pc \in Looking
    BY <1>4, <2>3, Zenon DEF Reads, Looking
  <2> QED
    BY <1>1, <1>2, <1>4, <1>5, <2>4, LookStep, Zenon DEF me, Looking
<1>6. CASE Return(t, TRUE, me.out)
  BY <1>1, <1>2, <1>6, LookReturn, Zenon DEF me, Looking
<1> QED
  BY <1>3, <1>5, <1>6, Zenon

\* It takes the node, or not.
LEMMA SkipMarkedStep ==
    ASSUME Inv, NEW t \in Threads, SkipMarked(t)
    PROVE Inv'
<1> DEFINE me == th[t]
           out == IF node[me.pred].marked THEN me.out ELSE Append(me.out, node[me.pred].key)
           new == [me EXCEPT !.pc = "next", !.out = out]
<1>1. Shape(me) /\ Reads(node, me) /\ me.pc = "skip_marked"
  BY Mine, Zenon DEF Knows, SkipMarked
<1>2. Goes(t, new) /\ UNCHANGED <<node, head>>
  BY Zenon DEF SkipMarked, list
<1> HIDE DEF out
<1>3. /\ DOMAIN new = LocalFields /\ new.preds = me.preds /\ new.succs = me.succs
      /\ new.pc = "next" /\ new.pred = me.pred
  BY <1>1, Zenon DEF Shape, LocalFields
<1> HIDE DEF new
<1>4. Reads(node, new) /\ new.pc \in Looking
  BY <1>1, <1>3, Zenon DEF Reads, Looking
<1> QED
  BY <1>1, <1>2, <1>3, <1>4, LookStep, Zenon DEF Looking

\* The steps of lookups.
LEMMA LookupSteps ==
    ASSUME Inv, NEW t \in Threads,
           \/ DownHead(t) \/ StepDown(t) \/ StepRight(t) \/ FindCheck(t) \/ LowerBound(t)
           \/ Begin(t) \/ NextNode(t) \/ SkipMarked(t)
    PROVE Inv'
<1>1. CASE FindCheck(t)
  <2>1. th[t].pc \in Looking /\ UNCHANGED <<node, head>>
    BY <1>1, Zenon DEF FindCheck, Looking, list
  <2> QED
    BY <1>1, <2>1, LookReturn, Zenon DEF FindCheck
<1> QED
  BY <1>1, DownHeadStep, StepDownStep, StepRightStep, LowerBoundStep, BeginStep, NextNodeStep,
     SkipMarkedStep, Zenon

-----------------------------------------------------------------------------
(* Steps that leave the nodes alone: searches of add and remove *)

\* What a search takes along: the call, and the node that remove has marked.
SameCall(me, new) ==
    /\ DOMAIN new = LocalFields
    /\ new.op = me.op /\ new.key = me.key /\ new.mine = me.mine /\ new.height = me.height

\* A step of a search from one place to another.
LEMMA SearchStep ==
    ASSUME Inv, NEW t \in Threads, NEW new, Goes(t, new), UNCHANGED <<node, head>>,
           th[t].pc \in Searching, new.pc \in Searching, SameCall(th[t], new),
           new.preds \in [Layers -> Nat], new.succs \in [Layers -> Nat],
           Writes(node, head, new), TopKnown(new),
           new.pc = "searched" /\ new.op = "add" => new.at # -1
    PROVE Inv'
<1>1. Shape(th[t]) /\ Knows(node, head, th[t])
  BY Mine, Zenon
<1>2. Shape(new)
  BY Zenon DEF Shape, SameCall, Searching, Points
<1>3. Reads(node, new) /\ Grows(node, new)
  BY Zenon DEF Reads, Grows, Searching
<1>4. Adds(node, new)
  BY <1>1, Zenon DEF Knows, Adds, Searching, Changing, SameCall
<1>5. Removes(node, head, new)
  BY <1>1, Zenon DEF Knows, Removes, Searching, Changing, SameCall
<1>6. Holding(new) = Holding(th[t])
  BY Zenon DEF Holding, Searching, Changing, SameCall
<1> QED
  BY <1>2, <1>3, <1>4, <1>5, <1>6, LocalStep, Zenon DEF Knows

\* findInsertionPointGetMaxLayer.
LEMMA MaxLayerStep ==
    ASSUME Inv, NEW t \in Threads, MaxLayer(t)
    PROVE Inv'
<1> DEFINE me == th[t]
           new == [me EXCEPT !.pc = "head", !.top = node[head].height - 1]
<1>1. Shape(me) /\ Knows(node, head, me) /\ IsNodes(node) /\ IsHead(node, head)
  BY Mine, Zenon
<1>2. Goes(t, new) /\ UNCHANGED <<node, head>> /\ me.pc = "max"
  BY Zenon DEF MaxLayer, list
<1>3. /\ SameCall(me, new) /\ new.pc = "head" /\ new.top = node[head].height - 1
      /\ new.preds = me.preds /\ new.succs = me.succs
  BY <1>1, Zenon DEF Shape, LocalFields, SameCall
<1>4. node[head].height - 1 \in Layers /\ node[head].height - 1 < node[head].height
  BY <1>1, HeightAssumption DEF IsHead, IsNodes, IsNode, Layers
<1> HIDE DEF new
<1>5. Writes(node, head, new)
  BY <1>1, <1>2, <1>3, <1>4, Zenon DEF Knows, Writes, Searching, Changing, SameCall
<1>6. TopKnown(new)
  <2>1. me.op = "remove" /\ me.mine # Nil => me.height <= node[head].height
                                              /\ IsOf(node, me.mine, me.key, me.height)
    BY <1>1, <1>2, Zenon DEF Knows, Removes, Searching
  <2>2. me.op = "remove" /\ me.mine # Nil => me.height <= (node[head].height - 1) + 1
    BY <1>1, <2>1, NodeIs DEF IsOf, IsHead
  <2> QED
    BY <1>3, <2>2, Zenon DEF TopKnown, SameCall
<1> QED
  BY <1>1, <1>2, <1>3, <1>5, <1>6, SearchStep, Zenon DEF Searching, Shape

\* findInsertionPoint starts from the head.
LEMMA LoadHeadStep ==
    ASSUME Inv, NEW t \in Threads, LoadHead(t)
    PROVE Inv'
<1> DEFINE me == th[t]
           new == [me EXCEPT !.pc = "search", !.pred = head, !.layer = me.top, !.at = -1]
<1>1. Shape(me) /\ Knows(node, head, me) /\ IsNodes(node) /\ IsHead(node, head)
  BY Mine, Zenon
<1>2. Goes(t, new) /\ UNCHANGED <<node, head>> /\ me.pc = "head"
  BY Zenon DEF LoadHead, list
<1>3. /\ SameCall(me, new) /\ new.pc = "search" /\ new.top = me.top /\ new.pred = head
      /\ new.layer = me.top /\ new.at = -1
      /\ new.preds = me.preds /\ new.succs = me.succs
  BY <1>1, Zenon DEF Shape, LocalFields, SameCall
<1> HIDE DEF new
<1>4. /\ me.top \in Layers /\ me.top < node[head].height /\ me.op \in {"add", "remove"}
      /\ me.key \in Nat \ {0}
  BY <1>1, <1>2, Zenon DEF Knows, Writes, Searching, Changing
<1>5. Stands(node, me.key, me.top, me.preds, head, me.top)
  BY <1>1, <1>4, HeightAssumption DEF Stands, Layers, IsHead, Nil
<1>6. Trail(node, me.key, me.top, -1, me.preds, me.succs, me.top + 1)
  BY <1>4, HeightAssumption DEF Trail, Layers
<1>7. Writes(node, head, new)
  BY <1>2, <1>3, <1>4, <1>5, <1>6, Zenon DEF Writes, TrailOf, Searching, Changing, SameCall
<1>8. TopKnown(new)
  BY <1>1, <1>2, <1>3, Zenon DEF Knows, Removes, TopKnown, SameCall
<1> QED
  BY <1>1, <1>2, <1>3, <1>7, <1>8, SearchStep, Zenon DEF Searching, Shape

\* A search goes to the right and is further behind what it found above.
LEMMA StandsRight ==
    ASSUME NEW N, IsNodes(N), NEW k \in Nat, NEW top \in Nat, NEW preds, NEW p, NEW layer,
           Stands(N, k, top, preds, p, layer),
           \A l \in layer + 1 .. top : preds[l] \in DOMAIN N,
           NEW n, n = N[p].skip[layer], n # Nil, N[n].key < k
    PROVE Stands(N, k, top, preds, n, layer)
<1>1. p \in DOMAIN N /\ layer \in 0 .. top /\ layer < N[p].height
  BY Zenon DEF Stands
<1>2. layer \in 0 .. N[p].height - 1
  BY <1>1, NodeIs
<1>3. n \in DOMAIN N /\ layer < N[n].height /\ N[p].key < N[n].key
  BY <1>1, <1>2, Linked, Zenon
<1>4. N[n].key \in Nat /\ N[p].key \in Nat /\ \A l \in layer + 1 .. top : N[preds[l]].key \in Nat
  BY <1>1, <1>3, NodeIs, Zenon
<1>5. \A l \in layer + 1 .. top : Behind(N, n, preds[l])
  BY <1>3, <1>4 DEF Stands, Behind
<1> QED
  BY <1>1, <1>3, <1>5, Zenon DEF Stands

\* What a search notes of a layer.
Noted(f, l, x) == [f EXCEPT ![l] = x]
Ahead(N, p, layer, n, k) == n = N[p].skip[layer] /\ ~(n # Nil /\ N[n].key < k)
IsLinks(f) == f \in [Layers -> Nat]
AtOf(N, k, at, n, layer) == IF at = -1 /\ n # Nil /\ N[n].key = k THEN layer ELSE at
SuccOf(at, succs, n) == IF at # -1 THEN succs[at] ELSE n

\* A search that is through with a layer has found its place on it.
LEMMA TrailGrows ==
    ASSUME NEW N, NEW k, NEW top, NEW at, NEW preds, NEW succs, NEW p, NEW layer, NEW n,
           Stands(N, k, top, preds, p, layer), Trail(N, k, top, at, preds, succs, layer + 1),
           Ahead(N, p, layer, n, k), IsNodes(N), k \in Nat, top \in Layers,
           IsLinks(preds), IsLinks(succs)
    PROVE LET at2 == AtOf(N, k, at, n, layer)
              preds2 == Noted(preds, layer, p)
              succs2 == Noted(succs, layer, SuccOf(at, succs, n))
          IN /\ Trail(N, k, top, at2, preds2, succs2, layer)
             /\ IsLinks(preds2) /\ IsLinks(succs2)
<1> DEFINE at2 == AtOf(N, k, at, n, layer)
           preds2 == Noted(preds, layer, p)
           succs2 == Noted(succs, layer, SuccOf(at, succs, n))
<1> DEFINE s == SuccOf(at, succs, n)
<1> USE DEF AtOf, Ahead, IsLinks
<1>1. /\ p \in DOMAIN N /\ layer \in 0 .. top /\ layer < N[p].height /\ N[p].key < k
      /\ layer \in Layers /\ top \in Nat /\ layer \in Nat /\ \A l \in layer + 1 .. top : l \in Layers
  BY HeightAssumption DEF Stands, Layers
<1>2. layer \in 0 .. N[p].height - 1
  BY <1>1, NodeIs
<1>3. /\ n # Nil => n \in DOMAIN N /\ layer < N[n].height
      /\ n \in Nat
  BY <1>1, <1>2, Linked, Zenon
<1>4. n # Nil => N[n].key \in Nat /\ k <= N[n].key
  BY <1>3, NodeIs
<1>5. at # -1 => /\ at \in layer + 1 .. top /\ succs[at] # Nil /\ N[succs[at]].key = k
                 /\ \A l \in layer + 1 .. at : succs[l] = succs[at]
                 /\ succs[at] \in DOMAIN N /\ at < N[succs[at]].height
  BY Zenon DEF Trail, Found
<1>6. /\ s \in Nat
      /\ s # Nil => s \in DOMAIN N /\ layer < N[s].height /\ k <= N[s].key
      /\ s # Nil /\ at2 = -1 => k < N[s].key
  <2>1. CASE at # -1
    <3>1. at \in Layers
      BY <1>1, <1>5, <2>1, Zenon
    <3>2. N[succs[at]].height \in Nat
      BY <1>5, <2>1, NodeIs, Zenon
    <3>3. layer < N[succs[at]].height /\ at2 # -1
      BY <1>1, <1>5, <2>1, <3>2, SMTT(30)
    <3> QED
      BY <1>5, <2>1, <3>1, <3>3 DEF SuccOf
  <2>2. CASE at = -1
    BY <2>2, <1>1, <1>3, <1>4 DEF SuccOf
  <2> QED
    BY <2>1, <2>2, Zenon
<1> HIDE DEF s
<1>7. /\ preds2[layer] = p /\ \A l \in layer + 1 .. top : l # layer /\ l \in Layers
      /\ succs2[layer] = s /\ preds2 \in [Layers -> Nat] /\ succs2 \in [Layers -> Nat]
      /\ p \in Nat
  <2>1. p \in Nat
    <3>1. DOMAIN N = 1 .. Len(N) /\ Len(N) \in Nat
      BY SeqDomain, Zenon DEF IsNodes
    <3> QED
      BY <1>1, <3>1
  <2>2. \A l \in layer + 1 .. top : l # layer /\ l \in Layers
    BY <1>1, HeightAssumption DEF Layers
  <2>3. succs2 = [succs EXCEPT ![layer] = s] /\ preds2 = [preds EXCEPT ![layer] = p]
    BY Zenon DEF s, Noted
  <2> QED
    BY <1>1, <1>6, <2>1, <2>2, <2>3, ZenonT(60)
<1>8. \A l \in layer + 1 .. top : preds2[l] = preds[l] /\ succs2[l] = succs[l]
  BY <1>7, Zenon DEF Noted
<1>9. \A l \in layer .. top : Found(N, k, at2, preds2[l], succs2[l], l)
  <2>1. Found(N, k, at2, p, s, layer)
    BY <1>1, <1>6, Zenon DEF Found
  <2>2. ASSUME NEW l \in layer + 1 .. top PROVE Found(N, k, at2, preds[l], succs[l], l)
    <3>1. at2 = -1 => at = -1
      BY <1>1
    <3>2. Found(N, k, at, preds[l], succs[l], l)
      BY Zenon DEF Trail
    <3> QED
      BY <3>1, <3>2, Zenon DEF Found
  <2>3. \A l \in layer .. top : l = layer \/ l \in layer + 1 .. top
    BY <1>1
  <2> QED
    BY <2>1, <2>2, <2>3, <1>7, <1>8, Zenon
<1>10. ASSUME NEW i \in layer .. top, NEW j \in layer .. top, i < j
       PROVE Behind(N, preds2[i], preds2[j])
  <2>1. j \in layer + 1 .. top /\ (i = layer \/ i \in layer + 1 .. top)
    BY <1>1, <1>10
  <2>2. preds2[j] = preds[j]
    BY <2>1, <1>8, Zenon
  <2>3. CASE i = layer
    BY <2>1, <2>2, <2>3, <1>7, Zenon DEF Stands
  <2>4. CASE i \in layer + 1 .. top
    <3>1. Behind(N, preds[i], preds[j])
      BY <2>1, <2>4, <1>10, Zenon DEF Trail
    <3> QED
      BY <2>2, <2>4, <3>1, <1>8, Zenon
  <2> QED
    BY <2>1, <2>3, <2>4, Zenon
<1>11. at2 # -1 => /\ at2 \in layer .. top /\ succs2[at2] # Nil /\ N[succs2[at2]].key = k
                   /\ \A l \in layer .. at2 : succs2[l] = succs2[at2]
  <2>1. CASE at # -1
    <3>1. at2 = at /\ s = succs[at]
      BY <2>1, Zenon DEF s, SuccOf
    <3>2. at \in layer + 1 .. top
      BY <2>1, <1>5, Zenon
    <3>3. \A l \in layer .. at : l = layer \/ l \in layer + 1 .. at
      BY <1>1, <3>2
    <3>4. \A l \in layer + 1 .. at : l \in layer + 1 .. top
      BY <1>1, <3>2
    <3>5. at \in layer .. top
      BY <1>1, <3>2
    <3>6. succs2[at] = succs[at]
      BY <3>2, <1>8, Zenon
    <3> QED
      BY <2>1, <3>1, <3>3, <3>4, <3>5, <3>6, <1>5, <1>7, <1>8, Zenon
  <2>2. CASE at = -1 /\ at2 # -1
    <3>1. at2 = layer /\ s = n /\ n # Nil /\ N[n].key = k
      BY <2>2, Zenon DEF s, SuccOf
    <3>2. layer \in layer .. top /\ \A l \in layer .. layer : l = layer
      BY <1>1
    <3> QED
      BY <3>1, <3>2, <1>7, Zenon
  <2> QED
    BY <2>1, <2>2, Zenon
<1> QED
  BY <1>7, <1>8, <1>9, <1>10, <1>11, Zenon DEF Trail

\* It stands on the next layer down as it stood on this one.
LEMMA StandsDown ==
    ASSUME NEW N, NEW k, NEW top \in Nat, NEW preds, NEW preds2, NEW p, NEW layer, layer > 0,
           IsNodes(N), Stands(N, k, top, preds, p, layer), preds2[layer] = p,
           \A l \in layer + 1 .. top : preds2[l] = preds[l]
    PROVE Stands(N, k, top, preds2, p, layer - 1)
<1>1. p \in DOMAIN N /\ layer \in 0 .. top /\ layer < N[p].height /\ N[p].key < k
  BY Zenon DEF Stands
<1>2. layer - 1 \in 0 .. top /\ layer - 1 < N[p].height
  BY <1>1, NodeIs
<1>3. \A l \in (layer - 1) + 1 .. top : l = layer \/ l \in layer + 1 .. top
  BY <1>1
<1>4. \A l \in (layer - 1) + 1 .. top : Behind(N, p, preds2[l])
  BY <1>3, Zenon DEF Stands, Behind
<1> QED
  BY <1>1, <1>2, <1>4, Zenon DEF Stands

\* findInsertionPoint makes a step.
LEMMA SearchSteps ==
    ASSUME Inv, NEW t \in Threads, Search(t)
    PROVE Inv'
<1> DEFINE me == th[t]
           n == node[me.pred].skip[me.layer]
           found == me.at = -1 /\ n # Nil /\ node[n].key = me.key
           at == IF found THEN me.layer ELSE me.at
           s == IF me.at # -1 THEN me.succs[me.at] ELSE n
           here == [me EXCEPT !.at = at, !.preds[me.layer] = me.pred, !.succs[me.layer] = s]
           right == [me EXCEPT !.pred = n]
           down == [here EXCEPT !.layer = me.layer - 1]
           over == [here EXCEPT !.pc = "searched"]
           lock(h) == [here EXCEPT !.pc = "lock", !.height = h, !.pred = Nil]
<1>1. Shape(me) /\ Knows(node, head, me) /\ IsNodes(node) /\ IsHead(node, head)
  BY Mine, Zenon
<1>2. UNCHANGED <<node, head>> /\ me.pc = "search"
  BY Zenon DEF Search, list
<1>3. IF n # Nil /\ node[n].key < me.key THEN Goes(t, right)
      ELSE IF me.layer > 0 THEN Goes(t, down)
      ELSE IF me.op = "remove" \/ here.at # -1 THEN Goes(t, over)
      ELSE \E h \in NodeHeight(me.top) : Goes(t, lock(h))
  BY Zenon DEF Search
<1> HIDE DEF at, s, n, found
<1>4. /\ DOMAIN here = LocalFields /\ here.at = at
      /\ here.preds = [me.preds EXCEPT ![me.layer] = me.pred]
      /\ here.succs = [me.succs EXCEPT ![me.layer] = s]
      /\ here.pc = me.pc /\ here.op = me.op /\ here.key = me.key /\ here.mine = me.mine
      /\ here.height = me.height /\ here.top = me.top /\ here.layer = me.layer
      /\ here.pred = me.pred
  BY <1>1 DEF Shape, LocalFields
<1> HIDE DEF here
<1>5. /\ me.op \in {"add", "remove"} /\ me.key \in Nat \ {0} /\ me.top \in Layers
      /\ me.top < node[head].height
      /\ Stands(node, me.key, me.top, me.preds, me.pred, me.layer)
      /\ Trail(node, me.key, me.top, me.at, me.preds, me.succs, me.layer + 1)
  BY <1>1, <1>2, Zenon DEF Knows, Writes, Searching, Changing, TrailOf
<1>6. me.key \in Nat /\ me.top \in Nat /\ me.layer \in 0 .. me.top /\ me.layer \in Nat
  BY <1>5, HeightAssumption DEF Layers, Stands
<1>7. ASSUME NEW new, SameCall(me, new), new.top = me.top PROVE TopKnown(new)
  BY <1>1, <1>2, <1>7, Zenon DEF Knows, Removes, TopKnown, SameCall
<1>8. CASE n # Nil /\ node[n].key < me.key /\ Goes(t, right)
  <2>1. /\ SameCall(me, right) /\ right.pc = "search" /\ right.top = me.top /\ right.pred = n
        /\ right.layer = me.layer /\ right.at = me.at
        /\ right.preds = me.preds /\ right.succs = me.succs
    BY <1>1, <1>2, Zenon DEF Shape, LocalFields, SameCall
  <2> HIDE DEF right
  <2>2. Stands(node, me.key, me.top, me.preds, n, me.layer)
    <3>1. \A l \in me.layer + 1 .. me.top : me.preds[l] \in DOMAIN node
      BY <1>5, TrailNodes, Zenon
    <3> QED
      BY <1>1, <1>5, <1>6, <1>8, <3>1, StandsRight, Zenon DEF n
  <2>3. Writes(node, head, right)
    BY <1>5, <2>1, <2>2, Zenon DEF Writes, TrailOf, Searching, Changing, SameCall
  <2> QED
    BY <1>1, <1>2, <1>8, <1>7, <2>1, <2>3, SearchStep, Zenon DEF Searching, Shape
<1>9. CASE ~(n # Nil /\ node[n].key < me.key)
  <2>1. /\ Trail(node, me.key, me.top, here.at, here.preds, here.succs, me.layer)
        /\ here.preds \in [Layers -> Nat] /\ here.succs \in [Layers -> Nat]
        /\ here.preds[me.layer] = me.pred
        /\ \A l \in me.layer + 1 .. me.top : here.preds[l] = me.preds[l]
    <3>1. IsLinks(me.preds) /\ IsLinks(me.succs)
      BY <1>1, Zenon DEF Shape, IsLinks
    <3>2. /\ here.at = AtOf(node, me.key, me.at, n, me.layer)
          /\ here.preds = Noted(me.preds, me.layer, me.pred)
          /\ here.succs = Noted(me.succs, me.layer, SuccOf(me.at, me.succs, n))
          /\ n = node[me.pred].skip[me.layer]
      BY <1>4, Zenon DEF at, found, s, n, AtOf, SuccOf, Noted
    <3> HIDE DEF me
    <3>3. /\ Ahead(node, me.pred, me.layer, n, me.key)
          /\ IsNodes(node) /\ me.key \in Nat /\ me.top \in Layers
          /\ Stands(node, me.key, me.top, me.preds, me.pred, me.layer)
          /\ Trail(node, me.key, me.top, me.at, me.preds, me.succs, me.layer + 1)
      BY <1>1, <1>5, <1>6, <1>9, <3>2, Zenon DEF Ahead
    <3> DEFINE at2 == AtOf(node, me.key, me.at, n, me.layer)
               preds2 == Noted(me.preds, me.layer, me.pred)
               succs2 == Noted(me.succs, me.layer, SuccOf(me.at, me.succs, n))
    <3>4. Trail(node, me.key, me.top, at2, preds2, succs2, me.layer)
      BY <3>1, <3>3, TrailGrows, Zenon
    <3>5. IsLinks(preds2) /\ IsLinks(succs2)
      BY <3>1, <3>3, TrailGrows, Zenon
    <3>6. me.layer \in Layers /\ \A l \in me.layer + 1 .. me.top : l # me.layer /\ l \in Layers
      BY <1>5, <1>6, HeightAssumption DEF Layers
    <3>7. preds2[me.layer] = me.pred /\ \A l \in me.layer + 1 .. me.top : preds2[l] = me.preds[l]
      BY <3>1, <3>6, Zenon DEF Noted, IsLinks
    <3> QED
      BY <3>2, <3>4, <3>5, <3>6, <3>7, Zenon DEF IsLinks
  <2>2. CASE me.layer > 0 /\ Goes(t, down)
    <3>1. /\ SameCall(me, down) /\ down.pc = "search" /\ down.top = me.top
          /\ down.pred = me.pred /\ down.layer = me.layer - 1 /\ down.at = here.at
          /\ down.preds = here.preds /\ down.succs = here.succs
      BY <1>2, <1>4, Zenon DEF LocalFields, SameCall
    <3> HIDE DEF down
    <3>2. Stands(node, me.key, me.top, here.preds, me.pred, me.layer - 1)
      BY <1>1, <1>5, <1>6, <2>1, <2>2, StandsDown, Zenon
    <3>3. (me.layer - 1) + 1 = me.layer
      BY <1>6
    <3>4. Writes(node, head, down)
      BY <1>5, <2>1, <3>1, <3>2, <3>3, Zenon DEF Writes, TrailOf, Searching, Changing, SameCall
    <3> QED
      BY <1>1, <1>2, <2>1, <2>2, <1>7, <3>1, <3>4, SearchStep, Zenon DEF Searching
  <2>3. CASE me.layer = 0 /\ (me.op = "remove" \/ here.at # -1) /\ Goes(t, over)
    <3>1. /\ SameCall(me, over) /\ over.pc = "searched" /\ over.top = me.top
          /\ over.at = here.at /\ over.preds = here.preds /\ over.succs = here.succs
      BY <1>2, <1>4, Zenon DEF LocalFields, SameCall
    <3> HIDE DEF over
    <3>2. Writes(node, head, over)
      BY <1>5, <2>1, <2>3, <3>1, Zenon DEF Writes, TrailOf, Searching, Changing, SameCall
    <3>3. over.op = "add" => over.at # -1
      BY <2>3, <3>1, Zenon DEF SameCall
    <3> QED
      BY <1>1, <1>2, <2>1, <2>3, <1>7, <3>1, <3>2, <3>3, SearchStep, Zenon DEF Searching
  <2>4. CASE /\ me.layer = 0 /\ me.op # "remove" /\ here.at = -1
             /\ \E h \in NodeHeight(me.top) : Goes(t, lock(h))
    <3>1. PICK h \in NodeHeight(me.top) : Goes(t, lock(h))
      BY <2>4, Zenon
    <3> DEFINE new == lock(h)
    <3>2. /\ DOMAIN new = LocalFields /\ new.pc = "lock" /\ new.top = me.top /\ new.height = h
          /\ new.layer = me.layer
          /\ new.at = here.at /\ new.preds = here.preds /\ new.succs = here.succs
          /\ new.op = me.op /\ new.key = me.key /\ new.mine = me.mine
      BY <1>2, <1>4, Zenon DEF LocalFields
    <3>3. Goes(t, new)
      BY <3>1, Zenon
    <3> HIDE DEF new
    <3>4. h \in 1 .. me.top + 1 /\ 0 \in 0 .. h - 1
      BY <1>6 DEF NodeHeight
    <3>5. Writes(node, head, new)
      BY <1>5, <2>1, <2>4, <3>2, <3>4, Zenon DEF Writes, TrailOf, Searching, Changing
    <3>6. new.op = "add" /\ new.mine = Nil
      BY <1>1, <1>2, <1>5, <2>4, <3>2, Zenon DEF Knows, Adds, Searching, Changing
    <3>7. Reads(node, new) /\ Grows(node, new)
      BY <3>2, Zenon DEF Reads, Grows
    <3>8. Adds(node, new) /\ Removes(node, head, new)
      BY <2>4, <3>2, <3>6, Zenon DEF Adds, Removes, TopKnown, Searching, Changing
    <3>9. Shape(new)
      BY <2>1, <3>2, Zenon DEF Shape, Points
    <3>10. Holding(me) = {}
      BY <1>2, <2>4, Zenon DEF Holding, Searching, Changing
    <3>11. {new.preds[l] : l \in 0 .. new.layer - 1} = {}
      <4>1. 0 .. new.layer - 1 = {}
        BY <2>4, <3>2
      <4> QED
        BY <4>1, Zenon
    <3>12. Holding(new) = {}
      BY <3>2, <3>6, <3>11, Zenon DEF Holding, Changing
    <3> QED
      BY <1>2, <3>3, <3>5, <3>7, <3>8, <3>9, <3>10, <3>12, LocalStep, Zenon DEF Knows
  <2>5. me.layer > 0 \/ me.layer = 0
    BY <1>6
  <2> QED
    BY <1>3, <1>9, <2>2, <2>3, <2>4, <2>5, Zenon
<1> QED
  BY <1>3, <1>8, <1>9, Zenon

\* addOrGetData found the key: it searches again, or waits for the node.
LEMMA AddFoundStep ==
    ASSUME Inv, NEW t \in Threads, AddFound(t)
    PROVE Inv'
<1> DEFINE me == th[t]
           p == IF node[me.succs[me.at]].marked THEN "max" ELSE "await"
           new == [me EXCEPT !.pc = p]
<1>1. Shape(me) /\ Knows(node, head, me)
  BY Mine, Zenon
<1>2. Goes(t, new) /\ UNCHANGED <<node, head>> /\ me.pc = "searched" /\ me.op = "add"
  BY Zenon DEF AddFound, list
<1>3. p \in {"max", "await"}
  BY Zenon
<1> HIDE DEF p
<1>4. /\ SameCall(me, new) /\ new.pc = p /\ new.top = me.top /\ new.at = me.at
      /\ new.preds = me.preds /\ new.succs = me.succs
  BY <1>1, Zenon DEF Shape, LocalFields, SameCall
<1> HIDE DEF new
<1>5. /\ me.key \in Nat \ {0} /\ TrailOf(node, me, 0) /\ me.mine = Nil /\ me.at # -1
  BY <1>1, <1>2, Zenon DEF Knows, Writes, Adds, Searching
<1>6. CASE p = "max"
  <2>1. Writes(node, head, new) /\ TopKnown(new)
    BY <1>2, <1>4, <1>5, <1>6, Zenon DEF Writes, Searching, Changing, SameCall, TopKnown
  <2> QED
    BY <1>1, <1>2, <1>4, <1>6, <2>1, SearchStep, Zenon DEF Searching, Shape
<1>7. CASE p = "await"
  <2>1. Writes(node, head, new)
    BY <1>2, <1>4, <1>5, <1>7, Zenon DEF Writes, TrailOf, Searching, Changing, SameCall
  <2>2. Adds(node, new) /\ Removes(node, head, new)
    BY <1>2, <1>4, <1>5, <1>7, Zenon DEF Adds, Removes, TopKnown, Searching, Changing, SameCall
  <2>3. Reads(node, new) /\ Grows(node, new)
    BY <1>4, <1>7, Zenon DEF Reads, Grows
  <2>4. Holding(new) = Holding(me)
    BY <1>2, <1>4, <1>7, Zenon DEF Holding, Searching, Changing, SameCall
  <2>5. Shape(new)
    BY <1>1, <1>4, <1>7, Zenon DEF Shape, Points, SameCall
  <2> QED
    BY <1>2, <2>1, <2>2, <2>3, <2>4, <2>5, LocalStep, Zenon DEF Knows
<1> QED
  BY <1>3, <1>6, <1>7, Zenon

\* The wait is over.
LEMMA AddAwaitStep ==
    ASSUME Inv, NEW t \in Threads, AddAwait(t)
    PROVE Inv'
<1>1. Return(t, FALSE, <<>>) /\ UNCHANGED <<node, head>> /\ th[t].pc = "await"
  BY Zenon DEF AddAwait, list
<1>2. Holding(th[t]) = {}
  BY <1>1, Zenon DEF Holding, Searching, Changing
<1> QED
  BY <1>1, <1>2, ReturnStep, Zenon

\* remove has searched: it locks, gives up, or goes to mark the node it found.
LEMMA RemoveFoundStep ==
    ASSUME Inv, NEW t \in Threads, RemoveFound(t)
    PROVE Inv'
<1> DEFINE me == th[t]
           lock == [me EXCEPT !.pc = "lock", !.layer = 0]
           mark == [me EXCEPT !.pc = "mark"]
<1>1. Shape(me) /\ Knows(node, head, me) /\ IsNodes(node)
  BY Mine, Zenon
<1>2. UNCHANGED <<node, head>> /\ me.pc = "searched" /\ me.op = "remove"
  BY Zenon DEF RemoveFound, list
<1>3. IF me.mine # Nil THEN Goes(t, lock)
      ELSE IF me.at = -1 \/ ~OkToDelete(me.succs[me.at], me.at) THEN Return(t, FALSE, <<>>)
      ELSE Goes(t, mark)
  BY Zenon DEF RemoveFound
<1>4. /\ me.key \in Nat \ {0} /\ TrailOf(node, me, 0) /\ me.top \in Layers
      /\ me.top < node[head].height
  BY <1>1, <1>2, Zenon DEF Knows, Writes, Searching
<1>5. CASE me.mine # Nil
  <2>1. /\ SameCall(me, lock) /\ lock.pc = "lock" /\ lock.top = me.top /\ lock.at = me.at
        /\ lock.preds = me.preds /\ lock.succs = me.succs /\ lock.layer = 0
    BY <1>1, Zenon DEF Shape, LocalFields, SameCall
  <2>2. Goes(t, lock)
    BY <1>3, <1>5, Zenon
  <2> HIDE DEF lock
  <2>3. /\ IsOf(node, me.mine, me.key, me.height) /\ me.height <= node[head].height
        /\ me.height <= me.top + 1
    BY <1>1, <1>2, <1>5, Zenon DEF Knows, Removes, TopKnown, Searching
  <2>4. me.height \in 1 .. me.top + 1 /\ 0 \in 0 .. me.height - 1
    BY <1>1, <1>4, <2>3, NodeIs, HeightAssumption DEF IsOf, Layers
  <2>5. Writes(node, head, lock)
    BY <1>2, <1>4, <2>1, <2>4, Zenon DEF Writes, TrailOf, Searching, Changing, SameCall
  <2>6. Adds(node, lock) /\ Removes(node, head, lock)
    BY <1>2, <1>5, <2>1, <2>3, Zenon
       DEF Adds, Removes, TopKnown, Searching, Changing, SameCall
  <2>7. Reads(node, lock) /\ Grows(node, lock)
    BY <2>1, Zenon DEF Reads, Grows
  <2>8. Shape(lock)
    BY <1>1, <2>1, Zenon DEF Shape, Points, SameCall
  <2>9. Holding(lock) = Holding(me)
    <3>1. {lock.preds[l] : l \in 0 .. lock.layer - 1} = {}
      <4>1. 0 .. lock.layer - 1 = {}
        BY <2>1
      <4> QED
        BY <4>1, Zenon
    <3>2. Holding(lock) = {me.mine}
      BY <1>2, <1>5, <2>1, <3>1, Zenon DEF Holding, Searching, Changing, SameCall
    <3>3. Holding(me) = {me.mine}
      BY <1>2, <1>5, Zenon DEF Holding, Searching, Changing
    <3> QED
      BY <3>2, <3>3, Zenon
  <2> QED
    BY <1>2, <2>2, <2>5, <2>6, <2>7, <2>8, <2>9, LocalStep, Zenon DEF Knows
<1>6. CASE me.mine = Nil /\ Return(t, FALSE, <<>>)
  <2>1. Holding(me) = {}
    BY <1>2, <1>6, Zenon DEF Holding, Searching, Changing
  <2> QED
    BY <1>2, <1>6, <2>1, ReturnStep, Zenon
<1>7. CASE me.mine = Nil /\ me.at # -1 /\ OkToDelete(me.succs[me.at], me.at) /\ Goes(t, mark)
  <2>1. /\ SameCall(me, mark) /\ mark.pc = "mark" /\ mark.top = me.top /\ mark.at = me.at
        /\ mark.preds = me.preds /\ mark.succs = me.succs
    BY <1>1, Zenon DEF Shape, LocalFields, SameCall
  <2> HIDE DEF mark
  <2>2. Writes(node, head, mark)
    BY <1>2, <1>4, <2>1, Zenon DEF Writes, TrailOf, Searching, Changing, SameCall
  <2>3. Adds(node, mark) /\ Removes(node, head, mark)
    BY <1>2, <1>7, <2>1, Zenon
       DEF Adds, Removes, TopKnown, Searching, Changing, SameCall, OkToDelete
  <2>4. Reads(node, mark) /\ Grows(node, mark)
    BY <2>1, Zenon DEF Reads, Grows
  <2>5. Shape(mark)
    BY <1>1, <2>1, Zenon DEF Shape, Points, SameCall
  <2>6. Holding(mark) = {} /\ Holding(me) = {}
    BY <1>2, <1>7, <2>1, Zenon DEF Holding, Searching, Changing, SameCall
  <2> QED
    BY <1>2, <1>7, <2>2, <2>3, <2>4, <2>5, <2>6, LocalStep, Zenon DEF Knows
<1> QED
  BY <1>3, <1>5, <1>6, <1>7, Zenon

\* Is the list too long for its height?
LEMMA CheckLimitStep ==
    ASSUME Inv, NEW t \in Threads, CheckLimit(t)
    PROVE Inv'
<1> DEFINE me == th[t]
           hgt == node[head].height
           new == [me EXCEPT !.pc = "grow", !.height = hgt + 1]
<1>1. Shape(me) /\ Knows(node, head, me) /\ IsNodes(node) /\ IsHead(node, head)
  BY Mine, Zenon
<1>2. UNCHANGED <<node, head>> /\ me.pc = "limit"
  BY Zenon DEF CheckLimit, list
<1>3. (hgt < MaxHeight /\ Goes(t, new)) \/ Return(t, TRUE, <<>>)
  BY Zenon DEF CheckLimit
<1>4. Holding(me) = {}
  BY <1>2, Zenon DEF Holding, Searching, Changing
<1>5. CASE hgt < MaxHeight /\ Goes(t, new)
  <2>1. /\ DOMAIN new = LocalFields /\ new.pc = "grow" /\ new.height = hgt + 1
        /\ new.op = me.op /\ new.preds = me.preds /\ new.succs = me.succs
    BY <1>1, Zenon DEF Shape, LocalFields
  <2> HIDE DEF new
  <2>2. hgt + 1 \in 1 .. MaxHeight
    <3>1. hgt \in Nat
      BY <1>1, NodeIs, Zenon DEF IsHead
    <3> QED
      BY <1>5, <3>1, HeightAssumption
  <2>3. Grows(node, new)
    BY <1>1, <1>2, <2>1, <2>2, Zenon DEF Knows, Grows
  <2>4. Reads(node, new) /\ Writes(node, head, new)
    BY <2>1, Zenon DEF Reads, Writes, Searching, Changing
  <2>5. Adds(node, new) /\ Removes(node, head, new)
    BY <2>1, Zenon DEF Adds, Removes, TopKnown, Searching, Changing
  <2>6. Shape(new) /\ Holding(new) = {}
    BY <1>1, <2>1, Zenon DEF Shape, Points, Holding, Searching, Changing
  <2> QED
    BY <1>2, <1>4, <1>5, <2>3, <2>4, <2>5, <2>6, LocalStep, Zenon DEF Knows
<1>6. CASE Return(t, TRUE, <<>>)
  BY <1>2, <1>4, <1>6, ReturnStep, Zenon
<1> QED
  BY <1>3, <1>5, <1>6, Zenon

\* growHeight looks at the head.
LEMMA GrowHeightStep ==
    ASSUME Inv, NEW t \in Threads, GrowHeight(t)
    PROVE Inv'
<1> DEFINE me == th[t]
           new == [me EXCEPT !.pc = "copy", !.pred = head]
<1>1. Shape(me) /\ Knows(node, head, me) /\ IsNodes(node) /\ IsHead(node, head)
  BY Mine, Zenon
<1>2. UNCHANGED <<node, head>> /\ me.pc = "grow"
  BY Zenon DEF GrowHeight, list
<1>3. (~(node[head].height >= me.height) /\ Goes(t, new)) \/ Return(t, TRUE, <<>>)
  BY Zenon DEF GrowHeight
<1>4. Holding(me) = {}
  BY <1>2, Zenon DEF Holding, Searching, Changing
<1>5. CASE ~(node[head].height >= me.height) /\ Goes(t, new)
  <2>1. /\ DOMAIN new = LocalFields /\ new.pc = "copy" /\ new.height = me.height
        /\ new.op = me.op /\ new.pred = head /\ new.preds = me.preds /\ new.succs = me.succs
    BY <1>1, Zenon DEF Shape, LocalFields
  <2> HIDE DEF new
  <2>2. node[head].height < me.height /\ me.height \in 1 .. MaxHeight
    <3>1. node[head].height \in Nat
      BY <1>1, NodeIs, Zenon DEF IsHead
    <3>2. me.height \in 1 .. MaxHeight
      BY <1>1, <1>2, Zenon DEF Knows, Grows
    <3> QED
      BY <1>5, <3>1, <3>2, HeightAssumption
  <2>3. Grows(node, new)
    BY <1>1, <1>2, <2>1, <2>2, Zenon DEF Knows, Grows
  <2>4. Reads(node, new) /\ Writes(node, head, new)
    BY <2>1, Zenon DEF Reads, Writes, Searching, Changing
  <2>5. Adds(node, new) /\ Removes(node, head, new)
    BY <2>1, Zenon DEF Adds, Removes, TopKnown, Searching, Changing
  <2>6. Shape(new) /\ Holding(new) = {}
    BY <1>1, <2>1, Zenon DEF Shape, Points, Holding, Searching, Changing
  <2> QED
    BY <1>2, <1>4, <1>5, <2>3, <2>4, <2>5, <2>6, LocalStep, Zenon DEF Knows
<1>6. CASE Return(t, TRUE, <<>>)
  BY <1>2, <1>4, <1>6, ReturnStep, Zenon
<1> QED
  BY <1>3, <1>5, <1>6, Zenon

-----------------------------------------------------------------------------
(* Steps that change flags and locks *)

\* Only locks and flags change.
Flags(N, M) ==
    /\ M = [n \in DOMAIN N |-> M[n]]
    /\ \A n \in DOMAIN N : /\ DOMAIN M[n] = NodeFields
                           /\ M[n].key = N[n].key /\ M[n].height = N[n].height
                           /\ M[n].skip = N[n].skip

\* The nodes stay in order when only locks and flags change.
LEMMA FlagsKeep ==
    ASSUME NEW N, IsNodes(N), NEW M, Flags(N, M)
    PROVE /\ IsNodes(M) /\ Grown(N, M) /\ DOMAIN M = DOMAIN N
          /\ \A h : IsHead(N, h) => IsHead(M, h) /\ Taller(N, h, M, h)
<1>1. Len(N) \in Nat /\ DOMAIN N = 1 .. Len(N)
  BY SeqDomain, Zenon DEF IsNodes
<1>2. DOMAIN M = DOMAIN N /\ M = [i \in 1 .. Len(N) |-> M[i]]
  <2>1. M = [n \in DOMAIN N |-> M[n]]
    BY Zenon DEF Flags
  <2> QED
    BY <1>1, <2>1, Zenon
<1>3. IsSeq(M)
  BY <1>1, <1>2, FunctionIsSeq, Zenon
<1>4. Grown(N, M)
  BY <1>2, Zenon DEF Grown, Flags
<1>5. ASSUME NEW n \in DOMAIN N PROVE IsNode(M, n)
  <2>1. IsNode(N, n) /\ M[n].key = N[n].key /\ M[n].height = N[n].height /\ M[n].skip = N[n].skip
        /\ DOMAIN M[n] = NodeFields
    BY Zenon DEF IsNodes, Flags
  <2>2. \A l \in 0 .. N[n].height - 1 : Link(M, n, l)
    BY <1>2, <2>1, <1>4, Zenon DEF IsNode, Link, Grown
  <2> QED
    BY <2>1, <2>2, Zenon DEF IsNode
<1>6. IsNodes(M)
  BY <1>2, <1>3, <1>5, Zenon DEF IsNodes
<1>7. ASSUME NEW h, IsHead(N, h) PROVE IsHead(M, h) /\ Taller(N, h, M, h)
  <2>1. IsHead(M, h) /\ M[h].height = N[h].height
    BY <1>2, <1>4, <1>7, Zenon DEF IsHead, Grown
  <2> QED
    BY <1>7, <2>1, HeadIsTall, Zenon DEF Taller
<1> QED
  BY <1>2, <1>4, <1>6, <1>7, Zenon

\* A step of t that changes flags and its locks.
LEMMA FlagStep ==
    ASSUME Inv, NEW t \in Threads, NEW new, Goes(t, new), head' = head,
           Flags(node, node'), OnlyLocks(node, node', t),
           Shape(new), Knows(node, head, new), LocksOf(node', t) = Holding(new)
    PROVE Inv'
<1>1. IsNodes(node) /\ IsHead(node, head)
  BY Mine, Zenon
<1>2. /\ IsNodes(node') /\ Grown(node, node') /\ IsHead(node', head)
      /\ Taller(node, head, node', head)
  BY <1>1, FlagsKeep, Zenon
<1>3. Knows(node', head, new)
  BY <1>1, <1>2, KnowsKept, Zenon
<1> QED
  BY <1>2, <1>3, StepInv, Zenon

\* What a step does to a node, and the fields it sets.
Locked(N, M, n, x) == M = [N EXCEPT ![n].lock = x]
LockedAndMarked(N, M, n, x) == M = [N EXCEPT ![n].lock = x, ![n].marked = TRUE]
FullyLinked(N, M, n) == M = [N EXCEPT ![n].linked = TRUE]
Marked(N, M, n) == M = [N EXCEPT ![n].marked = TRUE]
Dead(N, M, n) == M = [N EXCEPT ![n].dead = TRUE]

HasLock(M, n, x) == M[n].lock = x
HasMark(M, n) == M[n].marked = TRUE
IsLinked(M, n) == M[n].linked = TRUE
IsDead(M, n) == M[n].dead = TRUE
OnlyNode(N, M, n) == Flags(N, M) /\ \A m \in DOMAIN N : m # n => M[m] = N[m]
LocksKept(N, M) == \A n \in DOMAIN N : M[n].lock = N[n].lock
LinkedKept(N, M) == \A n \in DOMAIN N : M[n].linked = N[n].linked
MarksKept(N, M) == \A n \in DOMAIN N : M[n].marked = N[n].marked
DeadKept(N, M) == \A n \in DOMAIN N : M[n].dead = N[n].dead

\* A node is locked.
LEMMA SetLock ==
    ASSUME NEW N, IsNodes(N), NEW n \in DOMAIN N, NEW x, NEW M, Locked(N, M, n, x)
    PROVE OnlyNode(N, M, n) /\ HasLock(M, n, x) /\ LinkedKept(N, M) /\ MarksKept(N, M) /\ DeadKept(N, M)
<1>1. \A m \in DOMAIN N : DOMAIN N[m] = NodeFields
  BY Zenon DEF IsNodes, IsNode
<1>2. DOMAIN M = DOMAIN N /\ M = [m \in DOMAIN N |-> M[m]]
  BY Zenon DEF Locked
<1>3. \A m \in DOMAIN N : m # n => M[m] = N[m]
  BY Zenon DEF Locked
<1>4. M[n] = [N[n] EXCEPT !.lock = x]
  BY Zenon DEF Locked
<1>5. /\ DOMAIN M[n] = NodeFields /\ M[n].lock = x
      /\ M[n].key = N[n].key /\ M[n].height = N[n].height /\ M[n].skip = N[n].skip
      /\ M[n].linked = N[n].linked /\ M[n].marked = N[n].marked /\ M[n].dead = N[n].dead
  BY <1>1, <1>4, Zenon DEF NodeFields
<1>6. OnlyNode(N, M, n)
  BY <1>1, <1>2, <1>3, <1>5, Zenon DEF Flags, OnlyNode
<1>7. LinkedKept(N, M) /\ MarksKept(N, M) /\ DeadKept(N, M)
  BY <1>3, <1>5, Zenon DEF LocksKept, LinkedKept, MarksKept, DeadKept
<1> QED
  BY <1>5, <1>6, <1>7, Zenon DEF HasLock, HasMark, IsLinked, IsDead

\* A node is locked and marked.
LEMMA SetLockAndMark ==
    ASSUME NEW N, IsNodes(N), NEW n \in DOMAIN N, NEW x, NEW M, LockedAndMarked(N, M, n, x)
    PROVE OnlyNode(N, M, n) /\ HasLock(M, n, x) /\ HasMark(M, n) /\ LinkedKept(N, M) /\ DeadKept(N, M)
<1>1. \A m \in DOMAIN N : DOMAIN N[m] = NodeFields
  BY Zenon DEF IsNodes, IsNode
<1>2. DOMAIN M = DOMAIN N /\ M = [m \in DOMAIN N |-> M[m]]
  BY Zenon DEF LockedAndMarked
<1>3. \A m \in DOMAIN N : m # n => M[m] = N[m]
  BY Zenon DEF LockedAndMarked
<1>4. M[n] = [[N[n] EXCEPT !.lock = x] EXCEPT !.marked = TRUE]
  BY Zenon DEF LockedAndMarked
<1>5. /\ DOMAIN M[n] = NodeFields /\ M[n].lock = x /\ M[n].marked = TRUE
      /\ M[n].key = N[n].key /\ M[n].height = N[n].height /\ M[n].skip = N[n].skip
      /\ M[n].linked = N[n].linked /\ M[n].dead = N[n].dead
  BY <1>1, <1>4, Zenon DEF NodeFields
<1>6. OnlyNode(N, M, n)
  BY <1>1, <1>2, <1>3, <1>5, Zenon DEF Flags, OnlyNode
<1>7. LinkedKept(N, M) /\ DeadKept(N, M)
  BY <1>3, <1>5, Zenon DEF LocksKept, LinkedKept, MarksKept, DeadKept
<1> QED
  BY <1>5, <1>6, <1>7, Zenon DEF HasLock, HasMark, IsLinked, IsDead

\* A node is fully linked.
LEMMA SetLinked ==
    ASSUME NEW N, IsNodes(N), NEW n \in DOMAIN N, NEW M, FullyLinked(N, M, n)
    PROVE OnlyNode(N, M, n) /\ IsLinked(M, n) /\ LocksKept(N, M) /\ MarksKept(N, M) /\ DeadKept(N, M)
<1>1. \A m \in DOMAIN N : DOMAIN N[m] = NodeFields
  BY Zenon DEF IsNodes, IsNode
<1>2. DOMAIN M = DOMAIN N /\ M = [m \in DOMAIN N |-> M[m]]
  BY Zenon DEF FullyLinked
<1>3. \A m \in DOMAIN N : m # n => M[m] = N[m]
  BY Zenon DEF FullyLinked
<1>4. M[n] = [N[n] EXCEPT !.linked = TRUE]
  BY Zenon DEF FullyLinked
<1>5. /\ DOMAIN M[n] = NodeFields /\ M[n].linked = TRUE
      /\ M[n].key = N[n].key /\ M[n].height = N[n].height /\ M[n].skip = N[n].skip
      /\ M[n].lock = N[n].lock /\ M[n].marked = N[n].marked /\ M[n].dead = N[n].dead
  BY <1>1, <1>4, Zenon DEF NodeFields
<1>6. OnlyNode(N, M, n)
  BY <1>1, <1>2, <1>3, <1>5, Zenon DEF Flags, OnlyNode
<1>7. LocksKept(N, M) /\ MarksKept(N, M) /\ DeadKept(N, M)
  BY <1>3, <1>5, Zenon DEF LocksKept, LinkedKept, MarksKept, DeadKept
<1> QED
  BY <1>5, <1>6, <1>7, Zenon DEF HasLock, HasMark, IsLinked, IsDead

\* A node is marked.
LEMMA SetMarked ==
    ASSUME NEW N, IsNodes(N), NEW n \in DOMAIN N, NEW M, Marked(N, M, n)
    PROVE OnlyNode(N, M, n) /\ HasMark(M, n) /\ LocksKept(N, M) /\ LinkedKept(N, M) /\ DeadKept(N, M)
<1>1. \A m \in DOMAIN N : DOMAIN N[m] = NodeFields
  BY Zenon DEF IsNodes, IsNode
<1>2. DOMAIN M = DOMAIN N /\ M = [m \in DOMAIN N |-> M[m]]
  BY Zenon DEF Marked
<1>3. \A m \in DOMAIN N : m # n => M[m] = N[m]
  BY Zenon DEF Marked
<1>4. M[n] = [N[n] EXCEPT !.marked = TRUE]
  BY Zenon DEF Marked
<1>5. /\ DOMAIN M[n] = NodeFields /\ M[n].marked = TRUE
      /\ M[n].key = N[n].key /\ M[n].height = N[n].height /\ M[n].skip = N[n].skip
      /\ M[n].lock = N[n].lock /\ M[n].linked = N[n].linked /\ M[n].dead = N[n].dead
  BY <1>1, <1>4, Zenon DEF NodeFields
<1>6. OnlyNode(N, M, n)
  BY <1>1, <1>2, <1>3, <1>5, Zenon DEF Flags, OnlyNode
<1>7. LocksKept(N, M) /\ LinkedKept(N, M) /\ DeadKept(N, M)
  BY <1>3, <1>5, Zenon DEF LocksKept, LinkedKept, MarksKept, DeadKept
<1> QED
  BY <1>5, <1>6, <1>7, Zenon DEF HasLock, HasMark, IsLinked, IsDead

\* A node is destroyed.
LEMMA SetDead ==
    ASSUME NEW N, IsNodes(N), NEW n \in DOMAIN N, NEW M, Dead(N, M, n)
    PROVE OnlyNode(N, M, n) /\ IsDead(M, n) /\ LocksKept(N, M) /\ LinkedKept(N, M) /\ MarksKept(N, M)
<1>1. \A m \in DOMAIN N : DOMAIN N[m] = NodeFields
  BY Zenon DEF IsNodes, IsNode
<1>2. DOMAIN M = DOMAIN N /\ M = [m \in DOMAIN N |-> M[m]]
  BY Zenon DEF Dead
<1>3. \A m \in DOMAIN N : m # n => M[m] = N[m]
  BY Zenon DEF Dead
<1>4. M[n] = [N[n] EXCEPT !.dead = TRUE]
  BY Zenon DEF Dead
<1>5. /\ DOMAIN M[n] = NodeFields /\ M[n].dead = TRUE
      /\ M[n].key = N[n].key /\ M[n].height = N[n].height /\ M[n].skip = N[n].skip
      /\ M[n].lock = N[n].lock /\ M[n].linked = N[n].linked /\ M[n].marked = N[n].marked
  BY <1>1, <1>4, Zenon DEF NodeFields
<1>6. OnlyNode(N, M, n)
  BY <1>1, <1>2, <1>3, <1>5, Zenon DEF Flags, OnlyNode
<1>7. LocksKept(N, M) /\ LinkedKept(N, M) /\ MarksKept(N, M)
  BY <1>3, <1>5, Zenon DEF LocksKept, LinkedKept, MarksKept, DeadKept
<1> QED
  BY <1>5, <1>6, <1>7, Zenon DEF HasLock, HasMark, IsLinked, IsDead

\* A thread gives its locks up.
LEMMA Release ==
    ASSUME NEW N, \A n \in DOMAIN N : DOMAIN N[n] = NodeFields, NEW t \in Threads, NEW keep,
           NEW M, M = Released(N, t, keep)
    PROVE /\ Flags(N, M) /\ OnlyLocks(N, M, t)
          /\ LocksOf(M, t) = LocksOf(N, t) \cap {keep}
          /\ LinkedKept(N, M) /\ MarksKept(N, M) /\ DeadKept(N, M)
<1>1. DOMAIN M = DOMAIN N /\ M = [n \in DOMAIN N |-> M[n]]
  BY Zenon DEF Released
<1>2. \A n \in DOMAIN N : M[n] = IF N[n].lock = t /\ n # keep THEN [N[n] EXCEPT !.lock = NoOne]
                                 ELSE N[n]
  BY Zenon DEF Released
<1>3. ASSUME NEW n \in DOMAIN N
      PROVE /\ DOMAIN M[n] = NodeFields
            /\ M[n].key = N[n].key /\ M[n].height = N[n].height /\ M[n].skip = N[n].skip
            /\ M[n].linked = N[n].linked /\ M[n].marked = N[n].marked /\ M[n].dead = N[n].dead
            /\ M[n].lock = IF N[n].lock = t /\ n # keep THEN NoOne ELSE N[n].lock
  <2>1. CASE N[n].lock = t /\ n # keep
    <3>1. M[n] = [N[n] EXCEPT !.lock = NoOne] /\ DOMAIN N[n] = NodeFields
      BY <1>2, <2>1, Zenon
    <3> QED
      BY <2>1, <3>1, Zenon DEF NodeFields
  <2>2. CASE ~(N[n].lock = t /\ n # keep)
    <3>1. M[n] = N[n]
      BY <1>2, <2>2, Zenon
    <3> QED
      BY <2>2, <3>1, Zenon
  <2> QED
    BY <2>1, <2>2, Zenon
<1>4. Flags(N, M)
  BY <1>1, <1>3, Zenon DEF Flags
<1>5. OnlyLocks(N, M, t)
  BY <1>1, <1>3, Zenon DEF OnlyLocks
<1>6. LocksOf(M, t) = LocksOf(N, t) \cap {keep}
  BY <1>1, <1>3, NoOneAssumption, Zenon DEF LocksOf
<1>7. LinkedKept(N, M) /\ MarksKept(N, M) /\ DeadKept(N, M)
  BY <1>3, Zenon DEF LocksKept, LinkedKept, MarksKept, DeadKept
<1> QED
  BY <1>4, <1>5, <1>6, <1>7, Zenon

\* What remove and add know of the nodes they lock: a trail from the bottom.
LEMMA LockTrail ==
    ASSUME NEW N, IsNodes(N), NEW k, NEW top \in Layers, NEW at, NEW preds, NEW succs,
           Trail(N, k, top, at, preds, succs, 0), NEW h \in 1 .. top + 1
    PROVE \A l \in 0 .. h - 1 : /\ preds[l] \in DOMAIN N /\ l < N[preds[l]].height
                                /\ l \in 0 .. N[preds[l]].height - 1
                                /\ N[preds[l]].key < k /\ l \in 0 .. top
<1>1. \A l \in 0 .. h - 1 : l \in 0 .. top
  BY HeightAssumption DEF Layers
<1>2. \A l \in 0 .. h - 1 : preds[l] \in DOMAIN N /\ l < N[preds[l]].height /\ N[preds[l]].key < k
  BY <1>1, Zenon DEF Trail, Found
<1>3. \A l \in 0 .. h - 1 : N[preds[l]].height \in Nat
  BY <1>2, NodeIs, Zenon
<1>4. \A l \in 0 .. h - 1 : l \in 0 .. N[preds[l]].height - 1
  BY <1>2, <1>3
<1> QED
  BY <1>1, <1>2, <1>4, Zenon

\* remove locks the node and marks it.
LEMMA RemoveMarkStep ==
    ASSUME Inv, NEW t \in Threads, RemoveMark(t)
    PROVE Inv'
<1> DEFINE me == th[t]
           n == me.succs[me.at]
           new == [me EXCEPT !.pc = "lock", !.layer = 0, !.mine = n, !.pred = Nil,
                             !.height = node[n].height]
<1>1. /\ Shape(me) /\ Knows(node, head, me) /\ IsNodes(node) /\ IsHead(node, head)
      /\ LocksOf(node, t) = Holding(me)
  BY Mine, Zenon
<1>2. head' = head /\ me.pc = "mark" /\ node[n].lock = NoOne
  BY Zenon DEF RemoveMark
<1>3. Holding(me) = {}
  BY <1>2, Zenon DEF Holding, Searching, Changing
<1>4. CASE Return(t, FALSE, <<>>) /\ UNCHANGED node
  BY <1>2, <1>3, <1>4, ReturnStep, Zenon
<1>5. CASE Goes(t, new) /\ LockedAndMarked(node, node', n, t)
  <2>1. /\ me.op = "remove" /\ me.at # -1 /\ me.mine = Nil /\ node[n].height - 1 = me.at
        /\ TrailOf(node, me, 0) /\ me.key \in Nat \ {0} /\ me.top \in Layers
        /\ me.top < node[head].height
    BY <1>1, <1>2, Zenon DEF Knows, Writes, Removes, Searching
  <2>2. /\ DOMAIN new = LocalFields /\ new.pc = "lock" /\ new.layer = 0 /\ new.mine = n
        /\ new.height = node[n].height /\ new.op = me.op /\ new.key = me.key
        /\ new.top = me.top /\ new.at = me.at /\ new.preds = me.preds /\ new.succs = me.succs
    BY <1>1, Zenon DEF Shape, LocalFields
  <2>3. n \in DOMAIN node /\ n # Nil /\ node[n].key = me.key /\ me.at \in 0 .. me.top
    BY <2>1, Zenon DEF TrailOf, Trail, Found
  <2> HIDE DEF new, n
  <2>4. Flags(node, node') /\ node'[n].lock = t /\ \A m \in DOMAIN node : m # n => node'[m] = node[m]
    <3>1. OnlyNode(node, node', n) /\ HasLock(node', n, t)
      BY <1>1, <1>5, <2>3, SetLockAndMark, Zenon
    <3> QED
      BY <3>1, Zenon DEF OnlyNode, HasLock
  <2>5. DOMAIN node' = DOMAIN node
    BY <1>1, <2>4, FlagsKeep, Zenon
  <2>6. OnlyLocks(node, node', t)
    BY <1>2, <2>4, <2>5, Zenon DEF OnlyLocks, n
  <2>7. LocksOf(node', t) = {n}
    BY <1>1, <1>3, <2>3, <2>4, <2>5, Zenon DEF LocksOf
  <2>8. /\ node[n].height \in 1 .. me.top + 1 /\ 0 \in 0 .. node[n].height - 1
        /\ node[n].height <= node[head].height
    <3>1. node[n].height \in Nat /\ node[n].height >= 1 /\ node[head].height \in Nat
      BY <1>1, <2>3, NodeIs, Zenon DEF IsHead
    <3> QED
      BY <2>1, <2>3, <3>1, HeightAssumption DEF Layers
  <2>9. Writes(node, head, new)
    BY <2>1, <2>2, <2>8, Zenon DEF Writes, TrailOf, Searching, Changing
  <2>10. IsOf(node, n, me.key, node[n].height)
    BY <2>3, Zenon DEF IsOf
  <2>11. Adds(node, new) /\ Removes(node, head, new)
    BY <2>1, <2>2, <2>3, <2>8, <2>10, Zenon DEF Adds, Removes, TopKnown, Searching, Changing
  <2>12. Reads(node, new) /\ Grows(node, new)
    BY <2>2, Zenon DEF Reads, Grows
  <2>13. Shape(new)
    BY <1>1, <2>2, Zenon DEF Shape, Points
  <2>14. Holding(new) = {n}
    <3>1. 0 .. new.layer - 1 = {}
      BY <2>2
    <3>2. {new.preds[l] : l \in 0 .. new.layer - 1} = {}
      BY <3>1, Zenon
    <3> QED
      BY <2>1, <2>2, <2>3, <3>2, Zenon DEF Holding, Searching, Changing
  <2> QED
    BY <1>2, <1>5, <2>4, <2>6, <2>7, <2>9, <2>11, <2>12, <2>13, <2>14, FlagStep, Zenon DEF Knows
<1> QED
  BY <1>4, <1>5, Zenon DEF RemoveMark, LockedAndMarked

\* lockNodesForChange locks the predecessor on one layer, or gives up.
LEMMA LockNodesStep ==
    ASSUME Inv, NEW t \in Threads, LockNodesForChange(t)
    PROVE Inv'
<1> DEFINE me == th[t]
           p == me.preds[me.layer]
           last == me.layer = me.height - 1
           pc == IF last THEN "change" ELSE "lock"
           layer == IF ~last THEN me.layer + 1 ELSE IF me.op = "add" THEN 0 ELSE me.layer
           new == [me EXCEPT !.pc = pc, !.layer = layer]
           again == [me EXCEPT !.pc = "max"]
           low == {me.preds[l] : l \in 0 .. me.layer - 1}
           own == IF me.op = "remove" THEN {me.mine} ELSE {}
<1>1. /\ Shape(me) /\ Knows(node, head, me) /\ IsNodes(node) /\ IsHead(node, head)
      /\ LocksOf(node, t) = Holding(me)
  BY Mine, Zenon
<1>2. head' = head /\ me.pc = "lock"
  BY Zenon DEF LockNodesForChange
<1>3. me.layer = 0 \/ p # me.preds[me.layer - 1] => node[p].lock = NoOne
  BY Zenon DEF LockNodesForChange
<1>4. \/ Locked(node, node', p, t) /\ Goes(t, new)
      \/ node' = Released(node, t, me.mine) /\ Goes(t, again)
  BY Zenon DEF LockNodesForChange, Locked
<1>5. /\ me.op \in {"add", "remove"} /\ me.key \in Nat \ {0} /\ me.top \in Layers
      /\ me.top < node[head].height /\ TrailOf(node, me, 0) /\ me.height \in 1 .. me.top + 1
      /\ me.layer \in 0 .. me.height - 1
      /\ me.op = "add" => me.mine = Nil /\ me.at = -1
      /\ me.op = "remove" => /\ me.mine # Nil /\ IsOf(node, me.mine, me.key, me.height)
                             /\ me.height <= node[head].height
  BY <1>1, <1>2, Zenon DEF Knows, Writes, Adds, Removes, Searching, Changing
<1>6. LocksOf(node, t) = low \cup own
  BY <1>1, <1>2, <1>5, Zenon DEF Holding, Changing
<1>7. p \in DOMAIN node
  BY <1>1, <1>5, LockTrail, Zenon DEF TrailOf
<1>8. CASE Locked(node, node', p, t) /\ Goes(t, new)
  <2>1. /\ DOMAIN new = LocalFields /\ new.pc = pc /\ new.layer = layer /\ new.mine = me.mine
        /\ new.height = me.height /\ new.op = me.op /\ new.key = me.key
        /\ new.top = me.top /\ new.at = me.at /\ new.preds = me.preds /\ new.succs = me.succs
    BY <1>1, Zenon DEF Shape, LocalFields
  <2> HIDE DEF new
  <2>2. Flags(node, node') /\ node'[p].lock = t /\ \A m \in DOMAIN node : m # p => node'[m] = node[m]
    <3>1. OnlyNode(node, node', p) /\ HasLock(node', p, t)
      BY <1>1, <1>7, <1>8, SetLock, Zenon
    <3> QED
      BY <3>1, Zenon DEF OnlyNode, HasLock
  <2>3. DOMAIN node' = DOMAIN node
    BY <1>1, <2>2, FlagsKeep, Zenon
  <2>4. node[p].lock \in {NoOne, t}
    <3>1. CASE me.layer # 0 /\ p = me.preds[me.layer - 1]
      <4>1. me.layer - 1 \in 0 .. me.layer - 1
        BY <1>5, <3>1
      <4>2. p \in LocksOf(node, t)
        BY <1>6, <3>1, <4>1, Zenon
      <4> QED
        BY <4>2, Zenon DEF LocksOf
    <3> QED
      BY <1>3, <3>1, Zenon
  <2>5. OnlyLocks(node, node', t)
    BY <2>2, <2>3, <2>4, Zenon DEF OnlyLocks
  <2>6. LocksOf(node', t) = LocksOf(node, t) \cup {p}
    BY <1>7, <2>2, <2>3, Zenon DEF LocksOf
  <2>7. {me.preds[l] : l \in 0 .. me.layer} = low \cup {p}
    <3>1. 0 .. me.layer = (0 .. me.layer - 1) \cup {me.layer}
      BY <1>5
    <3> QED
      BY <3>1, Zenon
  <2>8. Shape(new)
    BY <1>1, <2>1, Zenon DEF Shape, Points
  <2>9. Reads(node, new) /\ Grows(node, new)
    BY <2>1, Zenon DEF Reads, Grows
  <2>10. CASE last
    <3>1. pc = "change" /\ layer \in 0 .. me.height - 1 /\ (me.op = "add" => layer = 0)
      BY <1>5, <2>10
    <3> HIDE DEF pc, layer
    <3>2. Writes(node, head, new)
      BY <1>5, <2>1, <3>1, Zenon DEF Writes, TrailOf, Searching, Changing
    <3>3. Adds(node, new)
      <4>1. new.op = "add" => ~(new.layer > 0)
        BY <2>1, <3>1
      <4> QED
        BY <1>5, <2>1, <3>1, <4>1, Zenon DEF Adds, Searching, Changing
    <3>4. Removes(node, head, new)
      BY <1>5, <2>1, <3>1, Zenon DEF Removes, TopKnown, Searching, Changing
    <3>5. Holding(new) = LocksOf(node', t)
      <4>1. {new.preds[l] : l \in 0 .. new.height - 1} = low \cup {p}
        <5>1. new.preds = me.preds /\ new.height - 1 = me.layer
          BY <2>1, <2>10, Zenon
        <5> HIDE DEF me, low, p
        <5> QED
          BY <2>7, <5>1
      <4>2. Holding(new) = (low \cup {p}) \cup own
        BY <1>5, <2>1, <3>1, <4>1, ZenonT(60) DEF Holding, Changing
      <4> QED
        BY <1>6, <2>6, <4>2, Zenon
    <3> QED
      BY <1>2, <1>8, <2>2, <2>5, <2>8, <2>9, <3>2, <3>3, <3>4, <3>5, FlagStep, ZenonT(60) DEF Knows
  <2>11. CASE ~last
    <3>1. pc = "lock" /\ layer = me.layer + 1 /\ me.layer + 1 \in 0 .. me.height - 1
          /\ (me.layer + 1) - 1 = me.layer
      BY <1>5, <2>11, HeightAssumption DEF Layers
    <3> HIDE DEF pc, layer
    <3>2. Writes(node, head, new)
      BY <1>5, <2>1, <3>1, Zenon DEF Writes, TrailOf, Searching, Changing
    <3>3. Adds(node, new)
      BY <1>5, <2>1, <3>1, Zenon DEF Adds, Searching, Changing
    <3>4. Removes(node, head, new)
      BY <1>5, <2>1, <3>1, Zenon DEF Removes, TopKnown, Searching, Changing
    <3>5. Holding(new) = LocksOf(node', t)
      <4>1. {new.preds[l] : l \in 0 .. new.layer - 1} = low \cup {p}
        <5>1. new.preds = me.preds /\ new.layer - 1 = me.layer
          BY <2>1, <3>1, Zenon
        <5> HIDE DEF me, low, p
        <5> QED
          BY <2>7, <5>1
      <4>2. Holding(new) = (low \cup {p}) \cup own
        BY <1>5, <2>1, <3>1, <4>1, Zenon DEF Holding, Changing
      <4> QED
        BY <1>6, <2>6, <4>2, Zenon
    <3> QED
      BY <1>2, <1>8, <2>2, <2>5, <2>8, <2>9, <3>2, <3>3, <3>4, <3>5, FlagStep, Zenon DEF Knows
  <2> QED
    BY <2>10, <2>11, Zenon
<1>9. CASE node' = Released(node, t, me.mine) /\ Goes(t, again)
  <2>1. /\ DOMAIN again = LocalFields /\ again.pc = "max" /\ again.mine = me.mine
        /\ again.height = me.height /\ again.op = me.op /\ again.key = me.key
        /\ again.preds = me.preds /\ again.succs = me.succs
    BY <1>1, Zenon DEF Shape, LocalFields
  <2> HIDE DEF again
  <2>2. /\ Flags(node, node') /\ OnlyLocks(node, node', t)
        /\ LocksOf(node', t) = LocksOf(node, t) \cap {me.mine}
    <3>1. \A n \in DOMAIN node : DOMAIN node[n] = NodeFields
      BY <1>1, Zenon DEF IsNodes, IsNode
    <3> QED
      BY <1>9, <3>1, Release
  <2>3. LocksOf(node', t) = own
    <3>1. Nil \notin LocksOf(node, t)
      BY <1>1, Zenon DEF LocksOf, IsNodes
    <3> QED
      BY <1>5, <1>6, <2>2, <3>1, Zenon
  <2>4. Holding(again) = own
    BY <1>5, <2>1, Zenon DEF Holding, Searching, Changing
  <2>5. Shape(again)
    BY <1>1, <2>1, Zenon DEF Shape, Points
  <2>6. Reads(node, again) /\ Grows(node, again)
    BY <2>1, Zenon DEF Reads, Grows
  <2>7. Writes(node, head, again)
    BY <1>5, <2>1, Zenon DEF Writes, Searching, Changing
  <2>8. Adds(node, again) /\ Removes(node, head, again)
    BY <1>5, <2>1, Zenon DEF Adds, Removes, TopKnown, Searching, Changing
  <2> QED
    BY <1>2, <1>9, <2>2, <2>3, <2>4, <2>5, <2>6, <2>7, <2>8, FlagStep, Zenon DEF Knows
<1> QED
  BY <1>4, <1>8, <1>9, Zenon

HoldsSame(me, new) == Holding(new) = Holding(me)

\* While it makes its change, a thread holds the same locks.
LEMMA KeepsHolding ==
    ASSUME NEW me, NEW new, me.pc \in Changing, new.pc \in Changing, new.preds = me.preds,
           new.height = me.height, new.mine = me.mine, new.op = me.op
    PROVE HoldsSame(me, new)
<1> DEFINE own(x) == IF x.op = "remove" /\ x.mine # Nil THEN {x.mine} ELSE {}
           low(x) == {x.preds[l] : l \in 0 .. x.height - 1}
<1>1. ASSUME NEW x, x.pc \in Changing PROVE Holding(x) = low(x) \cup own(x)
  <2>1. x.pc # "lock" /\ x.pc \in Searching \cup {"lock", "recycle"} \cup Changing
    BY <1>1, Zenon DEF Changing
  <2>2. (CASE x.pc = "lock" -> {x.preds[l] : l \in 0 .. x.layer - 1}
           [] x.pc \in Changing -> low(x)
           [] x.pc = "swap" -> {x.pred}
           [] OTHER -> {}) = low(x)
    BY <1>1, Zenon DEF Changing
  <2> QED
    BY <2>1, <2>2, Zenon DEF Holding
<1>2. low(new) = low(me) /\ own(new) = own(me)
  BY Zenon
<1> HIDE DEF low, own
<1> QED
  BY <1>1, <1>2, Zenon DEF HoldsSame

\* A new node is fully linked.
LEMMA SetFullyLinkedStep ==
    ASSUME Inv, NEW t \in Threads, SetFullyLinked(t)
    PROVE Inv'
<1> DEFINE me == th[t]
           new == [me EXCEPT !.pc = "count"]
<1>1. /\ Shape(me) /\ Knows(node, head, me) /\ IsNodes(node) /\ LocksOf(node, t) = Holding(me)
  BY Mine, Zenon
<1>2. Goes(t, new) /\ head' = head /\ me.pc = "flag" /\ FullyLinked(node, node', me.mine)
  BY Zenon DEF SetFullyLinked, FullyLinked
<1>3. /\ DOMAIN new = LocalFields /\ new.pc = "count" /\ new.layer = me.layer /\ new.mine = me.mine
      /\ new.height = me.height /\ new.op = me.op /\ new.key = me.key
      /\ new.top = me.top /\ new.at = me.at /\ new.preds = me.preds /\ new.succs = me.succs
  BY <1>1, Zenon DEF Shape, LocalFields
<1> HIDE DEF new
<1>4. me.op = "add" /\ IsOf(node, me.mine, me.key, me.height) /\ me.at = -1
  BY <1>1, <1>2, Zenon DEF Knows, Adds, Removes, Searching, Changing
<1>5. OnlyNode(node, node', me.mine) /\ LocksKept(node, node') /\ MarksKept(node, node') /\ DeadKept(node, node')
  BY <1>1, <1>2, <1>4, SetLinked, Zenon DEF IsOf
<1>6. Flags(node, node') /\ \A n \in DOMAIN node : node'[n].lock = node[n].lock
  <2>1. Flags(node, node')
    BY <1>5, Zenon DEF OnlyNode
  <2>2. \A n \in DOMAIN node : node'[n].lock = node[n].lock
    BY <1>5 DEF LocksKept, LinkedKept, MarksKept, DeadKept
  <2> QED
    BY <2>1, <2>2, Zenon
<1>7. DOMAIN node' = DOMAIN node
  BY <1>1, <1>6, FlagsKeep, Zenon
<1>8. OnlyLocks(node, node', t) /\ LocksOf(node', t) = LocksOf(node, t)
  BY <1>6, <1>7, Zenon DEF OnlyLocks, LocksOf
<1>9. Holding(new) = Holding(me)
  <2>1. me.pc \in Changing /\ new.pc \in Changing
    BY <1>2, <1>3, Zenon DEF Changing
  <2>2. HoldsSame(me, new)
    BY <1>3, <2>1, KeepsHolding, Zenon
  <2> QED
    BY <2>2, Zenon DEF HoldsSame
<1>10. Shape(new)
  BY <1>1, <1>3, Zenon DEF Shape, Points
<1>11. Reads(node, new) /\ Grows(node, new)
  BY <1>3, Zenon DEF Reads, Grows
<1>12. Writes(node, head, new)
  BY <1>1, <1>2, <1>3, Zenon DEF Knows, Writes, TrailOf, Searching, Changing
<1>13. Adds(node, new) /\ Removes(node, head, new)
  BY <1>3, <1>4, Zenon DEF Adds, Removes, TopKnown, Searching, Changing
<1> QED
  BY <1>1, <1>2, <1>6, <1>8, <1>9, <1>10, <1>11, <1>12, <1>13, FlagStep, Zenon DEF Knows

\* A thread that gives up its locks and knows nothing of the nodes any more.
LEMMA RestStep ==
    ASSUME Inv, NEW t \in Threads, NEW new, Goes(t, new), head' = head, Flags(node, node'),
           OnlyLocks(node, node', t), LocksOf(node', t) = {}, DOMAIN new = LocalFields,
           new.preds = Idle.preds, new.succs = Idle.succs,
           new.pc \in Resting \/ (new.pc = "limit" /\ new.op = "add")
    PROVE Inv'
<1>1. Shape(new)
  BY IdleShape, Zenon DEF Shape, Resting, Points
<1>2. Knows(node, head, new) /\ Holding(new) = {}
  <2>1. CASE new.pc \in Resting
    BY <2>1, AtRest, Zenon
  <2>2. CASE new.pc = "limit" /\ new.op = "add"
    <3>1. Reads(node, new) /\ Grows(node, new) /\ Holding(new) = {}
      BY <2>2, Zenon DEF Reads, Grows, Holding, Searching, Changing
    <3>2. Writes(node, head, new) /\ Adds(node, new) /\ Removes(node, head, new)
      BY <2>2, Zenon DEF Writes, Adds, Removes, TopKnown, Searching, Changing
    <3> QED
      BY <3>1, <3>2, Zenon DEF Knows
  <2> QED
    BY <2>1, <2>2, Zenon
<1> QED
  BY <1>1, <1>2, FlagStep, Zenon

\* The fields of every node.
LEMMA AllFields ==
    ASSUME NEW N, IsNodes(N)
    PROVE \A n \in DOMAIN N : DOMAIN N[n] = NodeFields
BY Zenon DEF IsNodes, IsNode

\* A thread that gives up all its locks has none.
LEMMA ReleaseAll ==
    ASSUME NEW N, IsNodes(N), NEW t \in Threads, NEW M, M = Released(N, t, Nil)
    PROVE /\ Flags(N, M) /\ OnlyLocks(N, M, t) /\ LocksOf(M, t) = {}
          /\ LinkedKept(N, M) /\ MarksKept(N, M) /\ DeadKept(N, M)
<1>1. /\ Flags(N, M) /\ OnlyLocks(N, M, t) /\ LocksOf(M, t) = LocksOf(N, t) \cap {Nil}
      /\ LinkedKept(N, M) /\ MarksKept(N, M) /\ DeadKept(N, M)
  BY AllFields, Release
<1>2. Nil \notin LocksOf(N, t)
  BY Zenon DEF LocksOf, IsNodes
<1> QED
  BY <1>1, <1>2, Zenon

\* The locals of a call that returns.
LEMMA ReturnLocals ==
    ASSUME NEW t \in Threads, NEW r, NEW out, Return(t, r, out)
    PROVE \E new : /\ Goes(t, new) /\ DOMAIN new = LocalFields /\ new.pc = "release"
                   /\ new.preds = Idle.preds /\ new.succs = Idle.succs
                   /\ new = [Idle EXCEPT !.pc = "release", !.op = th[t].op, !.key = th[t].key,
                                         !.result = r, !.out = out]
<1> DEFINE new == [Idle EXCEPT !.pc = "release", !.op = th[t].op, !.key = th[t].key,
                               !.result = r, !.out = out]
<1>1. /\ DOMAIN new = LocalFields /\ new.pc = "release"
      /\ new.preds = Idle.preds /\ new.succs = Idle.succs
  BY AfreshShape
<1>2. Goes(t, new)
  BY Zenon DEF Return
<1> QED
  BY <1>1, <1>2, Zenon

\* addOrGetData counts the node and unlocks its predecessors.
LEMMA AddCountStep ==
    ASSUME Inv, NEW t \in Threads, AddCount(t)
    PROVE Inv'
<1> DEFINE new == [Idle EXCEPT !.pc = "limit", !.op = "add", !.key = th[t].key, !.size = size + 1]
<1>1. Goes(t, new) /\ head' = head /\ node' = Released(node, t, Nil)
  BY Zenon DEF AddCount
<1>2. /\ DOMAIN new = LocalFields /\ new.pc = "limit" /\ new.op = "add"
      /\ new.preds = Idle.preds /\ new.succs = Idle.succs
  BY IdleShape DEF LocalFields
<1> HIDE DEF new
<1>3. Flags(node, node') /\ OnlyLocks(node, node', t) /\ LocksOf(node', t) = {}
  BY <1>1, Mine, ReleaseAll
<1> QED
  BY <1>1, <1>2, <1>3, RestStep, Zenon

\* remove counts the node and unlocks its predecessors.
LEMMA RemoveCountStep ==
    ASSUME Inv, NEW t \in Threads, RemoveCount(t)
    PROVE Inv'
<1> DEFINE me == th[t]
           new == [Idle EXCEPT !.pc = "recycle", !.op = "remove", !.key = me.key, !.mine = me.mine]
<1>1. /\ Shape(me) /\ Knows(node, head, me) /\ IsNodes(node) /\ LocksOf(node, t) = Holding(me)
  BY Mine, Zenon
<1>2. /\ Goes(t, new) /\ head' = head /\ node' = Released(node, t, me.mine)
      /\ me.pc = "count" /\ me.op = "remove"
  BY Zenon DEF RemoveCount
<1>3. /\ DOMAIN new = LocalFields /\ new.pc = "recycle" /\ new.op = "remove" /\ new.mine = me.mine
      /\ new.preds = Idle.preds /\ new.succs = Idle.succs
  BY IdleShape DEF LocalFields
<1> HIDE DEF new
<1>4. me.mine # Nil /\ me.mine \in DOMAIN node
  BY <1>1, <1>2, Zenon DEF Knows, Removes, Changing, IsOf
<1>5. /\ Flags(node, node') /\ OnlyLocks(node, node', t)
      /\ LocksOf(node', t) = LocksOf(node, t) \cap {me.mine}
  BY <1>1, <1>2, AllFields, Release
<1>6. LocksOf(node', t) = {me.mine}
  BY <1>1, <1>2, <1>4, <1>5, Zenon DEF Holding, Changing
<1>7. Shape(new)
  BY <1>3, IdleShape, Zenon DEF Shape, Points
<1>8. Holding(new) = {me.mine}
  BY <1>3, <1>4, Zenon DEF Holding, Searching, Changing
<1>9. Reads(node, new) /\ Grows(node, new)
  BY <1>3, Zenon DEF Reads, Grows
<1>10. Writes(node, head, new) /\ Adds(node, new)
  BY <1>3, Zenon DEF Writes, Adds, Searching, Changing
<1>11. Removes(node, head, new)
  BY <1>3, <1>4, Zenon DEF Removes, TopKnown, Searching, Changing
<1> QED
  BY <1>2, <1>5, <1>6, <1>7, <1>8, <1>9, <1>10, <1>11, FlagStep, Zenon DEF Knows

\* The recycler takes a node.
LEMMA RecycleStep ==
    ASSUME Inv, NEW t \in Threads, Recycle(t)
    PROVE Inv'
<1>1. head' = head /\ node' = Released(node, t, Nil) /\ Return(t, TRUE, <<>>)
  BY Zenon DEF Recycle
<1>2. Flags(node, node') /\ OnlyLocks(node, node', t) /\ LocksOf(node', t) = {}
  BY <1>1, Mine, ReleaseAll
<1>3. PICK new : /\ Goes(t, new) /\ DOMAIN new = LocalFields /\ new.pc = "release"
                 /\ new.preds = Idle.preds /\ new.succs = Idle.succs
  BY <1>1, ReturnLocals, Zenon
<1> QED
  BY <1>1, <1>2, <1>3, RestStep, Zenon DEF Resting

\* Nodes are destroyed.
LEMMA DestroyStep ==
    ASSUME Inv, NEW t \in Threads, Destroy(t)
    PROVE Inv'
<1>1. head' = head /\ Goes(t, Idle) /\ th[t].pc = "destroy"
  BY Zenon DEF Destroy
<1>2. /\ IsNodes(node) /\ LocksOf(node, t) = Holding(th[t]) /\ Knows(node, head, th[t])
  BY Mine, Zenon
<1>3. LocksOf(node, t) = {}
  BY <1>1, <1>2, Zenon DEF Holding, Searching, Changing
<1>4. DOMAIN node' = DOMAIN node /\ node' = [n \in DOMAIN node |-> node'[n]]
  BY Zenon DEF Destroy
<1>5. ASSUME NEW n \in DOMAIN node
      PROVE /\ DOMAIN node'[n] = NodeFields
            /\ node'[n].key = node[n].key /\ node'[n].height = node[n].height
            /\ node'[n].skip = node[n].skip /\ node'[n].lock = node[n].lock
  <2>1. node'[n] = IF n \in th[t].doomed THEN [node[n] EXCEPT !.dead = TRUE] ELSE node[n]
    BY Zenon DEF Destroy
  <2>2. DOMAIN node[n] = NodeFields
    BY <1>2, AllFields, Zenon
  <2> QED
    BY <2>1, <2>2, Zenon DEF NodeFields
<1>6. Flags(node, node')
  BY <1>4, <1>5, Zenon DEF Flags
<1>7. OnlyLocks(node, node', t)
  BY <1>4, <1>5, Zenon DEF OnlyLocks
<1>8. LocksOf(node', t) = {}
  BY <1>3, <1>4, <1>5, Zenon DEF LocksOf
<1> QED
  BY <1>1, <1>6, <1>7, <1>8, IdleShape, RestStep, Zenon

\* Changes of flags follow each other.
LEMMA FlagsTrans ==
    ASSUME NEW N, NEW M, NEW L, Flags(N, M), Flags(M, L)
    PROVE Flags(N, L)
<1>1. DOMAIN M = DOMAIN N /\ L = [n \in DOMAIN M |-> L[n]]
  <2>1. M = [n \in DOMAIN N |-> M[n]] /\ L = [n \in DOMAIN M |-> L[n]]
    BY Zenon DEF Flags
  <2> QED
    BY <2>1, Zenon
<1>2. L = [n \in DOMAIN N |-> L[n]]
  BY <1>1, Zenon
<1>3. \A n \in DOMAIN N : /\ DOMAIN L[n] = NodeFields
                          /\ L[n].key = N[n].key /\ L[n].height = N[n].height
                          /\ L[n].skip = N[n].skip
  BY <1>1, Zenon DEF Flags
<1> QED
  BY <1>2, <1>3, Zenon DEF Flags

\* Locks that are kept stay those of their threads.
LEMMA LocksKeptOf ==
    ASSUME NEW N, NEW M, DOMAIN M = DOMAIN N, LocksKept(N, M), NEW L, NEW t, OnlyLocks(M, L, t)
    PROVE OnlyLocks(N, L, t)
BY Zenon DEF LocksKept, OnlyLocks

\* The new head takes the place of the old one, or is destroyed.
LEMMA SwapHeadStep ==
    ASSUME Inv, NEW t \in Threads, SwapHead(t)
    PROVE Inv'
<1> DEFINE me == th[t]
           new == [me EXCEPT !.pc = "recycle", !.mine = me.pred, !.pred = Nil]
<1>1. /\ Shape(me) /\ Knows(node, head, me) /\ IsNodes(node) /\ IsHead(node, head)
  BY Mine, Zenon
<1>2. me.pc = "swap"
  BY Zenon DEF SwapHead
<1>3. /\ me.op = "add" /\ IsHead(node, me.pred) /\ node[me.pred].height < me.height
      /\ me.height \in 1 .. MaxHeight /\ IsOf(node, me.mine, Nil, me.height)
  BY <1>1, <1>2, Zenon DEF Knows, Grows
<1>4. CASE head = me.pred
  <2>1. PICK N : Marked(node, N, me.pred) /\ node' = Released(N, t, Nil)
    BY <1>4, Zenon DEF SwapHead, Marked
  <2>2. Goes(t, new) /\ head' = me.mine
    BY <1>4, Zenon DEF SwapHead
  <2>3. OnlyNode(node, N, me.pred) /\ LocksKept(node, N)
    BY <1>1, <1>3, <2>1, SetMarked, Zenon DEF IsHead
  <2>4. Flags(node, N)
    BY <2>3, Zenon DEF OnlyNode
  <2>5. IsNodes(N) /\ DOMAIN N = DOMAIN node
    BY <1>1, <2>4, FlagsKeep, Zenon
  <2>6. Flags(N, node') /\ OnlyLocks(N, node', t) /\ LocksOf(node', t) = {}
    BY <2>1, <2>5, ReleaseAll
  <2>7. Flags(node, node') /\ OnlyLocks(node, node', t)
    BY <2>3, <2>4, <2>5, <2>6, FlagsTrans, LocksKeptOf, Zenon
  <2>8. IsNodes(node') /\ Grown(node, node')
    BY <1>1, <2>7, FlagsKeep, Zenon
  <2>9. IsHead(node', head') /\ node'[head'].height = me.height
    BY <1>3, <2>2, <2>8, Zenon DEF IsHead, IsOf, Grown
  <2>10. Taller(node, head, node', head')
    <3>1. node[head].height \in Nat /\ node'[head'].height \in Nat
      BY <1>1, <2>8, <2>9, NodeIs, Zenon DEF IsHead
    <3> QED
      BY <1>3, <1>4, <2>9, <3>1 DEF Taller
  <2>11. /\ DOMAIN new = LocalFields /\ new.pc = "recycle" /\ new.op = me.op /\ new.mine = me.pred
         /\ new.preds = me.preds /\ new.succs = me.succs
    BY <1>1, Zenon DEF Shape, LocalFields
  <2> HIDE DEF new
  <2>12. Shape(new) /\ Holding(new) = {}
    BY <1>1, <1>3, <2>11, Zenon DEF Shape, Points, Holding, Searching, Changing
  <2>13. new.mine \in DOMAIN node'
    BY <1>3, <2>8, <2>11, Zenon DEF IsHead, Grown
  <2>14. Reads(node', new) /\ Grows(node', new)
    BY <2>11, Zenon DEF Reads, Grows
  <2>15. Writes(node', head', new) /\ Adds(node', new)
    BY <2>11, Zenon DEF Writes, Adds, Searching, Changing
  <2>16. Removes(node', head', new)
    BY <2>11, <2>13, Zenon DEF Removes, TopKnown, Searching, Changing
  <2> QED
    BY <2>2, <2>6, <2>7, <2>8, <2>9, <2>10, <2>12, <2>14, <2>15, <2>16, StepInv, ZenonT(60) DEF Knows
<1>5. CASE head # me.pred
  <2>1. PICK N : Dead(node, N, me.mine) /\ node' = Released(N, t, Nil)
    BY <1>5, Zenon DEF SwapHead, Dead
  <2>2. Return(t, TRUE, <<>>) /\ head' = head
    BY <1>5, Zenon DEF SwapHead
  <2>3. OnlyNode(node, N, me.mine) /\ LocksKept(node, N)
    BY <1>1, <1>3, <2>1, SetDead, Zenon DEF IsOf
  <2>4. Flags(node, N)
    BY <2>3, Zenon DEF OnlyNode
  <2>5. IsNodes(N) /\ DOMAIN N = DOMAIN node
    BY <1>1, <2>4, FlagsKeep, Zenon
  <2>6. Flags(N, node') /\ OnlyLocks(N, node', t) /\ LocksOf(node', t) = {}
    BY <2>1, <2>5, ReleaseAll
  <2>7. Flags(node, node') /\ OnlyLocks(node, node', t)
    BY <2>3, <2>4, <2>5, <2>6, FlagsTrans, LocksKeptOf, Zenon
  <2>8. PICK new2 : /\ Goes(t, new2) /\ DOMAIN new2 = LocalFields /\ new2.pc = "release"
                    /\ new2.preds = Idle.preds /\ new2.succs = Idle.succs
    BY <2>2, ReturnLocals, Zenon
  <2> QED
    BY <2>2, <2>6, <2>7, <2>8, RestStep, Zenon DEF Resting
<1> QED
  BY <1>4, <1>5, Zenon

-----------------------------------------------------------------------------
(* Steps that add nodes and links *)

\* A new node links to nodes that are there.
NewNode(N, e) ==
    /\ DOMAIN e = NodeFields /\ e.key \in Nat /\ e.height \in 1 .. MaxHeight
    /\ DOMAIN e.skip = 0 .. e.height - 1
    /\ \A l \in 0 .. e.height - 1 :
          e.skip[l] # Nil => /\ e.skip[l] \in DOMAIN N /\ l < N[e.skip[l]].height
                             /\ e.key < N[e.skip[l]].key

\* M is N with e at its end.
Appended(N, M, e) ==
    /\ DOMAIN M = DOMAIN N \cup {Len(N) + 1} /\ Len(N) + 1 \notin DOMAIN N
    /\ Len(N) + 1 # Nil /\ Len(N) + 1 \in Nat
    /\ M[Len(N) + 1] = e /\ \A n \in DOMAIN N : M[n] = N[n]

\* A node at the end.
LEMMA AppendNode ==
    ASSUME NEW N, IsNodes(N), NEW e, NewNode(N, e)
    PROVE /\ IsNodes(Append(N, e)) /\ Appended(N, Append(N, e), e)
          /\ Grown(N, Append(N, e))
<1> DEFINE M == Append(N, e)
<1>1. Len(N) \in Nat /\ DOMAIN N = 1 .. Len(N) /\ IsSeq(N)
  BY SeqDomain, Zenon DEF IsNodes
<1>2. /\ IsSeq(M) /\ Len(M) = Len(N) + 1 /\ \A n \in 1 .. Len(N) : M[n] = N[n]
      /\ M[Len(N) + 1] = e
  BY <1>1, AppendIsSeq
<1> HIDE DEF M
<1>3. DOMAIN M = 1 .. Len(N) + 1
  BY <1>2, SeqDomain, Zenon
<1>4. DOMAIN M = DOMAIN N \cup {Len(N) + 1} /\ Len(N) + 1 \notin DOMAIN N
      /\ Len(N) + 1 # Nil /\ Len(N) + 1 \in Nat /\ Nil \notin DOMAIN M
  BY <1>1, <1>3 DEF Nil
<1>5. Appended(N, M, e)
  BY <1>1, <1>2, <1>4, Zenon DEF Appended
<1>6. Grown(N, M)
  BY <1>5, Zenon DEF Appended, Grown
<1>7. ASSUME NEW n \in DOMAIN N PROVE IsNode(M, n)
  <2>1. IsNode(N, n) /\ M[n] = N[n]
    BY <1>5, Zenon DEF IsNodes, Appended
  <2>2. \A l \in 0 .. N[n].height - 1 : Link(M, n, l)
    BY <2>1, <1>6, Zenon DEF IsNode, Link, Grown
  <2> QED
    BY <2>1, <2>2, Zenon DEF IsNode
<1>8. IsNode(M, Len(N) + 1)
  <2>1. M[Len(N) + 1] = e
    BY <1>5, Zenon DEF Appended
  <2>2. \A l \in 0 .. e.height - 1 : Link(M, Len(N) + 1, l)
    BY <2>1, <1>6, Zenon DEF NewNode, Link, Grown
  <2> QED
    BY <2>1, <2>2, Zenon DEF IsNode, NewNode
<1>9. IsNodes(M)
  BY <1>2, <1>4, <1>7, <1>8, Zenon DEF IsNodes
<1> QED
  BY <1>5, <1>6, <1>9, Zenon DEF M

\* A list of nodes on the indices of another one has its length.
LEMMA SameLen ==
    ASSUME NEW N, IsNodes(N), NEW M, M = [n \in DOMAIN N |-> M[n]]
    PROVE Len(M) = Len(N) /\ IsSeq(M)
<1>1. Len(N) \in Nat /\ DOMAIN N = 1 .. Len(N)
  BY SeqDomain, Zenon DEF IsNodes
<1>2. M = [i \in 1 .. Len(N) |-> M[i]]
  BY <1>1, Zenon
<1> QED
  BY <1>1, <1>2, FunctionIsSeq, Zenon

\* What copyHead makes of the old head: it has its links.
Copy(old, h) ==
    [Create(Nil, h, [l \in Layers |-> IF l < old.height THEN old.skip[l] ELSE Nil])
        EXCEPT !.marked = old.marked]

IsCopy(old, h, e) ==
    /\ DOMAIN e = NodeFields /\ e.key = Nil /\ e.height = h /\ e.lock = NoOne
    /\ DOMAIN e.skip = 0 .. h - 1
    /\ \A l \in 0 .. h - 1 : e.skip[l] = IF l < old.height THEN old.skip[l] ELSE Nil
    /\ e.linked = FALSE /\ e.marked = old.marked /\ e.dead = FALSE

\* The copy of a head.
LEMMA Copied ==
    ASSUME NEW old, NEW h \in 1 .. MaxHeight, NEW e, e = Copy(old, h)
    PROVE IsCopy(old, h, e)
<1> DEFINE links == [l \in Layers |-> IF l < old.height THEN old.skip[l] ELSE Nil]
           c == Create(Nil, h, links)
<1>1. /\ DOMAIN c = NodeFields /\ c.key = Nil /\ c.height = h /\ c.lock = NoOne
      /\ c.skip = [l \in 0 .. h - 1 |-> links[l]]
      /\ c.linked = FALSE /\ c.dead = FALSE
  <2> HIDE DEF links
  <2> QED
    BY DEF Create, NodeFields
<1>2. e = [c EXCEPT !.marked = old.marked]
  BY Zenon DEF Copy
<1> HIDE DEF c
<1>3. /\ DOMAIN e = NodeFields /\ e.key = c.key /\ e.height = c.height /\ e.lock = c.lock
      /\ e.skip = c.skip /\ e.linked = c.linked /\ e.marked = old.marked /\ e.dead = c.dead
  BY <1>1, <1>2, Zenon DEF NodeFields
<1>4. \A l \in 0 .. h - 1 : l \in Layers
  BY HeightAssumption DEF Layers
<1>5. \A l \in 0 .. h - 1 : links[l] = IF l < old.height THEN old.skip[l] ELSE Nil
  BY <1>4, Zenon
<1> HIDE DEF links
<1>6. DOMAIN e.skip = 0 .. h - 1 /\ \A l \in 0 .. h - 1 : e.skip[l] = links[l]
  BY <1>1, <1>3, ZenonT(60)
<1> QED
  BY <1>1, <1>3, <1>5, <1>6, Zenon DEF IsCopy

\* growHeight locks the old head and copies it.
LEMMA CopyHeadStep ==
    ASSUME Inv, NEW t \in Threads, CopyHead(t)
    PROVE Inv'
<1> DEFINE me == th[t]
           old == node[me.pred]
           e == Copy(old, me.height)
           new == [me EXCEPT !.pc = "swap", !.mine = Len(node) + 1]
<1>1. /\ Shape(me) /\ Knows(node, head, me) /\ IsNodes(node) /\ IsHead(node, head)
      /\ LocksOf(node, t) = Holding(me)
  BY Mine, Zenon
<1>2. me.pc = "copy" /\ head' = head /\ old.lock = NoOne /\ Goes(t, new)
  BY Zenon DEF CopyHead
<1>3. PICK N : Locked(node, N, me.pred, t) /\ node' = Append(N, e)
  BY Zenon DEF CopyHead, Locked, Copy
<1>4. /\ me.op = "add" /\ IsHead(node, me.pred) /\ old.height < me.height
      /\ me.height \in 1 .. MaxHeight
  BY <1>1, <1>2, Zenon DEF Knows, Grows
<1>5. OnlyNode(node, N, me.pred) /\ HasLock(N, me.pred, t)
  BY <1>1, <1>3, <1>4, SetLock, Zenon DEF IsHead
<1>6. /\ Flags(node, N) /\ N[me.pred].lock = t
      /\ \A m \in DOMAIN node : m # me.pred => N[m] = node[m]
  BY <1>5, Zenon DEF OnlyNode, HasLock
<1>7. IsNodes(N) /\ Grown(node, N) /\ DOMAIN N = DOMAIN node
  BY <1>1, <1>6, FlagsKeep, Zenon
<1>8. Len(N) = Len(node)
  BY <1>1, <1>6, SameLen, Zenon DEF Flags
<1>9. /\ DOMAIN e = NodeFields /\ e.key = Nil /\ e.height = me.height /\ e.lock = NoOne
      /\ DOMAIN e.skip = 0 .. me.height - 1
      /\ \A l \in 0 .. me.height - 1 : e.skip[l] = IF l < old.height THEN old.skip[l] ELSE Nil
  <2>1. IsCopy(old, me.height, e)
    BY <1>4, Copied, Zenon
  <2> QED
    BY <2>1, Zenon DEF IsCopy
<1> HIDE DEF e, new
<1>10. NewNode(N, e)
  <2>1. ASSUME NEW l \in 0 .. me.height - 1, e.skip[l] # Nil
        PROVE e.skip[l] \in DOMAIN N /\ l < N[e.skip[l]].height /\ Nil < N[e.skip[l]].key
    <3>1. l < old.height /\ e.skip[l] = old.skip[l]
      BY <1>9, <2>1, Zenon
    <3>2. me.pred \in DOMAIN node /\ node[me.pred].key = Nil
      BY <1>4, Zenon DEF IsHead
    <3>3. old.height \in Nat
      BY <1>1, <3>2, NodeIs, Zenon
    <3>4. l \in 0 .. old.height - 1
      BY <3>1, <3>3, <1>4
    <3>5. /\ e.skip[l] \in DOMAIN node /\ l < node[e.skip[l]].height
          /\ Nil < node[e.skip[l]].key
      <4>1. old.skip[l] # Nil
        BY <2>1, <3>1, Zenon
      <4>2. /\ old.skip[l] \in DOMAIN node /\ l < node[old.skip[l]].height
            /\ old.key < node[old.skip[l]].key
        BY <1>1, <3>2, <3>4, <4>1, Linked, Zenon
      <4> QED
        BY <3>1, <3>2, <4>2, Zenon
    <3> QED
      BY <1>7, <3>5, Zenon DEF Grown
  <2>2. Nil \in Nat
    BY DEF Nil
  <2> QED
    BY <1>4, <1>9, <2>1, <2>2, Zenon DEF NewNode
<1>11. IsNodes(node') /\ Appended(N, node', e) /\ Grown(N, node')
  BY <1>3, <1>7, <1>10, AppendNode, Zenon
<1>12. /\ DOMAIN node' = DOMAIN node \cup {Len(node) + 1} /\ Len(node) + 1 \notin DOMAIN node
       /\ node'[Len(node) + 1] = e /\ \A n \in DOMAIN node : node'[n] = N[n]
       /\ Len(node) + 1 # Nil
  BY <1>7, <1>8, <1>11, Zenon DEF Appended
<1>13. Grown(node, node')
  BY <1>7, <1>12, Zenon DEF Grown
<1>14. IsHead(node', head') /\ Taller(node, head, node', head')
  <2>1. IsHead(node', head) /\ node'[head].height = node[head].height
    BY <1>1, <1>13, Zenon DEF IsHead, Grown
  <2> QED
    BY <1>1, <1>2, <2>1, HeadIsTall, Zenon DEF Taller
<1>15. OnlyLocks(node, node', t)
  BY <1>2, <1>6, <1>9, <1>12, Zenon DEF OnlyLocks
<1>16. LocksOf(node', t) = {me.pred}
  <2>1. Holding(me) = {}
    BY <1>2, Zenon DEF Holding, Searching, Changing
  <2>2. me.pred \in DOMAIN node
    BY <1>4, Zenon DEF IsHead
  <2> QED
    <3>1. \A n \in DOMAIN node : node[n].lock # t
      BY <1>1, <2>1, Zenon DEF LocksOf
    <3>2. \A n \in DOMAIN node : n # me.pred => node'[n].lock # t
      BY <1>6, <1>12, <3>1, Zenon
    <3>3. node'[me.pred].lock = t /\ node'[Len(node) + 1].lock # t
      BY <1>6, <1>9, <1>12, <2>2, NoOneAssumption, Zenon
    <3> QED
      BY <1>12, <2>2, <3>2, <3>3, Zenon DEF LocksOf
<1>17. /\ DOMAIN new = LocalFields /\ new.pc = "swap" /\ new.op = me.op /\ new.mine = Len(node) + 1
       /\ new.pred = me.pred /\ new.height = me.height
       /\ new.preds = me.preds /\ new.succs = me.succs
  BY <1>1, Zenon DEF Shape, LocalFields, new
<1>18. Shape(new) /\ Holding(new) = {me.pred}
  BY <1>1, <1>4, <1>17, Zenon DEF Shape, Points, Holding, Searching, Changing
<1>19. Grows(node', new)
  <2>1. IsHead(node', me.pred) /\ node'[me.pred].height = old.height
    BY <1>4, <1>13, Zenon DEF IsHead, Grown
  <2>2. IsOf(node', Len(node) + 1, Nil, me.height)
    BY <1>9, <1>12, Zenon DEF IsOf
  <2> QED
    BY <1>4, <1>17, <2>1, <2>2, Zenon DEF Grows
<1>20. Reads(node', new) /\ Writes(node', head', new)
  BY <1>17, Zenon DEF Reads, Writes, Searching, Changing
<1>21. Adds(node', new) /\ Removes(node', head', new)
  BY <1>17, Zenon DEF Adds, Removes, TopKnown, Searching, Changing
<1> QED
  BY <1>2, <1>11, <1>13, <1>14, <1>15, <1>16, <1>18, <1>19, <1>20, <1>21, StepInv, Zenon DEF Knows

\* The link of p on layer l is set to s.
Relinked(N, M, p, l, s) == M = [N EXCEPT ![p].skip[l] = s]

\* What that does.
RelinkedOnly(N, M, p, l, s) ==
    /\ M = [n \in DOMAIN N |-> M[n]] /\ \A n \in DOMAIN N : n # p => M[n] = N[n]
    /\ DOMAIN M[p] = NodeFields /\ M[p].skip = [N[p].skip EXCEPT ![l] = s]
    /\ M[p].key = N[p].key /\ M[p].height = N[p].height /\ M[p].lock = N[p].lock
    /\ M[p].linked = N[p].linked /\ M[p].marked = N[p].marked /\ M[p].dead = N[p].dead

SameNodes(N, M) == DOMAIN M = DOMAIN N
SameLocks(N, M, t) == LocksOf(M, t) = LocksOf(N, t)

\* s can be the link of p on layer l.
LinkTo(N, p, l, s) == s # Nil => s \in DOMAIN N /\ l < N[s].height /\ N[p].key < N[s].key

\* A link that leads forwards is set.
LEMMA SetLink ==
    ASSUME NEW N, IsNodes(N), NEW p \in DOMAIN N, NEW l \in 0 .. N[p].height - 1, NEW s,
           LinkTo(N, p, l, s), NEW M, Relinked(N, M, p, l, s)
    PROVE /\ RelinkedOnly(N, M, p, l, s) /\ IsNodes(M) /\ Grown(N, M) /\ SameNodes(N, M)
<1>1. \A n \in DOMAIN N : DOMAIN N[n] = NodeFields
  BY AllFields, Zenon
<1>2. DOMAIN M = DOMAIN N /\ M = [n \in DOMAIN N |-> M[n]]
  BY Zenon DEF Relinked
<1>3. \A n \in DOMAIN N : n # p => M[n] = N[n]
  BY Zenon DEF Relinked
<1>4. M[p] = [N[p] EXCEPT !.skip = [N[p].skip EXCEPT ![l] = s]]
  BY <1>1, Zenon DEF Relinked, NodeFields
<1>5. RelinkedOnly(N, M, p, l, s)
  BY <1>1, <1>2, <1>3, <1>4, Zenon DEF RelinkedOnly, NodeFields
<1>6. Grown(N, M)
  BY <1>2, <1>3, <1>5, Zenon DEF Grown, RelinkedOnly
<1>7. IsSeq(M)
  BY <1>2, SameLen, Zenon
<1>8. ASSUME NEW n \in DOMAIN N, n # p PROVE IsNode(M, n)
  <2>1. IsNode(N, n) /\ M[n] = N[n]
    BY <1>3, <1>8, Zenon DEF IsNodes
  <2>2. \A i \in 0 .. N[n].height - 1 : Link(M, n, i)
    BY <2>1, <1>6, Zenon DEF IsNode, Link, Grown
  <2> QED
    BY <2>1, <2>2, Zenon DEF IsNode
<1>9. IsNode(M, p)
  <2>1. IsNode(N, p) /\ DOMAIN N[p].skip = 0 .. N[p].height - 1
    BY Zenon DEF IsNodes, IsNode
  <2>2. DOMAIN M[p].skip = 0 .. N[p].height - 1 /\ M[p].skip[l] = s
        /\ \A i \in 0 .. N[p].height - 1 : i # l => M[p].skip[i] = N[p].skip[i]
    BY <1>5, <2>1, Zenon DEF RelinkedOnly
  <2>3. ASSUME NEW i \in 0 .. N[p].height - 1 PROVE Link(M, p, i)
    <3>1. CASE i = l
      BY <3>1, <2>2, <1>6, Zenon DEF Link, LinkTo, Grown
    <3>2. CASE i # l
      BY <3>2, <2>1, <2>2, <1>6, Zenon DEF IsNode, Link, Grown
    <3> QED
      BY <3>1, <3>2, Zenon
  <2> QED
    BY <1>5, <2>1, <2>2, <2>3, Zenon DEF IsNode, RelinkedOnly
<1>10. IsNodes(M)
  BY <1>2, <1>7, <1>8, <1>9, Zenon DEF IsNodes
<1> QED
  BY <1>2, <1>5, <1>6, <1>10, Zenon DEF SameNodes

\* It changes no lock.
LEMMA RelinkLocks ==
    ASSUME NEW N, NEW M, NEW p, NEW l, NEW s, RelinkedOnly(N, M, p, l, s)
    PROVE LocksKept(N, M) /\ LinkedKept(N, M) /\ MarksKept(N, M) /\ DeadKept(N, M)
BY Zenon DEF RelinkedOnly, LocksKept, LinkedKept, MarksKept, DeadKept

\* Locks that are kept.
LEMMA LocksKeptAll ==
    ASSUME NEW N, NEW M, DOMAIN M = DOMAIN N, LocksKept(N, M), NEW t
    PROVE OnlyLocks(N, M, t) /\ LocksOf(M, t) = LocksOf(N, t)
BY Zenon DEF LocksKept, OnlyLocks, LocksOf

\* remove takes the node out of a layer.
LEMMA RemoveUnlinkStep ==
    ASSUME Inv, NEW t \in Threads, RemoveUnlink(t)
    PROVE Inv'
<1> DEFINE me == th[t]
           p == me.preds[me.layer]
           s == node[me.mine].skip[me.layer]
           layer == IF me.layer = 0 THEN 0 ELSE me.layer - 1
           pc == IF me.layer = 0 THEN "count" ELSE "change"
           new == [me EXCEPT !.layer = layer, !.pc = pc]
<1>1. /\ Shape(me) /\ Knows(node, head, me) /\ IsNodes(node) /\ IsHead(node, head)
      /\ LocksOf(node, t) = Holding(me)
  BY Mine, Zenon
<1>2. /\ me.pc = "change" /\ me.op = "remove" /\ head' = head /\ Goes(t, new)
      /\ Relinked(node, node', p, me.layer, s)
  BY Zenon DEF RemoveUnlink, Relinked
<1>3. /\ me.key \in Nat \ {0} /\ me.top \in Layers
      /\ me.top < node[head].height /\ TrailOf(node, me, 0) /\ me.height \in 1 .. me.top + 1
      /\ me.layer \in 0 .. me.height - 1
      /\ me.mine # Nil /\ IsOf(node, me.mine, me.key, me.height) /\ me.height <= node[head].height
  BY <1>1, <1>2, Zenon DEF Knows, Writes, Removes, Searching, Changing
<1>4. p \in DOMAIN node /\ me.layer \in 0 .. node[p].height - 1 /\ node[p].key < me.key
  BY <1>1, <1>3, LockTrail, Zenon DEF TrailOf
<1>5. me.mine \in DOMAIN node /\ me.layer \in 0 .. node[me.mine].height - 1
      /\ node[me.mine].key = me.key
  BY <1>3, Zenon DEF IsOf
<1> HIDE DEF p
<1>6. LinkTo(node, p, me.layer, s)
  <2>1. s # Nil => s \in DOMAIN node /\ me.layer < node[s].height /\ me.key < node[s].key
    BY <1>1, <1>5, Linked, Zenon
  <2>2. node[p].key \in Nat /\ (s # Nil => node[s].key \in Nat)
    BY <1>1, <1>4, <2>1, NodeIs, Zenon
  <2> HIDE DEF me, s
  <2>3. s # Nil => node[p].key < node[s].key
    BY <1>3, <1>4, <2>1, <2>2
  <2> QED
    BY <2>1, <2>3, Zenon DEF LinkTo
<1>7. /\ DOMAIN new = LocalFields /\ new.pc = pc /\ new.layer = layer /\ new.mine = me.mine
      /\ new.height = me.height /\ new.op = me.op /\ new.key = me.key
      /\ new.top = me.top /\ new.at = me.at /\ new.preds = me.preds /\ new.succs = me.succs
  BY <1>1, Zenon DEF Shape, LocalFields
<1>8. layer \in 0 .. me.height - 1 /\ pc \in {"count", "change"}
  BY <1>3, HeightAssumption DEF Layers
<1> HIDE DEF new, layer, pc, s
<1>9. /\ RelinkedOnly(node, node', p, me.layer, s) /\ IsNodes(node') /\ Grown(node, node')
      /\ SameNodes(node, node')
  BY <1>1, <1>2, <1>4, <1>6, SetLink, Zenon
<1>10. OnlyLocks(node, node', t) /\ LocksOf(node', t) = Holding(me)
  BY <1>1, <1>9, RelinkLocks, LocksKeptAll, Zenon DEF SameNodes
<1>11. IsHead(node', head') /\ Taller(node, head, node', head')
  <2>1. IsHead(node', head) /\ node'[head].height = node[head].height
    BY <1>1, <1>9, Zenon DEF IsHead, Grown
  <2> QED
    BY <1>1, <1>2, <2>1, HeadIsTall, Zenon DEF Taller
<1>12. Shape(new) /\ Reads(node, new) /\ Grows(node, new)
  BY <1>1, <1>7, <1>8, Zenon DEF Shape, Points, Reads, Grows
<1>13. Writes(node, head, new)
  BY <1>2, <1>3, <1>7, <1>8, Zenon DEF Writes, TrailOf, Searching, Changing
<1>14. Adds(node, new) /\ Removes(node, head, new)
  BY <1>2, <1>3, <1>7, <1>8, Zenon DEF Adds, Removes, TopKnown, Searching, Changing
<1>15. Knows(node', head', new)
  <2>1. Knows(node, head, new)
    BY <1>12, <1>13, <1>14, Zenon DEF Knows
  <2> QED
    BY <1>1, <1>9, <1>11, <2>1, KnowsKept, Zenon
<1>16. Holding(new) = Holding(me)
  <2>1. me.pc \in Changing /\ new.pc \in Changing
    BY <1>2, <1>3, <1>7, <1>8, Zenon DEF Changing
  <2>2. HoldsSame(me, new)
    BY <1>7, <2>1, KeepsHolding, Zenon
  <2> QED
    BY <2>2, Zenon DEF HoldsSame
<1> QED
  BY <1>2, <1>9, <1>10, <1>11, <1>12, <1>15, <1>16, StepInv, ZenonT(60)

\* Grown and kept locks follow each other.
LEMMA GrownTrans ==
    ASSUME NEW N, NEW M, NEW L, Grown(N, M), Grown(M, L)
    PROVE Grown(N, L)
BY Zenon DEF Grown

\* Locks do not change with a link.
LEMMA RelinkOnlyLocks ==
    ASSUME NEW N, NEW M, NEW L, NEW t, OnlyLocks(N, M, t), LocksKept(M, L), SameNodes(M, L),
           DOMAIN N \subseteq DOMAIN M
    PROVE OnlyLocks(N, L, t) /\ SameLocks(M, L, t)
BY Zenon DEF OnlyLocks, LocksKept, SameNodes, LocksOf, SameLocks

\* The node that addOrGetData links, new or made on the layer below.
LEMMA NodeToLink ==
    ASSUME Inv, NEW t \in Threads, th[t].pc = "change", th[t].op = "add",
           NEW new, new = IF th[t].layer = 0 THEN Len(node) + 1 ELSE th[t].mine,
           NEW G, G = IF th[t].layer = 0
                      THEN Append(node, Create(th[t].key, th[t].height, NoLinks)) ELSE node
    PROVE /\ IsNodes(G) /\ Grown(node, G) /\ IsOf(G, new, th[t].key, th[t].height)
          /\ OnlyLocks(node, G, t) /\ SameLocks(node, G, t)
<1> DEFINE me == th[t]
<1>1. /\ Knows(node, head, me) /\ IsNodes(node)
  BY Mine, Zenon
<1>2. /\ me.key \in Nat \ {0} /\ me.top \in Layers /\ me.height \in 1 .. me.top + 1
      /\ me.layer \in 0 .. me.height - 1
      /\ me.layer > 0 => IsOf(node, me.mine, me.key, me.height)
  BY <1>1, Zenon DEF Knows, Writes, Adds, Searching, Changing
<1>3. CASE me.layer # 0
  <2>1. G = node /\ new = me.mine
    BY <1>3, Zenon
  <2>2. me.layer > 0
    BY <1>2, <1>3
  <2> QED
    BY <1>1, <1>2, <2>1, <2>2, Zenon DEF Grown, OnlyLocks, SameLocks
<1>4. CASE me.layer = 0
  <2> DEFINE e == Create(me.key, me.height, NoLinks)
  <2>1. G = Append(node, e) /\ new = Len(node) + 1
    BY <1>4, Zenon
  <2>2. /\ DOMAIN e = NodeFields /\ e.key = me.key /\ e.height = me.height /\ e.lock = NoOne
        /\ e.skip = [l \in 0 .. me.height - 1 |-> NoLinks[l]]
    BY DEF Create, NodeFields
  <2> HIDE DEF e
  <2>3. \A l \in 0 .. me.height - 1 : l \in Layers
    BY <1>2, HeightAssumption, SMTT(30) DEF Layers
  <2>4. DOMAIN e.skip = 0 .. me.height - 1 /\ \A l \in 0 .. me.height - 1 : e.skip[l] = Nil
    BY <2>2, <2>3, Zenon DEF NoLinks
  <2>5. me.height \in 1 .. MaxHeight /\ me.key \in Nat
    BY <1>2, HeightAssumption, SMTT(30) DEF Layers
  <2>6. NewNode(node, e)
    BY <2>2, <2>4, <2>5, Zenon DEF NewNode
  <2>7. IsNodes(G) /\ Appended(node, G, e) /\ Grown(node, G)
    BY <1>1, <2>1, <2>6, AppendNode, Zenon
  <2>8. IsOf(G, new, me.key, me.height)
    BY <2>1, <2>2, <2>7, Zenon DEF IsOf, Appended
  <2>9. OnlyLocks(node, G, t)
    BY <2>2, <2>7, Zenon DEF OnlyLocks, Appended
  <2>10. SameLocks(node, G, t)
    <3>1. G[Len(node) + 1].lock # t
      BY <2>2, <2>7, NoOneAssumption, Zenon DEF Appended
    <3> QED
      BY <2>7, <3>1, Zenon DEF SameLocks, LocksOf, Appended
  <2> QED
    BY <2>7, <2>8, <2>9, <2>10, Zenon
<1> QED
  BY <1>3, <1>4, Zenon

\* addOrGetData links a node on one layer: what it does to the nodes.
LEMMA AddLinkNodes ==
    ASSUME Inv, NEW t \in Threads, AddLink(t)
    PROVE \E new, G, H :
             /\ new = IF th[t].layer = 0 THEN Len(node) + 1 ELSE th[t].mine
             /\ G = IF th[t].layer = 0
                    THEN Append(node, Create(th[t].key, th[t].height, NoLinks)) ELSE node
             /\ IsNodes(G) /\ Grown(node, G) /\ IsOf(G, new, th[t].key, th[t].height)
             /\ OnlyLocks(node, G, t) /\ SameLocks(node, G, t)
             /\ RelinkedOnly(G, H, new, th[t].layer, th[t].succs[th[t].layer])
             /\ IsNodes(H) /\ Grown(G, H) /\ SameNodes(G, H)
             /\ RelinkedOnly(H, node', th[t].preds[th[t].layer], th[t].layer, new)
             /\ IsNodes(node') /\ Grown(H, node') /\ SameNodes(H, node')
<1> DEFINE me == th[t]
           l == me.layer
           p == me.preds[l]
           s == me.succs[l]
<1>1. /\ Knows(node, head, me) /\ IsNodes(node) /\ me.pc = "change" /\ me.op = "add"
  BY Mine, Zenon DEF AddLink
<1>2. PICK new, G : /\ new = IF me.layer = 0 THEN Len(node) + 1 ELSE me.mine
                    /\ G = IF me.layer = 0 THEN Append(node, Create(me.key, me.height, NoLinks))
                           ELSE node
  BY Zenon
<1>3. /\ IsNodes(G) /\ Grown(node, G) /\ IsOf(G, new, me.key, me.height)
      /\ OnlyLocks(node, G, t) /\ SameLocks(node, G, t)
  BY <1>1, <1>2, NodeToLink, Zenon
<1>4. PICK H : Relinked(G, H, new, l, s) /\ Relinked(H, node', p, l, new)
  BY <1>2, Zenon DEF AddLink, Relinked
<1>5. /\ me.key \in Nat \ {0} /\ me.top \in Layers /\ me.height \in 1 .. me.top + 1
      /\ TrailOf(node, me, 0) /\ l \in 0 .. me.height - 1 /\ me.at = -1
  BY <1>1, Zenon DEF Knows, Writes, Adds, Searching, Changing
<1>6. /\ p \in DOMAIN node /\ l \in 0 .. node[p].height - 1 /\ node[p].key < me.key
      /\ l \in 0 .. me.top
  BY <1>1, <1>5, LockTrail, ZenonT(60) DEF TrailOf
<1>7. s # Nil => s \in DOMAIN node /\ l < node[s].height /\ me.key < node[s].key
  BY <1>5, <1>6, Zenon DEF TrailOf, Trail, Found
<1>8. new \in DOMAIN G /\ l \in 0 .. G[new].height - 1 /\ LinkTo(G, new, l, s)
  BY <1>3, <1>5, <1>7, Zenon DEF IsOf, LinkTo, Grown
<1>9. RelinkedOnly(G, H, new, l, s) /\ IsNodes(H) /\ Grown(G, H) /\ SameNodes(G, H)
  BY <1>3, <1>4, <1>8, SetLink, Zenon
<1>10. Grown(node, H)
  BY <1>3, <1>9, GrownTrans, Zenon
<1>11. p \in DOMAIN H /\ l \in 0 .. H[p].height - 1 /\ LinkTo(H, p, l, new)
  <2>1. p \in DOMAIN H /\ H[p].height = node[p].height /\ H[p].key = node[p].key
    BY <1>6, <1>10, Zenon DEF Grown
  <2>2. new \in DOMAIN H /\ H[new].height = me.height /\ H[new].key = me.key
    BY <1>3, <1>9, Zenon DEF Grown, IsOf
  <2>3. l < me.height
    BY <1>5, HeightAssumption DEF Layers
  <2> QED
    BY <1>6, <2>1, <2>2, <2>3, Zenon DEF LinkTo
<1>12. /\ RelinkedOnly(H, node', p, l, new) /\ IsNodes(node') /\ Grown(H, node')
       /\ SameNodes(H, node')
  BY <1>4, <1>9, <1>11, SetLink, Zenon
<1> QED
  BY <1>2, <1>3, <1>9, <1>12, Zenon

\* addOrGetData links a node on one layer.
LEMMA AddLinkStep ==
    ASSUME Inv, NEW t \in Threads, AddLink(t)
    PROVE Inv'
<1> DEFINE me == th[t]
           l == me.layer
           p == me.preds[l]
           s == me.succs[l]
           pc == IF l + 1 = me.height THEN "flag" ELSE "change"
<1>1. /\ Shape(me) /\ Knows(node, head, me) /\ IsNodes(node) /\ IsHead(node, head)
      /\ LocksOf(node, t) = Holding(me)
  BY Mine, Zenon
<1>2. PICK n, G, H :
             /\ n = IF l = 0 THEN Len(node) + 1 ELSE me.mine
             /\ IsNodes(G) /\ Grown(node, G) /\ IsOf(G, n, me.key, me.height)
             /\ OnlyLocks(node, G, t) /\ SameLocks(node, G, t)
             /\ RelinkedOnly(G, H, n, l, s) /\ IsNodes(H) /\ Grown(G, H) /\ SameNodes(G, H)
             /\ RelinkedOnly(H, node', p, l, n)
             /\ IsNodes(node') /\ Grown(H, node') /\ SameNodes(H, node')
  BY AddLinkNodes, Zenon
<1> DEFINE new == [me EXCEPT !.mine = n, !.layer = l + 1, !.pc = pc]
<1>3. me.pc = "change" /\ me.op = "add" /\ head' = head /\ Goes(t, new)
  BY <1>2, Zenon DEF AddLink
<1>4. /\ me.key \in Nat \ {0} /\ me.top \in Layers /\ me.height \in 1 .. me.top + 1
      /\ me.top < node[head].height
      /\ TrailOf(node, me, 0) /\ l \in 0 .. me.height - 1 /\ me.at = -1
  BY <1>1, <1>3, Zenon DEF Knows, Writes, Adds, Searching, Changing
<1>5. /\ DOMAIN new = LocalFields /\ new.pc = pc /\ new.layer = l + 1 /\ new.mine = n
      /\ new.height = me.height /\ new.op = me.op /\ new.key = me.key
      /\ new.top = me.top /\ new.at = me.at /\ new.preds = me.preds /\ new.succs = me.succs
  BY <1>1, Zenon DEF Shape, LocalFields
<1>6. pc = "flag" \/ (pc = "change" /\ l + 1 \in 0 .. me.height - 1)
  BY <1>4, HeightAssumption DEF Layers
<1> HIDE DEF new, pc
<1>7. Grown(node, H) /\ Grown(node, node')
  BY <1>2, GrownTrans, Zenon
<1>8. OnlyLocks(node, node', t) /\ LocksOf(node', t) = Holding(me)
  <2>1. LocksKept(G, H) /\ LocksKept(H, node')
    BY <1>2, RelinkLocks, Zenon
  <2>2. DOMAIN node \subseteq DOMAIN G /\ DOMAIN node \subseteq DOMAIN H
    BY <1>2, <1>7, Zenon DEF Grown
  <2>3. OnlyLocks(node, H, t) /\ SameLocks(G, H, t)
    BY <1>2, <2>1, <2>2, RelinkOnlyLocks, Zenon
  <2>4. OnlyLocks(node, node', t) /\ SameLocks(H, node', t)
    BY <1>2, <2>1, <2>2, <2>3, RelinkOnlyLocks, Zenon
  <2> QED
    BY <1>1, <1>2, <2>3, <2>4, Zenon DEF SameLocks
<1>9. IsHead(node', head') /\ Taller(node, head, node', head')
  <2>1. IsHead(node', head) /\ node'[head].height = node[head].height
    BY <1>1, <1>7, Zenon DEF IsHead, Grown
  <2> QED
    BY <1>1, <1>3, <2>1, HeadIsTall, Zenon DEF Taller
<1>10. IsOf(node', n, me.key, me.height)
  BY <1>2, ZenonT(60) DEF IsOf, Grown
<1>11. Shape(new) /\ Reads(node', new) /\ Grows(node', new)
  BY <1>1, <1>5, <1>6, Zenon DEF Shape, Points, Reads, Grows
<1>12. Writes(node', head', new)
  <2>1. TrailOf(node', me, 0)
    BY <1>4, <1>7, TrailKept, Zenon DEF TrailOf
  <2>2. me.top < node'[head'].height
    BY <1>4, <1>9, HeightAssumption, SMTT(30) DEF Taller, Layers
  <2> QED
    BY <1>3, <1>4, <1>5, <1>6, <2>1, <2>2, ZenonT(60) DEF Writes, TrailOf, Searching, Changing
<1>13. Adds(node', new) /\ Removes(node', head', new)
  BY <1>3, <1>4, <1>5, <1>6, <1>10, Zenon DEF Adds, Removes, TopKnown, Searching, Changing
<1>14. Holding(new) = Holding(me)
  <2> DEFINE all == {me.preds[i] : i \in 0 .. me.height - 1}
  <2>1. Holding(me) = all
    BY <1>3, Zenon DEF Holding, Changing
  <2>2. Holding(new) = all
    BY <1>3, <1>5, <1>6, Zenon DEF Holding, Changing
  <2> QED
    BY <2>1, <2>2, Zenon
<1> QED
  BY <1>2, <1>3, <1>7, <1>8, <1>9, <1>11, <1>12, <1>13, <1>14, StepInv, ZenonT(60) DEF Knows

-----------------------------------------------------------------------------
(* The invariant holds *)

\* Every step of a thread keeps the invariant.
LEMMA StepsKeepInv ==
    ASSUME Inv, NEW t \in Threads,
           Step(t) \/ \E op \in Ops, k \in Keys : Call(t, op, k)
    PROVE Inv'
<1>1. ASSUME MaxLayer(t) \/ LoadHead(t) \/ Search(t) PROVE Inv'
  BY <1>1, MaxLayerStep, LoadHeadStep, SearchSteps, Zenon
<1>2. ASSUME AddFound(t) \/ AddAwait(t) \/ LockNodesForChange(t) PROVE Inv'
  BY <1>2, AddFoundStep, AddAwaitStep, LockNodesStep, Zenon
<1>3. ASSUME AddLink(t) \/ SetFullyLinked(t) \/ AddCount(t) PROVE Inv'
  BY <1>3, AddLinkStep, SetFullyLinkedStep, AddCountStep, Zenon
<1>4. ASSUME RemoveFound(t) \/ RemoveMark(t) \/ RemoveUnlink(t) \/ RemoveCount(t) PROVE Inv'
  BY <1>4, RemoveFoundStep, RemoveMarkStep, RemoveUnlinkStep, RemoveCountStep, Zenon
<1>5. ASSUME CheckLimit(t) \/ GrowHeight(t) \/ CopyHead(t) \/ SwapHead(t) \/ Recycle(t)
      PROVE Inv'
  BY <1>5, CheckLimitStep, GrowHeightStep, CopyHeadStep, SwapHeadStep, RecycleStep, ZenonT(60)
<1>6. ASSUME \/ DownHead(t) \/ StepDown(t) \/ StepRight(t) \/ FindCheck(t) \/ LowerBound(t)
             \/ Begin(t) \/ NextNode(t) \/ SkipMarked(t)
      PROVE Inv'
  BY <1>6, LookupSteps, Zenon
<1>7. ASSUME ReleaseCheck(t) \/ ReleaseDrop(t) \/ ReleaseLast(t) \/ Destroy(t) PROVE Inv'
  BY <1>7, ReleaseStep, DestroyStep, Zenon
<1>8. ASSUME NEW op \in Ops, NEW k \in Keys, Call(t, op, k) PROVE Inv'
  BY <1>8, CallStep, Zenon
<1> QED
  BY <1>1, <1>2, <1>3, <1>4, <1>5, <1>6, <1>7, <1>8, ZenonT(60) DEF Step

\* The invariant is about these three variables.
LEMMA StutterKeepsInv ==
    ASSUME Inv, UNCHANGED <<node, head, th>>
    PROVE Inv'
BY Zenon DEF Inv

\* The invariant says that the link a thread loads exists.
LEMMA InvLinks == ASSUME Inv PROVE LinkExists
<1> SUFFICES ASSUME NEW t \in Threads
    PROVE LET me == th[t] IN
        /\ me.pc \in {"search", "right", "last"} => me.layer < node[me.pred].height
        /\ me.pc = "down" => me.layer <= node[me.pred].height
        /\ me.pc \in {"lock", "change"} =>
              me.preds[me.layer] # Nil /\ me.layer < node[me.preds[me.layer]].height
  BY Zenon DEF LinkExists
<1> DEFINE me == th[t]
<1>1. IsNodes(node) /\ Shape(me) /\ Knows(node, head, me)
  BY Mine, Zenon
<1>2. me.pc # "last"
  BY <1>1, Zenon DEF Shape, Points
<1>3. me.pc = "search" => me.layer < node[me.pred].height
  BY <1>1, Zenon DEF Knows, Writes, Stands
<1>4. me.pc = "right" => me.layer < node[me.pred].height
  <2>1. me.pc = "right" => me.pred \in DOMAIN node /\ me.layer \in 0 .. node[me.pred].height - 1
    BY <1>1, Zenon DEF Knows, Reads
  <2> QED
    BY <1>1, <2>1, HeightAssumption, SMTT(30) DEF IsNodes, IsNode
<1>5. me.pc = "down" => me.layer <= node[me.pred].height
  <2>1. me.pc = "down" => me.pred \in DOMAIN node /\ me.layer \in 1 .. node[me.pred].height
    BY <1>1, Zenon DEF Knows, Reads
  <2> QED
    BY <1>1, <2>1, HeightAssumption DEF IsNodes, IsNode
<1>6. me.pc \in {"lock", "change"} =>
              me.preds[me.layer] # Nil /\ me.layer < node[me.preds[me.layer]].height
  <2> SUFFICES ASSUME me.pc \in {"lock", "change"}
               PROVE me.preds[me.layer] # Nil /\ me.layer < node[me.preds[me.layer]].height
    BY Zenon
  <2>1. /\ me.top \in Layers /\ TrailOf(node, me, 0) /\ me.height \in 1 .. me.top + 1
        /\ me.layer \in 0 .. me.height - 1
    BY <1>1, Zenon DEF Knows, Writes, Changing
  <2>2. me.layer \in 0 .. me.top
    BY <2>1, HeightAssumption DEF Layers
  <2>3. me.preds[me.layer] \in DOMAIN node /\ me.layer < node[me.preds[me.layer]].height
    BY <2>1, <2>2, Zenon DEF TrailOf, Trail, Found
  <2> QED
    BY <1>1, <2>3, Zenon DEF IsNodes
<1> QED
  BY <1>2, <1>3, <1>4, <1>5, <1>6, ZenonT(60)

\* The invariant says that locks are taken in descending order of the keys.
LEMMA InvLocks == ASSUME Inv PROVE LocksDescend
<1> SUFFICES ASSUME NEW t \in Threads, NEW n \in DOMAIN node, node[n].lock = t
    PROVE LET me == th[t] IN
        /\ me.pc # "await"
        /\ me.pc = "lock" /\ node[me.preds[me.layer]].lock # t =>
              node[n].key > node[me.preds[me.layer]].key
        /\ me.pc = "mark" => node[n].key > node[me.succs[me.at]].key
        /\ me.pc = "copy" => node[n].key > node[me.pred].key
  BY Zenon DEF LocksDescend
<1> DEFINE me == th[t]
           p == me.preds[me.layer]
<1>1. IsNodes(node) /\ Shape(me) /\ Knows(node, head, me) /\ n \in Holding(me)
  BY Mine, Zenon DEF LocksOf
<1>2. me.pc \notin {"await", "mark", "copy"}
  BY <1>1, Zenon DEF Holding, Searching, Changing
<1>3. ASSUME me.pc = "lock", node[p].lock # t PROVE node[p].key < node[n].key
  <2>1. /\ me.top \in Layers /\ TrailOf(node, me, 0) /\ me.height \in 1 .. me.top + 1
        /\ me.layer \in 0 .. me.height - 1
    BY <1>1, <1>3, Zenon DEF Knows, Writes, Changing
  <2>2. me.layer \in 0 .. me.top /\ \A l \in 0 .. me.layer - 1 : l \in 0 .. me.top /\ l < me.layer
    BY <2>1, HeightAssumption DEF Layers
  <2>3. n \in {me.preds[l] : l \in 0 .. me.layer - 1} \/ (me.op = "remove" /\ n = me.mine)
    BY <1>1, <1>3, Zenon DEF Holding, Changing
  <2>4. CASE n \in {me.preds[l] : l \in 0 .. me.layer - 1}
    <3>1. PICK l \in 0 .. me.layer - 1 : n = me.preds[l]
      BY <2>4, Zenon
    <3>2. Behind(node, n, p)
      BY <2>1, <2>2, <3>1, Zenon DEF TrailOf, Trail
    <3> QED
      BY <1>3, <3>2, Zenon DEF Behind
  <2>5. CASE me.op = "remove" /\ n = me.mine
    <3>1. node[n].key = me.key
      BY <1>1, <1>3, <2>5, Zenon DEF Knows, Removes, IsOf
    <3>2. node[p].key < me.key
      BY <2>1, <2>2, Zenon DEF TrailOf, Trail, Found
    <3> QED
      BY <3>1, <3>2, Zenon
  <2> QED
    BY <2>3, <2>4, <2>5, Zenon
<1>4. ASSUME me.pc = "lock", node[p].lock # t PROVE node[n].key > node[p].key
  BY <1>3, <1>4, Zenon
<1> QED
  BY <1>2, <1>4, Zenon

-----------------------------------------------------------------------------
(* Facts about numbers and finite sets *)

INSTANCE FiniteSetTheorems

\* A non-empty set of numbers has a least one.
LEMMA Least ==
    ASSUME NEW T, T \subseteq Nat, T # {}
    PROVE \E m \in T : \A k \in T : m <= k
<1> DEFINE R == OpToRel(<, Nat)
<1>1. IsWellFoundedOn(R, Nat)
  BY NatLessThanWellFounded, Zenon
<1>2. \A a, b \in Nat : a < b => <<a, b>> \in R
  BY Zenon DEF OpToRel
<1> HIDE DEF R
<1>3. PICK m \in T : \A y \in T : ~(<<y, m>> \in R)
  BY <1>1, WFMin, Zenon
<1>4. ASSUME NEW k \in T PROVE m <= k
  <2>1. m \in Nat /\ k \in Nat
    BY Zenon
  <2>2. ~(k < m)
    BY <1>2, <1>3, <2>1, ZenonT(60)
  <2> QED
    BY <2>1, <2>2, SMTT(30)
<1> QED
  BY <1>4, Zenon

\* The place of k among the numbers of D.
Rank(D, k) == Cardinality({j \in D : j <= k})

\* The places of finitely many numbers are 1 to their number, and no two are the same.
LEMMA Ranks ==
    ASSUME NEW D, D \subseteq Nat, IsFiniteSet(D)
    PROVE /\ Cardinality(D) \in Nat
          /\ \A k \in D : Rank(D, k) \in 1 .. Cardinality(D)
          /\ \A i, k \in D : Rank(D, i) = Rank(D, k) => i = k
          /\ \A r \in 1 .. Cardinality(D) : \E k \in D : Rank(D, k) = r
<1> DEFINE n == Cardinality(D)
           Up(k) == {j \in D : j <= k}
           f == [k \in D |-> Rank(D, k)]
<1>1. n \in Nat
  BY FS_CardinalityType, ZenonT(60)
<1>2. ASSUME NEW k \in D
      PROVE IsFiniteSet(Up(k)) /\ Rank(D, k) \in 1 .. n
  <2>1. Up(k) \subseteq D
    BY ZenonT(60)
  <2>2. k \in Up(k)
    BY SMTT(30)
  <2>3. Up(k) \in SUBSET D
    BY <2>1, ZenonT(60)
  <2> HIDE DEF Up
  <2>4. IsFiniteSet(Up(k)) /\ Cardinality(Up(k)) <= n
    BY <2>3, FS_Subset, ZenonT(60)
  <2>5. Cardinality(Up(k)) \in Nat
    BY <2>4, FS_CardinalityType, ZenonT(60)
  <2>6. Cardinality(Up(k)) # 0
    BY <2>2, <2>4, FS_EmptySet, ZenonT(60)
  <2>7. Rank(D, k) = Cardinality(Up(k))
    BY ZenonT(60) DEF Rank, Up
  <2> QED
    BY <1>1, <2>4, <2>5, <2>6, <2>7, SMTT(30)
<1>3. ASSUME NEW i \in D, NEW k \in D, Rank(D, i) = Rank(D, k), i < k
      PROVE FALSE
  <2>1. Up(i) \in SUBSET Up(k) /\ k \in Up(k) /\ k \notin Up(i)
    <3>1. k \in Nat /\ i \in Nat /\ \A j \in D : j \in Nat
      BY Zenon
    <3>2. ~(k <= i) /\ k <= k /\ \A j \in D : j <= i => j <= k
      BY <1>3, <3>1, SMTT(30)
    <3> QED
      BY <3>2, Zenon
  <2>2. IsFiniteSet(Up(k)) /\ Cardinality(Up(i)) = Cardinality(Up(k))
    BY <1>2, <1>3, ZenonT(60) DEF Rank
  <2> HIDE DEF Up
  <2>3. Up(k) = Up(i)
    BY <2>1, <2>2, FS_Subset, SMTT(30)
  <2> QED
    BY <2>1, <2>3, ZenonT(60)
<1>4. ASSUME NEW i \in D, NEW k \in D, Rank(D, i) = Rank(D, k) PROVE i = k
  <2>1. ~(i < k) /\ ~(k < i)
    BY <1>3, <1>4, ZenonT(60)
  <2>2. i \in Nat /\ k \in Nat
    BY Zenon
  <2> QED
    BY <2>1, <2>2, SMTT(30)
<1>5. f \in [D -> 1 .. n] /\ \A i, k \in D : f[i] = f[k] => i = k
  BY <1>2, <1>4, ZenonT(60)
<1>6. f \in Injection(D, 1 .. n)
  BY <1>5, Zenon DEF Injection, IsInjective
<1>7. IsFiniteSet(1 .. n) /\ Cardinality(1 .. n) = n
  BY <1>1, FS_Interval, SMTT(30)
<1>8. f \in Surjection(D, 1 .. n)
  <2> HIDE DEF f
  <2> QED
    BY <1>6, <1>7, FS_Injection, ZenonT(60)
<1>9. \A r \in 1 .. n : \E k \in D : f[k] = r
  BY <1>8, ZenonT(60) DEF Surjection
<1> QED
  BY <1>1, <1>2, <1>4, <1>9, ZenonT(60)

\* An element before a sequence.
LEMMA ConsIsSeq ==
    ASSUME NEW f, IsSeq(f), NEW c
    PROVE /\ IsSeq(<<c>> \o f) /\ Len(<<c>> \o f) = Len(f) + 1
          /\ (<<c>> \o f)[1] = c
          /\ \A i \in 1 .. Len(f) : (<<c>> \o f)[i + 1] = f[i]
<1> DEFINE S == {f[i] : i \in DOMAIN f} \cup {c}
           t == <<c>> \o f
<1>1. f \in Seq(S) /\ <<c>> \in Seq(S)
  <2>1. f \in Seq({f[i] : i \in DOMAIN f})
    BY Zenon DEF IsSeq
  <2>2. {f[i] : i \in DOMAIN f} \subseteq S /\ c \in S
    BY ZenonT(60)
  <2> HIDE DEF S
  <2>3. <<c>> \in Seq(S)
    BY <2>2, SMTT(30)
  <2> QED
    BY <2>1, <2>2, <2>3, SMTT(30)
<1> HIDE DEF S
<1>2. /\ t \in Seq(S) /\ Len(t) = Len(f) + 1 /\ Len(f) \in Nat
      /\ t[1] = c /\ \A i \in 1 .. Len(f) : t[i + 1] = f[i]
  BY <1>1, SMTT(30)
<1> HIDE DEF t
<1>3. t \in [1..Len(t) -> S]
  BY <1>2, SMTT(30)
<1>4. IsSeq(t)
  BY <1>2, <1>3, FunctionIsSeq, SMTT(30)
<1> QED
  BY <1>2, <1>4, ZenonT(60) DEF t

-----------------------------------------------------------------------------
(* A list that nobody works on *)

\* What comes behind key k on layer l.
Later(H, k, l) == {j \in DOMAIN H : j > k /\ H[j] > l}

\* x is where the next key of the layer is.
Follows(H, at, k, l, x) ==
    IF Later(H, k, l) = {} THEN x = Nil
    ELSE \E j \in Later(H, k, l) : x = at[j] /\ \A i \in Later(H, k, l) : j <= i

\* n is the node of key k, with height h.
QuietNode(N, H, at, n, k, h) ==
    /\ n \in DOMAIN N /\ DOMAIN N[n] = NodeFields /\ N[n].key = k /\ N[n].height = h
    /\ N[n].lock = NoOne /\ ~N[n].marked /\ ~N[n].dead
    /\ DOMAIN N[n].skip = 0 .. h - 1
    /\ \A l \in 0 .. h - 1 : Follows(H, at, k, l, N[n].skip[l])

\* N is a head and one node for each key of H, which at gives.
QuietList(N, H, h, at) ==
    /\ IsSeq(N) /\ Nil \notin DOMAIN N
    /\ QuietNode(N, H, at, 1, Nil, h)
    /\ \A k \in DOMAIN H : at[k] # 1 /\ QuietNode(N, H, at, at[k], k, H[k]) /\ N[at[k]].linked
    /\ \A n \in DOMAIN N \ {1} : \E k \in DOMAIN H : n = at[k]

\* What Create makes.
Created(e, k, h, links) ==
    /\ DOMAIN e = NodeFields /\ e.key = k /\ e.height = h /\ e.lock = NoOne
    /\ ~e.marked /\ ~e.dead /\ e.skip = [l \in 0 .. h - 1 |-> links[l]]

\* Create makes a node with these fields, linked or not.
LEMMA CreateFields ==
    ASSUME NEW k, NEW h, NEW links
    PROVE /\ Created(Create(k, h, links), k, h, links)
          /\ Created([Create(k, h, links) EXCEPT !.linked = TRUE], k, h, links)
          /\ [Create(k, h, links) EXCEPT !.linked = TRUE].linked
BY DEF Create, NodeFields, Created

\* The lists that the specification starts from are such lists.
LEMMA QuietIs ==
    ASSUME NEW H, NEW h, h \in 1 .. MaxHeight, DOMAIN H \subseteq Keys,
           \A k \in DOMAIN H : H[k] \in 1 .. h
    PROVE \E at : QuietList(Quiet(H, h), H, h, at)
<1> DEFINE D == DOMAIN H
           at == [k \in Keys |-> 1 + Cardinality({j \in DOMAIN H : j <= k})]
           After(k, l) == LET later == {j \in DOMAIN H : j > k /\ H[j] > l}
                          IN IF later = {} THEN Nil
                             ELSE at[CHOOSE j \in later : \A i \in later : j <= i]
           links(k) == [l \in Layers |-> After(k, l)]
           n == Cardinality(D)
           place == [i \in 1 .. n |-> CHOOSE k \in D : at[k] = i + 1]
           head1 == Create(Nil, h, links(Nil))
           rest == [i \in DOMAIN place |->
                       [Create(place[i], H[place[i]], links(place[i])) EXCEPT !.linked = TRUE]]
           N == <<head1>> \o rest
<1>1. N = Quiet(H, h)
  BY Zenon DEF Quiet
<1>2. D \subseteq Nat /\ IsFiniteSet(D)
  <2>1. D \in SUBSET Keys /\ Keys \subseteq Nat
    BY KeysAssumption, Zenon
  <2> QED
    BY <2>1, KeysAssumption, FS_Subset, ZenonT(60)
<1>3. /\ n \in Nat
      /\ \A k \in D : at[k] = 1 + Rank(D, k) /\ Rank(D, k) \in 1 .. n
      /\ \A i, k \in D : Rank(D, i) = Rank(D, k) => i = k
      /\ \A r \in 1 .. n : \E k \in D : Rank(D, k) = r
  <2>1. \A k \in D : at[k] = 1 + Rank(D, k)
    BY Zenon DEF Rank
  <2> HIDE DEF at
  <2>2. /\ n \in Nat
        /\ \A k \in D : Rank(D, k) \in 1 .. n
        /\ \A i, k \in D : Rank(D, i) = Rank(D, k) => i = k
        /\ \A r \in 1 .. n : \E k \in D : Rank(D, k) = r
    <3> HIDE DEF D
    <3> QED
      BY <1>2, Ranks, ZenonT(60)
  <2> QED
    BY <2>1, <2>2, Zenon
<1>4. ASSUME NEW k, NEW l PROVE Follows(H, at, k, l, After(k, l))
  <2> DEFINE later == Later(H, k, l)
  <2>1. /\ later = {} => After(k, l) = Nil
        /\ later # {} => After(k, l) = at[CHOOSE j \in later : \A i \in later : j <= i]
    BY Zenon DEF Later
  <2>2. later # {} => \E j \in later : \A i \in later : j <= i
    <3>1. later \subseteq Nat
      BY <1>2, Zenon DEF Later
    <3> HIDE DEF later
    <3> QED
      BY <3>1, Least, ZenonT(60)
  <2> HIDE DEF at, After
  <2> QED
    BY <2>1, <2>2, ZenonT(60) DEF Follows
<1>5. ASSUME NEW k, NEW l \in Layers PROVE Follows(H, at, k, l, links(k)[l])
  <2>1. links(k)[l] = After(k, l)
    BY Zenon
  <2> QED
    BY <2>1, <1>4, ZenonT(60)
<1> HIDE DEF After, links
<1>6. \A k : \A m : m \in 1 .. h => \A l \in 0 .. m - 1 : l \in Layers
  BY HeightAssumption, SMTT(30) DEF Layers
<1>7. \A i \in 1 .. n : place[i] \in D /\ at[place[i]] = i + 1
  <2>1. ASSUME NEW i \in 1 .. n PROVE \E k \in D : at[k] = i + 1
    <3>1. PICK k \in D : Rank(D, k) = i
      BY <1>3, Zenon
    <3>2. at[k] = 1 + i
      BY <1>3, <3>1, ZenonT(60)
    <3>3. 1 + i = i + 1
      OBVIOUS
    <3> QED
      BY <3>2, <3>3, ZenonT(60)
  <2> HIDE DEF at, D, n
  <2>2. ASSUME NEW i \in 1 .. n PROVE place[i] = CHOOSE k \in D : at[k] = i + 1
    BY Zenon
  <2> HIDE DEF place
  <2> QED
    BY <2>1, <2>2, Zenon
<1>8. ASSUME NEW k \in D
      PROVE Rank(D, k) \in 1 .. n /\ at[k] = Rank(D, k) + 1 /\ place[Rank(D, k)] = k
  <2> DEFINE r == Rank(D, k)
             k2 == place[r]
  <2>1. r \in 1 .. n /\ at[k] = 1 + r /\ k2 \in D /\ at[k2] = r + 1 /\ at[k2] = 1 + Rank(D, k2)
        /\ Rank(D, k2) \in 1 .. n
    BY <1>3, <1>7, ZenonT(60)
  <2> HIDE DEF at, place, D
  <2>2. Rank(D, k2) = r /\ at[k] = r + 1
    BY <1>3, <2>1, SMTT(30)
  <2> QED
    BY <1>3, <2>1, <2>2, ZenonT(60)
<1>9. DOMAIN place = 1 .. n
  BY ZenonT(60)
<1> HIDE DEF at, place, D, n
<1>10. /\ IsSeq(rest) /\ Len(rest) = n
       /\ \A i \in 1 .. n : rest[i] = [Create(place[i], H[place[i]], links(place[i]))
                                          EXCEPT !.linked = TRUE]
  <2>1. rest = [i \in 1 .. n |-> rest[i]]
    BY <1>9, ZenonT(60)
  <2>2. \A i \in 1 .. n : rest[i] = [Create(place[i], H[place[i]], links(place[i]))
                                        EXCEPT !.linked = TRUE]
    BY <1>9, ZenonT(60)
  <2> HIDE DEF rest
  <2> QED
    BY <1>3, <2>1, <2>2, FunctionIsSeq, SMTT(30)
<1> HIDE DEF rest
<1>11. /\ IsSeq(N) /\ Len(N) = n + 1 /\ N[1] = head1 /\ \A i \in 1 .. n : N[i + 1] = rest[i]
  BY <1>10, ConsIsSeq, SMTT(30)
<1> HIDE DEF N
<1>12. DOMAIN N = 1 .. n + 1 /\ Nil \notin DOMAIN N /\ 1 \in DOMAIN N
  BY <1>3, <1>11, SeqDomain, SMTT(30) DEF Nil
<1>13. QuietNode(N, H, at, 1, Nil, h)
  <2>1. /\ DOMAIN head1 = NodeFields /\ head1.key = Nil /\ head1.height = h /\ head1.lock = NoOne
        /\ ~head1.marked /\ ~head1.dead /\ head1.skip = [l \in 0 .. h - 1 |-> links(Nil)[l]]
    <3>1. Created(head1, Nil, h, links(Nil))
      BY CreateFields, ZenonT(60)
    <3> QED
      BY <3>1, ZenonT(60) DEF Created
  <2> HIDE DEF head1
  <2>2. \A l \in 0 .. h - 1 : l \in Layers
    BY HeightAssumption, SMTT(30) DEF Layers
  <2>3. DOMAIN head1.skip = 0 .. h - 1 /\ \A l \in 0 .. h - 1 : Follows(H, at, Nil, l, head1.skip[l])
    BY <1>5, <2>1, <2>2, ZenonT(60)
  <2> QED
    BY <1>11, <1>12, <2>1, <2>3, ZenonT(60) DEF QuietNode
<1>14. ASSUME NEW k \in DOMAIN H
       PROVE at[k] # 1 /\ QuietNode(N, H, at, at[k], k, H[k]) /\ N[at[k]].linked
  <2> DEFINE r == Rank(D, k)
             e == Create(k, H[k], links(k))
             d == [e EXCEPT !.linked = TRUE]
  <2>1. r \in 1 .. n /\ at[k] = r + 1 /\ place[r] = k
    BY <1>8, ZenonT(60) DEF D
  <2>2. N[at[k]] = d
    <3>1. N[at[k]] = [Create(place[r], H[place[r]], links(place[r])) EXCEPT !.linked = TRUE]
      BY <1>10, <1>11, <2>1, ZenonT(60)
    <3> HIDE DEF r
    <3> QED
      BY <2>1, <3>1, ZenonT(60)
  <2>3. at[k] # 1 /\ at[k] \in DOMAIN N
    BY <1>3, <1>12, <2>1, SMTT(30)
  <2>4. /\ DOMAIN d = NodeFields /\ d.key = k /\ d.height = H[k] /\ d.lock = NoOne
        /\ ~d.marked /\ ~d.dead /\ d.skip = [l \in 0 .. H[k] - 1 |-> links(k)[l]] /\ d.linked
    <3>1. Created(d, k, H[k], links(k)) /\ d.linked
      BY CreateFields, ZenonT(60)
    <3> QED
      BY <3>1, ZenonT(60) DEF Created
  <2> HIDE DEF d
  <2>5. \A l \in 0 .. H[k] - 1 : l \in Layers
    BY HeightAssumption, SMTT(30) DEF Layers
  <2>6. DOMAIN d.skip = 0 .. H[k] - 1 /\ \A l \in 0 .. H[k] - 1 : Follows(H, at, k, l, d.skip[l])
    BY <1>5, <2>4, <2>5, ZenonT(60)
  <2> QED
    BY <2>2, <2>3, <2>4, <2>6, ZenonT(60) DEF QuietNode
<1>15. ASSUME NEW m \in DOMAIN N \ {1} PROVE \E k \in DOMAIN H : m = at[k]
  <2>1. m - 1 \in 1 .. n /\ (m - 1) + 1 = m
    BY <1>3, <1>12, SMTT(30)
  <2>2. place[m - 1] \in D /\ at[place[m - 1]] = (m - 1) + 1
    BY <1>7, <2>1, ZenonT(60)
  <2> QED
    BY <2>1, <2>2, ZenonT(60) DEF D
<1>16. QuietList(N, H, h, at)
  BY <1>11, <1>12, <1>13, <1>14, <1>15, ZenonT(60) DEF QuietList
<1> QED
  BY <1>1, <1>16, ZenonT(60)

\* The nodes and threads of Init.
LEMMA InitIs ==
    ASSUME Init
    PROVE /\ \E H, h, at : /\ QuietList(node, H, h, at) /\ h \in 1 .. MaxHeight
                           /\ DOMAIN H \subseteq Nat \ {0}
                           /\ \A k \in DOMAIN H : H[k] \in 1 .. h
          /\ head = 1 /\ th = [t \in Threads |-> Idle]
<1>1. PICK l \in Lists : node = Quiet(l.heights, l.height)
  BY ZenonT(60) DEF Init
<1>2. /\ l.height \in 1 .. MaxHeight /\ DOMAIN l.heights \subseteq Keys
      /\ \A k \in DOMAIN l.heights : l.heights[k] \in 1 .. l.height
  BY ListsAssumption, ZenonT(60)
<1>3. \E at : QuietList(node, l.heights, l.height, at)
  BY <1>1, <1>2, QuietIs, ZenonT(60)
<1>4. DOMAIN l.heights \subseteq Nat \ {0}
  BY <1>2, KeysAssumption, ZenonT(60)
<1> QED
  BY <1>2, <1>3, <1>4, ZenonT(60) DEF Init

\* A list that nobody works on links forwards.
LEMMA QuietNodes ==
    ASSUME NEW N, NEW H, NEW h, NEW at, QuietList(N, H, h, at), h \in 1 .. MaxHeight,
           DOMAIN H \subseteq Nat \ {0}, \A k \in DOMAIN H : H[k] \in 1 .. h
    PROVE IsNodes(N) /\ IsHead(N, 1) /\ \A n \in DOMAIN N : N[n].lock = NoOne
<1>1. ASSUME NEW n, NEW k, k \in Nat, NEW g, g \in 1 .. MaxHeight, QuietNode(N, H, at, n, k, g)
      PROVE IsNode(N, n)
  <2>1. ASSUME NEW l \in 0 .. g - 1 PROVE Link(N, n, l)
    <3> DEFINE x == N[n].skip[l]
    <3>1. Follows(H, at, k, l, x) /\ N[n].key = k
      BY <1>1, ZenonT(60) DEF QuietNode
    <3>2. CASE x = Nil
      BY <3>2, ZenonT(60) DEF Link
    <3>3. CASE x # Nil
      <4>1. PICK j \in Later(H, k, l) : x = at[j]
        BY <3>1, <3>3, ZenonT(60) DEF Follows
      <4>2. j \in DOMAIN H /\ j > k /\ H[j] > l
        BY <4>1, ZenonT(60) DEF Later
      <4>3. QuietNode(N, H, at, x, j, H[j])
        BY <4>1, <4>2, ZenonT(60) DEF QuietList
      <4>4. x \in DOMAIN N /\ N[x].key = j /\ N[x].height = H[j]
        BY <4>3, Zenon DEF QuietNode
      <4>5. k < j /\ l < H[j]
        BY <4>2, Zenon
      <4> HIDE DEF x
      <4>6. N[n].key < N[x].key /\ l < N[x].height
        BY <3>1, <4>4, <4>5, ZenonT(60)
      <4> QED
        BY <4>4, <4>6, ZenonT(60) DEF Link, x
    <3> QED
      BY <3>2, <3>3, ZenonT(60)
  <2> QED
    BY <1>1, <2>1, ZenonT(60) DEF IsNode, QuietNode
<1>2. \A k \in DOMAIN H : H[k] \in 1 .. MaxHeight /\ k \in Nat
  BY HeightAssumption, SMTT(30)
<1>3. Nil \in Nat
  BY DEF Nil
<1>4. ASSUME NEW n \in DOMAIN N PROVE IsNode(N, n) /\ N[n].lock = NoOne
  <2>1. CASE n = 1
    <3>1. QuietNode(N, H, at, 1, Nil, h)
      BY Zenon DEF QuietList
    <3> QED
      BY <1>1, <1>3, <2>1, <3>1, ZenonT(60) DEF QuietNode
  <2>2. CASE n # 1
    <3>1. PICK k \in DOMAIN H : n = at[k]
      BY <2>2, Zenon DEF QuietList
    <3>2. QuietNode(N, H, at, n, k, H[k])
      BY <3>1, Zenon DEF QuietList
    <3> QED
      BY <1>1, <1>2, <3>2, ZenonT(60) DEF QuietNode
  <2> QED
    BY <2>1, <2>2, ZenonT(60)
<1>5. IsHead(N, 1)
  BY Zenon DEF QuietList, QuietNode, IsHead
<1> QED
  BY <1>4, <1>5, ZenonT(60) DEF IsNodes, QuietList

\* The invariant holds at the start.
LEMMA InitInv == ASSUME Init PROVE Inv
<1>1. PICK H, h, at : /\ QuietList(node, H, h, at) /\ h \in 1 .. MaxHeight
                      /\ DOMAIN H \subseteq Nat \ {0}
                      /\ \A k \in DOMAIN H : H[k] \in 1 .. h
  BY InitIs, Zenon
<1>2. IsNodes(node) /\ IsHead(node, 1) /\ \A n \in DOMAIN node : node[n].lock = NoOne
  BY <1>1, QuietNodes, ZenonT(60)
<1>3. head = 1 /\ th = [t \in Threads |-> Idle]
  BY InitIs, Zenon
<1>4. ASSUME NEW t \in Threads PROVE Local(node, head, th[t], t)
  <2>1. th[t] = Idle
    BY <1>3, Zenon
  <2>2. Shape(Idle) /\ Knows(node, head, Idle) /\ Holding(Idle) = {}
    BY IdleShape, AtRest, ZenonT(60) DEF Shape
  <2>3. LocksOf(node, t) = {}
    BY <1>2, NoOneAssumption, ZenonT(60) DEF LocksOf
  <2> QED
    BY <2>1, <2>2, <2>3, ZenonT(60) DEF Local
<1> QED
  BY <1>2, <1>3, <1>4, ZenonT(60) DEF Inv

\* The inductive invariant holds for any number of threads, keys and layers.
THEOREM Invariant == Spec => []Inv
<1>1. Inv /\ [Next]_vars => Inv'
  <2> SUFFICES ASSUME Inv, [Next]_vars PROVE Inv'
    OBVIOUS
  <2>1. CASE Next
    BY <2>1, StepsKeepInv, ZenonT(60) DEF Next
  <2>2. CASE UNCHANGED vars
    <3>1. UNCHANGED <<node, head, th>>
      BY <2>2, Zenon DEF vars, list
    <3> QED
      BY <3>1, StutterKeepsInv, ZenonT(60)
  <2> QED
    BY <2>1, <2>2, ZenonT(60)
<1> QED
  BY <1>1, InitInv, PTL DEF Spec

\* The link that a thread is about to load exists on the node where it stands:
\* DCHECK_LT(layer, height_) in SkipListNode::skip never fails, whoever replaces the
\* head by a taller one (growHeight) and whoever links and unlinks meanwhile.
THEOREM LoadedLinksExist == Spec => []LinkExists
<1>1. Inv => LinkExists
  BY InvLinks, ZenonT(60)
<1> QED
  BY <1>1, Invariant, PTL

\* A thread that waits for a lock (lockNodesForChange, remove, growHeight) holds only
\* locks of greater keys, and one that waits for a node to be linked holds none: no
\* circle of threads waits for each other.
THEOREM WaitingIsOrdered == Spec => []LocksDescend
<1>1. Inv => LocksDescend
  BY InvLocks, Zenon
<1> QED
  BY <1>1, Invariant, PTL
=============================================================================
