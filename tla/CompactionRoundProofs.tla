----------------------- MODULE CompactionRoundProofs -----------------------
(***************************************************************************)
(* The commits of compaction tasks and the rounds of the worker keep the      *)
(* invariant of CompactionProofs; the theorems about Compaction that follow   *)
(* from it; and the counter behind the backpressure.                        *)
(***************************************************************************)
EXTENDS CompactionProofs

-----------------------------------------------------------------------------
(* A commit *)

\* Task t is the next of level l to commit, and the first c places hold its inputs.
InFront(l, t, c) ==
    /\ t \in Open(l) /\ \A u \in Open(l) : t <= u
    /\ IsFront(levels[l], tasks[l][t].inputs, c) /\ c \in Nat
    /\ \A x \in tasks[l][t].inputs : \E j \in 1..c : j \in DOMAIN levels[l] /\ x = levels[l][j]
    /\ \A i \in DOMAIN levels[l] : i \in Nat /\ (i > c => levels[l][i] \notin tasks[l][t].inputs)

\* A task that may commit has its inputs in front.
LEMMA CommitsInFront ==
    ASSUME Inv, NEW l \in Levels, NEW t \in DOMAIN tasks[l], turn[l] = t - 1
    PROVE \E c \in 0..Len(levels[l]) : InFront(l, t, c)
<1>1. PICK X : X = tasks[l][t].inputs
  BY Zenon
<1>2. PICK s : s = levels[l] /\ IsSeq(s) /\ DOMAIN s = 1..Len(s) /\ Len(s) \in Nat
  BY SeqDomain, Zenon DEF Inv, Shape
<1>3. t \in Nat /\ turn[l] \in Nat /\ \A u \in DOMAIN tasks[l] : u \in Nat
  BY SeqDomain DEF Inv, Shape
<1>4. t \in Open(l) /\ \A u \in Open(l) : t <= u /\ (u <= t => u = t)
  BY <1>3 DEF Open
<1>5. ASSUME NEW j \in 1..Len(s), s[j] \in X, NEW i \in 1..j PROVE s[i] \in X
  <2>1. Queue(l)
    BY Zenon DEF Inv
  <2>2. PICK u \in Open(l) : u <= t /\ s[i] \in tasks[l][u].inputs
    BY <1>1, <1>2, <1>4, <1>5, <2>1, Zenon DEF Queue
  <2> QED
    BY <1>1, <1>4, <2>2, Zenon
<1>6. PICK c : IsFront(s, X, c)
  BY <1>2, <1>5, FrontExists, ZenonT(60)
<1>7. c \in 0..Len(s) /\ c \in Nat
  BY <1>2, <1>6 DEF IsFront
<1>8. ASSUME NEW i \in DOMAIN s, i > c PROVE s[i] \notin X
  BY <1>2, <1>6, <1>7, <1>8 DEF IsFront
<1>9. ASSUME NEW x \in X PROVE \E j \in 1..c : j \in DOMAIN s /\ x = s[j]
  <2>1. X \subseteq {s[i] : i \in DOMAIN s}
    BY <1>1, <1>2, <1>4, SMTT(30) DEF Inv, Queue
  <2>2. PICK j \in DOMAIN s : x = s[j]
    BY <2>1, Zenon
  <2>3. ~(j > c)
    BY <1>8, <2>2, Zenon
  <2>4. j \in 1..c
    BY <1>2, <1>7, <2>3
  <2> QED
    BY <2>2, <2>4, Zenon
<1>10. \A i \in DOMAIN s : i \in Nat
  BY <1>2
<1> QED
  BY <1>1, <1>2, <1>4, <1>6, <1>7, <1>8, <1>9, <1>10, Zenon DEF InFront

\* The output is not one of the SSTs that were picked: it holds two of them.
LEMMA OutputIsNew ==
    ASSUME Inv, NEW l \in Levels, NEW t \in Open(l)
    PROVE /\ UNION tasks[l][t].inputs \notin picked
          /\ UNION tasks[l][t].inputs # {} /\ UNION tasks[l][t].inputs \subseteq 1..flushed
<1>1. PICK X : X = tasks[l][t].inputs
  BY Zenon
<1>2. t \in DOMAIN tasks[l]
  BY Zenon DEF Open
<1>3. PICK a \in X, b \in X : a # b
  BY <1>1, <1>2 DEF Inv, InputsApart
<1>4. ASSUME NEW x \in X PROVE \E i \in DOMAIN levels[l] : x = levels[l][i]
  BY <1>1, Zenon DEF Inv, Queue
<1>5. PICK i \in DOMAIN levels[l] : a = levels[l][i]
  BY <1>4, Zenon
<1>6. PICK j \in DOMAIN levels[l] : b = levels[l][j]
  BY <1>4, Zenon
<1>7. Disjoint
  BY Zenon DEF Inv
<1>8. a # {} /\ b # {} /\ \A x \in X : x \subseteq 1..flushed
  BY <1>4, <1>5, <1>6, <1>7 DEF Disjoint
<1>9. ASSUME UNION X \in picked PROVE FALSE
  <2>1. PICK m \in Levels : \E k \in DOMAIN levels[m] : UNION X \subseteq levels[m][k]
    BY <1>9, Zenon DEF Inv, Covered
  <2>2. PICK k \in DOMAIN levels[m] : UNION X \subseteq levels[m][k]
    BY <2>1, Zenon
  <2>3. a \cap levels[m][k] # {} /\ b \cap levels[m][k] # {}
    BY <1>3, <1>8, <2>2, Zenon
  <2>4. i = k /\ j = k /\ l = m
    BY <1>5, <1>6, <1>7, <2>3 DEF Disjoint
  <2> QED
    BY <1>3, <1>5, <1>6, <2>4, Zenon
<1> QED
  BY <1>1, <1>3, <1>8, <1>9, Zenon

\* The output is of the right age where it goes.
LEMMA CommitFits ==
    ASSUME Inv, NEW l \in Levels, NEW t \in DOMAIN tasks[l], NEW c, InFront(l, t, c),
           TasksKept, UNCHANGED flushed
    PROVE Fits(l, TargetLevel(l), c, UNION tasks[l][t].inputs)
<1>1. PICK X, d : X = tasks[l][t].inputs /\ d = TargetLevel(l)
  BY Zenon
<1>2. /\ UNION X # {} /\ UNION X \subseteq 1..flushed'
      /\ 1..flushed \subseteq 1..flushed' /\ 1..flushed' \subseteq 1..flushed \cup UNION X
  BY <1>1, OutputIsNew, ZenonT(60) DEF InFront
<1>3. \A i \in 1..c : levels[l][i] \subseteq UNION X
  BY <1>1, Zenon DEF InFront, IsFront
<1>4. \A x \in X : \E j \in 1..c : j \in DOMAIN levels[l] /\ x = levels[l][j]
  BY <1>1, Zenon DEF InFront
<1>5. c \in Nat /\ \A j \in 1..c : j <= c
  BY DEF InFront
<1>6. ASSUME NEW m \in Levels, NEW i \in Survivors(m, l, c)
      PROVE i \in DOMAIN levels[m] /\ (m = l => i \in Nat /\ i > c)
  BY Zenon DEF Survivors, InFront
<1>7. ASSUME NEW m \in Levels, NEW i \in Survivors(m, l, c), NEW x \in X
      PROVE levels[m][i] \cap x = {}
  <2>1. PICK j \in 1..c : j \in DOMAIN levels[l] /\ x = levels[l][j]
    BY <1>4, Zenon
  <2>2. ~(m = l /\ i = j)
    BY <1>5, <1>6
  <2> QED
    BY <1>6, <2>1, <2>2, Zenon DEF Inv, Disjoint
<1>8. ASSUME NEW m \in Levels, NEW i \in Survivors(m, l, c), NEW x \in X, m > l
      PROVE Newer(x, levels[m][i])
  <2>0. l < m
    BY <1>8, LevelNumbers, Zenon
  <2>1. PICK j \in 1..c : j \in DOMAIN levels[l] /\ x = levels[l][j]
    BY <1>4, Zenon
  <2> QED
    BY <1>6, <2>0, <2>1, Zenon DEF Inv, LevelsByAge
<1>9. ASSUME NEW m \in Levels, NEW i \in Survivors(m, l, c), NEW x \in X, m < l
      PROVE Newer(levels[m][i], x)
  <2>1. PICK j \in 1..c : j \in DOMAIN levels[l] /\ x = levels[l][j]
    BY <1>4, Zenon
  <2> QED
    BY <1>6, <1>9, <2>1, Zenon DEF Inv, LevelsByAge
<1>10. ASSUME NEW i \in Survivors(l, l, c), NEW x \in X, l # LastLevel
       PROVE Newer(levels[l][i], x)
  <2>1. PICK j \in 1..c : j \in DOMAIN levels[l] /\ x = levels[l][j]
    BY <1>4, Zenon
  <2>2. i > j
    BY <1>5, <1>6
  <2> QED
    BY <1>6, <1>10, <2>1, <2>2, Zenon DEF Inv, SortedByAge
<1>11. ASSUME NEW m \in Levels, NEW i \in Survivors(m, l, c)
       PROVE /\ (\A x \in X : Newer(x, levels[m][i])) => Newer(UNION X, levels[m][i])
             /\ (\A x \in X : Newer(levels[m][i], x)) => Newer(levels[m][i], UNION X)
             /\ levels[m][i] \cap UNION X = {}
  BY <1>7, Zenon DEF Newer
<1>12. /\ l \in Nat /\ LastLevel \in Nat
       /\ (l = LastLevel /\ d = l) \/ (l < LastLevel /\ d = l + 1)
  BY <1>1, LevelNumbers, Zenon
<1>13. ASSUME NEW m \in Levels, NEW i \in Survivors(m, l, c), m < d
       PROVE Newer(levels[m][i], UNION X)
  <2>1. m \in Nat
    BY LevelNumbers, Zenon
  <2>2. m < l \/ (m = l /\ l # LastLevel)
    BY <1>12, <1>13, <2>1
  <2> QED
    BY <1>9, <1>10, <1>11, <2>2, Zenon
<1>14. ASSUME NEW m \in Levels, NEW i \in Survivors(m, l, c), m > l
       PROVE Newer(UNION X, levels[m][i])
  BY <1>8, <1>11, <1>14, Zenon
<1>15. ASSUME NEW m \in Levels, NEW i \in Survivors(m, l, c), m > d
       PROVE Newer(UNION X, levels[m][i])
  <2>1. m \in Nat
    BY LevelNumbers, Zenon
  <2>2. m > l
    BY <1>12, <1>15, <2>1, SMTT(30)
  <2> QED
    BY <1>14, <2>2, Zenon
<1>16. ASSUME NEW m \in Levels, NEW i \in Survivors(m, l, c), m = d, d = LastLevel => tasks'[d] = <<>>
       PROVE Newer(UNION X, levels[m][i])
  <2>1. CASE l < LastLevel
    <3>1. m > l
      BY <1>12, <1>16, <2>1
    <3> QED
      BY <1>14, <3>1, Zenon
  <2>2. CASE l = LastLevel
    <3>1. d = l
      BY <1>12, <2>2
    <3>2. DOMAIN tasks'[l] = DOMAIN tasks[l]
      BY Zenon DEF TasksKept, SameTasks
    <3>3. tasks'[l] = <<>>
      BY <1>16, <2>2, <3>1, Zenon
    <3> QED
      BY <3>2, <3>3, SMTT(30)
  <2> QED
    BY <1>12, <2>1, <2>2, Zenon
<1>17. Fits(l, d, c, UNION X)
  BY <1>2, <1>3, <1>11, <1>13, <1>15, <1>16, Zenon DEF Fits
<1> QED
  BY <1>1, <1>17, Zenon

\* A commit erases the front and pushes the output.
LEMMA CommitMerges ==
    ASSUME Inv, NEW l \in Levels, NEW t \in DOMAIN tasks[l], NEW c \in 0..Len(levels[l]),
           InFront(l, t, c), levels' = Replaced(l, tasks[l][t].inputs)
    PROVE IsMerged(l, TargetLevel(l), c, UNION tasks[l][t].inputs)
<1>1. PICK X, d, out : X = tasks[l][t].inputs /\ d = TargetLevel(l) /\ out = UNION X
  BY Zenon
<1>2. PICK erased : erased = [levels EXCEPT ![l] = Erase(levels[l], X)]
  BY Zenon
<1>3. levels' = [erased EXCEPT ![d] = Append(@, out)]
  BY <1>1, <1>2, Zenon DEF Replaced
<1>4. /\ erased = [m \in Levels |-> erased[m]] /\ erased[l] = Erase(levels[l], X)
      /\ \A m \in Levels : m # l => erased[m] = levels[m]
  BY <1>2, Zenon DEF Inv, Shape
<1>5. ASSUME NEW m \in Levels PROVE IsRest(erased[m], levels[m], Shift(m, l, c))
  <2>1. PICK s : s = levels[m] /\ IsSeq(s) /\ Len(s) \in Nat
    BY SeqDomain, Zenon DEF Inv, Shape
  <2>2. CASE m = l
    <3>1. IsFront(s, X, c)
      BY <1>1, <2>1, <2>2, Zenon DEF InFront
    <3>2. IsRest(Erase(s, X), s, c)
      BY <2>1, <3>1, EraseFront, Zenon
    <3> QED
      BY <1>4, <2>1, <2>2, <3>2, Zenon DEF Shift
  <2>3. CASE m # l
    <3>1. IsRest(s, s, 0)
      BY <2>1 DEF IsRest
    <3> QED
      BY <1>4, <2>1, <2>3, <3>1, Zenon DEF Shift
  <2> QED
    BY <2>2, <2>3, Zenon
<1>6. d \in Levels /\ Shape
  BY <1>1, LevelNumbers, Zenon DEF Inv
<1>7. IsMerged(l, d, c, out)
  BY <1>3, <1>4, <1>5, <1>6, AppendMerges, Zenon
<1> QED
  BY <1>1, <1>7, Zenon

\* The committed task leaves the queue with its inputs.
LEMMA CommitSeparates ==
    ASSUME Inv, NEW l \in Levels, NEW t \in DOMAIN tasks[l], NEW c, InFront(l, t, c), TasksKept,
           turn[l] = t - 1, turn' = [turn EXCEPT ![l] = @ + 1], NEW m \in Levels
    PROVE Separates(m, l, c)
<1>1. DOMAIN tasks'[m] = DOMAIN tasks[m] /\ \A u \in DOMAIN tasks[m] : u \in Nat
  BY SeqDomain, SMTT(30) DEF Inv, Shape, TasksKept, SameTasks
<1>2. turn \in [Levels -> Nat] /\ DOMAIN tasks[l] = 1..Len(tasks[l]) /\ Len(tasks[l]) \in Nat
  BY SeqDomain, Zenon DEF Inv, Shape
<1>3. turn'[m] = IF m = l THEN t ELSE turn[m]
  BY <1>2
<1>4. turn'[m] \in 0..Len(tasks[m])
  <2>1. turn[m] \in 0..Len(tasks[m])
    BY Zenon DEF Inv, Queue
  <2>2. t \in 0..Len(tasks[l])
    BY <1>2
  <2> QED
    BY <1>3, <2>1, <2>2, Zenon
<1>5. CASE m # l
  <2>1. Open(m)' = Open(m) /\ Survivors(m, l, c) = DOMAIN levels[m]
    BY <1>1, <1>3, <1>5, Zenon DEF Open, Survivors
  <2> QED
    BY <1>4, <2>1, Zenon DEF Separates
<1>6. CASE m = l
  <2>1. \A u : u \in Open(l)' <=> u \in Open(l) /\ u # t
    BY <1>1, <1>2, <1>3, <1>6, SMTT(30) DEF Open
  <2>2. ASSUME NEW i \in DOMAIN levels[l], NEW u \in Open(l)', levels[l][i] \in tasks[l][u].inputs
        PROVE i \in Survivors(l, l, c)
    <3>1. u \in DOMAIN tasks[l] /\ u # t
      BY <2>1, Zenon DEF Open
    <3>2. tasks[l][u].inputs \cap tasks[l][t].inputs = {}
      BY <3>1, Zenon DEF Inv, InputsApart
    <3>3. levels[l][i] \notin tasks[l][t].inputs
      BY <2>2, <3>2, Zenon
    <3>4. i \in Nat /\ i >= 1 /\ c \in Nat
      BY SeqDomain DEF InFront, Inv, Shape
    <3>5. ~(i \in 1..c)
      BY <3>3, Zenon DEF InFront, IsFront
    <3>6. i > c
      BY <3>4, <3>5
    <3> QED
      BY <3>6, Zenon DEF Survivors
  <2>3. ASSUME NEW i \in Survivors(l, l, c), NEW u \in Open(l), levels[l][i] \in tasks[l][u].inputs
        PROVE u \in Open(l)'
    <3>1. levels[l][i] \notin tasks[l][t].inputs
      BY Zenon DEF Survivors, InFront
    <3> QED
      BY <2>1, <2>3, <3>1, Zenon
  <2> QED
    BY <1>4, <1>6, <2>1, <2>2, <2>3, Zenon DEF Separates
<1> QED
  BY <1>5, <1>6, Zenon

\* The last level stays empty until the first task of the level above commits.
LEMMA CommitDiscards ==
    ASSUME Inv, NEW l \in Levels, NEW t \in Open(l), NEW c \in 0..Len(levels[l]), NEW out,
           IsMerged(l, TargetLevel(l), c, out), TasksKept, UNCHANGED created,
           turn' = [turn EXCEPT ![l] = @ + 1]
    PROVE FirstDiscards'
<1>1. PICK e, d : e = LastLevel /\ d = TargetLevel(l)
  BY Zenon
<1>2. /\ e \in Levels /\ e - 1 \in Levels /\ e - 1 # e /\ d \in Levels
      /\ l = e \/ l = e - 1 \/ d # e
  BY <1>1, LevelNumbers
<1>3. turn \in [Levels -> Nat]
  BY Zenon DEF Inv, Shape
<1>4. ASSUME turn'[e - 1] = 0 PROVE levels'[e] = <<>>
  <2>1. l # e - 1 /\ turn[e - 1] = 0
    BY <1>2, <1>3, <1>4, SMTT(30)
  <2>2. levels[e] = <<>>
    BY <1>1, <2>1, Zenon DEF Inv, FirstDiscards
  <2>3. l # e
    <3>1. SUFFICES ASSUME l = e PROVE FALSE
      BY Zenon
    <3>2. tasks[l][t].inputs \subseteq {levels[l][i] : i \in DOMAIN levels[l]}
      BY Zenon DEF Inv, Queue
    <3>3. \E a \in tasks[l][t].inputs : TRUE
      BY Zenon DEF Inv, InputsApart, Open
    <3> QED
      BY <2>2, <3>1, <3>2, <3>3
  <2>4. d # e
    BY <1>2, <2>1, <2>3, Zenon
  <2>5. IsSeq(levels'[e]) /\ Len(levels'[e]) = (Len(levels[e]) - 0) + 0
    BY <1>1, <1>2, <2>3, <2>4, ZenonT(60) DEF IsMerged, Shift
  <2>6. Len(levels'[e]) = 0
    BY <2>2, <2>5
  <2> QED
    BY <2>5, <2>6 DEF IsSeq
<1>5. ASSUME NEW m \in Levels
      PROVE /\ DOMAIN tasks'[m] = DOMAIN tasks[m]
            /\ tasks'[m] # <<>> => tasks[m] # <<>>
            /\ \A u \in DOMAIN tasks[m] : tasks'[m][u].discard = tasks[m][u].discard
  <2>1. IsSeq(tasks[m]) /\ IsSeq(tasks'[m]) /\ Len(tasks'[m]) = Len(tasks[m])
    BY Zenon DEF Inv, Shape, TasksKept, SameTasks
  <2>2. tasks'[m] # <<>> => tasks[m] # <<>>
    BY <2>1 DEF IsSeq
  <2> QED
    BY <2>2, Zenon DEF TasksKept, SameTasks
<1> QED
  BY <1>1, <1>4, <1>5, Zenon DEF Inv, FirstDiscards

\* A merge that drops tombstones has the oldest SSTs there are.
LEMMA CommitResurrection ==
    ASSUME Inv, NEW l \in Levels, NEW t \in DOMAIN tasks[l], NEW c, InFront(l, t, c),
           turn[l] = t - 1, Placed(l, TargetLevel(l), c, UNION tasks[l][t].inputs),
           Fits(l, TargetLevel(l), c, UNION tasks[l][t].inputs),
           collected' = collected \cup IF tasks[l][t].discard THEN UNION tasks[l][t].inputs ELSE {}
    PROVE NoResurrection'
<1>1. PICK X, d, out : X = tasks[l][t].inputs /\ d = TargetLevel(l) /\ out = UNION X
  BY Zenon
<1>2. Placed(l, d, c, out) /\ Fits(l, d, c, out) /\ d \in Levels
  BY <1>1, LevelNumbers, ZenonT(60)
<1>3. ASSUME NEW g \in collected, g \notin out PROVE \A f \in out : f > g
  <2>1. ASSUME NEW x \in X PROVE x \in Ssts
    BY <1>1 DEF InFront, Ssts
  <2>2. ASSUME NEW x \in X PROVE \A f \in x : f > g
    BY <1>1, <1>3, <2>1, Zenon DEF Inv, NoResurrection
  <2> QED
    BY <1>1, <2>2, Zenon
<1>4. ASSUME tasks[l][t].discard, NEW m \in Levels, NEW i \in Survivors(m, l, c)
      PROVE Newer(levels[m][i], out)
  <2>1. l = LastLevel - 1 /\ t = 1
    BY <1>4, Zenon DEF Inv, FirstDiscards
  <2>2. d = LastLevel
    BY <1>1, <2>1, LevelNumbers, ZenonT(60)
  <2>3. turn[LastLevel - 1] = 0
    BY <2>1
  <2>4. levels[LastLevel] = <<>>
    BY <2>3, Zenon DEF Inv, FirstDiscards
  <2>5. m # LastLevel
    BY <2>4 DEF Survivors
  <2>6. m < d
    BY <2>2, <2>5, LevelNumbers, Zenon
  <2> QED
    BY <1>2, <2>6, Zenon DEF Fits
<1>5. \/ collected' = collected
      \/ /\ collected' = collected \cup out
         /\ \A m \in Levels : \A i \in Survivors(m, l, c) : Newer(levels[m][i], out)
  BY <1>1, <1>4, ZenonT(60)
<1>6. NoResurrection
  BY Zenon DEF Inv
<1> QED
  BY <1>2, <1>3, <1>5, <1>6, MergedResurrection, ZenonT(60)

\* A commit keeps the invariant.
LEMMA CommitInv == ASSUME Inv, NEW l \in Levels, NEW t \in DOMAIN tasks[l], Commit(l, t) PROVE Inv'
<1>1. /\ turn[l] = t - 1 /\ turn' = [turn EXCEPT ![l] = @ + 1] /\ UNCHANGED created
      /\ levels' = Replaced(l, tasks[l][t].inputs) /\ UNCHANGED flushed
      /\ UNCHANGED <<picked, errored, snapshot>>
      /\ collected' = collected \cup IF tasks[l][t].discard THEN UNION tasks[l][t].inputs ELSE {}
  BY Zenon DEF Commit
<1>2. TasksKept
  BY GotoKeeps, Zenon DEF Commit, Inv
<1>3. PICK c \in 0..Len(levels[l]) : InFront(l, t, c)
  BY <1>1, CommitsInFront, Zenon
<1>4. PICK d, out : d = TargetLevel(l) /\ out = UNION tasks[l][t].inputs
  BY Zenon
<1>5. IsMerged(l, d, c, out)
  BY <1>1, <1>3, <1>4, CommitMerges, Zenon
<1>6. Fits(l, d, c, out)
  BY <1>1, <1>2, <1>3, <1>4, CommitFits, Zenon
<1>7. t \in Open(l)
  BY <1>3, Zenon DEF InFront
<1>8. out \notin picked /\ out \subseteq 1..flushed
  BY <1>4, <1>7, OutputIsNew, ZenonT(60)
<1>9. d \in Levels /\ Shape
  BY <1>4, LevelNumbers, Zenon DEF Inv
<1>10. \A i \in 1..c : levels[l][i] \in picked
  <2>1. \A i \in 1..c : levels[l][i] \in tasks[l][t].inputs
    BY <1>3, Zenon DEF InFront, IsFront
  <2>2. tasks[l][t].inputs \subseteq picked
    BY Zenon DEF Inv, InputsApart
  <2> QED
    BY <2>1, <2>2, Zenon
<1>11. turn' \in [Levels -> Nat] /\ flushed' \in Nat
  BY <1>1, <1>9 DEF Shape
<1>12. collected' \subseteq 1..flushed'
  BY <1>1, <1>4, <1>8, <1>9, Zenon DEF Shape
<1>13. \A m \in Levels : Separates(m, l, c)
  BY <1>1, <1>2, <1>3, CommitSeparates, Zenon
<1>14. FirstDiscards'
  BY <1>1, <1>2, <1>4, <1>5, <1>7, CommitDiscards, ZenonT(60)
<1>15. Placed(l, d, c, out)
  BY <1>5, <1>9, MergedPlaces, Zenon
<1>16. NoResurrection'
  BY <1>1, <1>3, <1>4, <1>6, <1>15, CommitResurrection, ZenonT(60)
<1>17. /\ IsMerged(l, d, c, out) /\ Fits(l, d, c, out) /\ out \notin picked
       /\ \A i \in 1..c : levels[l][i] \in picked
       /\ UNCHANGED <<picked, errored, snapshot>>
  BY <1>1, <1>5, <1>6, <1>8, <1>10, Zenon
<1> QED
  BY <1>2, <1>9, <1>11, <1>12, <1>13, <1>14, <1>16, <1>17, MergedInv, ZenonT(60)

-----------------------------------------------------------------------------
(* A round of the worker *)

\* A copy of the levels fits them.
LEMMA SnapshotInv == ASSUME Inv, Snapshot PROVE Inv'
<1>1. ASSUME NEW l \in Levels PROVE SnapshotFits(l)'
  <2>1. PICK s : s = levels[l] /\ IsSeq(s) /\ DOMAIN s = 1..Len(s) /\ Len(s) \in Nat
    BY SeqDomain, Zenon DEF Inv, Shape
  <2>2. snapshot'[1][l] = s /\ levels'[l] = s /\ picked' = picked
    BY <2>1, Zenon DEF Snapshot
  <2>3. \A q \in DOMAIN s : q + 0 = q /\ q <= Len(s)
    BY <2>1
  <2>4. 0 \in 0..Len(s) /\ 1..0 = {} /\ Len(s) - 0 <= Len(s)
    BY <2>1
  <2>5. \A q \in DOMAIN s : IF q + 0 <= Len(s) THEN s[q] = s[q + 0] ELSE s[q] \notin picked
    BY <2>3, Zenon
  <2> QED
    BY <2>1, <2>2, <2>4, <2>5, Zenon DEF SnapshotFits
<1>2. (Shape /\ Disjoint /\ Complete /\ Covered /\ InputsApart)'
  BY SMTT(30) DEF Snapshot, Inv, Shape, Disjoint, Complete, Covered, InputsApart
<1>3. \A l \in Levels : Queue(l)'
  BY SMTT(30) DEF Snapshot, Inv, Queue, Open
<1>4. (LevelsByAge /\ SortedByAge /\ FirstDiscards /\ NoResurrection)'
  BY DEF Snapshot, Inv, LevelsByAge, SortedByAge, FirstDiscards, NoResurrection, Ssts
<1> QED
  BY <1>1, <1>2, <1>3, <1>4, Zenon DEF Inv

\* The positions in a bucket.
Slice(x) == {x[k] : k \in DOMAIN x}

\* The buckets B as sets of positions: pickable, two or more, one bucket behind the
\* other, and nothing pickable is left out between a bucket and those before it.
IsSliced(flags, B) ==
    /\ IsSeq(B)
    /\ \A b \in DOMAIN B : /\ Slice(B[b]) \subseteq 1..Len(flags) /\ \A x \in Slice(B[b]) : flags[x]
                           /\ \E x, y \in Slice(B[b]) : x # y
    /\ \A b, e \in DOMAIN B : b < e => \A x \in Slice(B[b]) : \A y \in Slice(B[e]) : x < y
    /\ \A b \in DOMAIN B : \A j \in Slice(B[b]) : \A i \in 1..j : AllPickable(flags, i, j) =>
          \E e \in DOMAIN B : e <= b /\ i \in Slice(B[e])

\* The positions from p to q, as a bucket.
LEMMA SliceOfPositions ==
    ASSUME NEW x, IsSeq(x), NEW p \in Nat, NEW q \in Nat, p <= q, Positions(x, p, q)
    PROVE Slice(x) = p..q
<1>1. PICK n \in Nat : n = Len(x) /\ DOMAIN x = 1..n /\ n = q - p + 1
  BY SeqDomain, Zenon DEF Positions
<1>2. \A k \in 1..n : x[k] = p + k - 1
  BY <1>1, Zenon DEF Positions
<1>3. \A k \in 1..n : x[k] \in p..q
  BY <1>1, <1>2
<1>4. ASSUME NEW y \in p..q PROVE \E k \in 1..n : y = x[k]
  <2>1. (y - p) + 1 \in 1..n /\ p + ((y - p) + 1) - 1 = y
    BY <1>1
  <2> QED
    BY <1>2, <2>1, Zenon
<1> QED
  BY <1>1, <1>3, <1>4, Zenon DEF Slice

\* create_buckets_from_level makes such buckets.
LEMMA BucketsAreSliced ==
    ASSUME NEW flags, Len(flags) \in Nat, NEW min \in Nat \ {0, 1}, NEW max \in Nat \ {0}
    PROVE IsSliced(flags, PickBuckets(flags, min, max))
<1>1. PICK B : B = PickBuckets(flags, min, max)
  BY Zenon
<1>2. PICK n \in Nat : n = Len(flags)
  BY Zenon
<1>3. B \in Seq(Seq(Nat)) /\ Settled(flags, min, max, B, n + 1) /\ (n + 1) - 1 = n
  BY <1>1, <1>2, PicksThePieces
<1>4. IsSeq(B) /\ DOMAIN B \subseteq Nat /\ \A b \in DOMAIN B : IsSeq(B[b])
  <2>1. \A S, s : s \in Seq(S) => IsSeq(s)
    <3>1. SUFFICES ASSUME NEW S, NEW s \in Seq(S) PROVE IsSeq(s)
      BY Zenon
    <3>2. Len(s) \in Nat /\ s \in [1..Len(s) -> S]
      OBVIOUS
    <3> QED
      BY <3>2, FunctionIsSeq
  <2>2. \A b \in DOMAIN B : B[b] \in Seq(Nat)
    BY <1>3
  <2>3. IsSeq(B)
    BY <1>3, <2>1, Zenon
  <2> QED
    BY <2>1, <2>2, <2>3, SeqDomain, SMTT(30)
<1>5. ASSUME NEW b \in DOMAIN B
      PROVE \E q \in 1..n : \E p \in 1..q :
               /\ IsPiece(flags, min, max, p, q) /\ Slice(B[b]) = p..q
               /\ B[b][1] = p /\ B[b][Len(B[b])] = q
  <2>1. \E q \in 1..n : \E p \in 1..q : IsPiece(flags, min, max, p, q) /\ Positions(B[b], p, q)
    BY <1>3, Zenon DEF Settled
  <2>2. ASSUME NEW q \in 1..n, NEW p \in 1..q, Positions(B[b], p, q)
        PROVE Slice(B[b]) = p..q /\ B[b][1] = p /\ B[b][Len(B[b])] = q
    <3>1. p \in Nat /\ q \in Nat /\ p <= q
      OBVIOUS
    <3>2. PICK x : x = B[b] /\ IsSeq(x) /\ Positions(x, p, q)
      BY <1>4, <2>2, Zenon
    <3> QED
      BY <3>1, <3>2, SliceOfPositions, FirstAndLast, Zenon
  <2> QED
    BY <2>1, <2>2, Zenon
<1>6. ASSUME NEW b \in DOMAIN B
      PROVE /\ Slice(B[b]) \subseteq 1..n /\ \A x \in Slice(B[b]) : flags[x]
            /\ \E x, y \in Slice(B[b]) : x # y
  <2>1. PICK q \in 1..n : \E p \in 1..q : IsPiece(flags, min, max, p, q) /\ Slice(B[b]) = p..q
    BY <1>5, Zenon
  <2>2. PICK p \in 1..q : IsPiece(flags, min, max, p, q) /\ Slice(B[b]) = p..q
    BY <2>1, Zenon
  <2>3. q - p + 1 \in min..max /\ AllPickable(flags, p, q)
    BY <2>2, Zenon DEF IsPiece
  <2>4. p \in p..q /\ p + 1 \in p..q /\ p # p + 1 /\ p..q \subseteq 1..n
    BY <2>3
  <2> QED
    BY <2>2, <2>3, <2>4, Zenon DEF AllPickable
<1>7. ASSUME NEW b \in DOMAIN B, NEW e \in DOMAIN B, b < e
      PROVE \A x \in Slice(B[b]) : \A y \in Slice(B[e]) : x < y
  <2>1. PICK q \in 1..n : \E p \in 1..q : Slice(B[b]) = p..q /\ B[b][Len(B[b])] = q
    BY <1>5, Zenon
  <2>2. PICK z \in 1..n : \E r \in 1..z : Slice(B[e]) = r..z /\ B[e][1] = r
    BY <1>5, Zenon
  <2>3. B[b][Len(B[b])] < B[e][1]
    BY <1>3, <1>7, Zenon DEF Settled
  <2> QED
    BY <2>1, <2>2, <2>3, SMTT(30)
<1>8. ASSUME NEW b \in DOMAIN B, NEW j \in Slice(B[b]), NEW i \in 1..j, AllPickable(flags, i, j)
      PROVE \E e \in DOMAIN B : e <= b /\ i \in Slice(B[e])
  <2>1. PICK q \in 1..n : \E p \in 1..q : IsPiece(flags, min, max, p, q) /\ Slice(B[b]) = p..q
    BY <1>5, Zenon
  <2>2. PICK p \in 1..q : IsPiece(flags, min, max, p, q) /\ Slice(B[b]) = p..q
    BY <2>1, Zenon
  <2>3. j \in p..q /\ q \in Nat /\ min \in Nat
    BY <2>2
  <2>4. PICK z \in 1..q : \E r \in 1..z : IsPiece(flags, min, max, r, z) /\ i \in r..z
    BY <1>8, <2>2, <2>3, PiecesCover, Zenon
  <2>5. PICK r \in 1..z : IsPiece(flags, min, max, r, z) /\ i \in r..z
    BY <2>4, Zenon
  <2>6. z \in 1..n
    OBVIOUS
  <2>7. PICK e \in DOMAIN B : Positions(B[e], r, z)
    BY <1>3, <2>5, <2>6, Zenon DEF Settled
  <2>8. i \in Slice(B[e])
    <3>1. r \in Nat /\ z \in Nat /\ r <= z
      OBVIOUS
    <3>2. PICK x : x = B[e] /\ IsSeq(x) /\ Positions(x, r, z)
      BY <1>4, <2>7, Zenon
    <3> QED
      BY <2>5, <3>1, <3>2, SliceOfPositions, SMTT(30)
  <2>9. ~(b < e)
    <3>1. SUFFICES ASSUME b < e PROVE FALSE
      BY Zenon
    <3>2. j < i
      BY <1>7, <2>8, <3>1, Zenon
    <3> QED
      BY <2>3, <3>2
  <2>10. b \in Nat /\ e \in Nat
    BY <1>4, Zenon
  <2> QED
    BY <2>8, <2>9, <2>10, SMTT(30)
<1> QED
  BY <1>1, <1>2, <1>4, <1>6, <1>7, <1>8, SMTT(30) DEF IsSliced

\* What a round finds on level m, in terms of the level as it is now.
IsFound(m, f) ==
    /\ IsSeq(f)
    /\ \A b \in DOMAIN f : /\ f[b] \subseteq {levels[m][i] : i \in DOMAIN levels[m]}
                           /\ f[b] \cap picked = {} /\ \E x, y \in f[b] : x # y
    /\ \A b, e \in DOMAIN f : f[b] \cap f[e] # {} => b = e
    /\ \A b \in DOMAIN f : \A j \in DOMAIN levels[m] : levels[m][j] \in f[b] =>
          \A i \in 1..j : levels[m][i] \in picked \/ \E e \in DOMAIN f : e <= b /\ levels[m][i] \in f[e]

\* Flags of a level.
LEMMA FlagsOf ==
    ASSUME NEW s, IsSeq(s)
    PROVE /\ IsSeq(Flags(s)) /\ Len(Flags(s)) = Len(s) /\ Len(s) \in Nat /\ DOMAIN Flags(s) = 1..Len(s)
          /\ \A i \in 1..Len(s) : Flags(s)[i] <=> s[i] \notin picked /\ s[i] \notin errored
<1>1. PICK n \in Nat : n = Len(s) /\ DOMAIN s = 1..n
  BY SeqDomain, Zenon
<1>2. PICK g : g = [i \in 1..n |-> Pickable(s[i])]
  BY Zenon
<1>3. g = Flags(s) /\ g = [i \in 1..n |-> g[i]]
  BY <1>1, <1>2, Zenon DEF Flags
<1>4. IsSeq(g) /\ Len(g) = n /\ DOMAIN g = 1..n
  BY <1>3, FunctionIsSeq, Zenon
<1>5. \A i \in 1..n : g[i] <=> s[i] \notin picked /\ s[i] \notin errored
  BY <1>2, ZenonT(60) DEF Pickable
<1> QED
  BY <1>1, <1>3, <1>4, <1>5, Zenon

\* The widths of a round.
LEMMA Widths ==
    ASSUME NEW s, IsSeq(s), NEW compactAll \in BOOLEAN
    PROVE MinOf(compactAll) \in Nat \ {0, 1} /\ MaxOf(compactAll, s) \in Nat \ {0}
BY SeqDomain, WidthAssumption DEF MinOf, MaxOf

\* A round that works from a stale copy finds SSTs that are there now, that nobody
\* picked, and that follow what was picked before.
LEMMA FindsWhatIsThere ==
    ASSUME Inv, snapshot # <<>>, NEW m \in Levels, NEW compactAll \in BOOLEAN
    PROVE IsFound(m, BucketsOf(m, compactAll))
<1>1. PICK old : old = snapshot[1][m] /\ IsSeq(old)
  BY Zenon DEF Inv, SnapshotFits
<1>2. PICK s : s = levels[m] /\ IsSeq(s)
  BY Zenon DEF Inv, Shape
<1>3. PICK a \in Nat, n \in Nat : a = Len(s) /\ DOMAIN s = 1..a /\ n = Len(old)
  BY <1>1, <1>2, SeqDomain, Zenon
<1>4. PICK d \in 0..n :
         /\ \A i \in 1..d : old[i] \in picked
         /\ n - d <= a
         /\ \A q \in 1..a : q + d <= n => s[q] = old[q + d]
  <2>1. SnapshotFits(m)
    BY Zenon DEF Inv
  <2> QED
    BY <1>1, <1>2, <1>3, <2>1, ZenonT(60) DEF SnapshotFits
<1>5. PICK flags : flags = Flags(old)
  BY Zenon
<1>6. /\ Len(flags) = n
      /\ \A x \in 1..n : flags[x] <=> old[x] \notin picked /\ old[x] \notin errored
  BY <1>1, <1>3, <1>5, FlagsOf, Zenon
<1>7. errored \subseteq picked
  BY Zenon DEF Inv, Covered
<1>8. \A x \in 1..n : flags[x] <=> old[x] \notin picked
  BY <1>6, <1>7, Zenon
<1>9. PICK B : B = PickBuckets(flags, MinOf(compactAll), MaxOf(compactAll, old)) /\ IsSliced(flags, B)
  BY <1>1, <1>3, <1>6, Widths, BucketsAreSliced, Zenon
<1>10. PICK f : f = BucketsOf(m, compactAll)
  BY Zenon
<1>11. /\ IsSeq(f) /\ DOMAIN f = DOMAIN B
       /\ \A b \in DOMAIN B : f[b] = {old[x] : x \in Slice(B[b])}
  <2>1. f = [b \in DOMAIN B |-> {old[B[b][k]] : k \in DOMAIN B[b]}]
    BY <1>1, <1>5, <1>9, <1>10, Zenon DEF BucketsOf
  <2>2. \A b \in DOMAIN B : {old[B[b][k]] : k \in DOMAIN B[b]} = {old[x] : x \in Slice(B[b])}
    BY Zenon DEF Slice
  <2>3. DOMAIN B = 1..Len(B) /\ Len(B) \in Nat
    BY <1>9, SeqDomain, Zenon DEF IsSliced
  <2>4. f = [b \in 1..Len(B) |-> f[b]]
    BY <2>1, <2>3, Zenon
  <2>5. IsSeq(f)
    BY <2>3, <2>4, FunctionIsSeq, Zenon
  <2> QED
    BY <2>1, <2>2, <2>5, ZenonT(60)
<1>12. ASSUME NEW x \in 1..n, flags[x] PROVE x - d \in 1..a /\ s[x - d] = old[x] /\ old[x] \notin picked
  <2>1. old[x] \notin picked
    BY <1>8, <1>12, Zenon
  <2>2. ~(x \in 1..d)
    BY <1>4, <2>1, Zenon
  <2>3. x - d \in 1..a /\ (x - d) + d = x /\ x <= n
    BY <1>4, <2>2
  <2> QED
    BY <1>4, <2>1, <2>3, Zenon
<1>13. ASSUME NEW i \in 1..a, NEW j \in 1..a, s[i] = s[j] PROVE i = j
  BY <1>2, <1>3, <1>13, SMTT(30) DEF Inv, Disjoint
<1>14. ASSUME NEW x \in 1..n, NEW y \in 1..n, flags[x], flags[y], old[x] = old[y] PROVE x = y
  <2>1. x - d = y - d
    BY <1>12, <1>13, <1>14, Zenon
  <2> QED
    BY <1>4, <2>1
<1>15. ASSUME NEW b \in DOMAIN B, NEW x \in Slice(B[b]) PROVE x \in 1..n /\ flags[x]
  BY <1>6, <1>9, Zenon DEF IsSliced
<1>16. ASSUME NEW b \in DOMAIN B
       PROVE /\ f[b] \subseteq {s[i] : i \in DOMAIN s} /\ f[b] \cap picked = {}
             /\ \E x, y \in f[b] : x # y
  <2>1. ASSUME NEW v \in f[b] PROVE v \in {s[i] : i \in DOMAIN s} /\ v \notin picked
    <3>1. PICK x \in Slice(B[b]) : v = old[x]
      BY <1>11, Zenon
    <3> QED
      BY <1>3, <1>12, <1>15, <3>1, Zenon
  <2>2. PICK x \in Slice(B[b]), y \in Slice(B[b]) : x # y
    BY <1>9, Zenon DEF IsSliced
  <2>3. old[x] # old[y] /\ old[x] \in f[b] /\ old[y] \in f[b]
    BY <1>11, <1>14, <1>15, <2>2, SMTT(30)
  <2> QED
    BY <2>1, <2>3, Zenon
<1>17. ASSUME NEW b \in DOMAIN B, NEW e \in DOMAIN B, f[b] \cap f[e] # {} PROVE b = e
  <2>1. PICK x \in Slice(B[b]), y \in Slice(B[e]) : old[x] = old[y]
    BY <1>11, <1>17, SMTT(30)
  <2>2. x = y /\ x \in Nat
    BY <1>14, <1>15, <2>1, SMTT(30)
  <2>3. ~(b < e) /\ ~(e < b)
    <3>1. b < e => x < y
      BY <1>9 DEF IsSliced
    <3>2. e < b => y < x
      BY <1>9 DEF IsSliced
    <3> QED
      BY <2>2, <3>1, <3>2, SMTT(30)
  <2>4. b \in Nat /\ e \in Nat
    BY <1>9, SeqDomain, SMTT(30) DEF IsSliced
  <2> QED
    BY <2>3, <2>4, SMTT(30)
<1>18. ASSUME NEW b \in DOMAIN B, NEW j \in 1..a, s[j] \in f[b], NEW i \in 1..j, s[i] \notin picked
       PROVE \E e \in DOMAIN B : e <= b /\ s[i] \in f[e]
  <2>1. PICK x \in Slice(B[b]) : s[j] = old[x]
    BY <1>11, <1>18
  <2>2. x \in 1..n /\ flags[x]
    BY <1>15, Zenon
  <2>3. x - d = j
    BY <1>12, <1>13, <2>1, <2>2, ZenonT(60)
  <2>4. j + d = x /\ i + d \in 1..x
    BY <1>4, <2>2, <2>3, SMTT(30)
  <2>5. ASSUME NEW k \in i..j PROVE s[k] \notin picked
    <3>1. SUFFICES ASSUME s[k] \in picked PROVE FALSE
      BY Zenon
    <3>2. k \in 1..a /\ i \in 1..k
      BY <1>3
    <3>3. Queue(m)
      BY Zenon DEF Inv
    <3>4. PICK t \in Open(m) : s[k] \in tasks[m][t].inputs
      BY <1>2, <1>3, <3>1, <3>2, <3>3, Zenon DEF Queue
    <3>5. PICK u \in Open(m) : s[i] \in tasks[m][u].inputs
      BY <1>2, <1>3, <3>2, <3>3, <3>4, ZenonT(60) DEF Queue
    <3>6. tasks[m][u].inputs \subseteq picked
      BY Zenon DEF Inv, InputsApart, Open
    <3> QED
      BY <1>18, <3>5, <3>6, Zenon
  <2>6. ASSUME NEW y \in (i + d)..x PROVE flags[y]
    <3>1. y - d \in i..j /\ y - d \in 1..a /\ (y - d) + d = y /\ y \in 1..n
      BY <1>3, <1>4, <2>2, <2>4, SMTT(30)
    <3>2. s[y - d] = old[y] /\ s[y - d] \notin picked
      BY <1>4, <2>5, <3>1, SMTT(30)
    <3> QED
      BY <1>8, <3>1, <3>2, Zenon
  <2>7. AllPickable(flags, i + d, x)
    BY <2>6, Zenon DEF AllPickable
  <2>8. PICK e \in DOMAIN B : e <= b /\ i + d \in Slice(B[e])
    BY <1>9, <2>4, <2>7, ZenonT(60) DEF IsSliced
  <2>9. s[i] = old[i + d]
    BY <1>3, <1>4, <2>2, <2>4, SMTT(30)
  <2> QED
    BY <1>11, <2>8, <2>9, Zenon
<1>19. IsFound(m, f)
  BY <1>2, <1>3, <1>11, <1>16, <1>17, <1>18, SMTT(30) DEF IsFound
<1> QED
  BY <1>10, <1>19, Zenon

\* The task r is the one of bucket b.
IsNewTask(r, m, f, b) ==
    /\ IsTask(r) /\ r.inputs = f[b] /\ r.discard = CanDiscard(m, b) /\ r.pc = "merge"

\* Level m gets a task for each bucket, behind those it has.
IsLaunched(m, f) ==
    /\ IsSeq(tasks'[m]) /\ Len(tasks'[m]) = Len(tasks[m]) + Len(f)
    /\ \A t \in DOMAIN tasks[m] : t \in DOMAIN tasks'[m] /\ tasks'[m][t] = tasks[m][t]
    /\ \A b \in DOMAIN f :
          /\ Len(tasks[m]) + b \in DOMAIN tasks'[m]
          /\ IsNewTask(tasks'[m][Len(tasks[m]) + b], m, f, b)
    /\ \A t \in DOMAIN tasks'[m] :
          t \in DOMAIN tasks[m] \/ \E b \in DOMAIN f : t = Len(tasks[m]) + b
    /\ \A b \in DOMAIN f : b \in Nat /\ b >= 1
    /\ Len(tasks[m]) \in Nat

\* The tasks of a round.
LEMMA LaunchAppends ==
    ASSUME Shape, NEW m \in Levels, NEW f, IsSeq(f), tasks'[m] = tasks[m] \o TasksOf(m, f)
    PROVE IsLaunched(m, f)
<1>1. PICK s, g, u : s = tasks[m] /\ g = TasksOf(m, f) /\ u = tasks'[m]
  BY Zenon
<1>2. IsSeq(s) /\ DOMAIN f = 1..Len(f) /\ Len(f) \in Nat /\ DOMAIN s = 1..Len(s) /\ Len(s) \in Nat
  BY <1>1, SeqDomain, Zenon DEF Shape
<1>3. DOMAIN g = 1..Len(f) /\ g = [b \in 1..Len(f) |-> g[b]]
  BY <1>1, <1>2, Zenon DEF TasksOf
<1>4. IsSeq(g) /\ Len(g) = Len(f)
  BY <1>2, <1>3, FunctionIsSeq, Zenon
<1>5. u = s \o g
  BY <1>1, Zenon
<1>6. /\ IsSeq(u) /\ Len(u) = Len(s) + Len(f)
      /\ \A i \in 1..Len(s) : u[i] = s[i]
      /\ \A i \in 1..Len(f) : u[Len(s) + i] = g[i]
  <2>1. IsConcat(u, s, g)
    BY <1>2, <1>4, <1>5, ConcatIsSeq, Zenon
  <2> QED
    BY <1>4, <2>1, Zenon DEF IsConcat
<1>7. PICK a \in Nat, b \in Nat : a = Len(s) /\ b = Len(f)
  BY <1>2, ZenonT(60)
<1>8. DOMAIN u = 1..(a + b)
  BY <1>6, <1>7, SeqDomain, Zenon
<1>9. /\ \A t \in 1..a : t \in 1..(a + b)
      /\ \A e \in 1..b : a + e \in 1..(a + b)
      /\ \A e \in 1..b : e \in Nat /\ e >= 1
  OBVIOUS
<1>10. ASSUME NEW t \in 1..(a + b) PROVE t \in 1..a \/ \E e \in 1..b : t = a + e
  <2>1. t \in 1..a \/ (t - a \in 1..b /\ a + (t - a) = t)
    OBVIOUS
  <2> QED
    BY <2>1, Zenon
<1>11. /\ IsSeq(u) /\ Len(u) = Len(s) + Len(f) /\ Len(s) \in Nat
       /\ \A t \in DOMAIN s : t \in DOMAIN u /\ u[t] = s[t]
       /\ \A e \in DOMAIN f : Len(s) + e \in DOMAIN u /\ IsNewTask(u[Len(s) + e], m, f, e)
       /\ \A t \in DOMAIN u : t \in DOMAIN s \/ \E e \in DOMAIN f : t = Len(s) + e
       /\ \A e \in DOMAIN f : e \in Nat /\ e >= 1
  <2>1. \A e \in DOMAIN f : IsNewTask(g[e], m, f, e)
    BY <1>1, Zenon DEF TasksOf, IsNewTask, IsTask
  <2> QED
    BY <1>2, <1>6, <1>7, <1>8, <1>9, <1>10, <2>1, ZenonT(60)
<1> QED
  BY <1>1, <1>11, Zenon DEF IsLaunched

\* picked grows by what was found.
IsPicked(f) ==
    \A x : x \in picked' <=> x \in picked \/ \E m \in Levels : \E b \in DOMAIN f[m] : x \in f[m][b]

\* No SST gets into two tasks.
LEMMA LaunchApart ==
    ASSUME Inv, NEW f, \A m \in Levels : IsFound(m, f[m]) /\ IsLaunched(m, f[m]), IsPicked(f)
    PROVE InputsApart'
<1>1. SUFFICES ASSUME NEW m \in Levels, NEW t \in DOMAIN tasks'[m]
      PROVE /\ tasks'[m][t].inputs \subseteq picked'
            /\ \E a, b \in tasks'[m][t].inputs : a # b
            /\ \A u \in DOMAIN tasks'[m] : tasks'[m][t].inputs \cap tasks'[m][u].inputs # {} => t = u
  BY Zenon DEF InputsApart
<1>2. PICK n : n = Len(tasks[m])
  BY Zenon
<1>3. ASSUME NEW u \in DOMAIN tasks'[m]
      PROVE \/ u \in DOMAIN tasks[m] /\ tasks'[m][u].inputs = tasks[m][u].inputs
            \/ \E b \in DOMAIN f[m] : u = n + b /\ tasks'[m][u].inputs = f[m][b]
  <2>1. CASE u \in DOMAIN tasks[m]
    BY <2>1, ZenonT(60) DEF IsLaunched
  <2>2. ASSUME NEW b \in DOMAIN f[m], u = n + b PROVE tasks'[m][u].inputs = f[m][b]
    BY <1>2, <2>2, ZenonT(60) DEF IsLaunched, IsNewTask
  <2> QED
    BY <1>2, <2>1, <2>2, ZenonT(60) DEF IsLaunched
<1>4. ASSUME NEW u \in DOMAIN tasks[m]
      PROVE tasks[m][u].inputs \subseteq picked /\ \E a, b \in tasks[m][u].inputs : a # b
  BY ZenonT(60) DEF Inv, InputsApart
<1>5. ASSUME NEW b \in DOMAIN f[m]
      PROVE f[m][b] \cap picked = {} /\ \E x, y \in f[m][b] : x # y
  BY SMTT(30) DEF IsFound
<1>6. tasks'[m][t].inputs \subseteq picked'
  BY <1>3, <1>4, ZenonT(60) DEF IsPicked
<1>7. \E a, b \in tasks'[m][t].inputs : a # b
  BY <1>3, <1>4, <1>5, SMTT(30)
<1>8. ASSUME NEW u \in DOMAIN tasks'[m], tasks'[m][t].inputs \cap tasks'[m][u].inputs # {} PROVE t = u
  <2>1. CASE t \in DOMAIN tasks[m] /\ tasks'[m][t].inputs = tasks[m][t].inputs
    <3>1. u \in DOMAIN tasks[m] /\ tasks'[m][u].inputs = tasks[m][u].inputs
      BY <1>3, <1>4, <1>5, <1>8, <2>1, ZenonT(60)
    <3> QED
      BY <1>8, <2>1, <3>1, ZenonT(60) DEF Inv, InputsApart
  <2>2. ASSUME NEW b \in DOMAIN f[m], t = n + b, tasks'[m][t].inputs = f[m][b] PROVE t = u
    <3>1. PICK e \in DOMAIN f[m] : u = n + e /\ tasks'[m][u].inputs = f[m][e]
      BY <1>3, <1>4, <1>5, <1>8, <2>2, Zenon
    <3>2. b = e
      BY <1>8, <2>2, <3>1, Zenon DEF IsFound
    <3> QED
      BY <2>2, <3>1, <3>2, ZenonT(60)
  <2> QED
    BY <1>3, <2>1, <2>2, ZenonT(60)
<1> QED
  BY <1>6, <1>7, <1>8, ZenonT(60)

\* The new tasks follow the old ones in the queue of their level.
LEMMA LaunchQueues ==
    ASSUME Inv, NEW f, \A m \in Levels : IsFound(m, f[m]) /\ IsLaunched(m, f[m]), IsPicked(f),
           UNCHANGED <<levels, turn>>, NEW m \in Levels
    PROVE Queue(m)'
<1>1. PICK n \in Nat : n = Len(tasks[m])
  BY Zenon DEF IsLaunched
<1>2. Queue(m) /\ turn[m] \in 0..n
  BY <1>1, Zenon DEF Inv, Queue
<1>3. ASSUME NEW t \in Open(m) PROVE t \in Open(m)' /\ tasks'[m][t] = tasks[m][t] /\ t \in 1..n
  <2>1. t \in DOMAIN tasks[m] /\ t > turn[m]
    BY Zenon DEF Open
  <2>2. t \in 1..n
    BY <1>1, <2>1, SeqDomain, Zenon DEF Inv, Shape
  <2> QED
    BY <2>1, <2>2, Zenon DEF Open, IsLaunched
<1>4. ASSUME NEW b \in DOMAIN f[m]
      PROVE n + b \in Open(m)' /\ tasks'[m][n + b].inputs = f[m][b] /\ b \in Nat /\ b >= 1
  <2>1. n + b \in DOMAIN tasks'[m] /\ tasks'[m][n + b].inputs = f[m][b] /\ b \in Nat /\ b >= 1
    BY <1>1, Zenon DEF IsLaunched, IsNewTask
  <2>2. n + b > turn[m]
    BY <1>2, <2>1
  <2> QED
    BY <2>1, <2>2, Zenon DEF Open
<1>5. ASSUME NEW t \in Open(m)' PROVE t \in Open(m) \/ \E b \in DOMAIN f[m] : t = n + b
  BY <1>1, Zenon DEF Open, IsLaunched
<1>6. turn'[m] \in 0..Len(tasks'[m])
  <2>1. Len(tasks'[m]) \in Nat /\ n <= Len(tasks'[m])
    <3>1. Len(tasks'[m]) = n + Len(f[m]) /\ IsSeq(f[m])
      BY <1>1, ZenonT(60) DEF IsLaunched, IsFound
    <3>2. Len(f[m]) \in Nat
      BY <3>1, SeqDomain, Zenon
    <3> QED
      BY <3>1, <3>2
  <2> QED
    BY <1>2, <2>1, SMTT(30)
<1>7. ASSUME NEW t \in Open(m)'
      PROVE tasks'[m][t].inputs \subseteq {levels'[m][i] : i \in DOMAIN levels'[m]}
  <2>1. CASE t \in Open(m)
    BY <1>2, <1>3, <2>1, Zenon DEF Queue
  <2>2. ASSUME NEW b \in DOMAIN f[m], t = n + b
        PROVE tasks'[m][t].inputs \subseteq {levels'[m][i] : i \in DOMAIN levels'[m]}
    BY <1>4, <2>2 DEF IsFound
  <2> QED
    BY <1>5, <2>1, <2>2, Zenon
<1>8. ASSUME NEW i \in DOMAIN levels[m], levels[m][i] \in picked'
      PROVE \E t \in Open(m)' : levels[m][i] \in tasks'[m][t].inputs
  <2>1. CASE levels[m][i] \in picked
    BY <1>2, <1>3, <2>1, Zenon DEF Queue
  <2>2. ASSUME NEW k \in Levels, NEW b \in DOMAIN f[k], levels[m][i] \in f[k][b]
        PROVE \E t \in Open(m)' : levels[m][i] \in tasks'[m][t].inputs
    <3>1. PICK j \in DOMAIN levels[k] : levels[m][i] = levels[k][j]
      BY <2>2 DEF IsFound
    <3>2. k = m
      BY <3>1 DEF Inv, Disjoint
    <3> QED
      BY <1>4, <2>2, <3>2, Zenon
  <2> QED
    BY <1>8, <2>1, <2>2, Zenon DEF IsPicked
<1>9. ASSUME NEW j \in DOMAIN levels[m], NEW u \in Open(m)', levels[m][j] \in tasks'[m][u].inputs,
             NEW i \in 1..j
      PROVE \E t \in Open(m)' : t <= u /\ levels[m][i] \in tasks'[m][t].inputs
  <2>1. CASE u \in Open(m)
    <3>1. PICK t \in Open(m) : t <= u /\ levels[m][i] \in tasks[m][t].inputs
      BY <1>2, <1>3, <1>9, <2>1, Zenon DEF Queue
    <3> QED
      BY <1>3, <3>1, Zenon
  <2>2. ASSUME NEW b \in DOMAIN f[m], u = n + b
        PROVE \E t \in Open(m)' : t <= u /\ levels[m][i] \in tasks'[m][t].inputs
    <3>1. levels[m][j] \in f[m][b]
      BY <1>4, <1>9, <2>2, Zenon
    <3>2. CASE levels[m][i] \in picked
      <4>1. i \in DOMAIN levels[m]
        <5>1. DOMAIN levels[m] = 1..Len(levels[m]) /\ Len(levels[m]) \in Nat
          BY SeqDomain, Zenon DEF Inv, Shape
        <5> QED
          BY <5>1
      <4>2. PICK t \in Open(m) : levels[m][i] \in tasks[m][t].inputs
        BY <1>2, <3>2, <4>1, Zenon DEF Queue
      <4>3. t <= u
        BY <1>3, <1>4, <2>2, SMTT(30)
      <4> QED
        BY <1>3, <4>2, <4>3, Zenon
    <3>3. ASSUME NEW e \in DOMAIN f[m], e <= b, levels[m][i] \in f[m][e]
          PROVE \E t \in Open(m)' : t <= u /\ levels[m][i] \in tasks'[m][t].inputs
      <4>1. n + e <= u
        BY <1>4, <2>2, <3>3, SMTT(30)
      <4> QED
        BY <1>4, <3>3, <4>1, Zenon
    <3> QED
      BY <3>1, <3>2, <3>3, Zenon DEF IsFound
  <2> QED
    BY <1>5, <2>1, <2>2, Zenon
<1> QED
  BY <1>6, <1>7, <1>8, <1>9, Zenon DEF Queue

\* Only the first task that merges into the last level drops tombstones.
LEMMA LaunchDiscards ==
    ASSUME Inv, NEW f, \A m \in Levels : IsFound(m, f[m]) /\ IsLaunched(m, f[m]),
           created' = created \cup {TargetLevel(l) : l \in {k \in Levels : f[k] # <<>>}},
           UNCHANGED <<levels, turn>>
    PROVE FirstDiscards'
<1>1. FirstDiscards
  BY Zenon DEF Inv
<1>2. ASSUME NEW m \in Levels, tasks'[m] # <<>> PROVE TargetLevel(m) \in created'
  <2>1. CASE tasks[m] # <<>>
    BY <1>1, <2>1, Zenon DEF FirstDiscards
  <2>2. CASE f[m] # <<>>
    BY <2>2, Zenon
  <2>3. CASE tasks[m] = <<>> /\ f[m] = <<>>
    <3>1. IsSeq(tasks'[m]) /\ Len(tasks'[m]) = 0
      <4>1. IsSeq(tasks'[m]) /\ Len(tasks'[m]) = Len(tasks[m]) + Len(f[m])
        BY Zenon DEF IsLaunched
      <4>2. Len(tasks[m]) = 0 /\ Len(f[m]) = 0
        BY <2>3, Zenon
      <4> QED
        BY <4>1, <4>2
    <3> QED
      BY <1>2, <3>1 DEF IsSeq
  <2> QED
    BY <2>1, <2>2, <2>3, Zenon
<1>3. ASSUME NEW m \in Levels, NEW t \in DOMAIN tasks'[m], tasks'[m][t].discard
      PROVE m = LastLevel - 1 /\ t = 1
  <2>1. CASE t \in DOMAIN tasks[m]
    BY <1>1, <1>3, <2>1, ZenonT(60) DEF FirstDiscards, IsLaunched
  <2>2. ASSUME NEW b \in DOMAIN f[m], t = Len(tasks[m]) + b PROVE m = LastLevel - 1 /\ t = 1
    <3>1. tasks'[m][t].discard = CanDiscard(m, b)
      BY <2>2, Zenon DEF IsLaunched, IsNewTask
    <3>2. /\ b = 1 /\ TargetLevel(m) \notin created
          /\ m + 1 = MaxNumLevels \/ m + 1 = LastLevel
      BY <1>3, <3>1, ZenonT(60) DEF CanDiscard
    <3>3. tasks[m] = <<>>
      BY <1>1, <3>2, Zenon DEF FirstDiscards
    <3>4. t = 1
      BY <2>2, <3>2, <3>3, SMTT(30)
    <3>5. m # LastLevel
      <4>1. SUFFICES ASSUME m = LastLevel PROVE FALSE
        BY Zenon
      <4>2. PICK e : e = LastLevel - 1 /\ e \in Levels /\ TargetLevel(e) = m /\ TargetLevel(m) = m
        BY <4>1, LevelNumbers, Zenon
      <4>3. levels[m] # <<>>
        BY DEF IsFound
      <4>4. turn[e] # 0
        BY <1>1, <4>1, <4>2, <4>3, ZenonT(60) DEF FirstDiscards
      <4>5. tasks[e] # <<>>
        BY <4>2, <4>4, SMTT(30) DEF Inv, Queue
      <4> QED
        BY <1>1, <3>2, <4>2, <4>5, Zenon DEF FirstDiscards
    <3>6. m = LastLevel - 1
      BY <3>2, <3>5, LevelsAssumption, SMTT(30) DEF LastLevel, Levels
    <3> QED
      BY <3>4, <3>6, Zenon
  <2> QED
    BY <2>1, <2>2, Zenon DEF IsLaunched
<1>4. turn'[LastLevel - 1] = 0 => levels'[LastLevel] = <<>>
  BY <1>1, Zenon DEF FirstDiscards
<1> QED
  BY <1>2, <1>3, <1>4, Zenon DEF FirstDiscards

\* A round keeps the invariant.
LEMMA LaunchInv == ASSUME Inv, Launch PROVE Inv'
<1>1. /\ snapshot # <<>> /\ snapshot' = <<>>
      /\ UNCHANGED <<levels, errored, turn, flushed, collected>>
  BY Zenon DEF Launch
<1>2. PICK compactAll \in BOOLEAN :
       \E g \in {[l \in Levels |-> BucketsOf(l, compactAll)]} :
          /\ tasks' = [l \in Levels |-> tasks[l] \o TasksOf(l, g[l])]
          /\ picked' = picked \cup UNION {SstsIn(g[l]) : l \in Levels}
          /\ created' = created \cup {TargetLevel(l) : l \in {k \in Levels : g[k] # <<>>}}
  BY Zenon DEF Launch
<1>3. PICK f :
          /\ f = [l \in Levels |-> BucketsOf(l, compactAll)]
          /\ tasks' = [l \in Levels |-> tasks[l] \o TasksOf(l, f[l])]
          /\ picked' = picked \cup UNION {SstsIn(f[l]) : l \in Levels}
          /\ created' = created \cup {TargetLevel(l) : l \in {k \in Levels : f[k] # <<>>}}
  BY <1>2, ZenonT(60)
<1>4. ASSUME NEW m \in Levels PROVE IsFound(m, f[m])
  BY <1>1, <1>3, FindsWhatIsThere, Zenon
<1>5. ASSUME NEW m \in Levels PROVE IsLaunched(m, f[m])
  <2>1. IsSeq(f[m])
    BY <1>4, Zenon DEF IsFound
  <2>2. tasks'[m] = tasks[m] \o TasksOf(m, f[m])
    BY <1>3, Zenon
  <2> QED
    BY <2>1, <2>2, LaunchAppends, ZenonT(60) DEF Inv
<1>6. IsPicked(f)
  BY <1>3 DEF IsPicked, SstsIn
<1>7. InputsApart'
  BY <1>4, <1>5, <1>6, LaunchApart, Zenon
<1>8. \A m \in Levels : Queue(m)'
  BY <1>1, <1>4, <1>5, <1>6, LaunchQueues, Zenon
<1>9. FirstDiscards'
  BY <1>1, <1>3, <1>4, <1>5, LaunchDiscards, Zenon
<1>10. Shape'
  <2>1. ASSUME NEW m \in Levels, NEW t \in DOMAIN tasks'[m] PROVE IsTask(tasks'[m][t])
    BY <1>5, Zenon DEF IsLaunched, IsNewTask, Inv, Shape
  <2>2. tasks' = [m \in Levels |-> tasks'[m]]
    BY <1>3, Zenon
  <2>3. \A m \in Levels : IsSeq(tasks'[m])
    BY <1>5, ZenonT(60) DEF IsLaunched
  <2> QED
    BY <1>1, <2>1, <2>2, <2>3, Zenon DEF Inv, Shape
<1>11. (Disjoint /\ Complete /\ LevelsByAge /\ NoResurrection)'
  BY <1>1 DEF Inv, Disjoint, Complete, LevelsByAge, NoResurrection, Ssts
<1>12. Covered'
  <2>1. ASSUME NEW p \in picked'
        PROVE \E l \in Levels : \E i \in DOMAIN levels[l] : p \subseteq levels[l][i]
    <3>1. CASE p \in picked
      BY <3>1, Zenon DEF Inv, Covered
    <3>2. ASSUME NEW m \in Levels, NEW b \in DOMAIN f[m], p \in f[m][b]
          PROVE \E l \in Levels : \E i \in DOMAIN levels[l] : p \subseteq levels[l][i]
      BY <1>4, <3>2 DEF IsFound
    <3> QED
      BY <1>6, <3>1, <3>2, Zenon DEF IsPicked
  <2>2. errored' \subseteq picked'
    BY <1>1, <1>6, Zenon DEF Inv, Covered, IsPicked
  <2> QED
    BY <1>1, <2>1, <2>2, Zenon DEF Covered
<1>13. ASSUME NEW m \in Levels, tasks'[m] = <<>> PROVE tasks[m] = <<>>
  <2>1. IsSeq(tasks[m]) /\ DOMAIN tasks[m] = {}
    BY <1>5, <1>13, SMTT(30) DEF IsLaunched, Inv, Shape
  <2> QED
    BY <2>1 DEF IsSeq
<1>14. SortedByAge'
  BY <1>1, <1>13, Zenon DEF Inv, SortedByAge
<1> QED
  BY <1>1, <1>7, <1>8, <1>9, <1>10, <1>11, <1>12, <1>14, ZenonT(60) DEF Inv

-----------------------------------------------------------------------------
(* The invariant, and what follows from it *)

\* The inductive step.
LEMMA NextInv == ASSUME Inv, [Next]_vars PROVE Inv'
<1>1. CASE Push
  BY <1>1, PushInv, Zenon
<1>2. CASE Snapshot
  BY <1>2, SnapshotInv, Zenon
<1>3. CASE Launch
  BY <1>3, LaunchInv, Zenon
<1>4. ASSUME NEW l \in Levels, NEW t \in DOMAIN tasks[l], Merge(l, t) PROVE Inv'
  <2>1. TasksKept
    BY <1>4, GotoKeeps, Zenon DEF Merge, Inv
  <2>2. errored' \subseteq picked
    BY <1>4, Zenon DEF Merge, Inv, Covered
  <2> QED
    BY <1>4, <2>1, <2>2, TasksKeptInv, Zenon DEF Merge
<1>5. ASSUME NEW l \in Levels, NEW t \in DOMAIN tasks[l], Commit(l, t) PROVE Inv'
  BY <1>5, CommitInv, Zenon
<1>6. ASSUME NEW l \in Levels, NEW t \in DOMAIN tasks[l], Count(l, t) PROVE Inv'
  <2>1. TasksKept
    BY <1>6, GotoKeeps, Zenon DEF Count, Inv
  <2>2. errored' \subseteq picked
    BY <1>6, Zenon DEF Count, Inv, Covered
  <2> QED
    BY <1>6, <2>1, <2>2, TasksKeptInv, Zenon DEF Count
<1>7. ASSUME NEW l \in Levels, NEW t \in DOMAIN tasks[l], MergeFails(l, t) PROVE Inv'
  <2>1. TasksKept
    BY <1>7, GotoKeeps, ZenonT(60) DEF MergeFails, Inv
  <2>2. errored' \subseteq picked
    BY <1>7, Zenon DEF MergeFails, Inv, Covered, InputsApart
  <2> QED
    BY <1>7, <2>1, <2>2, TasksKeptInv, Zenon DEF MergeFails
<1>8. CASE UNCHANGED vars
  <2>1. TasksKept
    BY <1>8, TasksUnchanged, Zenon DEF vars, Inv
  <2>2. errored' \subseteq picked
    BY <1>8, Zenon DEF vars, Inv, Covered
  <2> QED
    BY <1>8, <2>1, <2>2, TasksKeptInv, Zenon DEF vars
<1> QED
  BY <1>1, <1>2, <1>3, <1>4, <1>5, <1>6, <1>7, <1>8, ZenonT(60) DEF Next, SoundNext, TaskStep

\* Nothing is there at first.
LEMMA InitInv == ASSUME Init PROVE Inv
<1>1. /\ \A l \in Levels : levels[l] = <<>> /\ tasks[l] = <<>> /\ turn[l] = 0
      /\ levels = [l \in Levels |-> <<>>] /\ tasks = [l \in Levels |-> <<>>]
      /\ turn = [l \in Levels |-> 0] /\ picked = {} /\ errored = {} /\ snapshot = <<>>
      /\ flushed = 0 /\ collected = {}
  BY Zenon DEF Init
<1>2. IsSeq(<<>>) /\ Len(<<>>) = 0 /\ DOMAIN <<>> = {} /\ 1..0 = {}
  BY DEF IsSeq
<1>3. Shape
  BY <1>1, <1>2, Zenon DEF Shape
<1>4. Disjoint /\ Complete /\ Covered /\ InputsApart /\ LevelsByAge /\ SortedByAge
  BY <1>1, <1>2, Zenon DEF Disjoint, Complete, Covered, InputsApart, LevelsByAge, SortedByAge
<1>5. \A l \in Levels : Queue(l)
  BY <1>1, <1>2 DEF Queue, Open
<1>6. FirstDiscards /\ NoResurrection
  BY <1>1, <1>2, LevelNumbers, Zenon DEF FirstDiscards, NoResurrection
<1> QED
  BY <1>1, <1>3, <1>4, <1>5, <1>6, ZenonT(60) DEF Inv

\* The invariant holds in every state, for every number of levels, merge width,
\* threshold and number of flushes, and also when merges fail.
THEOREM InvAlways == Spec => []Inv
BY InitInv, NextInv, PTL DEF Spec

\* No round that works from a stale copy of the levels merges an SST a second time,
\* and no commit drops one: every flush is in exactly one SST (_make_compaction_task,
\* _schedule_compaction).
THEOREM NoFlushIsLostOrDoubled == Spec => []EachFlushOnce
<1>1. ASSUME Inv PROVE EachFlushOnce
  <2>1. SUFFICES ASSUME NEW f \in 1..flushed
                 PROVE \E l \in Levels : \E i \in DOMAIN levels[l] :
                          \A m \in Levels : \A j \in DOMAIN levels[m] :
                             f \in levels[m][j] <=> m = l /\ j = i
    BY Zenon DEF EachFlushOnce
  <2>2. PICK l \in Levels : \E i \in DOMAIN levels[l] : f \in levels[l][i]
    BY <1>1, Zenon DEF Inv, Complete
  <2>3. PICK i \in DOMAIN levels[l] : f \in levels[l][i]
    BY <2>2, Zenon
  <2>4. ASSUME NEW m \in Levels, NEW j \in DOMAIN levels[m]
        PROVE f \in levels[m][j] <=> m = l /\ j = i
    BY <1>1, <2>3 DEF Inv, Disjoint
  <2> QED
    BY <2>4, Zenon
<1> QED
  BY <1>1, InvAlways, PTL

\* Deleted keys stay deleted: when a merge drops tombstones, all that they could hide
\* is in the same merge (test_can_discard_keys, level_created).
THEOREM DeletedStaysDeleted == Spec => []NoResurrection
<1>1. Inv => NoResurrection
  BY Zenon DEF Inv
<1> QED
  BY <1>1, InvAlways, PTL

\* lookup_async may stop at the first SST that has the key: levels are always in the
\* order of time, and so are the SSTs of each level; of the last level this is said
\* only until it is merged into itself, because the outputs of several such merges
\* are pushed behind SSTs that they did not include.
THEOREM SearchGoesBackInTime == Spec => []SearchedNewestFirst
<1>1. ASSUME Inv PROVE SearchedNewestFirst
  <2>1. SUFFICES ASSUME NEW l \in Levels, NEW m \in Levels, NEW i \in DOMAIN levels[l],
                        NEW j \in DOMAIN levels[m],
                        l < m \/ (l = m /\ i > j /\ (l = LastLevel => tasks[l] = <<>>))
                 PROVE Newer(levels[l][i], levels[m][j])
    BY Zenon DEF SearchedNewestFirst, Newer
  <2>2. LevelsByAge /\ SortedByAge
    BY <1>1, ZenonT(60) DEF Inv
  <2>3. CASE l < m
    BY <2>2, <2>3, Zenon DEF LevelsByAge
  <2>4. CASE l = m /\ i > j /\ (l = LastLevel => tasks[l] = <<>>)
    BY <2>2, <2>4, Zenon DEF SortedByAge
  <2> QED
    BY <2>1, <2>3, <2>4, Zenon
<1> QED
  BY <1>1, InvAlways, PTL

\* create_buckets_from_level cuts the runs of pickable SSTs into pieces of max_merge_width
\* and keeps those of min_merge_width or more, oldest first, whatever the level.
THEOREM RoundsCutRuns == Spec => []BucketsAreThePieces
<1>1. ASSUME NEW s, IsSeq(s), NEW compactAll \in BOOLEAN
      PROVE LET flags == Flags(s)
                min == MinOf(compactAll)
                max == MaxOf(compactAll, s)
                found == PickBuckets(flags, min, max)
            IN /\ \A b \in DOMAIN found :
                     found[b] = [k \in 1..Len(found[b]) |-> found[b][1] + k - 1]
               /\ {<<found[b][1], found[b][Len(found[b])]>> : b \in DOMAIN found}
                     = Pieces(flags, min, max)
               /\ \A b, c \in DOMAIN found : b < c => found[b][1] < found[c][1]
  <2>1. PICK flags, n : flags = Flags(s) /\ n = Len(s) /\ n \in Nat
                        /\ Len(flags) = n /\ DOMAIN flags = 1..n
    BY <1>1, FlagsOf, Zenon
  <2>2. PICK min, max : min = MinOf(compactAll) /\ max = MaxOf(compactAll, s)
                        /\ min \in Nat \ {0, 1} /\ max \in Nat \ {0}
    BY <1>1, Widths, Zenon
  <2>3. PICK B : B = PickBuckets(flags, min, max)
    BY Zenon
  <2>4. B \in Seq(Seq(Nat)) /\ Settled(flags, min, max, B, n + 1) /\ (n + 1) - 1 = n
    BY <2>1, <2>2, <2>3, PicksThePieces, SMTT(30)
  <2>5. ASSUME NEW b \in DOMAIN B
        PROVE \E q \in 1..n : \E p \in 1..q :
                 IsPiece(flags, min, max, p, q) /\ Positions(B[b], p, q)
    BY <2>4, Zenon DEF Settled
  <2>6. ASSUME NEW x, NEW q \in 1..n, NEW p \in 1..q, Positions(x, p, q)
        PROVE x[1] = p /\ x[Len(x)] = q /\ Len(x) \in Nat
    BY <2>1, <2>6, FirstAndLast, SMTT(30)
  <2>7. ASSUME NEW b \in DOMAIN B
        PROVE B[b] = [k \in 1..Len(B[b]) |-> B[b][1] + k - 1]
    <3>1. PICK x : x = B[b] /\ x \in Seq(Nat)
      BY <2>4
    <3>2. x[1] \in Nat /\ \A k \in 1..Len(x) : x[k] = x[1] + k - 1
      BY <2>5, <2>6, <3>1, SMTT(30) DEF Positions
    <3>3. x = [k \in 1..Len(x) |-> x[k]]
      BY <3>1, SMTT(30)
    <3> QED
      BY <3>1, <3>2, <3>3, Zenon
  <2>8. ASSUME NEW b \in DOMAIN B
        PROVE <<B[b][1], B[b][Len(B[b])]>> \in Pieces(flags, min, max)
    <3>1. PICK q \in 1..n : \E p \in 1..q : IsPiece(flags, min, max, p, q) /\ Positions(B[b], p, q)
      BY <2>5, Zenon
    <3>2. PICK p \in 1..q : IsPiece(flags, min, max, p, q) /\ Positions(B[b], p, q)
      BY <3>1, Zenon
    <3>3. B[b][1] = p /\ B[b][Len(B[b])] = q /\ p \in 1..n
      BY <2>1, <2>6, <3>2
    <3> QED
      BY <2>1, <3>2, <3>3, Zenon DEF Pieces
  <2>9. ASSUME NEW y \in Pieces(flags, min, max)
        PROVE \E b \in DOMAIN B : y = <<B[b][1], B[b][Len(B[b])]>>
    <3>1. PICK p \in 1..n, q \in 1..n : y = <<p, q>> /\ IsPiece(flags, min, max, p, q)
      BY <2>1 DEF Pieces
    <3>2. p \in 1..q
      BY <2>1, <2>2, <3>1, SMTT(30) DEF IsPiece
    <3>3. PICK b \in DOMAIN B : Positions(B[b], p, q)
      BY <2>4, <3>1, <3>2, ZenonT(60) DEF Settled
    <3> QED
      BY <2>6, <3>1, <3>2, <3>3, Zenon
  <2>10. ASSUME NEW b \in DOMAIN B, NEW c \in DOMAIN B, b < c PROVE B[b][1] < B[c][1]
    <3>1. B[b][Len(B[b])] < B[c][1]
      BY <2>4, <2>10, Zenon DEF Settled
    <3>2. PICK q \in 1..n : \E p \in 1..q : B[b][1] = p /\ B[b][Len(B[b])] = q
      BY <2>5, <2>6, Zenon
    <3>3. PICK z \in 1..n : \E r \in 1..z : B[c][1] = r
      BY <2>5, <2>6
    <3> QED
      BY <2>1, <3>1, <3>2, <3>3, SMTT(30)
  <2> QED
    BY <2>1, <2>2, <2>3, <2>7, <2>8, <2>9, <2>10, SMTT(30)
<1>2. ASSUME Inv PROVE BucketsAreThePieces
  <2>1. \A l \in Levels : IsSeq(levels[l])
    BY <1>2, Zenon DEF Inv, Shape
  <2> QED
    BY <1>1, <2>1, Zenon DEF BucketsAreThePieces
<1> QED
  BY <1>2, InvAlways, PTL

-----------------------------------------------------------------------------
(* The counter behind the backpressure *)

INSTANCE FiniteSetTheorems

\* The L0 SSTs that the tasks hold which are not over.
Unfinished == {u \in DOMAIN tasks[0] : tasks[0][u].pc # "done"}
Held0 == UNION {tasks[0][t].inputs : t \in Unfinished}

\* They are finitely many, the counter counts them, and writers are held up only
\* while it is at the threshold or above.
CounterInv ==
    /\ IsFiniteSet(Held0) /\ pending = Cardinality(Held0)
    /\ pressure => pending >= Threshold

\* Adding count to the counter keeps the part about the pressure.
LEMMA PressureKept ==
    ASSUME NEW count, UpdateCounter(count),
           pending' \in Nat
    PROVE pressure' => pending' >= Threshold
<1>1. pending' > Threshold => pending' >= Threshold
  BY ThresholdAssumption
<1>2. pressure' = IF pressure THEN pending' >= Threshold ELSE pending' > Threshold
  BY Zenon DEF UpdateCounter
<1>3. pressure' => IF pressure THEN pending' >= Threshold ELSE pending' > Threshold
  BY <1>2, Zenon
<1> QED
  BY <1>1, <1>3, Zenon

\* Two disjoint finite sets.
LEMMA CardinalityAdds ==
    ASSUME NEW A, NEW B, IsFiniteSet(A), IsFiniteSet(B), A \cap B = {}
    PROVE IsFiniteSet(A \cup B) /\ Cardinality(A \cup B) = Cardinality(A) + Cardinality(B)
          /\ Cardinality(A) \in Nat /\ Cardinality(B) \in Nat
<1>1. IsFiniteSet(A \cup B) /\ Cardinality(A \cup B) = Cardinality(A) + Cardinality(B) - Cardinality(A \cap B)
  BY FS_Union, Zenon
<1>2. Cardinality(A) \in Nat /\ Cardinality(B) \in Nat
  BY FS_CardinalityType, Zenon
<1>3. Cardinality(A \cap B) = 0
  BY FS_EmptySet, Zenon
<1> QED
  BY <1>1, <1>2, <1>3, SMTT(30)

\* A task that moves on, but does not end, holds what it held.
LEMMA HeldKept ==
    ASSUME Inv, CounterInv, NEW l \in Levels, NEW t \in DOMAIN tasks[l], tasks[l][t].pc # "done",
           NEW at, at # "done", TaskGoto(l, t, at), UNCHANGED <<pending, pressure>>
    PROVE CounterInv'
<1>1. /\ TasksKept /\ tasks'[l][t].pc = at
      /\ \A m \in Levels : \A u \in DOMAIN tasks[m] : m # l \/ u # t => tasks'[m][u] = tasks[m][u]
  BY GotoKeeps, Zenon DEF Inv
<1>2. 0 \in Levels
  BY LevelNumbers, Zenon
<1>3. /\ DOMAIN tasks'[0] = DOMAIN tasks[0]
      /\ \A u \in DOMAIN tasks[0] : tasks'[0][u].inputs = tasks[0][u].inputs
  BY <1>1, <1>2, ZenonT(60) DEF TasksKept, SameTasks
<1>4. \A u \in DOMAIN tasks[0] : tasks'[0][u].pc # "done" <=> tasks[0][u].pc # "done"
  BY <1>1, <1>2, ZenonT(60)
<1>5. Unfinished' = Unfinished /\ Unfinished \subseteq DOMAIN tasks[0]
  BY <1>3, <1>4, ZenonT(60) DEF Unfinished
<1>6. Held0' = Held0
  BY <1>3, <1>5, SMTT(30) DEF Held0
<1> QED
  BY <1>6, Zenon DEF CounterInv

\* The end of a task takes its inputs from the count.
LEMMA CountCounts ==
    ASSUME Inv, CounterInv, NEW l \in Levels, NEW t \in DOMAIN tasks[l], Count(l, t)
    PROVE CounterInv'
<1>1. /\ TasksKept /\ tasks'[l][t].pc = "done"
      /\ \A m \in Levels : \A u \in DOMAIN tasks[m] : m # l \/ u # t => tasks'[m][u] = tasks[m][u]
  BY GotoKeeps, Zenon DEF Inv, Count
<1>2. 0 \in Levels /\ tasks[l][t].pc = "count"
  BY LevelNumbers, Zenon DEF Count, TaskAt
<1>3. /\ DOMAIN tasks'[0] = DOMAIN tasks[0]
      /\ \A u \in DOMAIN tasks[0] : tasks'[0][u].inputs = tasks[0][u].inputs
  BY <1>1, <1>2, ZenonT(60) DEF TasksKept, SameTasks
<1>4. CASE l # 0
  <2>1. \A u \in DOMAIN tasks[0] : tasks'[0][u].pc # "done" <=> tasks[0][u].pc # "done"
    BY <1>1, <1>2, <1>4, ZenonT(60)
  <2>2. Unfinished' = Unfinished /\ Unfinished \subseteq DOMAIN tasks[0]
    BY <1>3, <2>1, ZenonT(60) DEF Unfinished
  <2>3. Held0' = Held0
    BY <1>3, <2>2, ZenonT(60) DEF Held0
  <2>4. UNCHANGED <<pending, pressure>>
    BY <1>4, ZenonT(60) DEF Count
  <2> QED
    BY <2>3, <2>4, ZenonT(60) DEF CounterInv
<1>5. CASE l = 0
  <2>1. PICK X : X = tasks[0][t].inputs
    BY Zenon
  <2>2. \A u : u \in Unfinished' <=> u \in Unfinished /\ u # t
    BY <1>1, <1>2, <1>3, <1>5, ZenonT(60) DEF Unfinished
  <2>3. t \in Unfinished /\ Unfinished \subseteq DOMAIN tasks[0]
    BY <1>2, <1>5, Zenon DEF Unfinished
  <2>4. X \subseteq Held0
    BY <2>1, <2>3, ZenonT(60) DEF Held0
  <2>5. \A u \in DOMAIN tasks[0] : u # t => tasks[0][u].inputs \cap X = {}
    BY <1>2, <1>5, <2>1, ZenonT(60) DEF Inv, InputsApart
  <2>6. Held0' \cap X = {} /\ Held0' \cup X = Held0
    <3>1. \A x : x \in Held0' <=> \E u \in Unfinished : u # t /\ x \in tasks[0][u].inputs
      BY <1>3, <2>2, <2>3, ZenonT(60) DEF Held0
    <3>2. \A x : x \in Held0 <=> \E u \in Unfinished : x \in tasks[0][u].inputs
      BY Zenon DEF Held0
    <3>3. ASSUME NEW x PROVE x \in Held0' <=> x \in Held0 /\ x \notin X
      BY <2>1, <2>3, <2>5, <3>1, <3>2, ZenonT(60)
    <3> QED
      BY <2>4, <3>3, ZenonT(60)
  <2>7. IsFiniteSet(Held0) /\ pending = Cardinality(Held0)
    BY Zenon DEF CounterInv
  <2>8. IsFiniteSet(X) /\ IsFiniteSet(Held0')
    <3>1. X \in SUBSET Held0 /\ Held0' \in SUBSET Held0
      BY <2>4, <2>6, ZenonT(60)
    <3> QED
      BY <2>7, <3>1, FS_Subset, ZenonT(60)
  <2>9. /\ Cardinality(Held0) = Cardinality(Held0') + Cardinality(X)
        /\ Cardinality(Held0') \in Nat /\ Cardinality(X) \in Nat
    BY <2>6, <2>8, CardinalityAdds, ZenonT(60)
  <2>10. UpdateCounter(-Cardinality(X))
    BY <1>5, <2>1, ZenonT(60) DEF Count
  <2>11. pending' = Cardinality(Held0')
    <3>1. pending' = pending + (-Cardinality(X))
      BY <2>10, Zenon DEF UpdateCounter
    <3> QED
      BY <2>7, <2>9, <3>1, SMTT(30)
  <2>12. pressure' => pending' >= Threshold
    BY <2>9, <2>10, <2>11, PressureKept, ZenonT(60) DEF CounterInv
  <2> QED
    BY <2>8, <2>11, <2>12, ZenonT(60) DEF CounterInv
<1> QED
  BY <1>4, <1>5, ZenonT(60)

\* A round adds SSTs that no task held.
LEMMA LaunchCounts == ASSUME Inv, CounterInv, Launch PROVE CounterInv'
<1>1. PICK compactAll \in BOOLEAN :
       \E g \in {[l \in Levels |-> BucketsOf(l, compactAll)]} :
          /\ tasks' = [l \in Levels |-> tasks[l] \o TasksOf(l, g[l])]
          /\ UpdateCounter(Cardinality(SstsIn(g[0])))
  BY Zenon DEF Launch
<1>2. 0 \in Levels /\ snapshot # <<>>
  BY LevelNumbers, Zenon DEF Launch
<1>3. PICK f : f = BucketsOf(0, compactAll) /\ tasks'[0] = tasks[0] \o TasksOf(0, f)
               /\ UpdateCounter(Cardinality(SstsIn(f)))
  BY <1>1, <1>2, ZenonT(60)
<1>4. IsFound(0, f)
  BY <1>2, <1>3, FindsWhatIsThere, ZenonT(60)
<1>5. IsLaunched(0, f)
  <2>1. IsSeq(f)
    BY <1>4, Zenon DEF IsFound
  <2> QED
    BY <1>2, <1>3, <2>1, LaunchAppends, ZenonT(60) DEF Inv
<1>6. PICK n : n = Len(tasks[0])
  BY Zenon
<1>7. ASSUME NEW t \in DOMAIN tasks[0]
      PROVE t \in Unfinished' <=> t \in Unfinished
  BY <1>5, Zenon DEF Unfinished, IsLaunched
<1>8. ASSUME NEW b \in DOMAIN f
      PROVE n + b \in Unfinished' /\ tasks'[0][n + b].inputs = f[b]
  BY <1>5, <1>6, ZenonT(60) DEF Unfinished, IsLaunched, IsNewTask
<1>9. \A t \in Unfinished' : t \in DOMAIN tasks[0] \/ \E b \in DOMAIN f : t = n + b
  BY <1>5, <1>6, ZenonT(60) DEF Unfinished, IsLaunched
<1>10. \A t \in DOMAIN tasks[0] : tasks'[0][t] = tasks[0][t]
  BY <1>5, Zenon DEF IsLaunched
<1>11. Unfinished \subseteq DOMAIN tasks[0]
  BY Zenon DEF Unfinished
<1>12. Held0' = Held0 \cup SstsIn(f)
  <2>1. ASSUME NEW x \in Held0' PROVE x \in Held0 \cup SstsIn(f)
    <3>1. PICK t \in Unfinished' : x \in tasks'[0][t].inputs
      BY Zenon DEF Held0
    <3>2. CASE t \in DOMAIN tasks[0]
      BY <1>7, <1>10, <3>1, <3>2, ZenonT(60) DEF Held0
    <3>3. ASSUME NEW b \in DOMAIN f, t = n + b PROVE x \in SstsIn(f)
      BY <1>8, <3>1, <3>3, ZenonT(60) DEF SstsIn
    <3> QED
      BY <1>9, <3>2, <3>3, ZenonT(60)
  <2>2. ASSUME NEW x \in Held0 PROVE x \in Held0'
    <3>1. PICK t \in Unfinished : x \in tasks[0][t].inputs
      BY Zenon DEF Held0
    <3> QED
      BY <1>7, <1>10, <1>11, <3>1, ZenonT(60) DEF Held0
  <2>3. ASSUME NEW x \in SstsIn(f) PROVE x \in Held0'
    <3>1. PICK b \in DOMAIN f : x \in f[b]
      BY Zenon DEF SstsIn
    <3> QED
      BY <1>8, <3>1, ZenonT(60) DEF Held0
  <2> QED
    BY <2>1, <2>2, <2>3, ZenonT(60)
<1>13. Held0 \subseteq picked
  BY <1>2, <1>11, SMTT(30) DEF Held0, Inv, InputsApart
<1>14. Held0 \cap SstsIn(f) = {}
  BY <1>4, <1>13, SMTT(30) DEF IsFound, SstsIn
<1>15. IsFiniteSet(SstsIn(f))
  <2>1. SstsIn(f) \in SUBSET (SUBSET (1..flushed))
    BY <1>2, <1>4, SMTT(30) DEF IsFound, SstsIn, Inv, Disjoint
  <2>2. IsFiniteSet(1..flushed)
    <3>1. flushed \in Int /\ 1 \in Int
      BY DEF Inv, Shape
    <3> QED
      BY <3>1, FS_Interval, ZenonT(60)
  <2>3. IsFiniteSet(SUBSET (1..flushed))
    BY <2>2, FS_SUBSET, ZenonT(60)
  <2> QED
    BY <2>1, <2>3, FS_Subset, ZenonT(60)
<1>16. PICK A, B : A = Held0 /\ B = SstsIn(f) /\ IsFiniteSet(A) /\ IsFiniteSet(B) /\ A \cap B = {}
                   /\ pending = Cardinality(A)
  BY <1>14, <1>15, Zenon DEF CounterInv
<1>17. IsFiniteSet(A \cup B) /\ Cardinality(A \cup B) = Cardinality(A) + Cardinality(B)
       /\ Cardinality(A) \in Nat /\ Cardinality(B) \in Nat
  BY <1>16, CardinalityAdds, ZenonT(60)
<1>18. pending' = Cardinality(A) + Cardinality(B)
  BY <1>3, <1>16, ZenonT(60) DEF UpdateCounter
<1>19. pressure' => pending' >= Threshold
  <2>1. pending' \in Nat
    BY <1>17, <1>18, SMTT(30)
  <2> QED
    BY <1>3, <2>1, PressureKept, ZenonT(60) DEF CounterInv
<1> QED
  BY <1>12, <1>16, <1>17, <1>18, <1>19, ZenonT(60) DEF CounterInv

\* The inductive step for the counter.
LEMMA NextCounts == ASSUME Inv, CounterInv, [Next]_vars PROVE CounterInv'
<1>1. CASE UNCHANGED <<tasks, pending, pressure>>
  BY <1>1, Zenon DEF CounterInv, Held0, Unfinished
<1>2. Push \/ Snapshot \/ UNCHANGED vars => UNCHANGED <<tasks, pending, pressure>>
  BY Zenon DEF Push, Snapshot, vars
<1>3. CASE Launch
  BY <1>3, LaunchCounts, Zenon
<1>4. ASSUME NEW l \in Levels, NEW t \in DOMAIN tasks[l], Count(l, t) PROVE CounterInv'
  BY <1>4, CountCounts, Zenon
<1>5. ASSUME NEW l \in Levels, NEW t \in DOMAIN tasks[l], Merge(l, t) PROVE CounterInv'
  <2>1. tasks[l][t].pc # "done" /\ TaskGoto(l, t, "commit") /\ UNCHANGED <<pending, pressure>>
    BY <1>5, Zenon DEF Merge, TaskAt
  <2> QED
    BY <2>1, HeldKept, ZenonT(60)
<1>6. ASSUME NEW l \in Levels, NEW t \in DOMAIN tasks[l], Commit(l, t) \/ MergeFails(l, t)
      PROVE CounterInv'
  <2>1. tasks[l][t].pc # "done" /\ TaskGoto(l, t, "count") /\ UNCHANGED <<pending, pressure>>
    BY <1>6, Zenon DEF Commit, MergeFails, TaskAt
  <2> QED
    BY <2>1, HeldKept, Zenon
<1> QED
  BY <1>1, <1>2, <1>3, <1>4, <1>5, <1>6, ZenonT(60) DEF Next, SoundNext, TaskStep

\* At first no task holds anything.
LEMMA InitCounts == ASSUME Init PROVE CounterInv
<1>1. tasks[0] = <<>> /\ pending = 0 /\ pressure = FALSE
  BY LevelNumbers, Zenon DEF Init
<1>2. Held0 = {}
  BY <1>1 DEF Held0, Unfinished
<1> QED
  BY <1>1, <1>2, FS_EmptySet, Zenon DEF CounterInv

\* _update_pending_compactions_counter: the counter is the number of L0 SSTs in
\* unfinished tasks, and so never negative, although the copy a round counts from is
\* stale and tasks of several levels end in any order.
THEOREM CounterCounts == Spec => [](CounterIsExact /\ pending \in Nat)
<1>1. CounterInv => CounterIsExact /\ pending \in Nat
  BY FS_CardinalityType, Zenon DEF CounterInv, CounterIsExact, Held0, Unfinished
<1> QED
  BY <1>1, InitCounts, NextCounts, InitInv, NextInv, PTL DEF Spec

\* "L0 SST count threshold above which writes are blocked": with a threshold that is
\* not zero, no writer is held up when all compaction tasks are over.
THEOREM IdleNeverBlocks == ASSUME Threshold # 0 PROVE Spec => []IdleIsUnblocked
<1>1. ASSUME Threshold # 0, CounterInv PROVE IdleIsUnblocked
  <2>1. SUFFICES ASSUME \A l \in Levels : \A t \in DOMAIN tasks[l] : tasks[l][t].pc = "done", pressure
                 PROVE FALSE
    BY <1>1, Zenon DEF IdleIsUnblocked, CounterInv
  <2>2. Held0 = {}
    BY <2>1, LevelNumbers, ZenonT(60) DEF Held0, Unfinished
  <2>3. pending = 0 /\ pending >= Threshold
    BY <1>1, <2>1, <2>2, FS_EmptySet, Zenon DEF CounterInv
  <2> QED
    BY <1>1, <2>3, ThresholdAssumption, SMTT(30)
<1> QED
  BY <1>1, InitCounts, NextCounts, InitInv, NextInv, PTL DEF Spec

=============================================================================
