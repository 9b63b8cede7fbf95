--------------------------- MODULE IoContextProofs ---------------------------
(***************************************************************************)
(* Proofs about IoContext for any threads, tasks and queue depth.             *)
(*                                                                         *)
(* The argument is about one ring: the ids in flight, those the kernel works on,   *)
(* the completions, and the next id.  Fresh ids keep a request apart from all       *)
(* others, and reaping leaves in flight exactly what the kernel has.               *)
(***************************************************************************)
EXTENDS IoContext, FiniteSetTheorems, TLAPS

Tasks == 1 .. NTasks

\* What holds of a ring, given the ids in flight, those in the kernel, the
\* completions and the next id.
Ring(flight, k, c, id) ==
    /\ id \in Nat
    /\ flight \subseteq Nat /\ \A i \in flight : i < id
    /\ k \subseteq flight
    /\ c \in Seq(Nat)
    /\ Elements(c) = flight \ k
    /\ \A i, j \in DOMAIN c : i # j => c[i] # c[j]
    /\ Cardinality(k) + Len(c) <= CqSize

\* The ring of a thread.
RingOf(x) == Ring(DOMAIN inFlight[x], kernel[x], cq[x], reqId[x])

\* The inductive invariant.
RingsInv ==
    /\ runq \in [Threads -> Seq(Tasks)]
    /\ waiting \in [Threads -> Seq(Tasks)]
    /\ inFlight = [x \in Threads |-> inFlight[x]]
    /\ kernel = [x \in Threads |-> kernel[x]]
    /\ cq = [x \in Threads |-> cq[x]]
    /\ reqId = [x \in Threads |-> reqId[x]]
    /\ posted \in Nat
    /\ \A x \in Threads : /\ RingOf(x)
                          /\ inFlight[x] \in [DOMAIN inFlight[x] -> Tasks]

\* The ids in flight are finitely many, and so are those in the kernel, which are
\* no more.
LEMMA RingIsFinite ==
    ASSUME NEW flight, NEW k, NEW c, NEW id, Ring(flight, k, c, id)
    PROVE  /\ IsFiniteSet(flight) /\ Cardinality(flight) \in Nat
           /\ IsFiniteSet(k) /\ Cardinality(k) \in Nat
           /\ Cardinality(k) <= Cardinality(flight)
<1>1. IsFiniteSet(flight)
  <2>1. /\ flight \in SUBSET Nat
        /\ id \in Nat
        /\ \A i \in flight : i <= id
    BY DEF Ring
  <2> QED BY <2>1, FS_BoundedSetOfNaturals, Zenon
<1>2. k \in SUBSET flight
  BY DEF Ring
<1> QED BY <1>1, <1>2, FS_Subset, FS_CardinalityType, Zenon

\* reap_cq empties the completion queue and leaves in flight what the kernel has.
LEMMA ReapKeepsRing ==
    ASSUME NEW flight, NEW k, NEW c, NEW id, Ring(flight, k, c, id)
    PROVE  Ring(flight \ Elements(c), k, <<>>, id)
<1>1. flight \ Elements(c) = k
  BY Zenon DEF Ring
<1>2. Elements(<<>>) = {}
  BY DEF Elements
<1>3. Cardinality(k) \in Nat /\ Len(c) \in Nat
  <2>1. Cardinality(k) \in Nat
    BY RingIsFinite
  <2>2. Len(c) \in Nat
    BY DEF Ring
  <2> QED BY <2>1, <2>2
<1>4. Cardinality(k) + Len(<<>>) <= CqSize
  BY <1>3, DepthAssumption DEF Ring, CqSize
<1> QED BY <1>1, <1>2, <1>4 DEF Ring

\* Requests with fresh ids, no more than the margin, keep the completion queue from
\* overflowing: the margin counts the completions twice, and so never too few.
LEMMA PopKeepsRing ==
    ASSUME NEW flight, NEW k, NEW c, NEW id, Ring(flight, k, c, id),
           NEW n \in Nat,
           n = 0 \/ n <= CqSize - (Len(c) + Cardinality(flight))
    PROVE  Ring(flight \cup id .. (id + n - 1), k \cup id .. (id + n - 1), c, id + n)
<1> DEFINE new == id .. (id + n - 1)
<1>1. id \in Nat /\ CqSize \in Nat /\ Len(c) \in Nat
  BY DepthAssumption DEF Ring, CqSize
<1>2. IsFiniteSet(new) /\ Cardinality(new) = n
  <2>1. id \in Int /\ id + n - 1 \in Int
    BY <1>1
  <2>2. IsFiniteSet(new) /\ Cardinality(new) = IF id > id + n - 1 THEN 0 ELSE (id + n - 1) - id + 1
    BY <2>1, FS_Interval, Zenon
  <2> QED BY <1>1, <2>2
<1>3. flight \cap new = {}
  BY <1>1 DEF Ring
<1>4. k \cap new = {}
  BY <1>3 DEF Ring
<1>5. Cardinality(k \cup new) = Cardinality(k) + n
  <2>1. IsFiniteSet(k) /\ Cardinality(k) \in Nat
    BY RingIsFinite
  <2>2. Cardinality(k \cup new) = Cardinality(k) + Cardinality(new) - Cardinality(k \cap new)
    BY <1>2, <2>1, FS_Union, Zenon
  <2>3. Cardinality(k \cap new) = 0
    BY <1>4, FS_EmptySet, Zenon
  <2> QED BY <1>2, <2>1, <2>2, <2>3
<1>6. Cardinality(k \cup new) + Len(c) <= CqSize
  <2>1. /\ Cardinality(k) \in Nat /\ Cardinality(flight) \in Nat
        /\ Cardinality(k) <= Cardinality(flight)
    BY RingIsFinite
  <2>2. Cardinality(k) + Len(c) <= CqSize
    BY DEF Ring
  <2> QED BY <1>1, <1>5, <2>1, <2>2
<1>7. /\ flight \cup new \subseteq Nat
      /\ \A i \in flight \cup new : i < id + n
      /\ id + n \in Nat
  BY <1>1 DEF Ring
<1>8. /\ k \cup new \subseteq flight \cup new
      /\ Elements(c) = (flight \cup new) \ (k \cup new)
  BY <1>3 DEF Ring
<1> HIDE DEF new
<1>9. Ring(flight \cup new, k \cup new, c, id + n)
  BY <1>6, <1>7, <1>8 DEF Ring
<1> QED BY <1>9 DEF new

\* A completion moves an id from the kernel to the queue.
LEMMA CompleteKeepsRing ==
    ASSUME NEW flight, NEW k, NEW c, NEW id, Ring(flight, k, c, id), NEW t \in k
    PROVE  Ring(flight, k \ {t}, Append(c, t), id)
<1>1. t \in Nat /\ c \in Seq(Nat) /\ t \notin Elements(c)
  BY DEF Ring
<1>2. /\ Append(c, t) \in Seq(Nat)
      /\ Len(Append(c, t)) = Len(c) + 1
      /\ DOMAIN Append(c, t) = 1 .. (Len(c) + 1)
      /\ Append(c, t)[Len(c) + 1] = t
      /\ \A i \in 1 .. Len(c) : Append(c, t)[i] = c[i]
      /\ DOMAIN c = 1 .. Len(c) /\ Len(c) \in Nat
  BY <1>1
<1>3. Elements(Append(c, t)) = Elements(c) \cup {t}
  BY <1>2 DEF Elements
<1>4. \A i, j \in DOMAIN Append(c, t) : i # j => Append(c, t)[i] # Append(c, t)[j]
  <2>1. \A i \in 1 .. Len(c) : c[i] # t
    BY <1>1, <1>2 DEF Elements
  <2>2. \A i, j \in 1 .. Len(c) : i # j => c[i] # c[j]
    BY <1>2 DEF Ring
  <2> QED BY <1>2, <2>1, <2>2
<1>5. Cardinality(k \ {t}) + Len(Append(c, t)) <= CqSize
  <2>1. IsFiniteSet(k) /\ Cardinality(k) \in Nat
    BY RingIsFinite
  <2>2. Cardinality(k \ {t}) = Cardinality(k) - 1
    BY <2>1, FS_RemoveElement
  <2>3. Cardinality(k) + Len(c) <= CqSize
    BY DEF Ring
  <2> QED BY <1>2, <2>1, <2>2, <2>3
<1>6. Elements(Append(c, t)) = flight \ (k \ {t})
  BY <1>3 DEF Ring
<1> QED BY <1>2, <1>4, <1>5, <1>6 DEF Ring

-----------------------------------------------------------------------------
\* pop_count stays within the margin, and within the requests there are.
LEMMA PopCountIsSafe ==
    ASSUME RingsInv, NEW x \in Threads, NEW requests \in Seq(Tasks)
    PROVE  LET n == PopCount(x, requests)
           IN /\ n \in Nat /\ n <= Len(requests)
              /\ n = 0 \/ n <= CqSize - (Len(cq[x]) + Cardinality(DOMAIN inFlight[x]))
<1>1. /\ Cardinality(DOMAIN inFlight[x]) \in Nat
      /\ Len(cq[x]) \in Nat
  <2>1. Ring(DOMAIN inFlight[x], kernel[x], cq[x], reqId[x])
    BY DEF RingsInv, RingOf
  <2>2. Cardinality(DOMAIN inFlight[x]) \in Nat
    BY <2>1, RingIsFinite
  <2>3. Len(cq[x]) \in Nat
    BY <2>1 DEF Ring
  <2> QED BY <2>2, <2>3
<1>2. CqSize \in Nat /\ Depth \in Nat /\ Len(requests) \in Nat
  BY DepthAssumption DEF CqSize
<1> QED BY <1>1, <1>2, SMTT(30) DEF PopCount, Least

\* A step of submit_and_wait keeps the invariant but for the run queues.
LEMMA SubmitKeepsRings ==
    ASSUME RingsInv, NEW x \in Threads, NEW requests \in Seq(Tasks),
           Submit(x, requests),
           runq' \in [Threads -> Seq(Tasks)], posted' = posted
    PROVE  RingsInv'
<1> DEFINE n == PopCount(x, requests)
           new == reqId[x] .. (reqId[x] + n - 1)
<1>1. /\ n \in Nat /\ n <= Len(requests)
      /\ n = 0 \/ n <= CqSize - (Len(cq[x]) + Cardinality(DOMAIN inFlight[x]))
  BY PopCountIsSafe
<1>2. /\ waiting' = [waiting EXCEPT ![x] = SubSeq(requests, n + 1, Len(requests))]
      /\ inFlight' = [inFlight EXCEPT ![x] = WithNew(inFlight[x], reqId[x], requests, n)]
      /\ reqId' = [reqId EXCEPT ![x] = reqId[x] + n]
      /\ kernel' = [kernel EXCEPT ![x] = kernel[x] \cup new]
      /\ cq' = cq
  BY DEF Submit, Popped
<1> HIDE DEF n
<1>3. SubSeq(requests, n + 1, Len(requests)) \in Seq(Tasks)
  BY <1>1
<1>4. Ring(DOMAIN inFlight[x], kernel[x], cq[x], reqId[x])
  BY DEF RingsInv, RingOf
<1>5. Ring(DOMAIN inFlight[x] \cup new, kernel[x] \cup new, cq[x], reqId[x] + n)
  BY <1>1, <1>4, PopKeepsRing, SMTT(30)
<1>6. WithNew(inFlight[x], reqId[x], requests, n) \in [DOMAIN inFlight[x] \cup new -> Tasks]
  <2>1. inFlight[x] \in [DOMAIN inFlight[x] -> Tasks] /\ reqId[x] \in Nat
    BY <1>4 DEF RingsInv, Ring
  <2>2. \A i \in new : requests[i - reqId[x] + 1] \in Tasks
    <3>1. \A i \in new : i - reqId[x] + 1 \in 1 .. Len(requests)
      BY <1>1, <2>1, SMTT(30)
    <3> QED BY <3>1
  <2> QED BY <2>1, <2>2 DEF WithNew
<1> HIDE DEF new
<1>7. /\ inFlight'[x] \in [DOMAIN inFlight[x] \cup new -> Tasks]
      /\ DOMAIN inFlight'[x] = DOMAIN inFlight[x] \cup new
      /\ kernel'[x] = kernel[x] \cup new
      /\ cq'[x] = cq[x]
      /\ reqId'[x] = reqId[x] + n
  BY <1>2, <1>6 DEF RingsInv
<1>8. /\ waiting' \in [Threads -> Seq(Tasks)]
      /\ inFlight' = [y \in Threads |-> inFlight'[y]]
      /\ kernel' = [y \in Threads |-> kernel'[y]]
      /\ cq' = [y \in Threads |-> cq'[y]]
      /\ reqId' = [y \in Threads |-> reqId'[y]]
      /\ posted' \in Nat
  BY <1>2, <1>3, Zenon DEF RingsInv
<1>9. ASSUME NEW y \in Threads
      PROVE  RingOf(y)' /\ inFlight'[y] \in [DOMAIN inFlight'[y] -> Tasks]
  <2>1. CASE y = x
    BY <1>5, <1>7, <2>1, Zenon DEF RingOf
  <2>2. CASE y # x
    <3>1. /\ inFlight'[y] = inFlight[y] /\ kernel'[y] = kernel[y]
          /\ cq'[y] = cq[y] /\ reqId'[y] = reqId[y]
      BY <1>2, <2>2, Zenon DEF RingsInv
    <3> QED BY <3>1 DEF RingsInv, RingOf
  <2> QED BY <2>1, <2>2
<1> QED BY <1>8, <1>9 DEF RingsInv

\* So does reap_cq, which fills the run queue with tasks.
LEMMA ReapKeepsRings ==
    ASSUME RingsInv, NEW x \in Threads, NEW queue \in Seq(Tasks),
           Reap(x, queue),
           waiting' \in [Threads -> Seq(Tasks)], UNCHANGED <<kernel, reqId, posted>>
    PROVE  RingsInv'
<1> DEFINE done == [i \in 1 .. Len(cq[x]) |-> inFlight[x][cq[x][i]]]
<1>1. Ring(DOMAIN inFlight[x], kernel[x], cq[x], reqId[x])
  BY DEF RingsInv, RingOf
<1>2. inFlight[x] \in [DOMAIN inFlight[x] -> Tasks]
  BY DEF RingsInv
<1>3. done \in Seq(Tasks)
  <2>1. cq[x] \in Seq(Nat) /\ Elements(cq[x]) \subseteq DOMAIN inFlight[x]
    BY <1>1 DEF Ring
  <2>2. \A i \in 1 .. Len(cq[x]) : cq[x][i] \in DOMAIN inFlight[x]
    BY <2>1 DEF Elements
  <2>3. done \in [1 .. Len(cq[x]) -> Tasks] /\ Len(cq[x]) \in Nat
    BY <1>2, <2>1, <2>2
  <2> QED BY <2>3
<1>4. /\ inFlight' = [inFlight EXCEPT ![x] = Without(inFlight[x], Elements(cq[x]))]
      /\ runq' = [runq EXCEPT ![x] = queue \o done]
      /\ cq' = [cq EXCEPT ![x] = <<>>]
  BY DEF Reap
<1> HIDE DEF done
<1>5. Ring(DOMAIN inFlight[x] \ Elements(cq[x]), kernel[x], <<>>, reqId[x])
  BY <1>1, ReapKeepsRing
<1>6. Without(inFlight[x], Elements(cq[x])) \in [DOMAIN inFlight[x] \ Elements(cq[x]) -> Tasks]
  BY <1>2 DEF Without
<1>7. /\ inFlight'[x] \in [DOMAIN inFlight[x] \ Elements(cq[x]) -> Tasks]
      /\ DOMAIN inFlight'[x] = DOMAIN inFlight[x] \ Elements(cq[x])
      /\ kernel'[x] = kernel[x] /\ cq'[x] = <<>> /\ reqId'[x] = reqId[x]
  BY <1>4, <1>6 DEF RingsInv
<1>8. /\ runq' \in [Threads -> Seq(Tasks)]
      /\ inFlight' = [y \in Threads |-> inFlight'[y]]
      /\ kernel' = [y \in Threads |-> kernel'[y]]
      /\ cq' = [y \in Threads |-> cq'[y]]
      /\ reqId' = [y \in Threads |-> reqId'[y]]
      /\ posted' \in Nat
  <2>1. queue \o done \in Seq(Tasks)
    BY <1>3
  <2> QED BY <1>4, <2>1, Zenon DEF RingsInv
<1>9. ASSUME NEW y \in Threads
      PROVE  RingOf(y)' /\ inFlight'[y] \in [DOMAIN inFlight'[y] -> Tasks]
  <2>1. CASE y = x
    BY <1>5, <1>7, <2>1 DEF RingOf
  <2>2. CASE y # x
    <3>1. /\ inFlight'[y] = inFlight[y] /\ kernel'[y] = kernel[y]
          /\ cq'[y] = cq[y] /\ reqId'[y] = reqId[y]
      BY <1>4, <2>2 DEF RingsInv
    <3> QED BY <3>1 DEF RingsInv, RingOf
  <2> QED BY <2>1, <2>2
<1> QED BY <1>8, <1>9 DEF RingsInv

\* The rings start empty.
LEMMA InitRings == Init => RingsInv
<1> SUFFICES ASSUME Init PROVE RingsInv
  OBVIOUS
<1>1. /\ runq \in [Threads -> Seq(Tasks)]
      /\ waiting \in [Threads -> Seq(Tasks)]
      /\ inFlight = [x \in Threads |-> inFlight[x]]
      /\ kernel = [x \in Threads |-> kernel[x]]
      /\ cq = [x \in Threads |-> cq[x]]
      /\ reqId = [x \in Threads |-> reqId[x]]
      /\ posted \in Nat
  BY DEF Init
<1>2. ASSUME NEW x \in Threads
      PROVE  RingOf(x) /\ inFlight[x] \in [DOMAIN inFlight[x] -> Tasks]
  <2>1. inFlight[x] = <<>> /\ kernel[x] = {} /\ cq[x] = <<>> /\ reqId[x] = 1
    BY DEF Init
  <2>2. Cardinality({}) = 0
    BY FS_EmptySet
  <2>3. Ring({}, {}, <<>>, 1)
    BY <2>2, DepthAssumption DEF Ring, Elements, CqSize
  <2>4. DOMAIN inFlight[x] = {}
    BY <2>1
  <2> QED BY <2>1, <2>3, <2>4 DEF RingOf
<1> QED BY <1>1, <1>2 DEF RingsInv

\* The thread that a task is on submits its request.
LEMMA AwaitKeepsRings ==
    ASSUME RingsInv, NEW x \in Threads, Await(x)
    PROVE  RingsInv'
<1> DEFINE requests == Append(waiting[x], runq[x][1])
           queue == Tail(runq[x])
<1>1. requests \in Seq(Tasks) /\ queue \in Seq(Tasks)
  <2>1. waiting[x] \in Seq(Tasks) /\ runq[x] \in Seq(Tasks) /\ runq[x] # <<>>
    BY DEF RingsInv, Await
  <2> QED BY <2>1
<1>2. SubmitRequest(x, requests, queue) /\ posted' = posted
  BY DEF Await
<1> HIDE DEF requests, queue
<1>3. CASE Submit(x, requests) /\ runq' = [runq EXCEPT ![x] = queue]
  <2>1. runq' \in [Threads -> Seq(Tasks)]
    BY <1>1, <1>3 DEF RingsInv
  <2> QED BY <1>1, <1>2, <1>3, <2>1, SubmitKeepsRings
<1>4. CASE /\ waiting' = [waiting EXCEPT ![x] = requests]
           /\ Reap(x, queue)
           /\ UNCHANGED <<reqId, kernel, phase>>
  <2>1. waiting' \in [Threads -> Seq(Tasks)]
    BY <1>1, <1>4 DEF RingsInv
  <2> QED BY <1>1, <1>2, <1>4, <2>1, ReapKeepsRings
<1> QED BY <1>2, <1>3, <1>4 DEF SubmitRequest

\* The kernel completes a request.
LEMMA CompleteKeepsRings ==
    ASSUME RingsInv, NEW x \in Threads, NEW id \in kernel[x], Complete(x, id)
    PROVE  RingsInv'
<1>1. Ring(DOMAIN inFlight[x], kernel[x] \ {id}, Append(cq[x], id), reqId[x])
  BY CompleteKeepsRing DEF RingsInv, RingOf
<1>2. /\ kernel' = [kernel EXCEPT ![x] = kernel[x] \ {id}]
      /\ cq' = [cq EXCEPT ![x] = Append(cq[x], id)]
      /\ UNCHANGED <<runq, waiting, inFlight, reqId, posted>>
  BY DEF Complete
<1>3. /\ kernel' = [y \in Threads |-> kernel'[y]]
      /\ cq' = [y \in Threads |-> cq'[y]]
  BY <1>2, Zenon DEF RingsInv
<1>4. ASSUME NEW y \in Threads
      PROVE  RingOf(y)'
  <2>1. CASE y = x
    <3>1. kernel'[y] = kernel[x] \ {id} /\ cq'[y] = Append(cq[x], id)
      BY <1>2, <2>1 DEF RingsInv
    <3> QED BY <1>1, <1>2, <2>1, <3>1, Zenon DEF RingOf
  <2>2. CASE y # x
    <3>1. kernel'[y] = kernel[y] /\ cq'[y] = cq[y]
      BY <1>2, <2>2, Zenon DEF RingsInv
    <3> QED BY <1>2, <3>1, Zenon DEF RingsInv, RingOf
  <2> QED BY <2>1, <2>2
<1> QED BY <1>2, <1>3, <1>4 DEF RingsInv

\* A step that leaves the rings alone keeps the invariant.
LEMMA RunQueuesAreApart ==
    ASSUME RingsInv, runq' \in [Threads -> Seq(Tasks)], posted' \in Nat,
           UNCHANGED <<waiting, inFlight, reqId, kernel, cq>>
    PROVE  RingsInv'
BY SMTT(30) DEF RingsInv, RingOf

\* Every step keeps the invariant.
LEMMA NextKeepsRings == RingsInv /\ [Next]_vars => RingsInv'
<1> SUFFICES ASSUME RingsInv, [Next]_vars PROVE RingsInv'
  OBVIOUS
<1> USE DEF RingsInv
<1>1. ASSUME NEW x \in Threads, Post(x) PROVE RingsInv'
  <2>1. posted + 1 \in Tasks
    BY <1>1, ExecutorsAssumption DEF Post, Tasks
  <2>2. runq' \in [Threads -> Seq(Tasks)] /\ posted' \in Nat
    BY <1>1, <2>1, SMTT(30) DEF Post
  <2> QED BY <1>1, <2>2, RunQueuesAreApart, SMTT(30) DEF Post
<1>2. ASSUME NEW x \in Threads, EndTask(x) PROVE RingsInv'
  <2>1. Tail(runq[x]) \in Seq(Tasks)
    BY <1>2 DEF EndTask
  <2>2. runq' \in [Threads -> Seq(Tasks)]
    BY <1>2, <2>1 DEF EndTask
  <2> QED BY <1>2, <2>2, RunQueuesAreApart, SMTT(30) DEF EndTask
<1>3. ASSUME NEW x \in Threads, Await(x) PROVE RingsInv'
  BY <1>3, AwaitKeepsRings, SMTT(30)
<1>4. ASSUME NEW x \in Threads, PostRunHook(x) PROVE RingsInv'
  <2>1. Submit(x, waiting[x]) /\ UNCHANGED <<runq, posted>>
    BY <1>4, SMTT(30) DEF PostRunHook
  <2> QED BY <2>1, SubmitKeepsRings, SMTT(30)
<1>5. ASSUME NEW x \in Threads, WaitAndReap(x) PROVE RingsInv'
  <2>1. Reap(x, runq[x]) /\ UNCHANGED <<waiting, reqId, kernel, posted>>
    BY <1>5, SMTT(30) DEF WaitAndReap
  <2> QED BY <2>1, ReapKeepsRings, SMTT(30)
<1>6. ASSUME NEW x \in Threads, NEW y \in Threads, Steal(x, y) PROVE RingsInv'
  <2>1. runq[y][1] \in Tasks /\ Tail(runq[y]) \in Seq(Tasks) /\ x # y
    BY <1>6, SMTT(30) DEF Steal
  <2>2. runq' \in [Threads -> Seq(Tasks)]
    <3> DEFINE one == <<runq[y][1]>>
               rest == Tail(runq[y])
               taken == [runq EXCEPT ![x] = one]
    <3>1. one \in Seq(Tasks) /\ rest \in Seq(Tasks)
      BY <2>1
    <3>2. runq' = [taken EXCEPT ![y] = rest]
      BY <1>6, <2>1, SMTT(30) DEF Steal
    <3> HIDE DEF one, rest
    <3>3. taken \in [Threads -> Seq(Tasks)]
      BY <3>1, SMTT(30)
    <3> HIDE DEF taken
    <3> QED BY <3>1, <3>2, <3>3, SMTT(30)
  <2> QED BY <1>6, <2>2, RunQueuesAreApart, Zenon DEF Steal
<1>7. ASSUME NEW x \in Threads, NEW id \in kernel[x], Complete(x, id) PROVE RingsInv'
  BY <1>7, CompleteKeepsRings, SMTT(30)
<1>8. CASE UNCHANGED vars
  BY <1>8, RunQueuesAreApart DEF vars
<1> QED BY <1>1, <1>2, <1>3, <1>4, <1>5, <1>6, <1>7, <1>8, Zenon DEF Next

\* The invariant holds throughout.
LEMMA RingsAlways == Spec => []RingsInv
BY InitRings, NextKeepsRings, PTL DEF Spec

\* submit_and_wait never submits so much that the completion queue could overflow,
\* whatever the depth and however many tasks await: CqNeverOverflows.
THEOREM NoOverflow == Spec => []CqNeverOverflows
<1>1. RingsInv => CqNeverOverflows
  BY SMTT(30) DEF RingsInv, RingOf, Ring, CqNeverOverflows
<1> QED BY <1>1, RingsAlways, PTL

\* reap_cq finds every completion in _in_flight, for any number of threads and
\* requests: CompletionsAreFound.
THEOREM ReapFindsAll == Spec => []CompletionsAreFound
<1>1. RingsInv => CompletionsAreFound
  BY Zenon DEF RingsInv, RingOf, Ring, CompletionsAreFound
<1> QED BY <1>1, RingsAlways, PTL
=============================================================================
