------------------------------ MODULE IoContext ------------------------------
(***************************************************************************)
(* The threads of an io_executor and the io_uring of each (io_ctx.h,            *)
(* io_executor.cc).  A task that awaits a request is suspended in its thread's   *)
(* queue of requests, then in flight, and goes back to the run queue of the      *)
(* thread when its completion is reaped.  A task awaits one request at a time.    *)
(* The run queues and the worker loop are TMC's, the rings the kernel's: both are  *)
(* external.                                                                   *)
(***************************************************************************)
EXTENDS Integers, Sequences, FiniteSets

CONSTANTS
    Threads,
    NTasks,     \* tasks, posted in the order of their numbers
    Executors,  \* what may run: a set of threads, and the requests each task makes
    Depth       \* queue_depth

ASSUME ExecutorsAssumption ==
    /\ NTasks \in Nat
    /\ Executors \subseteq [threads : SUBSET Threads, work : [1 .. NTasks -> Nat]]
ASSUME DepthAssumption == Depth \in Nat \ {0}

VARIABLES
    runq,       \* the tasks that each thread has to run
    waiting,    \* _waiting_for_io: the tasks whose requests are not submitted yet
    inFlight,   \* _in_flight: the task of each request id
    reqId,      \* _req_id
    kernel,     \* the request ids that the kernel works on
    cq,         \* the request ids of the completions not reaped yet
    phase,      \* "run", "wait" in io_uring_submit_and_wait, or "absent"
    posted,     \* tasks 1 .. posted have been posted
    left        \* the requests that each task still makes

vars == <<runq, waiting, inFlight, reqId, kernel, cq, phase, posted, left>>

\* cq_size(), which is also what io_uring_queue_init makes it.
CqSize == 2 * Depth

Init ==
    /\ runq = [x \in Threads |-> <<>>]
    /\ waiting = [x \in Threads |-> <<>>]
    /\ inFlight = [x \in Threads |-> <<>>]
    /\ reqId = [x \in Threads |-> 1]
    /\ kernel = [x \in Threads |-> {}]
    /\ cq = [x \in Threads |-> <<>>]
    /\ posted = 0
    /\ \E e \in Executors :
          /\ phase = [x \in Threads |-> IF x \in e.threads THEN "run" ELSE "absent"]
          /\ left = e.work

-----------------------------------------------------------------------------
Least(a, b) == IF a < b THEN a ELSE b

Elements(s) == {s[i] : i \in DOMAIN s}

\* The requests of f without those that are complete.
Without(f, ids) == [i \in DOMAIN f \ ids |-> f[i]]

\* The requests of f and n new ones, with the ids from `id` on.
WithNew(f, id, requests, n) ==
    [i \in DOMAIN f \cup id .. (id + n - 1) |->
        IF i \in id .. (id + n - 1) THEN requests[i - id + 1] ELSE f[i]]

\* reap_cq: every completion is taken out of _in_flight, and its task posted to
\* this thread, behind what is left of the run queue.
Reap(x, queue) ==
    /\ inFlight' = [inFlight EXCEPT ![x] = Without(@, Elements(cq[x]))]
    /\ runq' = [runq EXCEPT ![x] = queue \o [i \in 1 .. Len(cq[x]) |-> inFlight[x][cq[x][i]]]]
    /\ cq' = [cq EXCEPT ![x] = <<>>]

\* The loop without the increment of _req_id after the last request.
PoppedKeepingId(x, requests, n) ==
    /\ waiting' = [waiting EXCEPT ![x] = SubSeq(requests, n + 1, Len(requests))]
    /\ inFlight' = [inFlight EXCEPT ![x] = WithNew(@, reqId[x], requests, n)]
    /\ reqId' = [reqId EXCEPT ![x] = IF n = 0 THEN @ ELSE @ + n - 1]
    /\ kernel' = [kernel EXCEPT ![x] = @ \cup reqId[x] .. (reqId[x] + n - 1)]

\* What the loop of submit_and_wait does when it pops n requests: they go to the
\* submission queue with an id each, and on to the kernel.
Popped(x, requests, n) ==
    /\ waiting' = [waiting EXCEPT ![x] = SubSeq(requests, n + 1, Len(requests))]
    /\ inFlight' = [inFlight EXCEPT ![x] = WithNew(@, reqId[x], requests, n)]
    /\ reqId' = [reqId EXCEPT ![x] = @ + n]
    /\ kernel' = [kernel EXCEPT ![x] = @ \cup reqId[x] .. (reqId[x] + n - 1)]

\* pop_count that looks at the submission queue alone.
PopCountUnlimited(x, requests) == Least(Depth, Len(requests))

\* pop_count: what the submission queue has room for (the queue is empty between
\* two calls), but no more than the completion queue could take.
PopCount(x, requests) ==
    LET margin == CqSize - (Len(cq[x]) + Cardinality(DOMAIN inFlight[x]))
    IN IF margin > 0 THEN Least(Least(Depth, margin), Len(requests)) ELSE 0

\* submit_and_wait up to the call that blocks.
Submit(x, requests) ==
    /\ Popped(x, requests, PopCount(x, requests))
    /\ phase' = [phase EXCEPT ![x] = "wait"]
    /\ UNCHANGED cq

\* The rest of submit_and_wait: it blocks for one completion if anything is in
\* flight, and reaps all there are.
WaitAndReap(x) ==
    /\ phase[x] = "wait"
    /\ DOMAIN inFlight[x] = {} \/ cq[x] # <<>>
    /\ Reap(x, runq[x])
    /\ phase' = [phase EXCEPT ![x] = "run"]
    /\ UNCHANGED <<waiting, reqId, kernel, posted, left>>

\* submit_request: a queue that has reached the depth is submitted at once,
\* otherwise what is complete is reaped.
SubmitRequest(x, requests, queue) ==
    \/ /\ Len(requests) = Depth
       /\ Submit(x, requests)
       /\ runq' = [runq EXCEPT ![x] = queue]
    \/ /\ Len(requests) # Depth
       /\ waiting' = [waiting EXCEPT ![x] = requests]
       /\ Reap(x, queue)
       /\ UNCHANGED <<reqId, kernel, phase>>

\* tmc::post from outside.
Post(x) ==
    /\ posted < NTasks /\ phase[x] # "absent"
    /\ posted' = posted + 1
    /\ runq' = [runq EXCEPT ![x] = Append(@, posted + 1)]
    /\ UNCHANGED <<waiting, inFlight, reqId, kernel, cq, phase, left>>

\* A thread runs the next of its tasks, which ends...
EndTask(x) ==
    /\ phase[x] = "run" /\ runq[x] # <<>>
    /\ left[runq[x][1]] = 0
    /\ runq' = [runq EXCEPT ![x] = Tail(@)]
    /\ UNCHANGED <<waiting, inFlight, reqId, kernel, cq, phase, posted, left>>

\* ... or awaits a request (aw_io::await_suspend).
Await(x) ==
    /\ phase[x] = "run" /\ runq[x] # <<>>
    /\ left[runq[x][1]] > 0
    /\ left' = [left EXCEPT ![runq[x][1]] = @ - 1]
    /\ SubmitRequest(x, Append(waiting[x], runq[x][1]), Tail(runq[x]))
    /\ UNCHANGED posted

\* A thread that has nothing to run takes a task from one that is in the kernel.
Steal(x, y) ==
    /\ phase[x] = "run" /\ runq[x] = <<>>
    /\ phase[y] = "wait" /\ runq[y] # <<>>
    /\ runq' = [runq EXCEPT ![x] = <<runq[y][1]>>, ![y] = Tail(@)]
    /\ UNCHANGED <<waiting, inFlight, reqId, kernel, cq, phase, posted, left>>

\* A hook that does what db_ctx::tick does: nothing unless a request is in flight.
HookIfInFlight(x) ==
    /\ phase[x] = "run" /\ DOMAIN inFlight[x] # {}
    /\ Submit(x, waiting[x])
    /\ UNCHANGED <<runq, posted, left>>

\* The post-run hook of the executor.  With nothing waiting and nothing in flight
\* it does nothing.
PostRunHook(x) ==
    /\ phase[x] = "run" /\ (waiting[x] # <<>> \/ DOMAIN inFlight[x] # {})
    /\ Submit(x, waiting[x])
    /\ UNCHANGED <<runq, posted, left>>

\* The kernel completes requests in any order.
Complete(x, id) ==
    /\ id \in kernel[x]
    /\ kernel' = [kernel EXCEPT ![x] = @ \ {id}]
    /\ cq' = [cq EXCEPT ![x] = Append(@, id)]
    /\ UNCHANGED <<runq, waiting, inFlight, reqId, phase, posted, left>>

-----------------------------------------------------------------------------
Next ==
    \E x \in Threads :
        \/ Post(x) \/ EndTask(x) \/ Await(x) \/ PostRunHook(x) \/ WaitAndReap(x)
        \/ \E y \in Threads : Steal(x, y)
        \/ \E id \in kernel[x] : Complete(x, id)

\* A worker runs as long as it has a task, calls the hook before it sleeps, and
\* returns from the kernel when there is a completion; the kernel works through its
\* requests.  Nobody has to post a task or to steal one.
Fairness ==
    \A x \in Threads : /\ WF_vars(EndTask(x) \/ Await(x))
                       /\ WF_vars(PostRunHook(x))
                       /\ WF_vars(WaitAndReap(x))
                       /\ WF_vars(\E id \in kernel[x] : Complete(x, id))

Spec == Init /\ [][Next]_vars /\ Fairness

-----------------------------------------------------------------------------
(* Properties *)

\* "avoid cqe overflow risk" (io_ctx.h): if the kernel completed all it has, the
\* completions would still fit into the queue.
CqNeverOverflows ==
    \A x \in Threads : Cardinality(kernel[x]) + Len(cq[x]) <= CqSize

\* reap_cq finds the request of every completion in _in_flight, whatever else it
\* takes out before: the ids of the completions differ, and are those in flight
\* that the kernel is done with.
CompletionsAreFound ==
    \A x \in Threads :
        /\ Elements(cq[x]) = DOMAIN inFlight[x] \ kernel[x]
        /\ \A i, j \in DOMAIN cq[x] : i # j => cq[x][i] # cq[x][j]

\* The tasks that a thread has in its run queue, its queue of requests or in flight.
Held(x) == Elements(runq[x]) \cup Elements(waiting[x]) \cup Elements(inFlight[x])

\* Every task that is posted ends: it makes all its requests, none of them is left in
\* the queue and no completion in the ring, and no thread blocks for what never comes.
EveryTaskEnds ==
    <>[](\A t \in 1 .. posted : left[t] = 0 /\ \A x \in Threads : t \notin Held(x))
=============================================================================
