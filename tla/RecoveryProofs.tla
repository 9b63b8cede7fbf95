--------------------------- MODULE RecoveryProofs ---------------------------
(***************************************************************************)
(* Proofs about Recovery for any writers, any number of puts, flushes and    *)
(* crashes: WAL slots are exclusive, a put that returned ok stays on disk,    *)
(* and a get after a recovery finds nothing that such a put overwrote.       *)
(***************************************************************************)
EXTENDS Recovery, TLAPS

-----------------------------------------------------------------------------
(* Sequences whose elements need no common type *)

\* s is a sequence.
IsSeq(s) == s \in Seq({s[i] : i \in DOMAIN s})

\* The length of a sequence is a number, and its indices go from 1 to it.
LEMMA SeqDomain ==
    ASSUME NEW s, IsSeq(s)
    PROVE Len(s) \in Nat /\ DOMAIN s = 1..Len(s)
BY DEF IsSeq

\* A function on 1..n is a sequence of length n.
LEMMA FunctionIsSeq ==
    ASSUME NEW n \in Nat, NEW f, f = [i \in 1..n |-> f[i]]
    PROVE IsSeq(f) /\ Len(f) = n
<1> DEFINE S == {f[i] : i \in DOMAIN f}
<1>1. f \in [1..n -> S]
  BY Zenon
<1>2. f \in Seq(S)
  BY <1>1, SMTT(30)
<1>3. Len(f) = n
  BY <1>1, <1>2
<1> QED
  BY <1>2, <1>3, Zenon DEF IsSeq

\* Append adds an element at the end and keeps the others.
LEMMA AppendIsSeq ==
    ASSUME NEW s, IsSeq(s), NEW e
    PROVE /\ IsSeq(Append(s, e)) /\ Len(Append(s, e)) = Len(s) + 1
          /\ \A i \in 1..Len(s) : Append(s, e)[i] = s[i]
          /\ Append(s, e)[Len(s) + 1] = e
<1> DEFINE S == {s[i] : i \in DOMAIN s} \cup {e}
           t == Append(s, e)
<1>1. s \in Seq(S) /\ e \in S
  <2>1. s \in Seq({s[i] : i \in DOMAIN s})
    BY Zenon DEF IsSeq
  <2>2. {s[i] : i \in DOMAIN s} \subseteq S
    BY Zenon
  <2> QED
    BY <2>1, <2>2
<1> HIDE DEF S
<1>2. /\ t \in Seq(S) /\ Len(t) = Len(s) + 1 /\ Len(s) \in Nat
      /\ \A i \in 1..Len(s) : t[i] = s[i]
      /\ t[Len(s) + 1] = e
  BY <1>1
<1> HIDE DEF t
<1>3. t \in [1..Len(t) -> S]
  BY <1>2
<1>4. IsSeq(t)
  BY <1>2, <1>3, FunctionIsSeq
<1> QED
  BY <1>2, <1>4, Zenon DEF t

-----------------------------------------------------------------------------

Fields == {"state", "slot", "bytes", "entries"}

\* bs is a list of buffers.
IsList(bs) ==
    /\ IsSeq(bs)
    /\ \A i \in 1..Len(bs) : DOMAIN bs[i] = Fields

Flushed == {"flushed", "done"}

\* The shape of the variables the argument uses.  Nothing is said about the
\* sequence numbers: durability does not depend on them.
Shape ==
    /\ IsList(buffers) /\ Len(buffers) \in Nat \ {0}
    /\ \A i \in 1..Len(buffers) : buffers[i].slot \in WalSlots
    /\ free \in Seq(WalSlots)
    /\ IsSeq(ssts)
    /\ DOMAIN wal = WalSlots
    /\ wpc \in [Writers -> {"idle", "insert", "log", "flush"}]
    /\ at \in [Writers -> 1..Len(buffers)]
    /\ DOMAIN entry = Writers

\* No slot waits twice in the channel.
FreeIsDistinct == \A k, l \in 1..Len(free) : free[k] = free[l] => k = l

\* The last buffer is the active one; before the replay it is the only one.
LastIsActive ==
    /\ buffers[Len(buffers)].state = "active"
    /\ mode # "up" => Len(buffers) = 1

\* A writer inside put_async holds a buffer whose flush has not passed the drain.
HeldIsOpen ==
    \A w \in Writers : wpc[w] # "idle" =>
       mode = "up" /\ buffers[at[w]].state \in {"active", "pending"}

\* A writer about to append to the WAL has its entry in the buffer it holds.
LogIsInserted ==
    \A w \in Writers : wpc[w] = "log" => entry[w] \in buffers[at[w]].entries

\* The chain: buffers are published from the oldest on.
FlushedInOrder ==
    \A b \in 1..Len(buffers) : buffers[b].state \in Flushed =>
       \A a \in 1..Len(buffers) : a < b => buffers[a].state \in Flushed

\* What was published is in the SSTs; what was reset is gone from memory.
FlushedIsInSst ==
    \A b \in 1..Len(buffers) :
       /\ buffers[b].state = "flushed" => \A e \in buffers[b].entries : InSst(e.v)
       /\ buffers[b].state = "done" => buffers[b].entries = {}

\* Buffer i has an entry of version v.
HasVersion(i, v) == \E e \in buffers[i].entries : e.v = v

\* Every WAL record of slot s is skipped, persisted, or of a version that the
\* buffer of the slot has, or the first buffer (into which replay_wal puts the
\* records of all slots).
WalIsCovered ==
    mode = "up" =>
       \A s \in WalSlots : \A e \in wal[s] :
          \/ e.v \in lost
          \/ InSst(e.v)
          \/ \E i \in 1..Len(buffers) : (i = 1 \/ buffers[i].slot = s) /\ HasVersion(i, e.v)

Slots == Shape /\ FreeIsDistinct /\ LastIsActive /\ SlotsAreExclusive

\* The inductive invariant.
Durable ==
    /\ Slots
    /\ HeldIsOpen
    /\ LogIsInserted
    /\ FlushedInOrder
    /\ FlushedIsInSst
    /\ WalIsCovered
    /\ AckedIsOnDisk
-----------------------------------------------------------------------------
(* The updates of the list of buffers *)

\* The assignments of the actions to buffer b, after which its state is x and its
\* entries are X.
IsUpdate(bs, cs, b, x, X) ==
    \/ \E y : cs = [bs EXCEPT ![b].entries = X, ![b].bytes = y] /\ x = bs[b].state
    \/ cs = [bs EXCEPT ![b].state = x, ![b].entries = X]
    \/ cs = [bs EXCEPT ![b].entries = X] /\ x = bs[b].state
    \/ cs = [bs EXCEPT ![b].state = x] /\ X = bs[b].entries

\* What they do to the list.
Updated(bs, cs, b, x, X) ==
    /\ IsList(cs) /\ Len(cs) = Len(bs)
    /\ \A i \in 1..Len(bs) : cs[i].slot = bs[i].slot
    /\ \A i \in 1..Len(bs) : i # b => cs[i].state = bs[i].state /\ cs[i].entries = bs[i].entries
    /\ cs[b].state = x /\ cs[b].entries = X

\* An update of one buffer leaves the other buffers and all slots alone.
LEMMA SetBuffer ==
    ASSUME NEW bs, IsList(bs), NEW b \in 1..Len(bs), NEW x, NEW X,
           NEW cs, IsUpdate(bs, cs, b, x, X)
    PROVE Updated(bs, cs, b, x, X)
<1>1. Len(bs) \in Nat /\ DOMAIN bs = 1..Len(bs)
  BY SeqDomain, Zenon DEF IsList
<1>2. cs = [i \in 1..Len(bs) |-> cs[i]]
  BY <1>1, Zenon DEF IsUpdate
<1>3. IsSeq(cs) /\ Len(cs) = Len(bs)
  BY <1>1, <1>2, FunctionIsSeq, Zenon
<1>4. \A i \in 1..Len(bs) : DOMAIN bs[i] = Fields
  BY Zenon DEF IsList
<1>5. /\ \A i \in 1..Len(bs) : DOMAIN cs[i] = Fields
      /\ \A i \in 1..Len(bs) : cs[i].slot = bs[i].slot
      /\ \A i \in 1..Len(bs) : i # b => cs[i].state = bs[i].state /\ cs[i].entries = bs[i].entries
      /\ cs[b].state = x /\ cs[b].entries = X
  <2>1. CASE \E y : cs = [bs EXCEPT ![b].entries = X, ![b].bytes = y] /\ x = bs[b].state
    BY <2>1, <1>1, <1>4 DEF Fields
  <2>2. CASE cs = [bs EXCEPT ![b].state = x, ![b].entries = X]
    BY <2>2, <1>1, <1>4, Zenon DEF Fields
  <2>3. CASE cs = [bs EXCEPT ![b].entries = X] /\ x = bs[b].state
    BY <2>3, <1>1, <1>4, Zenon DEF Fields
  <2>4. CASE cs = [bs EXCEPT ![b].state = x] /\ X = bs[b].entries
    BY <2>4, <1>1, <1>4, Zenon DEF Fields
  <2> QED
    BY <2>1, <2>2, <2>3, <2>4, Zenon DEF IsUpdate
<1> QED
  BY <1>3, <1>5, Zenon DEF IsList, Updated

\* A list of one new buffer.
LEMMA OneBuffer ==
    ASSUME NEW s
    PROVE LET bs == <<NewBuffer(s)>> IN
          /\ IsList(bs) /\ Len(bs) = 1
          /\ bs[1].slot = s /\ bs[1].state = "active" /\ bs[1].entries = {}
<1> DEFINE bs == <<NewBuffer(s)>>
<1>1. bs = [i \in 1..1 |-> bs[i]] /\ bs[1] = NewBuffer(s)
  OBVIOUS
<1>2. IsSeq(bs) /\ Len(bs) = 1
  BY <1>1, FunctionIsSeq, Zenon
<1>3. /\ DOMAIN NewBuffer(s) = Fields
      /\ NewBuffer(s).slot = s /\ NewBuffer(s).state = "active" /\ NewBuffer(s).entries = {}
  BY Zenon DEF NewBuffer, Fields
<1> QED
  BY <1>1, <1>2, <1>3 DEF IsList

\* The channel of a new memtable: every slot but the first, once each.
LEMMA ChannelFacts ==
    /\ Channel \in Seq(WalSlots) /\ Len(Channel) = MaxFlushes + 1
    /\ \A k \in 1..Len(Channel) : Channel[k] = k + 1
<1>1. MaxFlushes + 1 \in Nat /\ MaxFlushes \in Nat
  BY MaxFlushesAssumption
<1>2. Channel \in [1..(MaxFlushes + 1) -> WalSlots]
  BY <1>1 DEF Channel, WalSlots
<1>3. Channel \in Seq(WalSlots)
  BY <1>1, <1>2
<1>4. Len(Channel) = MaxFlushes + 1
  BY <1>1, <1>2, <1>3
<1> QED
  BY <1>3, <1>4, <1>1, Zenon DEF Channel

-----------------------------------------------------------------------------
(* The invariant holds initially *)

\* The memory of a new process, on any disk.
Fresh ==
    /\ buffers = <<NewBuffer(1)>> /\ free = Channel
    /\ wpc = [w \in Writers |-> "idle"] /\ at = [w \in Writers |-> 1]
    /\ DOMAIN entry = Writers /\ DOMAIN wal = WalSlots /\ IsSeq(ssts)

\* Its one buffer, its channel and its idle writers
\* satisfy the part of the invariant that is about memory.
LEMMA FreshMemory ==
    Fresh => Slots /\ HeldIsOpen /\ LogIsInserted /\ FlushedInOrder /\ FlushedIsInSst
<1> SUFFICES ASSUME Fresh
             PROVE Slots /\ HeldIsOpen /\ LogIsInserted /\ FlushedInOrder /\ FlushedIsInSst
  BY Zenon
<1> USE DEF Fresh
<1>1. /\ IsList(buffers) /\ Len(buffers) = 1
      /\ buffers[1].slot = 1 /\ buffers[1].state = "active" /\ buffers[1].entries = {}
  BY OneBuffer, Zenon
<1>2. DOMAIN buffers = 1..1
  BY <1>1, SeqDomain, Zenon DEF IsList
<1>3. 1 \in WalSlots /\ MaxFlushes \in Nat
  BY MaxFlushesAssumption DEF WalSlots
<1>4. /\ free \in Seq(WalSlots) /\ Len(free) = MaxFlushes + 1 /\ DOMAIN free = 1..Len(free)
      /\ \A k \in 1..Len(free) : free[k] = k + 1
  BY ChannelFacts
<1> HIDE DEF Channel
<1>5. Shape
  BY <1>1, <1>3, <1>4 DEF Shape
<1>6. FreeIsDistinct
  BY <1>3, <1>4 DEF FreeIsDistinct
<1>7. LastIsActive
  BY <1>1, Zenon DEF LastIsActive
<1>8. SlotsAreExclusive
  BY <1>1, <1>2, <1>3, <1>4 DEF SlotsAreExclusive
<1>9. HeldIsOpen /\ LogIsInserted
  BY Zenon DEF HeldIsOpen, LogIsInserted
<1>10. FlushedInOrder /\ FlushedIsInSst
  BY <1>1 DEF FlushedInOrder, FlushedIsInSst, Flushed
<1> QED
  BY <1>5, <1>6, <1>7, <1>8, <1>9, <1>10, Zenon DEF Slots

\* The invariant holds when the process first starts.
LEMMA InitDurable == Init => Durable
<1> SUFFICES ASSUME Init PROVE Durable
  BY Zenon
<1>1. IsSeq(ssts)
  BY DEF Init, IsSeq
<1>2. Slots /\ HeldIsOpen /\ LogIsInserted /\ FlushedInOrder /\ FlushedIsInSst
  BY <1>1, FreshMemory, Zenon DEF Init, Fresh
<1>3. WalIsCovered /\ AckedIsOnDisk
  BY Zenon DEF Init, WalIsCovered, AckedIsOnDisk
<1> QED
  BY <1>2, <1>3, Zenon DEF Durable

-----------------------------------------------------------------------------
(* The steps of a writer *)

\* The start of a put takes the active buffer.
LEMMA PutDurable ==
    ASSUME Durable, NEW w \in Writers, Put(w)
    PROVE Durable'
<1> USE DEF Durable, Slots
<1>1. Shape'
  BY DEF Put, Shape, memVars, diskVars, Active
<1>2. FreeIsDistinct' /\ LastIsActive' /\ SlotsAreExclusive'
  BY DEF Put, FreeIsDistinct, LastIsActive, SlotsAreExclusive, memVars
<1>3. HeldIsOpen'
  BY Zenon DEF Put, HeldIsOpen, LastIsActive, Shape, memVars, Active
<1>4. LogIsInserted'
  BY Zenon DEF Put, LogIsInserted, Shape, memVars
<1>5. FlushedInOrder' /\ FlushedIsInSst' /\ WalIsCovered' /\ AckedIsOnDisk'
  BY DEF Put, FlushedInOrder, FlushedIsInSst, WalIsCovered, HasVersion, AckedIsOnDisk,
         Records, InSst, memVars, diskVars, crashVars
<1> QED
  BY <1>1, <1>2, <1>3, <1>4, <1>5, Zenon

\* wal::append puts the record of an entry that the buffer of that slot has.
LEMMA LogDurable ==
    ASSUME Durable, NEW w \in Writers, Log(w)
    PROVE Durable'
<1> USE DEF Durable, Slots
<1>1. Shape'
  BY Zenon DEF Log, Shape, memVars
<1>2. FreeIsDistinct' /\ LastIsActive' /\ SlotsAreExclusive'
  BY DEF Log, FreeIsDistinct, LastIsActive, SlotsAreExclusive, memVars
<1>3. HeldIsOpen' /\ LogIsInserted'
  BY Zenon DEF Log, HeldIsOpen, LogIsInserted, Shape, memVars
<1>4. FlushedInOrder' /\ FlushedIsInSst'
  BY DEF Log, FlushedInOrder, FlushedIsInSst, InSst, memVars
<1> DEFINE s == buffers[at[w]].slot
<1>5. at[w] \in 1..Len(buffers) /\ s \in WalSlots /\ entry[w] \in buffers[at[w]].entries
  BY Zenon DEF Log, Shape, LogIsInserted
<1>6. /\ \A t \in WalSlots : t # s => wal'[t] = wal[t]
      /\ wal'[s] = wal[s] \cup {entry[w]}
  BY <1>5, Zenon DEF Log, Shape
<1>7. WalIsCovered'
  BY <1>5, <1>6 DEF Log, WalIsCovered, HasVersion, InSst, memVars, crashVars
<1>8. AckedIsOnDisk'
  <2>1. entry[w] \in Records' /\ Records \subseteq Records'
    BY <1>5, <1>6 DEF Records
  <2> QED
    BY <2>1, Zenon DEF Log, AckedIsOnDisk, InSst, crashVars
<1> QED
  BY <1>1, <1>2, <1>3, <1>4, <1>7, <1>8, Zenon

\* skiplist_wrapper::insert adds an entry to a buffer that is not yet drained.
LEMMA InsertDurable ==
    ASSUME Durable, NEW w \in Writers, Insert(w)
    PROVE Durable'
<1> USE DEF Durable, Slots
<1> DEFINE b == at[w]
<1>1. /\ b \in 1..Len(buffers) /\ IsList(buffers) /\ Len(buffers) \in Nat
      /\ DOMAIN buffers = 1..Len(buffers)
      /\ buffers[b].state \in {"active", "pending"} /\ mode = "up"
  BY SeqDomain, Zenon DEF Insert, Shape, HeldIsOpen, IsList
<1>2. CASE UNCHANGED <<entry, buffers>> /\ wpc' = [wpc EXCEPT ![w] = "flush"]
  <2>1. Shape' /\ FreeIsDistinct' /\ LastIsActive' /\ SlotsAreExclusive'
    BY <1>2 DEF Insert, Shape, FreeIsDistinct, LastIsActive, SlotsAreExclusive, diskVars
  <2>2. HeldIsOpen' /\ LogIsInserted'
    BY <1>1, <1>2, Zenon DEF Insert, HeldIsOpen, LogIsInserted, Shape
  <2>3. FlushedInOrder' /\ FlushedIsInSst' /\ WalIsCovered' /\ AckedIsOnDisk'
    BY <1>2 DEF Insert, FlushedInOrder, FlushedIsInSst, WalIsCovered, HasVersion, AckedIsOnDisk,
           Records, InSst, diskVars, crashVars
  <2> QED
    BY <2>1, <2>2, <2>3, Zenon
<1>3. CASE /\ entry' = [entry EXCEPT ![w].seq = seq]
           /\ buffers' = [buffers EXCEPT ![b].entries = @ \cup {entry'[w]},
                                         ![b].bytes = IF @ > Cap THEN @ ELSE @ + 1]
           /\ wpc' = [wpc EXCEPT ![w] = IF buffers[b].bytes > Cap THEN "flush" ELSE "log"]
  <2> DEFINE X == buffers[b].entries \cup {entry'[w]}
             y == IF buffers[b].bytes > Cap THEN buffers[b].bytes ELSE buffers[b].bytes + 1
  <2>0. Updated(buffers, buffers', b, buffers[b].state, X)
    <3>1. buffers' = [buffers EXCEPT ![b].entries = X, ![b].bytes = y]
      BY <1>1, <1>3, Zenon DEF IsList, Fields
    <3>2. IsUpdate(buffers, buffers', b, buffers[b].state, X)
      BY <3>1, Zenon DEF IsUpdate
    <3> HIDE DEF X
    <3> QED
      BY <1>1, <3>2, SetBuffer, Zenon
  <2>1. /\ IsList(buffers') /\ Len(buffers') = Len(buffers)
        /\ \A i \in 1..Len(buffers) : buffers'[i].slot = buffers[i].slot
        /\ \A i \in 1..Len(buffers) : i # b => buffers'[i].state = buffers[i].state
                                               /\ buffers'[i].entries = buffers[i].entries
        /\ buffers'[b].state = buffers[b].state
        /\ buffers'[b].entries = buffers[b].entries \cup {entry'[w]}
    BY <2>0, Zenon DEF Updated
  <2>2. DOMAIN buffers' = 1..Len(buffers)
    BY <2>1, SeqDomain, Zenon DEF IsList
  <2>3. \A v \in Writers : v # w => entry'[v] = entry[v] /\ wpc'[v] = wpc[v]
    BY <1>3, Zenon DEF Shape
  <2> HIDE <1>3
  <2>4. UNCHANGED <<mode, free, wal, ssts, at, acked, lost>>
    BY Zenon DEF Insert, diskVars, crashVars
  <2>5. Shape'
    BY <1>1, <1>3, <2>1, <2>4, Zenon DEF Shape
  <2>6. FreeIsDistinct' /\ LastIsActive'
    BY <1>1, <2>1, <2>4 DEF FreeIsDistinct, LastIsActive
  <2>7. SlotsAreExclusive'
    BY <1>1, <2>1, <2>2, <2>4, SMTT(60) DEF SlotsAreExclusive
  <2>8. HeldIsOpen'
    BY <1>1, <2>1, <2>3, <2>4 DEF HeldIsOpen, Shape
  <2>9. LogIsInserted'
    BY <1>1, <2>1, <2>3, <2>4, SMTT(30) DEF LogIsInserted, Shape
  <2>10. FlushedInOrder' /\ FlushedIsInSst'
    BY <1>1, <2>1, <2>4, SMTT(30) DEF FlushedInOrder, FlushedIsInSst, InSst, Flushed
  <2>11. WalIsCovered' /\ AckedIsOnDisk'
    BY <1>1, <2>1, <2>4, SMTT(30) DEF WalIsCovered, HasVersion, InSst, AckedIsOnDisk, Records
  <2> QED
    BY <2>5, <2>6, <2>7, <2>8, <2>9, <2>10, <2>11, Zenon
<1> QED
  BY <1>2, <1>3, Zenon DEF Insert

\* _flush appends a buffer with a slot of the channel, used by no other buffer.
LEMMA FlushDurable ==
    ASSUME Durable, NEW w \in Writers, Flush(w)
    PROVE Durable'
<1> USE DEF Durable, Slots
<1> DEFINE n == Len(buffers)
<1>1. /\ IsList(buffers) /\ n \in Nat \ {0} /\ DOMAIN buffers = 1..n
      /\ buffers[n].state = "active" /\ free \in Seq(WalSlots) /\ DOMAIN free = 1..Len(free)
      /\ at \in [Writers -> 1..n] /\ wpc[w] = "flush" /\ mode = "up"
  BY SeqDomain DEF Flush, Shape, IsList, LastIsActive, HeldIsOpen
<1>2. UNCHANGED <<mode, wal, ssts, entry, acked, lost>>
  BY Zenon DEF Flush, diskVars, crashVars
<1>3. /\ at' = [at EXCEPT ![w] = Len(buffers')]
      /\ wpc' = [wpc EXCEPT ![w] = "insert"]
  BY Zenon DEF Flush
<1>4. CASE at[w] # Active
  <2>1. UNCHANGED <<buffers, free>>
    BY <1>4, Zenon DEF Flush
  <2>2. Shape' /\ FreeIsDistinct' /\ LastIsActive' /\ SlotsAreExclusive'
    BY <1>1, <1>2, <1>3, <2>1 DEF Shape, FreeIsDistinct, LastIsActive, SlotsAreExclusive
  <2>3. HeldIsOpen' /\ LogIsInserted'
    BY <1>1, <1>2, <1>3, <2>1, Zenon DEF HeldIsOpen, LogIsInserted, Shape
  <2>4. FlushedInOrder' /\ FlushedIsInSst' /\ WalIsCovered' /\ AckedIsOnDisk'
    BY <1>2, <2>1 DEF FlushedInOrder, FlushedIsInSst, WalIsCovered, HasVersion, AckedIsOnDisk,
                      Records, InSst
  <2> QED
    BY <2>2, <2>3, <2>4, Zenon
<1>5. CASE at[w] = Active
  <2> DEFINE cs == [buffers EXCEPT ![n].state = "pending"]
             new == NewBuffer(Head(free))
  <2>1. buffers' = Append(cs, new) /\ free # <<>> /\ free' = Tail(free)
    BY <1>5, Zenon DEF Flush, Active
  <2>2. Updated(buffers, cs, n, "pending", buffers[n].entries)
    <3>1. IsUpdate(buffers, cs, n, "pending", buffers[n].entries)
      BY Zenon DEF IsUpdate
    <3> HIDE DEF cs
    <3> QED
      BY <1>1, <3>1, SetBuffer
  <2>3. /\ DOMAIN new = Fields /\ new.slot = Head(free)
        /\ new.state = "active" /\ new.entries = {}
    BY Zenon DEF NewBuffer, Fields
  <2> HIDE DEF cs, new
  <2>4. /\ IsSeq(buffers') /\ Len(buffers') = n + 1
        /\ \A i \in 1..n : buffers'[i] = cs[i]
        /\ buffers'[n + 1] = new
    BY <2>1, <2>2, AppendIsSeq DEF Updated, IsList
  <2>5. /\ \A i \in 1..n : /\ DOMAIN buffers'[i] = Fields
                           /\ buffers'[i].slot = buffers[i].slot
                           /\ buffers'[i].entries = buffers[i].entries
        /\ \A i \in 1..n : i # n => buffers'[i].state = buffers[i].state
        /\ buffers'[n].state = "pending"
    <3>1. n \in 1..n
      BY <1>1
    <3>2. \A i \in 1..n : DOMAIN cs[i] = Fields
      BY <2>2, Zenon DEF Updated, IsList
    <3>3. \A i \in 1..n : cs[i].slot = buffers[i].slot /\ cs[i].entries = buffers[i].entries
      BY <2>2, Zenon DEF Updated
    <3>4. \A i \in 1..n : i # n => cs[i].state = buffers[i].state
      BY <2>2, Zenon DEF Updated
    <3>5. cs[n].state = "pending"
      BY <2>2, Zenon DEF Updated
    <3> HIDE DEF n
    <3> QED
      BY <2>4, <3>1, <3>2, <3>3, <3>4, <3>5, Zenon
  <2>6. /\ DOMAIN buffers' = 1..(n + 1)
        /\ \A i \in 1..(n + 1) : i \in 1..n \/ i = n + 1
        /\ IsList(buffers')
    <3>1. DOMAIN buffers' = 1..(n + 1)
      BY <2>4, SeqDomain, Zenon
    <3>2. \A i \in 1..(n + 1) : i \in 1..n \/ i = n + 1
      BY <1>1
    <3> QED
      BY <3>1, <3>2, <2>3, <2>4, <2>5, Zenon DEF IsList
  <2>7. /\ Head(free) = free[1] /\ Head(free) \in WalSlots /\ 1 \in 1..Len(free)
        /\ free' \in Seq(WalSlots) /\ Len(free') = Len(free) - 1 /\ DOMAIN free' = 1..Len(free')
        /\ \A k \in 1..Len(free') : free'[k] = free[k + 1] /\ k + 1 \in 1..Len(free)
    BY <1>1, <2>1
  <2>8. at' \in [Writers -> 1..(n + 1)] /\ at'[w] = n + 1 /\ \A v \in Writers : v # w => at'[v] = at[v]
    BY <1>1, <1>3, <2>4
  <2>9. wpc'[w] = "insert" /\ \A v \in Writers : v # w => wpc'[v] = wpc[v]
    BY <1>3, Zenon DEF Shape
  <2>10. Shape'
    <3>1. n + 1 \in Nat \ {0} /\ n + 1 = Len(buffers')
      BY <1>1, <2>4
    <3>2. \A i \in 1..(n + 1) : buffers'[i].slot \in WalSlots
      <4>1. \A i \in 1..n : buffers'[i].slot \in WalSlots
        BY <2>5, Zenon DEF Shape
      <4>2. buffers'[n + 1].slot \in WalSlots
        BY <2>3, <2>4, <2>7, Zenon
      <4> QED
        BY <2>6, <4>1, <4>2, Zenon
    <3>3. wpc' \in [Writers -> {"idle", "insert", "log", "flush"}]
      BY <1>3, Zenon DEF Shape
    <3>4. DOMAIN wal' = WalSlots /\ DOMAIN entry' = Writers /\ IsSeq(ssts')
      BY <1>2, Zenon DEF Shape
    <3>5. free' \in Seq(WalSlots)
      BY <2>7, Zenon
    <3> HIDE DEF n
    <3> QED
      BY <2>6, <2>8, <3>1, <3>2, <3>3, <3>4, <3>5, Zenon DEF Shape
  <2>11. FreeIsDistinct'
    <3> SUFFICES ASSUME NEW k \in 1..Len(free'), NEW l \in 1..Len(free'), free'[k] = free'[l]
                 PROVE k = l
      BY Zenon DEF FreeIsDistinct
    <3>1. /\ free[k + 1] = free[l + 1]
          /\ k + 1 \in 1..Len(free) /\ l + 1 \in 1..Len(free)
      BY <2>7, Zenon
    <3>2. k + 1 = l + 1
      BY <3>1, Zenon DEF FreeIsDistinct
    <3>3. k \in Int /\ l \in Int
      BY <2>7
    <3> QED
      BY <3>2, <3>3
  <2>12. LastIsActive'
    BY <1>1, <1>2, <2>3, <2>4, Zenon DEF LastIsActive
  <2>13. SlotsAreExclusive'
    <3>1. \A i \in 1..n : buffers'[i].state # "done" => buffers[i].state # "done"
      BY <1>1, <2>5, Zenon
    <3> DEFINE used == {i \in DOMAIN buffers : buffers[i].state # "done"}
    <3>2. /\ \A i, j \in used : buffers[i].slot = buffers[j].slot => i = j
          /\ \A i \in used : \A k \in DOMAIN free : free[k] # buffers[i].slot
      BY Zenon DEF SlotsAreExclusive
    <3>3. \A i \in 1..n : buffers'[i].state # "done" => i \in used
      BY <1>1, <3>1, Zenon
    <3>4. \A k \in 1..Len(free') : k + 1 \in DOMAIN free /\ free'[k] = free[k + 1]
      BY <1>1, <2>7, Zenon
    <3>5. 1 \in DOMAIN free /\ Head(free) = free[1]
      BY <1>1, <2>7, Zenon
    <3> HIDE DEF used
    <3>6. \A i \in 1..n : buffers'[i].state # "done" => buffers'[i].slot # Head(free)
      BY <2>5, <3>2, <3>3, <3>5
    <3>7. \A k \in 1..Len(free') : free'[k] # Head(free)
      BY <1>1, <2>7 DEF FreeIsDistinct
    <3>8. \A i \in 1..n : buffers'[i].state # "done" =>
             \A k \in 1..Len(free') : free'[k] # buffers'[i].slot
      BY <2>5, <3>2, <3>3, <3>4
    <3>9. \A i, j \in 1..n : buffers'[i].state # "done" /\ buffers'[j].state # "done" =>
             (buffers'[i].slot = buffers'[j].slot => i = j)
      BY <2>5, <3>2, <3>3
    <3>10. buffers'[n + 1].slot = Head(free) /\ DOMAIN free' = 1..Len(free')
      BY <2>3, <2>4, <2>7, Zenon
    <3> HIDE DEF n
    <3>11. \A i, j \in 1..(n + 1) : buffers'[i].state # "done" /\ buffers'[j].state # "done" =>
             (buffers'[i].slot = buffers'[j].slot => i = j)
      BY <2>6, <3>6, <3>9, <3>10, Zenon
    <3>12. \A i \in 1..(n + 1) : buffers'[i].state # "done" =>
             \A k \in 1..Len(free') : free'[k] # buffers'[i].slot
      BY <2>6, <3>7, <3>8, <3>10, Zenon
    <3> QED
      BY <2>6, <3>10, <3>11, <3>12, Zenon DEF SlotsAreExclusive
  <2>14. HeldIsOpen'
    <3> SUFFICES ASSUME NEW v \in Writers, wpc'[v] # "idle"
                 PROVE buffers'[at'[v]].state \in {"active", "pending"}
      BY <1>1, <1>2, Zenon DEF HeldIsOpen
    <3>1. CASE v = w
      BY <2>3, <2>4, <2>8, <3>1, Zenon
    <3>2. CASE v # w
      <4>1. buffers[at[v]].state \in {"active", "pending"} /\ at[v] \in 1..n /\ at'[v] = at[v]
        BY <1>1, <2>8, <2>9, <3>2, ZenonT(60) DEF HeldIsOpen
      <4> QED
        BY <2>5, <4>1, Zenon
    <3> QED
      BY <3>1, <3>2, Zenon
  <2>15. LogIsInserted'
    BY <1>1, <1>2, <2>5, <2>8, <2>9, ZenonT(60) DEF LogIsInserted
  <2>16. FlushedInOrder'
    <3>1. \A i \in 1..n : buffers'[i].state \in Flushed <=> buffers[i].state \in Flushed
      BY <1>1, <2>5, Zenon DEF Flushed
    <3>2. buffers'[n + 1].state \notin Flushed
      BY <2>3, <2>4, Zenon DEF Flushed
    <3> SUFFICES ASSUME NEW b \in 1..(n + 1), buffers'[b].state \in Flushed,
                        NEW a \in 1..(n + 1), a < b
                 PROVE buffers'[a].state \in Flushed
      BY <2>4, Zenon DEF FlushedInOrder
    <3>3. b \in 1..n
      BY <2>6, <3>2, Zenon
    <3>4. a \in 1..n
      BY <1>1, <3>3
    <3> QED
      BY <3>1, <3>3, <3>4, Zenon DEF FlushedInOrder
  <2>17. FlushedIsInSst'
    <3>1. \A v : InSst(v)' <=> InSst(v)
      BY <1>2, Zenon DEF InSst
    <3>2. \A i \in 1..n : buffers'[i].state \in {"flushed", "done"} => buffers'[i].state = buffers[i].state
      BY <2>5, Zenon
    <3>3. \A i \in 1..n :
             /\ buffers'[i].state = "flushed" => \A e \in buffers'[i].entries : InSst(e.v)'
             /\ buffers'[i].state = "done" => buffers'[i].entries = {}
      BY <2>5, <3>1, <3>2, Zenon DEF FlushedIsInSst
    <3>4. buffers'[n + 1].state = "active"
      BY <2>3, <2>4, Zenon
    <3> QED
      BY <2>4, <2>6, <3>3, <3>4, Zenon DEF FlushedIsInSst
  <2>18. WalIsCovered' /\ AckedIsOnDisk'
    <3>1. 1..n \subseteq 1..Len(buffers')
      BY <1>1, <2>4
    <3> QED
      BY <1>2, <2>5, <3>1 DEF WalIsCovered, HasVersion, InSst, AckedIsOnDisk, Records
  <2> QED
    BY <2>10, <2>11, <2>12, <2>13, <2>14, <2>15, <2>16, <2>17, <2>18, Zenon
<1> QED
  BY <1>4, <1>5, Zenon

-----------------------------------------------------------------------------
(* The steps of a flush *)

\* The drained buffer, which no writer holds, is written to SST files.
LEMMA WriteSstDurable ==
    ASSUME Durable, NEW b \in DOMAIN buffers, WriteSst(b)
    PROVE Durable'
<1> USE DEF Durable, Slots
<1>1. /\ IsList(buffers) /\ Len(buffers) \in Nat \ {0}
      /\ DOMAIN buffers = 1..Len(buffers) /\ b \in 1..Len(buffers)
  BY SeqDomain, Zenon DEF Shape, IsList
<1>2. IsUpdate(buffers, buffers', b, "written", buffers[b].entries)
  BY Zenon DEF WriteSst, IsUpdate
<1>3. Updated(buffers, buffers', b, "written", buffers[b].entries)
  BY <1>1, <1>2, SetBuffer, Zenon
<1>4. DOMAIN buffers' = 1..Len(buffers)
  BY <1>3, SeqDomain, Zenon DEF Updated, IsList
<1>5. /\ UNCHANGED <<mode, free, wal, ssts, wpc, at, entry, acked, lost>>
      /\ buffers[b].state = "pending"
      /\ \A w \in Writers : wpc[w] # "idle" => at[w] # b
  BY Zenon DEF WriteSst, putVars, crashVars
<1>6. Shape'
  BY <1>1, <1>3, <1>5, Zenon DEF Updated, Shape
<1>7. FreeIsDistinct' /\ LastIsActive'
  BY <1>1, <1>3, <1>5 DEF Updated, FreeIsDistinct, LastIsActive
<1>8. SlotsAreExclusive'
  BY <1>1, <1>3, <1>4, <1>5 DEF Updated, SlotsAreExclusive
<1>9. HeldIsOpen' /\ LogIsInserted'
  BY <1>1, <1>3, <1>5, Zenon DEF Updated, HeldIsOpen, LogIsInserted, Shape
<1>10. FlushedInOrder' /\ FlushedIsInSst'
  BY <1>1, <1>3, <1>5, SMTT(30) DEF Updated, FlushedInOrder, FlushedIsInSst, Flushed, InSst
<1>11. WalIsCovered' /\ AckedIsOnDisk'
  BY <1>1, <1>3, <1>5, SMTT(30) DEF Updated, WalIsCovered, HasVersion, InSst, AckedIsOnDisk, Records
<1> QED
  BY <1>6, <1>7, <1>8, <1>9, <1>10, <1>11, Zenon

\* push_new_ssts_to_l0 adds the entries of the buffer to the SSTs; all older
\* buffers are in them already.
LEMMA PublishDurable ==
    ASSUME Durable, NEW b \in DOMAIN buffers, Publish(b)
    PROVE Durable'
<1> USE DEF Durable, Slots
<1>1. /\ IsList(buffers) /\ Len(buffers) \in Nat \ {0} /\ IsSeq(ssts)
      /\ DOMAIN buffers = 1..Len(buffers) /\ b \in 1..Len(buffers)
  BY SeqDomain, Zenon DEF Shape, IsList
<1>2. IsUpdate(buffers, buffers', b, "flushed", buffers[b].entries)
  BY Zenon DEF Publish, IsUpdate
<1>3. Updated(buffers, buffers', b, "flushed", buffers[b].entries)
  BY <1>1, <1>2, SetBuffer, Zenon
<1>4. DOMAIN buffers' = 1..Len(buffers)
  BY <1>3, SeqDomain, Zenon DEF Updated, IsList
<1>5. /\ UNCHANGED <<mode, free, wal, wpc, at, entry, acked, lost>>
      /\ buffers[b].state = "written"
      /\ \A a \in 1..(b - 1) : buffers[a].state \in Flushed
  BY Zenon DEF Publish, putVars, crashVars, Flushed
<1> DEFINE new == [entries |-> buffers[b].entries, max |-> MaxSeq(buffers[b].entries)]
<1>6. ssts' = Append(ssts, new) /\ new.entries = buffers[b].entries
  BY Zenon DEF Publish
<1> HIDE DEF new
<1>7. /\ IsSeq(ssts') /\ DOMAIN ssts \subseteq DOMAIN ssts' /\ Len(ssts) + 1 \in DOMAIN ssts'
      /\ \A i \in DOMAIN ssts : ssts'[i] = ssts[i]
      /\ ssts'[Len(ssts) + 1] = new
  <2>1. Len(ssts) \in Nat /\ DOMAIN ssts = 1..Len(ssts)
    BY <1>1, SeqDomain, Zenon
  <2>2. /\ IsSeq(ssts') /\ Len(ssts') = Len(ssts) + 1
        /\ \A i \in 1..Len(ssts) : ssts'[i] = ssts[i]
        /\ ssts'[Len(ssts) + 1] = new
    BY <1>1, <1>6, AppendIsSeq
  <2>3. DOMAIN ssts' = 1..Len(ssts')
    BY <2>2, SeqDomain, Zenon
  <2> QED
    BY <2>1, <2>2, <2>3
<1>8. /\ \A v : InSst(v) => InSst(v)'
      /\ \A e \in buffers[b].entries : InSst(e.v)'
  BY <1>6, <1>7, Zenon DEF InSst
<1>9. Shape'
  BY <1>1, <1>3, <1>5, <1>7, Zenon DEF Updated, Shape
<1>10. FreeIsDistinct' /\ LastIsActive'
  BY <1>1, <1>3, <1>5 DEF Updated, FreeIsDistinct, LastIsActive
<1>11. SlotsAreExclusive'
  BY <1>1, <1>3, <1>4, <1>5, SMTT(30) DEF Updated, SlotsAreExclusive
<1>12. HeldIsOpen' /\ LogIsInserted'
  BY <1>1, <1>3, <1>5, Zenon DEF Updated, HeldIsOpen, LogIsInserted, Shape
<1>13. FlushedInOrder'
  <2>1. \A a \in 1..Len(buffers) : a < b => a \in 1..(b - 1)
    BY <1>1
  <2> QED
    BY <1>1, <1>3, <1>5, <2>1 DEF Updated, FlushedInOrder, Flushed
<1>14. FlushedIsInSst'
  BY <1>1, <1>3, <1>8, Zenon DEF Updated, FlushedIsInSst
<1>15. WalIsCovered'
  <2>1. \A i \in 1..Len(buffers) : buffers'[i].entries = buffers[i].entries
    BY <1>3, Zenon DEF Updated
  <2> SUFFICES ASSUME NEW t \in WalSlots, NEW e \in wal[t], mode = "up"
               PROVE \/ e.v \in lost
                     \/ InSst(e.v)'
                     \/ \E i \in 1..Len(buffers) :
                           (i = 1 \/ buffers[i].slot = t) /\ HasVersion(i, e.v)
    BY <1>3, <1>5, <2>1 DEF WalIsCovered, HasVersion, Updated
  <2> QED
    BY <1>8, Zenon DEF WalIsCovered
<1>16. AckedIsOnDisk'
  <2>1. Records' = Records
    BY <1>5, Zenon DEF Records
  <2> SUFFICES ASSUME NEW v \in acked \ lost
               PROVE InSst(v)' \/ \E e \in Records : e.v = v
    BY <1>5, <2>1, Zenon DEF AckedIsOnDisk
  <2> QED
    BY <1>8, Zenon DEF AckedIsOnDisk
<1> QED
  BY <1>9, <1>10, <1>11, <1>12, <1>13, <1>14, <1>15, <1>16, Zenon

\* wal::reset removes records of versions the SSTs have: those of its own buffer,
\* and those replayed into the first buffer, which is published before any other.
LEMMA ResetWalDurable ==
    ASSUME Durable, NEW b \in DOMAIN buffers, ResetWal(b)
    PROVE Durable'
<1> USE DEF Durable, Slots
<1>1. /\ IsList(buffers) /\ Len(buffers) \in Nat \ {0} /\ free \in Seq(WalSlots)
      /\ DOMAIN buffers = 1..Len(buffers) /\ b \in 1..Len(buffers) /\ 1 \in 1..Len(buffers)
      /\ DOMAIN free = 1..Len(free) /\ Len(free) \in Nat
  BY SeqDomain DEF Shape, IsList
<1>2. Updated(buffers, buffers', b, "done", {})
  <2>1. IsUpdate(buffers, buffers', b, "done", {})
    BY Zenon DEF ResetWal, IsUpdate
  <2> QED
    BY <1>1, <2>1, SetBuffer, Zenon
<1>3. DOMAIN buffers' = 1..Len(buffers)
  BY <1>2, SeqDomain, Zenon DEF Updated, IsList
<1> DEFINE s == buffers[b].slot
<1>4. /\ UNCHANGED <<mode, ssts, wpc, at, entry, acked, lost>>
      /\ buffers[b].state = "flushed" /\ mode = "up"
      /\ s \in WalSlots /\ free' = Append(free, s)
  BY <1>1, Zenon DEF ResetWal, putVars, crashVars, Shape
<1>5. /\ DOMAIN wal' = WalSlots /\ wal'[s] = {}
      /\ \A t \in WalSlots : t # s => wal'[t] = wal[t]
  BY <1>4, Zenon DEF ResetWal, Shape
<1> HIDE DEF s
<1>6. /\ free' \in Seq(WalSlots) /\ Len(free') = Len(free) + 1
      /\ DOMAIN free' = 1..(Len(free) + 1)
      /\ \A k \in 1..Len(free) : free'[k] = free[k]
      /\ free'[Len(free) + 1] = s
      /\ \A k \in 1..(Len(free) + 1) : k \in 1..Len(free) \/ k = Len(free) + 1
  BY <1>1, <1>4
<1>7. \A k \in 1..Len(free) : free[k] # s
  BY <1>1, <1>4, Zenon DEF SlotsAreExclusive, s
<1>8. Shape'
  BY <1>1, <1>2, <1>4, <1>5, <1>6, Zenon DEF Updated, Shape
<1>9. FreeIsDistinct'
  BY <1>6, <1>7, Zenon DEF FreeIsDistinct
<1>10. LastIsActive'
  BY <1>1, <1>2, <1>4 DEF Updated, LastIsActive
<1>11. SlotsAreExclusive'
  <2>1. \A i \in 1..Len(buffers) : buffers'[i].state # "done" =>
           i # b /\ buffers[i].state # "done" /\ buffers'[i].slot = buffers[i].slot
    BY <1>2, Zenon DEF Updated
  <2>2. \A i \in 1..Len(buffers) : buffers'[i].state # "done" => buffers'[i].slot # s
    BY <1>1, <1>4, <2>1 DEF SlotsAreExclusive, s
  <2>3. \A i \in 1..Len(buffers) : buffers'[i].state # "done" =>
           \A k \in 1..Len(free) : free[k] # buffers'[i].slot
    BY <1>1, <2>1, Zenon DEF SlotsAreExclusive
  <2>4. \A i, j \in 1..Len(buffers) :
           buffers'[i].state # "done" /\ buffers'[j].state # "done" =>
              (buffers'[i].slot = buffers'[j].slot => i = j)
    BY <1>1, <2>1, Zenon DEF SlotsAreExclusive
  <2> QED
    BY <1>3, <1>6, <2>2, <2>3, <2>4, Zenon DEF SlotsAreExclusive
<1>12. HeldIsOpen' /\ LogIsInserted'
  BY <1>1, <1>2, <1>4, Zenon DEF Updated, HeldIsOpen, LogIsInserted, Shape
<1>13. FlushedInOrder' /\ FlushedIsInSst'
  <2>1. \A i \in 1..Len(buffers) : buffers'[i].state \in Flushed <=> buffers[i].state \in Flushed
    BY <1>2, <1>4, Zenon DEF Updated, Flushed
  <2>2. FlushedInOrder'
    BY <1>2, <2>1, Zenon DEF Updated, FlushedInOrder
  <2>3. \A v : InSst(v)' <=> InSst(v)
    BY <1>4, Zenon DEF InSst
  <2>4. FlushedIsInSst'
    BY <1>2, <2>3, Zenon DEF Updated, FlushedIsInSst
  <2> QED
    BY <2>2, <2>4, Zenon
\* What only the reset buffer has, of an entry of its own slot or of the first
\* buffer, is in an SST.
<1>14. \A e \in wal[s] : e.v \in lost \/ InSst(e.v)
  <2> SUFFICES ASSUME NEW e \in wal[s], e.v \notin lost, ~InSst(e.v)
               PROVE FALSE
    BY Zenon
  <2>1. PICK i \in 1..Len(buffers) : (i = 1 \/ buffers[i].slot = s) /\ HasVersion(i, e.v)
    BY <1>4, Zenon DEF WalIsCovered
  <2>2. buffers[i].state \notin Flushed
    BY <2>1, Zenon DEF FlushedIsInSst, HasVersion, Flushed
  <2>3. buffers[1].state \in Flushed
    <3>1. 1 < b \/ 1 = b
      BY <1>1
    <3> QED
      BY <1>1, <1>4, <3>1, Zenon DEF FlushedInOrder, Flushed
  <2>4. i = b
    BY <1>1, <1>4, <2>1, <2>2, <2>3, Zenon DEF SlotsAreExclusive, Flushed, s
  <2> QED
    BY <1>4, <2>2, <2>4, Zenon DEF Flushed
<1>15. WalIsCovered'
  <2> SUFFICES ASSUME NEW t \in WalSlots, NEW e \in wal'[t], e.v \notin lost, ~InSst(e.v)
               PROVE \E i \in 1..Len(buffers) :
                        (i = 1 \/ buffers'[i].slot = t) /\ HasVersion(i, e.v)'
    BY <1>2, <1>4, Zenon DEF WalIsCovered, InSst, Updated
  <2>1. t # s /\ e \in wal[t]
    BY <1>5, Zenon
  <2>2. PICK i \in 1..Len(buffers) : (i = 1 \/ buffers[i].slot = t) /\ HasVersion(i, e.v)
    BY <1>4, <2>1, Zenon DEF WalIsCovered
  <2>3. i # b
    BY <1>4, <2>2, Zenon DEF FlushedIsInSst, HasVersion
  <2>4. HasVersion(i, e.v)' /\ buffers'[i].slot = buffers[i].slot
    BY <1>2, <2>2, <2>3, Zenon DEF Updated, HasVersion
  <2> QED
    BY <2>2, <2>4, Zenon
<1>16. AckedIsOnDisk'
  <2> SUFFICES ASSUME NEW v \in acked, v \notin lost, ~InSst(v)
               PROVE \E e \in Records' : e.v = v
    BY <1>4, Zenon DEF AckedIsOnDisk, InSst
  <2>1. PICK e \in Records : e.v = v
    BY Zenon DEF AckedIsOnDisk
  <2>2. PICK t \in WalSlots : e \in wal[t]
    BY Zenon DEF Records
  <2>3. t # s
    BY <1>14, <2>1, <2>2, Zenon
  <2> QED
    BY <1>5, <2>1, <2>2, <2>3, Zenon DEF Records
<1> QED
  BY <1>8, <1>9, <1>10, <1>11, <1>12, <1>13, <1>15, <1>16, Zenon

-----------------------------------------------------------------------------
(* Crash and recovery *)

\* A crash loses the memory and nothing else.
LEMMA CrashDurable ==
    ASSUME Durable, Crash
    PROVE Durable'
<1> USE DEF Durable
<1>1. /\ IsSeq(ssts)' /\ DOMAIN wal' = WalSlots /\ DOMAIN entry' = Writers
      /\ UNCHANGED <<wal, ssts, acked, lost>>
  BY Zenon DEF Crash, Slots, Shape, diskVars, IsSeq
<1>2. (Slots /\ HeldIsOpen /\ LogIsInserted /\ FlushedInOrder /\ FlushedIsInSst)'
  <2>1. Fresh'
    BY <1>1, Zenon DEF Crash, Fresh
  <2> QED
    BY <2>1, FreshMemory, PTL
<1>3. WalIsCovered' /\ AckedIsOnDisk'
  BY <1>1 DEF Crash, WalIsCovered, AckedIsOnDisk, Records, InSst
<1> QED
  BY <1>2, <1>3, Zenon

\* A load that is refused changes nothing.
LEMMA LoadRefusedDurable ==
    ASSUME Durable, LoadRefused
    PROVE Durable'
<1> USE DEF Durable, Slots
<1>1. /\ UNCHANGED <<buffers, free, wal, ssts, wpc, at, entry, acked, lost>>
      /\ mode = "down" /\ mode' = "refused"
  BY Zenon DEF LoadRefused, diskVars, putVars, crashVars
<1>2. Shape' /\ FreeIsDistinct' /\ LastIsActive' /\ SlotsAreExclusive'
  BY <1>1 DEF Shape, FreeIsDistinct, LastIsActive, SlotsAreExclusive
<1>3. HeldIsOpen' /\ LogIsInserted' /\ FlushedInOrder' /\ FlushedIsInSst'
  BY <1>1 DEF HeldIsOpen, LogIsInserted, FlushedInOrder, FlushedIsInSst, InSst
<1>4. WalIsCovered' /\ AckedIsOnDisk'
  BY <1>1 DEF WalIsCovered, AckedIsOnDisk, Records, InSst
<1> QED
  BY <1>2, <1>3, <1>4, Zenon

\* replay_wal puts the version of every record it does not skip into the first
\* buffer.
LEMMA ReplayDurable ==
    ASSUME Durable, Replay
    PROVE Durable'
<1> USE DEF Durable, Slots
<1> DEFINE dropped == {e \in Records : e.seq <= FlushedThreshold}
           kept == Records \ dropped
           X == {[seq |-> Rank(e, kept), v |-> e.v] : e \in kept}
<1>1. /\ UNCHANGED <<free, wal, ssts, wpc, at, entry, acked>>
      /\ mode = "down" /\ mode' = "up"
      /\ buffers' = [buffers EXCEPT ![1].entries = X]
      /\ lost' = lost \cup {v \in {e.v : e \in dropped} : ~InSst(v)}
  BY Zenon DEF Replay, diskVars, putVars
<1>2. /\ IsList(buffers) /\ Len(buffers) = 1 /\ DOMAIN buffers = 1..1
      /\ buffers[1].state = "active"
  BY <1>1, SeqDomain, Zenon DEF Shape, IsList, LastIsActive
<1>3. /\ \A e \in Records : e \in dropped \/ \E f \in X : f.v = e.v
      /\ \A e \in dropped : e.v \in lost' \/ InSst(e.v)
  <2>1. \A e \in Records : e \in dropped \/ e \in kept
    BY Zenon
  <2>2. ASSUME NEW e \in kept PROVE \E f \in X : f.v = e.v
    <3> HIDE DEF kept
    <3> DEFINE f == [seq |-> Rank(e, kept), v |-> e.v]
    <3>1. f \in X /\ f.v = e.v
      BY Zenon
    <3> QED
      BY <3>1, Zenon
  <2>3. \A e \in dropped : e.v \in lost' \/ InSst(e.v)
    <3> HIDE DEF dropped
    <3> QED
      BY <1>1, Zenon
  <2> QED
    BY <2>1, <2>2, <2>3, Zenon
<1>4. Updated(buffers, buffers', 1, "active", X)
  <2> HIDE DEF X
  <2>1. IsUpdate(buffers, buffers', 1, "active", X)
    BY <1>1, <1>2, Zenon DEF IsUpdate
  <2>2. 1 \in 1..Len(buffers)
    BY <1>2
  <2> QED
    BY <1>2, <2>1, <2>2, SetBuffer, Zenon
<1>5. DOMAIN buffers' = 1..1
  BY <1>2, <1>4, SeqDomain, Zenon DEF Updated, IsList
<1>6. lost \subseteq lost'
  BY <1>1, Zenon
<1> HIDE DEF dropped, kept, X
<1>7. Shape'
  BY <1>1, <1>2, <1>4, Zenon DEF Updated, Shape
<1>8. FreeIsDistinct' /\ LastIsActive'
  BY <1>1, <1>2, <1>4, Zenon DEF Updated, FreeIsDistinct, LastIsActive
<1>9. SlotsAreExclusive'
  BY <1>1, <1>2, <1>4, <1>5 DEF Updated, SlotsAreExclusive
<1>10. HeldIsOpen' /\ LogIsInserted'
  BY <1>1, Zenon DEF HeldIsOpen, LogIsInserted
<1>11. FlushedInOrder' /\ FlushedIsInSst'
  BY <1>2, <1>4 DEF Updated, FlushedInOrder, FlushedIsInSst, Flushed
<1>12. WalIsCovered'
  <2> SUFFICES ASSUME NEW t \in WalSlots, NEW e \in wal[t]
               PROVE e.v \in lost' \/ InSst(e.v) \/ HasVersion(1, e.v)'
    BY <1>1, <1>2, <1>4 DEF WalIsCovered, InSst, Updated
  <2>1. e \in Records
    BY Zenon DEF Records
  <2> QED
    BY <1>3, <1>4, <2>1, Zenon DEF Updated, HasVersion
<1>13. AckedIsOnDisk'
  BY <1>1, <1>6 DEF AckedIsOnDisk, InSst, Records
<1> QED
  BY <1>7, <1>8, <1>9, <1>10, <1>11, <1>12, <1>13, Zenon

-----------------------------------------------------------------------------
(* The theorems *)

\* Every step preserves the invariant.
LEMMA NextDurable == Durable /\ [Next]_vars => Durable'
<1> SUFFICES ASSUME Durable, [Next]_vars PROVE Durable'
  BY Zenon
<1>1. CASE \E w \in Writers : Put(w) \/ Insert(w) \/ Log(w) \/ Flush(w)
  BY <1>1, PutDurable, InsertDurable, LogDurable, FlushDurable, Zenon
<1>2. CASE \E b \in DOMAIN buffers : WriteSst(b) \/ Publish(b) \/ ResetWal(b)
  BY <1>2, WriteSstDurable, PublishDurable, ResetWalDurable, Zenon
<1>3. CASE Crash \/ LoadRefused \/ Replay
  BY <1>3, CrashDurable, LoadRefusedDurable, ReplayDurable, Zenon
<1>4. CASE UNCHANGED vars
  <2>1. UNCHANGED <<mode, buffers, free, wal, ssts, wpc, at, entry, acked, lost>>
    BY <1>4, Zenon DEF vars, memVars, diskVars, putVars, crashVars
  <2>2. (Slots /\ HeldIsOpen /\ LogIsInserted /\ FlushedInOrder)'
    BY <2>1 DEF Durable, Slots, Shape, FreeIsDistinct, LastIsActive, SlotsAreExclusive,
                HeldIsOpen, LogIsInserted, FlushedInOrder
  <2>3. (\A v : InSst(v)' <=> InSst(v)) /\ (\A i, v : HasVersion(i, v)' <=> HasVersion(i, v))
    BY <2>1, Zenon DEF InSst, HasVersion
  <2>4. FlushedIsInSst' /\ WalIsCovered'
    BY <2>1, <2>3, Zenon DEF Durable, FlushedIsInSst, WalIsCovered
  <2>5. AckedIsOnDisk'
    BY <2>1, <2>3 DEF Durable, AckedIsOnDisk, Records
  <2> QED
    BY <2>2, <2>4, <2>5, Zenon DEF Durable
<1> QED
  BY <1>1, <1>2, <1>3, <1>4, Zenon DEF Next

\* The inductive invariant behind the durability of acknowledged puts holds in every
\* state the database reaches.
THEOREM DurableAlways == Spec => []Durable
BY InitDurable, NextDurable, PTL DEF Spec

\* Whatever the number of writers, flushes and crashes, two buffers in use never
\* share a WAL slot and the channel holds no slot in use, so wal::reset truncates
\* the records of its own buffer only.
THEOREM ExclusiveSlots == Spec => []SlotsAreExclusive
<1>1. Durable => SlotsAreExclusive
  BY Zenon DEF Durable, Slots
<1> QED
  BY <1>1, DurableAlways, PTL

\* A put that returned ok stays on disk, in a WAL file or in an SST the manifest
\* names, through any flushes, WAL resets, crashes and replays; except for the
\* records a replay skipped that no SST has.
THEOREM AckedStaysOnDisk == Spec => []AckedIsOnDisk
<1>1. Durable => AckedIsOnDisk
  BY Zenon DEF Durable
<1> QED
  BY <1>1, DurableAlways, PTL

-----------------------------------------------------------------------------
(* Freshness: the order of versions in memory, in the SSTs and in the WAL *)

\* The entries of the first n puts.
EntriesUpTo(n) == [seq : Nat, v : 1..n]

\* Everything a get or a replay may find is the entry of a put.
Typed ==
    /\ mode \in {"up", "down", "refused"} /\ seq \in Nat /\ puts \in Nat
    /\ \A i \in 1..Len(buffers) : buffers[i].entries \subseteq EntriesUpTo(puts)
    /\ \A i \in 1..Len(ssts) : ssts[i].entries \subseteq EntriesUpTo(puts) /\ ssts[i].entries # {}
    /\ Records \subseteq EntriesUpTo(puts)
    /\ entry \in [Writers -> [seq : Nat, v : 0..puts]]

\* The record of the puts: before[p] has versions acknowledged since.
History ==
    /\ IsSeq(before) /\ Len(before) = puts
    /\ acked \subseteq 1..puts
    /\ \A p \in 1..puts : before[p] \subseteq acked

\* The version of a running put is not acknowledged, and no other put has it.
RunningIsNew ==
    \A w \in Writers : wpc[w] # "idle" =>
       /\ entry[w].v \in 1..puts /\ entry[w].v \notin acked
       /\ \A x \in Writers : x # w /\ wpc[x] # "idle" => entry[x].v # entry[w].v

\* A running put holds a buffer at least as new as those with the versions
\* acknowledged before it started.
HeldIsLate ==
    \A w \in Writers : wpc[w] # "idle" =>
       \A j \in 1..Len(buffers) : at[w] < j =>
          \A f \in buffers[j].entries : f.v \notin before[entry[w].v]

\* No buffer has a version older than one of an older buffer.
BuffersInOrder ==
    \A i, j \in 1..Len(buffers) : i < j =>
       \A e \in buffers[i].entries : \A f \in buffers[j].entries : f.v \notin before[e.v]

\* bf[v]: the versions acknowledged when v started.  Among the entries of S the newer version has the larger number.
InOrder(bf, S) == \A e, f \in S : f.v \in bf[e.v] => f.seq < e.seq

\* That holds of each buffer, and the counter is above its numbers.
BufferInOrder ==
    \A i \in 1..Len(buffers) :
       InOrder(before, buffers[i].entries) /\ \A e \in buffers[i].entries : e.seq < seq

\* It holds of each SST; a version in an SST that is older than one of an older SST
\* was replayed on top of it.
SstsInOrder ==
    /\ \A i \in 1..Len(ssts) : InOrder(before, ssts[i].entries)
    /\ \A i, j \in 1..Len(ssts) : i < j =>
          \A e \in ssts[i].entries : \A f \in ssts[j].entries :
             f.v \in before[e.v] => f.v \in revived

Unflushed == {"active", "pending", "written"}

\* The same for a version in memory.
MemoryIsNewer ==
    \A i \in 1..Len(ssts) : \A j \in 1..Len(buffers) : buffers[j].state \in Unflushed =>
       \A e \in ssts[i].entries : \A f \in buffers[j].entries :
          f.v \in before[e.v] => f.v \in revived

\* A buffer on its way to an SST has an entry.
FlushesSomething ==
    /\ \A i \in 1..Len(buffers) :
          buffers[i].state \in {"pending", "written"} => buffers[i].entries # {}
    /\ \A w \in Writers : wpc[w] = "flush" => buffers[at[w]].entries # {}

\* A get finds every version that was acknowledged and not skipped.
AckedIsFound ==
    mode = "up" =>
       \A v \in acked \ lost :
          \/ InSst(v)
          \/ \E i \in 1..Len(buffers) : buffers[i].state \in Unflushed /\ HasVersion(i, v)

\* The records a replay would insert.
Replayed == {e \in Records : e.seq > FlushedThreshold}

\* They have different numbers in the order of their versions, and the numbers have
\* a bound.
ReplayInOrder ==
    /\ InOrder(before, Replayed)
    /\ \A e, f \in Replayed : e.seq = f.seq => e = f
    /\ \E n \in Nat : \A e \in Records : e.seq <= n

\* The threshold is the largest number of an SST, or 0.
ThresholdIsMax ==
    /\ FlushedThreshold \in Nat
    /\ \A i \in 1..Len(ssts) : ssts[i].max \in Nat /\ ssts[i].max <= FlushedThreshold
    /\ \A i \in 1..Len(ssts) : \A e \in ssts[i].entries : e.seq <= ssts[i].max

\* The counter is above the numbers of those records, and an entry about to be
\* logged fits in with them.
LogsInOrder ==
    mode = "up" =>
       /\ \A e \in Replayed : e.seq < seq
       /\ \A w \in Writers : wpc[w] = "log" =>
             /\ \A e \in Replayed : /\ e.seq # entry[w].seq
                                    /\ e.v \in before[entry[w].v] => e.seq < entry[w].seq
             /\ \A x \in Writers : x # w /\ wpc[x] = "log" => entry[x].seq # entry[w].seq

\* The inductive invariant, on top of Durable.
Recent ==
    /\ Typed /\ History /\ RunningIsNew
    /\ HeldIsLate /\ BuffersInOrder /\ BufferInOrder
    /\ SstsInOrder /\ MemoryIsNewer
    /\ FlushesSomething /\ AckedIsFound
    /\ ThresholdIsMax /\ ReplayInOrder /\ LogsInOrder
-----------------------------------------------------------------------------
(* Facts about numbers that the argument uses; they are proved at the end *)

\* A bounded set of numbers has a greatest one.
GreatestExists ==
    \A T \in SUBSET Nat : \A n \in Nat :
       T # {} /\ (\A k \in T : k <= n) => \E m \in T : \A k \in T : k <= m

\* MaxSeq of entries whose numbers have a bound is the largest of them.
MaxSeqIsMax ==
    \A S : \A n \in Nat :
       S # {} /\ (\A e \in S : e.seq \in Nat /\ e.seq <= n) =>
          /\ MaxSeq(S) \in Nat
          /\ \E e \in S : e.seq = MaxSeq(S)
          /\ \A e \in S : e.seq <= MaxSeq(S)

\* The ranks of records with different numbers are in the order of the numbers, and
\* no rank is above the number.
RanksKeepOrder ==
    \A K : (\A e \in K : e.seq \in Nat) /\ (\A e, f \in K : e.seq = f.seq => e = f) =>
       \A e \in K : /\ Rank(e, K) \in Nat /\ Rank(e, K) <= e.seq
                     /\ \A f \in K : f.seq < e.seq => Rank(f, K) < Rank(e, K)

\* FlushedThreshold for the SSTs ss.
ThresholdOf(ss) == MaxSeq({[seq |-> 0, v |-> 0]} \cup
                          {[seq |-> ss[i].max, v |-> 0] : i \in DOMAIN ss})

\* It is 0 or the largest number of an SST.
LEMMA ThresholdFacts ==
    ASSUME MaxSeqIsMax, NEW ss, NEW n \in Nat, \A i \in DOMAIN ss : ss[i].max \in Nat /\ ss[i].max <= n
    PROVE /\ ThresholdOf(ss) \in Nat
          /\ \A i \in DOMAIN ss : ss[i].max <= ThresholdOf(ss)
          /\ ThresholdOf(ss) = 0 \/ \E i \in DOMAIN ss : ThresholdOf(ss) = ss[i].max
<1> DEFINE S == {[seq |-> 0, v |-> 0]} \cup {[seq |-> ss[i].max, v |-> 0] : i \in DOMAIN ss}
<1>1. [seq |-> 0, v |-> 0] \in S
  BY Zenon
<1>2. ASSUME NEW i \in DOMAIN ss PROVE \E e \in S : e.seq = ss[i].max
  <2>1. [seq |-> ss[i].max, v |-> 0] \in S
    BY Zenon
  <2> HIDE DEF S
  <2> QED
    BY <2>1, Zenon
<1>5. ASSUME NEW e \in S PROVE e.seq = 0 \/ \E i \in DOMAIN ss : e.seq = ss[i].max
  OBVIOUS
<1>6. \A e \in S : e.seq \in Nat /\ e.seq <= n
  <2> HIDE DEF S
  <2> QED
    BY <1>5
<1>3. ThresholdOf(ss) = MaxSeq(S)
  BY Zenon DEF ThresholdOf
<1> HIDE DEF S
<1>4. /\ MaxSeq(S) \in Nat
      /\ \E e \in S : e.seq = MaxSeq(S)
      /\ \A e \in S : e.seq <= MaxSeq(S)
  BY <1>1, <1>6, Zenon DEF MaxSeqIsMax
<1> QED
  BY <1>2, <1>3, <1>4, <1>5, Zenon

\* A database starts with no entries at all.
LEMMA InitRecent ==
    ASSUME MaxSeqIsMax, Init
    PROVE Recent
<1>1. /\ Len(buffers) = 1 /\ buffers[1].entries = {} /\ buffers[1].state = "active"
      /\ ssts = <<>> /\ Len(ssts) = 0 /\ Records = {} /\ before = <<>> /\ Len(before) = 0
      /\ puts = 0 /\ seq = 0 /\ acked = {} /\ mode = "up"
      /\ \A w \in Writers : wpc[w] = "idle"
  BY OneBuffer DEF Init, Records
<1>2. entry \in [Writers -> [seq : Nat, v : 0..puts]]
  BY DEF Init, NoEntry
<1>3. 1..1 = {1} /\ 1..0 = {} /\ DOMAIN ssts = {}
  BY <1>1
<1>4. Typed
  BY <1>1, <1>2, <1>3, Zenon DEF Typed
<1>5. History
  BY <1>1, <1>3 DEF History, IsSeq
<1>6. RunningIsNew /\ HeldIsLate /\ BuffersInOrder /\ BufferInOrder
  BY <1>1, <1>3, Zenon DEF RunningIsNew, HeldIsLate, BuffersInOrder, BufferInOrder, InOrder
<1>7. SstsInOrder /\ MemoryIsNewer /\ FlushesSomething /\ AckedIsFound
  BY <1>1, <1>3, Zenon DEF SstsInOrder, MemoryIsNewer, FlushesSomething, AckedIsFound
<1>8. ThresholdIsMax
  <2>1. FlushedThreshold = ThresholdOf(ssts)
    BY Zenon DEF FlushedThreshold, ThresholdOf
  <2>2. FlushedThreshold \in Nat
    BY <1>3, <2>1, ThresholdFacts, Zenon
  <2> QED
    BY <1>1, <1>3, <2>2, Zenon DEF ThresholdIsMax
<1>9. ReplayInOrder /\ LogsInOrder
  <2>1. Replayed = {} /\ 0 \in Nat
    BY <1>1, Zenon DEF Replayed
  <2> QED
    BY <1>1, <2>1, Zenon DEF ReplayInOrder, LogsInOrder, InOrder
<1> QED
  BY <1>4, <1>5, <1>6, <1>7, <1>8, <1>9, Zenon DEF Recent

-----------------------------------------------------------------------------
(* The order is kept: the steps of a writer *)

\* A history that only got longer orders earlier entries as before.
LEMMA LongerHistory ==
    ASSUME NEW n, NEW bf, NEW bg, \A p \in 1..n : bg[p] = bf[p],
           NEW S, S \subseteq EntriesUpTo(n), InOrder(bf, S)
    PROVE InOrder(bg, S)
BY Zenon DEF InOrder, EntriesUpTo

\* A version that is in no history is newer than any other.
LEMMA AddNewest ==
    ASSUME NEW bf, NEW S, InOrder(bf, S), NEW x, NEW A,
           \A e \in S : bf[e.v] \subseteq A, bf[x.v] \subseteq A, x.v \notin A,
           \A e \in S : e.v \in bf[x.v] => e.seq < x.seq
    PROVE InOrder(bf, S \cup {x})
BY Zenon DEF InOrder

\* The history of every entry is acknowledged.
LEMMA HistoryIsAcked ==
    ASSUME History, NEW e \in EntriesUpTo(puts)
    PROVE e.v \in 1..puts /\ before[e.v] \subseteq acked
BY Zenon DEF History, EntriesUpTo

\* A put that starts takes the active buffer, and everything acknowledged is older.
LEMMA PutRecent ==
    ASSUME Durable, Recent, NEW w \in Writers, Put(w)
    PROVE Recent'
<1> USE DEF Recent
<1>1. /\ UNCHANGED <<mode, seq, buffers, free, wal, ssts, acked, lost, revived>>
      /\ puts' = puts + 1 /\ before' = Append(before, acked) /\ wpc[w] = "idle"
  BY Zenon DEF Put, memVars, diskVars, crashVars
<1>2. /\ puts \in Nat /\ 1..puts \subseteq 1..puts' /\ puts + 1 \notin 1..puts
      /\ 0..puts \subseteq 0..puts' /\ puts + 1 \in 1..puts' /\ puts + 1 \in 0..puts'
      /\ \A p \in 1..puts' : p \in 1..puts \/ p = puts + 1
  BY <1>1 DEF Typed
<1>3. /\ IsSeq(before') /\ Len(before') = puts'
      /\ \A p \in 1..puts : before'[p] = before[p]
      /\ before'[puts + 1] = acked
  BY <1>1, <1>2, AppendIsSeq DEF History
<1>4. /\ entry' \in [Writers -> [seq : Nat, v : 0..puts']]
      /\ entry'[w].v = puts + 1
      /\ \A x \in Writers : x # w => entry'[x] = entry[x]
  BY <1>2, Zenon DEF Put, Typed
<1>5. /\ at'[w] = Len(buffers) /\ wpc'[w] = "insert"
      /\ \A x \in Writers : x # w => at'[x] = at[x] /\ wpc'[x] = wpc[x]
  BY Zenon DEF Put, Durable, Slots, Shape, Active
<1>6. EntriesUpTo(puts) \subseteq EntriesUpTo(puts')
  BY <1>2, Zenon DEF EntriesUpTo
<1>7. Records' = Records /\ FlushedThreshold' = FlushedThreshold /\ Replayed' = Replayed
  BY <1>1, Zenon DEF Records, FlushedThreshold, Replayed
<1>8. Typed'
  BY <1>1, <1>2, <1>4, <1>6, <1>7 DEF Typed
<1>9. History'
  BY <1>1, <1>2, <1>3, Zenon DEF History
<1>10. RunningIsNew'
  <2>1. \A x \in Writers : x # w /\ wpc'[x] # "idle" =>
           wpc[x] # "idle" /\ entry'[x].v = entry[x].v /\ entry[x].v \in 1..puts /\ entry[x].v # puts + 1
    BY <1>2, <1>4, <1>5, Zenon DEF RunningIsNew
  <2>2. puts + 1 \notin acked
    BY <1>2, Zenon DEF History
  <2> SUFFICES ASSUME NEW x \in Writers, wpc'[x] # "idle"
               PROVE /\ entry'[x].v \in 1..puts' /\ entry'[x].v \notin acked
                     /\ \A y \in Writers : y # x /\ wpc'[y] # "idle" => entry'[y].v # entry'[x].v
    BY <1>1, Zenon DEF RunningIsNew
  <2>3. CASE x = w
    BY <1>2, <1>4, <2>1, <2>2, <2>3, Zenon
  <2>4. CASE x # w
    <3>1. /\ entry[x].v \in 1..puts /\ entry[x].v \notin acked
          /\ \A y \in Writers : y # x /\ wpc[y] # "idle" => entry[y].v # entry[x].v
      BY <2>1, <2>4, Zenon DEF RunningIsNew
    <3> QED
      BY <1>2, <1>4, <2>1, <2>4, <3>1, Zenon
  <2> QED
    BY <2>3, <2>4, Zenon
<1>11. HeldIsLate'
  <2> SUFFICES ASSUME NEW x \in Writers, wpc'[x] # "idle", NEW j \in 1..Len(buffers), at'[x] < j,
                      NEW f \in buffers[j].entries
               PROVE f.v \notin before'[entry'[x].v]
    BY <1>1, Zenon DEF HeldIsLate
  <2>1. x # w
    BY <1>5 DEF Durable, Slots, Shape
  <2>2. entry'[x] = entry[x] /\ entry[x].v \in 1..puts
    BY <1>4, <1>5, <2>1, Zenon DEF RunningIsNew
  <2> QED
    BY <1>3, <1>5, <2>1, <2>2, SMTT(30) DEF HeldIsLate
<1>12. \A i \in 1..Len(buffers) : \A e \in buffers[i].entries : before'[e.v] = before[e.v]
  BY <1>3, Zenon DEF Typed, EntriesUpTo
<1>13. \A i \in 1..Len(ssts) : \A e \in ssts[i].entries : before'[e.v] = before[e.v]
  BY <1>3, Zenon DEF Typed, EntriesUpTo
<1>14. BuffersInOrder'
  <2> SUFFICES ASSUME NEW i \in 1..Len(buffers), NEW j \in 1..Len(buffers), i < j,
                      NEW e \in buffers[i].entries, NEW f \in buffers[j].entries
               PROVE f.v \notin before'[e.v]
    BY <1>1, Zenon DEF BuffersInOrder
  <2>1. f.v \notin before[e.v]
    BY Zenon DEF BuffersInOrder
  <2> QED
    BY <1>12, <2>1, Zenon
<1>15. BufferInOrder'
  BY <1>1, <1>12, ZenonT(60) DEF BufferInOrder, InOrder
<1>16. SstsInOrder'
  <2>1. \A i \in 1..Len(ssts) : InOrder(before', ssts[i].entries)
    BY <1>13, Zenon DEF SstsInOrder, InOrder
  <2>2. ASSUME NEW i \in 1..Len(ssts), NEW j \in 1..Len(ssts), i < j,
               NEW e \in ssts[i].entries, NEW f \in ssts[j].entries, f.v \in before'[e.v]
        PROVE f.v \in revived
    <3>1. f.v \in before[e.v]
      BY <1>13, <2>2, Zenon
    <3> QED
      BY <2>2, <3>1, Zenon DEF SstsInOrder
  <2> QED
    BY <1>1, <2>1, <2>2, ZenonT(60) DEF SstsInOrder
<1>17. MemoryIsNewer'
  BY <1>1, <1>13, ZenonT(60) DEF MemoryIsNewer
<1>18. FlushesSomething'
  BY <1>1, <1>5, Zenon DEF FlushesSomething
<1>19. AckedIsFound'
  BY <1>1, Zenon DEF AckedIsFound, InSst, HasVersion
<1>20. ThresholdIsMax'
  BY <1>1, <1>7, Zenon DEF ThresholdIsMax
<1>21. ReplayInOrder'
  <2>1. \A e \in Replayed : before'[e.v] = before[e.v]
    BY <1>3, Zenon DEF Typed, EntriesUpTo, Replayed
  <2> QED
    BY <1>7, <2>1, Zenon DEF ReplayInOrder, InOrder
<1>22. LogsInOrder'
  <2>1. \A x \in Writers : wpc'[x] = "log" =>
           /\ x # w /\ wpc[x] = "log" /\ entry'[x] = entry[x]
           /\ before'[entry[x].v] = before[entry[x].v]
    BY <1>3, <1>4, <1>5, Zenon DEF RunningIsNew
  <2> SUFFICES ASSUME mode = "up", NEW x \in Writers, wpc'[x] = "log"
               PROVE /\ \A e \in Replayed : /\ e.seq # entry'[x].seq
                                            /\ e.v \in before'[entry'[x].v] => e.seq < entry'[x].seq
                     /\ \A y \in Writers : y # x /\ wpc'[y] = "log" => entry'[y].seq # entry'[x].seq
    BY <1>1, <1>7, Zenon DEF LogsInOrder
  <2> QED
    BY <2>1, ZenonT(60) DEF LogsInOrder
<1> QED
  BY <1>8, <1>9, <1>10, <1>11, <1>14, <1>15, <1>16, <1>17, <1>18, <1>19, <1>20, <1>21, <1>22, Zenon

\* The record of an entry fits in with those that a replay would insert.
LEMMA LogRecent ==
    ASSUME Durable, Recent, NEW w \in Writers, Log(w)
    PROVE Recent'
<1> USE DEF Recent
<1>1. /\ UNCHANGED <<mode, seq, buffers, free, ssts, at, puts, before, lost, revived>>
      /\ acked' = acked \cup {entry[w].v} /\ wpc[w] = "log"
  BY Zenon DEF Log, memVars, crashVars
<1>2. /\ entry'[w] = NoEntry /\ wpc'[w] = "idle"
      /\ entry' \in [Writers -> [seq : Nat, v : 0..puts]]
      /\ \A x \in Writers : x # w => entry'[x] = entry[x] /\ wpc'[x] = wpc[x]
  BY DEF Log, Durable, Slots, Shape, Typed, NoEntry
<1>3. /\ at[w] \in 1..Len(buffers) /\ entry[w] \in buffers[at[w]].entries
      /\ buffers[at[w]].state \in Unflushed /\ mode = "up"
      /\ buffers[at[w]].slot \in WalSlots
  BY <1>1, Zenon DEF Durable, Slots, Shape, LogIsInserted, HeldIsOpen, Unflushed
<1>4. entry[w] \in EntriesUpTo(puts) /\ entry[w].seq \in Nat /\ entry[w].seq < seq
  BY <1>3, Zenon DEF Typed, BufferInOrder, EntriesUpTo
<1>5. Records' = Records \cup {entry[w]}
  <2> DEFINE s == buffers[at[w]].slot
  <2>1. /\ \A t \in WalSlots : t # s => wal'[t] = wal[t]
        /\ wal'[s] = wal[s] \cup {entry[w]} /\ s \in WalSlots
    BY <1>3, Zenon DEF Log, Durable, Slots, Shape
  <2> HIDE DEF s
  <2> QED
    BY <2>1, Zenon DEF Records
<1>6. FlushedThreshold' = FlushedThreshold /\ FlushedThreshold \in Nat
  BY <1>1, Zenon DEF FlushedThreshold, ThresholdIsMax
<1>7. Replayed \subseteq Replayed' /\ Replayed' \subseteq Replayed \cup {entry[w]}
  BY <1>5, <1>6, Zenon DEF Replayed
<1>8. entry[w].v \in 1..puts /\ entry[w].v \notin acked
  BY <1>1, Zenon DEF RunningIsNew
<1>9. Typed'
  BY <1>1, <1>2, <1>4, <1>5, Zenon DEF Typed
<1>10. History'
  BY <1>1, <1>8, Zenon DEF History
<1>11. RunningIsNew'
  BY <1>1, <1>2 DEF RunningIsNew
<1>12. HeldIsLate'
  BY <1>1, <1>2, ZenonT(60) DEF HeldIsLate
<1>13. BuffersInOrder' /\ BufferInOrder' /\ SstsInOrder' /\ MemoryIsNewer'
  <2>1. BuffersInOrder'
    BY <1>1, Zenon DEF BuffersInOrder
  <2>2. BufferInOrder'
    BY <1>1, Zenon DEF BufferInOrder
  <2>3. SstsInOrder'
    BY <1>1, Zenon DEF SstsInOrder
  <2>4. MemoryIsNewer'
    BY <1>1, Zenon DEF MemoryIsNewer
  <2> QED
    BY <2>1, <2>2, <2>3, <2>4, Zenon
<1>14. FlushesSomething'
  BY <1>1, <1>2, Zenon DEF FlushesSomething
<1>15. AckedIsFound'
  <2>1. HasVersion(at[w], entry[w].v)
    BY <1>3, Zenon DEF HasVersion
  <2> QED
    BY <1>1, <1>3, <2>1 DEF AckedIsFound, InSst, HasVersion
<1>16. ThresholdIsMax'
  BY <1>1, <1>6, Zenon DEF ThresholdIsMax
<1>17. ReplayInOrder'
  <2>1. InOrder(before, Replayed \cup {entry[w]})
    <3>1. \A e \in Replayed : before[e.v] \subseteq acked
      BY HistoryIsAcked, Zenon DEF Replayed, Typed
    <3>2. before[entry[w].v] \subseteq acked
      BY <1>4, HistoryIsAcked, Zenon
    <3>3. \A e \in Replayed : e.v \in before[entry[w].v] => e.seq < entry[w].seq
      BY <1>1, <1>3, Zenon DEF LogsInOrder
    <3>4. InOrder(before, Replayed)
      BY Zenon DEF ReplayInOrder
    <3> QED
      BY <1>8, <3>1, <3>2, <3>3, <3>4, AddNewest, Zenon
  <2>2. InOrder(before, Replayed')
    BY <1>7, <2>1, Zenon DEF InOrder
  <2>3. \A e, f \in Replayed' : e.seq = f.seq => e = f
    BY <1>1, <1>3, <1>7, Zenon DEF ReplayInOrder, LogsInOrder
  <2>4. \E n \in Nat : \A e \in Records' : e.seq <= n
    <3>1. PICK n \in Nat : \A e \in Records : e.seq <= n
      BY Zenon DEF ReplayInOrder
    <3>2. PICK m \in Nat : n <= m /\ entry[w].seq <= m
      BY <1>4
    <3>3. \A e \in Records : e.seq \in Nat
      BY Zenon DEF Typed, EntriesUpTo
    <3>4. \A e \in Records' : e.seq <= m
      BY <1>5, <3>1, <3>2, <3>3
    <3> QED
      BY <3>4, Zenon
  <2> QED
    BY <1>1, <2>2, <2>3, <2>4, Zenon DEF ReplayInOrder
<1>18. LogsInOrder'
  <2>1. \A e \in Replayed' : e.seq < seq
    BY <1>3, <1>4, <1>7, Zenon DEF LogsInOrder
  <2> SUFFICES ASSUME NEW x \in Writers, wpc'[x] = "log"
               PROVE /\ \A e \in Replayed' : /\ e.seq # entry'[x].seq
                                             /\ e.v \in before[entry'[x].v] => e.seq < entry'[x].seq
                     /\ \A y \in Writers : y # x /\ wpc'[y] = "log" => entry'[y].seq # entry'[x].seq
    BY <1>1, <2>1, Zenon DEF LogsInOrder
  <2>2. x # w /\ wpc[x] = "log" /\ entry'[x] = entry[x]
    BY <1>2, Zenon
  <2>3. entry[x].v \in 1..puts /\ entry[w].v \notin before[entry[x].v]
    BY <1>8, <2>2, Zenon DEF RunningIsNew, History
  <2>4. entry[w].seq # entry[x].seq
    BY <1>1, <1>3, <2>2, Zenon DEF LogsInOrder
  <2>5. \A e \in Replayed' : e.seq # entry[x].seq /\ (e.v \in before[entry[x].v] => e.seq < entry[x].seq)
    BY <1>3, <1>7, <2>2, <2>3, <2>4, Zenon DEF LogsInOrder
  <2>6. \A y \in Writers : y # x /\ wpc'[y] = "log" =>
           wpc[y] = "log" /\ entry'[y] = entry[y] /\ entry[y].seq # entry[x].seq
    BY <1>2, <1>3, <2>2, Zenon DEF LogsInOrder
  <2> QED
    BY <2>2, <2>5, <2>6, Zenon
<1> QED
  BY <1>9, <1>10, <1>11, <1>12, <1>13, <1>14, <1>15, <1>16, <1>17, <1>18, Zenon

\* An insertion that fails uses up a number at most.
LEMMA InsertFailsRecent ==
    ASSUME Durable, Recent, NEW w \in Writers, wpc[w] = "insert",
           buffers[at[w]].entries # {}, wpc' = [wpc EXCEPT ![w] = "flush"],
           seq' \in Nat, seq <= seq',
           UNCHANGED <<mode, entry, buffers, free, wal, ssts, at, puts, acked, before, lost, revived>>
    PROVE Recent'
<1> USE DEF Recent
<1>1. Records' = Records /\ FlushedThreshold' = FlushedThreshold /\ Replayed' = Replayed
  BY Zenon DEF Records, FlushedThreshold, Replayed
<1>2. wpc'[w] = "flush" /\ \A x \in Writers : x # w => wpc'[x] = wpc[x]
  BY Zenon DEF Durable, Slots, Shape
<1>3. Typed' /\ History'
  BY <1>1, Zenon DEF Typed, History
<1>4. RunningIsNew' /\ HeldIsLate'
  BY <1>2, SMTT(30) DEF RunningIsNew, HeldIsLate
<1>5. BuffersInOrder' /\ SstsInOrder' /\ MemoryIsNewer'
  BY DEF BuffersInOrder, SstsInOrder, MemoryIsNewer
<1>6. BufferInOrder'
  <2>1. \A i \in 1..Len(buffers) : \A e \in buffers[i].entries : e.seq \in Nat /\ seq \in Nat
    BY Zenon DEF Typed, EntriesUpTo
  <2>2. \A i \in 1..Len(buffers) : \A e \in buffers[i].entries : e.seq < seq'
    BY <2>1 DEF BufferInOrder
  <2> QED
    BY <2>2, Zenon DEF BufferInOrder
<1>7. FlushesSomething'
  BY <1>2, Zenon DEF FlushesSomething
<1>8. AckedIsFound'
  BY Zenon DEF AckedIsFound, InSst, HasVersion
<1>9. ThresholdIsMax' /\ ReplayInOrder'
  BY <1>1, Zenon DEF ThresholdIsMax, ReplayInOrder
<1>10. LogsInOrder'
  <2>1. \A e \in Replayed : e.seq \in Nat /\ seq \in Nat
    BY Zenon DEF Replayed, Typed, EntriesUpTo
  <2>2. mode = "up" => \A e \in Replayed : e.seq < seq'
    BY <2>1 DEF LogsInOrder
  <2>3. \A x \in Writers : wpc'[x] = "log" => wpc[x] = "log"
    BY <1>2, Zenon
  <2> QED
    BY <1>1, <2>2, <2>3, Zenon DEF LogsInOrder
<1> QED
  BY <1>3, <1>4, <1>5, <1>6, <1>7, <1>8, <1>9, <1>10, Zenon

\* An insertion takes a number above all others, for a version that is not
\* acknowledged.
LEMMA InsertRecent ==
    ASSUME Durable, Recent, NEW w \in Writers, Insert(w)
    PROVE Recent'
<1> USE DEF Recent
<1> DEFINE b == at[w]
<1>1. /\ UNCHANGED <<mode, free, wal, ssts, at, puts, acked, before, lost, revived>>
      /\ wpc[w] = "insert"
  BY Zenon DEF Insert, diskVars, crashVars
<1>2. /\ b \in 1..Len(buffers) /\ IsList(buffers) /\ Len(buffers) \in Nat
      /\ DOMAIN buffers = 1..Len(buffers)
      /\ buffers[b].state \in {"active", "pending"} /\ mode = "up" /\ seq \in Nat
  BY SeqDomain, Zenon DEF Insert, Durable, Slots, Shape, HeldIsOpen, IsList, Typed
<1>3. CASE /\ seq' \in {seq, IF seq < MaxGap THEN seq + 1 ELSE seq}
           /\ wpc' = [wpc EXCEPT ![w] = "flush"] /\ buffers[b].entries # {}
           /\ UNCHANGED <<entry, buffers>>
  <2>1. seq' \in Nat /\ seq <= seq'
    BY <1>2, <1>3
  <2> QED
    BY <1>1, <1>3, <2>1, InsertFailsRecent, Zenon
<1>4. CASE /\ seq' = seq + 1
           /\ entry' = [entry EXCEPT ![w].seq = seq]
           /\ buffers' = [buffers EXCEPT ![b].entries = @ \cup {entry'[w]},
                                         ![b].bytes = IF @ > Cap THEN @ ELSE @ + 1]
           /\ wpc' = [wpc EXCEPT ![w] = IF buffers[b].bytes > Cap THEN "flush" ELSE "log"]
  <2> DEFINE X == buffers[b].entries \cup {entry'[w]}
             y == IF buffers[b].bytes > Cap THEN buffers[b].bytes ELSE buffers[b].bytes + 1
  <2>1. Updated(buffers, buffers', b, buffers[b].state, X)
    <3>1. buffers' = [buffers EXCEPT ![b].entries = X, ![b].bytes = y]
      BY <1>2, <1>4, Zenon DEF IsList, Fields
    <3>2. IsUpdate(buffers, buffers', b, buffers[b].state, X)
      BY <3>1, Zenon DEF IsUpdate
    <3> HIDE DEF X
    <3> QED
      BY <1>2, <3>2, SetBuffer, Zenon
  <2>2. /\ Len(buffers') = Len(buffers)
        /\ \A i \in 1..Len(buffers) : i # b => buffers'[i].state = buffers[i].state
                                               /\ buffers'[i].entries = buffers[i].entries
        /\ buffers'[b].state = buffers[b].state
        /\ buffers'[b].entries = buffers[b].entries \cup {entry'[w]}
    BY <2>1, Zenon DEF Updated
  <2>3. /\ entry' \in [Writers -> [seq : Nat, v : 0..puts]]
        /\ entry'[w].seq = seq /\ entry'[w].v = entry[w].v
        /\ \A x \in Writers : x # w => entry'[x] = entry[x]
    BY <1>2, <1>4, Zenon DEF Typed
  <2>4. /\ wpc'[w] \in {"flush", "log"}
        /\ \A x \in Writers : x # w => wpc'[x] = wpc[x]
    BY <1>4, Zenon DEF Durable, Slots, Shape
  <2>5. Records' = Records /\ FlushedThreshold' = FlushedThreshold /\ Replayed' = Replayed
    BY <1>1, Zenon DEF Records, FlushedThreshold, Replayed
  <2>6. PICK new : new = entry'[w]
    BY Zenon
  <2>7. /\ new.v = entry[w].v /\ new.seq = seq /\ new \in EntriesUpTo(puts)
        /\ new.v \notin acked /\ before[new.v] \subseteq acked
    <3>1. entry[w].v \in 1..puts /\ entry[w].v \notin acked
      BY <1>1, Zenon DEF RunningIsNew
    <3>2. new \in [seq : Nat, v : 0..puts] /\ new.v = entry[w].v
      BY <2>3, <2>6, Zenon
    <3>3. new \in EntriesUpTo(puts)
      BY <3>1, <3>2, Zenon DEF EntriesUpTo
    <3> QED
      BY <2>3, <2>6, <3>1, <3>2, <3>3, HistoryIsAcked, Zenon
  <2>8. /\ \A i \in 1..Len(buffers) : \A e \in buffers'[i].entries :
              e \in buffers[i].entries \/ (i = b /\ e = new)
        /\ \A i \in 1..Len(buffers) : buffers'[i].state = buffers[i].state
        /\ \A i \in 1..Len(buffers) : buffers[i].entries \subseteq buffers'[i].entries
        /\ new \in buffers'[b].entries
    BY <1>2, <2>2, <2>6, Zenon
  <2>9. \A i \in 1..Len(buffers) : \A e \in buffers[i].entries :
           e \in EntriesUpTo(puts) /\ e.seq \in Nat /\ before[e.v] \subseteq acked /\ e.seq < seq
    BY HistoryIsAcked, Zenon DEF Typed, EntriesUpTo, BufferInOrder
  <2> HIDE <1>4
  <2> HIDE DEF b
  <2>10. Typed'
    <3>1. \A i \in 1..Len(buffers) : buffers'[i].entries \subseteq EntriesUpTo(puts)
      BY <2>7, <2>8, <2>9, Zenon
    <3>2. seq' \in Nat
      BY <1>2, <1>4
    <3> QED
      BY <1>1, <2>2, <2>3, <2>5, <3>1, <3>2, Zenon DEF Typed
  <2>11. History'
    BY <1>1, Zenon DEF History
  <2>12. RunningIsNew'
    <3>1. \A x \in Writers : entry'[x].v = entry[x].v /\ (wpc'[x] # "idle" <=> wpc[x] # "idle")
      BY <1>1, <2>3, <2>4, Zenon
    <3> QED
      BY <1>1, <3>1, Zenon DEF RunningIsNew
  <2>13. HeldIsLate'
    <3> SUFFICES ASSUME NEW x \in Writers, wpc'[x] # "idle", NEW j \in 1..Len(buffers), at[x] < j,
                        NEW f \in buffers'[j].entries
                 PROVE f.v \notin before[entry'[x].v]
      BY <1>1, <2>2, Zenon DEF HeldIsLate
    <3>1. entry'[x].v = entry[x].v /\ wpc[x] # "idle"
      BY <1>1, <2>3, <2>4, Zenon
    <3>2. before[entry[x].v] \subseteq acked
      BY <3>1, Zenon DEF RunningIsNew, History
    <3> QED
      BY <2>7, <2>8, <3>1, <3>2, Zenon DEF HeldIsLate
  <2>14. BuffersInOrder'
    <3> SUFFICES ASSUME NEW i \in 1..Len(buffers), NEW j \in 1..Len(buffers), i < j,
                        NEW e \in buffers'[i].entries, NEW f \in buffers'[j].entries
                 PROVE f.v \notin before[e.v]
      BY <1>1, <2>2, Zenon DEF BuffersInOrder
    <3>1. CASE f = new
      BY <2>7, <2>8, <2>9, <3>1, Zenon
    <3>2. CASE f \in buffers[j].entries /\ e \in buffers[i].entries
      BY <3>2, Zenon DEF BuffersInOrder
    <3>3. CASE f \in buffers[j].entries /\ e = new /\ i = b
      BY <1>1, <2>7, <3>3, Zenon DEF HeldIsLate, b
    <3> QED
      BY <2>8, <3>1, <3>2, <3>3, Zenon
  <2>15. BufferInOrder'
    <3>1. \A i \in 1..Len(buffers) : \A e \in buffers'[i].entries : e.seq < seq'
      BY <1>2, <1>4, <2>7, <2>8, <2>9
    <3>2. InOrder(before, buffers[b].entries \cup {new})
      <4>1. InOrder(before, buffers[b].entries)
        BY <1>2, Zenon DEF BufferInOrder
      <4> QED
        BY <1>2, <2>7, <2>9, <4>1, AddNewest, Zenon
    <3>3. \A i \in 1..Len(buffers) : InOrder(before, buffers'[i].entries)
      BY <2>2, <2>6, <3>2, Zenon DEF BufferInOrder
    <3> QED
      BY <1>1, <2>2, <3>1, <3>3, Zenon DEF BufferInOrder
  <2>16. SstsInOrder'
    BY <1>1 DEF SstsInOrder
  <2>17. MemoryIsNewer'
    <3> SUFFICES ASSUME NEW i \in 1..Len(ssts), NEW j \in 1..Len(buffers), buffers[j].state \in Unflushed,
                        NEW e \in ssts[i].entries, NEW f \in buffers'[j].entries, f.v \in before[e.v]
                 PROVE f.v \in revived
      BY <1>1, <2>2, <2>8, SMTT(30) DEF MemoryIsNewer
    <3>1. before[e.v] \subseteq acked
      BY HistoryIsAcked, Zenon DEF Typed
    <3> QED
      BY <2>7, <2>8, <3>1, Zenon DEF MemoryIsNewer
  <2>18. FlushesSomething'
    BY <1>1, <1>2, <2>2, <2>4, <2>8, ZenonT(60) DEF FlushesSomething, Durable, Slots, Shape, b
  <2>19. AckedIsFound'
    BY <1>1, <2>2, <2>8 DEF AckedIsFound, InSst, HasVersion
  <2>20. ThresholdIsMax' /\ ReplayInOrder'
    BY <1>1, <2>5, Zenon DEF ThresholdIsMax, ReplayInOrder
  <2>21. LogsInOrder'
    <3>1. \A e \in Replayed : e.seq \in Nat /\ e.seq < seq
      BY <1>2, Zenon DEF Replayed, Typed, EntriesUpTo, LogsInOrder
    <3>2. \A e \in Replayed : e.seq < seq'
      BY <1>2, <1>4, <3>1
    <3>3. \A x \in Writers : x # w /\ wpc[x] = "log" => entry[x].seq # seq
      <4> SUFFICES ASSUME NEW x \in Writers, wpc[x] = "log" PROVE entry[x].seq # seq
        BY Zenon
      <4>1. entry[x] \in buffers[at[x]].entries /\ at[x] \in 1..Len(buffers)
        BY Zenon DEF Durable, LogIsInserted, Slots, Shape
      <4>2. entry[x].seq \in Nat /\ entry[x].seq < seq
        BY <2>9, <4>1, Zenon
      <4> QED
        BY <1>2, <4>2
    <3> SUFFICES ASSUME NEW x \in Writers, wpc'[x] = "log"
                 PROVE /\ \A e \in Replayed : /\ e.seq # entry'[x].seq
                                              /\ e.v \in before[entry'[x].v] => e.seq < entry'[x].seq
                       /\ \A z \in Writers : z # x /\ wpc'[z] = "log" => entry'[z].seq # entry'[x].seq
      BY <1>1, <2>5, <3>2, Zenon DEF LogsInOrder
    <3>4. CASE x = w
      <4>1. \A e \in Replayed : e.seq # entry'[x].seq /\ e.seq < entry'[x].seq
        BY <1>2, <2>3, <3>1, <3>4
      <4>2. \A z \in Writers : z # x /\ wpc'[z] = "log" => entry'[z].seq # entry'[x].seq
        BY <2>3, <2>4, <3>3, <3>4, Zenon
      <4> QED
        BY <4>1, <4>2, Zenon
    <3>5. CASE x # w
      <4>1. wpc[x] = "log" /\ entry'[x] = entry[x] /\ entry[x].seq # seq
        BY <2>3, <2>4, <3>3, <3>5, ZenonT(60)
      <4>2. \A z \in Writers : z # x /\ wpc'[z] = "log" => entry'[z].seq # entry[x].seq
        BY <1>2, <2>3, <2>4, <4>1, SMTT(30) DEF LogsInOrder
      <4> QED
        BY <1>2, <4>1, <4>2, Zenon DEF LogsInOrder
    <3> QED
      BY <3>4, <3>5, Zenon
  <2> QED
    BY <2>10, <2>11, <2>12, <2>13, <2>14, <2>15, <2>16, <2>17, <2>18, <2>19, <2>20, <2>21, Zenon
<1> QED
  BY <1>3, <1>4, Zenon DEF Insert

\* A writer that takes a newer buffer, or appends one without entries, keeps the
\* order.
LEMMA FlushRecent ==
    ASSUME Durable, Recent, NEW w \in Writers, Flush(w)
    PROVE Recent'
<1> USE DEF Recent
<1> DEFINE n == Len(buffers)
<1>1. /\ IsList(buffers) /\ n \in Nat \ {0} /\ DOMAIN buffers = 1..n
      /\ buffers[n].state = "active"
      /\ at \in [Writers -> 1..n] /\ wpc[w] = "flush" /\ mode = "up"
  BY SeqDomain, Zenon DEF Flush, Durable, Slots, Shape, IsList, LastIsActive, HeldIsOpen
<1>2. UNCHANGED <<mode, seq, wal, ssts, entry, puts, acked, before, lost, revived>>
  BY Zenon DEF Flush, diskVars, crashVars
<1>3. /\ at'[w] = Len(buffers') /\ wpc'[w] = "insert"
      /\ \A x \in Writers : x # w => at'[x] = at[x] /\ wpc'[x] = wpc[x]
  BY <1>1, Zenon DEF Flush, Durable, Slots, Shape
<1>4. Records' = Records /\ FlushedThreshold' = FlushedThreshold /\ Replayed' = Replayed
  BY <1>2, Zenon DEF Records, FlushedThreshold, Replayed
\* What either case gives: the old buffers have their entries, a new one has none.
<1>5. /\ Len(buffers') \in Nat /\ n <= Len(buffers')
      /\ \A i \in 1..Len(buffers') : i \in 1..n \/ (buffers'[i].entries = {} /\ buffers'[i].state = "active")
      /\ \A i \in 1..n : buffers'[i].entries = buffers[i].entries
      /\ \A i \in 1..n : buffers'[i].state \in Unflushed <=> buffers[i].state \in Unflushed
      /\ \A i \in 1..n : buffers'[i].state = buffers[i].state \/
                         (buffers'[i].state = "pending" /\ i = at[w])
  <2>1. CASE at[w] # Active
    <3>1. UNCHANGED <<buffers, free>>
      BY <2>1, Zenon DEF Flush
    <3> QED
      BY <1>1, <3>1
  <2>2. CASE at[w] = Active
    <3> DEFINE cs == [buffers EXCEPT ![n].state = "pending"]
               new == NewBuffer(Head(free))
    <3>1. buffers' = Append(cs, new) /\ at[w] = n
      BY <2>2, Zenon DEF Flush, Active
    <3>2. Updated(buffers, cs, n, "pending", buffers[n].entries)
      <4>1. IsUpdate(buffers, cs, n, "pending", buffers[n].entries)
        BY Zenon DEF IsUpdate
      <4> HIDE DEF cs
      <4> QED
        BY <1>1, <4>1, SetBuffer
    <3>3. new.state = "active" /\ new.entries = {}
      BY Zenon DEF NewBuffer
    <3> HIDE DEF cs, new
    <3>4. /\ Len(buffers') = n + 1
          /\ \A i \in 1..n : buffers'[i] = cs[i]
          /\ buffers'[n + 1] = new
      BY <3>1, <3>2, AppendIsSeq DEF Updated, IsList
    <3>5. /\ \A i \in 1..n : i # n => cs[i].state = buffers[i].state /\ cs[i].entries = buffers[i].entries
          /\ cs[n].state = "pending" /\ cs[n].entries = buffers[n].entries
      BY <3>2, Zenon DEF Updated
    <3>6. \A i \in 1..(n + 1) : i \in 1..n \/ i = n + 1
      BY <1>1
    <3>7. n + 1 \in Nat /\ n <= n + 1 /\ buffers[n].state = "active"
      BY <1>1
    <3> HIDE DEF n
    <3>8. \A i \in 1..n : buffers'[i].entries = buffers[i].entries
      BY <3>4, <3>5, Zenon
    <3>9. \A i \in 1..n : \/ buffers'[i].state = buffers[i].state
                          \/ i = n /\ buffers'[i].state = "pending" /\ buffers[i].state = "active"
      BY <3>4, <3>5, <3>7, Zenon
    <3>10. \A i \in 1..n : buffers'[i].state \in Unflushed <=> buffers[i].state \in Unflushed
      BY <3>9, Zenon DEF Unflushed
    <3> QED
      BY <3>1, <3>3, <3>4, <3>6, <3>7, <3>8, <3>9, <3>10, ZenonT(60)
  <2> QED
    BY <2>1, <2>2, Zenon
<1> HIDE DEF n
<1>6. 1..n \subseteq 1..Len(buffers')
  BY <1>1, <1>5
<1>7. Typed' /\ History'
  <2>1. \A i \in 1..Len(buffers') : buffers'[i].entries \subseteq EntriesUpTo(puts)
    BY <1>5, Zenon DEF Typed, n
  <2> QED
    BY <1>2, <1>4, <2>1, Zenon DEF Typed, History
<1>8. RunningIsNew'
  <2>1. \A x \in Writers : wpc'[x] # "idle" <=> wpc[x] # "idle"
    BY <1>1, <1>3, Zenon
  <2> QED
    BY <1>2, <2>1, Zenon DEF RunningIsNew
<1>9. HeldIsLate'
  <2> SUFFICES ASSUME NEW x \in Writers, wpc'[x] # "idle", NEW j \in 1..Len(buffers'), at'[x] < j,
                      NEW f \in buffers'[j].entries
               PROVE f.v \notin before[entry[x].v]
    BY <1>2, Zenon DEF HeldIsLate
  <2>1. x # w
    BY <1>3, <1>5
  <2>2. j \in 1..n /\ f \in buffers[j].entries /\ at[x] < j /\ wpc[x] # "idle"
    BY <1>3, <1>5, <2>1, Zenon
  <2> QED
    BY <2>2, Zenon DEF HeldIsLate, n
<1>10. BuffersInOrder'
  <2> SUFFICES ASSUME NEW i \in 1..Len(buffers'), NEW j \in 1..Len(buffers'), i < j,
                      NEW e \in buffers'[i].entries, NEW f \in buffers'[j].entries
               PROVE f.v \notin before[e.v]
    BY <1>2, Zenon DEF BuffersInOrder
  <2>1. /\ i \in 1..n /\ e \in buffers[i].entries
        /\ j \in 1..n /\ f \in buffers[j].entries
    BY <1>5, Zenon
  <2> QED
    BY <2>1, Zenon DEF BuffersInOrder, n
<1>11. BufferInOrder'
  <2>1. ASSUME NEW i \in 1..Len(buffers')
        PROVE InOrder(before, buffers'[i].entries) /\ \A e \in buffers'[i].entries : e.seq < seq
    <3>1. CASE i \in 1..n
      BY <1>5, <3>1, Zenon DEF BufferInOrder, n
    <3>2. CASE buffers'[i].entries = {}
      BY <3>2, Zenon DEF InOrder
    <3> QED
      BY <1>5, <3>1, <3>2, Zenon
  <2> QED
    BY <1>2, <2>1, Zenon DEF BufferInOrder
<1>12. SstsInOrder'
  BY <1>2 DEF SstsInOrder
<1>13. MemoryIsNewer'
  <2> SUFFICES ASSUME NEW i \in 1..Len(ssts), NEW j \in 1..Len(buffers'), buffers'[j].state \in Unflushed,
                      NEW e \in ssts[i].entries, NEW f \in buffers'[j].entries, f.v \in before[e.v]
               PROVE f.v \in revived
    BY <1>2, Zenon DEF MemoryIsNewer
  <2>1. j \in 1..n /\ f \in buffers[j].entries /\ buffers[j].state \in Unflushed
    BY <1>5, Zenon
  <2> QED
    BY <2>1, Zenon DEF MemoryIsNewer, n
<1>14. FlushesSomething'
  <2>1. ASSUME NEW i \in 1..Len(buffers'), buffers'[i].state \in {"pending", "written"}
        PROVE buffers'[i].entries # {}
    <3>1. i \in 1..n /\ buffers'[i].entries = buffers[i].entries
      BY <1>5, <2>1, Zenon
    <3> QED
      BY <1>1, <1>5, <2>1, <3>1, Zenon DEF FlushesSomething, n
  <2>2. ASSUME NEW x \in Writers, wpc'[x] = "flush"
        PROVE buffers'[at'[x]].entries # {}
    BY <1>1, <1>3, <1>5, <2>2 DEF FlushesSomething
  <2> QED
    BY <2>1, <2>2, Zenon DEF FlushesSomething
<1>15. AckedIsFound'
  <2> SUFFICES ASSUME NEW v \in acked \ lost, ~InSst(v)
               PROVE \E i \in 1..Len(buffers') : buffers'[i].state \in Unflushed /\ HasVersion(i, v)'
    BY <1>2, Zenon DEF AckedIsFound, InSst
  <2>1. PICK i \in 1..n : buffers[i].state \in Unflushed /\ HasVersion(i, v)
    BY <1>1, Zenon DEF AckedIsFound, n
  <2>2. HasVersion(i, v)' /\ buffers'[i].state \in Unflushed
    BY <1>5, <2>1, Zenon DEF HasVersion
  <2> QED
    BY <1>6, <2>2, Zenon
<1>16. ThresholdIsMax' /\ ReplayInOrder'
  BY <1>2, <1>4, Zenon DEF ThresholdIsMax, ReplayInOrder
<1>17. LogsInOrder'
  <2>1. \A x \in Writers : wpc'[x] = "log" => wpc[x] = "log"
    BY <1>3, Zenon
  <2> QED
    BY <1>2, <1>4, <2>1, Zenon DEF LogsInOrder
<1> QED
  BY <1>7, <1>8, <1>9, <1>10, <1>11, <1>12, <1>13, <1>14, <1>15, <1>16, <1>17, Zenon

-----------------------------------------------------------------------------
(* The order is kept: the steps of a flush *)

\* Writing the SST files changes no entry.
LEMMA WriteSstRecent ==
    ASSUME Durable, Recent, NEW b \in DOMAIN buffers, WriteSst(b)
    PROVE Recent'
<1> USE DEF Recent
<1>1. /\ IsList(buffers) /\ b \in 1..Len(buffers)
  BY SeqDomain, Zenon DEF Durable, Slots, Shape, IsList
<1>2. Updated(buffers, buffers', b, "written", buffers[b].entries)
  <2>1. IsUpdate(buffers, buffers', b, "written", buffers[b].entries)
    BY Zenon DEF WriteSst, IsUpdate
  <2> QED
    BY <1>1, <2>1, SetBuffer, Zenon
<1>3. /\ UNCHANGED <<mode, seq, wal, ssts, wpc, at, entry, puts, acked, before, lost, revived>>
      /\ buffers[b].state = "pending"
  BY Zenon DEF WriteSst, putVars, crashVars
<1>4. Records' = Records /\ FlushedThreshold' = FlushedThreshold /\ Replayed' = Replayed
  BY <1>3, Zenon DEF Records, FlushedThreshold, Replayed
<1>5. /\ Len(buffers') = Len(buffers)
      /\ \A i \in 1..Len(buffers) : buffers'[i].entries = buffers[i].entries
      /\ \A i \in 1..Len(buffers) : i # b => buffers'[i].state = buffers[i].state
      /\ buffers'[b].state = "written"
  BY <1>2, Zenon DEF Updated
<1>6. \A i \in 1..Len(buffers) : buffers'[i].state \in Unflushed <=> buffers[i].state \in Unflushed
  BY <1>3, <1>5, Zenon DEF Unflushed
<1>7. Typed' /\ History' /\ RunningIsNew'
  BY <1>3, <1>4, <1>5, Zenon DEF Typed, History, RunningIsNew
<1>8. HeldIsLate' /\ BuffersInOrder' /\ BufferInOrder'
  BY <1>3, <1>5, SMTT(30) DEF HeldIsLate, BuffersInOrder, BufferInOrder
<1>9. SstsInOrder' /\ MemoryIsNewer'
  BY <1>3, <1>5, <1>6, SMTT(30) DEF SstsInOrder, MemoryIsNewer
<1>10. FlushesSomething'
  BY <1>1, <1>3, <1>5, ZenonT(60) DEF FlushesSomething, Durable, Slots, Shape
<1>11. AckedIsFound'
  BY <1>3, <1>5, <1>6 DEF AckedIsFound, InSst, HasVersion
<1>12. ThresholdIsMax' /\ ReplayInOrder' /\ LogsInOrder'
  BY <1>3, <1>4, Zenon DEF ThresholdIsMax, ReplayInOrder, LogsInOrder
<1> QED
  BY <1>7, <1>8, <1>9, <1>10, <1>11, <1>12, Zenon

\* The published buffer is newer than the SSTs and older than the other buffers in
\* memory, and a larger threshold leaves fewer records to replay.
LEMMA PublishRecent ==
    ASSUME MaxSeqIsMax, Durable, Recent, NEW b \in DOMAIN buffers, Publish(b)
    PROVE Recent'
<1> USE DEF Recent
<1>1. /\ IsList(buffers) /\ b \in 1..Len(buffers) /\ IsSeq(ssts)
      /\ Len(ssts) \in Nat /\ DOMAIN ssts = 1..Len(ssts) /\ Len(buffers) \in Nat
  BY SeqDomain, Zenon DEF Durable, Slots, Shape, IsList
<1>2. Updated(buffers, buffers', b, "flushed", buffers[b].entries)
  <2>1. IsUpdate(buffers, buffers', b, "flushed", buffers[b].entries)
    BY Zenon DEF Publish, IsUpdate
  <2> QED
    BY <1>1, <2>1, SetBuffer, Zenon
<1>3. /\ UNCHANGED <<mode, seq, wal, wpc, at, entry, puts, acked, before, lost, revived>>
      /\ buffers[b].state = "written"
      /\ \A a \in 1..(b - 1) : buffers[a].state \in Flushed
  BY Zenon DEF Publish, putVars, crashVars, Flushed
<1>4. /\ Len(buffers') = Len(buffers)
      /\ \A i \in 1..Len(buffers) : buffers'[i].entries = buffers[i].entries
      /\ \A i \in 1..Len(buffers) : i # b => buffers'[i].state = buffers[i].state
      /\ buffers'[b].state = "flushed"
  BY <1>2, Zenon DEF Updated
<1> DEFINE new == [entries |-> buffers[b].entries, max |-> MaxSeq(buffers[b].entries)]
           m == Len(ssts)
<1>5. ssts' = Append(ssts, new) /\ new.entries = buffers[b].entries /\ new.max = MaxSeq(buffers[b].entries)
  BY Zenon DEF Publish
<1> HIDE DEF new
<1>6. /\ Len(ssts') = m + 1 /\ DOMAIN ssts' = 1..(m + 1)
      /\ \A i \in 1..m : ssts'[i] = ssts[i]
      /\ ssts'[m + 1] = new
      /\ \A i \in 1..(m + 1) : i \in 1..m \/ i = m + 1
  <2>1. /\ IsSeq(ssts') /\ Len(ssts') = m + 1
        /\ \A i \in 1..m : ssts'[i] = ssts[i]
        /\ ssts'[m + 1] = new
    BY <1>1, <1>5, AppendIsSeq
  <2>2. DOMAIN ssts' = 1..(m + 1)
    BY <2>1, SeqDomain, Zenon
  <2> QED
    BY <1>1, <2>1, <2>2, SMTT(30)
<1>7. buffers[b].entries # {} /\ buffers[b].state \in Unflushed
  BY <1>1, <1>3, Zenon DEF FlushesSomething, Unflushed
<1>8. new.max \in Nat /\ \A e \in new.entries : e.seq <= new.max
  <2>1. seq \in Nat /\ \A e \in buffers[b].entries : e.seq \in Nat /\ e.seq <= seq
    BY <1>1 DEF Typed, EntriesUpTo, BufferInOrder
  <2> QED
    BY <1>5, <1>7, <2>1, ZenonT(60) DEF MaxSeqIsMax
<1> HIDE DEF m
\* The thresholds before and after.
<1>9. /\ FlushedThreshold' \in Nat /\ FlushedThreshold \in Nat
      /\ \A i \in 1..(m + 1) : ssts'[i].max \in Nat /\ ssts'[i].max <= FlushedThreshold'
      /\ FlushedThreshold <= FlushedThreshold'
  <2>1. FlushedThreshold = ThresholdOf(ssts) /\ FlushedThreshold' = ThresholdOf(ssts')
    BY Zenon DEF FlushedThreshold, ThresholdOf
  <2>2. FlushedThreshold \in Nat /\ \A i \in 1..m : ssts[i].max \in Nat /\ ssts[i].max <= FlushedThreshold
    BY Zenon DEF ThresholdIsMax, m
  <2>3. FlushedThreshold = 0 \/ \E i \in 1..m : FlushedThreshold = ssts[i].max
    BY <1>1, <2>1, <2>2, ThresholdFacts, Zenon DEF m
  <2>4. PICK k \in Nat : FlushedThreshold <= k /\ new.max <= k
    BY <1>8, <2>2, SMTT(30)
  <2>5. \A i \in 1..(m + 1) : ssts'[i].max \in Nat /\ ssts'[i].max <= k
    BY <1>6, <1>8, <2>2, <2>4
  <2>6. FlushedThreshold' \in Nat /\ \A i \in 1..(m + 1) : ssts'[i].max <= FlushedThreshold'
    BY <1>6, <2>1, <2>5, ThresholdFacts, Zenon
  <2>7. 1..m \subseteq 1..(m + 1)
    BY <1>1 DEF m
  <2>8. FlushedThreshold <= FlushedThreshold'
    <3>1. CASE FlushedThreshold = 0
      BY <2>6, <3>1
    <3>2. CASE \E i \in 1..m : FlushedThreshold = ssts[i].max
      BY <1>6, <2>6, <2>7, <3>2, Zenon
    <3> QED
      BY <2>3, <3>1, <3>2, Zenon
  <2> QED
    BY <2>2, <2>5, <2>6, <2>8, Zenon
<1>10. Records' = Records /\ Replayed' \subseteq Replayed
  <2>1. Records' = Records
    BY <1>3, Zenon DEF Records
  <2>2. \A e \in Records : e.seq \in Nat
    BY Zenon DEF Typed, EntriesUpTo
  <2> QED
    BY <1>9, <2>1, <2>2 DEF Replayed
<1>11. Typed' /\ History'
  <2>1. \A i \in 1..(m + 1) : ssts'[i].entries \subseteq EntriesUpTo(puts) /\ ssts'[i].entries # {}
    BY <1>1, <1>5, <1>6, <1>7, ZenonT(60) DEF Typed, m
  <2> QED
    BY <1>3, <1>4, <1>6, <1>10, <2>1, Zenon DEF Typed, History
<1>12. RunningIsNew' /\ HeldIsLate' /\ BuffersInOrder' /\ BufferInOrder'
  BY <1>3, <1>4, SMTT(30) DEF RunningIsNew, HeldIsLate, BuffersInOrder, BufferInOrder
<1>13. SstsInOrder'
  <2>1. \A i \in 1..(m + 1) : InOrder(before, ssts'[i].entries)
    BY <1>1, <1>5, <1>6, Zenon DEF SstsInOrder, BufferInOrder, m
  <2>2. ASSUME NEW i \in 1..(m + 1), NEW j \in 1..(m + 1), i < j,
               NEW e \in ssts'[i].entries, NEW f \in ssts'[j].entries, f.v \in before[e.v]
        PROVE f.v \in revived
    <3>1. i \in 1..m /\ e \in ssts[i].entries
      BY <1>1, <1>6, <2>2 DEF m
    <3>2. CASE j \in 1..m
      BY <1>6, <2>2, <3>1, <3>2, Zenon DEF SstsInOrder, m
    <3>3. CASE j = m + 1
      <4>1. f \in buffers[b].entries
        BY <1>5, <1>6, <2>2, <3>3, Zenon
      <4> QED
        BY <1>1, <1>7, <2>2, <3>1, <4>1, Zenon DEF MemoryIsNewer, m
    <3> QED
      BY <1>6, <3>2, <3>3, Zenon
  <2> QED
    BY <1>3, <1>6, <2>1, <2>2, Zenon DEF SstsInOrder
<1>14. MemoryIsNewer'
  <2> SUFFICES ASSUME NEW i \in 1..(m + 1), NEW j \in 1..Len(buffers), buffers'[j].state \in Unflushed,
                      NEW e \in ssts'[i].entries, NEW f \in buffers'[j].entries, f.v \in before[e.v]
               PROVE f.v \in revived
    BY <1>3, <1>4, <1>6, Zenon DEF MemoryIsNewer
  <2>1. j # b /\ buffers[j].state \in Unflushed /\ f \in buffers[j].entries
    BY <1>4, ZenonT(60) DEF Unflushed
  <2>2. b < j
    <3>1. j \notin 1..(b - 1)
      BY <1>3, <2>1, Zenon DEF Flushed, Unflushed
    <3> QED
      BY <1>1, <2>1, <3>1
  <2>3. CASE i \in 1..m
    BY <1>6, <2>1, <2>3, Zenon DEF MemoryIsNewer, m
  <2>4. CASE i = m + 1
    <3>1. e \in buffers[b].entries
      BY <1>5, <1>6, <2>4, Zenon
    <3> QED
      BY <1>1, <2>1, <2>2, <3>1, Zenon DEF BuffersInOrder
  <2> QED
    BY <1>6, <2>3, <2>4, Zenon
<1>15. FlushesSomething'
  BY <1>1, <1>3, <1>4, ZenonT(60) DEF FlushesSomething, Durable, Slots, Shape
<1>16. AckedIsFound'
  <2>1. /\ \A v : InSst(v) => InSst(v)'
        /\ \A e \in buffers[b].entries : InSst(e.v)'
    <3>1. 1..m \subseteq 1..(m + 1) /\ m + 1 \in 1..(m + 1)
      BY <1>1 DEF m
    <3> QED
      BY <1>1, <1>5, <1>6, <3>1, Zenon DEF InSst, m
  <2> SUFFICES ASSUME mode = "up", NEW v \in acked \ lost, ~InSst(v)'
               PROVE \E i \in 1..Len(buffers) : buffers'[i].state \in Unflushed /\ HasVersion(i, v)'
    BY <1>3, <1>4, Zenon DEF AckedIsFound
  <2>2. PICK i \in 1..Len(buffers) : buffers[i].state \in Unflushed /\ HasVersion(i, v)
    BY <2>1, Zenon DEF AckedIsFound
  <2>3. i # b
    BY <2>1, <2>2, Zenon DEF HasVersion
  <2> QED
    BY <1>4, <2>2, <2>3, Zenon DEF HasVersion
<1>17. ThresholdIsMax'
  <2>1. \A i \in 1..(m + 1) : \A e \in ssts'[i].entries : e.seq <= ssts'[i].max
    BY <1>6, <1>8, Zenon DEF ThresholdIsMax, m
  <2> QED
    BY <1>6, <1>9, <2>1, Zenon DEF ThresholdIsMax
<1>18. ReplayInOrder' /\ LogsInOrder'
  BY <1>3, <1>10, Zenon DEF ReplayInOrder, LogsInOrder, InOrder
<1> QED
  BY <1>11, <1>12, <1>13, <1>14, <1>15, <1>16, <1>17, <1>18, Zenon

\* A reset removes records, and entries that no get looks at.
LEMMA ResetWalRecent ==
    ASSUME Durable, Recent, NEW b \in DOMAIN buffers, ResetWal(b)
    PROVE Recent'
<1> USE DEF Recent
<1>1. IsList(buffers) /\ b \in 1..Len(buffers)
  BY SeqDomain, Zenon DEF Durable, Slots, Shape, IsList
<1>2. Updated(buffers, buffers', b, "done", {})
  <2>1. IsUpdate(buffers, buffers', b, "done", {})
    BY Zenon DEF ResetWal, IsUpdate
  <2> QED
    BY <1>1, <2>1, SetBuffer, Zenon
<1>3. /\ UNCHANGED <<mode, seq, ssts, wpc, at, entry, puts, acked, before, lost, revived>>
      /\ buffers[b].state = "flushed" /\ mode = "up"
  BY Zenon DEF ResetWal, putVars, crashVars
<1>4. /\ Len(buffers') = Len(buffers)
      /\ \A i \in 1..Len(buffers) : i # b => /\ buffers'[i].state = buffers[i].state
                                             /\ buffers'[i].entries = buffers[i].entries
      /\ buffers'[b].state = "done" /\ buffers'[b].entries = {}
  BY <1>2, Zenon DEF Updated
<1>5. \A i \in 1..Len(buffers) : buffers'[i].entries \subseteq buffers[i].entries
  BY <1>4, Zenon
<1>6. \A i \in 1..Len(buffers) : buffers[i].state \in Unflushed =>
         i # b /\ buffers'[i].state = buffers[i].state /\ buffers'[i].entries = buffers[i].entries
  BY <1>3, <1>4, Zenon DEF Unflushed
<1>7. Records' \subseteq Records /\ FlushedThreshold' = FlushedThreshold /\ Replayed' \subseteq Replayed
  <2>1. \A s \in WalSlots : wal'[s] \subseteq wal[s]
    BY <1>1, Zenon DEF ResetWal, Durable, Slots, Shape
  <2>2. Records' \subseteq Records
    BY <2>1, Zenon DEF Records
  <2>3. FlushedThreshold' = FlushedThreshold
    BY <1>3, Zenon DEF FlushedThreshold
  <2> QED
    BY <2>2, <2>3, Zenon DEF Replayed
<1>8. Typed'
  <2>1. \A i \in 1..Len(buffers) : buffers'[i].entries \subseteq EntriesUpTo(puts)
    BY <1>5, Zenon DEF Typed
  <2> QED
    BY <1>3, <1>4, <1>7, <2>1, Zenon DEF Typed
<1>9. History' /\ RunningIsNew'
  BY <1>3, Zenon DEF History, RunningIsNew
<1>10. HeldIsLate' /\ BuffersInOrder'
  BY <1>3, <1>4, <1>5, ZenonT(60) DEF HeldIsLate, BuffersInOrder
<1>11. BufferInOrder'
  BY <1>3, <1>4, <1>5, Zenon DEF BufferInOrder, InOrder
<1>12. SstsInOrder'
  BY <1>3, SMTT(30) DEF SstsInOrder
<1>13. MemoryIsNewer'
  BY <1>3, <1>4, <1>5, SMTT(30) DEF MemoryIsNewer, Unflushed
<1>14. FlushesSomething'
  <2>1. \A x \in Writers : wpc[x] = "flush" => at[x] \in 1..Len(buffers) /\ at[x] # b
    BY <1>3, Zenon DEF Durable, HeldIsOpen, Slots, Shape
  <2> QED
    BY <1>3, <1>4, <2>1, SMTT(30) DEF FlushesSomething
<1>15. AckedIsFound'
  <2> SUFFICES ASSUME NEW v \in acked \ lost, ~InSst(v)
               PROVE \E i \in 1..Len(buffers) : buffers'[i].state \in Unflushed /\ HasVersion(i, v)'
    BY <1>3, <1>4, Zenon DEF AckedIsFound, InSst
  <2>1. PICK i \in 1..Len(buffers) : buffers[i].state \in Unflushed /\ HasVersion(i, v)
    BY <1>3, Zenon DEF AckedIsFound
  <2> QED
    BY <1>6, <2>1, Zenon DEF HasVersion
<1>16. ThresholdIsMax'
  BY <1>3, <1>7, Zenon DEF ThresholdIsMax
<1>17. ReplayInOrder'
  <2>1. \E n \in Nat : \A e \in Records' : e.seq <= n
    BY <1>7, Zenon DEF ReplayInOrder
  <2> QED
    BY <1>3, <1>7, <2>1, Zenon DEF ReplayInOrder, InOrder
<1>18. LogsInOrder'
  BY <1>3, <1>7, Zenon DEF LogsInOrder
<1> QED
  BY <1>8, <1>9, <1>10, <1>11, <1>12, <1>13, <1>14, <1>15, <1>16, <1>17, <1>18, Zenon

-----------------------------------------------------------------------------
(* The order is kept: crash and recovery *)

\* A crash leaves one buffer without entries and no running put.
LEMMA CrashRecent ==
    ASSUME Durable, Recent, Crash
    PROVE Recent'
<1> USE DEF Recent
<1>1. /\ UNCHANGED <<wal, ssts, puts, acked, before, lost, revived>>
      /\ mode' = "down" /\ seq' = 0 /\ 0 \in Nat
      /\ \A w \in Writers : wpc'[w] = "idle"
  BY Zenon DEF Crash, diskVars
<1>2. entry' \in [Writers -> [seq : Nat, v : 0..puts]]
  BY SMTT(30) DEF Crash, NoEntry, Typed
<1>3. Len(buffers') = 1 /\ buffers'[1].entries = {} /\ buffers'[1].state = "active" /\ 1..1 = {1}
  BY OneBuffer DEF Crash
<1>4. Records' = Records /\ FlushedThreshold' = FlushedThreshold /\ Replayed' = Replayed
  BY <1>1, Zenon DEF Records, FlushedThreshold, Replayed
<1>5. Typed'
  BY <1>1, <1>2, <1>3, <1>4, Zenon DEF Typed
<1>6. History' /\ RunningIsNew' /\ HeldIsLate'
  BY <1>1, Zenon DEF History, RunningIsNew, HeldIsLate
<1>7. BuffersInOrder' /\ BufferInOrder' /\ MemoryIsNewer'
  BY <1>1, <1>3, ZenonT(60) DEF BuffersInOrder, BufferInOrder, InOrder, MemoryIsNewer
<1>8. SstsInOrder' /\ FlushesSomething' /\ AckedIsFound'
  BY <1>1, <1>3 DEF SstsInOrder, FlushesSomething, AckedIsFound
<1>9. ThresholdIsMax' /\ ReplayInOrder' /\ LogsInOrder'
  BY <1>1, <1>4, Zenon DEF ThresholdIsMax, ReplayInOrder, LogsInOrder
<1> QED
  BY <1>5, <1>6, <1>7, <1>8, <1>9, Zenon

\* A load that is refused changes nothing.
LEMMA LoadRefusedRecent ==
    ASSUME Recent, LoadRefused
    PROVE Recent'
<1> USE DEF Recent
<1>1. /\ UNCHANGED <<seq, buffers, wal, ssts, wpc, at, entry, puts, acked, before, lost, revived>>
      /\ mode' = "refused"
  BY Zenon DEF LoadRefused, diskVars, putVars, crashVars
<1>2. Records' = Records /\ FlushedThreshold' = FlushedThreshold /\ Replayed' = Replayed
  BY <1>1, Zenon DEF Records, FlushedThreshold, Replayed
<1>3. Typed' /\ History' /\ RunningIsNew' /\ HeldIsLate'
  BY <1>1, <1>2, ZenonT(60) DEF Typed, History, RunningIsNew, HeldIsLate
<1>4. BuffersInOrder' /\ BufferInOrder' /\ SstsInOrder' /\ MemoryIsNewer'
  <2>1. BuffersInOrder'
    BY <1>1, Zenon DEF BuffersInOrder
  <2>2. BufferInOrder'
    BY <1>1, Zenon DEF BufferInOrder
  <2>3. SstsInOrder'
    BY <1>1, Zenon DEF SstsInOrder
  <2>4. MemoryIsNewer'
    BY <1>1, Zenon DEF MemoryIsNewer
  <2> QED
    BY <2>1, <2>2, <2>3, <2>4, Zenon
<1>5. FlushesSomething' /\ AckedIsFound' /\ ThresholdIsMax' /\ ReplayInOrder' /\ LogsInOrder'
  BY <1>1, <1>2, Zenon DEF FlushesSomething, AckedIsFound, ThresholdIsMax, ReplayInOrder, LogsInOrder
<1> QED
  BY <1>3, <1>4, <1>5, Zenon

\* replay_wal gives the records new numbers in the order of the old ones, starts
\* the counter above them, and revives what an SST overwrites.
LEMMA ReplayRecent ==
    ASSUME MaxSeqIsMax, RanksKeepOrder, Durable, Recent, Replay
    PROVE Recent'
<1> USE DEF Recent
<1> DEFINE dropped == {e \in Records : e.seq <= FlushedThreshold}
           kept == Records \ dropped
           X == {[seq |-> Rank(e, kept), v |-> e.v] : e \in kept}
<1>1. /\ UNCHANGED <<wal, ssts, wpc, at, entry, puts, acked, before>>
      /\ mode = "down" /\ mode' = "up"
      /\ buffers' = [buffers EXCEPT ![1].entries = X]
      /\ seq' = IF kept = {} THEN 0 ELSE MaxSeq(kept) + 1
      /\ lost' = lost \cup {v \in {e.v : e \in dropped} : ~InSst(v)}
      /\ revived' = revived \cup {v \in {e.v : e \in kept} : Overwritten(v)}
  BY Zenon DEF Replay, diskVars, putVars
<1>2. kept = Replayed
  <2>1. FlushedThreshold \in Nat /\ \A e \in Records : e.seq \in Nat
    BY Zenon DEF ThresholdIsMax, Typed, EntriesUpTo
  <2> QED
    BY <2>1 DEF Replayed
<1>3. /\ IsList(buffers) /\ Len(buffers) = 1 /\ 1 \in 1..Len(buffers) /\ 1..1 = {1}
      /\ buffers[1].state = "active" /\ \A w \in Writers : wpc[w] = "idle"
  <2>1. mode = "down"
    BY <1>1, Zenon
  <2>2. IsList(buffers) /\ Len(buffers) = 1 /\ buffers[1].state = "active"
    BY <2>1, Zenon DEF Durable, Slots, Shape, LastIsActive
  <2>3. \A w \in Writers : wpc[w] = "idle"
    BY <2>1, Zenon DEF Durable, HeldIsOpen
  <2> QED
    BY <2>2, <2>3
<1>4. Updated(buffers, buffers', 1, "active", X)
  <2> HIDE DEF X
  <2>1. IsUpdate(buffers, buffers', 1, "active", X)
    BY <1>1, <1>3, Zenon DEF IsUpdate
  <2> QED
    BY <1>3, <2>1, SetBuffer, Zenon
<1>5. Len(buffers') = 1 /\ buffers'[1].entries = X /\ buffers'[1].state = "active"
  BY <1>3, <1>4, Zenon DEF Updated
\* What an entry of the first buffer comes from.
<1>6. /\ \A x \in X : \E e \in Replayed : x.v = e.v /\ x.seq = Rank(e, Replayed)
                                           /\ x = [seq |-> Rank(e, Replayed), v |-> e.v]
      /\ \A e \in Replayed : \E x \in X : x.v = e.v
  <2> HIDE DEF kept
  <2>1. \A x \in X : \E e \in kept : x.v = e.v /\ x.seq = Rank(e, kept)
                                     /\ x = [seq |-> Rank(e, kept), v |-> e.v]
    OBVIOUS
  <2>2. ASSUME NEW e \in kept PROVE \E x \in X : x.v = e.v
    <3>1. [seq |-> Rank(e, kept), v |-> e.v] \in X
      BY Zenon
    <3> HIDE DEF X
    <3> QED
      BY <3>1, Zenon
  <2> HIDE DEF X
  <2> QED
    BY <1>2, <2>1, <2>2, Zenon
<1>7. /\ \A e \in dropped : e.v \in lost' \/ InSst(e.v)
      /\ \A e \in Records : e \in dropped \/ e \in Replayed
      /\ lost \subseteq lost' /\ revived \subseteq revived'
      /\ \A e \in Replayed : Overwritten(e.v) => e.v \in revived'
  <2>1. \A e \in Records : e \in dropped \/ e \in kept
    BY Zenon
  <2> HIDE DEF dropped, kept
  <2> QED
    BY <1>1, <1>2, <2>1, Zenon
<1>8. /\ seq' \in Nat
      /\ \A e \in Replayed : e.seq \in Nat /\ e.seq < seq'
  <2>1. PICK n \in Nat : \A e \in Records : e.seq <= n
    BY Zenon DEF ReplayInOrder
  <2>2. \A e \in Replayed : e.seq \in Nat /\ e.seq <= n
    BY <2>1, Zenon DEF Replayed, Typed, EntriesUpTo
  <2>3. CASE Replayed = {}
    BY <1>1, <1>2, <2>3, Zenon
  <2>4. CASE Replayed # {}
    <3>1. MaxSeq(Replayed) \in Nat /\ \A e \in Replayed : e.seq <= MaxSeq(Replayed)
      BY <2>2, <2>4, Zenon DEF MaxSeqIsMax
    <3>2. seq' = MaxSeq(Replayed) + 1
      BY <1>1, <1>2, <2>4, Zenon
    <3> QED
      BY <2>2, <3>1, <3>2
  <2> QED
    BY <2>3, <2>4, Zenon
<1> HIDE DEF dropped, kept, X
<1>9. \A e \in Replayed :
         /\ Rank(e, Replayed) \in Nat /\ Rank(e, Replayed) < seq'
         /\ \A f \in Replayed : f.seq < e.seq => Rank(f, Replayed) < Rank(e, Replayed)
  <2>1. \A e, f \in Replayed : e.seq = f.seq => e = f
    BY Zenon DEF ReplayInOrder
  <2>2. \A e \in Replayed :
           /\ Rank(e, Replayed) \in Nat /\ Rank(e, Replayed) <= e.seq
           /\ \A f \in Replayed : f.seq < e.seq => Rank(f, Replayed) < Rank(e, Replayed)
    BY <1>8, <2>1, Zenon DEF RanksKeepOrder
  <2> QED
    BY <1>8, <2>2
<1>10. Records' = Records /\ FlushedThreshold' = FlushedThreshold /\ Replayed' = Replayed
  BY <1>1, Zenon DEF Records, FlushedThreshold, Replayed
<1>11. Replayed \subseteq EntriesUpTo(puts) /\ Replayed \subseteq Records
  BY Zenon DEF Replayed, Typed
<1>12. X \subseteq EntriesUpTo(puts)
  <2> SUFFICES ASSUME NEW x \in X PROVE x \in EntriesUpTo(puts)
    BY Zenon
  <2>1. PICK e \in Replayed : x = [seq |-> Rank(e, Replayed), v |-> e.v]
    BY <1>6, Zenon
  <2>2. Rank(e, Replayed) \in Nat /\ e.v \in 1..puts
    BY <1>9, <1>11, Zenon DEF EntriesUpTo
  <2> QED
    BY <2>1, <2>2, Zenon DEF EntriesUpTo
<1>13. Typed'
  BY <1>1, <1>3, <1>5, <1>8, <1>10, <1>12, Zenon DEF Typed
<1>14. History' /\ RunningIsNew' /\ HeldIsLate'
  BY <1>1, <1>3, Zenon DEF History, RunningIsNew, HeldIsLate
<1>15. BuffersInOrder'
  <2>1. \A i, j \in 1..1 : ~(i < j)
    OBVIOUS
  <2> QED
    BY <1>5, <2>1, Zenon DEF BuffersInOrder
<1>16. BufferInOrder'
  <2>1. InOrder(before, X)
    <3> SUFFICES ASSUME NEW x \in X, NEW y \in X, y.v \in before[x.v] PROVE y.seq < x.seq
      BY Zenon DEF InOrder
    <3>1. PICK e \in Replayed : x.v = e.v /\ x.seq = Rank(e, Replayed)
      BY <1>6, Zenon
    <3>2. PICK f \in Replayed : y.v = f.v /\ y.seq = Rank(f, Replayed)
      BY <1>6, Zenon
    <3>3. f.seq < e.seq
      BY <3>1, <3>2, Zenon DEF ReplayInOrder, InOrder
    <3> QED
      BY <1>9, <3>1, <3>2, <3>3, Zenon
  <2>2. \A x \in X : x.seq < seq'
    BY <1>6, <1>9, Zenon
  <2> QED
    BY <1>1, <1>3, <1>5, <2>1, <2>2, Zenon DEF BufferInOrder
<1>17. SstsInOrder'
  BY <1>1, <1>7 DEF SstsInOrder
<1>18. MemoryIsNewer'
  <2> SUFFICES ASSUME NEW i \in 1..Len(ssts), NEW e \in ssts[i].entries, NEW f \in X, f.v \in before[e.v]
               PROVE f.v \in revived'
    BY <1>1, <1>3, <1>5, ZenonT(60) DEF MemoryIsNewer
  <2>1. e.v \in 1..puts
    BY Zenon DEF Typed, EntriesUpTo
  <2>2. DOMAIN ssts = 1..Len(ssts)
    BY SeqDomain, Zenon DEF Durable, Slots, Shape
  <2>3. Overwritten(f.v)
    BY <2>1, <2>2, Zenon DEF Overwritten, InSst
  <2> QED
    BY <1>6, <1>7, <2>3, Zenon
<1>19. FlushesSomething'
  BY <1>1, <1>3, <1>5, Zenon DEF FlushesSomething
<1>20. AckedIsFound'
  <2> SUFFICES ASSUME NEW v \in acked, v \notin lost', ~InSst(v)
               PROVE HasVersion(1, v)'
    BY <1>1, <1>3, <1>5, Zenon DEF AckedIsFound, InSst, Unflushed
  <2>1. PICK e \in Records : e.v = v
    BY <1>7, Zenon DEF Durable, AckedIsOnDisk
  <2>2. \E x \in X : x.v = v
    BY <1>6, <1>7, <2>1, Zenon
  <2> QED
    BY <1>5, <2>2, Zenon DEF HasVersion
<1>21. ThresholdIsMax' /\ ReplayInOrder'
  BY <1>1, <1>10, Zenon DEF ThresholdIsMax, ReplayInOrder
<1>22. LogsInOrder'
  BY <1>1, <1>3, <1>8, <1>10, Zenon DEF LogsInOrder
<1> QED
  BY <1>13, <1>14, <1>15, <1>16, <1>17, <1>18, <1>19, <1>20, <1>21, <1>22, Zenon

\* Every step keeps the order.
LEMMA NextRecent ==
    ASSUME MaxSeqIsMax, RanksKeepOrder, Durable, Recent, [Next]_vars
    PROVE Recent'
<1>1. CASE \E w \in Writers : Put(w) \/ Insert(w) \/ Log(w) \/ Flush(w)
  BY <1>1, PutRecent, InsertRecent, LogRecent, FlushRecent, Zenon
<1>2. CASE \E b \in DOMAIN buffers : WriteSst(b) \/ Publish(b) \/ ResetWal(b)
  BY <1>2, WriteSstRecent, PublishRecent, ResetWalRecent, Zenon
<1>3. CASE Crash \/ LoadRefused \/ Replay
  BY <1>3, CrashRecent, LoadRefusedRecent, ReplayRecent, Zenon
<1>4. CASE UNCHANGED vars
  <2>1. UNCHANGED <<mode, seq, buffers, wal, ssts, wpc, at, entry, puts, acked, before, lost, revived>>
    BY <1>4, Zenon DEF vars, memVars, diskVars, putVars, crashVars
  <2>2. Records' = Records /\ FlushedThreshold' = FlushedThreshold /\ Replayed' = Replayed
    BY <2>1, Zenon DEF Records, FlushedThreshold, Replayed
  <2>3. Typed' /\ History' /\ RunningIsNew' /\ HeldIsLate'
    BY <2>1, <2>2, ZenonT(60) DEF Recent, Typed, History, RunningIsNew, HeldIsLate
  <2>4. BuffersInOrder' /\ BufferInOrder' /\ SstsInOrder' /\ MemoryIsNewer'
    <3>1. BuffersInOrder'
      BY <2>1, Zenon DEF Recent, BuffersInOrder
    <3>2. BufferInOrder'
      BY <2>1, Zenon DEF Recent, BufferInOrder
    <3>3. SstsInOrder'
      BY <2>1, Zenon DEF Recent, SstsInOrder
    <3>4. MemoryIsNewer'
      BY <2>1, Zenon DEF Recent, MemoryIsNewer
    <3> QED
      BY <3>1, <3>2, <3>3, <3>4, Zenon
  <2>5. FlushesSomething' /\ AckedIsFound'
    BY <2>1, Zenon DEF Recent, FlushesSomething, AckedIsFound, InSst, HasVersion
  <2>6. ThresholdIsMax' /\ ReplayInOrder' /\ LogsInOrder'
    BY <2>1, <2>2, Zenon DEF Recent, ThresholdIsMax, ReplayInOrder, LogsInOrder
  <2> QED
    BY <2>3, <2>4, <2>5, <2>6, Zenon DEF Recent
<1> QED
  BY <1>1, <1>2, <1>3, <1>4, Zenon DEF Next

-----------------------------------------------------------------------------
(* What a get finds *)

\* The newest of a set of entries in order is older than none of them.
LEMMA NewestIsNewest ==
    ASSUME MaxSeqIsMax, NEW S, S # {}, NEW k \in Nat, NEW n, S \subseteq EntriesUpTo(n),
           \A e \in S : e.seq <= k, NEW bf, InOrder(bf, S)
    PROVE \E x \in S : NewestIn(S) = x.v /\ \A e \in S : x.v \notin bf[e.v]
<1>1. \A e \in S : e.seq \in Nat /\ e.seq <= k
  BY Zenon DEF EntriesUpTo
<1>2. /\ \E e \in S : e.seq = MaxSeq(S)
      /\ \A e \in S : e.seq <= MaxSeq(S)
      /\ MaxSeq(S) \in Nat
  BY <1>1, Zenon DEF MaxSeqIsMax
<1> DEFINE x == CHOOSE e \in S : e.seq = MaxSeq(S)
<1>3. x \in S /\ x.seq = MaxSeq(S) /\ NewestIn(S) = x.v
  BY <1>2, Zenon DEF NewestIn
<1> HIDE DEF x
<1>4. ASSUME NEW e \in S PROVE x.v \notin bf[e.v]
  BY <1>1, <1>2, <1>3 DEF InOrder
<1> QED
  BY <1>3, <1>4, Zenon

\* What a get returns after a recovery is no version that an acknowledged put
\* overwrote, unless a replay revived it.
LEMMA RecentIsFresh ==
    ASSUME MaxSeqIsMax, GreatestExists, Durable, Recent
    PROVE RecoveredIsFresh
<1> SUFFICES ASSUME mode = "up", NEW u \in acked \ lost
             PROVE Lookup # 0 /\ (Lookup \in before[u] => Lookup \in revived)
  BY Zenon DEF RecoveredIsFresh
<1> USE DEF Recent
<1>1. /\ DOMAIN buffers = 1..Len(buffers) /\ Len(buffers) \in Nat
      /\ DOMAIN ssts = 1..Len(ssts) /\ Len(ssts) \in Nat /\ IsSeq(ssts) /\ seq \in Nat
  BY SeqDomain, Zenon DEF Durable, Slots, Shape, IsList, Typed
<1>2. CASE InMemory # {}
  <2>1. InMemory \subseteq 1..Len(buffers)
    BY <1>1, Zenon DEF InMemory
  <2> DEFINE i == CHOOSE i \in InMemory : \A j \in InMemory : j <= i
  <2>2. i \in InMemory /\ \A j \in InMemory : j <= i
    <3>1. InMemory \subseteq Nat /\ \A j \in InMemory : j <= Len(buffers)
      BY <1>1, <2>1
    <3>2. \E m \in InMemory : \A j \in InMemory : j <= m
      BY <1>1, <1>2, <3>1, Zenon DEF GreatestExists
    <3> QED
      BY <3>2, Zenon
  <2>3. Lookup = NewestIn(buffers[i].entries)
    BY <1>2, Zenon DEF Lookup
  <2> HIDE DEF i
  <2>4. /\ i \in 1..Len(buffers) /\ i \in Int /\ buffers[i].state \in Unflushed /\ buffers[i].entries # {}
    BY <1>1, <2>1, <2>2 DEF InMemory, Unflushed
  <2>5. PICK x \in buffers[i].entries : Lookup = x.v /\ \A e \in buffers[i].entries : x.v \notin before[e.v]
    <3>1. /\ buffers[i].entries \subseteq EntriesUpTo(puts)
          /\ \A e \in buffers[i].entries : e.seq <= seq
          /\ InOrder(before, buffers[i].entries)
      BY <1>1, <2>4 DEF Typed, BufferInOrder, EntriesUpTo
    <3> QED
      BY <1>1, <2>3, <2>4, <3>1, NewestIsNewest, ZenonT(60)
  <2>6. x.v # 0
    <3>1. x \in EntriesUpTo(puts)
      BY <2>4, Zenon DEF Typed
    <3> QED
      BY <3>1 DEF EntriesUpTo
  <2>7. CASE InSst(u)
    <3>1. PICK k \in 1..Len(ssts) : \E e \in ssts[k].entries : e.v = u
      BY <1>1, <2>7, Zenon DEF InSst
    <3> QED
      BY <2>4, <2>5, <2>6, <3>1, Zenon DEF MemoryIsNewer
  <2>8. CASE \E j \in 1..Len(buffers) : buffers[j].state \in Unflushed /\ HasVersion(j, u)
    <3>1. PICK j \in 1..Len(buffers) : buffers[j].state \in Unflushed /\ HasVersion(j, u)
      BY <2>8, Zenon
    <3>2. PICK e \in buffers[j].entries : e.v = u
      BY <3>1, Zenon DEF HasVersion
    <3>3. j \in InMemory
      BY <1>1, <3>1, <3>2, Zenon DEF InMemory, Unflushed
    <3>4. j < i \/ j = i
      BY <2>2, <2>4, <3>3
    <3>5. x.v \notin before[u]
      BY <2>4, <2>5, <3>2, <3>4, Zenon DEF BuffersInOrder
    <3> QED
      BY <2>5, <2>6, <3>5, Zenon
  <2> QED
    BY <2>7, <2>8, Zenon DEF AckedIsFound
<1>3. CASE InMemory = {}
  <2>1. InSst(u)
    <3>1. \A j \in 1..Len(buffers) : buffers[j].state \in Unflushed => ~HasVersion(j, u)
      BY <1>1, <1>3, Zenon DEF InMemory, Unflushed, HasVersion
    <3> QED
      BY <3>1, Zenon DEF AckedIsFound
  <2>2. PICK k \in 1..Len(ssts) : \E e \in ssts[k].entries : e.v = u
    BY <1>1, <2>1, Zenon DEF InSst
  <2> DEFINE i == Len(ssts)
  <2>3. i \in 1..Len(ssts) /\ ssts # <<>> /\ (k < i \/ k = i)
    <3>1. 1 <= k /\ k <= i /\ i \in Nat /\ k \in Nat
      BY <1>1, <2>2
    <3>2. i # 0
      BY <3>1
    <3> QED
      BY <3>1, <3>2, SMTT(30)
  <2>4. Lookup = NewestIn(ssts[i].entries)
    BY <1>3, <2>3, Zenon DEF Lookup
  <2> HIDE DEF i
  <2>5. PICK x \in ssts[i].entries : Lookup = x.v /\ \A e \in ssts[i].entries : x.v \notin before[e.v]
    <3>1. /\ ssts[i].entries \subseteq EntriesUpTo(puts) /\ ssts[i].entries # {}
          /\ ssts[i].max \in Nat /\ \A e \in ssts[i].entries : e.seq <= ssts[i].max
          /\ InOrder(before, ssts[i].entries)
      BY <2>3, Zenon DEF Typed, ThresholdIsMax, SstsInOrder
    <3> QED
      BY <2>4, <3>1, NewestIsNewest, Zenon
  <2>6. x.v # 0
    <3>1. x \in EntriesUpTo(puts)
      BY <2>3, Zenon DEF Typed
    <3> QED
      BY <3>1 DEF EntriesUpTo
  <2> QED
    BY <2>2, <2>3, <2>5, <2>6, Zenon DEF SstsInOrder
<1> QED
  BY <1>2, <1>3, Zenon

-----------------------------------------------------------------------------
(* The facts about numbers *)

INSTANCE FiniteSetTheorems

\* A non-empty set of numbers has a least one.
LEMMA Least ==
    ASSUME NEW T, T \subseteq Nat, T # {}
    PROVE \E m \in T : \A k \in T : m <= k
<1> DEFINE R == OpToRel(<, Nat)
<1>1. IsWellFoundedOn(R, Nat)
  BY NatLessThanWellFounded, Zenon
<1>2. \A a, b \in Nat : a < b => <<a, b>> \in R
  BY Zenon DEF OpToRel
<1> HIDE DEF R
<1>3. PICK m \in T : \A y \in T : ~(<<y, m>> \in R)
  BY <1>1, WFMin, Zenon
<1>4. ASSUME NEW k \in T PROVE m <= k
  <2>1. m \in Nat /\ k \in Nat
    BY Zenon
  <2>2. ~(k < m)
    BY <1>2, <1>3, <2>1, ZenonT(60)
  <2> QED
    BY <2>1, <2>2
<1> QED
  BY <1>4, Zenon

\* One that has a bound has a greatest one.
LEMMA Greatest == GreatestExists
<1> SUFFICES ASSUME NEW T, T \subseteq Nat, T # {}, NEW n \in Nat, \A k \in T : k <= n
             PROVE \E m \in T : \A k \in T : k <= m
  BY Zenon DEF GreatestExists
<1> DEFINE U == {n - k : k \in T}
<1>1. U \subseteq Nat /\ U # {}
  <2>1. PICK k \in T : TRUE
    BY Zenon
  <2>2. n - k \in U
    BY Zenon
  <2>3. \A i \in T : n - i \in Nat
    OBVIOUS
  <2> QED
    BY <2>2, <2>3, Zenon
<1>2. PICK d \in U : \A u \in U : d <= u
  <2> HIDE DEF U
  <2> QED
    BY <1>1, Least, Zenon
<1>3. PICK m \in T : d = n - m
  BY Zenon
<1>4. ASSUME NEW k \in T PROVE k <= m
  <2>1. n - k \in U
    BY Zenon
  <2>2. d <= n - k
    BY <1>2, <2>1, ZenonT(60)
  <2>3. k \in Nat /\ m \in Nat
    BY Zenon
  <2> QED
    BY <1>3, <2>2, <2>3, SMTT(30)
<1> QED
  BY <1>4, ZenonT(60)

\* MaxSeq of entries whose numbers have a bound is the largest of them.
LEMMA MaxSeqFacts == MaxSeqIsMax
<1> SUFFICES ASSUME NEW S, S # {}, NEW n \in Nat, \A e \in S : e.seq \in Nat /\ e.seq <= n
             PROVE /\ MaxSeq(S) \in Nat
                   /\ \E e \in S : e.seq = MaxSeq(S)
                   /\ \A e \in S : e.seq <= MaxSeq(S)
  BY Zenon DEF MaxSeqIsMax
<1> DEFINE T == {e.seq : e \in S}
<1>1. T \subseteq Nat /\ T # {} /\ \A k \in T : k <= n
  BY Zenon
<1>2. PICK m \in T : \A k \in T : k <= m
  <2> HIDE DEF T
  <2> QED
    BY <1>1, Greatest, Zenon DEF GreatestExists
<1>3. \A e \in S : e.seq <= m
  BY <1>2, ZenonT(60)
<1>4. MaxSeq(S) \in T /\ \A e \in S : e.seq <= MaxSeq(S)
  BY <1>2, <1>3, Zenon DEF MaxSeq
<1> HIDE DEF MaxSeq
<1> QED
  BY <1>1, <1>4, ZenonT(60)

\* The ranks of records with different numbers are in the order of the numbers, and
\* no rank is above the number.
LEMMA RankFacts == RanksKeepOrder
<1> SUFFICES ASSUME NEW K, \A e \in K : e.seq \in Nat, \A e, f \in K : e.seq = f.seq => e = f
             PROVE \A e \in K : /\ Rank(e, K) \in Nat /\ Rank(e, K) <= e.seq
                                /\ \A f \in K : f.seq < e.seq => Rank(f, K) < Rank(e, K)
  BY Zenon DEF RanksKeepOrder
<1> DEFINE B(e) == {f \in K : f.seq < e.seq}
<1>1. ASSUME NEW e \in K
      PROVE IsFiniteSet(B(e)) /\ Cardinality(B(e)) \in Nat /\ Cardinality(B(e)) <= e.seq
  <2> DEFINE S == B(e)
             T == 0..(e.seq - 1)
             g == [f \in S |-> f.seq]
  <2>1. e.seq \in Nat
    BY Zenon
  <2>2. g \in Injection(S, T)
    <3>1. g \in [S -> T]
      BY <2>1, SMTT(30)
    <3>2. \A x, y \in S : g[x] = g[y] => x = y
      BY Zenon
    <3> HIDE DEF g, S, T
    <3> QED
      BY <3>1, <3>2, Zenon DEF Injection, IsInjective
  <2>3. IsFiniteSet(T) /\ Cardinality(T) = e.seq
    <3>1. IsFiniteSet(T) /\ Cardinality(T) = IF 0 > e.seq - 1 THEN 0 ELSE e.seq - 1 - 0 + 1
      <4>1. 0 \in Int /\ e.seq - 1 \in Int
        BY <2>1, SMTT(30)
      <4> QED
        BY <4>1, FS_Interval, Zenon
    <3> HIDE DEF T
    <3> QED
      BY <2>1, <3>1, SMTT(30)
  <2> HIDE DEF g, S, T
  <2>4. IsFiniteSet(S) /\ Cardinality(S) <= Cardinality(T)
    BY <2>2, <2>3, FS_Injection, ZenonT(60)
  <2>5. Cardinality(S) \in Nat
    BY <2>4, FS_CardinalityType, ZenonT(60)
  <2> QED
    BY <2>3, <2>4, <2>5, ZenonT(60) DEF S
<1>2. ASSUME NEW e \in K, NEW f \in K, f.seq < e.seq
      PROVE Cardinality(B(f)) < Cardinality(B(e))
  <2>1. B(f) \in SUBSET B(e) /\ f \in B(e) /\ f \notin B(f)
    <3>1. e.seq \in Nat /\ f.seq \in Nat
      BY Zenon
    <3>2. \A h \in K : h.seq < f.seq => h.seq < e.seq
      BY <1>2, <3>1, SMTT(30)
    <3> QED
      BY <1>2, <3>1, <3>2, SMTT(30)
  <2>2. /\ IsFiniteSet(B(e)) /\ IsFiniteSet(B(f))
        /\ Cardinality(B(e)) \in Nat /\ Cardinality(B(f)) \in Nat
    BY <1>1, Zenon
  <2> HIDE DEF B
  <2>3. /\ Cardinality(B(f)) <= Cardinality(B(e))
        /\ Cardinality(B(e)) = Cardinality(B(f)) => B(e) = B(f)
    BY <2>1, <2>2, FS_Subset, ZenonT(60)
  <2> QED
    BY <2>1, <2>2, <2>3, SMTT(30)
<1>3. \A e : Rank(e, K) = Cardinality(B(e))
  BY Zenon DEF Rank
<1> HIDE DEF B
<1> QED
  BY <1>1, <1>2, <1>3, ZenonT(60)

\* Whatever the number of writers, flushes and crashes: a get that runs after any
\* recovery finds something if a put returned ok, and nothing that such a put
\* overwrote, unless replay_wal itself put the older version on top of an SST.
THEOREM GetsAfterRecoveryAreFresh == Spec => []RecoveredIsFresh
<1>1. Init => Durable /\ Recent
  BY InitDurable, InitRecent, MaxSeqFacts, ZenonT(60)
<1>2. Durable /\ Recent /\ [Next]_vars => (Durable /\ Recent)'
  BY NextDurable, NextRecent, MaxSeqFacts, RankFacts, Zenon
<1>3. Durable /\ Recent => RecoveredIsFresh
  BY RecentIsFresh, MaxSeqFacts, Greatest, Zenon
<1> QED
  BY <1>1, <1>2, <1>3, PTL DEF Spec

=============================================================================
