--------------------------- MODULE ManifestProofs ---------------------------
(***************************************************************************)
(* Proofs about Manifest for any flushes and merges.                        *)
(*                                                                         *)
(* The argument follows a set of SST names on its way to the disk: the levels  *)
(* in memory, the snapshot of the job that holds state_write_mutex, and the    *)
(* manifests written from a certain point on.  At each stage the names exist   *)
(* as files, have the entries of all flushes that count as persisted, and      *)
(* leave out the inputs of every merge that has come as far as that stage.    *)
(***************************************************************************)
EXTENDS Manifest, TLAPS

\* The job's SST is in the levels, and its manifest update is under way.
Published(j) == jpc[j] \in {"snapshot", "recheck", "write", "sync", "syncing", "unlink"}

\* The job's own manifest is written, or is what is being written.
Writing(j) == jpc[j] \in {"write", "sync", "syncing", "unlink"}

\* After a crash no job is running, there are no levels, and one manifest is left.
DownIsStill ==
    mode # "up" => live = {} /\ synced = 1 /\ \A j \in Jobs : jpc[j] \in {"idle", "done"}

\* An SST is in no set of names before its job publishes it.
UnpublishedIsUnknown ==
    \A j \in Jobs : jpc[j] \in {"idle", "publish"} =>
        /\ j \notin live
        /\ \A k \in Jobs : j \notin inputs[k] /\ j \notin buf[k].names
        /\ \A i \in 1..Len(written) : j \notin written[i]

\* The levels name files; an SST about to be published is one.
LiveIsOnDisk == /\ live \subseteq files
                /\ \A j \in Jobs : jpc[j] = "publish" => j \in files

\* The inputs of a merge have left the levels for good once it is published.
InputsAreReplaced == \A j \in Jobs : Published(j) => inputs[j] \cap live = {}

\* A snapshot whose generation is current is the levels.
CurrentSnapshotIsLive ==
    \A k \in Jobs : jpc[k] = "recheck" =>
        buf[k].gen <= gen /\ (buf[k].gen = gen => buf[k].names = live)

\* Whoever writes the manifest holds state_write_mutex.
WriterHoldsLock == \A k \in Jobs : jpc[k] = "write" => wlock = k

\* What is about to be written names files, and no inputs that may be unlinked.
BufferIsSafe ==
    \A k \in Jobs : jpc[k] = "write" =>
        /\ buf[k].names \subseteq files
        /\ \A j \in Jobs : Writing(j) => inputs[j] \cap buf[k].names = {}

\* An fdatasync began after some manifest was written.
SyncIsMarked == \A j \in Jobs : jpc[j] = "syncing" => mark[j] > 0

\* The first manifest that certainly reflects the job.
Since(j) == CASE jpc[j] = "sync" -> Len(written)
              [] jpc[j] = "syncing" -> mark[j]
              [] OTHER -> synced

\* From there on no manifest names the inputs.
WrittenIsSafe ==
    \A j \in Jobs : jpc[j] \in {"sync", "syncing", "unlink"} =>
        \A i \in Since(j)..Len(written) : inputs[j] \cap written[i] = {}

SafetyInv == /\ TypeOK
             /\ DownIsStill /\ UnpublishedIsUnknown /\ LiveIsOnDisk /\ InputsAreReplaced
             /\ CurrentSnapshotIsLive /\ WriterHoldsLock /\ BufferIsSafe
             /\ SyncIsMarked /\ WrittenIsSafe /\ ManifestNamesOnlyFiles

\* SST s of the names has the entries of flush f, h being the contents of SSTs.
Has(h, f, names) == \E s \in names : f \in h[s]

\* A merged SST has the entries of its inputs until it replaces them, a flushed
\* one its own.  A job that has not begun has picked no inputs.
HoldsInputs ==
    \A j \in Jobs :
        /\ jpc[j] = "idle" => inputs[j] = {}
        /\ jpc[j] = "publish" => /\ \A s \in inputs[j] : holds[s] \subseteq holds[j]
                                 /\ j \in Flushes => j \in holds[j]

\* The levels have the entries of every flush that is persisted or published.
LiveIsComplete ==
    mode = "up" =>
        \A f \in Flushes : f \in persisted \/ Published(f) => Has(holds, f, live)

\* What is about to be written has the entries of every flush that is persisted
\* or may soon be.
BufferIsComplete ==
    \A k \in Jobs : jpc[k] = "write" =>
        \A f \in Flushes : f \in persisted \/ Writing(f) => Has(holds, f, buf[k].names)

\* A manifest that the sync of a flush covers, or a later one, has its entries.
WrittenIsComplete ==
    \A f \in Flushes : jpc[f] \in {"sync", "syncing"} =>
        \A i \in Since(f)..Len(written) : Has(holds, f, written[i])

\* A manifest that a crash may leave has the entries of persisted flushes.
DurableIsComplete ==
    \A f \in persisted : \A i \in synced..Len(written) : Has(holds, f, written[i])

CompleteInv == /\ persisted \subseteq Flushes
               /\ HoldsInputs /\ LiveIsComplete /\ BufferIsComplete /\ WrittenIsComplete
               /\ DurableIsComplete

\* Every step of the jobs, every crash and every load keeps the state well typed.
LEMMA TypingStep == TypeOK /\ [Next]_vars => TypeOK'
<1> SUFFICES ASSUME TypeOK, [Next]_vars PROVE TypeOK'
  OBVIOUS
<1> USE JobsAssumption DEF TypeOK, States, Contents, Nothing, Goto
<1>1. ASSUME NEW j \in Jobs, WriteFlushed(j) PROVE TypeOK'
  BY <1>1 DEF WriteFlushed
<1>2. ASSUME NEW j \in Jobs, WriteMerged(j) PROVE TypeOK'
  BY <1>2 DEF WriteMerged
<1>3. ASSUME NEW j \in Jobs, Publish(j) PROVE TypeOK'
  BY <1>3 DEF Publish, diskVars
<1>4. ASSUME NEW j \in Jobs, TakeSnapshot(j) PROVE TypeOK'
  BY <1>4 DEF TakeSnapshot, diskVars
<1>5. ASSUME NEW j \in Jobs, Recheck(j) PROVE TypeOK'
  BY <1>5 DEF Recheck, diskVars
<1>6. ASSUME NEW j \in Jobs, WriteManifest(j) PROVE TypeOK'
  BY <1>6 DEF WriteManifest
<1>7. ASSUME NEW j \in Jobs, BeginSync(j) PROVE TypeOK'
  BY <1>7 DEF BeginSync, diskVars
<1>8. ASSUME NEW j \in Jobs, EndSync(j) PROVE TypeOK'
  BY <1>8 DEF EndSync
<1>9. ASSUME NEW j \in Jobs, PersistFails(j) PROVE TypeOK'
  BY <1>9 DEF PersistFails, diskVars
<1>10. ASSUME NEW j \in Jobs, Unlink(j) PROVE TypeOK'
  BY <1>10 DEF Unlink, memVars
<1>11. ASSUME NEW j \in Jobs, EndMerge(j) PROVE TypeOK'
  BY <1>11 DEF EndMerge, diskVars
<1>12. CASE Crash
  BY <1>12 DEF Crash
<1>13. CASE Load
  BY <1>13 DEF Load, diskVars, Parsed
<1>14. CASE LoadRefused
  BY <1>14 DEF LoadRefused, diskVars
<1>15. CASE UNCHANGED vars
  BY <1>15 DEF vars, memVars, diskVars
<1> QED
  BY <1>1, <1>2, <1>3, <1>4, <1>5, <1>6, <1>7, <1>8, <1>9, <1>10, <1>11, <1>12,
     <1>13, <1>14, <1>15, Zenon
  DEF Next, JobStep

\* Every manifest names SSTs.
LEMMA WrittenManifest ==
    ASSUME NEW s \in Seq(SUBSET Jobs), NEW i \in 1..Len(s)
    PROVE  s[i] \in SUBSET Jobs
  OBVIOUS

\* What the manifests from some point on are after another one is written.
LEMMA AppendedManifest ==
    ASSUME NEW s \in Seq(SUBSET Jobs), NEW names \in SUBSET Jobs
    PROVE  LET t == Append(s, names)
           IN  /\ t[Len(t)] = names
               /\ \A from \in 1..Len(s) : \A i \in from..Len(t) :
                     \/ t[i] = names
                     \/ i \in from..Len(s) /\ t[i] = s[i]
  BY SMTT(30)

\* Every step keeps the first part of the inductive invariant.
LEMMA SafetyStep == SafetyInv /\ [Next]_vars => SafetyInv'
<1> SUFFICES ASSUME SafetyInv, [Next]_vars PROVE SafetyInv'
  OBVIOUS
<1>0. TypeOK'
  BY TypingStep DEF SafetyInv
<1> USE JobsAssumption, <1>0 DEF SafetyInv, TypeOK, Contents, Goto, memVars, diskVars
<1>1. ASSUME NEW j \in Jobs, WriteFlushed(j) PROVE SafetyInv'
  <2>1. LiveIsOnDisk'
    BY <1>1 DEF WriteFlushed, LiveIsOnDisk
  <2> QED
    BY <1>1, <2>1, SMTT(30) DEF WriteFlushed, DownIsStill, UnpublishedIsUnknown,
         InputsAreReplaced, CurrentSnapshotIsLive, WriterHoldsLock, BufferIsSafe,
         SyncIsMarked, WrittenIsSafe, ManifestNamesOnlyFiles, Published, Writing, Since
<1>2. ASSUME NEW j \in Jobs, WriteMerged(j) PROVE SafetyInv'
  <2>1. UnpublishedIsUnknown'
    BY <1>2 DEF WriteMerged, UnpublishedIsUnknown
  <2>2. LiveIsOnDisk'
    BY <1>2 DEF WriteMerged, LiveIsOnDisk
  <2>3. InputsAreReplaced'
    BY <1>2, SMTT(30) DEF WriteMerged, InputsAreReplaced, Published
  <2>4. BufferIsSafe'
    BY <1>2, SMTT(30) DEF WriteMerged, BufferIsSafe, Writing
  <2>5. WrittenIsSafe'
    BY <1>2, SMTT(30) DEF WriteMerged, WrittenIsSafe, Since
  <2> QED
    BY <1>2, <2>1, <2>2, <2>3, <2>4, <2>5, SMTT(30) DEF WriteMerged, DownIsStill,
         CurrentSnapshotIsLive, WriterHoldsLock, SyncIsMarked, ManifestNamesOnlyFiles
<1>3. ASSUME NEW j \in Jobs, Publish(j) PROVE SafetyInv'
  <2>1. UnpublishedIsUnknown'
    BY <1>3 DEF Publish, UnpublishedIsUnknown
  <2>2. LiveIsOnDisk'
    BY <1>3 DEF Publish, LiveIsOnDisk
  <2>3. InputsAreReplaced'
    BY <1>3 DEF Publish, InputsAreReplaced, UnpublishedIsUnknown, Published
  <2>4. CurrentSnapshotIsLive'
    BY <1>3 DEF Publish, CurrentSnapshotIsLive
  <2> QED
    BY <1>3, <2>1, <2>2, <2>3, <2>4, SMTT(30) DEF Publish, DownIsStill, WriterHoldsLock,
         BufferIsSafe, SyncIsMarked, WrittenIsSafe, ManifestNamesOnlyFiles, Writing,
         Since
<1>4. ASSUME NEW j \in Jobs, TakeSnapshot(j) PROVE SafetyInv'
  <2>1. UnpublishedIsUnknown'
    BY <1>4 DEF TakeSnapshot, UnpublishedIsUnknown
  <2>2. CurrentSnapshotIsLive'
    BY <1>4 DEF TakeSnapshot, CurrentSnapshotIsLive
  <2> QED
    BY <1>4, <2>1, <2>2, SMTT(30) DEF TakeSnapshot, DownIsStill, LiveIsOnDisk, InputsAreReplaced,
         WriterHoldsLock, BufferIsSafe, SyncIsMarked, WrittenIsSafe,
         ManifestNamesOnlyFiles, Published, Writing, Since
<1>5. ASSUME NEW j \in Jobs, Recheck(j) PROVE SafetyInv'
  <2>1. UnpublishedIsUnknown'
    BY <1>5 DEF Recheck, UnpublishedIsUnknown
  <2>2. WriterHoldsLock'
    BY <1>5 DEF Recheck, WriterHoldsLock
  <2>3. BufferIsSafe'
    BY <1>5, SMTT(30) DEF Recheck, BufferIsSafe, WriterHoldsLock, InputsAreReplaced,
         CurrentSnapshotIsLive, LiveIsOnDisk, Writing, Published
  <2> QED
    BY <1>5, <2>1, <2>2, <2>3, SMTT(30) DEF Recheck, DownIsStill, LiveIsOnDisk, InputsAreReplaced,
         CurrentSnapshotIsLive, SyncIsMarked, WrittenIsSafe, ManifestNamesOnlyFiles,
         Published, Since
<1>6. ASSUME NEW j \in Jobs, WriteManifest(j) PROVE SafetyInv'
  <2>1. /\ written'[Len(written')] = buf[j].names
        /\ \A from \in 1..Len(written) : \A i \in from..Len(written') :
              \/ written'[i] = buf[j].names
              \/ i \in from..Len(written) /\ written'[i] = written[i]
    BY <1>6, AppendedManifest DEF WriteManifest
  <2>2. UnpublishedIsUnknown'
    <3> SUFFICES ASSUME NEW k \in Jobs, jpc'[k] \in {"idle", "publish"}
                 PROVE  /\ k \notin live'
                        /\ \A m \in Jobs : k \notin inputs'[m] /\ k \notin buf'[m].names
                        /\ \A i \in 1..Len(written') : k \notin written'[i]
      BY Zenon DEF UnpublishedIsUnknown
    <3>1. jpc[k] \in {"idle", "publish"}
      BY <1>6 DEF WriteManifest
    <3>2. k \notin live' /\ \A m \in Jobs : k \notin inputs'[m] /\ k \notin buf'[m].names
      BY <1>6, <3>1 DEF WriteManifest, UnpublishedIsUnknown, Nothing
    <3>3. k \notin buf[j].names /\ \A i \in 1..Len(written) : k \notin written[i]
      BY <3>1, SMTT(30) DEF UnpublishedIsUnknown
    <3>4. 1 \in 1..Len(written)
      OBVIOUS
    <3>5. \A i \in 1..Len(written') : k \notin written'[i]
      BY <2>1, <3>3, <3>4, Zenon
    <3> QED
      BY <3>2, <3>5
  <2>3. WriterHoldsLock'
    BY <1>6 DEF WriteManifest, WriterHoldsLock
  <2>4. BufferIsSafe'
    BY <1>6 DEF WriteManifest, BufferIsSafe, WriterHoldsLock, Writing
  <2>5. WrittenIsSafe'
    <3> SUFFICES ASSUME NEW k \in Jobs, jpc'[k] \in {"sync", "syncing", "unlink"},
                        NEW i \in Since(k)'..Len(written')
                 PROVE  inputs[k] \cap written'[i] = {}
      BY <1>6, ZenonT(60) DEF WriteManifest, WrittenIsSafe
    <3>1. inputs[k] \cap buf[j].names = {}
      BY <1>6 DEF WriteManifest, BufferIsSafe, Writing
    <3>2. CASE jpc'[k] = "sync"
      <4>1. Since(k)' = Len(written')
        BY <3>2 DEF Since
      <4>2. i = Len(written')
        BY <2>1, <4>1
      <4>3. written'[i] = buf[j].names
        BY <2>1, <4>2
      <4> QED
        BY <3>1, <4>3
    <3>3. CASE jpc'[k] # "sync"
      <4>1. /\ jpc[k] \in {"syncing", "unlink"}
            /\ Since(k)' = Since(k) /\ Since(k) \in 1..Len(written)
        BY <1>6, <3>3 DEF WriteManifest, Since, SyncIsMarked
      <4> QED
        BY <2>1, <3>1, <4>1, Zenon DEF WrittenIsSafe
    <3> QED
      BY <3>2, <3>3, Zenon
  <2>6. ManifestNamesOnlyFiles'
    <3>1. buf[j].names \subseteq files /\ files' = files /\ synced' = synced
      BY <1>6 DEF WriteManifest, BufferIsSafe
    <3> QED
      BY <2>1, <3>1, Zenon DEF ManifestNamesOnlyFiles
  <2> QED
    BY <1>6, <2>1, <2>2, <2>3, <2>4, <2>5, <2>6, SMTT(30) DEF WriteManifest, DownIsStill,
         LiveIsOnDisk, InputsAreReplaced, CurrentSnapshotIsLive, SyncIsMarked, Published
<1>7. ASSUME NEW j \in Jobs, BeginSync(j) PROVE SafetyInv'
  <2>1. SyncIsMarked'
    BY <1>7 DEF BeginSync, SyncIsMarked
  <2>2. WrittenIsSafe'
    BY <1>7 DEF BeginSync, WrittenIsSafe, Since
  <2> QED
    BY <1>7, <2>1, <2>2, SMTT(60) DEF BeginSync, DownIsStill, UnpublishedIsUnknown, LiveIsOnDisk,
         InputsAreReplaced, CurrentSnapshotIsLive, WriterHoldsLock, BufferIsSafe,
         ManifestNamesOnlyFiles, Published, Writing
<1>8. ASSUME NEW j \in Jobs, EndSync(j) PROVE SafetyInv'
  <2>1. WrittenIsSafe'
    <3> SUFFICES ASSUME NEW k \in Jobs, jpc'[k] \in {"sync", "syncing", "unlink"},
                        NEW i \in Since(k)'..Len(written)
                 PROVE  inputs[k] \cap written[i] = {}
      BY <1>8, SMTT(30) DEF EndSync, WrittenIsSafe
    <3>1. jpc[k] \in {"sync", "syncing", "unlink"}
      BY <1>8 DEF EndSync
    <3>2. i \in Since(k)..Len(written)
      BY <1>8, SMTT(30) DEF EndSync, Since
    <3> QED
      BY <3>1, <3>2, Zenon DEF WrittenIsSafe
  <2>2. ManifestNamesOnlyFiles'
    BY <1>8, SMTT(30) DEF EndSync, ManifestNamesOnlyFiles
  <2> QED
    BY <1>8, <2>1, <2>2, SMTT(30) DEF EndSync, DownIsStill, UnpublishedIsUnknown, LiveIsOnDisk,
         InputsAreReplaced, CurrentSnapshotIsLive, WriterHoldsLock, BufferIsSafe,
         SyncIsMarked, Published, Writing
<1>9. ASSUME NEW j \in Jobs, PersistFails(j) PROVE SafetyInv'
  <2>1. UnpublishedIsUnknown'
    BY <1>9, SMTT(30) DEF PersistFails, UnpublishedIsUnknown, Nothing
  <2>2. WriterHoldsLock'
    BY <1>9 DEF PersistFails, WriterHoldsLock
  <2>3. BufferIsSafe'
    BY <1>9, SMTT(30) DEF PersistFails, BufferIsSafe, Writing
  <2>4. WrittenIsSafe'
    BY <1>9, SMTT(60) DEF PersistFails, WrittenIsSafe, Since
  <2> QED
    BY <1>9, <2>1, <2>2, <2>3, <2>4, SMTT(30) DEF PersistFails, DownIsStill, LiveIsOnDisk,
         InputsAreReplaced, CurrentSnapshotIsLive, SyncIsMarked, ManifestNamesOnlyFiles,
         Published
<1>10. ASSUME NEW j \in Jobs, Unlink(j) PROVE SafetyInv'
  <2>1. LiveIsOnDisk'
    BY <1>10, SMTT(30) DEF Unlink, LiveIsOnDisk, InputsAreReplaced, UnpublishedIsUnknown,
         Published
  <2>2. BufferIsSafe'
    BY <1>10, ZenonT(60) DEF Unlink, BufferIsSafe, Writing
  <2>3. ManifestNamesOnlyFiles'
    BY <1>10, ZenonT(60) DEF Unlink, ManifestNamesOnlyFiles, WrittenIsSafe, Since
  <2> QED
    BY <1>10, <2>1, <2>2, <2>3, ZenonT(60) DEF Unlink, DownIsStill, UnpublishedIsUnknown,
         InputsAreReplaced, CurrentSnapshotIsLive, WriterHoldsLock, SyncIsMarked,
         WrittenIsSafe, Published, Since
<1>11. ASSUME NEW j \in Jobs, EndMerge(j) PROVE SafetyInv'
  BY <1>11, SMTT(60) DEF EndMerge, DownIsStill, UnpublishedIsUnknown, LiveIsOnDisk,
       InputsAreReplaced, CurrentSnapshotIsLive, WriterHoldsLock, BufferIsSafe,
       SyncIsMarked, WrittenIsSafe, ManifestNamesOnlyFiles, Published, Writing, Since
<1>12. CASE Crash
  <2>1. UnpublishedIsUnknown'
    <3>1. PICK i \in synced..Len(written) : written' = <<written[i]>>
      BY <1>12 DEF Crash
    <3> QED
      BY <1>12, <3>1, SMTT(60) DEF Crash, UnpublishedIsUnknown, Nothing
  <2>2. ManifestNamesOnlyFiles'
    BY <1>12 DEF Crash, ManifestNamesOnlyFiles
  <2> QED
    BY <1>12, <2>1, <2>2, SMTT(30) DEF Crash, DownIsStill, LiveIsOnDisk, InputsAreReplaced,
         CurrentSnapshotIsLive, WriterHoldsLock, BufferIsSafe, SyncIsMarked,
         WrittenIsSafe, Published, Writing, Since
<1>13. CASE Load
  <2>1. UnpublishedIsUnknown'
    BY <1>13, SMTT(30) DEF Load, Parsed, UnpublishedIsUnknown
  <2>2. InputsAreReplaced'
    BY <1>13, Zenon DEF Load, Parsed, InputsAreReplaced, DownIsStill, Published
  <2>3. CurrentSnapshotIsLive'
    BY <1>13, Zenon DEF Load, Parsed, CurrentSnapshotIsLive, DownIsStill
  <2> QED
    BY <1>13, <2>1, <2>2, <2>3, ZenonT(60) DEF Load, Parsed, DownIsStill, LiveIsOnDisk,
         WriterHoldsLock, BufferIsSafe, SyncIsMarked, WrittenIsSafe,
         ManifestNamesOnlyFiles, Writing, Since
<1>14. CASE LoadRefused
  BY <1>14, ZenonT(60) DEF LoadRefused, DownIsStill, UnpublishedIsUnknown, LiveIsOnDisk,
       InputsAreReplaced, CurrentSnapshotIsLive, WriterHoldsLock, BufferIsSafe,
       SyncIsMarked, WrittenIsSafe, ManifestNamesOnlyFiles, Published, Writing, Since
<1>15. CASE UNCHANGED vars
  BY <1>15, SMTT(30) DEF vars, DownIsStill, UnpublishedIsUnknown, LiveIsOnDisk, InputsAreReplaced,
       CurrentSnapshotIsLive, WriterHoldsLock, BufferIsSafe, SyncIsMarked,
       WrittenIsSafe, ManifestNamesOnlyFiles, Published, Writing, Since
<1> QED
  BY <1>1, <1>2, <1>3, <1>4, <1>5, <1>6, <1>7, <1>8, <1>9, <1>10, <1>11, <1>12,
     <1>13, <1>14, <1>15, Zenon
  DEF Next, JobStep

\* Every step keeps its second part.
LEMMA CompleteStep == SafetyInv /\ CompleteInv /\ [Next]_vars => CompleteInv'
<1> SUFFICES ASSUME SafetyInv, CompleteInv, [Next]_vars PROVE CompleteInv'
  OBVIOUS
<1>0. TypeOK' /\ Flushes \subseteq Jobs
  BY TypingStep, SMTT(30) DEF SafetyInv, Jobs
<1> USE JobsAssumption, <1>0 DEF SafetyInv, CompleteInv, TypeOK, Contents, Goto, memVars, diskVars
<1>1. ASSUME NEW j \in Jobs, WriteFlushed(j) PROVE CompleteInv'
  <2>1. \A S \in SUBSET Jobs : j \notin S =>
            \A f \in Jobs : Has(holds, f, S) => Has(holds', f, S)
    BY <1>1, SMTT(30) DEF WriteFlushed, Has
  <2>2. ASSUME NEW f \in Jobs, NEW i \in 1..Len(written), Has(holds, f, written[i])
        PROVE  Has(holds', f, written[i])
    <3>1. written[i] \in SUBSET Jobs
      <4>1. written \in Seq(SUBSET Jobs)
        OBVIOUS
      <4> QED
        BY <4>1, WrittenManifest, ZenonT(60)
    <3>2. j \notin written[i]
      BY <1>1, ZenonT(60) DEF WriteFlushed, UnpublishedIsUnknown
    <3> QED
      BY <2>1, <2>2, <3>1, <3>2, Zenon
  <2>3. HoldsInputs'
    BY <1>1, SMTT(60) DEF WriteFlushed, HoldsInputs, UnpublishedIsUnknown
  <2>4. LiveIsComplete'
    BY <1>1, <2>1, Zenon DEF WriteFlushed, LiveIsComplete, UnpublishedIsUnknown, Published
  <2>5. BufferIsComplete'
    BY <1>1, <2>1, ZenonT(60) DEF WriteFlushed, BufferIsComplete, UnpublishedIsUnknown, Writing
  <2>6. WrittenIsComplete'
    <3>1. ASSUME NEW f \in Flushes, jpc'[f] \in {"sync", "syncing"}
          PROVE  jpc[f] = jpc'[f] /\ Since(f)' = Since(f) /\ Since(f) \in 1..Len(written)
      BY <1>1, <3>1 DEF WriteFlushed, Since, SyncIsMarked
    <3> QED
      <4> SUFFICES ASSUME NEW f \in Flushes, jpc'[f] \in {"sync", "syncing"},
                          NEW i \in Since(f)..Len(written)
                   PROVE  Has(holds', f, written[i])
        BY <1>1, <3>1, ZenonT(60) DEF WriteFlushed, WrittenIsComplete
      <4>1. Has(holds, f, written[i]) /\ i \in 1..Len(written)
        BY <3>1, SMTT(30) DEF WrittenIsComplete
      <4> QED
        BY <2>2, <4>1
  <2>7. DurableIsComplete'
    <3>1. \A i \in synced..Len(written) : i \in 1..Len(written)
      OBVIOUS
    <3> QED
      BY <1>1, <2>2, <3>1, Zenon DEF WriteFlushed, DurableIsComplete
  <2> QED
    BY <1>1, <2>1, <2>2, <2>3, <2>4, <2>5, <2>6, <2>7, ZenonT(60) DEF WriteFlushed
<1>2. ASSUME NEW j \in Jobs, WriteMerged(j) PROVE CompleteInv'
  <2>1. \A S \in SUBSET Jobs : j \notin S =>
            \A f \in Jobs : Has(holds, f, S) => Has(holds', f, S)
    BY <1>2 DEF WriteMerged, Has
  <2>2. ASSUME NEW f \in Jobs, NEW i \in 1..Len(written), Has(holds, f, written[i])
        PROVE  Has(holds', f, written[i])
    <3>1. written[i] \in SUBSET Jobs
      <4>1. written \in Seq(SUBSET Jobs)
        OBVIOUS
      <4> QED
        BY <4>1, WrittenManifest, Zenon
    <3>2. j \notin written[i]
      BY <1>2, SMTT(30) DEF WriteMerged, UnpublishedIsUnknown
    <3> QED
      BY <2>1, <2>2, <3>1, <3>2, Zenon
  <2>3. HoldsInputs'
    BY <1>2 DEF WriteMerged, HoldsInputs, UnpublishedIsUnknown
  <2>4. LiveIsComplete'
    BY <1>2, <2>1, Zenon DEF WriteMerged, LiveIsComplete, UnpublishedIsUnknown, Published
  <2>5. BufferIsComplete'
    BY <1>2, <2>1, ZenonT(60) DEF WriteMerged, BufferIsComplete, UnpublishedIsUnknown, Writing
  <2>6. WrittenIsComplete'
    <3>1. ASSUME NEW f \in Flushes, jpc'[f] \in {"sync", "syncing"}
          PROVE  jpc[f] = jpc'[f] /\ Since(f)' = Since(f) /\ Since(f) \in 1..Len(written)
      BY <1>2, <3>1 DEF WriteMerged, Since, SyncIsMarked
    <3> QED
      <4> SUFFICES ASSUME NEW f \in Flushes, jpc'[f] \in {"sync", "syncing"},
                          NEW i \in Since(f)..Len(written)
                   PROVE  Has(holds', f, written[i])
        BY <1>2, <3>1, Zenon DEF WriteMerged, WrittenIsComplete
      <4>1. Has(holds, f, written[i]) /\ i \in 1..Len(written)
        BY <3>1 DEF WrittenIsComplete
      <4> QED
        BY <2>2, <4>1
  <2>7. DurableIsComplete'
    <3>1. \A i \in synced..Len(written) : i \in 1..Len(written)
      OBVIOUS
    <3> QED
      BY <1>2, <2>2, <3>1, Zenon DEF WriteMerged, DurableIsComplete
  <2> QED
    BY <1>2, <2>1, <2>2, <2>3, <2>4, <2>5, <2>6, <2>7 DEF WriteMerged
<1>3. ASSUME NEW j \in Jobs, Publish(j) PROVE CompleteInv'
  <2>1. LiveIsComplete'
    BY <1>3 DEF Publish, LiveIsComplete, HoldsInputs, Has, Published
  <2> QED
    BY <1>3, <2>1, SMTT(30) DEF Publish, HoldsInputs, BufferIsComplete, WrittenIsComplete,
         DurableIsComplete, Writing, Since
<1>4. ASSUME NEW j \in Jobs, TakeSnapshot(j) PROVE CompleteInv'
  BY <1>4 DEF TakeSnapshot, HoldsInputs, LiveIsComplete, BufferIsComplete,
       WrittenIsComplete, DurableIsComplete, Published, Writing, Since
<1>5. ASSUME NEW j \in Jobs, Recheck(j) PROVE CompleteInv'
  <2>1. BufferIsComplete'
    BY <1>5 DEF Recheck, BufferIsComplete, WriterHoldsLock, LiveIsComplete,
         CurrentSnapshotIsLive, Published, Writing
  <2> QED
    BY <1>5, <2>1, SMTT(30) DEF Recheck, HoldsInputs, LiveIsComplete, WrittenIsComplete,
         DurableIsComplete, Published, Since
<1>6. ASSUME NEW j \in Jobs, WriteManifest(j) PROVE CompleteInv'
  <2>1. /\ written'[Len(written')] = buf[j].names
        /\ \A from \in 1..Len(written) : \A i \in from..Len(written') :
              \/ written'[i] = buf[j].names
              \/ i \in from..Len(written) /\ written'[i] = written[i]
    BY <1>6, AppendedManifest, SMTT(30) DEF WriteManifest
  <2>2. BufferIsComplete'
    BY <1>6 DEF WriteManifest, BufferIsComplete, WriterHoldsLock, Writing
  <2>3. WrittenIsComplete'
    <3> SUFFICES ASSUME NEW f \in Flushes, jpc'[f] \in {"sync", "syncing"},
                        NEW i \in Since(f)'..Len(written')
                 PROVE  Has(holds, f, written'[i])
      BY <1>6, Zenon DEF WriteManifest, WrittenIsComplete
    <3>1. Has(holds, f, buf[j].names)
      BY <1>6 DEF WriteManifest, BufferIsComplete, Writing
    <3>2. CASE jpc'[f] = "sync"
      BY <2>1, <3>1, <3>2, SMTT(30) DEF Since
    <3>3. CASE jpc'[f] # "sync"
      <4>1. jpc[f] = "syncing" /\ Since(f)' = Since(f) /\ Since(f) \in 1..Len(written)
        BY <1>6, <3>3 DEF WriteManifest, Since, SyncIsMarked
      <4> QED
        BY <2>1, <3>1, <4>1, Zenon DEF WrittenIsComplete
    <3> QED
      BY <3>2, <3>3
  <2>4. DurableIsComplete'
    <3>1. \A f \in persisted : Has(holds, f, buf[j].names)
      BY <1>6 DEF WriteManifest, BufferIsComplete
    <3>2. holds' = holds /\ synced' = synced /\ persisted' = persisted
      BY <1>6 DEF WriteManifest
    <3> QED
      BY <2>1, <3>1, <3>2, Zenon DEF DurableIsComplete
  <2> QED
    BY <1>6, <2>1, <2>2, <2>3, <2>4 DEF WriteManifest, HoldsInputs, LiveIsComplete,
         Published
<1>7. ASSUME NEW j \in Jobs, BeginSync(j) PROVE CompleteInv'
  <2>1. WrittenIsComplete'
    BY <1>7 DEF BeginSync, WrittenIsComplete, Since
  <2> QED
    BY <1>7, <2>1 DEF BeginSync, HoldsInputs, LiveIsComplete, BufferIsComplete,
         DurableIsComplete, Published, Writing
<1>8. ASSUME NEW j \in Jobs, EndSync(j) PROVE CompleteInv'
  <2>1. LiveIsComplete'
    BY <1>8 DEF EndSync, LiveIsComplete, Published
  <2>2. BufferIsComplete'
    BY <1>8 DEF EndSync, BufferIsComplete, Writing
  <2>3. WrittenIsComplete'
    BY <1>8 DEF EndSync, WrittenIsComplete, Since
  <2>4. DurableIsComplete'
    BY <1>8, SMTT(30) DEF EndSync, DurableIsComplete, WrittenIsComplete, Since
  <2> QED
    BY <1>8, <2>1, <2>2, <2>3, <2>4 DEF EndSync, HoldsInputs
<1>9. ASSUME NEW j \in Jobs, PersistFails(j) PROVE CompleteInv'
  <2>1. LiveIsComplete'
    BY <1>9 DEF PersistFails, LiveIsComplete, Published
  <2>2. BufferIsComplete'
    BY <1>9 DEF PersistFails, BufferIsComplete, Writing
  <2>3. WrittenIsComplete'
    BY <1>9 DEF PersistFails, WrittenIsComplete, Since
  <2> QED
    BY <1>9, <2>1, <2>2, <2>3 DEF PersistFails, HoldsInputs, DurableIsComplete
<1>10. ASSUME NEW j \in Jobs, Unlink(j) PROVE CompleteInv'
  BY <1>10, SMTT(30) DEF Unlink, HoldsInputs, LiveIsComplete, BufferIsComplete, WrittenIsComplete,
       DurableIsComplete, Published, Writing, Since
<1>11. ASSUME NEW j \in Jobs, EndMerge(j) PROVE CompleteInv'
  BY <1>11 DEF EndMerge, HoldsInputs, LiveIsComplete, BufferIsComplete,
       WrittenIsComplete, DurableIsComplete, Published, Writing, Since
<1>12. CASE Crash
  <2>1. DurableIsComplete'
    BY <1>12 DEF Crash, DurableIsComplete
  <2> QED
    BY <1>12, <2>1 DEF Crash, HoldsInputs, LiveIsComplete, BufferIsComplete,
         WrittenIsComplete, Published, Writing, Since
<1>13. CASE Load
  <2>1. LiveIsComplete'
    BY <1>13, Zenon DEF Load, Parsed, LiveIsComplete, DownIsStill, DurableIsComplete,
         ManifestNamesOnlyFiles, Published
  <2> QED
    BY <1>13, <2>1 DEF Load, Parsed, HoldsInputs, BufferIsComplete, WrittenIsComplete,
         DurableIsComplete, Writing, Since
<1>14. CASE LoadRefused
  BY <1>14 DEF LoadRefused, HoldsInputs, LiveIsComplete, BufferIsComplete,
       WrittenIsComplete, DurableIsComplete, Published, Writing, Since
<1>15. CASE UNCHANGED vars
  BY <1>15 DEF vars, HoldsInputs, LiveIsComplete, BufferIsComplete, WrittenIsComplete,
       DurableIsComplete, Published, Writing, Since
<1> QED
  BY <1>1, <1>2, <1>3, <1>4, <1>5, <1>6, <1>7, <1>8, <1>9, <1>10, <1>11, <1>12,
     <1>13, <1>14, <1>15, Zenon
  DEF Next, JobStep
-----------------------------------------------------------------------------
\* The invariant holds initially.
LEMMA InitialInv == Init => SafetyInv /\ CompleteInv
<1> SUFFICES ASSUME Init PROVE SafetyInv /\ CompleteInv
  OBVIOUS
<1> USE JobsAssumption DEF Init, Nothing
<1>1. TypeOK
  BY DEF TypeOK, States, Contents
<1>2. SafetyInv
  BY <1>1 DEF SafetyInv, DownIsStill, UnpublishedIsUnknown, LiveIsOnDisk, InputsAreReplaced,
              CurrentSnapshotIsLive, WriterHoldsLock, BufferIsSafe, SyncIsMarked,
              WrittenIsSafe, ManifestNamesOnlyFiles, Published
<1>3. CompleteInv
  BY DEF CompleteInv, HoldsInputs, LiveIsComplete, BufferIsComplete, WrittenIsComplete,
         DurableIsComplete, Published, Jobs
<1> QED
  BY <1>2, <1>3

\* A set of names has a flush if and only if it is in what they hold.
LEMMA HasIsHeld == \A f, names : Has(holds, f, names) <=> f \in Held(names)
  BY DEF Has, Held

\* The inductive invariant holds throughout.
LEMMA Invariance == Spec => [](SafetyInv /\ CompleteInv)
<1>1. SafetyInv /\ CompleteInv /\ [Next]_vars => (SafetyInv /\ CompleteInv)'
  BY SafetyStep, CompleteStep
<1> QED
  BY InitialInv, <1>1, PTL DEF Spec

\* The types of the variables of Manifest, for any number of jobs.
THEOREM Typing == Spec => []TypeOK
<1>1. SafetyInv => TypeOK
  BY DEF SafetyInv
<1> QED
  BY Invariance, <1>1, PTL

\* However the snapshots, manifest writes and syncs of any number of flushes and
\* compactions overtake one another, no manifest that a crash may leave names an
\* SST file that a compaction has unlinked.
THEOREM NamesOnlyFiles == Spec => []ManifestNamesOnlyFiles
<1>1. SafetyInv => ManifestNamesOnlyFiles
  BY DEF SafetyInv
<1> QED
  BY Invariance, <1>1, PTL

\* Once _persist_partition_state has succeeded for a flush, every manifest that a
\* crash may leave has its entries, in its own SST or in a merged one: the WAL of
\* the flush may be reset.
THEOREM PersistedIsDurable == Spec => []PersistedStays
<1>1. CompleteInv => PersistedStays
  BY HasIsHeld DEF CompleteInv, DurableIsComplete, PersistedStays
<1> QED
  BY Invariance, <1>1, PTL

\* A database that is up, after any number of crashes and loads, has in its levels
\* the entries of every flush whose manifest update succeeded.
THEOREM LoadedIsComplete == Spec => []LoadIsComplete
<1>1. CompleteInv => LoadIsComplete
  BY HasIsHeld DEF CompleteInv, LiveIsComplete, LoadIsComplete
<1> QED
  BY Invariance, <1>1, PTL
=============================================================================
