-------------------------- MODULE HookSpoolProofs --------------------------
(***************************************************************************)
(* Theorems about HookSpool: for any number of daemons, hooks, deaths and  *)
(* I/O errors, the session lock excludes, event chains are linear, provider*)
(* sessions and local sessions correspond, and no accepted hook is lost.   *)
(*                                                                         *)
(* All follow from the inductive invariant IInv.  The lemmas treat the     *)
(* steps of the ingestion first, one action at a time, and then the steps  *)
(* of the spool, which leave the evidence alone.                           *)
(***************************************************************************)
EXTENDS HookSpool, SequenceTheorems, TLAPS

(* A hook's mapping id is a mapping. *)
LEMMA MappingIdInMapping == ASSUME NEW h \in Hook PROVE MappingId(h) \in Mapping
  BY DEF Mapping

USE NoneAssumption, BoundAssumption

(***************************************************************************)
(* The variables keep their types.                                         *)
(***************************************************************************)
LEMMA TypeInit == Init => TypeOK
  BY DEF Init, IngestInit, TypeOK, IngestTypeOK, PC, Critical, FileState

LEMMA IngestStepType ==
  ASSUME IngestTypeOK, InHand, NEW p \in Process, IngestStep(p)
  PROVE  IngestTypeOK'
  <1> USE MappingIdInMapping DEF IngestTypeOK, InHand, Goto, PC, Critical,
                                 HasSession, local, store
  <1>1. CASE TakeLock(p)  BY <1>1 DEF TakeLock
  <1>2. CASE LockBusy(p)  BY <1>2 DEF LockBusy
  <1>3. CASE Resume(p)  BY <1>3 DEF Resume
  <1>4. CASE NoMapping(p)  BY <1>4 DEF NoMapping
  <1>5. CASE Start(p)  BY <1>5 DEF Start
  <1>6. CASE TruncateMapping(p)  BY <1>6 DEF TruncateMapping
  <1>7. CASE BindMapping(p)  BY <1>7 DEF BindMapping
  <1>8. CASE Record(p)
    <2>1. lid[p] \in LocalId /\ hook[p] \in Hook  BY <1>8 DEF Record
    <2>2. [hook |-> hook[p], parent |-> known[p]] \in Event  BY <2>1 DEF Event
    <2> QED  BY <1>8, <2>1, <2>2 DEF Record
  <1>9. CASE AppendIndex(p)
    <2>1. lid[p] \in LocalId /\ known[p] \in Nat  BY <1>9 DEF AppendIndex
    <2>2. index[lid[p]] \cup {known[p]} \in SUBSET Nat  BY <2>1
    <2>3. index' \in [LocalId -> SUBSET Nat]  BY <1>9, <2>1, <2>2 DEF AppendIndex
    <2> QED  BY <1>9, <2>3 DEF AppendIndex
  <1>10. CASE Checkpoint(p)  BY <1>10 DEF Checkpoint
  <1>11. CASE Unlock(p)  BY <1>11 DEF Unlock, ReleaseLock
  <1>12. CASE Fail(p)  BY <1>12 DEF Fail, ReleaseLock
  <1> QED  BY <1>1, <1>2, <1>3, <1>4, <1>5, <1>6, <1>7, <1>8, <1>9, <1>10,
              <1>11, <1>12 DEF IngestStep

LEMMA IngestStepInv ==
  ASSUME IngestTypeOK, IngestInv, NEW p \in Process, IngestStep(p)
  PROVE  IngestInv'
  <1> USE MappingIdInMapping DEF IngestTypeOK, IngestInv, InHand, HolderLocked,
        MutualExclusion, Holds, MappingsNameSessions, SessionsExclusive, KnowsAll,
        EventsInMapped, LinearChain, CheckpointsRecorded, Goto, PC, Critical,
        HasSession, Bound, local, store, ReleaseLock
  <1>1. CASE TakeLock(p)  BY <1>1 DEF TakeLock
  <1>2. CASE LockBusy(p)  BY <1>2 DEF LockBusy
  <1>3. CASE Resume(p)  BY <1>3 DEF Resume
  <1>4. CASE NoMapping(p)  BY <1>4 DEF NoMapping
  <1>5. CASE Start(p)  BY <1>5 DEF Start
  <1>6. CASE TruncateMapping(p)  BY <1>6 DEF TruncateMapping
  <1>7. CASE BindMapping(p)  BY <1>7 DEF BindMapping
  <1>8. CASE Record(p)  BY <1>8 DEF Record
  <1>9. CASE AppendIndex(p)  BY <1>9 DEF AppendIndex
  <1>10. CASE Checkpoint(p)  BY <1>10 DEF Checkpoint
  <1>11. CASE Unlock(p)  BY <1>11 DEF Unlock
  <1>12. CASE Fail(p)  BY <1>12 DEF Fail
  <1> QED  BY <1>1, <1>2, <1>3, <1>4, <1>5, <1>6, <1>7, <1>8, <1>9, <1>10, <1>11, <1>12 DEF IngestStep

(***************************************************************************)
(* A step of the ingestion never takes evidence back.                      *)
(***************************************************************************)
LEMMA IngestKeepsEvidence ==
  ASSUME IngestTypeOK, IngestInv, NEW p \in Process, IngestStep(p), NEW h \in Hook
  PROVE  /\ Delivered(h) => Delivered(h)'
         /\ Recorded(h) => Recorded(h)'
  <1>1. CASE Record(p)
    <2>1. /\ lid[p] \in LocalId /\ [hook |-> hook[p], parent |-> known[p]] \in Event
          /\ ckpt' = ckpt
      BY <1>1 DEF Record, Event, Critical, IngestTypeOK, IngestInv, InHand, HasSession
    <2>2. \A n \in LocalId :
            /\ Len(events[n]) \in Nat /\ Len(events'[n]) \in Nat
            /\ Len(events[n]) <= Len(events'[n])
            /\ \A i \in 1..Len(events[n]) : events'[n][i] = events[n][i]
      BY <1>1, <2>1 DEF Record, IngestTypeOK
    <2>3. \A n \in LocalId : ckpt[n] \in Nat  BY DEF IngestTypeOK
    <2> QED  BY <2>1, <2>2, <2>3 DEF Delivered, Recorded, RecordedIn
  <1>2. CASE Checkpoint(p)
    <2>1. \A n \in LocalId : ckpt[n] <= ckpt'[n] /\ ckpt[n] \in Nat /\ ckpt'[n] \in Nat
      BY <1>2 DEF Checkpoint, IngestTypeOK, IngestInv, KnowsAll, CheckpointsRecorded,
                  HasSession
    <2>2. events' = events  BY <1>2 DEF Checkpoint
    <2> QED  BY <2>1, <2>2 DEF Delivered, Recorded, RecordedIn
  <1>3. CASE UNCHANGED <<events, ckpt>>
    BY <1>3 DEF Delivered, Recorded, RecordedIn
  <1> QED  BY <1>1, <1>2, <1>3 DEF IngestStep, TakeLock, LockBusy, Resume, NoMapping,
              Start, TruncateMapping, BindMapping, AppendIndex, Unlock, Fail, store

(***************************************************************************)
(* An event enters the evidence only by the process that ingests its hook. *)
(***************************************************************************)
LEMMA IngestRecordsHook ==
  ASSUME IngestTypeOK, IngestInv, NEW p \in Process, IngestStep(p), NEW h \in Hook,
         ~Recorded(h), Recorded(h)'
  PROVE  pc[p] = "record" /\ hook[p] = h
  <1> USE DEF IngestTypeOK, IngestInv, InHand, Recorded, RecordedIn, Goto,
              HasSession, store, local
  <1>1. CASE Record(p)
    <2>1. lid[p] \in LocalId /\ [hook |-> hook[p], parent |-> known[p]] \in Event
      BY <1>1 DEF Record, Event, Critical
    <2>2. \A n \in LocalId : \A i \in 1..Len(events'[n]) :
            \/ i \in 1..Len(events[n]) /\ events'[n][i] = events[n][i]
            \/ events'[n][i].hook = hook[p]
      BY <1>1, <2>1 DEF Record
    <2>3. PICK n \in LocalId : \E i \in 1..Len(events'[n]) : events'[n][i].hook = h
      OBVIOUS
    <2>4. PICK i \in 1..Len(events'[n]) : events'[n][i].hook = h  BY <2>3
    <2>5. ~(i \in 1..Len(events[n]) /\ events'[n][i] = events[n][i])  BY <2>4
    <2> QED  BY <1>1, <2>2, <2>4, <2>5 DEF Record
  <1>2. CASE UNCHANGED events
    BY <1>2
  <1> QED  BY <1>1, <1>2 DEF IngestStep, TakeLock, LockBusy, Resume, NoMapping, Start,
              TruncateMapping, BindMapping, AppendIndex, Checkpoint, Unlock, Fail

LEMMA IngestRecordedInHand ==
  ASSUME IngestTypeOK, IngestInv, RecordedInHand, NEW p \in Process, IngestStep(p)
  PROVE  RecordedInHand'
  <1> DEFINE LastInHand(q) == known[q] > 0 /\ events[lid[q]][known[q]].hook = hook[q]
  <1> SUFFICES ASSUME NEW q \in Process
               PROVE  /\ pc'[q] \in {"index", "checkpoint"} => LastInHand(q)'
                      /\ pc'[q] \in {"unlock", "returned"} => Delivered(hook[q])'
    BY DEF RecordedInHand
  <1> USE DEF IngestTypeOK, Goto, local, store
  <1>1. CASE q # p
    <2>1. pc'[q] = pc[q] /\ hook'[q] = hook[q] /\ lid'[q] = lid[q] /\ known'[q] = known[q]
      BY <1>1 DEF IngestStep, TakeLock, LockBusy, Resume, NoMapping, Start,
         TruncateMapping, BindMapping, Record, AppendIndex, Checkpoint, Unlock, Fail
    <2>2. ASSUME pc[q] \in {"index", "checkpoint"}
          PROVE  LastInHand(q)'
      <3>1. events'[lid[q]] = events[lid[q]]
        <4>1. CASE Record(p)
          <5>1. lid[q] # lid[p]
            BY <1>1, <2>2, <4>1 DEF Record, IngestInv, SessionsExclusive, HasSession
          <5> QED  BY <4>1, <5>1 DEF Record
        <4>2. CASE UNCHANGED events  BY <4>2
        <4> QED  BY <4>1, <4>2 DEF IngestStep, TakeLock, LockBusy, Resume, NoMapping,
                   Start, TruncateMapping, BindMapping, AppendIndex, Checkpoint,
                   Unlock, Fail
      <3> QED  BY <2>1, <2>2, <3>1 DEF RecordedInHand
    <2>3. ASSUME pc[q] \in {"unlock", "returned"}
          PROVE  Delivered(hook[q])'
      <3>1. PICK h \in Hook : h = hook[q] /\ Delivered(h)
        BY <2>3 DEF RecordedInHand, IngestInv, InHand, Critical
      <3>2. Delivered(h)'  BY <3>1, IngestKeepsEvidence
      <3> QED  BY <2>1, <3>1, <3>2
    <2> QED  BY <2>1, <2>2, <2>3
  <1>2. CASE q = p
    <2>1. CASE Record(p)
      <3>1. /\ lid[p] \in LocalId /\ hook[p] \in Hook /\ known[p] = Len(events[lid[p]])
            /\ [hook |-> hook[p], parent |-> known[p]] \in Event
        BY <2>1 DEF Record, Event, Critical, IngestInv, InHand, KnowsAll, HasSession
      <3> QED  BY <1>2, <2>1, <3>1 DEF Record
    <2>2. CASE AppendIndex(p)
      BY <1>2, <2>2 DEF AppendIndex, RecordedInHand
    <2>3. CASE Checkpoint(p)
      <3>1. /\ lid[p] \in LocalId /\ known[p] = Len(events[lid[p]]) /\ known[p] > 0
            /\ events[lid[p]][known[p]].hook = hook[p]
        BY <2>3 DEF Checkpoint, Critical, IngestInv, InHand, KnowsAll, HasSession,
                    RecordedInHand
      <3>2. ckpt'[lid[p]] = known[p] /\ events' = events /\ hook' = hook
            /\ pc'[p] = "unlock"
        BY <2>3, <3>1 DEF Checkpoint
      <3> QED  BY <1>2, <3>1, <3>2 DEF Delivered, RecordedIn
    <2>4. CASE Unlock(p)
      <3>1. PICK h \in Hook : h = hook[p] /\ Delivered(h)
        BY <2>4 DEF Unlock, RecordedInHand, IngestInv, InHand, Critical
      <3>2. Delivered(h)'  BY <3>1, IngestKeepsEvidence
      <3> QED  BY <1>2, <2>4, <3>1, <3>2 DEF Unlock
    <2> QED  BY <1>2, <2>1, <2>2, <2>3, <2>4 DEF IngestStep, TakeLock, LockBusy,
               Resume, NoMapping, Start, TruncateMapping, BindMapping, Fail
  <1> QED  BY <1>1, <1>2

(***************************************************************************)
(* The steps of the spool move one process around outside of the critical  *)
(* section and leave the locks and the evidence alone.                     *)
(***************************************************************************)
Outside(p) ==
  /\ UNCHANGED <<locked, store>>
  /\ pc'[p] \in {"down", "idle", "drain", "lock", "threw"}
  /\ pc'[p] \in {"lock", "threw"} => hook'[p] \in Hook
  /\ \A q \in Process \ {p} :
       /\ pc'[q] = pc[q] /\ hook'[q] = hook[q]
       /\ lid'[q] = lid[q] /\ known'[q] = known[q]

LEMMA OutsideInv ==
  ASSUME IngestTypeOK, IngestInv, NEW p \in Process, Outside(p)
  PROVE  IngestInv'
  <1> USE DEF Outside, IngestInv, Critical, HasSession, Bound, store
  <1>1. InHand'  BY DEF InHand
  <1>2. HolderLocked'  BY DEF HolderLocked
  <1>3. MutualExclusion'  BY DEF MutualExclusion, Holds
  <1>4. MappingsNameSessions'  BY DEF MappingsNameSessions
  <1>5. SessionsExclusive'  BY DEF SessionsExclusive
  <1>6. KnowsAll'  BY DEF KnowsAll
  <1>7. EventsInMapped'  BY DEF EventsInMapped
  <1>8. LinearChain'  BY DEF LinearChain
  <1>9. CheckpointsRecorded'  BY DEF CheckpointsRecorded
  <1> QED  BY <1>1, <1>2, <1>3, <1>4, <1>5, <1>6, <1>7, <1>8, <1>9

LEMMA SameEvidence ==
  ASSUME UNCHANGED store, NEW h
  PROVE  (Delivered(h)' <=> Delivered(h)) /\ (Recorded(h)' <=> Recorded(h))
  BY DEF store, Delivered, Recorded, RecordedIn

LEMMA OutsideRecordedInHand ==
  ASSUME IngestTypeOK, RecordedInHand, NEW p \in Process, Outside(p)
  PROVE  RecordedInHand'
  <1>1. \A q \in Process : Delivered(hook[q])' <=> Delivered(hook'[q])
    BY DEF Outside, store, Delivered, RecordedIn
  <1> QED  BY <1>1 DEF Outside, RecordedInHand, store

(* What is recorded or delivered had its spool entry listed, so accepted. *)
LEMMA IngestListed ==
  ASSUME TypeOK, IInv, NEW p \in Process,
         pc[p] \in Critical \cup {"lock", "returned", "threw"}
  PROVE  hook[p] \in Hook /\ hook[p] \in todo[p] /\ file[hook[p]] \in Accepted
  BY DEF TypeOK, IInv, IngestInv, InHand, InTurn, IsNext, ListedInOrder

(***************************************************************************)
(* Every step keeps the types.                                             *)
(***************************************************************************)
LEMMA TypeStep == ASSUME TypeOK, IInv, [Next]_vars PROVE TypeOK'
  <1> USE DEF TypeOK, IngestTypeOK, Goto, local, store, ingestVars, PC, Critical,
              FileState, ForgetCall, NextEntry
  <1>1. ASSUME NEW h \in Hook, WriteTemporary(h) \/ Publish(h) \/ CommandFails(h)
        PROVE  TypeOK'
    <2>1. file' \in [Hook -> FileState]
      BY <1>1 DEF WriteTemporary, Publish, CommandFails
    <2>2. UNCHANGED <<ingestVars, todo>>
      BY <1>1 DEF WriteTemporary, Publish, CommandFails
    <2> QED  BY <2>1, <2>2
  <1>2. ASSUME NEW p \in Process, StartSpool(p)  PROVE TypeOK'
    BY <1>2 DEF StartSpool
  <1>3. ASSUME NEW p \in Process, ListEntries(p)  PROVE TypeOK'
    BY <1>3 DEF ListEntries
  <1>4. ASSUME NEW p \in Process, PassDone(p)  PROVE TypeOK'
    BY <1>4 DEF PassDone
  <1>5. ASSUME NEW p \in Process, SkipEntry(p)  PROVE TypeOK'
    BY <1>5 DEF SkipEntry
  <1>6. ASSUME NEW p \in Process, RefuseEntry(p)  PROVE TypeOK'
    BY <1>6 DEF RefuseEntry
  <1>7. ASSUME NEW p \in Process, ReadEntry(p)  PROVE TypeOK'
    BY <1>7 DEF ReadEntry, Enter
  <1>8. ASSUME NEW p \in Process, Ingest(p)  PROVE TypeOK'
    <2>1. IngestTypeOK'  BY <1>8, IngestStepType DEF Ingest, IInv, IngestInv
    <2> QED  BY <1>8, <2>1 DEF Ingest
  <1>9. ASSUME NEW p \in Process, DeleteEntry(p)  PROVE TypeOK'
    BY <1>9 DEF DeleteEntry
  <1>10. ASSUME NEW p \in Process, DeleteFails(p)  PROVE TypeOK'
    BY <1>10 DEF DeleteFails
  <1>11. ASSUME NEW p \in Process, MoveAside(p)  PROVE TypeOK'
    BY <1>11 DEF MoveAside
  <1>12. ASSUME NEW p \in Process, Crash(p)  PROVE TypeOK'
    BY <1>12 DEF Crash, Die
  <1>13. CASE UNCHANGED vars
    BY <1>13 DEF vars
  <1> QED  BY <1>1, <1>2, <1>3, <1>4, <1>5, <1>6, <1>7, <1>8, <1>9, <1>10, <1>11,
              <1>12, <1>13 DEF Next, DrainStep

(***************************************************************************)
(* Every step keeps the invariant.                                         *)
(***************************************************************************)
LEMMA OutsideStep ==
  ASSUME TypeOK, IInv, NEW p \in Process,
         \/ StartSpool(p) \/ ListEntries(p) \/ PassDone(p) \/ SkipEntry(p)
         \/ RefuseEntry(p) \/ ReadEntry(p) \/ DeleteEntry(p) \/ DeleteFails(p)
         \/ MoveAside(p) \/ Crash(p)
  PROVE  Outside(p)
  <1> USE DEF TypeOK, IngestTypeOK, Outside, Goto, local, store, ingestVars,
              ForgetCall, NextEntry
  <1>1. CASE StartSpool(p)  BY <1>1 DEF StartSpool
  <1>2. CASE ListEntries(p)  BY <1>2 DEF ListEntries
  <1>3. CASE PassDone(p)  BY <1>3 DEF PassDone
  <1>4. CASE SkipEntry(p)
    BY <1>4 DEF SkipEntry
  <1>5. CASE RefuseEntry(p)  BY <1>5 DEF RefuseEntry
  <1>6. CASE ReadEntry(p)  BY <1>6 DEF ReadEntry, Enter
  <1>7. CASE DeleteEntry(p)  BY <1>7 DEF DeleteEntry
  <1>8. CASE DeleteFails(p)
    <2>1. hook[p] \in Hook  BY <1>8, IngestListed DEF DeleteFails
    <2> QED  BY <1>8, <2>1 DEF DeleteFails
  <1>9. CASE MoveAside(p)  BY <1>9 DEF MoveAside
  <1>10. CASE Crash(p)  BY <1>10 DEF Crash, Die
  <1> QED  BY <1>1, <1>2, <1>3, <1>4, <1>5, <1>6, <1>7, <1>8, <1>9, <1>10

LEMMA CommandStepInv ==
  ASSUME TypeOK, IInv, NEW h \in Hook,
         WriteTemporary(h) \/ Publish(h) \/ CommandFails(h)
  PROVE  IInv'
  <1> USE DEF TypeOK, IInv
  <1>1. UNCHANGED <<ingestVars, todo>>
    BY DEF WriteTemporary, Publish, CommandFails
  <1>2. IngestInv' /\ RecordedInHand'
    BY <1>1 DEF ingestVars, local, store, IngestInv, InHand, HolderLocked,
       MutualExclusion, Holds, MappingsNameSessions, SessionsExclusive, KnowsAll,
       EventsInMapped, LinearChain, CheckpointsRecorded, RecordedInHand, Delivered,
       RecordedIn
  <1>3. \A g \in Hook : (Delivered(g)' <=> Delivered(g)) /\ (Recorded(g)' <=> Recorded(g))
    BY <1>1, SameEvidence DEF ingestVars
  <1>4. \A g \in Hook : file[g] \in Ended => file'[g] = file[g]
    BY DEF WriteTemporary, Publish, CommandFails, Ended, Accepted
  <1>5. \A g \in Hook : /\ file'[g] = "deleted" => file[g] = "deleted"
                        /\ file'[g] \in Ended \/ file'[g] = "tmp" \/ file'[g] = file[g]
    BY DEF WriteTemporary, Publish, CommandFails, Ended, Accepted
  <1>6. DeletedOnlyIfDelivered'  BY <1>3, <1>5 DEF DeletedOnlyIfDelivered
  <1>7. InTurn'  BY <1>1 DEF ingestVars, local, InTurn, IsNext
  <1>8. ListedInOrder'
    <2>1. \A p \in Process : \A g \in todo'[p] : file'[g] \in Accepted
      BY <1>1, <1>4 DEF ListedInOrder, Ended
    <2>2. ASSUME "rename" \notin IOErrors, NEW pair \in Precedes
          PROVE  /\ file'[pair[2]] \in Accepted \cup {"tmp"} => file'[pair[1]] \in Ended
                 /\ \A p \in Process : pair[2] \in todo'[p] =>
                      pair[1] \in todo'[p] \/ file'[pair[1]] \in Settled
      <3>1. pair = <<pair[1], pair[2]>> /\ pair[1] \in Hook /\ pair[2] \in Hook
        BY PrecedesAssumption
      <3>2. file'[pair[2]] \in Accepted \cup {"tmp"} => file[pair[1]] \in Ended
        BY <2>2, <3>1 DEF ListedInOrder, WriteTemporary, Publish, CommandFails, Accepted
      <3> QED  BY <1>1, <1>4, <2>2, <3>1, <3>2 DEF ListedInOrder, Settled, Ended, Accepted
    <2> QED  BY <2>1, <2>2 DEF ListedInOrder
  <1>9. AgentOrder'
    BY <1>3, <1>4, PrecedesAssumption DEF AgentOrder, Ended, Accepted
  <1>10. RecordedAreAccepted'
    BY <1>3, <1>4 DEF RecordedAreAccepted, Ended
  <1> QED  BY <1>2, <1>6, <1>7, <1>8, <1>9, <1>10

LEMMA OutsideStepInv ==
  ASSUME TypeOK, IInv, NEW p \in Process,
         \/ StartSpool(p) \/ ListEntries(p) \/ PassDone(p) \/ SkipEntry(p)
         \/ RefuseEntry(p) \/ ReadEntry(p) \/ DeleteEntry(p) \/ DeleteFails(p)
         \/ MoveAside(p) \/ Crash(p)
  PROVE  IInv'
  <1> USE DEF TypeOK, IInv
  <1>1. Outside(p)  BY OutsideStep
  <1>2. IngestInv' /\ RecordedInHand'  BY <1>1, OutsideInv, OutsideRecordedInHand
  <1>3. \A h \in Hook : (Delivered(h)' <=> Delivered(h)) /\ (Recorded(h)' <=> Recorded(h))
    BY <1>1, SameEvidence DEF Outside
  <1>4. \/ UNCHANGED file
        \/ /\ DeleteEntry(p) \/ MoveAside(p)
           /\ hook[p] \in Hook /\ file[hook[p]] = "ready"
           /\ file' = [file EXCEPT ![hook[p]] =
                         IF DeleteEntry(p) THEN "deleted" ELSE "failed"]
    BY IngestListed DEF StartSpool, ListEntries, PassDone, SkipEntry, RefuseEntry,
       ReadEntry, DeleteEntry, DeleteFails, MoveAside, Crash, ingestVars
  <1>5. DeletedOnlyIfDelivered'
    BY <1>3, <1>4 DEF DeletedOnlyIfDelivered, RecordedInHand, DeleteEntry
  <1>6. \A h \in Hook : /\ file[h] \in Settled => file'[h] = file[h]
                        /\ file[h] \in Accepted => file'[h] \in Accepted
                        /\ file'[h] # file[h] => file[h] = "ready" /\ file'[h] \in Settled
    BY <1>4 DEF Settled, Accepted
  <1>7. \A q \in Process \ {p} : todo'[q] = todo[q]
    BY DEF StartSpool, ListEntries, PassDone, SkipEntry, RefuseEntry, ReadEntry,
       DeleteEntry, DeleteFails, MoveAside, Crash, NextEntry
  <1>8. \/ UNCHANGED todo
        \/ ListEntries(p) /\ todo'[p] = {h \in Hook : file[h] = "ready"}
        \/ Crash(p) /\ todo'[p] = {}
        \/ \E h \in todo[p] : SkipEntry(p) /\ file[h] # "ready" /\ todo'[p] = todo[p] \ {h}
        \/ (DeleteEntry(p) \/ MoveAside(p)) /\ todo'[p] = todo[p] \ {hook[p]}
    BY DEF StartSpool, ListEntries, PassDone, SkipEntry, RefuseEntry, ReadEntry,
       DeleteEntry, DeleteFails, MoveAside, Crash, NextEntry
  <1>9. InTurn'
    <2> SUFFICES ASSUME NEW q \in Process,
                        pc'[q] \in Critical \cup {"lock", "returned", "threw"}
                 PROVE  IsNext(q, hook[q])'
      BY DEF InTurn
    <2>1. CASE q # p  BY <1>1, <1>7, <2>1 DEF Outside, InTurn, IsNext
    <2>2. CASE q = p
      BY <1>1, <2>2 DEF Outside, InTurn, IsNext, StartSpool, ListEntries, PassDone,
         SkipEntry, RefuseEntry, ReadEntry, Enter, DeleteEntry, DeleteFails,
         MoveAside, Crash, Die, NextEntry, Goto, local, ingestVars, Critical,
         IngestTypeOK
    <2> QED  BY <2>1, <2>2
  <1>10. ListedInOrder'
    <2>1. \A q \in Process : \A h \in todo'[q] : file'[h] \in Accepted
      BY <1>6, <1>7, <1>8 DEF ListedInOrder, Accepted
    <2>2. ASSUME "rename" \notin IOErrors, NEW pair \in Precedes
          PROVE  /\ file'[pair[2]] \in Accepted \cup {"tmp"} => file'[pair[1]] \in Ended
                 /\ \A q \in Process : pair[2] \in todo'[q] =>
                      pair[1] \in todo'[q] \/ file'[pair[1]] \in Settled
      <3>1. pair[1] \in Hook /\ pair[2] \in Hook  BY PrecedesAssumption
      <3>2. file'[pair[2]] \in Accepted \cup {"tmp"} => file'[pair[1]] \in Ended
        BY <1>6, <2>2, <3>1 DEF ListedInOrder, Accepted, Ended, Settled
      <3>3. ASSUME NEW q \in Process, q # p, pair[2] \in todo'[q]
            PROVE  pair[1] \in todo'[q] \/ file'[pair[1]] \in Settled
        BY <1>6, <1>7, <2>2, <3>1, <3>3 DEF ListedInOrder
      <3>4. ASSUME pair[2] \in todo'[p]
            PROVE  pair[1] \in todo'[p] \/ file'[pair[1]] \in Settled
        <4>1. CASE ListEntries(p)
          BY <1>6, <2>2, <3>1, <3>4, <4>1 DEF ListEntries, ListedInOrder, Accepted, Ended,
             Settled
        <4>2. CASE UNCHANGED todo
          BY <1>6, <2>2, <3>1, <3>4, <4>2 DEF ListedInOrder
        <4>3. CASE Crash(p)  BY <3>4, <4>3, <1>8 DEF Crash
        <4>4. CASE SkipEntry(p)
          BY <1>6, <2>2, <3>1, <3>4, <4>4 DEF SkipEntry, ListedInOrder, Accepted, Settled
        <4>5. CASE DeleteEntry(p) \/ MoveAside(p)
          <5>1. hook[p] \in Hook /\ hook[p] \in todo[p] /\ file[hook[p]] \in Accepted
            BY <4>5, IngestListed DEF DeleteEntry, MoveAside
          <5>2. file'[hook[p]] \in Settled
            BY <2>2, <4>5, <5>1 DEF DeleteEntry, MoveAside, Accepted, Settled
          <5> QED  BY <1>6, <2>2, <3>1, <3>4, <4>5, <5>1, <5>2 DEF DeleteEntry,
                      MoveAside, NextEntry, ListedInOrder
        <4> QED  BY <1>8, <4>1, <4>2, <4>3, <4>4, <4>5
      <3> QED  BY <3>2, <3>3, <3>4
    <2> QED  BY <2>1, <2>2 DEF ListedInOrder
  <1>11. AgentOrder'
    BY <1>3, <1>6, PrecedesAssumption DEF AgentOrder, Settled
  <1>12. RecordedAreAccepted'
    BY <1>3, <1>6 DEF RecordedAreAccepted
  <1> QED  BY <1>2, <1>5, <1>9, <1>10, <1>11, <1>12

LEMMA IngestStepIInv ==
  ASSUME TypeOK, IInv, NEW p \in Process, Ingest(p)
  PROVE  IInv'
  <1> USE DEF TypeOK, IInv, Ingest
  <1>1. IngestInv' /\ RecordedInHand'  BY IngestStepInv, IngestRecordedInHand
  <1>2. DeletedOnlyIfDelivered'
    BY IngestKeepsEvidence DEF DeletedOnlyIfDelivered
  <1>3. InTurn'
    <2>1. \A q \in Process : hook'[q] = hook[q] /\ todo'[q] = todo[q]
      BY DEF IngestStep, TakeLock, LockBusy, Resume, NoMapping, Start, TruncateMapping,
         BindMapping, Record, AppendIndex, Checkpoint, Unlock, Fail, local
    <2>2. \A q \in Process : pc'[q] \in Critical \cup {"lock", "returned", "threw"} =>
                             pc[q] \in Critical \cup {"lock", "returned", "threw"}
      BY DEF IngestStep, TakeLock, LockBusy, Resume, NoMapping, Start, TruncateMapping,
         BindMapping, Record, AppendIndex, Checkpoint, Unlock, Fail, Goto,
         IngestTypeOK, Critical
    <2> QED  BY <2>1, <2>2 DEF InTurn, IsNext
  <1>4. ListedInOrder'  BY DEF ListedInOrder
  <1>5. AgentOrder'
    <2> SUFFICES ASSUME "rename" \notin IOErrors, NEW pair \in Precedes, Recorded(pair[2])'
                 PROVE  Recorded(pair[1])' \/ file[pair[1]] \in {"failed", "lost"}
      BY DEF AgentOrder
    <2>1. pair[1] \in Hook /\ pair[2] \in Hook /\ pair[1] < pair[2]
      BY PrecedesAssumption
    <2>2. CASE Recorded(pair[2])
      BY <2>1, <2>2, IngestKeepsEvidence DEF AgentOrder
    <2>3. CASE ~Recorded(pair[2])
      <3>1. pc[p] = "record" /\ hook[p] = pair[2]
        BY <2>1, <2>3, IngestRecordsHook
      <3>2. pair[2] \in todo[p] /\ pair[1] \notin todo[p]
        <4>1. IsNext(p, pair[2])  BY <3>1 DEF InTurn, Critical
        <4>2. pair[1] \in Nat /\ pair[2] \in Nat  BY <2>1, NameAssumption
        <4> QED  BY <2>1, <4>1, <4>2 DEF IsNext
      <3>3. file[pair[1]] \in Settled  BY <3>2 DEF ListedInOrder
      <3>4. CASE file[pair[1]] = "deleted"
        <4>1. Delivered(pair[1])'
          BY <2>1, <3>4, IngestKeepsEvidence DEF DeletedOnlyIfDelivered
        <4>2. \A n \in LocalId : Len(events'[n]) \in Nat /\ ckpt'[n] \in Nat
          BY IngestStepType DEF IngestTypeOK, IngestInv
        <4> QED  BY <4>1, <4>2 DEF Delivered, Recorded, RecordedIn
      <3> QED  BY <3>3, <3>4 DEF Settled
    <2> QED  BY <2>2, <2>3
  <1>6. RecordedAreAccepted'
    <2> SUFFICES ASSUME NEW h \in Hook, Recorded(h)', ~Recorded(h)
                 PROVE  file[h] \in Accepted
      BY DEF RecordedAreAccepted
    <2>1. pc[p] = "record" /\ hook[p] = h  BY IngestRecordsHook
    <2> QED  BY <2>1, IngestListed DEF Critical
  <1> QED  BY <1>1, <1>2, <1>3, <1>4, <1>5, <1>6

LEMMA InvInit == Init => IInv
  <1> SUFFICES ASSUME Init PROVE IInv  OBVIOUS
  <1> USE DEF Init, IngestInit
  <1>1. IngestInv
    BY DEF IngestInv, InHand, HolderLocked, MutualExclusion, Holds, MappingsNameSessions,
       SessionsExclusive, KnowsAll, EventsInMapped, LinearChain, CheckpointsRecorded,
       Critical, HasSession, Bound
  <1>2. RecordedInHand /\ DeletedOnlyIfDelivered
    BY DEF RecordedInHand, DeletedOnlyIfDelivered
  <1>3. InTurn  BY DEF InTurn, Critical
  <1>4. ListedInOrder
    BY PrecedesAssumption DEF ListedInOrder, Accepted
  <1>5. AgentOrder /\ RecordedAreAccepted
    BY DEF AgentOrder, RecordedAreAccepted, Recorded, RecordedIn
  <1> QED  BY <1>1, <1>2, <1>3, <1>4, <1>5 DEF IInv

LEMMA InvStep == ASSUME TypeOK, IInv, [Next]_vars PROVE IInv'
  <1>1. ASSUME NEW h \in Hook, WriteTemporary(h) \/ Publish(h) \/ CommandFails(h)
        PROVE  IInv'
    BY <1>1, CommandStepInv
  <1>2. ASSUME NEW p \in Process, StartSpool(p) \/ DrainStep(p) \/ Crash(p)
        PROVE  IInv'
    BY <1>2, OutsideStepInv, IngestStepIInv DEF DrainStep
  <1>3. CASE UNCHANGED vars
    BY <1>3 DEF vars, ingestVars, local, store, TypeOK, IInv, IngestInv, InHand,
       HolderLocked, MutualExclusion, Holds, MappingsNameSessions, SessionsExclusive,
       KnowsAll, EventsInMapped, LinearChain, CheckpointsRecorded, RecordedInHand,
       DeletedOnlyIfDelivered, Delivered, Recorded, RecordedIn, RecordedAreAccepted,
       InTurn, IsNext, ListedInOrder, AgentOrder
  <1> QED  BY <1>1, <1>2, <1>3 DEF Next

(***************************************************************************)
(* The inductive invariant and the types hold in every reachable state.    *)
(***************************************************************************)
THEOREM Invariance == Spec => [](TypeOK /\ IInv)
  <1>1. Init => TypeOK /\ IInv  BY TypeInit, InvInit
  <1>2. TypeOK /\ IInv /\ [Next]_vars => (TypeOK /\ IInv)'  BY TypeStep, InvStep
  <1> QED  BY <1>1, <1>2, PTL DEF Spec

(***************************************************************************)
(* The variables of the pipeline keep their types.                         *)
(***************************************************************************)
THEOREM TypeCorrect == Spec => []TypeOK
  BY Invariance, PTL

(***************************************************************************)
(* The lock of hookAdapter.ts excludes, for any number of processes, any   *)
(* number of deaths and any of the modelled I/O errors.                    *)
(***************************************************************************)
THEOREM LockExcludes == Spec => []MutualExclusion
  <1>1. IInv => MutualExclusion  BY DEF IInv, IngestInv
  <1> QED  BY <1>1, Invariance, PTL

(***************************************************************************)
(* The event chain of every local session is linear.                       *)
(***************************************************************************)
THEOREM ChainsAreLinear == Spec => []LinearChain
  <1>1. IInv => LinearChain  BY DEF IInv, IngestInv
  <1> QED  BY <1>1, Invariance, PTL

(***************************************************************************)
(* Provider sessions and local sessions correspond one to one, as far as   *)
(* events were recorded, if reading the mapping file does not fail.        *)
(***************************************************************************)
THEOREM SessionsCorrespond == Spec => []OneSessionPerMapping
  <1>1. TypeOK /\ IInv => OneSessionPerMapping
    <2> SUFFICES ASSUME TypeOK, IInv, "read" \notin IOErrors,
                        NEW n1 \in LocalId, NEW n2 \in LocalId,
                        NEW i \in 1..Len(events[n1]), NEW j \in 1..Len(events[n2])
                 PROVE  MappingId(events[n1][i].hook) = MappingId(events[n2][j].hook)
                          <=> n1 = n2
      BY DEF OneSessionPerMapping
    <2>1. events[n1][i].hook \in Hook /\ events[n2][j].hook \in Hook
      <3>1. events[n1] \in Seq(Event) /\ events[n2] \in Seq(Event)
        BY DEF TypeOK, IngestTypeOK
      <3>2. events[n1][i] \in Event /\ events[n2][j] \in Event  BY <3>1
      <3> QED  BY <3>2 DEF Event
    <2>2. /\ mapping[MappingId(events[n1][i].hook)] = n1
          /\ mapping[MappingId(events[n2][j].hook)] = n2
      BY DEF IInv, IngestInv, EventsInMapped
    <2> QED  BY <2>1, <2>2, MappingIdInMapping DEF IInv, IngestInv, MappingsNameSessions
  <1> QED  BY <1>1, Invariance, PTL

(***************************************************************************)
(* No accepted hook is lost: a spool entry is deleted only when its event  *)
(* is in evidence that a checkpoint covers.                                *)
(***************************************************************************)
THEOREM NoHookIsLost == Spec => []DeletedOnlyIfDelivered
  <1>1. IInv => DeletedOnlyIfDelivered  BY DEF IInv
  <1> QED  BY <1>1, Invariance, PTL

(***************************************************************************)
(* The evidence keeps the order in which the agent ran its hook commands.  *)
(***************************************************************************)
THEOREM EvidenceInAgentOrder == Spec => []AgentOrder
  <1>1. IInv => AgentOrder  BY DEF IInv
  <1> QED  BY <1>1, Invariance, PTL

(***************************************************************************)
(* Every path through the handler gives the lock back: without deaths and  *)
(* failing removals, a lock directory has a live process behind it.        *)
(***************************************************************************)
THEOREM LocksAreGivenBack == Spec => []LockHasHolder
  <1>1. Init => LockHasHolder
    BY DEF Init, IngestInit, LockHasHolder
  <1>2. ASSUME TypeOK, IInv, LockHasHolder, [Next]_vars
        PROVE  LockHasHolder'
    <2> SUFFICES ASSUME crashes' = 0, "rmdir" \notin IOErrors,
                        NEW m \in Mapping, locked'[m]
                 PROVE  \E p \in Process : Holds(p, m)'
      BY DEF LockHasHolder
    <2> USE <1>2 DEF TypeOK, IngestTypeOK
    <2>1. ASSUME NEW h \in Hook, WriteTemporary(h) \/ Publish(h) \/ CommandFails(h)
          PROVE  \E p \in Process : Holds(p, m)'
      BY <2>1 DEF WriteTemporary, Publish, CommandFails, LockHasHolder, Holds,
                  ingestVars, local
    <2>2. ASSUME NEW p \in Process, StartSpool(p) \/ DrainStep(p) \/ Crash(p), ~Ingest(p)
          PROVE  \E q \in Process : Holds(q, m)'
      <3>1. ~Crash(p) /\ crashes = 0
        BY <2>2 DEF Crash, Die, StartSpool, DrainStep, ListEntries, PassDone, SkipEntry,
           RefuseEntry, ReadEntry, Enter, DeleteEntry, DeleteFails, MoveAside,
           NextEntry, ingestVars
      <3>2. Outside(p)  BY <2>2, OutsideStep DEF DrainStep
      <3>3. PICK q \in Process : Holds(q, m)  BY <3>1, <3>2 DEF Outside, LockHasHolder
      <3>4. q # p
        BY <2>2, <3>1, <3>3 DEF Holds, Critical, StartSpool, DrainStep, ListEntries,
           PassDone, SkipEntry, RefuseEntry, ReadEntry, DeleteEntry, DeleteFails,
           MoveAside, ingestVars
      <3> QED  BY <3>2, <3>3, <3>4 DEF Outside, Holds
    <2>3. ASSUME NEW p \in Process, Ingest(p)
          PROVE  \E q \in Process : Holds(q, m)'
      <3> USE DEF Ingest, IngestStep, TakeLock, LockBusy, Resume, NoMapping, Start,
                  TruncateMapping, BindMapping, Record, AppendIndex, Checkpoint, Unlock,
                  Fail, ReleaseLock, Goto, local
      <3>1. crashes = 0 /\ hook' = hook  BY <2>3
      <3>2. hook[p] \in Hook  BY <2>3 DEF IInv, IngestInv, InHand, Critical
      <3>3. ASSUME MappingId(hook[p]) = m, ~LockBusy(p)
            PROVE  \E q \in Process : Holds(q, m)'
        <4>1. pc[p] \in Critical \cup {"lock"}  BY <2>3, <3>3 DEF Critical
        <4>2. ~Unlock(p) /\ ~Fail(p)  BY <3>2, <3>3, MappingIdInMapping
        <4>3. pc'[p] \in Critical  BY <2>3, <3>3, <4>2 DEF Critical
        <4> QED  BY <3>1, <3>3, <4>3 DEF Holds
      <3>5. CASE LockBusy(p)
        <4>1. locked[m] /\ pc[p] = "lock"  BY <3>5
        <4>2. PICK q \in Process : Holds(q, m)  BY <3>1, <4>1 DEF LockHasHolder
        <4>3. q # p  BY <4>1, <4>2 DEF Holds, Critical
        <4>4. pc'[q] = pc[q]  BY <3>5, <4>3
        <4> QED  BY <3>1, <4>2, <4>4 DEF Holds
      <3>4. CASE MappingId(hook[p]) # m
        <4>1. locked[m]  BY <2>3, <3>2, <3>4, MappingIdInMapping
        <4>2. PICK q \in Process : Holds(q, m)  BY <3>1, <4>1 DEF LockHasHolder
        <4>3. q # p  BY <3>4, <4>2 DEF Holds
        <4>4. pc'[q] = pc[q]  BY <2>3, <4>3
        <4> QED  BY <3>1, <4>2, <4>4 DEF Holds
      <3> QED  BY <3>3, <3>4, <3>5
    <2>4. CASE UNCHANGED vars
      BY <2>4 DEF vars, ingestVars, local, LockHasHolder, Holds
    <2> QED  BY <1>2, <2>1, <2>2, <2>3, <2>4 DEF Next
  <1> QED  BY <1>1, <1>2, Invariance, PTL DEF Spec

(***************************************************************************)
(* One daemon alone throws over requests that are not valid, and over no   *)
(* others: the lock it asks for has no holder, as it is in no handler.     *)
(***************************************************************************)
Alone ==
  (\A p, q \in Process : p = q) /\ crashes = 0 /\ IOErrors \subseteq {"read", "rename"}

ThrowsOnInvalid == Alone => \A p \in Process : pc[p] = "threw" => hook[p] \in Malformed

LEMMA AloneBefore == ASSUME TypeOK, [Next]_vars, Alone' PROVE Alone
  <1>1. ASSUME NEW h \in Hook, WriteTemporary(h) \/ Publish(h) \/ CommandFails(h)
        PROVE  crashes' = crashes
    BY <1>1 DEF WriteTemporary, Publish, CommandFails, ingestVars
  <1>2. ASSUME NEW p \in Process, StartSpool(p) \/ DrainStep(p)
        PROVE  crashes' = crashes
    BY <1>2 DEF StartSpool, DrainStep, ListEntries, PassDone, SkipEntry, RefuseEntry, ReadEntry, Enter,
       DeleteEntry, DeleteFails, MoveAside, NextEntry, ingestVars, Ingest, IngestStep, TakeLock,
       LockBusy, Resume, NoMapping, Start, TruncateMapping, BindMapping, Record, AppendIndex,
       Checkpoint, Unlock, Fail
  <1>3. ASSUME NEW p \in Process, Crash(p)
        PROVE  crashes' = crashes + 1 /\ crashes \in Nat
    BY <1>3 DEF Crash, Die, TypeOK, IngestTypeOK
  <1>4. CASE UNCHANGED vars
    BY <1>4 DEF vars, ingestVars, Alone
  <1> QED  BY <1>1, <1>2, <1>3, <1>4 DEF Next, Alone

LEMMA ThrowsOnInvalidStep ==
  ASSUME TypeOK, IInv, LockHasHolder, ThrowsOnInvalid, [Next]_vars
  PROVE  ThrowsOnInvalid'
  <1> SUFFICES ASSUME Alone', NEW p \in Process, pc'[p] = "threw"
               PROVE  hook'[p] \in Malformed
    BY DEF ThrowsOnInvalid
  <1> USE DEF TypeOK, IngestTypeOK, Goto, local
  <1>1. ASSUME NEW h \in Hook, WriteTemporary(h) \/ Publish(h) \/ CommandFails(h)
        PROVE  hook'[p] \in Malformed
    BY <1>1 DEF WriteTemporary, Publish, CommandFails, ingestVars, ThrowsOnInvalid, Alone
  <1>2. ASSUME NEW q \in Process, StartSpool(q) \/ DrainStep(q) \/ Crash(q)
        PROVE  hook'[p] \in Malformed
    <2>1. q = p  BY DEF Alone
    <2>2. ~Crash(p)
      BY DEF Crash, Die
    <2>3. Alone
      BY AloneBefore
    <2>4. CASE Ingest(p)
      <3>1. ~LockBusy(p)
        <4>1. SUFFICES ASSUME pc[p] = "lock", locked[MappingId(hook[p])] PROVE FALSE
          BY DEF LockBusy
        <4>2. MappingId(hook[p]) \in Mapping
          BY <4>1, MappingIdInMapping DEF IInv, IngestInv, InHand
        <4>3. PICK r \in Process : Holds(r, MappingId(hook[p]))
          BY <2>3, <4>1, <4>2 DEF Alone, LockHasHolder
        <4> QED  BY <2>3, <4>1, <4>3 DEF Alone, Holds, Critical
      <3>2. ~Fail(p)
        BY <2>3 DEF Alone, Fail, Critical
      <3> QED  BY <2>4, <3>1, <3>2 DEF Ingest, IngestStep, TakeLock, Resume, NoMapping, Start,
                  TruncateMapping, BindMapping, Record, AppendIndex, Checkpoint, Unlock
    <2>5. CASE RefuseEntry(p)
      BY <2>5 DEF RefuseEntry
    <2>6. CASE ~Ingest(p) /\ ~RefuseEntry(p)
      BY <1>2, <2>1, <2>2, <2>3, <2>6 DEF Alone, StartSpool, DrainStep, ListEntries, PassDone,
         SkipEntry, ReadEntry, Enter, DeleteEntry, DeleteFails, MoveAside, NextEntry, ingestVars,
         ThrowsOnInvalid
    <2> QED  BY <2>4, <2>5, <2>6
  <1>3. CASE UNCHANGED vars
    BY <1>3 DEF vars, ingestVars, ThrowsOnInvalid, Alone
  <1> QED  BY <1>1, <1>2, <1>3 DEF Next

(***************************************************************************)
(* One daemon that never dies sets aside only requests that are not valid, *)
(* for any hooks, sessions and numbers of tries.                           *)
(***************************************************************************)
THEOREM OnlyInvalidAside == Spec => []LoneDaemonGivesUpOnInvalid
  <1>1. Init => ThrowsOnInvalid /\ LoneDaemonGivesUpOnInvalid
    BY DEF Init, IngestInit, ThrowsOnInvalid, LoneDaemonGivesUpOnInvalid
  <1>2. ASSUME TypeOK, IInv, ThrowsOnInvalid, LoneDaemonGivesUpOnInvalid, [Next]_vars
        PROVE  LoneDaemonGivesUpOnInvalid'
    <2> SUFFICES ASSUME Alone', NEW h \in Hook, file'[h] = "failed", file[h] # "failed"
                 PROVE  h \in Malformed
      <3>1. Alone' => Alone
        BY <1>2, AloneBefore
      <3> QED  BY <1>2, <3>1 DEF LoneDaemonGivesUpOnInvalid, Alone
    <2>1. PICK p \in Process : MoveAside(p)
      BY <1>2 DEF TypeOK, vars, Next, WriteTemporary, Publish, CommandFails, StartSpool, DrainStep,
         ListEntries, PassDone, SkipEntry, RefuseEntry, ReadEntry, Ingest, DeleteEntry, DeleteFails,
         Crash
    <2>2. pc[p] = "threw" /\ h = hook[p] /\ Alone
      BY <1>2, <2>1 DEF TypeOK, MoveAside, NextEntry, Alone
    <2> QED  BY <1>2, <2>2 DEF ThrowsOnInvalid
  <1> QED  BY <1>1, <1>2, ThrowsOnInvalidStep, Invariance, LocksAreGivenBack, PTL DEF Spec

(***************************************************************************)
(* The pipeline implements HookDelivery: what the hook command was told is *)
(* kept, for every number of daemons, deaths and I/O errors.               *)
(***************************************************************************)
THEOREM PipelineDelivers == Spec => ImplementsDelivery
  <1> DEFINE status == [h \in Hook |-> StatusOf(h)]
             delivered == {h \in Hook : Delivered(h)}
  <1> USE DEF Delivery!vars
  <1>1. Init => Delivery!Init
    BY DEF Init, IngestInit, Delivery!Init, StatusOf, Delivered, RecordedIn
  <1>2. ASSUME TypeOK, IInv, [Next]_vars
        PROVE  [Delivery!Next]_(Delivery!vars)
    <2>1. ASSUME NEW h \in Hook, WriteTemporary(h) \/ CommandFails(h)
          PROVE  UNCHANGED Delivery!vars
      <3>1. delivered' = delivered
        BY <2>1, SameEvidence DEF WriteTemporary, CommandFails, ingestVars
      <3>2. status' = status
        <4>1. \A g \in Hook : StatusOf(g)' = StatusOf(g)
          <5> TAKE g \in Hook
          <5>1. CASE g = h
            BY <1>2, <2>1, <5>1 DEF WriteTemporary, CommandFails, StatusOf, TypeOK
          <5>2. CASE g # h
            <6>1. file'[g] = file[g]
              BY <1>2, <2>1, <5>2 DEF WriteTemporary, CommandFails, TypeOK
            <6> QED  BY <6>1 DEF StatusOf
          <5> QED  BY <5>1, <5>2
        <4> QED  BY <4>1
      <3> QED  BY <3>1, <3>2
    <2>2. ASSUME NEW h \in Hook, Publish(h)
          PROVE  Delivery!Accept(h)
      <3>1. delivered' = delivered
        BY <2>2, SameEvidence DEF Publish, ingestVars
      <3>2. status[h] = "unsent" /\ status' = [status EXCEPT ![h] = "pending"]
        <4>1. StatusOf(h) = "unsent" /\ StatusOf(h)' = "pending"
          BY <1>2, <2>2 DEF Publish, StatusOf, TypeOK
        <4>2. \A g \in Hook \ {h} : StatusOf(g)' = StatusOf(g)
          BY <1>2, <2>2 DEF Publish, StatusOf, TypeOK
        <4> QED  BY <4>1, <4>2
      <3> QED  BY <3>1, <3>2 DEF Delivery!Accept
    <2>3. ASSUME NEW p \in Process, StartSpool(p) \/ DrainStep(p) \/ Crash(p), ~Ingest(p)
          PROVE  [\E h \in Hook : Delivery!Retire(h) \/ Delivery!SetAside(h)]_(Delivery!vars)
      <3>1. Outside(p)  BY <1>2, <2>3, OutsideStep DEF DrainStep
      <3>2. delivered' = delivered  BY <3>1, SameEvidence DEF Outside
      <3>3. CASE UNCHANGED file
        <4>1. status' = status  BY <3>3 DEF StatusOf
        <4> QED  BY <3>2, <4>1
      <3>4. CASE DeleteEntry(p) /\ file[hook[p]] = "ready"
        <4>1. hook[p] \in Hook /\ Delivered(hook[p])
          BY <1>2, <3>4, IngestListed DEF DeleteEntry, IInv, RecordedInHand
        <4>2. status[hook[p]] = "pending" /\ status' = [status EXCEPT ![hook[p]] = "retired"]
          BY <1>2, <3>4, <4>1 DEF DeleteEntry, StatusOf, TypeOK
        <4> QED  BY <3>2, <4>1, <4>2 DEF Delivery!Retire
      <3>5. CASE MoveAside(p) /\ file[hook[p]] = "ready" /\ file' # file
        <4>1. hook[p] \in Hook
          BY <1>2, <3>5, IngestListed DEF MoveAside
        <4>2. status[hook[p]] = "pending" /\ status' = [status EXCEPT ![hook[p]] = "aside"]
          BY <1>2, <3>5, <4>1 DEF MoveAside, StatusOf, TypeOK
        <4> QED  BY <3>2, <4>1, <4>2 DEF Delivery!SetAside
      <3> QED  BY <2>3, <3>3, <3>4, <3>5 DEF StartSpool, DrainStep, ListEntries, PassDone,
                  SkipEntry, RefuseEntry, ReadEntry, DeleteEntry, DeleteFails, MoveAside,
                  Crash
    <2>4. ASSUME NEW p \in Process, Ingest(p)
          PROVE  \E hs \in SUBSET Hook : Delivery!Deliver(hs)
      <3>1. IInv'  BY <1>2, <2>4, IngestStepIInv
      <3>2. status' = status  BY <2>4 DEF Ingest, StatusOf
      <3>3. delivered \subseteq delivered'
        BY <1>2, <2>4, IngestKeepsEvidence DEF Ingest, TypeOK, IInv
      <3>4. \A h \in delivered' : status[h] # "unsent"
        <4>1. TypeOK'  BY <1>2, <2>4, TypeStep DEF Next, DrainStep
        <4>2. \A h \in Hook : Delivered(h)' => Recorded(h)'
          BY <4>1 DEF Delivered, Recorded, RecordedIn, TypeOK, IngestTypeOK
        <4>3. \A h \in Hook : Recorded(h)' => file[h] \in Accepted
          BY <2>4, <3>1 DEF IInv, RecordedAreAccepted, Ingest
        <4> QED  BY <4>2, <4>3 DEF StatusOf, Accepted
      <3>5. delivered' \in SUBSET Hook /\ delivered' = delivered \cup delivered'
        BY <3>3
      <3> QED  BY <3>2, <3>4, <3>5 DEF Delivery!Deliver
    <2>5. CASE UNCHANGED vars
      <3>1. status' = status  BY <2>5 DEF vars, StatusOf
      <3>2. delivered' = delivered  BY <2>5, SameEvidence DEF vars, ingestVars
      <3> QED  BY <3>1, <3>2
    <2> QED  BY <1>2, <2>1, <2>2, <2>3, <2>4, <2>5 DEF Next, Delivery!Next
  <1> QED  BY <1>1, <1>2, Invariance, PTL DEF Spec, Delivery!Spec, ImplementsDelivery
=============================================================================
