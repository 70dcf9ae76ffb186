------------------------------ MODULE HookSpool ------------------------------
(***************************************************************************)
(* Delivery of agent hooks through the spool directory: enqueueLocalHook,  *)
(* run by each hook command, and the drain loop of startLocalHookSpool,    *)
(* run by each daemon (packages/local/src/hookTransport.ts), composed with *)
(* the ingestion of the hooks the loop takes (HookIngest).                 *)
(*                                                                         *)
(* A hook command writes its hook to a temporary file and renames it to a  *)
(* name that ends in .json.  A drain pass lists the .json files, and for   *)
(* each one, in the order of the names, reads it, ingests it and deletes   *)
(* it; whatever fails sends the file aside under the name .json.failed.    *)
(* Any number of daemons may drain the same directory; each has one pass   *)
(* under way at most (the "draining" flag), which is its pc here.          *)
(***************************************************************************)
EXTENDS HookIngest

CONSTANTS
  Malformed,  \* the hooks whose request the drain loop refuses
  Precedes    \* <<g, h>>: the agent runs hook h after g's command has ended

(***************************************************************************)
(* A hook stands for its file name, a timestamp first: the names are drawn *)
(* in clock order, so a command that runs after another has a later name.  *)
(***************************************************************************)
ASSUME NameAssumption == Hook \subseteq Nat
ASSUME PrecedesAssumption ==
  \A pair \in Precedes : pair \in Hook \X Hook /\ pair[1] < pair[2]
ASSUME MalformedAssumption == Malformed \subseteq Hook

VARIABLES
  file,  \* file[h]: where the spool entry of hook h is
  todo   \* todo[p]: the entries p's drain pass has listed and not finished

vars == <<ingestVars, file, todo>>

(***************************************************************************)
(* "tmp": written under the temporary name; "lost": its command ended      *)
(* without the rename, and nothing looks at the temporary file again.      *)
(***************************************************************************)
FileState == {"absent", "tmp", "lost", "ready", "failed", "deleted"}

(* The command handed the hook over; the command ended, one way or other. *)
Accepted == {"ready", "failed", "deleted"}
Ended == Accepted \cup {"lost"}

Init ==
  /\ IngestInit
  /\ pc = [p \in Process |-> "down"]
  /\ file = [h \in Hook |-> "absent"]
  /\ todo = [p \in Process |-> {}]
----------------------------------------------------------------------------
(***************************************************************************)
(* enqueueLocalHook, in two steps.  The command fails before the first     *)
(* (its payload is above 5 MB) or is killed before the second.             *)
(***************************************************************************)
WriteTemporary(h) ==
  /\ file[h] = "absent"
  /\ \A g \in Hook : <<g, h>> \in Precedes => file[g] \in Ended
  /\ file' = [file EXCEPT ![h] = "tmp"]
  /\ UNCHANGED <<ingestVars, todo>>

Publish(h) ==
  /\ file[h] = "tmp"
  /\ file' = [file EXCEPT ![h] = "ready"]
  /\ UNCHANGED <<ingestVars, todo>>

CommandFails(h) ==
  /\ file[h] \in {"absent", "tmp"}
  /\ file' = [file EXCEPT ![h] = "lost"]
  /\ UNCHANGED <<ingestVars, todo>>
----------------------------------------------------------------------------
(* A daemon comes up, again after it died or for the first time. *)
StartSpool(p) ==
  /\ pc[p] = "down"
  /\ Goto(p, "idle")
  /\ UNCHANGED <<local, locked, store, crashes, file, todo>>

(***************************************************************************)
(* One tick of the timer that finds no pass under way, or the first drain. *)
(***************************************************************************)
ListEntries(p) ==
  /\ pc[p] = "idle"
  /\ todo' = [todo EXCEPT ![p] = {h \in Hook : file[h] = "ready"}]
  /\ Goto(p, "drain")
  /\ UNCHANGED <<local, locked, store, crashes, file>>

PassDone(p) ==
  /\ pc[p] = "drain"
  /\ todo[p] = {}
  /\ Goto(p, "idle")
  /\ UNCHANGED <<local, locked, store, crashes, file, todo>>

(* Mutant: the listing is not sorted. *)
IsNextUnsorted(p, h) == h \in todo[p]

(* The entry the loop is at: the listing is sorted by name. *)
IsNext(p, h) == h \in todo[p] /\ \A g \in todo[p] : h <= g

(***************************************************************************)
(* The loop reads its next entry.  A file another daemon has dealt with    *)
(* since the listing is skipped: neither the read nor the rename of the    *)
(* error path finds it.  A malformed request throws; any other is ingested.*)
(***************************************************************************)
SkipEntry(p) ==
  /\ pc[p] = "drain"
  /\ \E h \in todo[p] :
       /\ IsNext(p, h)
       /\ file[h] # "ready"
       /\ todo' = [todo EXCEPT ![p] = @ \ {h}]
  /\ UNCHANGED <<ingestVars, file>>

RefuseEntry(p) ==
  /\ pc[p] = "drain"
  /\ \E h \in todo[p] \cap Malformed :
       /\ IsNext(p, h)
       /\ file[h] = "ready"
       /\ hook' = [hook EXCEPT ![p] = h]
  /\ Goto(p, "threw")
  /\ UNCHANGED <<attempts, lid, known, locked, store, crashes, file, todo>>

ReadEntry(p) ==
  /\ pc[p] = "drain"
  /\ \E h \in todo[p] \ Malformed :
       /\ IsNext(p, h)
       /\ file[h] = "ready"
       /\ Enter(p, h)
  /\ UNCHANGED <<file, todo>>

(* On to the next entry of the pass. *)
NextEntry(p) ==
  /\ todo' = [todo EXCEPT ![p] = @ \ {hook[p]}]
  /\ Goto(p, "drain")
  /\ ForgetCall(p)
  /\ UNCHANGED <<locked, store, crashes>>

(* Mutant: an entry that failed is deleted as well. *)
DeleteAlways(p) ==
  /\ pc[p] \in {"returned", "threw"}
  /\ file' = IF file[hook[p]] = "ready" THEN [file EXCEPT ![hook[p]] = "deleted"]
                                        ELSE file
  /\ NextEntry(p)

(***************************************************************************)
(* After the ingestion the entry is deleted, unless another daemon moved   *)
(* or deleted it: that unlink fails, and so does the rename that follows.  *)
(***************************************************************************)
DeleteEntry(p) ==
  /\ pc[p] = "returned"
  /\ file' = IF file[hook[p]] = "ready" THEN [file EXCEPT ![hook[p]] = "deleted"]
                                        ELSE file
  /\ NextEntry(p)

DeleteFails(p) ==
  /\ pc[p] = "returned"
  /\ "unlink" \in IOErrors
  /\ Goto(p, "threw")
  /\ UNCHANGED <<local, locked, store, crashes, file, todo>>

(* Mutant: the entry is set aside even if another daemon has deleted it. *)
MoveAsideAnyway(p) ==
  /\ pc[p] = "threw"
  /\ file' = [file EXCEPT ![hook[p]] = "failed"]
  /\ NextEntry(p)

(***************************************************************************)
(* The error path: the entry is renamed if it is still there.  An error of *)
(* the rename is ignored, and the entry stays for the next pass.           *)
(***************************************************************************)
MoveAside(p) ==
  /\ pc[p] = "threw"
  /\ \/ file' = IF file[hook[p]] = "ready" THEN [file EXCEPT ![hook[p]] = "failed"]
                                           ELSE file
     \/ "rename" \in IOErrors /\ UNCHANGED file
  /\ NextEntry(p)

Ingest(p) == IngestStep(p) /\ UNCHANGED <<file, todo>>

(* The pass dies with its process. *)
Crash(p) ==
  /\ Die(p)
  /\ todo' = [todo EXCEPT ![p] = {}]
  /\ UNCHANGED file

DrainStep(p) ==
  \/ ListEntries(p) \/ PassDone(p)
  \/ SkipEntry(p) \/ RefuseEntry(p) \/ ReadEntry(p)
  \/ Ingest(p)
  \/ DeleteEntry(p) \/ DeleteFails(p) \/ MoveAside(p)

Next ==
  \/ \E h \in Hook : WriteTemporary(h) \/ Publish(h) \/ CommandFails(h)
  \/ \E p \in Process : StartSpool(p) \/ DrainStep(p) \/ Crash(p)

Spec == Init /\ [][Next]_vars

(***************************************************************************)
(* A live daemon goes on with its work: its timer ticks and its awaited    *)
(* calls return.  Nothing is assumed of hook commands, and a dead daemon   *)
(* need not come back (only another hook command starts one).              *)
(***************************************************************************)
FairSpec == Spec /\ \A p \in Process : WF_vars(DrainStep(p))
----------------------------------------------------------------------------
(* Hook h is among the first k events of local session n. *)
RecordedIn(h, n, k) == \E i \in 1..k : i <= Len(events[n]) /\ events[n][i].hook = h

Recorded(h) == \E n \in LocalId : RecordedIn(h, n, Len(events[n]))

(* Hook h is in evidence that a checkpoint covers. *)
Delivered(h) == \E n \in LocalId : RecordedIn(h, n, ckpt[n])

TypeOK ==
  /\ IngestTypeOK
  /\ file \in [Hook -> FileState]
  /\ todo \in [Process -> SUBSET Hook]

(***************************************************************************)
(* No accepted hook is lost: its entry leaves the spool by deletion only   *)
(* once the event is recorded and a checkpoint covers it, whichever daemon *)
(* deletes it and whatever died before.                                    *)
(***************************************************************************)
DeletedOnlyIfDelivered == \A h \in Hook : file[h] = "deleted" => Delivered(h)

(***************************************************************************)
(* The evidence keeps the agent's order: a hook run after another one is   *)
(* recorded only if that other one was recorded before it, or was set      *)
(* aside, or was never handed over, however many daemons drain.  It        *)
(* needs renames that do not fail: an entry that can be neither ingested   *)
(* nor moved waits for a later pass while its successors go ahead.         *)
(***************************************************************************)
AgentOrder ==
  "rename" \notin IOErrors =>
    \A pair \in Precedes :
      Recorded(pair[2]) => Recorded(pair[1]) \/ file[pair[1]] \in {"failed", "lost"}

(***************************************************************************)
(* One daemon that never dies meets no contention for the session locks:   *)
(* it sets aside only requests that are not valid, and no failing read of  *)
(* a mapping or renaming of an entry makes it give up another.             *)
(***************************************************************************)
LoneDaemonGivesUpOnInvalid ==
  (\A p, q \in Process : p = q) /\ crashes = 0 /\ IOErrors \subseteq {"read", "rename"} =>
    \A h \in Hook : file[h] = "failed" => h \in Malformed

(***************************************************************************)
(* Every accepted hook leaves the spool, into the evidence or set aside,   *)
(* as long as some daemon stays up, even behind a lock a dead one left.    *)
(***************************************************************************)
SpoolDrains ==
  (\E p \in Process : <>[](pc[p] # "down")) =>
    \A h \in Hook : file[h] = "ready" ~> file[h] # "ready"

(***************************************************************************)
(* Why DeletedOnlyIfDelivered holds: the event a process has just recorded *)
(* is the last one of its session, and a hook whose ingestion is past its  *)
(* checkpoint is delivered before its entry may go.  Checked together with *)
(* the invariants of the ingestion that it rests on.                       *)
(***************************************************************************)
RecordedInHand ==
  \A p \in Process :
    /\ pc[p] \in {"index", "checkpoint"} =>
         known[p] > 0 /\ events[lid[p]][known[p]].hook = hook[p]
    /\ pc[p] \in {"unlock", "returned"} => Delivered(hook[p])

(* Only hooks that were handed over are recorded. *)
RecordedAreAccepted == \A h \in Hook : Recorded(h) => file[h] \in Accepted

(* Why AgentOrder holds: a pass works on the first entry it has left, and  *)
(* every entry that comes before a listed one is listed too or settled.    *)
Settled == {"lost", "failed", "deleted"}

InTurn ==
  \A p \in Process :
    pc[p] \in Critical \cup {"lock", "returned", "threw"} => IsNext(p, hook[p])

ListedInOrder ==
  /\ \A p \in Process : \A h \in todo[p] : file[h] \in Accepted
  /\ "rename" \notin IOErrors =>
       \A pair \in Precedes :
         /\ file[pair[2]] \in Accepted \cup {"tmp"} => file[pair[1]] \in Ended
         /\ \A p \in Process : pair[2] \in todo[p] =>
              pair[1] \in todo[p] \/ file[pair[1]] \in Settled

IInv ==
  /\ IngestInv
  /\ RecordedInHand /\ DeletedOnlyIfDelivered
  /\ RecordedAreAccepted /\ InTurn /\ ListedInOrder /\ AgentOrder

----------------------------------------------------------------------------
(***************************************************************************)
(* The pipeline as HookDelivery sees it: a spool entry is pending, deleted *)
(* ones are retired, and what a checkpoint covers is delivered.            *)
(***************************************************************************)
StatusOf(h) ==
  CASE file[h] = "ready" -> "pending"
    [] file[h] = "deleted" -> "retired"
    [] file[h] = "failed" -> "aside"
    [] OTHER -> "unsent"

Delivery == INSTANCE HookDelivery WITH
  status <- [h \in Hook |-> StatusOf(h)],
  delivered <- {h \in Hook : Delivered(h)}

(* The pipeline does what HookDelivery promises, whatever dies or fails.   *)
ImplementsDelivery == Delivery!Spec
=============================================================================
