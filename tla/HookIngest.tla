----------------------------- MODULE HookIngest -----------------------------
(***************************************************************************)
(* Ingestion of one agent hook into the local evidence store:              *)
(* ingestLocalHook and its per-session lock                                *)
(* (packages/local/src/hookAdapter.ts).                                    *)
(*                                                                         *)
(* A process that ingests a hook takes a lock directory next to the        *)
(* mapping file of the hook's provider session, reads from the mapping     *)
(* which local session collects the events of that provider session        *)
(* (starting one and writing the mapping for the first event), records the *)
(* event, appends to the search index, checkpoints and removes the lock.   *)
(* Each action below is one awaited call of that handler, so processes     *)
(* interleave, fail and die between any two of them.                       *)
(***************************************************************************)
EXTENDS Naturals, Sequences, FiniteSets

CONSTANTS
  Process,      \* the processes that ingest hooks (daemons, in the program)
  Hook,         \* the hooks that are ever ingested
  Input,        \* Input[h]: the fields of hook h that decide its session
  Provider,     \* the agents hooks come from
  LocalId,      \* the ids LocalSession.start can draw
  None,         \* no session id, no mapping file, no hook or session in hand
  Torn,         \* a mapping file truncated but not yet written
  MaxAttempts,  \* tries to take the lock before giving up (100 in the code)
  MaxCrash,     \* bound: how many times a process dies
  IOErrors      \* the calls that may fail

(***************************************************************************)
(* The calls whose failure the code has a path for: "read" is the mapping  *)
(* file, "map" LocalSession.resume, "truncate" and "bind" the two halves   *)
(* of writing the mapping, "rmdir" the removal of the lock; "unlink" and   *)
(* "rename" belong to the spool (HookSpool).                               *)
(***************************************************************************)
Fallible == {"read", "map", "start", "truncate", "bind", "record", "index",
             "checkpoint", "rmdir", "unlink", "rename"}

ASSUME HookAssumption ==
  Input \in [Hook -> [provider : Provider, session : STRING \cup {None}, cwd : STRING]]
ASSUME NoneAssumption ==
  None \notin Hook /\ None \notin LocalId /\ Torn \notin LocalId
ASSUME BoundAssumption == MaxAttempts \in Nat \ {0} /\ MaxCrash \in Nat
ASSUME ErrorAssumption == IOErrors \subseteq Fallible

VARIABLES
  pc,        \* pc[p]: the call process p makes next
  hook,      \* hook[p]: the hook p is ingesting
  attempts,  \* attempts[p]: failed tries of p to take the lock
  lid,       \* lid[p]: the local session p has in hand
  known,     \* known[p]: how many events that session object knows of
  locked,    \* locked[m]: the lock directory of mapping m exists
  mapping,   \* mapping[m]: content of mapping file m
  opened,    \* the local sessions that were started
  events,    \* events[n]: the hook events recorded in local session n
  index,     \* index[n]: the positions of n's events in its search index
  ckpt,      \* ckpt[n]: how many of n's events its last checkpoint covers
  crashes    \* number of process deaths so far

local == <<hook, attempts, lid, known>>
store == <<mapping, opened, events, index, ckpt>>
ingestVars == <<pc, local, locked, store, crashes>>
----------------------------------------------------------------------------
(***************************************************************************)
(* The provider session of a hook: its session_id, or else the provider    *)
(* with the working directory.  The mapping id is a digest of the pair of  *)
(* provider and provider session.                                          *)
(***************************************************************************)
ProviderSession(h) ==
  IF Input[h].session # None THEN <<Input[h].session>>
                             ELSE <<Input[h].provider, Input[h].cwd>>

MappingId(h) == <<Input[h].provider, ProviderSession(h)>>

Mapping == {MappingId(h) : h \in Hook}

(* A recorded event and the number of events its session object knew of.   *)
Event == [hook : Hook, parent : Nat]

(* The calls made with the lock held. *)
Critical == {"map", "start", "truncate", "bind", "record", "index",
             "checkpoint", "unlock"}

(* "idle" and "drain" are outside of ingestLocalHook; a "down" process is dead. *)
PC == Critical \cup {"down", "idle", "drain", "lock", "returned", "threw"}

Goto(p, label) == pc' = [pc EXCEPT ![p] = label]

IngestInit ==
  /\ hook = [p \in Process |-> None]
  /\ attempts = [p \in Process |-> 0]
  /\ lid = [p \in Process |-> None]
  /\ known = [p \in Process |-> 0]
  /\ locked = [m \in Mapping |-> FALSE]
  /\ mapping = [m \in Mapping |-> None]
  /\ opened = {}
  /\ events = [n \in LocalId |-> <<>>]
  /\ index = [n \in LocalId |-> {}]
  /\ ckpt = [n \in LocalId |-> 0]
  /\ crashes = 0
----------------------------------------------------------------------------
(***************************************************************************)
(* The call of ingestLocalHook goes for the lock.  (It throws first if the *)
(* provider has no adapter; its only caller refuses such a hook itself.)   *)
(***************************************************************************)
Enter(p, h) ==
  /\ hook' = [hook EXCEPT ![p] = h]
  /\ Goto(p, "lock")
  /\ UNCHANGED <<attempts, lid, known, locked, store, crashes>>

(* Mutant: mkdir with the recursive option, which never reports EEXIST. *)
TakeLockRecursive(p) ==
  /\ pc[p] = "lock"
  /\ locked' = [locked EXCEPT ![MappingId(hook[p])] = TRUE]
  /\ Goto(p, "map")
  /\ UNCHANGED <<local, store, crashes>>

(* Mutant: the tries are not counted. *)
LockBusyForever(p) ==
  /\ pc[p] = "lock"
  /\ locked[MappingId(hook[p])]
  /\ UNCHANGED ingestVars

(***************************************************************************)
(* withLock: mkdir succeeds for one process.  The others try again, up to  *)
(* MaxAttempts times in all, and then throw.  The lock records no owner.   *)
(***************************************************************************)
TakeLock(p) ==
  LET m == MappingId(hook[p]) IN
    /\ pc[p] = "lock"
    /\ ~locked[m]
    /\ locked' = [locked EXCEPT ![m] = TRUE]
    /\ Goto(p, "map")
    /\ UNCHANGED <<local, store, crashes>>

LockBusy(p) ==
  /\ pc[p] = "lock"
  /\ locked[MappingId(hook[p])]
  /\ attempts' = [attempts EXCEPT ![p] = @ + 1]
  /\ Goto(p, IF attempts[p] + 1 < MaxAttempts THEN "lock" ELSE "threw")
  /\ UNCHANGED <<hook, lid, known, locked, store, crashes>>

(***************************************************************************)
(* Reading the mapping: a mapping that parses names the session to resume. *)
(* Whatever else the read meets, a missing or torn file or an error, it    *)
(* takes for the first event of the provider session.                      *)
(***************************************************************************)
Resume(p) ==
  LET n == mapping[MappingId(hook[p])] IN
    /\ pc[p] = "map"
    /\ n \in LocalId
    /\ lid' = [lid EXCEPT ![p] = n]
    /\ known' = [known EXCEPT ![p] = Len(events[n])]
    /\ Goto(p, "record")
    /\ UNCHANGED <<hook, attempts, locked, store, crashes>>

NoMapping(p) ==
  /\ pc[p] = "map"
  /\ mapping[MappingId(hook[p])] \notin LocalId \/ "read" \in IOErrors
  /\ Goto(p, "start")
  /\ UNCHANGED <<local, locked, store, crashes>>

(* Mutant: the mapping is never written. *)
StartUnmapped(p) ==
  /\ pc[p] = "start"
  /\ \E n \in LocalId \ opened :
       /\ opened' = opened \cup {n}
       /\ lid' = [lid EXCEPT ![p] = n]
  /\ known' = [known EXCEPT ![p] = 0]
  /\ Goto(p, "record")
  /\ UNCHANGED <<hook, attempts, locked, mapping, events, index, ckpt, crashes>>

(* LocalSession.start: a session under a fresh id. *)
Start(p) ==
  /\ pc[p] = "start"
  /\ \E n \in LocalId \ opened :
       /\ opened' = opened \cup {n}
       /\ lid' = [lid EXCEPT ![p] = n]
  /\ known' = [known EXCEPT ![p] = 0]
  /\ Goto(p, "truncate")
  /\ UNCHANGED <<hook, attempts, locked, mapping, events, index, ckpt, crashes>>

(***************************************************************************)
(* writeFile of the mapping is not atomic: the file is truncated first.    *)
(***************************************************************************)
TruncateMapping(p) ==
  /\ pc[p] = "truncate"
  /\ mapping' = [mapping EXCEPT ![MappingId(hook[p])] = Torn]
  /\ Goto(p, "bind")
  /\ UNCHANGED <<local, locked, opened, events, index, ckpt, crashes>>

BindMapping(p) ==
  /\ pc[p] = "bind"
  /\ mapping' = [mapping EXCEPT ![MappingId(hook[p])] = lid[p]]
  /\ Goto(p, "record")
  /\ UNCHANGED <<local, locked, opened, events, index, ckpt, crashes>>

(* Mutant: the parent's position is off by one. *)
RecordOffByOne(p) ==
  /\ pc[p] = "record"
  /\ events' = [events EXCEPT ![lid[p]] =
                  Append(@, [hook |-> hook[p], parent |-> known[p] - 1])]
  /\ known' = [known EXCEPT ![p] = @ + 1]
  /\ Goto(p, "index")
  /\ UNCHANGED <<hook, attempts, lid, locked, mapping, opened, index, ckpt, crashes>>

(* session.record: the event is chained to the last one the object knows of. *)
Record(p) ==
  /\ pc[p] = "record"
  /\ events' = [events EXCEPT ![lid[p]] =
                  Append(@, [hook |-> hook[p], parent |-> known[p]])]
  /\ known' = [known EXCEPT ![p] = @ + 1]
  /\ Goto(p, "index")
  /\ UNCHANGED <<hook, attempts, lid, locked, mapping, opened, index, ckpt, crashes>>

(***************************************************************************)
(* The search index takes the new event; a failure here is swallowed.      *)
(***************************************************************************)
AppendIndex(p) ==
  /\ pc[p] = "index"
  /\ \/ index' = [index EXCEPT ![lid[p]] = @ \cup {known[p]}]
     \/ "index" \in IOErrors /\ UNCHANGED index
  /\ Goto(p, "checkpoint")
  /\ UNCHANGED <<local, locked, mapping, opened, events, ckpt, crashes>>

(* session.checkpoint("partial") covers the events the object knows of. *)
Checkpoint(p) ==
  /\ pc[p] = "checkpoint"
  /\ ckpt' = [ckpt EXCEPT ![lid[p]] = known[p]]
  /\ Goto(p, "unlock")
  /\ UNCHANGED <<local, locked, mapping, opened, events, index, crashes>>

(* Mutant: the lock is not removed after a success. *)
UnlockNothing(p) ==
  /\ pc[p] = "unlock"
  /\ Goto(p, "returned")
  /\ UNCHANGED <<local, locked, store, crashes>>

(***************************************************************************)
(* The finally block removes the lock and ignores an error of the removal. *)
(***************************************************************************)
ReleaseLock(p) ==
  \/ locked' = [locked EXCEPT ![MappingId(hook[p])] = FALSE]
  \/ "rmdir" \in IOErrors /\ UNCHANGED locked

Unlock(p) ==
  /\ pc[p] = "unlock"
  /\ ReleaseLock(p)
  /\ Goto(p, "returned")
  /\ UNCHANGED <<local, store, crashes>>

(* Mutant: the lock is not removed after an error. *)
FailLocked(p) ==
  /\ pc[p] \in (Critical \ {"index"}) \cap IOErrors
  /\ Goto(p, "threw")
  /\ UNCHANGED <<local, locked, store, crashes>>

(***************************************************************************)
(* A call made with the lock held fails, other than the index's: the error *)
(* leaves through the finally block.  A mapping whose second half failed   *)
(* stays torn.                                                             *)
(***************************************************************************)
Fail(p) ==
  /\ pc[p] \in (Critical \ {"index"}) \cap IOErrors
  /\ ReleaseLock(p)
  /\ Goto(p, "threw")
  /\ UNCHANGED <<local, store, crashes>>

IngestStep(p) ==
  \/ TakeLock(p) \/ LockBusy(p)
  \/ Resume(p) \/ NoMapping(p)
  \/ Start(p) \/ TruncateMapping(p) \/ BindMapping(p)
  \/ Record(p) \/ AppendIndex(p) \/ Checkpoint(p)
  \/ Unlock(p) \/ Fail(p)
----------------------------------------------------------------------------
(***************************************************************************)
(* What the caller does: it leaves the call, and it may die anywhere (a    *)
(* kill, or the process.exit of a daemon stopped while it ingests), which  *)
(* drops what it had in hand and leaves the files, the lock included, as   *)
(* they are.  ForgetCall clears the locals of the call.                    *)
(***************************************************************************)
ForgetCall(p) ==
  /\ hook' = [hook EXCEPT ![p] = None]
  /\ attempts' = [attempts EXCEPT ![p] = 0]
  /\ lid' = [lid EXCEPT ![p] = None]
  /\ known' = [known EXCEPT ![p] = 0]

Die(p) ==
  /\ pc[p] # "down"
  /\ crashes < MaxCrash
  /\ crashes' = crashes + 1
  /\ Goto(p, "down")
  /\ ForgetCall(p)
  /\ UNCHANGED <<locked, store>>
----------------------------------------------------------------------------
IngestTypeOK ==
  /\ pc \in [Process -> PC]
  /\ hook \in [Process -> Hook \cup {None}]
  /\ attempts \in [Process -> Nat]
  /\ lid \in [Process -> LocalId \cup {None}]
  /\ known \in [Process -> Nat]
  /\ locked \in [Mapping -> BOOLEAN]
  /\ mapping \in [Mapping -> LocalId \cup {None, Torn}]
  /\ opened \in SUBSET LocalId
  /\ events \in [LocalId -> Seq(Event)]
  /\ index \in [LocalId -> SUBSET Nat]
  /\ ckpt \in [LocalId -> Nat]
  /\ crashes \in Nat

(* Process p is inside the lock of its hook's mapping. *)
Holds(p, m) == pc[p] \in Critical /\ MappingId(hook[p]) = m

(***************************************************************************)
(* The lock excludes: two live processes are never inside ingestLocalHook's*)
(* critical section for the same provider session, whoever died before.    *)
(***************************************************************************)
MutualExclusion ==
  \A p, q \in Process, m \in Mapping : Holds(p, m) /\ Holds(q, m) => p = q

(***************************************************************************)
(* The event chain of a local session is linear: every event was recorded  *)
(* by a session object that knew of exactly the events before it, although *)
(* each hook resumes the session in a process of its own choosing.         *)
(***************************************************************************)
LinearChain ==
  \A n \in LocalId : \A i \in 1..Len(events[n]) : events[n][i].parent = i - 1

(***************************************************************************)
(* All events of one provider session are in one local session, and no     *)
(* local session mixes two provider sessions, whatever crashed between     *)
(* starting the session and writing its mapping.  It needs mapping reads   *)
(* that do not fail: the handler takes a failed read for a first event.    *)
(***************************************************************************)
OneSessionPerMapping ==
  "read" \notin IOErrors =>
    \A n1, n2 \in LocalId :
      \A i \in 1..Len(events[n1]), j \in 1..Len(events[n2]) :
        MappingId(events[n1][i].hook) = MappingId(events[n2][j].hook) <=> n1 = n2

(***************************************************************************)
(* A lock directory without a live process behind it comes only from a     *)
(* death inside the critical section or from a removal that failed: every  *)
(* path through the handler, the failing ones too, gives the lock back.    *)
(***************************************************************************)
LockHasHolder ==
  crashes = 0 /\ "rmdir" \notin IOErrors =>
    \A m \in Mapping : locked[m] => \E p \in Process : Holds(p, m)

----------------------------------------------------------------------------
(***************************************************************************)
(* The inductive strengthening of the invariants above.  Its conjuncts say *)
(* what a process in the handler knows: HasSession are the calls made with *)
(* a local session in hand, Bound those made once the mapping names it.    *)
(***************************************************************************)
HasSession == {"truncate", "bind", "record", "index", "checkpoint", "unlock"}
Bound == {"record", "index", "checkpoint", "unlock"}

(* A process in the handler has a hook in hand, and a session if it needs one. *)
InHand ==
  \A p \in Process :
    /\ pc[p] \in Critical \cup {"lock", "returned", "threw"} => hook[p] \in Hook
    /\ pc[p] \in HasSession => lid[p] \in opened

HolderLocked == \A p \in Process : pc[p] \in Critical => locked[MappingId(hook[p])]

(* No two mappings name one session, and a session not yet bound has no name. *)
MappingsNameSessions ==
  /\ \A m \in Mapping : mapping[m] \in LocalId => mapping[m] \in opened
  /\ \A m1, m2 \in Mapping :
       mapping[m1] \in LocalId /\ mapping[m1] = mapping[m2] => m1 = m2
  /\ \A p \in Process, m \in Mapping :
       pc[p] \in {"truncate", "bind"} => mapping[m] # lid[p]
  /\ \A p \in Process : pc[p] \in Bound => mapping[MappingId(hook[p])] = lid[p]

(* Processes with a session in hand have different ones. *)
SessionsExclusive ==
  \A p, q \in Process :
    pc[p] \in HasSession /\ pc[q] \in HasSession /\ lid[p] = lid[q] => p = q

(* The session object in hand knows all events of its session. *)
KnowsAll ==
  /\ \A p \in Process :
       pc[p] \in HasSession => known[p] = Len(events[lid[p]])
  /\ \A n \in LocalId : n \notin opened => events[n] = <<>>

(* Without failing reads, all events of a mapping are in the session it names. *)
EventsInMapped ==
  "read" \notin IOErrors =>
    /\ \A p \in Process :
         pc[p] \in {"start", "truncate", "bind"} =>
           mapping[MappingId(hook[p])] \notin LocalId
    /\ \A n \in LocalId : \A i \in 1..Len(events[n]) :
         mapping[MappingId(events[n][i].hook)] = n

CheckpointsRecorded == \A n \in LocalId : ckpt[n] <= Len(events[n])

IngestInv ==
  /\ InHand /\ HolderLocked /\ MutualExclusion
  /\ MappingsNameSessions /\ SessionsExclusive
  /\ KnowsAll /\ EventsInMapped /\ LinearChain /\ CheckpointsRecorded
=============================================================================
