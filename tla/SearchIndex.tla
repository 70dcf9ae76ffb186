----------------------------- MODULE SearchIndex -----------------------------
(***************************************************************************)
(* "memora local search" over the encrypted index files: cmdLocalSearch    *)
(* (packages/cli/src/cli.ts) and SearchIndexStore with                     *)
(* ensureSearchIndexUpToDate (packages/local/src/searchIndex.ts), against  *)
(* the daemon that appends an entry for each hook it ingests and the runs  *)
(* that record events without.  No lock is shared by the two sides: a file *)
(* is read, and replaced later by a rename.                                *)
(***************************************************************************)
EXTENDS Naturals, Sequences, SequencesExt, FiniteSetsExt

CONSTANTS
  Session,     \* the local sessions
  MaxEvents,   \* bounds the events; an event is the number it is recorded as
  Matches,     \* the events whose text contains the query
  Search,      \* the runs of the search command
  Limit,       \* the most results a search reports (--limit)
  MaxFaults,   \* bounds how often an index file is damaged or removed
  Unreadable,  \* an index file that is missing, or does not decrypt or parse
  None         \* no append under way, no session in hand

ASSUME SearchAssumption == MaxEvents \in Nat /\ Limit \in Nat /\ MaxFaults \in Nat

Event == 1..MaxEvents

VARIABLES
  events,   \* events[s]: the events of session s, as recorded
  index,    \* index[s]: the ids in the index file of s, or Unreadable
  append,   \* append[s]: the append that the holder of s's lock is in
  pc,       \* pc[q]: what search q awaits next, or how it ended
  todo,     \* todo[q]: the listed sessions q has not come to
  hand,     \* hand[q]: the session q is at, its events and its new index
  results,  \* results[q]: what q reports
  skipped,  \* skipped[q]: the events whose payload q could not read
  before,   \* before[q]: the events recorded before q began
  faults    \* index files damaged so far

evidence == <<events, append>>
search == <<pc, todo, hand, results, skipped, before>>
vars == <<evidence, index, search, faults>>

(* The elements of seq that are in S, in the order they have there. *)
Among(seq, S) ==
  LET kept[n \in 0..Len(seq)] ==
        IF n = 0 THEN <<>>
        ELSE IF seq[n] \in S THEN Append(kept[n - 1], seq[n]) ELSE kept[n - 1]
  IN kept[Len(seq)]

Recorded == UNION {Range(events[s]) : s \in Session}
NewEvent == Cardinality(Recorded) + 1

Init ==
  /\ events = [s \in Session |-> <<>>]
  /\ index = [s \in Session |-> Unreadable]
  /\ append = [s \in Session |-> None]
  /\ pc = [q \in Search |-> "new"]
  /\ todo = [q \in Search |-> {}]
  /\ hand = [q \in Search |-> None]
  /\ results = [q \in Search |-> <<>>]
  /\ skipped = [q \in Search |-> {}]
  /\ before = [q \in Search |-> {}]
  /\ faults = 0
----------------------------------------------------------------------------
(***************************************************************************)
(* SearchIndexStore.read: a file that cannot be read is an empty index.    *)
(***************************************************************************)
Read(s) == IF index[s] = Unreadable THEN <<>> ELSE index[s]

(***************************************************************************)
(* An event is recorded by a hook, whose ingestion goes on to append it    *)
(* and holds the session's lock meanwhile, or by a run, which does not.    *)
(***************************************************************************)
RecordHook(s) ==
  /\ append[s] = None
  /\ NewEvent \in Event
  /\ events' = [events EXCEPT ![s] = Append(@, NewEvent)]
  /\ append' = [append EXCEPT ![s] = [event |-> NewEvent, entries |-> None]]
  /\ UNCHANGED <<index, search, faults>>

RecordRun(s) ==
  /\ NewEvent \in Event
  /\ events' = [events EXCEPT ![s] = Append(@, NewEvent)]
  /\ UNCHANGED <<append, index, search, faults>>

(* Mutant: the append does not look whether the entry is there already. *)
ReadForAppendUnchecked(s) ==
  /\ append[s] # None
  /\ append[s].entries = None
  /\ append' = [append EXCEPT ![s].entries = Append(Read(s), append[s].event)]
  /\ UNCHANGED <<events, index, search, faults>>

(* SearchIndexStore.append: an entry that is there already is left alone. *)
ReadForAppend(s) ==
  /\ append[s] # None
  /\ append[s].entries = None
  /\ append' = [append EXCEPT ![s] =
       IF Contains(Read(s), append[s].event) THEN None
       ELSE [@ EXCEPT !.entries = Append(Read(s), append[s].event)]]
  /\ UNCHANGED <<events, index, search, faults>>

WriteAppend(s) ==
  /\ append[s] # None
  /\ append[s].entries # None
  /\ index' = [index EXCEPT ![s] = append[s].entries]
  /\ append' = [append EXCEPT ![s] = None]
  /\ UNCHANGED <<events, search, faults>>

(* A failing append is swallowed; a daemon that dies in it is no different. *)
AppendFails(s) ==
  /\ append[s] # None
  /\ append' = [append EXCEPT ![s] = None]
  /\ UNCHANGED <<events, index, search, faults>>

(* The user, or the disk, damages or removes an index file. *)
Damage(s) ==
  /\ faults < MaxFaults
  /\ index[s] # Unreadable
  /\ index' = [index EXCEPT ![s] = Unreadable]
  /\ faults' = faults + 1
  /\ UNCHANGED <<evidence, search>>
----------------------------------------------------------------------------
(* listSessions: a session has a manifest once its first event is recorded. *)
BeginSearch(q) ==
  /\ pc[q] = "new"
  /\ pc' = [pc EXCEPT ![q] = "next"]
  /\ todo' = [todo EXCEPT ![q] = {s \in Session : events[s] # <<>>}]
  /\ before' = [before EXCEPT ![q] = Recorded]
  /\ UNCHANGED <<evidence, index, hand, results, skipped, faults>>

(* The loop over the sessions ends when none is left or the limit is met. *)
ReadEvents(q) ==
  /\ pc[q] = "next"
  /\ Len(results[q]) < Limit
  /\ \E s \in todo[q] :
       /\ hand' = [hand EXCEPT ![q] = [session |-> s, events |-> events[s], entries |-> <<>>]]
       /\ todo' = [todo EXCEPT ![q] = @ \ {s}]
  /\ pc' = [pc EXCEPT ![q] = "index"]
  /\ UNCHANGED <<evidence, index, results, skipped, before, faults>>

EndSearch(q) ==
  /\ pc[q] = "next"
  /\ todo[q] = {} \/ Len(results[q]) >= Limit
  /\ pc' = [pc EXCEPT ![q] = "reported"]
  /\ todo' = [todo EXCEPT ![q] = {}]
  /\ UNCHANGED <<evidence, index, hand, results, skipped, before, faults>>

(***************************************************************************)
(* Mutant: the index is taken to be up to date when it has as many entries *)
(* as there are events, as the design document sketches it.                *)
(***************************************************************************)
MissingByCount(evs, entries) ==
  IF Len(entries) >= Len(evs) THEN <<>>
  ELSE Among(evs, Range(evs) \ Range(entries))

(* The events, in their order, that have no entry. *)
Missing(evs, entries) == Among(evs, Range(evs) \ Range(entries))

(* The results so far, with the matching entries of one more session. *)
Collected(sofar, entries) ==
  LET hits == sofar \o Among(entries, Matches)
  IN SubSeq(hits, 1, IF Len(hits) < Limit THEN Len(hits) ELSE Limit)

(***************************************************************************)
(* ensureSearchIndexUpToDate: the index is read, and is used as it is when *)
(* no event is missing.                                                    *)
(***************************************************************************)
UseIndex(q) ==
  LET s == hand[q].session IN
  /\ pc[q] = "index"
  /\ Missing(hand[q].events, Read(s)) = <<>>
  /\ results' = [results EXCEPT ![q] = Collected(@, Read(s))]
  /\ hand' = [hand EXCEPT ![q] = None]
  /\ pc' = [pc EXCEPT ![q] = "next"]
  /\ UNCHANGED <<evidence, index, todo, skipped, before, faults>>

(* Otherwise the missing ones are decrypted; what cannot be is skipped. *)
Backfill(q) ==
  LET s == hand[q].session
      missing == Missing(hand[q].events, Read(s))
  IN
  /\ pc[q] = "index"
  /\ missing # <<>>
  /\ \E bad \in SUBSET Range(missing) :
       /\ hand' = [hand EXCEPT ![q].entries =
            Read(s) \o Among(missing, Range(missing) \ bad)]
       /\ skipped' = [skipped EXCEPT ![q] = @ \cup bad]
  /\ pc' = [pc EXCEPT ![q] = "write"]
  /\ UNCHANGED <<evidence, index, todo, results, before, faults>>

(* Mutant: only what was missing is written. *)
WriteIndexAnew(q) ==
  LET s == hand[q].session IN
  /\ pc[q] = "write"
  /\ index' = [index EXCEPT ![s] = Missing(hand[q].entries, Read(s))]
  /\ results' = [results EXCEPT ![q] = Collected(@, hand[q].entries)]
  /\ hand' = [hand EXCEPT ![q] = None]
  /\ pc' = [pc EXCEPT ![q] = "next"]
  /\ UNCHANGED <<evidence, todo, skipped, before, faults>>

WriteIndex(q) ==
  LET s == hand[q].session IN
  /\ pc[q] = "write"
  /\ index' = [index EXCEPT ![s] = hand[q].entries]
  /\ results' = [results EXCEPT ![q] = Collected(@, hand[q].entries)]
  /\ hand' = [hand EXCEPT ![q] = None]
  /\ pc' = [pc EXCEPT ![q] = "next"]
  /\ UNCHANGED <<evidence, todo, skipped, before, faults>>

(***************************************************************************)
(* A listing, a reading of events or a writing that fails ends the command *)
(* before it has printed anything.                                         *)
(***************************************************************************)
SearchFails(q) ==
  /\ pc[q] \in {"next", "write"}
  /\ pc' = [pc EXCEPT ![q] = "failed"]
  /\ hand' = [hand EXCEPT ![q] = None]
  /\ todo' = [todo EXCEPT ![q] = {}]
  /\ results' = [results EXCEPT ![q] = <<>>]
  /\ skipped' = [skipped EXCEPT ![q] = {}]
  /\ before' = [before EXCEPT ![q] = {}]
  /\ UNCHANGED <<evidence, index, faults>>

SearchStep(q) == ReadEvents(q) \/ EndSearch(q) \/ UseIndex(q) \/ Backfill(q) \/ WriteIndex(q)

Next ==
  \/ \E s \in Session :
       \/ RecordHook(s) \/ RecordRun(s)
       \/ ReadForAppend(s) \/ WriteAppend(s) \/ AppendFails(s)
       \/ Damage(s)
  \/ \E q \in Search : BeginSearch(q) \/ SearchStep(q) \/ SearchFails(q)

Spec == Init /\ [][Next]_vars

(* A search that was begun goes on; nothing makes a user begin one. *)
FairSpec == Spec /\ \A q \in Search : WF_vars(SearchStep(q))
----------------------------------------------------------------------------
Entries == {entries \in Seq(Event) : IsInjective(entries)}

(* No index, on disk or in a writer's hands, has an event twice. *)
TypeOK ==
  /\ \A s \in Session : events[s] \in Entries
  /\ \A s \in Session : index[s] = Unreadable \/ index[s] \in Entries
  /\ \A s \in Session : append[s] # None =>
       append[s].event \in Event /\ append[s].entries \in Entries \cup {None}
  /\ pc \in [Search -> {"new", "next", "index", "write", "reported", "failed"}]
  /\ todo \in [Search -> SUBSET Session]
  /\ \A q \in Search : hand[q] # None =>
       hand[q].session \in Session /\ hand[q].events \in Entries /\ hand[q].entries \in Entries
  /\ \A q \in Search : results[q] \in Seq(Matches \cap Event)
  /\ skipped \in [Search -> SUBSET Event] /\ before \in [Search -> SUBSET Event]
  /\ faults \in 0..MaxFaults

(***************************************************************************)
(* Whatever the daemon or another search overwrites meanwhile, and however *)
(* the index files are damaged, a search that ends reports every matching  *)
(* event that was recorded before it began: cut off only at the limit, and *)
(* short only of payloads it could not read.                               *)
(***************************************************************************)
SearchIsComplete ==
  \A q \in Search : pc[q] = "reported" =>
    \/ Len(results[q]) = Limit
    \/ (before[q] \cap Matches) \ skipped[q] \subseteq Range(results[q])

(***************************************************************************)
(* No event is reported twice, and only what is recorded is reported:      *)
(* although the backfill and the append that it overtakes both bring the   *)
(* entry, and the append is checked against one reading only.              *)
(***************************************************************************)
ReportedOnce ==
  \A q \in Search :
    /\ IsInjective(results[q])
    /\ Range(results[q]) \subseteq Recorded
    /\ Len(results[q]) <= Limit

(***************************************************************************)
(* The index heals ("the self-healing mechanism", searchIndex.ts): a       *)
(* search under way when nothing else is any more, before it has come to a *)
(* session, leads to an index file with all of its events, unless the      *)
(* search fails, cannot read a payload, or stops at its limit.             *)
(***************************************************************************)
Complete(s) == index[s] # Unreadable /\ Range(events[s]) \subseteq Range(index[s])

Calm ==
  /\ Recorded = Event /\ faults = MaxFaults
  /\ \A s \in Session : append[s] = None

IndexHeals ==
  \A q \in Search, s \in Session :
    (pc[q] = "next" /\ s \in todo[q] /\ Calm) ~>
      \/ Complete(s)
      \/ \E other \in Search : pc[other] = "failed" \/ skipped[other] # {}
      \/ s \in todo[q] /\ Len(results[q]) >= Limit
=============================================================================
