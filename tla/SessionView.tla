---------------------------- MODULE SessionView ----------------------------
(***************************************************************************)
(* The session that the desktop shows, while agents go on recording: the   *)
(* renderer's selection, its refresh, and what it loads and reveals        *)
(* (apps/desktop/src/renderer/main.tsx, the handlers of                    *)
(* apps/desktop/src/main/main.ts).                                         *)
(*                                                                         *)
(* A call of a handler is begun, is answered from the store as it then is, *)
(* and the answer is taken up, each in its own time: calls overtake each   *)
(* other.  Only revealing excludes itself, its button is disabled.  An     *)
(* event is [session, n], an action of the timeline is a set of them.      *)
(***************************************************************************)
EXTENDS Naturals, SequencesExt

CONSTANTS
  MaxSessions, \* bounds the sessions that agents record
  MaxEvents,   \* bounds the events that they record
  MaxLists,    \* bounds the refreshes that are under way at once
  MaxLoads,    \* bounds the loads that are under way at once
  Nothing,     \* no call, no answer
  Sent         \* a call that is not answered yet

ASSUME SessionViewAssumption ==
  /\ {MaxSessions, MaxEvents, MaxLists, MaxLoads} \subseteq Nat
  /\ Nothing \notin [session : Nat, events : Nat \cup {Sent}, active : BOOLEAN]

VARIABLES
  stored,      \* stored[s]: how many events session s has; a later one has a greater number
  listing,     \* listing[l]: Nothing, Sent, or how many sessions there were
  sessions,    \* how many sessions the renderer knows: the first ones
  selected,    \* the selected session, or 0
  loads,       \* loads[l]: [session, events, active], or Nothing
  events,      \* the events shown, the first ones of a session: [session, count]
  picked,      \* the action that is selected
  details,     \* the events that are shown decrypted
  reveal,      \* the reveal under way, [session, ids, answer], or Nothing
  dataError,   \* "Local evidence unavailable"
  byItself     \* the selection or the details were changed by an answer that came late

pending == <<listing, loads, reveal>>
view == <<sessions, selected, events, picked, details, dataError, byItself>>
vvars == <<stored, pending, view>>
----------------------------------------------------------------------------
Session == 1..MaxSessions
Lists == 1..MaxLists
Loads == 1..MaxLoads

Shown(s, n) == [session |-> s, count |-> n]
IdsOf(evidence) == {[session |-> evidence.session, n |-> n] : n \in 1..evidence.count}

VInit ==
  /\ stored = <<>>
  /\ listing = [l \in Lists |-> Nothing] /\ loads = [l \in Loads |-> Nothing]
  /\ reveal = Nothing
  /\ sessions = 0 /\ selected = 0 /\ events = Shown(0, 0)
  /\ picked = {} /\ details = {} /\ dataError = FALSE
  /\ byItself = FALSE

FirstFree(slots, l) == slots[l] = Nothing /\ \A k \in 1..(l - 1) : slots[k] # Nothing

(* Agents record. *)
NewSession ==
  /\ Len(stored) < MaxSessions
  /\ stored' = Append(stored, 0)
  /\ UNCHANGED <<pending, view>>

NewEvent ==
  /\ FoldSeq(+, 0, stored) < MaxEvents
  /\ \E s \in DOMAIN stored : stored' = [stored EXCEPT ![s] = @ + 1]
  /\ UNCHANGED <<pending, view>>
----------------------------------------------------------------------------
(***************************************************************************)
(* The effect of a new list or another selection: what it had begun to     *)
(* load is no longer wanted, and the selected session is loaded.           *)
(***************************************************************************)
Unwanted == [l \in Loads |-> IF loads[l] = Nothing THEN Nothing ELSE [loads[l] EXCEPT !.active = FALSE]]

Load(s) ==
  IF s = 0 THEN loads' = Unwanted
  ELSE \E l \in Loads :
         /\ FirstFree(loads, l)
         /\ loads' = [Unwanted EXCEPT ![l] = [session |-> s, events |-> Sent, active |-> TRUE]]

(* Every two seconds, whether or not the one before was answered. *)
Refresh(l) ==
  /\ FirstFree(listing, l)
  /\ listing' = [listing EXCEPT ![l] = Sent]
  /\ UNCHANGED <<stored, loads, reveal, view>>

ListSessions(l) ==
  /\ listing[l] = Sent
  /\ listing' = [listing EXCEPT ![l] = Len(stored)]
  /\ UNCHANGED <<stored, loads, reveal, view>>

(* The selection stays, or falls on the newest session if it is not listed. *)
Kept(next) == IF selected \in 1..next THEN selected ELSE next

RefreshEnds(l) ==
  /\ listing[l] \notin {Nothing, Sent}
  /\ listing' = [listing EXCEPT ![l] = Nothing]
  /\ sessions' = listing[l]
  /\ selected' = Kept(listing[l])
  /\ dataError' = FALSE
  /\ Load(Kept(listing[l]))
  /\ IF listing[l] = 0
     THEN events' = Shown(0, 0) /\ picked' = {} /\ details' = {} /\ byItself' = FALSE
     ELSE /\ byItself' = (byItself \/ (details # {} /\ selected' # selected))
          /\ UNCHANGED <<events, picked, details>>
  /\ UNCHANGED <<stored, reveal>>

RefreshFails(l) ==
  /\ listing[l] = Sent
  /\ listing' = [listing EXCEPT ![l] = Nothing]
  /\ dataError' = TRUE
  /\ UNCHANGED <<stored, loads, reveal, sessions, selected, events, picked, details, byItself>>

(* A session of the list is selected, or the selected one again. *)
SelectSession(s) ==
  /\ s \in 1..sessions
  /\ selected' = s
  /\ IF s = selected THEN UNCHANGED loads ELSE Load(s)
  /\ details' = {} /\ byItself' = FALSE
  /\ UNCHANGED <<stored, listing, reveal, sessions, events, picked, dataError>>
----------------------------------------------------------------------------
(* The session's view is read; its verification, asked beside it, is waited for. *)
ReadSession(l) ==
  /\ loads[l] # Nothing /\ loads[l].events = Sent
  /\ loads' = [loads EXCEPT ![l].events = stored[loads[l].session]]
  /\ UNCHANGED <<stored, listing, reveal, view>>

Answered(l) == loads[l] # Nothing /\ loads[l].events # Sent

(* Mutant: the answer is taken up whatever was begun since. *)
WantedAlways(l) == TRUE

Wanted(l) == loads[l].active

(* The action stays selected if all of it is there. *)
LoadEnds(l) ==
  /\ Answered(l)
  /\ loads' = [loads EXCEPT ![l] = Nothing]
  /\ IF Wanted(l)
     THEN LET there == Shown(loads[l].session, loads[l].events) IN
          /\ events' = there
          /\ picked' = IF picked # {} /\ picked \subseteq IdsOf(there) THEN picked
                       ELSE {id \in IdsOf(there) : id.n = 1}
     ELSE UNCHANGED <<events, picked>>
  /\ UNCHANGED <<stored, listing, reveal, sessions, selected, details, dataError, byItself>>

LoadFails(l) ==
  /\ loads[l] # Nothing /\ ~Answered(l)
  /\ loads' = [loads EXCEPT ![l] = Nothing]
  /\ dataError' = (dataError \/ Wanted(l))
  /\ UNCHANGED <<stored, listing, reveal, sessions, selected, events, picked, details, byItself>>
----------------------------------------------------------------------------
(* An action of the timeline, of the events that it still shows. *)
SelectTraceItem(ids) ==
  /\ selected # 0 /\ ids # {} /\ ids \subseteq IdsOf(events)
  /\ picked' = ids
  /\ details' = {} /\ byItself' = FALSE
  /\ UNCHANGED <<stored, pending, sessions, selected, events, dataError>>

(* The inspector is closed, or the receipts of others are looked at. *)
CloseInspector ==
  /\ details' = {} /\ byItself' = FALSE
  /\ UNCHANGED <<stored, pending, sessions, selected, events, picked, dataError>>

RevealSelectedDetails ==
  /\ reveal = Nothing /\ selected # 0 /\ picked # {} /\ details = {}
  /\ reveal' = [session |-> selected, ids |-> picked]
  /\ UNCHANGED <<stored, listing, loads, view>>

(* Mutant: events are looked up in whatever session they are of. *)
EventsAnywhere(s) == UNION {IdsOf(Shown(r, stored[r])) : r \in DOMAIN stored}

EventsOf(s) == IdsOf(Shown(s, stored[s]))

(* The details come whatever was selected or closed since. *)
RevealEnds ==
  /\ reveal # Nothing
  /\ reveal' = Nothing
  /\ IF reveal.ids \subseteq EventsOf(reveal.session)
     THEN /\ details' = reveal.ids
          /\ byItself' = (reveal.ids # picked \/ reveal.session # selected)
     ELSE UNCHANGED <<details, byItself>>
  /\ UNCHANGED <<stored, listing, loads, sessions, selected, events, picked, dataError>>

(* No key, or a payload that cannot be read. *)
RevealFails ==
  /\ reveal # Nothing
  /\ reveal' = Nothing
  /\ UNCHANGED <<stored, listing, loads, view>>
----------------------------------------------------------------------------
VNext ==
  \/ NewSession \/ NewEvent
  \/ \E l \in Lists : Refresh(l) \/ ListSessions(l) \/ RefreshEnds(l) \/ RefreshFails(l)
  \/ \E l \in Loads : ReadSession(l) \/ LoadEnds(l) \/ LoadFails(l)
  \/ \E s \in Session : SelectSession(s)
  \/ \E ids \in SUBSET IdsOf(events) : SelectTraceItem(ids)
  \/ CloseInspector \/ RevealSelectedDetails \/ RevealEnds \/ RevealFails

VSpec == VInit /\ [][VNext]_vvars
----------------------------------------------------------------------------
VTypeOK ==
  /\ stored \in Seq(Nat) /\ Len(stored) <= MaxSessions
  /\ sessions \in 0..Len(stored) /\ selected \in 0..Len(stored)
  /\ listing \in [Lists -> {Nothing, Sent} \cup 0..Len(stored)]
  /\ \A l \in Loads : loads[l] # Nothing =>
       /\ loads[l].session \in DOMAIN stored
       /\ loads[l].events = Sent \/ loads[l].events \in 0..stored[loads[l].session]
  /\ events.session \in 0..Len(stored) /\ events.count \in Nat
  /\ dataError \in BOOLEAN /\ byItself \in BOOLEAN

(***************************************************************************)
(* What is shown belongs together, however calls overtake each other.  The *)
(* events are those of the selected session, or it is being loaded, or an  *)
(* error is shown; the selected action is one of theirs; what is decrypted *)
(* is that action, unless an answer that came too late changed the one or  *)
(* the selection.                                                          *)
(***************************************************************************)
ShownBelongs ==
  /\ events.session # selected =>
       dataError \/ \E l \in Loads : loads[l] # Nothing /\ loads[l].active /\ loads[l].session = selected
  /\ picked \subseteq IdsOf(events)
  /\ details # {} /\ ~byItself => details = picked

(* Events that are shown do not go away while their session stays selected. *)
ShownGrows ==
  [][events'.session = events.session => events'.count >= events.count]_vvars
=============================================================================
