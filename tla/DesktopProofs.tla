---------------------------- MODULE DesktopProofs ----------------------------
(***************************************************************************)
(* Proofs about the desktop's session view and about the known signers:    *)
(* for any number of sessions, events, refreshes and loads under way, and  *)
(* for any keys and names, verifications and updates that overlap in any   *)
(* way, and processes killed at any point; and, with those about the       *)
(* connections, about the desktop as MCDesktop puts it together.           *)
(***************************************************************************)
EXTENDS MCDesktop, ConnectionsProofs

(***************************************************************************)
(* The session view.                                                       *)
(***************************************************************************)
LoadType == [session : Nat, events : Nat \cup {Sent}, active : BOOLEAN]

Live(l) == loads[l] # Nothing /\ loads[l].active

(* Every answer that is under way was true of the store when it was given. *)
Truthful ==
  /\ loads \in [Loads -> LoadType \cup {Nothing}]
  /\ events = Shown(events.session, events.count)
  /\ events.session = 0 => events.count = 0
  /\ events.session # 0 => events.count <= stored[events.session]

(* One load at most is wanted, that of the selected session. *)
OneWanted ==
  /\ \A l \in Loads : Live(l) => loads[l].session = selected
  /\ \A k, l \in Loads : Live(k) /\ Live(l) => k = l

(* The one that is wanted was begun after what is shown was read. *)
Newer ==
  \A l \in Loads : Live(l) /\ Answered(l) /\ loads[l].session = events.session =>
    loads[l].events >= events.count

(* Decrypted events are of the selected session, whose events are shown. *)
DetailsOfSelected == details # {} /\ ~byItself => events.session = selected

VIInv == VTypeOK /\ Truthful /\ OneWanted /\ Newer /\ DetailsOfSelected /\ ShownBelongs
----------------------------------------------------------------------------
LEMMA NothingApart == Nothing \notin LoadType
  BY SessionViewAssumption DEF LoadType

(* What a load is begun as. *)
Begun(s) == [session |-> s, events |-> Sent, active |-> TRUE]

LEMMA LoadStep ==
  ASSUME VIInv, NEW s \in 0..Len(stored), Load(s)
  PROVE  /\ loads' \in [Loads -> LoadType \cup {Nothing}]
         /\ \A l \in Loads : loads'[l] # Nothing =>
              loads'[l] = Begun(s) \/ (loads[l] # Nothing /\ ~loads'[l].active
                                       /\ loads'[l].session = loads[l].session
                                       /\ loads'[l].events = loads[l].events)
         /\ \A k, l \in Loads : loads'[k] # Nothing /\ loads'[l] # Nothing
                                  /\ loads'[k].active /\ loads'[l].active => k = l
         /\ s # 0 => \E l \in Loads : loads'[l] = Begun(s)
         /\ \A l \in Loads : loads'[l] = Begun(s) => s # 0
<1> USE SessionViewAssumption DEF VIInv, VTypeOK, Truthful
<1>1. \A l \in Loads : Unwanted[l] \in LoadType \cup {Nothing}
        /\ (Unwanted[l] # Nothing => loads[l] # Nothing /\ ~Unwanted[l].active
              /\ Unwanted[l].session = loads[l].session /\ Unwanted[l].events = loads[l].events)
  BY DEF Unwanted, LoadType
<1>2. Unwanted \in [Loads -> LoadType \cup {Nothing}]
  BY <1>1 DEF Unwanted
<1>0. s \in Nat /\ Begun(s).active /\ Begun(s).session = s
  BY DEF Begun
<1>5. Begun(s) \in LoadType
  BY <1>0 DEF Begun, LoadType
<1>3. CASE s = 0
  <2>1. loads' = Unwanted
    BY <1>3 DEF Load
  <2>2. \A l \in Loads : Unwanted[l] # Nothing => Unwanted[l] # Begun(s)
    BY <1>1, <1>0
  <2> QED BY <1>1, <1>2, <1>3, <2>1, <2>2, <1>5, NothingApart
<1>4. CASE s # 0
  <2>1. PICK l \in Loads : loads' = [Unwanted EXCEPT ![l] = Begun(s)]
    BY <1>4 DEF Load, Begun
  <2>2. Begun(s) # Nothing
    BY <1>5, NothingApart
  <2> QED BY <1>0, <1>1, <1>2, <1>4, <1>5, <2>1, <2>2
<1> QED BY <1>3, <1>4

(* Agents record: counts grow, and sessions do not go away. *)
LEMMA Recording ==
  ASSUME VIInv, NewSession \/ NewEvent PROVE VIInv'
<1> USE DEF VIInv, VTypeOK, Truthful
<1>1. /\ stored' \in Seq(Nat) /\ Len(stored) <= Len(stored') /\ Len(stored') <= MaxSessions
      /\ \A s \in DOMAIN stored : s \in DOMAIN stored' /\ stored[s] <= stored'[s]
      /\ UNCHANGED <<pending, view>>
  <2>1. CASE NewSession
    BY <2>1, SessionViewAssumption DEF NewSession
  <2>2. CASE NewEvent
    <3>1. PICK s \in DOMAIN stored : stored' = [stored EXCEPT ![s] = @ + 1]
      BY <2>2 DEF NewEvent
    <3>2. UNCHANGED <<pending, view>>
      BY <2>2 DEF NewEvent
    <3> QED BY <3>1, <3>2
  <2> QED BY <2>1, <2>2
<1>2. VTypeOK'
  BY <1>1 DEF pending, view
<1>3. Truthful'
  BY <1>1 DEF pending, view, Shown
<1>4. OneWanted' /\ Newer' /\ DetailsOfSelected' /\ ShownBelongs'
  BY <1>1 DEF pending, view, OneWanted, Newer, DetailsOfSelected, ShownBelongs, Live, Answered
<1> QED BY <1>2, <1>3, <1>4

(* Calls that leave the view and the loads alone, but for an error that is shown. *)
LEMMA Listing ==
  ASSUME VIInv, NEW l \in Lists, Refresh(l) \/ ListSessions(l) \/ RefreshFails(l)
  PROVE  VIInv'
<1> USE DEF VIInv, VTypeOK, Truthful
<1>1. /\ listing' \in [Lists -> {Nothing, Sent} \cup 0..Len(stored)]
      /\ UNCHANGED <<stored, loads, sessions, selected, events, picked, details, byItself>>
      /\ dataError' \in BOOLEAN /\ (dataError => dataError')
  <2>1. CASE Refresh(l)
    BY <2>1 DEF Refresh, view
  <2>2. CASE ListSessions(l)
    <3>1. Len(stored) \in 0..Len(stored)
      OBVIOUS
    <3> QED BY <2>2, <3>1 DEF ListSessions, view
  <2>3. CASE RefreshFails(l)
    BY <2>3 DEF RefreshFails
  <2> QED BY <2>1, <2>2, <2>3
<1>2. VTypeOK' /\ Truthful'
  BY <1>1 DEF Shown
<1>3. OneWanted' /\ Newer' /\ DetailsOfSelected' /\ ShownBelongs'
  BY <1>1 DEF OneWanted, Newer, DetailsOfSelected, ShownBelongs, Live, Answered
<1> QED BY <1>2, <1>3

(* Another selection, or another list, begins the one load that is wanted. *)
LEMMA LoadBegins ==
  ASSUME VIInv, NEW s \in 0..Len(stored), Load(s), selected' = s, UNCHANGED stored,
         (UNCHANGED events) \/ (s = 0 /\ events' = Shown(0, 0))
  PROVE  /\ Truthful' /\ OneWanted' /\ Newer'
         /\ \A l \in Loads : loads'[l] # Nothing =>
              /\ loads'[l].session \in DOMAIN stored
              /\ loads'[l].events = Sent \/ loads'[l].events \in 0..stored[loads'[l].session]
         /\ s # 0 => \E l \in Loads : loads'[l] # Nothing /\ loads'[l].active /\ loads'[l].session = selected'
<1> USE DEF VIInv, VTypeOK, Truthful
<1>1. /\ loads' \in [Loads -> LoadType \cup {Nothing}]
      /\ \A l \in Loads : loads'[l] # Nothing =>
           loads'[l] = Begun(s) \/ (loads[l] # Nothing /\ ~loads'[l].active
                                    /\ loads'[l].session = loads[l].session
                                    /\ loads'[l].events = loads[l].events)
      /\ \A k, l \in Loads : loads'[k] # Nothing /\ loads'[l] # Nothing
                               /\ loads'[k].active /\ loads'[l].active => k = l
      /\ s # 0 => \E l \in Loads : loads'[l] = Begun(s)
      /\ \A l \in Loads : loads'[l] = Begun(s) => s # 0
  BY LoadStep
<1>2. Begun(s).active /\ Begun(s).session = s /\ Begun(s).events = Sent
  BY DEF Begun
<1>9. s \in Nat
  OBVIOUS
<1>10. Begun(s) \in LoadType
  BY <1>9 DEF Begun, LoadType
<1>3. Begun(s) # Nothing
  BY <1>10, NothingApart
<1>4. Truthful'
  BY <1>1 DEF Shown
<1>5. OneWanted'
  BY <1>1, <1>2 DEF OneWanted, Live
<1>6. Newer'
  BY <1>1, <1>2 DEF Newer, Live, Answered
<1>7. \A l \in Loads : loads'[l] # Nothing =>
        /\ loads'[l].session \in DOMAIN stored
        /\ loads'[l].events = Sent \/ loads'[l].events \in 0..stored[loads'[l].session]
  BY <1>1, <1>2
<1>8. s # 0 => \E l \in Loads : loads'[l] # Nothing /\ loads'[l].active /\ loads'[l].session = selected'
  BY <1>1, <1>2, <1>3
<1> QED BY <1>4, <1>5, <1>6, <1>7, <1>8

LEMMA Refreshed == ASSUME VIInv, NEW l \in Lists, RefreshEnds(l) PROVE VIInv'
<1> USE DEF VIInv, VTypeOK
<1>0. listing[l] \in 0..Len(stored) /\ Kept(listing[l]) \in 0..Len(stored)
      /\ (Kept(listing[l]) = 0 <=> listing[l] = 0)
  BY DEF RefreshEnds, Kept
<1>1. PICK s \in 0..Len(stored) : s = Kept(listing[l])
  BY <1>0
<1>2. /\ Load(s) /\ selected' = s /\ sessions' = listing[l] /\ dataError' = FALSE
      /\ listing' = [listing EXCEPT ![l] = Nothing]
      /\ UNCHANGED <<stored, reveal>>
      /\ IF listing[l] = 0
         THEN events' = Shown(0, 0) /\ picked' = {} /\ details' = {} /\ byItself' = FALSE
         ELSE /\ byItself' = (byItself \/ (details # {} /\ selected' # selected))
              /\ UNCHANGED <<events, picked, details>>
  BY <1>1 DEF RefreshEnds
<1>7. UNCHANGED events \/ (s = 0 /\ events' = Shown(0, 0))
  BY <1>0, <1>1, <1>2
<1>3. /\ Truthful' /\ OneWanted' /\ Newer'
      /\ \A k \in Loads : loads'[k] # Nothing =>
           /\ loads'[k].session \in DOMAIN stored
           /\ loads'[k].events = Sent \/ loads'[k].events \in 0..stored[loads'[k].session]
      /\ s # 0 => \E k \in Loads : loads'[k] # Nothing /\ loads'[k].active /\ loads'[k].session = selected'
  BY <1>2, <1>7, LoadBegins
<1>4. VTypeOK'
  <2>1. events'.session \in 0..Len(stored) /\ events'.count \in Nat
    BY <1>2 DEF Shown
  <2>2. byItself' \in BOOLEAN /\ dataError' \in BOOLEAN
    BY <1>2
  <2>3. listing' \in [Lists -> {Nothing, Sent} \cup 0..Len(stored)]
    BY <1>2
  <2> QED BY <1>0, <1>1, <1>2, <1>3, <2>1, <2>2, <2>3
<1>5. DetailsOfSelected'
  BY <1>0, <1>1, <1>2 DEF DetailsOfSelected
<1>6. ShownBelongs'
  BY <1>0, <1>1, <1>2, <1>3 DEF ShownBelongs, Shown
<1> QED BY <1>3, <1>4, <1>5, <1>6

LEMMA Selecting == ASSUME VIInv, NEW s \in Session, SelectSession(s) PROVE VIInv'
<1> USE DEF VIInv, VTypeOK
<1>1. /\ s \in 1..sessions /\ s \in 0..Len(stored) /\ s # 0 /\ selected' = s
      /\ details' = {} /\ byItself' = FALSE
      /\ UNCHANGED <<stored, listing, reveal, sessions, events, picked, dataError>>
  BY DEF SelectSession, Session
<1>2. CASE s = selected
  <2>1. UNCHANGED <<loads, selected>>
    BY <1>1, <1>2 DEF SelectSession
  <2>2. VTypeOK' /\ Truthful' /\ OneWanted'
    BY <1>1, <2>1 DEF Truthful, OneWanted, Live, Shown
  <2>3. Newer' /\ DetailsOfSelected'
    BY <1>1, <2>1 DEF Newer, DetailsOfSelected, Live, Answered
  <2>4. ShownBelongs'
    BY <1>1, <2>1 DEF ShownBelongs
  <2> QED BY <2>2, <2>3, <2>4
<1>3. CASE s # selected
  <2>1. Load(s)
    BY <1>3 DEF SelectSession
  <2>2. /\ Truthful' /\ OneWanted' /\ Newer'
        /\ \A k \in Loads : loads'[k] # Nothing =>
             /\ loads'[k].session \in DOMAIN stored
             /\ loads'[k].events = Sent \/ loads'[k].events \in 0..stored[loads'[k].session]
        /\ \E k \in Loads : loads'[k] # Nothing /\ loads'[k].active /\ loads'[k].session = selected'
    BY <1>1, <2>1, LoadBegins
  <2>3. VTypeOK'
    BY <1>1, <2>2
  <2> QED BY <1>1, <2>2, <2>3 DEF DetailsOfSelected, ShownBelongs
<1> QED BY <1>2, <1>3

(* The store answers: no less than what is shown of the session by now. *)
LEMMA Reading == ASSUME VIInv, NEW l \in Loads, ReadSession(l) PROVE VIInv'
<1> USE DEF VIInv, VTypeOK
<1> DEFINE n == stored[loads[l].session]
<1>1. /\ loads[l] # Nothing /\ loads[l] \in LoadType /\ loads[l].session \in DOMAIN stored
      /\ loads' = [loads EXCEPT ![l].events = n]
      /\ UNCHANGED <<stored, listing, reveal, view>>
  BY DEF ReadSession, Truthful
<1>2. n \in Nat
  BY <1>1
<1>3. [loads[l] EXCEPT !.events = n] \in LoadType /\ loads'[l] # Nothing
      /\ loads' \in [Loads -> LoadType \cup {Nothing}]
  BY <1>1, <1>2, NothingApart DEF Truthful, LoadType
<1>4. /\ loads'[l].session = loads[l].session /\ loads'[l].active = loads[l].active
      /\ loads'[l].events = n
      /\ \A k \in Loads \ {l} : loads'[k] = loads[k]
  BY <1>1 DEF Truthful, LoadType
<1>5. VTypeOK'
  BY <1>1, <1>2, <1>4 DEF view
<1>6. Truthful'
  BY <1>1, <1>3 DEF Truthful, view, Shown
<1>7. OneWanted'
  BY <1>1, <1>3, <1>4 DEF OneWanted, Live, view
<1>10. events.session = loads[l].session => events.count <= n
  BY <1>1 DEF Truthful
<1>8. Newer'
  <2>1. events' = events
    BY <1>1 DEF view
  <2>2. SUFFICES ASSUME NEW k \in Loads, Live(k)', Answered(k)', loads'[k].session = events.session
                 PROVE  loads'[k].events >= events.count
    BY <2>1 DEF Newer
  <2>3. CASE k = l
    BY <1>1, <1>2, <1>4, <1>10, <2>2, <2>3
  <2>4. CASE k # l
    BY <1>1, <1>4, <2>2, <2>4 DEF Newer, Live, Answered
  <2> QED BY <2>3, <2>4
<1>9. DetailsOfSelected' /\ ShownBelongs'
  BY <1>1, <1>3, <1>4 DEF DetailsOfSelected, ShownBelongs, view
<1> QED BY <1>5, <1>6, <1>7, <1>8, <1>9

LEMMA LoadGone ==
  ASSUME VIInv, NEW l \in Loads, loads' = [loads EXCEPT ![l] = Nothing],
         UNCHANGED <<stored, listing, reveal, sessions, selected>>
  PROVE  /\ loads' \in [Loads -> LoadType \cup {Nothing}] /\ OneWanted'
         /\ \A k \in Loads : loads'[k] # Nothing => k # l /\ loads'[k] = loads[k]
  BY DEF VIInv, Truthful, OneWanted, Live

(* What was loaded is shown, if it is still wanted. *)
LEMMA Loaded == ASSUME VIInv, NEW l \in Loads, LoadEnds(l) PROVE VIInv'
<1> USE DEF VIInv, VTypeOK
<1> DEFINE there == Shown(loads[l].session, loads[l].events)
<1>1. /\ Answered(l) /\ loads' = [loads EXCEPT ![l] = Nothing]
      /\ UNCHANGED <<stored, listing, reveal, sessions, selected, details, dataError, byItself>>
      /\ loads[l] # Nothing /\ loads[l].session \in DOMAIN stored
      /\ loads[l].events \in 0..stored[loads[l].session]
  BY DEF LoadEnds, Answered
<1>2. /\ loads' \in [Loads -> LoadType \cup {Nothing}] /\ OneWanted'
      /\ \A k \in Loads : loads'[k] # Nothing => k # l /\ loads'[k] = loads[k]
  BY <1>1, LoadGone
<1>3. CASE ~Wanted(l)
  <2>1. UNCHANGED <<events, picked>>
    BY <1>3 DEF LoadEnds
  <2>2. VTypeOK' /\ Truthful' /\ Newer' /\ DetailsOfSelected'
    BY <1>1, <1>2, <2>1 DEF Truthful, Newer, DetailsOfSelected, Live, Answered, Shown
  <2>3. ShownBelongs'
    BY <1>1, <1>2, <1>3, <2>1 DEF ShownBelongs, Wanted
  <2> QED BY <1>2, <2>2, <2>3
<1>4. CASE Wanted(l)
  <2>1. /\ events' = there
        /\ picked' = IF picked # {} /\ picked \subseteq IdsOf(there) THEN picked
                     ELSE {id \in IdsOf(there) : id.n = 1}
    BY <1>4 DEF LoadEnds
  <2>0. loads[l].session = selected
    BY <1>1, <1>4 DEF OneWanted, Live, Wanted
  <2>2. /\ events'.session = selected /\ events'.count = loads[l].events
        /\ events' = Shown(events'.session, events'.count)
        /\ events'.session \in DOMAIN stored /\ events'.session # 0
    BY <1>1, <2>0, <2>1 DEF Shown
  <2>3. \A k \in Loads : ~Live(k)'
    BY <1>1, <1>2, <1>4 DEF OneWanted, Live, Wanted
  <2>4. /\ events'.count \in Nat /\ events'.count <= stored[events'.session]
        /\ events'.session \in 0..Len(stored)
    BY <1>1, <2>0, <2>2
  <2>8. VTypeOK'
    BY <1>1, <1>2, <2>4
  <2>9. Truthful' /\ Newer' /\ DetailsOfSelected'
    BY <1>1, <1>2, <2>2, <2>3, <2>4 DEF Truthful, Newer, DetailsOfSelected
  <2>5. picked' \subseteq IdsOf(events')
    BY <2>1
  <2>6. ASSUME details # {}, ~byItself PROVE picked' = picked
    <3>1. picked # {} /\ picked \subseteq IdsOf(events) /\ events.session = selected
      BY <2>6 DEF ShownBelongs, DetailsOfSelected
    <3>2. events.count <= loads[l].events
      BY <1>1, <1>4, <2>2, <2>1, <3>1 DEF Newer, Live, Wanted, Shown
    <3>3. IdsOf(events) \subseteq IdsOf(there)
      BY <1>1, <2>1, <2>2, <3>1, <3>2 DEF IdsOf
    <3> QED BY <2>1, <3>1, <3>3
  <2>7. ShownBelongs'
    BY <1>1, <2>2, <2>5, <2>6 DEF ShownBelongs
  <2> QED BY <1>2, <2>7, <2>8, <2>9
<1> QED BY <1>3, <1>4

LEMMA NotLoaded == ASSUME VIInv, NEW l \in Loads, LoadFails(l) PROVE VIInv'
<1> USE DEF VIInv, VTypeOK
<1>1. /\ loads[l] # Nothing /\ loads' = [loads EXCEPT ![l] = Nothing]
      /\ dataError' = (dataError \/ Wanted(l))
      /\ UNCHANGED <<stored, listing, reveal, sessions, selected, events, picked, details, byItself>>
  BY DEF LoadFails
<1>2. /\ loads' \in [Loads -> LoadType \cup {Nothing}] /\ OneWanted'
      /\ \A k \in Loads : loads'[k] # Nothing => k # l /\ loads'[k] = loads[k]
  BY <1>1, LoadGone
<1>3. VTypeOK' /\ Truthful' /\ Newer' /\ DetailsOfSelected'
  BY <1>1, <1>2 DEF Truthful, Newer, DetailsOfSelected, Live, Answered, Shown
<1>4. ShownBelongs'
  BY <1>1, <1>2 DEF ShownBelongs, Wanted
<1> QED BY <1>2, <1>3, <1>4

(* The hand of the user: what is decrypted is put away. *)
LEMMA PutAway ==
  ASSUME VIInv, NEW ids \in SUBSET IdsOf(events), SelectTraceItem(ids) \/ CloseInspector
  PROVE  VIInv'
<1> USE DEF VIInv, VTypeOK
<1>1. /\ details' = {} /\ byItself' = FALSE /\ (picked' = ids \/ picked' = picked)
      /\ UNCHANGED <<stored, pending, sessions, selected, events, dataError>>
  BY DEF SelectTraceItem, CloseInspector
<1>2. VTypeOK' /\ Truthful' /\ OneWanted'
  BY <1>1 DEF Truthful, OneWanted, Live, Shown, pending
<1>3. Newer' /\ DetailsOfSelected'
  BY <1>1 DEF Newer, DetailsOfSelected, Live, Answered, pending
<1>4. picked' \subseteq IdsOf(events')
  BY <1>1 DEF ShownBelongs
<1>5. ShownBelongs'
  BY <1>1, <1>4 DEF ShownBelongs, pending
<1> QED BY <1>2, <1>3, <1>5

(* A reveal is asked for, or it fails: nothing else has changed. *)
LEMMA RevealOnly == ASSUME VIInv, RevealSelectedDetails \/ RevealFails PROVE VIInv'
<1> USE DEF VIInv, VTypeOK
<1>1. UNCHANGED <<stored, listing, loads, view>>
  BY DEF RevealSelectedDetails, RevealFails
<1>2. VTypeOK' /\ Truthful' /\ OneWanted'
  BY <1>1 DEF Truthful, OneWanted, Live, Shown, view
<1>3. Newer' /\ DetailsOfSelected' /\ ShownBelongs'
  BY <1>1 DEF Newer, DetailsOfSelected, ShownBelongs, Live, Answered, view
<1> QED BY <1>2, <1>3

LEMMA Revealed == ASSUME VIInv, RevealEnds PROVE VIInv'
<1> USE DEF VIInv, VTypeOK
<1>1. UNCHANGED <<stored, listing, loads, sessions, selected, events, picked, dataError>>
  BY DEF RevealEnds
<1>2. \/ UNCHANGED <<details, byItself>>
      \/ /\ byItself' = (reveal.ids # picked \/ reveal.session # selected)
         /\ details' = reveal.ids /\ details' \subseteq EventsOf(reveal.session)
  BY DEF RevealEnds
<1>3. byItself' \in BOOLEAN
  BY <1>2
<1>4. VTypeOK' /\ Truthful' /\ OneWanted' /\ Newer'
  BY <1>1, <1>3 DEF Truthful, OneWanted, Newer, Live, Answered, Shown
<1>5. (details # {} /\ ~byItself => details = picked)'
  BY <1>1, <1>2 DEF ShownBelongs
<1>6. ShownBelongs'
  BY <1>1, <1>5 DEF ShownBelongs
<1>7. DetailsOfSelected'
  <2>1. CASE UNCHANGED <<details, byItself>>
    BY <1>1, <2>1 DEF DetailsOfSelected
  <2>2. ASSUME details' # {}, reveal.ids = picked, reveal.session = selected,
               details' = reveal.ids, details' \subseteq EventsOf(reveal.session)
        PROVE  events.session = selected
    <3>1. PICK id \in details' : TRUE
      BY <2>2
    <3>2. id.session = selected
      BY <2>2, <3>1 DEF EventsOf, IdsOf, Shown
    <3>3. id.session = events.session
      BY <2>2, <3>1 DEF ShownBelongs, IdsOf
    <3> QED BY <3>2, <3>3
  <2> QED BY <1>1, <1>2, <2>1, <2>2 DEF DetailsOfSelected
<1> QED BY <1>4, <1>6, <1>7
----------------------------------------------------------------------------
LEMMA SessionInitially == ASSUME VInit PROVE VIInv
<1> USE SessionViewAssumption DEF VInit, Shown
<1>1. VTypeOK
  <2>1. /\ stored \in Seq(Nat) /\ Len(stored) = 0 /\ MaxSessions \in Nat
        /\ events.session = 0 /\ events.count = 0
    OBVIOUS
  <2>2. dataError \in BOOLEAN /\ byItself \in BOOLEAN
    OBVIOUS
  <2>3. \A l \in Loads : loads[l] = Nothing
    OBVIOUS
  <2> QED BY <2>1, <2>2, <2>3 DEF VTypeOK
<1>2. Truthful /\ OneWanted /\ Newer
  BY DEF Truthful, OneWanted, Newer, Live, Answered
<1>3. DetailsOfSelected /\ ShownBelongs
  BY DEF DetailsOfSelected, ShownBelongs
<1> QED BY <1>1, <1>2, <1>3 DEF VIInv

LEMMA SessionInductive == ASSUME VIInv, [VNext]_vvars PROVE VIInv'
<1>1. CASE NewSession \/ NewEvent
  BY <1>1, Recording
<1>2. CASE \E l \in Lists : Refresh(l) \/ ListSessions(l) \/ RefreshEnds(l) \/ RefreshFails(l)
  BY <1>2, Listing, Refreshed
<1>3. CASE \E l \in Loads : ReadSession(l) \/ LoadEnds(l) \/ LoadFails(l)
  BY <1>3, Reading, Loaded, NotLoaded
<1>4. CASE \E s \in Session : SelectSession(s)
  BY <1>4, Selecting
<1>5. CASE \E ids \in SUBSET IdsOf(events) : SelectTraceItem(ids)
  BY <1>5, PutAway
<1>6. CASE CloseInspector
  <2>1. {} \in SUBSET IdsOf(events)
    OBVIOUS
  <2> QED BY <1>6, <2>1, PutAway
<1>7. CASE RevealSelectedDetails \/ RevealEnds \/ RevealFails
  BY <1>7, RevealOnly, Revealed
<1>8. CASE UNCHANGED vvars
  <2> USE <1>8 DEF vvars, pending, view, VIInv
  <2>1. VTypeOK' /\ Truthful' /\ OneWanted'
    BY DEF VTypeOK, Truthful, OneWanted, Live, Shown
  <2>2. Newer' /\ DetailsOfSelected' /\ ShownBelongs'
    BY DEF Newer, DetailsOfSelected, ShownBelongs, Live, Answered
  <2> QED BY <2>1, <2>2
<1> QED BY <1>1, <1>2, <1>3, <1>4, <1>5, <1>6, <1>7, <1>8 DEF VNext

(* No step shows fewer events of a session: see Newer. *)
LEMMA NoneGoAway ==
  ASSUME VIInv, [VNext]_vvars, events'.session = events.session PROVE events'.count >= events.count
<1> USE DEF VIInv, VTypeOK
<1>1. CASE UNCHANGED events
  BY <1>1
<1>2. CASE \E l \in Lists : RefreshEnds(l)
  BY <1>2 DEF RefreshEnds, Truthful, Shown
<1>3. CASE \E l \in Loads : LoadEnds(l)
  <2>1. PICK l \in Loads : LoadEnds(l)
    BY <1>3
  <2>2. CASE Wanted(l)
    <3>1. events'.session = loads[l].session /\ events'.count = loads[l].events
      BY <2>1, <2>2 DEF LoadEnds, Shown
    <3>2. Live(l) /\ Answered(l)
      BY <2>1, <2>2 DEF LoadEnds, Live, Wanted, Answered
    <3> QED BY <3>1, <3>2 DEF Newer
  <2> QED BY <1>1, <2>1, <2>2 DEF LoadEnds
<1>4. (UNCHANGED events) \/ (\E l \in Lists : RefreshEnds(l)) \/ (\E l \in Loads : LoadEnds(l))
  BY DEF VNext, vvars, view, pending, NewSession, NewEvent, Refresh, ListSessions, RefreshFails, ReadSession,
         LoadFails, SelectSession, SelectTraceItem, CloseInspector, RevealSelectedDetails,
         RevealEnds, RevealFails
<1> QED BY <1>1, <1>2, <1>3, <1>4
----------------------------------------------------------------------------
(* The inductive invariant holds however calls overtake each other. *)
THEOREM SessionInvariance == VSpec => []VIInv
<1>1. VInit => VIInv
  BY SessionInitially
<1>2. VIInv /\ [VNext]_vvars => VIInv'
  BY SessionInductive
<1> QED BY <1>1, <1>2, PTL DEF VSpec

(* The renderer refers to sessions and events that were recorded, and to no others. *)
THEOREM SessionTypes == VSpec => []VTypeOK
<1>1. VIInv => VTypeOK
  BY DEF VIInv
<1> QED BY <1>1, SessionInvariance, PTL

(***************************************************************************)
(* The events shown are those of the selected session unless it is being   *)
(* loaded or an error is shown, the selected action is of them, and what   *)
(* is decrypted is that action unless a late answer changed it (the effect *)
(* and the handlers of App in main.tsx).                                   *)
(***************************************************************************)
THEOREM ShownTogether == VSpec => []ShownBelongs
<1>1. VIInv => ShownBelongs
  BY DEF VIInv
<1> QED BY <1>1, SessionInvariance, PTL

(* An answer that comes late never takes events away (the flag of the effect). *)
THEOREM EventsStay == VSpec => ShownGrows
<1>1. VIInv /\ [VNext]_vvars => [events'.session = events.session => events'.count >= events.count]_vvars
  BY NoneGoAway
<1> QED BY <1>1, SessionInvariance, PTL DEF VSpec, ShownGrows
-----------------------------------------------------------------------------
(***************************************************************************)
(* The known signers.                                                      *)
(***************************************************************************)
USE DEF Request, Process

Asking == [by : {"desktop", "command"}, kind : {"verify", "label", "forget"},
           signer : Signer, valid : BOOLEAN, name : Name \cup {NoFile}]

Receipt == [signer : Signer, valid : BOOLEAN, known : BOOLEAN]

(***************************************************************************)
(* A verification that passed and is not yet read into the list may still  *)
(* raise the count of its key: what is left of the verifications is the    *)
(* credit that lists may have used up.                                     *)
(***************************************************************************)
Pending(s) == {i \in Request : stage[i] = "read" /\ doing[i] = "record" /\ request[i].signer = s}

credit == [s \in Signer |-> verified[s] - Cardinality(Pending(s))]

Earned(signers, available, made) ==
  /\ signers \subseteq Entries
  /\ \A e \in signers : e.receipts_verified <= available[e.address]
  /\ \A e \in signers : e.label # NoFile =>
       \E i \in Request : made[i] # NoFile /\ made[i].signer = e.address /\ made[i].name = e.label
  /\ \A d, e \in signers : d.address = e.address => d = e

AllEarned ==
  /\ Earned(list, credit, request)
  /\ \A p \in Process : temp[p] = NoFile \/ Earned(temp[p], credit, request)
  /\ \A i \in Request : Earned(entries[i], credit, request)

Requests ==
  /\ request \in [Request -> Asking \cup {NoFile}]
  /\ \A i \in Request : stage[i] = "new" <=> request[i] = NoFile
  /\ shown \in Receipt \cup {NoFile}
  /\ verified \in [Signer -> Nat] /\ credit \in [Signer -> Nat]
  /\ DOMAIN temp = Process /\ DOMAIN entries = Request /\ mixed \in BOOLEAN

(***************************************************************************)
(* As long as no two updates overlapped there is one at most, which has in *)
(* hand what it makes of the list as it still is, and a file of its own.   *)
(***************************************************************************)
Alone ==
  ~mixed =>
    /\ list = meant
    /\ \A i, j \in Request : Updating(i) /\ Updating(j) => i = j
    /\ \A i \in Request :
         /\ Updating(i) => entries[i] = Updated(list, i)
         /\ stage[i] = "write" => handle[i] = "temp" /\ temp[ProcessOf(i)] = {}
         /\ stage[i] = "rename" => temp[ProcessOf(i)] \in {entries[i], NoFile}

SIInv == STypeOK /\ Requests /\ AllEarned /\ Alone
----------------------------------------------------------------------------
(***************************************************************************)
(* What the three updates make of a list that is earned.                   *)
(***************************************************************************)
LEMMA EarnedStays ==
  ASSUME NEW L, NEW c, NEW d, NEW made, NEW again,
         c \in [Signer -> Nat], d \in [Signer -> Nat], \A s \in Signer : c[s] <= d[s],
         \A i \in Request : made[i] # NoFile => again[i] = made[i],
         Earned(L, c, made)
  PROVE  Earned(L, d, again)
<1>1. L \subseteq Entries /\ \A e \in L : e.address \in Signer /\ e.receipts_verified \in Nat
  BY DEF Earned, Entries
<1>2. \A e \in L : e.receipts_verified <= c[e.address] /\ c[e.address] <= d[e.address]
                   /\ c[e.address] \in Nat /\ d[e.address] \in Nat
  BY <1>1 DEF Earned
<1>3. \A e \in L : e.receipts_verified <= d[e.address]
  BY <1>1, <1>2
<1> QED BY <1>1, <1>3 DEF Earned

LEMMA EarnedRecord ==
  ASSUME NEW L, NEW c, NEW d, NEW made, NEW s \in Signer, c \in [Signer -> Nat],
         d \in [Signer -> Nat], \A t \in Signer : c[t] <= d[t], c[s] + 1 <= d[s],
         Earned(L, c, made)
  PROVE  Earned(record(L, s), d, made)
<1> DEFINE existing == {e \in L : e.address = s}
           renewed == IF existing = {} THEN {Entry(s, 1, NoFile)}
                      ELSE {[e EXCEPT !.receipts_verified = @ + 1] : e \in existing}
<1>1. record(L, s) = (L \ existing) \cup renewed
  BY DEF record
<1>2. Earned(L, d, made)
  BY EarnedStays
<1>3. ASSUME NEW e \in L, e.address = s
      PROVE  LET n == [e EXCEPT !.receipts_verified = @ + 1] IN
             /\ n \in Entries /\ n.receipts_verified <= d[s]
             /\ n.address = s /\ n.label = e.label
  <2>1. e \in Entries /\ e.receipts_verified <= c[s]
    BY <1>3 DEF Earned
  <2> QED BY <1>3, <2>1 DEF Entries
<1>4. LET n == Entry(s, 1, NoFile) IN
      n \in Entries /\ n.receipts_verified <= d[s] /\ n.address = s /\ n.label = NoFile
  BY DEF Entry, Entries
<1>5. \A n \in renewed :
        /\ n \in Entries /\ n.receipts_verified <= d[s] /\ n.address = s
        /\ n.label # NoFile => \E e \in L : e.address = s /\ e.label = n.label
  BY <1>3, <1>4
<1>6. \A n, m \in renewed : n = m
  BY DEF Earned
<1> HIDE DEF renewed
<1>7. record(L, s) \subseteq Entries
  BY <1>1, <1>2, <1>5 DEF Earned
<1>8. \A e \in record(L, s) : e.receipts_verified <= d[e.address]
  BY <1>1, <1>2, <1>5 DEF Earned
<1>9. \A e \in record(L, s) : e.label # NoFile =>
        \E i \in Request : made[i] # NoFile /\ made[i].signer = e.address /\ made[i].name = e.label
  BY <1>1, <1>2, <1>5 DEF Earned
<1>10. \A a, b \in record(L, s) : b.address = a.address => b = a
  BY <1>1, <1>2, <1>5, <1>6 DEF Earned
<1> QED BY <1>7, <1>8, <1>9, <1>10 DEF Earned

LEMMA EarnedLabel ==
  ASSUME NEW L, NEW c, NEW made, NEW i \in Request, made[i] # NoFile,
         made[i].name \in Name \cup {NoFile}, Earned(L, c, made)
  PROVE  Earned(label(L, made[i].signer, made[i].name), c, made)
<1> DEFINE s == made[i].signer
           name == made[i].name
           named(e) == IF e.address = s THEN [e EXCEPT !.label = name] ELSE e
<1>1. label(L, s, name) = {named(e) : e \in L}
  BY DEF label
<1>2. ASSUME NEW e \in L
      PROVE  /\ named(e) \in Entries /\ named(e).address = e.address
             /\ named(e).receipts_verified = e.receipts_verified
             /\ named(e).label = IF e.address = s THEN name ELSE e.label
  <2>1. e \in Entries
    BY DEF Earned
  <2> QED BY <2>1 DEF Entries
<1> HIDE DEF named
<1>3. label(L, s, name) \subseteq Entries
  BY <1>1, <1>2
<1>4. \A e \in label(L, s, name) : e.receipts_verified <= c[e.address]
  BY <1>1, <1>2 DEF Earned
<1>5. \A e \in label(L, s, name) : e.label # NoFile =>
        \E j \in Request : made[j] # NoFile /\ made[j].signer = e.address /\ made[j].name = e.label
  BY <1>1, <1>2 DEF Earned
<1>6. \A a, b \in label(L, s, name) : b.address = a.address => b = a
  BY <1>1, <1>2 DEF Earned
<1> QED BY <1>3, <1>4, <1>5, <1>6 DEF Earned

LEMMA EarnedForget ==
  ASSUME NEW L, NEW c, NEW made, NEW s, Earned(L, c, made)
  PROVE  Earned(forget(L, s), c, made)
  BY DEF Earned, forget

LEMMA EarnedNone == ASSUME NEW c, NEW made PROVE Earned({}, c, made)
  BY DEF Earned
----------------------------------------------------------------------------
(***************************************************************************)
(* Requests keep what they asked, and no step takes credit that is in use. *)
(***************************************************************************)
LEMMA PendingFinite ==
  ASSUME NEW s PROVE IsFiniteSet(Pending(s)) /\ Cardinality(Pending(s)) \in Nat
<1>1. IsFiniteSet(Request)
  BY FS_Interval, KnownSignersAssumption
<1>2. Pending(s) \subseteq Request
  BY DEF Pending
<1> QED BY <1>1, <1>2, FS_Subset, FS_CardinalityType

Steps(i) ==
  \/ Verify(i) \/ BundleUnreadable(i) \/ Read(i) \/ OpenTemp(i) \/ WriteTemp(i)
  \/ Rename(i) \/ RenameFails(i) \/ Reply(i)

Asks(i) ==
  \/ \E s \in Signer, valid \in BOOLEAN : VerifyBundle(i, s, valid)
  \/ \E name \in Name \cup {NoFile} : NameSigner(i, name)
  \/ ForgetSigner(i)

LEMMA OneOf ==
  SNext <=> \/ \E i \in Request : Asks(i) \/ Steps(i)
            \/ Clear
            \/ \E p \in Process : KillProcess(p)
  BY DEF SNext, Asks, Steps

(* What is asked is a request. *)
LEMMA AskType ==
  ASSUME Requests, NEW i \in Request, Asks(i)
  PROVE  \E ask \in Asking, update \in {"record", "label", "forget"}, first \in {"verify", "read"} :
           Ask(i, ask, update, first) /\ (update = "record" => first = "verify")
<1>1. ASSUME NEW s \in Signer, NEW valid \in BOOLEAN, VerifyBundle(i, s, valid)
      PROVE  \E ask \in Asking : Ask(i, ask, "record", "verify")
  BY <1>1 DEF VerifyBundle, Asked, Asking
<1>2. ASSUME NEW name \in Name \cup {NoFile}, NameSigner(i, name)
      PROVE  \E ask \in Asking : Ask(i, ask, "label", "read")
  BY <1>2 DEF NameSigner, Asked, Asking, Requests, Receipt
<1>3. ASSUME ForgetSigner(i)
      PROVE  \E ask \in Asking : Ask(i, ask, "forget", "read")
  BY <1>3 DEF ForgetSigner, Asked, Asking, Requests, Receipt
<1> QED BY <1>1, <1>2, <1>3 DEF Asks

(* Stages and requests are what they should be after a step, and requests keep what they asked. *)
StagesKept ==
  /\ stage' \in [Request -> Over \cup {"new", "verify", "read", "truncate", "write", "rename", "reply"}]
  /\ doing' \in [Request -> {"record", "label", "forget"}]
  /\ handle' \in [Request -> {"closed", "temp", "list", "replaced"}]
  /\ \A i \in Request : handle'[i] # "closed" => stage'[i] = "write"
  /\ request' \in [Request -> Asking \cup {NoFile}]
  /\ \A i \in Request : stage'[i] = "new" <=> request'[i] = NoFile
  /\ \A i \in Request : request[i] # NoFile => request'[i] = request[i]
  /\ shown' \in Receipt \cup {NoFile}
  /\ verified' \in [Signer -> Nat]
  /\ DOMAIN temp' = Process /\ DOMAIN entries' = Request /\ mixed' \in BOOLEAN

LEMMA StagesStep == ASSUME STypeOK, Requests, [SNext]_svars PROVE StagesKept
<1> USE DEF STypeOK, Requests, Over, To, ghosts, StagesKept
<1>1. NoFile \notin Asking
  BY KnownSignersAssumption DEF Asking
<1>2. ASSUME NEW i \in Request, Asks(i) PROVE StagesKept
  <2>1. PICK ask \in Asking, update \in {"record", "label", "forget"}, first \in {"verify", "read"} :
          Ask(i, ask, update, first)
    BY <1>2, AskType
  <2> QED BY <1>1, <2>1 DEF Ask
<1>3. ASSUME NEW i \in Request, stage[i] # "new"
      PROVE  request[i] \in Asking /\ request[i].signer \in Signer /\ request[i].valid \in BOOLEAN
             /\ request[i].by \in {"desktop", "command"} /\ ProcessOf(i) \in Process
  BY <1>3 DEF Asking, ProcessOf, Desktop
<1>4. ASSUME NEW i \in Request, Verify(i) PROVE StagesKept
  <2>1. PICK key \in Signer : key = request[i].signer
    BY <1>3, <1>4 DEF Verify
  <2>2. verified \in [Signer -> Nat]
    OBVIOUS
  <2>3. CASE request[i].valid
    <3>1. verified' = [verified EXCEPT ![key] = @ + 1] /\ stage' = [stage EXCEPT ![i] = "read"]
      BY <1>4, <2>1, <2>3 DEF Verify
    <3>2. verified' \in [Signer -> Nat]
      <4> HIDE DEF STypeOK, StagesKept, Requests, Over, To, ghosts
      <4> QED BY <2>2, <3>1
    <3> QED BY <1>4, <3>1, <3>2 DEF Verify
  <2>4. CASE ~request[i].valid
    <3>1. verified' = verified /\ stage' = [stage EXCEPT ![i] = "reply"]
      BY <1>4, <2>4 DEF Verify
    <3> QED BY <1>4, <3>1 DEF Verify
  <2> QED BY <2>3, <2>4
<1>5. ASSUME NEW i \in Request, BundleUnreadable(i) PROVE StagesKept
  BY <1>5 DEF BundleUnreadable
<1>6. ASSUME NEW i \in Request, Read(i) PROVE StagesKept
  <2>1. mixed' \in BOOLEAN
    BY <1>6 DEF Read
  <2>2. \E next \in {"reply", "verify", "truncate"} : stage' = [stage EXCEPT ![i] = next]
    BY <1>6 DEF Read, After
  <2> QED BY <1>6, <2>1, <2>2 DEF Read
<1>7. ASSUME NEW i \in Request, OpenTemp(i) PROVE StagesKept
  BY <1>7 DEF OpenTemp
<1>8. ASSUME NEW i \in Request, WriteTemp(i) PROVE StagesKept
  BY <1>8 DEF WriteTemp
<1>9. ASSUME NEW i \in Request, Rename(i) PROVE StagesKept
  BY <1>9 DEF Rename, After
<1>10. ASSUME NEW i \in Request, RenameFails(i) PROVE StagesKept
  BY <1>10 DEF RenameFails
<1>11. ASSUME NEW i \in Request, Reply(i) PROVE StagesKept
  <2>1. [signer |-> request[i].signer, valid |-> request[i].valid,
         known |-> Known(list, request[i].signer)] \in Receipt
    BY <1>3, <1>11 DEF Reply, Receipt, Known
  <2> QED BY <1>11, <2>1 DEF Reply
<1>12. CASE Clear
  BY <1>12 DEF Clear
<1>13. ASSUME NEW p \in Process, KillProcess(p) PROVE StagesKept
  BY <1>13 DEF KillProcess, Runs
<1>14. CASE UNCHANGED svars
  BY <1>14 DEF svars
<1> QED BY <1>2, <1>4, <1>5, <1>6, <1>7, <1>8, <1>9, <1>10, <1>11, <1>12, <1>13, <1>14, OneOf DEF Steps

(* No step takes credit away, and a verification that is recorded gives up its part. *)
CreditKept == credit' \in [Signer -> Nat] /\ \A s \in Signer : credit[s] <= credit'[s]

LEMMA PendingStep ==
  ASSUME Requests, StagesKept
  PROVE  \A s \in Signer :
           /\ IsFiniteSet(Pending(s)) /\ Cardinality(Pending(s)) \in Nat
           /\ IsFiniteSet(Pending(s)') /\ Cardinality(Pending(s)') \in Nat
           /\ credit[s] = verified[s] - Cardinality(Pending(s))
           /\ credit'[s] = verified'[s] - Cardinality(Pending(s)')
           /\ verified[s] \in Nat /\ verified'[s] \in Nat /\ credit[s] \in Nat
<1>1. IsFiniteSet(Request)
  BY FS_Interval, KnownSignersAssumption
<1>2. ASSUME NEW s PROVE Pending(s)' \subseteq Request
  BY DEF Pending
<1> QED BY <1>1, <1>2, PendingFinite, FS_Subset, FS_CardinalityType
        DEF Pending, Requests, StagesKept, credit

LEMMA CreditSame ==
  ASSUME Requests, StagesKept, UNCHANGED verified,
         \A s \in Signer : Pending(s)' \subseteq Pending(s)
  PROVE  CreditKept
<1>1. \A s \in Signer : Cardinality(Pending(s)') <= Cardinality(Pending(s))
  BY PendingStep, FS_Subset
<1>2. \A s \in Signer : credit'[s] \in Nat /\ credit[s] <= credit'[s]
  BY <1>1, PendingStep
<1> QED BY <1>2 DEF CreditKept, credit

(* A verification that passes adds to both what is verified and what is pending. *)
LEMMA CreditOfVerify ==
  ASSUME STypeOK, Requests, StagesKept, NEW i \in Request, Verify(i) PROVE CreditKept
<1>1. PICK s \in Signer : s = request[i].signer
  BY DEF Requests, Verify, Asking
<1>2. CASE ~request[i].valid
  <2>1. \A t \in Signer : Pending(t)' \subseteq Pending(t)
    BY <1>2 DEF Verify, To, STypeOK, Pending
  <2> QED BY <1>2, <2>1, CreditSame DEF Verify
<1>3. CASE request[i].valid
  <2>1. /\ stage' = [stage EXCEPT ![i] = "read"] /\ doing' = [doing EXCEPT ![i] = "record"]
        /\ verified' = [verified EXCEPT ![s] = @ + 1] /\ request' = request /\ stage[i] = "verify"
    BY <1>1, <1>3 DEF Verify, To
  <2>2. \A t \in Signer \ {s} : Pending(t)' \subseteq Pending(t) /\ verified'[t] = verified[t]
    BY <1>1, <2>1 DEF STypeOK, Requests, Pending
  <2>3. Pending(s)' = Pending(s) \cup {i} /\ i \notin Pending(s) /\ verified'[s] = verified[s] + 1
    BY <1>1, <2>1 DEF STypeOK, Requests, Pending
  <2>4. Cardinality(Pending(s)') = Cardinality(Pending(s)) + 1
    BY <1>1, <2>3, PendingStep, FS_AddElement
  <2>5. ASSUME NEW t \in Signer \ {s} PROVE Cardinality(Pending(t)') <= Cardinality(Pending(t))
    <3>1. Pending(t)' \subseteq Pending(t) /\ IsFiniteSet(Pending(t))
      BY <2>2, PendingStep
    <3> QED BY <3>1, FS_Subset
  <2>6. credit'[s] \in Nat /\ credit[s] <= credit'[s]
    <3>1. /\ Cardinality(Pending(s)) \in Nat /\ verified[s] \in Nat /\ credit[s] \in Nat
          /\ credit[s] = verified[s] - Cardinality(Pending(s))
          /\ credit'[s] = verified'[s] - Cardinality(Pending(s)')
      BY PendingStep
    <3> QED BY <2>3, <2>4, <3>1
  <2>7. ASSUME NEW t \in Signer \ {s} PROVE credit'[t] \in Nat /\ credit[t] <= credit'[t]
    <3>1. /\ Cardinality(Pending(t)) \in Nat /\ Cardinality(Pending(t)') \in Nat
          /\ credit[t] = verified[t] - Cardinality(Pending(t))
          /\ credit'[t] = verified'[t] - Cardinality(Pending(t)')
          /\ verified[t] \in Nat /\ credit[t] \in Nat
      BY PendingStep
    <3> QED BY <2>2, <2>5, <3>1
  <2> QED BY <2>6, <2>7 DEF CreditKept, credit
<1> QED BY <1>2, <1>3

LEMMA CreditOfRead ==
  ASSUME STypeOK, Requests, StagesKept, NEW i \in Request, Read(i)
  PROVE  CreditKept /\ (doing[i] = "record" =>
           credit[request[i].signer] + 1 <= credit'[request[i].signer])
<1>1. PICK s \in Signer : s = request[i].signer
  BY DEF Requests, Read, Asking
<1>2. /\ stage[i] = "read" /\ UNCHANGED <<doing, request, verified>>
      /\ \E next \in {"reply", "verify", "truncate"} : stage' = [stage EXCEPT ![i] = next]
  BY DEF Read, To, After, ghosts
<1>3. \A t \in Signer : Pending(t)' \subseteq Pending(t)
  BY <1>2 DEF STypeOK, Pending
<1>4. CreditKept
  BY <1>2, <1>3, CreditSame
<1>5. ASSUME doing[i] = "record" PROVE credit[s] + 1 <= credit'[s]
  <2>1. i \in Pending(s) /\ Pending(s)' = Pending(s) \ {i}
    BY <1>1, <1>2, <1>5 DEF STypeOK, Pending
  <2>2. Cardinality(Pending(s)') = Cardinality(Pending(s)) - 1
    BY <1>1, <2>1, PendingStep, FS_RemoveElement
  <2>3. /\ Cardinality(Pending(s)) \in Nat /\ verified[s] \in Nat
        /\ credit[s] = verified[s] - Cardinality(Pending(s))
        /\ credit'[s] = verified'[s] - Cardinality(Pending(s)')
    BY PendingStep
  <2> QED BY <1>2, <2>2, <2>3
<1> QED BY <1>1, <1>4, <1>5

LEMMA CreditStep == ASSUME STypeOK, Requests, [SNext]_svars PROVE CreditKept
<1> USE DEF STypeOK, To, ghosts
<1>1. StagesKept
  BY StagesStep
<1>2. ASSUME NEW i \in Request, Asks(i) PROVE CreditKept
  <2>1. PICK ask \in Asking, update \in {"record", "label", "forget"}, first \in {"verify", "read"} :
          Ask(i, ask, update, first) /\ (update = "record" => first = "verify")
    BY <1>2, AskType
  <2>2. \A s \in Signer : Pending(s)' \subseteq Pending(s)
    BY <1>1, <2>1 DEF Ask, Requests, Pending
  <2> QED BY <1>1, <2>1, <2>2, CreditSame DEF Ask
<1>3. ASSUME NEW i \in Request, Steps(i), ~Verify(i), ~Read(i) PROVE CreditKept
  <2>1. /\ UNCHANGED <<doing, request, verified>>
        /\ \E next \in Over \cup {"verify", "write", "rename", "reply"} :
             stage' = [stage EXCEPT ![i] = next]
    BY <1>3 DEF Steps, BundleUnreadable, OpenTemp, WriteTemp, Rename, RenameFails, Reply, After, Over
  <2>2. \A s \in Signer : Pending(s)' \subseteq Pending(s)
    BY <1>1, <2>1 DEF Over, Pending
  <2> QED BY <1>1, <2>1, <2>2, CreditSame
<1>4. ASSUME NEW p \in Process, KillProcess(p) PROVE CreditKept
  <2>1. \A s \in Signer : Pending(s)' \subseteq Pending(s)
    BY <1>1, <1>4 DEF KillProcess, Pending
  <2> QED BY <1>1, <1>4, <2>1, CreditSame DEF KillProcess
<1>5. ASSUME Clear \/ UNCHANGED svars PROVE CreditKept
  <2>1. \A s \in Signer : Pending(s)' \subseteq Pending(s)
    BY <1>1, <1>5 DEF Clear, svars, Pending
  <2> QED BY <1>1, <1>5, <2>1, CreditSame DEF Clear, svars
<1> QED BY <1>1, <1>2, <1>3, <1>4, <1>5, CreditOfVerify, CreditOfRead, OneOf
----------------------------------------------------------------------------
(***************************************************************************)
(* Trust is earned in every list: on disk, in a file, or in hand.          *)
(***************************************************************************)
(* Each list after a step is one from before, or empty, or what a reader makes of the list. *)
Sources == {list} \cup {{}} \cup {temp[p] : p \in {q \in Process : temp[q] # NoFile}}
                  \cup {entries[i] : i \in Request}

FromSources ==
  /\ list' \in Sources
  /\ \A p \in Process : temp'[p] = NoFile \/ temp'[p] \in Sources
  /\ \A i \in Request : entries'[i] \in Sources \/ (Read(i) /\ entries'[i] = Updated(list, i))

LEMMA Provenance == ASSUME STypeOK, Requests, [SNext]_svars PROVE FromSources
<1> USE DEF Requests, FromSources, Sources, ghosts
<1>1. ASSUME UNCHANGED <<list, temp, entries>> PROVE FromSources
  BY <1>1
<1>2. ASSUME NEW i \in Request, Asks(i) PROVE FromSources
  BY <1>1, <1>2, AskType DEF Ask
<1>3. ASSUME NEW i \in Request, Verify(i) \/ BundleUnreadable(i) \/ Reply(i) PROVE FromSources
  BY <1>1, <1>3 DEF Verify, BundleUnreadable, Reply
<1>4. ASSUME NEW i \in Request, Read(i) PROVE FromSources
  <2>1. entries' = entries \/ entries' = [entries EXCEPT ![i] = Updated(list, i)]
    BY <1>4 DEF Read
  <2> QED BY <1>4, <2>1 DEF Read
<1>5. ASSUME NEW i \in Request, OpenTemp(i) PROVE FromSources
  BY <1>5 DEF OpenTemp
<1>6. ASSUME NEW i \in Request, WriteTemp(i) PROVE FromSources
  <2>1. UNCHANGED entries
    BY <1>6 DEF WriteTemp
  <2>2. list' \in {list, {}, entries[i]}
    BY <1>6 DEF WriteTemp, Written
  <2>3. \A p \in Process : temp'[p] \in {temp[p], {}, entries[i]}
    BY <1>6 DEF WriteTemp, Written
  <2> QED BY <2>1, <2>2, <2>3
<1>7. ASSUME NEW i \in Request, Rename(i) PROVE FromSources
  <2>1. ProcessOf(i) \in Process
    BY <1>7, KnownSignersAssumption DEF Rename, ProcessOf, Desktop, Asking, To
  <2>2. list' = temp[ProcessOf(i)] /\ temp[ProcessOf(i)] # NoFile
    BY <1>7 DEF Rename
  <2>3. \A p \in Process : temp'[p] \in {temp[p], NoFile}
    BY <1>7 DEF Rename
  <2>4. \A j \in Request : entries'[j] \in {entries[j], {}}
    BY <1>7 DEF Rename
  <2> QED BY <2>1, <2>2, <2>3, <2>4
<1>8. ASSUME NEW i \in Request, RenameFails(i) PROVE FromSources
  BY <1>8 DEF RenameFails
<1>9. ASSUME NEW p \in Process, KillProcess(p) PROVE FromSources
  BY <1>9 DEF KillProcess
<1>10. ASSUME Clear \/ UNCHANGED svars PROVE FromSources
  BY <1>1, <1>10 DEF Clear, svars
<1> QED BY <1>2, <1>3, <1>4, <1>5, <1>6, <1>7, <1>8, <1>9, <1>10, OneOf DEF Steps

LEMMA UpdatedEarned ==
  ASSUME STypeOK, Requests, StagesKept, CreditKept, NEW i \in Request, Read(i),
         Earned(list, credit, request)
  PROVE  Earned(Updated(list, i), credit', request')
<1>1. /\ request[i] \in Asking /\ request[i] # NoFile
      /\ request[i].signer \in Signer /\ request[i].name \in Name \cup {NoFile}
      /\ doing[i] \in {"record", "label", "forget"} /\ request' = request
  BY DEF Requests, Read, Asking, STypeOK
<1>2. credit \in [Signer -> Nat] /\ credit' \in [Signer -> Nat]
      /\ \A s \in Signer : credit[s] <= credit'[s]
  BY DEF Requests, CreditKept
<1> HIDE DEF credit
<1>3. Earned(list, credit', request)
  BY <1>2, EarnedStays
<1>4. CASE doing[i] = "record"
  <2>1. credit[request[i].signer] + 1 <= credit'[request[i].signer]
    BY <1>4, CreditOfRead
  <2>2. Earned(record(list, request[i].signer), credit', request)
    BY <1>1, <1>2, <2>1, EarnedRecord
  <2> QED BY <1>1, <1>4, <2>2 DEF Updated
<1>5. CASE doing[i] = "label"
  BY <1>1, <1>3, <1>5, EarnedLabel DEF Updated
<1>6. CASE doing[i] = "forget"
  BY <1>1, <1>3, <1>6, EarnedForget DEF Updated
<1> QED BY <1>1, <1>4, <1>5, <1>6

LEMMA EarnedStep == ASSUME STypeOK, Requests, AllEarned, [SNext]_svars PROVE AllEarned'
<1>1. StagesKept /\ CreditKept /\ FromSources
  BY StagesStep, CreditStep, Provenance
<1>2. \A L \in Sources : Earned(L, credit, request)
  BY EarnedNone DEF AllEarned, Sources
<1>3. \A L \in Sources : Earned(L, credit', request')
  <2>1. credit \in [Signer -> Nat] /\ credit' \in [Signer -> Nat]
        /\ \A s \in Signer : credit[s] <= credit'[s]
    BY <1>1 DEF Requests, CreditKept
  <2>2. \A i \in Request : request[i] # NoFile => request'[i] = request[i]
    BY <1>1 DEF StagesKept
  <2> HIDE DEF credit
  <2> QED BY <1>2, <2>1, <2>2, EarnedStays
<1>4. \A i \in Request : Read(i) => Earned(Updated(list, i), credit', request')
  BY <1>1, UpdatedEarned DEF AllEarned
<1> QED BY <1>1, <1>3, <1>4 DEF AllEarned, FromSources
----------------------------------------------------------------------------
(***************************************************************************)
(* Updates that do not overlap.                                            *)
(***************************************************************************)
LEMMA SameUpdate ==
  ASSUME NEW i \in Request, list' = list, request'[i] = request[i], doing'[i] = doing[i]
  PROVE  Updated(list, i)' = Updated(list, i)
  BY DEF Updated

LEMMA SameProcess ==
  ASSUME NEW i \in Request, request'[i] = request[i]
  PROVE  ProcessOf(i)' = ProcessOf(i)
  BY DEF ProcessOf

(* The step is none of the update of i, and leaves it and its file alone. *)
LEMMA AloneElsewhere ==
  ASSUME Alone, mixed' = mixed, UNCHANGED <<list, meant>>,
         \A j \in Request : Updating(j)' =>
           /\ Updating(j)
           /\ UNCHANGED <<stage[j], request[j], doing[j], entries[j], handle[j]>>
           /\ temp'[ProcessOf(j)] = temp[ProcessOf(j)]
  PROVE  Alone'
<1> SUFFICES ASSUME ~mixed PROVE Alone'
  BY DEF Alone
<1>1. \A j \in Request : Updating(j)' =>
        Updated(list, j)' = Updated(list, j) /\ ProcessOf(j)' = ProcessOf(j)
  BY SameUpdate, SameProcess
<1>2. \A i, j \in Request : Updating(i)' /\ Updating(j)' => i = j
  BY DEF Alone
<1>3. ASSUME NEW j \in Request, Updating(j)'
      PROVE  /\ entries'[j] = Updated(list, j)'
             /\ stage'[j] = "write" => handle'[j] = "temp" /\ temp'[ProcessOf(j)'] = {}
             /\ stage'[j] = "rename" => temp'[ProcessOf(j)'] \in {entries'[j], NoFile}
  BY <1>1, <1>3 DEF Alone
<1>4. \A j \in Request : stage'[j] \in {"write", "rename"} => Updating(j)'
  BY DEF Updating
<1> QED BY <1>2, <1>3, <1>4 DEF Alone

LEMMA AloneStep == ASSUME STypeOK, Requests, Alone, [SNext]_svars PROVE Alone'
<1> USE DEF STypeOK, Requests, To, ghosts, Updating
<1>1. ASSUME NEW i \in Request, Asks(i) PROVE Alone'
  <2>1. PICK ask \in Asking, update \in {"record", "label", "forget"}, first \in {"verify", "read"} :
          Ask(i, ask, update, first)
    BY <1>1, AskType
  <2> QED BY <2>1, AloneElsewhere DEF Ask
<1>2. ASSUME NEW i \in Request, Verify(i) \/ BundleUnreadable(i) \/ Reply(i) PROVE Alone'
  <2>1. /\ UNCHANGED <<list, temp, request, entries, handle, meant, mixed>>
        /\ \A j \in Request \ {i} : doing'[j] = doing[j]
        /\ \E next \in {"read", "reply", "threw", "done"} : stage' = [stage EXCEPT ![i] = next]
    BY <1>2 DEF Verify, BundleUnreadable, Reply
  <2> QED BY <2>1, AloneElsewhere
<1>3. ASSUME NEW i \in Request, Read(i) PROVE Alone'
  <2>1. CASE stage'[i] # "truncate"
    BY <1>3, <2>1, AloneElsewhere DEF Read, After
  <2>2. CASE stage'[i] = "truncate"
    <3>1. /\ stage' = [stage EXCEPT ![i] = "truncate"]
          /\ entries' = [entries EXCEPT ![i] = Updated(list, i)]
          /\ mixed' = (mixed \/ \E j \in Request \ {i} : Updating(j))
          /\ UNCHANGED <<list, temp, request, doing, handle, meant>>
      BY <1>3, <2>2 DEF Read, After
    <3>2. ~mixed' => ~mixed /\ \A j \in Request : Updating(j)' => j = i
      BY <3>1
    <3>3. Updated(list, i)' = Updated(list, i)
      BY <3>1, SameUpdate
    <3> QED BY <3>1, <3>2, <3>3 DEF Alone
  <2> QED BY <2>1, <2>2
<1>4. ASSUME NEW i \in Request, Updating(i), ~mixed
      PROVE  /\ \A j \in Request : Updating(j) => j = i
             /\ entries[i] = Updated(list, i) /\ list = meant
             /\ ProcessOf(i) \in Process
  <2>1. ProcessOf(i) \in Process
    BY DEF ProcessOf, Desktop
  <2>2. \A j \in Request : Updating(j) => j = i
    BY <1>4 DEF Alone
  <2> QED BY <1>4, <2>1, <2>2 DEF Alone
<1>5. ASSUME NEW i \in Request, OpenTemp(i) PROVE Alone'
  <2>1. /\ stage' = [stage EXCEPT ![i] = "write"] /\ handle' = [handle EXCEPT ![i] = "temp"]
        /\ temp' = [temp EXCEPT ![ProcessOf(i)] = {}]
        /\ UNCHANGED <<list, request, doing, entries, meant, mixed>> /\ Updating(i)
    BY <1>5 DEF OpenTemp
  <2>2. Updated(list, i)' = Updated(list, i) /\ ProcessOf(i)' = ProcessOf(i)
    BY <2>1, SameUpdate, SameProcess
  <2> QED BY <1>4, <2>1, <2>2 DEF Alone
<1>6. ASSUME NEW i \in Request, WriteTemp(i) PROVE Alone'
  <2> SUFFICES ASSUME ~mixed PROVE Alone'
    BY <1>6 DEF Alone, WriteTemp
  <2>1. /\ stage[i] = "write" /\ handle[i] = "temp" /\ temp[ProcessOf(i)] = {}
    BY <1>6 DEF WriteTemp, Alone
  <2>2. /\ stage' = [stage EXCEPT ![i] = "rename"]
        /\ temp' = [temp EXCEPT ![ProcessOf(i)] = entries[i]]
        /\ UNCHANGED <<list, request, doing, entries, meant, mixed>>
    BY <1>6, <2>1 DEF WriteTemp, Written
  <2>3. Updated(list, i)' = Updated(list, i) /\ ProcessOf(i)' = ProcessOf(i)
    BY <2>2, SameUpdate, SameProcess
  <2> QED BY <1>4, <2>1, <2>2, <2>3 DEF Alone
<1>7. ASSUME NEW i \in Request, Rename(i) PROVE Alone'
  <2> SUFFICES ASSUME ~mixed PROVE Alone'
    BY <1>7 DEF Alone, Rename
  <2>1. /\ \E next \in {"reply", "verify"} : stage' = [stage EXCEPT ![i] = next]
        /\ list' = temp[ProcessOf(i)] /\ meant' = Updated(meant, i) /\ mixed' = mixed
        /\ stage[i] = "rename" /\ temp[ProcessOf(i)] # NoFile
    BY <1>7 DEF Rename, After
  <2>2. list' = meant'
    BY <1>4, <2>1 DEF Alone
  <2>3. \A j \in Request : ~Updating(j)'
    BY <1>4, <2>1
  <2> QED BY <2>1, <2>2, <2>3 DEF Alone
<1>8. ASSUME NEW i \in Request, RenameFails(i) PROVE Alone'
  <2> SUFFICES ASSUME ~mixed PROVE Alone'
    BY <1>8 DEF Alone, RenameFails
  <2>1. /\ stage' = [stage EXCEPT ![i] = "threw"] /\ stage[i] = "rename"
        /\ UNCHANGED <<list, meant, mixed>>
    BY <1>8 DEF RenameFails
  <2>2. \A j \in Request : ~Updating(j)'
    BY <1>4, <2>1
  <2> QED BY <2>1, <2>2 DEF Alone
<1>9. ASSUME NEW p \in Process, KillProcess(p) PROVE Alone'
  <2>1. ASSUME NEW j \in Request, Updating(j)'
        PROVE  /\ Updating(j)
               /\ UNCHANGED <<stage[j], request[j], doing[j], entries[j], handle[j]>>
               /\ temp'[ProcessOf(j)] = temp[ProcessOf(j)]
    BY <1>9, <2>1 DEF KillProcess, Runs, Over
  <2> QED BY <1>9, <2>1, AloneElsewhere DEF KillProcess
<1>10. ASSUME Clear \/ UNCHANGED svars PROVE Alone'
  BY <1>10, AloneElsewhere DEF Clear, svars
<1> QED BY <1>1, <1>2, <1>3, <1>5, <1>6, <1>7, <1>8, <1>9, <1>10, OneOf DEF Steps
----------------------------------------------------------------------------
LEMMA UpdatedEntries ==
  ASSUME STypeOK, Requests, NEW i \in Request, stage[i] # "new", NEW L, L \subseteq Entries
  PROVE  Updated(L, i) \subseteq Entries
<1>1. request[i].signer \in Signer /\ request[i].name \in Name \cup {NoFile}
  BY DEF Requests, Asking
<1>2. ASSUME NEW e \in Entries, NEW name \in Name \cup {NoFile}
      PROVE  /\ [e EXCEPT !.receipts_verified = @ + 1] \in Entries
             /\ [e EXCEPT !.label = name] \in Entries
  BY DEF Entries
<1>3. \A s \in Signer : Entry(s, 1, NoFile) \in Entries
  BY DEF Entry, Entries
<1>4. record(L, request[i].signer) \subseteq Entries
  BY <1>1, <1>2, <1>3 DEF record
<1>5. label(L, request[i].signer, request[i].name) \subseteq Entries
  BY <1>1, <1>2 DEF label
<1>6. forget(L, request[i].signer) \subseteq Entries
  BY DEF forget
<1>7. doing[i] \in {"record", "label", "forget"}
  BY DEF STypeOK
<1> QED BY <1>4, <1>5, <1>6, <1>7 DEF Updated

LEMMA Initially == SInit => SIInv
<1> SUFFICES ASSUME SInit PROVE SIInv
  OBVIOUS
<1>1. NoFile \notin Asking
  BY KnownSignersAssumption DEF Asking
<1>2. ASSUME NEW s \in Signer PROVE Cardinality(Pending(s)) = 0
  <2>1. Pending(s) = {}
    BY DEF SInit, Pending
  <2> QED BY <2>1, FS_EmptySet
<1>3. credit \in [Signer -> Nat]
  BY <1>2 DEF credit, SInit
<1>4. STypeOK
  BY DEF SInit, STypeOK, Over
<1>5. Requests
  BY <1>1, <1>3 DEF SInit, Requests
<1>6. AllEarned
  BY EarnedNone DEF AllEarned, SInit
<1>7. Alone
  BY DEF Alone, SInit, Updating
<1> QED BY <1>4, <1>5, <1>6, <1>7 DEF SIInv

LEMMA Inductive == SIInv /\ [SNext]_svars => SIInv'
<1> SUFFICES ASSUME SIInv, [SNext]_svars PROVE SIInv'
  OBVIOUS
<1> USE DEF SIInv
<1>1. StagesKept /\ CreditKept /\ AllEarned' /\ Alone'
  BY StagesStep, CreditStep, EarnedStep, AloneStep
<1>2. Requests'
  BY <1>1 DEF Requests, StagesKept, CreditKept
<1>3. meant' = meant \/ \E i \in Request : meant' = Updated(meant, i) /\ stage[i] # "new"
  <2>1. ASSUME NEW i \in Request, Asks(i) PROVE UNCHANGED meant
    BY <2>1, AskType DEF Ask, ghosts
  <2>2. ASSUME NEW i \in Request, Steps(i)
        PROVE  meant' = meant \/ (meant' = Updated(meant, i) /\ stage[i] # "new")
    BY <2>2 DEF Steps, Verify, BundleUnreadable, Read, OpenTemp, WriteTemp, Rename, RenameFails,
                Reply, ghosts
  <2> QED BY <2>1, <2>2, OneOf DEF Clear, KillProcess, svars, ghosts
<1>4. meant' \subseteq Entries
  BY <1>3, UpdatedEntries DEF STypeOK
<1>5. STypeOK'
  BY <1>1, <1>4 DEF STypeOK, StagesKept, AllEarned, Earned
<1> QED BY <1>1, <1>2, <1>5

(* The invariant that the theorems below rest on. *)
THEOREM SignersInvariance == SSpec => []SIInv
  BY Initially, Inductive, PTL DEF SSpec

(* Each variable keeps its type; no entry on the list is of no receipt or of no key. *)
THEOREM SignersTypes == SSpec => []STypeOK
<1>1. SIInv => STypeOK
  BY DEF SIInv
<1> QED BY <1>1, SignersInvariance, PTL

(***************************************************************************)
(* Trust is earned and kept, for any number of handlers and commands: a    *)
(* key is listed once, with no more receipts than of its were verified and *)
(* with a name the user gave it, however updates overlap or are cut off;   *)
(* and the list is what the updates make of it unless two overlapped.      *)
(***************************************************************************)
THEOREM TrustIsEarned == SSpec => []SignersKept
<1>1. ASSUME SIInv PROVE SignersKept
  <2>1. Earned(list, credit, request) /\ list \subseteq Entries
    BY <1>1 DEF SIInv, AllEarned, STypeOK
  <2>2. \A s \in Signer : credit[s] <= verified[s] /\ credit[s] \in Nat /\ verified[s] \in Nat
    BY <1>1, PendingFinite DEF SIInv, Requests, credit
  <2>3. \A e \in list : e.receipts_verified <= verified[e.address]
    <3> SUFFICES ASSUME NEW e \in list PROVE e.receipts_verified <= verified[e.address]
      OBVIOUS
    <3>1. e.address \in Signer /\ e.receipts_verified \in Nat
      BY <2>1 DEF Entries
    <3>2. e.receipts_verified <= credit[e.address]
      BY <2>1 DEF Earned
    <3> HIDE DEF credit
    <3> QED BY <2>2, <3>1, <3>2
  <2>4. ~mixed => list = meant
    BY <1>1 DEF SIInv, Alone
  <2> QED BY <2>1, <2>3, <2>4 DEF SignersKept, Earned
<1> QED BY <1>1, SignersInvariance, PTL
----------------------------------------------------------------------------
(***************************************************************************)
(* The desktop.  A step of one part leaves the others as they are.         *)
(***************************************************************************)
PartsInv == part \in {"connections", "receipts", "session"} /\ CIInv /\ SIInv /\ VIInv

LEMMA PartsInitially == Init => PartsInv
  BY ConnectionsInitially, Initially, SessionInitially DEF Init, PartsInv

LEMMA PartsInductive == PartsInv /\ [Next]_<<part, cvars, svars, vvars>> => PartsInv'
<1> SUFFICES ASSUME PartsInv, [Next]_<<part, cvars, svars, vvars>> PROVE PartsInv'
  OBVIOUS
<1>1. part' = part /\ [CNext]_cvars /\ [SNext]_svars /\ [VNext]_vvars
  BY DEF Next
<1>2. CIInv' /\ SIInv' /\ VIInv'
  BY <1>1, ConnectionsInductive, Inductive, SessionInductive DEF PartsInv
<1> QED BY <1>1, <1>2 DEF PartsInv

(***************************************************************************)
(* Whatever part of the desktop runs, the connections, the trust list and  *)
(* the session view are well typed.                                        *)
(***************************************************************************)
THEOREM DesktopTypes == Spec => []TypeOK
<1>1. PartsInv => TypeOK
  BY DEF PartsInv, TypeOK, CIInv, SIInv, VIInv
<1> QED BY <1>1, PartsInitially, PartsInductive, PTL DEF Spec
=============================================================================
