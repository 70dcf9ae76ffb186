------------------------- MODULE SearchIndexProofs -------------------------
(***************************************************************************)
(* Proofs about SearchIndex, for any sessions, searches side by side,      *)
(* events, limits, and any number of damaged index files.                  *)
(***************************************************************************)
EXTENDS SearchIndex, FiniteSetTheorems, WellFoundedInduction, TLAPS

(***************************************************************************)
(* Induction along a list, for a set of numbers: what is true of 0, and of *)
(* k + 1 if of k, is true up to n.                                         *)
(***************************************************************************)
LEMMA UpTo ==
  ASSUME NEW n \in Nat, NEW good, 0 \in good, \A k \in 1..n : k - 1 \in good => k \in good
  PROVE  \A k \in 0..n : k \in good
<1> DEFINE bad == {k \in 0..n : k \notin good}
           R == {p \in Nat \X Nat : p[1] < p[2]}
<1>1. SUFFICES ASSUME bad # {} PROVE FALSE
  OBVIOUS
<1>2. IsWellFoundedOn(R, Nat)
  BY NatLessThanWellFounded DEF OpToRel
<1>3. bad \subseteq Nat
  OBVIOUS
<1>4. \E m \in bad : \A k \in bad : ~(<<k, m>> \in R)
  <2> HIDE DEF R, bad
  <2> QED BY <1>1, <1>2, <1>3, WFMin
<1>5. PICK m \in bad : \A k \in bad : ~(<<k, m>> \in R)
  BY <1>4
<1>6. m \in 1..n /\ m - 1 \in Nat /\ m - 1 \in 0..n /\ <<m - 1, m>> \in R
  BY <1>5
<1>7. m - 1 \in good
  BY <1>5, <1>6
<1> QED BY <1>5, <1>6, <1>7

(* What Among collects of the first n elements. *)
Collects(f, seq, S, n) ==
  f = [k \in 0..n |-> IF k = 0 THEN <<>>
                      ELSE IF seq[k] \in S THEN Append(f[k - 1], seq[k]) ELSE f[k - 1]]

LEMMA CollectsExists ==
  ASSUME NEW T, NEW seq \in Seq(T), NEW S
  PROVE  \A n \in 0..Len(seq) : \E f : Collects(f, seq, S, n)
<1> DEFINE good == {n \in 0..Len(seq) : \E f : Collects(f, seq, S, n)}
<1>1. 0 \in good
  <2> DEFINE f == [k \in 0..0 |-> <<>>]
  <2>1. Collects(f, seq, S, 0)
    BY DEF Collects
  <2> QED BY <2>1
<1>2. ASSUME NEW n \in 1..Len(seq), n - 1 \in good PROVE n \in good
  <2>1. PICK f : Collects(f, seq, S, n - 1)
    BY <1>2
  <2> DEFINE last == IF seq[n] \in S THEN Append(f[n - 1], seq[n]) ELSE f[n - 1]
             g == [k \in 0..n |-> IF k = n THEN last ELSE f[k]]
  <2>2. \A k \in 0..(n - 1) : g[k] = f[k] /\ k # n
    OBVIOUS
  <2>3. ASSUME NEW k \in 0..n
        PROVE  g[k] = IF k = 0 THEN <<>>
                      ELSE IF seq[k] \in S THEN Append(g[k - 1], seq[k]) ELSE g[k - 1]
    <3>1. CASE k = n
      <4>1. g[k] = last /\ n # 0 /\ g[k - 1] = f[n - 1]
        BY <2>2, <3>1
      <4> QED BY <3>1, <4>1
    <3>2. CASE k # n
      <4>1. k \in 0..(n - 1) /\ (k # 0 => k - 1 \in 0..(n - 1))
        BY <3>2
      <4>2. f[k] = IF k = 0 THEN <<>>
                   ELSE IF seq[k] \in S THEN Append(f[k - 1], seq[k]) ELSE f[k - 1]
        <5> HIDE DEF g, last
        <5> QED BY <2>1, <4>1 DEF Collects
      <4>3. g[k] = f[k] /\ (k # 0 => g[k - 1] = f[k - 1])
        BY <2>2, <4>1
      <4> HIDE DEF g
      <4> QED BY <4>2, <4>3
    <3> QED BY <3>1, <3>2
  <2>4. g = [k \in 0..n |-> g[k]]
    OBVIOUS
  <2>5. Collects(g, seq, S, n)
    <3> HIDE DEF g
    <3> QED BY <2>3, <2>4 DEF Collects
  <2> QED BY <2>5
<1>3. Len(seq) \in Nat
  OBVIOUS
<1>4. \A n \in 0..Len(seq) : n \in good
  <2> HIDE DEF good
  <2> QED BY <1>1, <1>2, <1>3, UpTo
<1> QED BY <1>4

LEMMA AmongCollects ==
  ASSUME NEW T, NEW seq \in Seq(T), NEW S
  PROVE  \E f : Collects(f, seq, S, Len(seq)) /\ Among(seq, S) = f[Len(seq)]
<1>0. Len(seq) \in 0..Len(seq)
  OBVIOUS
<1>1. PICK f : Collects(f, seq, S, Len(seq))
  BY <1>0, CollectsExists
<1> QED BY <1>1, Zenon DEF Among, Collects

(***************************************************************************)
(* Among leaves out what is not in S, and nothing else: no element comes   *)
(* twice if none did.                                                      *)
(***************************************************************************)
LEMMA AmongProperties ==
  ASSUME NEW T, NEW seq \in Seq(T), NEW S
  PROVE  /\ Among(seq, S) \in Seq(T)
         /\ Range(Among(seq, S)) = Range(seq) \cap S
         /\ IsInjective(seq) => IsInjective(Among(seq, S))
<1>1. PICK f : Collects(f, seq, S, Len(seq)) /\ Among(seq, S) = f[Len(seq)]
  BY AmongCollects
<1> DEFINE first(n) == {seq[i] : i \in 1..n}
           good == {n \in 0..Len(seq) : /\ f[n] \in Seq(T)
                                        /\ Range(f[n]) = first(n) \cap S
                                        /\ IsInjective(seq) => IsInjective(f[n])}
<1>0. Len(seq) \in Nat
  OBVIOUS
<1>2. \A n \in 0..Len(seq) :
        f[n] = IF n = 0 THEN <<>> ELSE IF seq[n] \in S THEN Append(f[n - 1], seq[n]) ELSE f[n - 1]
  BY <1>1 DEF Collects
<1>3. 0 \in good
  <2>1. f[0] = <<>>
    BY <1>0, <1>2
  <2>2. Range(f[0]) = {} /\ first(0) = {}
    BY <2>1 DEF Range
  <2>3. f[0] \in Seq(T) /\ IsInjective(f[0])
    BY <2>1 DEF IsInjective
  <2> QED BY <1>0, <2>2, <2>3
<1>4. ASSUME NEW n \in 1..Len(seq), n - 1 \in good PROVE n \in good
  <2>1. PICK g : g = f[n - 1]
    OBVIOUS
  <2>2. /\ g \in Seq(T) /\ Range(g) = first(n - 1) \cap S
        /\ IsInjective(seq) => IsInjective(g)
    BY <1>4, <2>1
  <2>3. first(n) = first(n - 1) \cup {seq[n]}
    OBVIOUS
  <2>4. f[n] = IF seq[n] \in S THEN Append(g, seq[n]) ELSE g
    BY <1>2, <2>1
  <2>5. seq[n] \in T
    OBVIOUS
  <2>6. CASE seq[n] \notin S
    <3> HIDE DEF first
    <3> QED BY <2>2, <2>3, <2>4, <2>6
  <2>7. CASE seq[n] \in S
    <3>1. f[n] = Append(g, seq[n]) /\ f[n] \in Seq(T)
      BY <2>2, <2>4, <2>5, <2>7
    <3>2. Range(f[n]) = Range(g) \cup {seq[n]}
      BY <2>2, <2>5, <3>1 DEF Range
    <3>3. Range(f[n]) = first(n) \cap S
      <4> HIDE DEF first
      <4> QED BY <2>2, <2>3, <2>7, <3>2
    <3>4. ASSUME IsInjective(seq) PROVE IsInjective(f[n])
      <4>1. seq[n] \notin first(n - 1)
        BY <3>4 DEF IsInjective
      <4>2. seq[n] \notin Range(g)
        <5> HIDE DEF first
        <5> QED BY <2>2, <4>1
      <4>3. IsInjective(g)
        BY <2>2, <3>4
      <4> QED BY <2>2, <2>5, <3>1, <4>2, <4>3 DEF IsInjective, Range
    <3>5. n \in 0..Len(seq)
      OBVIOUS
    <3> HIDE DEF first
    <3> QED BY <3>1, <3>3, <3>4, <3>5
  <2> QED BY <2>6, <2>7
<1>5. \A n \in 0..Len(seq) : n \in good
  <2> HIDE DEF good
  <2> QED BY <1>0, <1>3, <1>4, UpTo
<1>6. Len(seq) \in good
  <2> HIDE DEF good
  <2> QED BY <1>0, <1>5
<1>7. first(Len(seq)) = Range(seq)
  BY DEF Range
<1> QED BY <1>1, <1>6, <1>7

LEMMA Appended ==
  ASSUME NEW T, NEW seq \in Seq(T), NEW e \in T
  PROVE  /\ Append(seq, e) \in Seq(T) /\ Range(Append(seq, e)) = Range(seq) \cup {e}
         /\ IsInjective(seq) /\ e \notin Range(seq) => IsInjective(Append(seq, e))
<1>1. PICK more : more = Append(seq, e)
  OBVIOUS
<1>2. /\ more \in Seq(T) /\ DOMAIN more = 1..(Len(seq) + 1) /\ DOMAIN seq = 1..Len(seq)
      /\ more[Len(seq) + 1] = e /\ \A i \in 1..Len(seq) : more[i] = seq[i]
      /\ Len(seq) \in Nat
  BY <1>1
<1>3. Range(more) = Range(seq) \cup {e}
  BY <1>2 DEF Range
<1>4. IsInjective(seq) /\ e \notin Range(seq) => IsInjective(more)
  BY <1>2 DEF Range, IsInjective
<1> QED BY <1>1, <1>2, <1>3, <1>4

LEMMA Joined ==
  ASSUME NEW T, NEW one \in Seq(T), NEW two \in Seq(T)
  PROVE  /\ one \o two \in Seq(T) /\ Range(one \o two) = Range(one) \cup Range(two)
         /\ Len(one \o two) = Len(one) + Len(two)
         /\ IsInjective(one) /\ IsInjective(two) /\ Range(one) \cap Range(two) = {} =>
              IsInjective(one \o two)
<1>1. one \o two \in Seq(T) /\ Len(one \o two) = Len(one) + Len(two)
  OBVIOUS
<1>2. PICK both : both = one \o two
  OBVIOUS
<1>3. /\ Len(one) \in Nat /\ Len(two) \in Nat /\ DOMAIN both = 1..(Len(one) + Len(two))
      /\ DOMAIN one = 1..Len(one) /\ DOMAIN two = 1..Len(two)
  BY <1>1, <1>2
<1>4. \A i \in DOMAIN one : both[i] = one[i]
  BY <1>2
<1>5. \A i \in DOMAIN two : both[Len(one) + i] = two[i]
  BY <1>2
<1>6. \A i \in DOMAIN both : \/ i \in DOMAIN one
                             \/ i - Len(one) \in DOMAIN two /\ i = Len(one) + (i - Len(one))
  BY <1>3
<1>7. \A i \in DOMAIN one : i \in DOMAIN both
  BY <1>3
<1>8. \A i \in DOMAIN two : Len(one) + i \in DOMAIN both
  BY <1>3
<1>9. Range(both) = Range(one) \cup Range(two)
  BY <1>4, <1>5, <1>6, <1>7, <1>8 DEF Range
<1>10. ASSUME IsInjective(one), IsInjective(two), Range(one) \cap Range(two) = {}
      PROVE  IsInjective(both)
  <2>1. SUFFICES ASSUME NEW i \in DOMAIN both, NEW j \in DOMAIN both, both[i] = both[j] PROVE i = j
    BY DEF IsInjective
  <2>2. CASE i \in DOMAIN one /\ j \in DOMAIN one
    BY <1>4, <1>10, <2>1, <2>2 DEF IsInjective
  <2>3. CASE i - Len(one) \in DOMAIN two /\ j - Len(one) \in DOMAIN two
    <3>1. both[i] = two[i - Len(one)] /\ both[j] = two[j - Len(one)]
      BY <1>3, <1>5, <1>6, <2>3
    <3>2. i - Len(one) = j - Len(one)
      BY <1>10, <2>1, <2>3, <3>1 DEF IsInjective
    <3> QED BY <1>3, <3>2
  <2>4. ASSUME NEW k \in DOMAIN one, NEW l \in DOMAIN both, l - Len(one) \in DOMAIN two, both[k] = both[l]
        PROVE  FALSE
    <3>1. both[k] = one[k]
      BY <1>4
    <3>2. both[l] = two[l - Len(one)]
      BY <1>3, <1>5, <1>6, <2>4
    <3> QED BY <1>10, <2>4, <3>1, <3>2 DEF Range
  <2> QED BY <1>6, <2>1, <2>2, <2>3, <2>4
<1> QED BY <1>1, <1>2, <1>9, <1>10

LEMMA CutOff ==
  ASSUME NEW T, NEW seq \in Seq(T), NEW n \in 0..Len(seq)
  PROVE  /\ SubSeq(seq, 1, n) \in Seq(T) /\ Len(SubSeq(seq, 1, n)) = n
         /\ Range(SubSeq(seq, 1, n)) \subseteq Range(seq)
         /\ IsInjective(seq) => IsInjective(SubSeq(seq, 1, n))
         /\ n = Len(seq) => SubSeq(seq, 1, n) = seq
<1>1. SubSeq(seq, 1, n) \in Seq(T) /\ Len(SubSeq(seq, 1, n)) = n
  OBVIOUS
<1>2. \A i \in 1..n : SubSeq(seq, 1, n)[i] = seq[i] /\ i \in DOMAIN seq
  OBVIOUS
<1>3. n = Len(seq) => SubSeq(seq, 1, n) = seq
  OBVIOUS
<1>4. DOMAIN SubSeq(seq, 1, n) = 1..n
  BY <1>1
<1>5. PICK cut : cut = SubSeq(seq, 1, n)
  OBVIOUS
<1> QED BY <1>1, <1>2, <1>3, <1>4, <1>5 DEF Range, IsInjective
----------------------------------------------------------------------------
AppendType == [event : Event, entries : Entries \cup {None}]
HandType == [session : Session, events : Entries, entries : Entries]

Types ==
  /\ events \in [Session -> Entries]
  /\ index \in [Session -> Entries \cup {Unreadable}]
  /\ append \in [Session -> AppendType \cup {None}]
  /\ pc \in [Search -> {"new", "next", "index", "write", "reported", "failed"}]
  /\ todo \in [Search -> SUBSET Session]
  /\ hand \in [Search -> HandType \cup {None}]
  /\ results \in [Search -> Seq(Matches \cap Event)]
  /\ skipped \in [Search -> SUBSET Event] /\ before \in [Search -> SUBSET Event]
  /\ faults \in 0..MaxFaults

(* Events are numbered as they are recorded, each in one session. *)
Numbered ==
  /\ \E n \in 0..MaxEvents : Recorded = 1..n
  /\ \A s, t \in Session : s # t => Range(events[s]) \cap Range(events[t]) = {}

(* An index, on disk or in a writer's hands, is of its session's events. *)
Indexed ==
  \A s \in Session :
    /\ Range(Read(s)) \subseteq Range(events[s])
    /\ append[s] # None =>
         /\ append[s].event \in Range(events[s])
         /\ append[s].entries # None => Range(append[s].entries) \subseteq Range(events[s])

InHand(q) == pc[q] \in {"index", "write"}

(* The session that a search is at: nothing that it read has gone. *)
AtSession(q) ==
  /\ InHand(q) =>
       /\ hand[q] \in HandType /\ hand[q].session \notin todo[q]
       /\ Range(hand[q].events) \subseteq Range(events[hand[q].session])
       /\ Range(hand[q].entries) \subseteq Range(events[hand[q].session])
  /\ pc[q] = "write" => Range(hand[q].events) \ skipped[q] \subseteq Range(hand[q].entries)

(* The sessions that a search has reported nothing of. *)
Ahead(q) == todo[q] \cup {s \in Session : InHand(q) /\ s = hand[q].session}

Reports(q) ==
  /\ IsInjective(results[q]) /\ Len(results[q]) <= Limit
  /\ Range(results[q]) \subseteq Recorded /\ before[q] \subseteq Recorded
  /\ \A s \in Ahead(q) : Range(results[q]) \cap Range(events[s]) = {}
  /\ pc[q] = "new" => results[q] = <<>>
  /\ pc[q] = "reported" => todo[q] = {}

(* What the search has to report is reported, or of a session still ahead. *)
Covers(q) ==
  pc[q] \notin {"new", "failed"} =>
    \/ Len(results[q]) = Limit
    \/ \A e \in (before[q] \cap Matches) \ skipped[q] :
         \/ e \in Range(results[q])
         \/ \E s \in todo[q] : e \in Range(events[s])
         \/ InHand(q) /\ e \in Range(hand[q].events)

IInv ==
  /\ Types /\ Numbered /\ Indexed
  /\ \A q \in Search : AtSession(q) /\ Reports(q) /\ Covers(q)
----------------------------------------------------------------------------
LEMMA EventsRecorded == \A s \in Session : Range(events[s]) \subseteq Recorded
  BY DEF Recorded

LEMMA ReadIsEntries == ASSUME Types, NEW s \in Session PROVE Read(s) \in Entries
<1>1. <<>> \in Seq(Event) /\ IsInjective(<<>>)
  BY DEF IsInjective
<1> QED BY <1>1 DEF Types, Read, Entries

(* The number of an event that is recorded is new, and only its session grows. *)
LEMMA Grows ==
  ASSUME IInv, NEW s \in Session, NewEvent \in Event,
         events' = [events EXCEPT ![s] = Append(@, NewEvent)]
  PROVE  /\ events' \in [Session -> Entries] /\ Numbered'
         /\ NewEvent \notin Recorded /\ Recorded' = Recorded \cup {NewEvent}
         /\ NewEvent \in Range(events'[s])
         /\ \A r \in Session : /\ Range(events[r]) \subseteq Range(events'[r])
                              /\ Range(events'[r]) \subseteq Range(events[r]) \cup {NewEvent}
<1>1. PICK n \in 0..MaxEvents : Recorded = 1..n
  BY DEF IInv, Numbered
<1>2. n \in Nat /\ MaxEvents \in Nat
  BY <1>1, SearchAssumption
<1>3. Cardinality(1..n) = n
  BY <1>2, FS_Interval
<1>4. NewEvent = n + 1 /\ n + 1 \in 0..MaxEvents
  BY <1>1, <1>2, <1>3 DEF NewEvent, Event
<1>5. PICK new : new = NewEvent
  OBVIOUS
<1>6. new = n + 1 /\ new \notin Recorded /\ new \in Event
  BY <1>1, <1>2, <1>4, <1>5
<1>7. events[s] \in Seq(Event) /\ IsInjective(events[s]) /\ new \notin Range(events[s])
  BY <1>6, EventsRecorded DEF IInv, Types, Entries
<1>8. /\ Append(events[s], new) \in Entries
      /\ Range(Append(events[s], new)) = Range(events[s]) \cup {new}
  BY <1>6, <1>7, Appended DEF Entries
<1>9. events' \in [Session -> Entries] /\ events'[s] = Append(events[s], new)
      /\ \A r \in Session : r # s => events'[r] = events[r]
  BY <1>5, <1>8 DEF IInv, Types
<1>10. \A r \in Session : Range(events'[r]) = IF r = s THEN Range(events[r]) \cup {new} ELSE Range(events[r])
  BY <1>8, <1>9
<1>15. \A r \in Session : \A e : e \in Range(events'[r]) <=> e \in Range(events[r]) \/ (r = s /\ e = new)
  <2>1. \A r \in Session : r = s => Range(events'[r]) = Range(events[r]) \cup {new}
    BY <1>10
  <2>2. \A r \in Session : r # s => Range(events'[r]) = Range(events[r])
    BY <1>10
  <2> SUFFICES ASSUME NEW r \in Session, NEW e
               PROVE  e \in Range(events'[r]) <=> e \in Range(events[r]) \/ (r = s /\ e = new)
    OBVIOUS
  <2> QED BY <2>1, <2>2
<1>11. Recorded' = Recorded \cup {new}
  <2>1. Recorded' = UNION {Range(events'[r]) : r \in Session}
    BY DEF Recorded
  <2>2. ASSUME NEW e PROVE e \in UNION {Range(events'[r]) : r \in Session} <=> e \in Recorded \/ e = new
    <3>1. e \in UNION {Range(events'[r]) : r \in Session} <=> \E r \in Session : e \in Range(events'[r])
      OBVIOUS
    <3>2. e \in Recorded <=> \E r \in Session : e \in Range(events[r])
      BY DEF Recorded
    <3> QED BY <1>15, <3>1, <3>2
  <2> QED BY <2>1, <2>2
<1>12. Recorded' = 1..(n + 1)
  BY <1>1, <1>2, <1>6, <1>11
<1>13. \A r, t \in Session : r # t => Range(events'[r]) \cap Range(events'[t]) = {}
  <2>1. \A r \in Session : new \notin Range(events[r])
    BY <1>6, EventsRecorded
  <2>2. \A r, t \in Session : r # t => Range(events[r]) \cap Range(events[t]) = {}
    BY DEF IInv, Numbered
  <2> SUFFICES ASSUME NEW r \in Session, NEW t \in Session, r # t,
                      NEW e, e \in Range(events'[r]), e \in Range(events'[t])
               PROVE  FALSE
    OBVIOUS
  <2>3. e \in Range(events[r]) \/ (r = s /\ e = new)
    BY <1>15
  <2>4. e \in Range(events[t]) \/ (t = s /\ e = new)
    BY <1>15
  <2> QED BY <2>1, <2>2, <2>3, <2>4
<1>14. Numbered'
  BY <1>4, <1>12, <1>13 DEF Numbered
<1> QED BY <1>5, <1>6, <1>9, <1>10, <1>11, <1>14

LEMMA Recording == ASSUME IInv, NEW s \in Session, RecordHook(s) \/ RecordRun(s) PROVE IInv'
<1>1. /\ NewEvent \in Event /\ events' = [events EXCEPT ![s] = Append(@, NewEvent)]
      /\ UNCHANGED <<index, search, faults>>
      /\ \/ append' = append
         \/ append' = [append EXCEPT ![s] = [event |-> NewEvent, entries |-> None]]
  BY DEF RecordHook, RecordRun
<1>2. PICK new : new = NewEvent
  OBVIOUS
<1>3. /\ events' \in [Session -> Entries] /\ Numbered'
      /\ new \notin Recorded /\ Recorded' = Recorded \cup {new} /\ new \in Event
      /\ new \in Range(events'[s])
      /\ \A r \in Session : /\ Range(events[r]) \subseteq Range(events'[r])
                           /\ Range(events'[r]) \subseteq Range(events[r]) \cup {new}
  BY <1>1, <1>2, Grows
<1>4. append' = append \/ append' = [append EXCEPT ![s] = [event |-> new, entries |-> None]]
  BY <1>1, <1>2
<1>5. Types'
  <2>1. [event |-> new, entries |-> None] \in AppendType
    BY <1>3 DEF AppendType
  <2>2. append' \in [Session -> AppendType \cup {None}]
    BY <1>4, <2>1 DEF IInv, Types
  <2> QED BY <1>1, <1>3, <2>2 DEF IInv, Types, search
<1>6. Indexed'
  <2>1. \A r \in Session : Read(r)' = Read(r)
    BY <1>1 DEF Read
  <2>2. ASSUME NEW r \in Session, append'[r] # None
        PROVE  /\ append'[r].event \in Range(events'[r])
               /\ append'[r].entries # None => Range(append'[r].entries) \subseteq Range(events'[r])
    <3>1. append'[r] = append[r] \/ (r = s /\ append'[r] = [event |-> new, entries |-> None])
      BY <1>4 DEF IInv, Types
    <3> QED BY <1>3, <2>2, <3>1 DEF IInv, Indexed
  <2>3. \A r \in Session : Range(Read(r)) \subseteq Range(events'[r])
    BY <1>3 DEF IInv, Indexed
  <2> QED BY <2>1, <2>2, <2>3 DEF Indexed
<1>7. ASSUME NEW q \in Search PROVE AtSession(q)' /\ Reports(q)' /\ Covers(q)'
  <2>1. UNCHANGED <<pc, todo, hand, results, skipped, before>>
    BY <1>1 DEF search
  <2>2. AtSession(q) /\ Reports(q) /\ Covers(q)
    BY DEF IInv
  <2>3. AtSession(q)'
    BY <1>3, <2>1, <2>2 DEF AtSession, InHand, HandType
  <2>4. Ahead(q)' = Ahead(q) /\ Ahead(q) \subseteq Session
    BY <2>1 DEF Ahead, InHand, IInv, Types
  <2>5. Reports(q)'
    BY <1>3, <2>1, <2>2, <2>4 DEF Reports
  <2>6. todo[q] \subseteq Session
    BY DEF IInv, Types
  <2>7. Covers(q)'
    BY <1>3, <2>1, <2>2, <2>6 DEF Covers, InHand
  <2> QED BY <2>3, <2>5, <2>7
<1> QED BY <1>3, <1>5, <1>6, <1>7 DEF IInv

(* A step of an append, or damage to a file, leaves every search alone. *)
LEMMA SearchesAlone ==
  ASSUME IInv, UNCHANGED <<events, search>>
  PROVE  Numbered' /\ \A q \in Search : AtSession(q)' /\ Reports(q)' /\ Covers(q)'
<1>1. UNCHANGED <<pc, todo, hand, results, skipped, before>>
  BY DEF search
<1>2. Recorded' = Recorded
  BY DEF Recorded
<1>3. Numbered'
  BY <1>2 DEF IInv, Numbered
<1>4. ASSUME NEW q \in Search PROVE AtSession(q)' /\ Reports(q)' /\ Covers(q)'
  <2>1. AtSession(q) /\ Reports(q) /\ Covers(q)
    BY DEF IInv
  <2>2. Ahead(q)' = Ahead(q)
    BY <1>1 DEF Ahead, InHand
  <2> QED BY <1>1, <1>2, <2>1, <2>2 DEF AtSession, Reports, Covers, InHand
<1> QED BY <1>3, <1>4

LEMMA Appending ==
  ASSUME IInv, NEW s \in Session, ReadForAppend(s) \/ WriteAppend(s) \/ AppendFails(s) \/ Damage(s)
  PROVE  IInv'
<1> USE DEF IInv, Types
<1>1. UNCHANGED <<events, search>>
  BY DEF ReadForAppend, WriteAppend, AppendFails, Damage, evidence
<1>2. /\ append' \in [Session -> AppendType \cup {None}]
      /\ index' \in [Session -> Entries \cup {Unreadable}]
      /\ faults' \in 0..MaxFaults /\ Indexed'
  <2>1. CASE ReadForAppend(s)
    <3>1. PICK e, new : /\ e = append[s].event /\ new = Append(Read(s), e)
      OBVIOUS
    <3>2. append[s] \in AppendType /\ e \in Event /\ e \in Range(events[s])
      BY <2>1, <3>1 DEF ReadForAppend, AppendType, Indexed
    <3>3. append' = [append EXCEPT ![s] = IF Contains(Read(s), e) THEN None ELSE [@ EXCEPT !.entries = new]]
          /\ UNCHANGED <<index, faults>>
      BY <2>1, <3>1 DEF ReadForAppend
    <3>4. Read(s) \in Seq(Event) /\ IsInjective(Read(s)) /\ Range(Read(s)) \subseteq Range(events[s])
      BY ReadIsEntries DEF Entries, Indexed
    <3>5. CASE Contains(Read(s), e)
      <4>1. append' = [append EXCEPT ![s] = None]
        BY <3>3, <3>5
      <4> QED BY <1>1, <3>3, <4>1 DEF Indexed, Read
    <3>6. CASE ~Contains(Read(s), e)
      <4>1. e \notin Range(Read(s))
        <5>1. PICK read : read = Read(s)
          OBVIOUS
        <5>2. read \in Seq(Event) /\ ~\E i \in 1..Len(read) : read[i] = e
          BY <3>4, <3>6, <5>1 DEF Contains
        <5>3. DOMAIN read = 1..Len(read)
          BY <5>2
        <5> QED BY <5>1, <5>2, <5>3 DEF Range
      <4>2. new \in Entries /\ Range(new) \subseteq Range(events[s])
        BY <3>1, <3>2, <3>4, <4>1, Appended DEF Entries
      <4>3. append' = [append EXCEPT ![s] = [event |-> e, entries |-> new]]
        <5>1. PICK a : a = append[s]
          OBVIOUS
        <5>2. a \in AppendType /\ a.event = e
          BY <3>1, <3>2, <5>1
        <5>5. a = [event |-> e, entries |-> a.entries]
          BY <5>2 DEF AppendType
        <5>3. [a EXCEPT !.entries = new] = [event |-> e, entries |-> new]
          BY <5>5
        <5>4. append' = [append EXCEPT ![s] = [a EXCEPT !.entries = new]]
          BY <3>3, <3>6, <5>1
        <5> QED BY <5>3, <5>4
      <4>4. [event |-> e, entries |-> new] \in AppendType
        BY <3>2, <4>2 DEF AppendType
      <4>5. append' \in [Session -> AppendType \cup {None}]
        BY <4>3, <4>4
      <4>6. \A r \in Session : append'[r] = IF r = s THEN [event |-> e, entries |-> new] ELSE append[r]
        BY <4>3
      <4>7. Indexed'
        <5>1. \A r \in Session : Read(r)' = Read(r)
          BY <3>3 DEF Read
        <5>2. \A r \in Session : append'[r] # None =>
                /\ append'[r].event \in Range(events[r])
                /\ append'[r].entries # None => Range(append'[r].entries) \subseteq Range(events[r])
          <6> SUFFICES ASSUME NEW r \in Session, append'[r] # None
                       PROVE  /\ append'[r].event \in Range(events[r])
                              /\ append'[r].entries # None =>
                                   Range(append'[r].entries) \subseteq Range(events[r])
            OBVIOUS
          <6>1. CASE r = s
            <7>1. append'[r].event = e /\ append'[r].entries = new
              BY <4>6, <6>1
            <7> QED BY <3>2, <4>2, <6>1, <7>1
          <6>2. CASE r # s
            BY <4>6, <6>2 DEF Indexed
          <6> QED BY <6>1, <6>2
        <5> QED BY <1>1, <5>1, <5>2 DEF Indexed
      <4> QED BY <3>3, <4>5, <4>7
    <3> QED BY <3>5, <3>6
  <2>2. CASE WriteAppend(s)
    <3>1. PICK new : new = append[s].entries
      OBVIOUS
    <3>2. new \in Entries /\ Range(new) \subseteq Range(events[s])
      BY <2>2, <3>1 DEF WriteAppend, AppendType, Indexed
    <3>3. index' = [index EXCEPT ![s] = new] /\ append' = [append EXCEPT ![s] = None] /\ UNCHANGED faults
      BY <2>2, <3>1 DEF WriteAppend
    <3>4. \A r \in Session : index'[r] = IF r = s THEN new ELSE index[r]
      BY <3>3
    <3>5. \A r \in Session : append'[r] = IF r = s THEN None ELSE append[r]
      BY <3>3
    <3>6. Range(<<>>) = {}
      BY DEF Range
    <3>7. Indexed'
      BY <1>1, <3>2, <3>4, <3>5, <3>6 DEF Indexed, Read
    <3> QED BY <3>2, <3>3, <3>7
  <2>3. CASE AppendFails(s)
    BY <1>1, <2>3 DEF AppendFails, Indexed, Read
  <2>4. CASE Damage(s)
    <3>1. index' = [index EXCEPT ![s] = Unreadable] /\ UNCHANGED append /\ faults' \in 0..MaxFaults
      BY <2>4, SearchAssumption DEF Damage, evidence
    <3>2. \A r \in Session : index'[r] = IF r = s THEN Unreadable ELSE index[r]
      BY <3>1
    <3>3. Range(<<>>) = {}
      BY DEF Range
    <3> QED BY <1>1, <3>1, <3>2, <3>3 DEF Indexed, Read
  <2> QED BY <2>1, <2>2, <2>3, <2>4
<1>3. Types'
  BY <1>1, <1>2 DEF search
<1> QED BY <1>1, <1>2, <1>3, SearchesAlone
----------------------------------------------------------------------------
(* A step of one search leaves the others alone. *)
LEMMA OthersKeep ==
  ASSUME IInv, NEW q \in Search, UNCHANGED events,
         \A p \in Search \ {q} :
           /\ pc'[p] = pc[p] /\ todo'[p] = todo[p] /\ hand'[p] = hand[p]
           /\ results'[p] = results[p] /\ skipped'[p] = skipped[p] /\ before'[p] = before[p]
  PROVE  /\ Numbered' /\ Recorded' = Recorded
         /\ \A p \in Search \ {q} : AtSession(p)' /\ Reports(p)' /\ Covers(p)'
<1>1. Recorded' = Recorded
  BY DEF Recorded
<1>2. Numbered'
  BY <1>1 DEF IInv, Numbered
<1>3. ASSUME NEW p \in Search \ {q} PROVE AtSession(p)' /\ Reports(p)' /\ Covers(p)'
  <2>1. AtSession(p) /\ Reports(p) /\ Covers(p)
    BY DEF IInv
  <2>2. Ahead(p)' = Ahead(p)
    BY DEF Ahead, InHand
  <2> QED BY <1>1, <2>1, <2>2 DEF AtSession, Reports, Covers, InHand
<1> QED BY <1>1, <1>2, <1>3

LEMMA NarrowSeq ==
  ASSUME NEW T, NEW U, NEW seq \in Seq(T), Range(seq) \subseteq U PROVE seq \in Seq(T \cap U)
<1>1. \A i \in 1..Len(seq) : seq[i] \in T \cap U
  BY DEF Range
<1>2. Len(seq) \in Nat /\ seq = [i \in 1..Len(seq) |-> seq[i]]
  OBVIOUS
<1> QED BY <1>1, <1>2

(* What is reported once a session of which nothing was reported is done. *)
LEMMA CollectedProperties ==
  ASSUME NEW sofar \in Seq(Matches \cap Event), IsInjective(sofar), Len(sofar) <= Limit,
         NEW entries \in Entries, Range(sofar) \cap Range(entries) = {}
  PROVE  LET c == Collected(sofar, entries) IN
         /\ c \in Seq(Matches \cap Event) /\ IsInjective(c) /\ Len(c) <= Limit
         /\ Range(c) \subseteq Range(sofar) \cup Range(entries)
         /\ \/ Len(c) = Limit
            \/ Range(c) = Range(sofar) \cup (Range(entries) \cap Matches)
         /\ Len(sofar) = Limit => Len(c) = Limit
<1> DEFINE T == Matches \cap Event
           found == Among(entries, Matches)
           hits == sofar \o found
           n == IF Len(hits) < Limit THEN Len(hits) ELSE Limit
<1>1. entries \in Seq(Event) /\ IsInjective(entries)
  BY DEF Entries
<1>2. found \in Seq(Event) /\ Range(found) = Range(entries) \cap Matches /\ IsInjective(found)
  BY <1>1, AmongProperties
<1>3. found \in Seq(T)
  <2>1. found \in Seq(Event \cap Matches)
    BY <1>2, NarrowSeq
  <2>2. Event \cap Matches = T
    OBVIOUS
  <2> QED BY <2>1, <2>2
<1>4. hits \in Seq(T) /\ Range(hits) = Range(sofar) \cup Range(found) /\ IsInjective(hits)
  <2> HIDE DEF found
  <2> QED BY <1>2, <1>3, Joined
<1>5. Len(hits) \in Nat /\ Limit \in Nat
  <2> HIDE DEF hits
  <2> QED BY <1>4, SearchAssumption
<1>9. Len(hits) = Len(sofar) + Len(found) /\ Len(found) \in Nat
  <2> HIDE DEF found
  <2> QED BY <1>3, Joined
<1>6. /\ n \in 0..Len(hits) /\ n <= Limit /\ (n = Limit \/ n = Len(hits))
      /\ Len(sofar) = Limit => n = Limit
  <2> HIDE DEF hits, found
  <2> QED BY <1>5, <1>9
<1>7. /\ SubSeq(hits, 1, n) \in Seq(T) /\ Len(SubSeq(hits, 1, n)) = n
      /\ Range(SubSeq(hits, 1, n)) \subseteq Range(hits)
      /\ IsInjective(SubSeq(hits, 1, n))
      /\ n = Len(hits) => SubSeq(hits, 1, n) = hits
  <2> HIDE DEF hits, n
  <2> QED BY <1>4, <1>6, CutOff
<1>8. Collected(sofar, entries) = SubSeq(hits, 1, n)
  BY DEF Collected
<1> HIDE DEF hits, n, found
<1> QED BY <1>2, <1>4, <1>6, <1>7, <1>8

LEMMA CollectedFrom ==
  ASSUME IInv, NEW q \in Search, NEW s \in Session, NEW entries \in Entries,
         InHand(q), s = hand[q].session, Range(entries) \subseteq Range(events[s]),
         Range(hand[q].events) \ skipped[q] \subseteq Range(entries),
         results' = [results EXCEPT ![q] = Collected(@, entries)],
         hand' = [hand EXCEPT ![q] = None], pc' = [pc EXCEPT ![q] = "next"],
         UNCHANGED <<events, append, todo, skipped, before, faults>>,
         index' \in [Session -> Entries \cup {Unreadable}], Indexed'
  PROVE  IInv'
<1> USE DEF IInv, Types
<1>1. PICK c : c = Collected(results[q], entries)
  OBVIOUS
<1>2. AtSession(q) /\ Reports(q) /\ Covers(q)
  OBVIOUS
<1>3. s \in Ahead(q) /\ todo[q] \subseteq Ahead(q) /\ s \notin todo[q]
  BY <1>2 DEF Ahead, AtSession
<1>4. Range(results[q]) \cap Range(entries) = {}
  BY <1>2, <1>3 DEF Reports
<1>5. results[q] \in Seq(Matches \cap Event) /\ IsInjective(results[q]) /\ Len(results[q]) <= Limit
  BY <1>2 DEF Reports
<1>6. /\ c \in Seq(Matches \cap Event) /\ IsInjective(c) /\ Len(c) <= Limit
      /\ Range(c) \subseteq Range(results[q]) \cup Range(entries)
      /\ \/ Len(c) = Limit
         \/ Range(c) = Range(results[q]) \cup (Range(entries) \cap Matches)
      /\ Len(results[q]) = Limit => Len(c) = Limit
  BY <1>1, <1>4, <1>5, CollectedProperties
<1>7. results' = [results EXCEPT ![q] = c]
  BY <1>1
<1>8. results'[q] = c /\ hand'[q] = None /\ pc'[q] = "next"
  BY <1>7
<1>9. \A p \in Search \ {q} : results'[p] = results[p] /\ hand'[p] = hand[p] /\ pc'[p] = pc[p]
  BY <1>7
<1>10. Numbered' /\ Recorded' = Recorded
       /\ \A p \in Search \ {q} : AtSession(p)' /\ Reports(p)' /\ Covers(p)'
  BY <1>9, OthersKeep
<1>11. Types'
  BY <1>6, <1>7
<1>12. AtSession(q)'
  BY <1>8 DEF AtSession, InHand
<1>13. Reports(q)'
  <2>1. Ahead(q)' = todo[q]
    BY <1>8 DEF Ahead, InHand
  <2>2. Range(c) \subseteq Recorded
    BY <1>2, <1>6, EventsRecorded DEF Reports
  <2>3. ASSUME NEW r \in todo[q] PROVE Range(c) \cap Range(events[r]) = {}
    <3>1. r \in Session /\ r # s
      BY <1>3
    <3>2. Range(events[r]) \cap Range(entries) = {}
      BY <3>1 DEF Numbered
    <3>3. Range(results[q]) \cap Range(events[r]) = {}
      BY <1>2, <1>3 DEF Reports
    <3> QED BY <1>6, <3>2, <3>3
  <2> QED BY <1>2, <1>6, <1>8, <1>10, <2>1, <2>2, <2>3 DEF Reports
<1>14. Covers(q)'
  <2>1. CASE Len(c) = Limit
    BY <1>8, <2>1 DEF Covers
  <2>2. CASE Len(c) # Limit
    <3>1. Len(results[q]) # Limit
      BY <1>6, <2>2
    <3>2. ASSUME NEW e \in (before[q] \cap Matches) \ skipped[q]
          PROVE  e \in Range(c) \/ \E r \in todo[q] : e \in Range(events[r])
      <4>1. \/ e \in Range(results[q])
            \/ \E r \in todo[q] : e \in Range(events[r])
            \/ e \in Range(hand[q].events)
        BY <1>2, <3>1 DEF Covers, InHand
      <4> QED BY <1>6, <2>2, <4>1
    <3> QED BY <1>8, <3>2 DEF Covers
  <2> QED BY <2>1, <2>2
<1> QED BY <1>10, <1>11, <1>12, <1>13, <1>14
----------------------------------------------------------------------------
(* No index file changes in a step that leaves the files and the appends alone. *)
LEMMA SameFiles == ASSUME IInv, UNCHANGED <<evidence, index>> PROVE Indexed'
  BY DEF IInv, Indexed, Read, evidence

LEMMA BeginStep == ASSUME IInv, NEW q \in Search, BeginSearch(q) PROVE IInv'
<1> USE DEF IInv, Types
<1>1. /\ pc[q] = "new" /\ pc' = [pc EXCEPT ![q] = "next"]
      /\ todo' = [todo EXCEPT ![q] = {s \in Session : events[s] # <<>>}]
      /\ before' = [before EXCEPT ![q] = Recorded]
      /\ UNCHANGED <<events, append, index, hand, results, skipped, faults>>
  BY DEF BeginSearch, evidence
<1>2. Numbered' /\ Recorded' = Recorded
      /\ \A p \in Search \ {q} : AtSession(p)' /\ Reports(p)' /\ Covers(p)'
  BY <1>1, OthersKeep
<1>3. /\ pc'[q] = "next" /\ todo'[q] = {s \in Session : events[s] # <<>>}
      /\ before'[q] = Recorded /\ results'[q] = <<>>
  BY <1>1 DEF Reports
<1>4. \A s \in Session : events[s] = <<>> => Range(events[s]) = {}
  BY DEF Range
<1>5. Recorded \subseteq Event
  BY DEF Recorded, Entries, Range
<1>6. Types'
  BY <1>1, <1>5
<1>7. AtSession(q)'
  BY <1>3 DEF AtSession, InHand
<1>8. Range(<<>>) = {} /\ IsInjective(<<>>) /\ Len(<<>>) = 0
  BY DEF Range, IsInjective
<1>9. Reports(q)'
  BY <1>2, <1>3, <1>8, SearchAssumption DEF Reports
<1>10. \A e \in Recorded : \E s \in Session : e \in Range(events[s]) /\ events[s] # <<>>
  BY <1>4 DEF Recorded
<1>11. Covers(q)'
  BY <1>1, <1>3, <1>10 DEF Covers
<1>12. Indexed'
  BY <1>1, SameFiles DEF evidence
<1> QED BY <1>2, <1>6, <1>7, <1>9, <1>11, <1>12

LEMMA ReadStep == ASSUME IInv, NEW q \in Search, ReadEvents(q) PROVE IInv'
<1> USE DEF IInv, Types
<1>1. PICK s \in todo[q] :
        /\ hand' = [hand EXCEPT ![q] = [session |-> s, events |-> events[s], entries |-> <<>>]]
        /\ todo' = [todo EXCEPT ![q] = @ \ {s}]
  BY DEF ReadEvents
<1>2. PICK evs : evs = events[s]
  OBVIOUS
<1>3. PICK h : h = [session |-> s, events |-> evs, entries |-> <<>>]
  OBVIOUS
<1>4. /\ pc[q] = "next" /\ pc' = [pc EXCEPT ![q] = "index"]
      /\ hand' = [hand EXCEPT ![q] = h]
      /\ UNCHANGED <<events, append, index, results, skipped, before, faults>>
  BY <1>1, <1>2, <1>3 DEF ReadEvents, evidence
<1>5. s \in Session
  OBVIOUS
<1>6. <<>> \in Entries /\ Range(<<>>) = {}
  BY DEF Entries, IsInjective, Range
<1>7. h \in HandType
  BY <1>2, <1>3, <1>5, <1>6 DEF HandType
<1>8. Numbered' /\ Recorded' = Recorded
      /\ \A p \in Search \ {q} : AtSession(p)' /\ Reports(p)' /\ Covers(p)'
  BY <1>1, <1>4, OthersKeep
<1>9. pc'[q] = "index" /\ todo'[q] = todo[q] \ {s} /\ hand'[q] = h
  BY <1>1, <1>4
<1>10. h.session = s /\ h.events = events[s] /\ h.entries = <<>>
  BY <1>2, <1>3
<1>11. Types'
  BY <1>1, <1>4, <1>7
<1>12. AtSession(q)'
  BY <1>4, <1>6, <1>7, <1>9, <1>10 DEF AtSession
<1>13. Reports(q)'
  <2>1. Ahead(q)' \subseteq Ahead(q)
    BY <1>1, <1>9, <1>10 DEF Ahead, InHand
  <2> QED BY <1>4, <1>8, <1>9, <2>1 DEF Reports
<1>14. Covers(q)'
  <2>1. Covers(q) /\ pc[q] = "next"
    BY <1>4
  <2>2. \/ Len(results[q]) = Limit
        \/ \A e \in (before[q] \cap Matches) \ skipped[q] :
             \/ e \in Range(results[q])
             \/ \E r \in todo[q] : e \in Range(events[r])
    BY <2>1 DEF Covers, InHand
  <2> QED BY <1>4, <1>9, <1>10, <2>2 DEF Covers, InHand
<1>15. Indexed'
  BY <1>4, SameFiles DEF evidence
<1> QED BY <1>8, <1>11, <1>12, <1>13, <1>14, <1>15

(* A search ends, at its limit or with nothing left, or by a failure. *)
LEMMA EndStep == ASSUME IInv, NEW q \in Search, EndSearch(q) \/ SearchFails(q) PROVE IInv'
<1> USE DEF IInv, Types
<1>1. /\ UNCHANGED <<events, append, index, faults>>
      /\ todo' = [todo EXCEPT ![q] = {}]
      /\ \/ /\ pc' = [pc EXCEPT ![q] = "reported"] /\ pc[q] = "next"
            /\ UNCHANGED <<hand, results, skipped, before>>
            /\ todo[q] = {} \/ Len(results[q]) >= Limit
         \/ /\ pc' = [pc EXCEPT ![q] = "failed"] /\ hand' = [hand EXCEPT ![q] = None]
            /\ results' = [results EXCEPT ![q] = <<>>]
            /\ skipped' = [skipped EXCEPT ![q] = {}] /\ before' = [before EXCEPT ![q] = {}]
  BY DEF EndSearch, SearchFails, evidence
<1>2. Numbered' /\ Recorded' = Recorded
      /\ \A p \in Search \ {q} : AtSession(p)' /\ Reports(p)' /\ Covers(p)'
  BY <1>1, OthersKeep
<1>3. <<>> \in Seq(Matches \cap Event)
  OBVIOUS
<1>4. Types'
  <2>1. pc' \in [Search -> {"new", "next", "index", "write", "reported", "failed"}]
        /\ hand' \in [Search -> HandType \cup {None}]
    BY <1>1
  <2>2. results' \in [Search -> Seq(Matches \cap Event)]
    BY <1>1, <1>3
  <2>3. skipped' \in [Search -> SUBSET Event] /\ before' \in [Search -> SUBSET Event]
    BY <1>1
  <2> QED BY <1>1, <2>1, <2>2, <2>3
<1>5. todo'[q] = {} /\ pc'[q] \in {"reported", "failed"}
  BY <1>1
<1>6. AtSession(q)'
  BY <1>5 DEF AtSession, InHand
<1>7. Range(<<>>) = {} /\ IsInjective(<<>>) /\ Len(<<>>) = 0
  BY DEF Range, IsInjective
<1>8. Reports(q)'
  <2>1. Ahead(q)' = {}
    BY <1>5 DEF Ahead, InHand
  <2>2. \/ results'[q] = results[q] /\ before'[q] = before[q]
        \/ results'[q] = <<>> /\ before'[q] = {}
    BY <1>1
  <2> QED BY <1>2, <1>5, <1>7, <2>1, <2>2, SearchAssumption DEF Reports
<1>9. Covers(q)'
  <2>1. CASE pc'[q] = "failed"
    BY <2>1 DEF Covers
  <2>2. CASE pc'[q] = "reported"
    <3>1. /\ pc[q] = "next" /\ UNCHANGED <<results, skipped, before>>
          /\ todo[q] = {} \/ Len(results[q]) >= Limit
      BY <1>1, <2>2
    <3>2. Len(results[q]) <= Limit /\ Len(results[q]) \in Nat /\ Limit \in Nat
      BY SearchAssumption DEF Reports
    <3>3. todo[q] = {} \/ Len(results[q]) = Limit
      BY <3>1, <3>2
    <3>4. Covers(q)
      OBVIOUS
    <3> QED BY <1>5, <3>1, <3>3, <3>4 DEF Covers, InHand
  <2> QED BY <1>5, <2>1, <2>2
<1>10. Indexed'
  BY <1>1, SameFiles DEF evidence
<1> QED BY <1>2, <1>4, <1>6, <1>8, <1>9, <1>10

(* An index that has every event that was read is as good as those events. *)
LEMMA UseStep == ASSUME IInv, NEW q \in Search, UseIndex(q) PROVE IInv'
<1> USE DEF IInv, Types
<1>1. PICK s : s = hand[q].session
  OBVIOUS
<1>2. PICK entries : entries = Read(s)
  OBVIOUS
<1>3. /\ pc[q] = "index" /\ Missing(hand[q].events, entries) = <<>>
      /\ results' = [results EXCEPT ![q] = Collected(@, entries)]
      /\ hand' = [hand EXCEPT ![q] = None] /\ pc' = [pc EXCEPT ![q] = "next"]
      /\ UNCHANGED <<events, append, index, todo, skipped, before, faults>>
  BY <1>1, <1>2 DEF UseIndex, evidence
<1>4. /\ InHand(q) /\ hand[q] \in HandType /\ s \in Session /\ hand[q].events \in Entries
      /\ Range(hand[q].events) \subseteq Range(events[s])
  BY <1>1, <1>3 DEF AtSession, InHand, HandType
<1>5. entries \in Entries /\ Range(entries) \subseteq Range(events[s])
  BY <1>2, <1>4, ReadIsEntries DEF Indexed
<1>6. Range(hand[q].events) \subseteq Range(entries)
  <2>1. hand[q].events \in Seq(Event)
    BY <1>4 DEF Entries
  <2>2. Range(Missing(hand[q].events, entries)) =
          Range(hand[q].events) \cap (Range(hand[q].events) \ Range(entries))
    BY <2>1, AmongProperties DEF Missing
  <2>3. Range(Missing(hand[q].events, entries)) = {}
    BY <1>3 DEF Range
  <2> QED BY <2>2, <2>3
<1>7. Indexed'
  BY <1>3, SameFiles DEF evidence
<1> QED BY <1>1, <1>3, <1>4, <1>5, <1>6, <1>7, CollectedFrom

(* The backfill adds what is missing and can be read, and nothing that is there. *)
LEMMA BackfillStep == ASSUME IInv, NEW q \in Search, Backfill(q) PROVE IInv'
<1> USE DEF IInv, Types
<1>1. PICK s : s = hand[q].session
  OBVIOUS
<1>2. PICK old : old = Read(s)
  OBVIOUS
<1>3. PICK missing : missing = Missing(hand[q].events, old)
  OBVIOUS
<1>4. PICK bad \in SUBSET Range(missing) :
        /\ hand' = [hand EXCEPT ![q].entries = old \o Among(missing, Range(missing) \ bad)]
        /\ skipped' = [skipped EXCEPT ![q] = @ \cup bad]
  BY <1>1, <1>2, <1>3 DEF Backfill
<1>5. /\ pc[q] = "index" /\ pc' = [pc EXCEPT ![q] = "write"]
      /\ UNCHANGED <<events, append, index, todo, results, before, faults>>
  BY DEF Backfill, evidence
<1>6. PICK evs : evs = hand[q].events
  OBVIOUS
<1>7. /\ InHand(q) /\ hand[q] \in HandType /\ s \in Session /\ evs \in Entries
      /\ Range(evs) \subseteq Range(events[s]) /\ s \notin todo[q]
  BY <1>1, <1>5, <1>6 DEF AtSession, InHand, HandType
<1>8. old \in Seq(Event) /\ IsInjective(old) /\ Range(old) \subseteq Range(events[s])
  BY <1>2, <1>7, ReadIsEntries DEF Indexed, Entries
<1>9. /\ missing \in Seq(Event) /\ IsInjective(missing)
      /\ Range(missing) = Range(evs) \ Range(old)
  <2>1. evs \in Seq(Event) /\ IsInjective(evs)
    BY <1>7 DEF Entries
  <2>2. missing = Among(evs, Range(evs) \ Range(old))
    BY <1>3, <1>6 DEF Missing
  <2>3. Range(evs) \cap (Range(evs) \ Range(old)) = Range(evs) \ Range(old)
    OBVIOUS
  <2> QED BY <2>1, <2>2, <2>3, AmongProperties
<1>10. PICK added : added = Among(missing, Range(missing) \ bad)
  OBVIOUS
<1>11. /\ added \in Seq(Event) /\ IsInjective(added) /\ Range(added) = Range(missing) \ bad
  <2>1. Range(missing) \cap (Range(missing) \ bad) = Range(missing) \ bad
    OBVIOUS
  <2> QED BY <1>9, <1>10, <2>1, AmongProperties
<1>12. PICK new : new = old \o added
  OBVIOUS
<1>13. new \in Seq(Event) /\ IsInjective(new) /\ Range(new) = Range(old) \cup Range(added)
  <2>1. Range(old) \cap Range(added) = {}
    BY <1>9, <1>11
  <2> QED BY <1>8, <1>11, <1>12, <2>1, Joined
<1>14. PICK h : h = [session |-> s, events |-> evs, entries |-> new]
  OBVIOUS
<1>15. h \in HandType /\ h.session = s /\ h.events = evs /\ h.entries = new
  BY <1>7, <1>13, <1>14 DEF HandType, Entries
<1>16. hand' = [hand EXCEPT ![q] = h]
  <2>1. PICK a : a = hand[q]
    OBVIOUS
  <2>2. a = [session |-> s, events |-> evs, entries |-> a.entries]
    BY <1>1, <1>6, <1>7, <2>1 DEF HandType
  <2>3. [a EXCEPT !.entries = new] = h
    <3>1. PICK x : x = a.entries
      OBVIOUS
    <3>2. a = [session |-> s, events |-> evs, entries |-> x]
      BY <2>2, <3>1
    <3> HIDE DEF IInv, Types
    <3> QED BY <1>14, <3>2
  <2>4. hand' = [hand EXCEPT ![q] = [a EXCEPT !.entries = new]]
    BY <1>4, <1>10, <1>12, <2>1
  <2> QED BY <2>3, <2>4
<1>17. Numbered' /\ Recorded' = Recorded
       /\ \A p \in Search \ {q} : AtSession(p)' /\ Reports(p)' /\ Covers(p)'
  BY <1>4, <1>5, <1>16, OthersKeep
<1>18. /\ hand'[q] = h /\ pc'[q] = "write" /\ skipped'[q] = skipped[q] \cup bad
       /\ UNCHANGED <<todo, results, before>>
  BY <1>4, <1>5, <1>16
<1>19. Types'
  <2>1. Range(missing) \subseteq Event
    BY <1>9 DEF Range
  <2>2. skipped' \in [Search -> SUBSET Event]
    BY <1>4, <2>1
  <2>3. hand' \in [Search -> HandType \cup {None}]
    BY <1>15, <1>16
  <2> QED BY <1>5, <2>2, <2>3
<1>20. AtSession(q)'
  <2>1. Range(new) \subseteq Range(events[s])
    BY <1>7, <1>8, <1>9, <1>11, <1>13
  <2>2. Range(evs) \ (skipped[q] \cup bad) \subseteq Range(new)
    BY <1>9, <1>11, <1>13
  <2> QED BY <1>5, <1>7, <1>15, <1>18, <2>1, <2>2 DEF AtSession
<1>21. Reports(q)'
  <2>1. Ahead(q)' = Ahead(q)
    BY <1>1, <1>5, <1>15, <1>18 DEF Ahead, InHand
  <2> QED BY <1>5, <1>17, <1>18, <2>1 DEF Reports
<1>22. Covers(q)'
  <2>1. Covers(q) /\ pc[q] = "index"
    BY <1>5
  <2>2. \/ Len(results[q]) = Limit
        \/ \A e \in (before[q] \cap Matches) \ skipped[q] :
             \/ e \in Range(results[q])
             \/ \E r \in todo[q] : e \in Range(events[r])
             \/ e \in Range(evs)
    BY <1>6, <2>1 DEF Covers, InHand
  <2>3. hand'[q].events = evs /\ InHand(q)'
    BY <1>15, <1>18 DEF InHand
  <2> QED BY <1>5, <1>18, <2>2, <2>3 DEF Covers
<1>23. Indexed'
  BY <1>5, SameFiles DEF evidence
<1> QED BY <1>17, <1>19, <1>20, <1>21, <1>22, <1>23

(* What is written replaces whatever was appended meanwhile; what is reported stays right. *)
LEMMA WriteStep == ASSUME IInv, NEW q \in Search, WriteIndex(q) PROVE IInv'
<1> USE DEF IInv, Types
<1>1. PICK s : s = hand[q].session
  OBVIOUS
<1>2. PICK entries : entries = hand[q].entries
  OBVIOUS
<1>3. /\ pc[q] = "write" /\ index' = [index EXCEPT ![s] = entries]
      /\ results' = [results EXCEPT ![q] = Collected(@, entries)]
      /\ hand' = [hand EXCEPT ![q] = None] /\ pc' = [pc EXCEPT ![q] = "next"]
      /\ UNCHANGED <<events, append, todo, skipped, before, faults>>
  BY <1>1, <1>2 DEF WriteIndex, evidence
<1>4. /\ InHand(q) /\ s \in Session /\ entries \in Entries
      /\ Range(entries) \subseteq Range(events[s])
      /\ Range(hand[q].events) \ skipped[q] \subseteq Range(entries)
  BY <1>1, <1>2, <1>3 DEF AtSession, InHand, HandType
<1>5. index' \in [Session -> Entries \cup {Unreadable}]
  BY <1>3, <1>4
<1>6. Indexed'
  <2>1. \A r \in Session : index'[r] = IF r = s THEN entries ELSE index[r]
    BY <1>3
  <2>2. Range(<<>>) = {}
    BY DEF Range
  <2>3. \A r \in Session : Range(Read(r)') \subseteq Range(events[r])
    BY <1>4, <2>1, <2>2 DEF Indexed, Read
  <2> QED BY <1>3, <2>3 DEF Indexed
<1> QED BY <1>1, <1>3, <1>4, <1>5, <1>6, CollectedFrom
----------------------------------------------------------------------------
LEMMA Initially == ASSUME Init PROVE IInv
<1> USE DEF Init
<1>1. <<>> \in Entries /\ Range(<<>>) = {} /\ IsInjective(<<>>) /\ Len(<<>>) = 0
  BY DEF Entries, Range, IsInjective
<1>2. <<>> \in Seq(Matches \cap Event)
  OBVIOUS
<1>3. Types
  BY <1>1, <1>2, SearchAssumption DEF Types
<1>4. Numbered
  <2>1. \A s \in Session : Range(events[s]) = {}
    BY <1>1
  <2>2. Recorded = {}
    BY <2>1 DEF Recorded
  <2>3. 1..0 = {} /\ 0 \in 0..MaxEvents
    BY SearchAssumption
  <2> QED BY <2>1, <2>2, <2>3 DEF Numbered
<1>5. Indexed
  BY <1>1 DEF Indexed, Read
<1>6. ASSUME NEW q \in Search PROVE AtSession(q) /\ Reports(q) /\ Covers(q)
  <2>1. pc[q] = "new" /\ results[q] = <<>> /\ before[q] = {}
    OBVIOUS
  <2> QED BY <1>1, <2>1, SearchAssumption DEF AtSession, Reports, Covers, InHand
<1> QED BY <1>3, <1>4, <1>5, <1>6 DEF IInv

LEMMA Inductive == ASSUME IInv, [Next]_vars PROVE IInv'
<1>1. CASE \E s \in Session :
             \/ RecordHook(s) \/ RecordRun(s)
             \/ ReadForAppend(s) \/ WriteAppend(s) \/ AppendFails(s)
             \/ Damage(s)
  BY <1>1, Recording, Appending
<1>2. CASE \E q \in Search : BeginSearch(q) \/ SearchStep(q) \/ SearchFails(q)
  BY <1>2, BeginStep, ReadStep, EndStep, UseStep, BackfillStep, WriteStep DEF SearchStep
<1>3. CASE UNCHANGED vars
  <2>1. UNCHANGED <<evidence, index, search, faults, events, append>>
    BY <1>3 DEF vars, evidence
  <2>2. Types'
    BY <2>1 DEF IInv, Types, search
  <2>3. Indexed'
    BY <2>1, SameFiles
  <2> QED BY <2>1, <2>2, <2>3, SearchesAlone DEF IInv
<1> QED BY <1>1, <1>2, <1>3 DEF Next
----------------------------------------------------------------------------
(***************************************************************************)
(* The invariant: an index, wherever it is, is of events of its session;   *)
(* what a search has still to report is of the sessions ahead of it.       *)
(***************************************************************************)
THEOREM Invariance == Spec => []IInv
<1>1. Init => IInv
  BY Initially
<1>2. IInv /\ [Next]_vars => IInv'
  BY Inductive
<1> QED BY <1>1, <1>2, PTL DEF Spec

(* No index, on disk or in a writer's hands, ever has an event twice (searchIndex.ts). *)
THEOREM TypeCorrect == Spec => []TypeOK
<1>1. IInv => TypeOK
  BY DEF IInv, Types, TypeOK, AppendType, HandType
<1> QED BY <1>1, Invariance, PTL

(***************************************************************************)
(* A search that ends reports every matching event recorded before it      *)
(* began, up to its limit and to payloads it could not read, whatever is   *)
(* written and damaged meanwhile (cmdLocalSearch).                         *)
(***************************************************************************)
THEOREM SearchesAreComplete == Spec => []SearchIsComplete
<1>1. IInv => SearchIsComplete
  <2>1. SUFFICES ASSUME IInv, NEW q \in Search, pc[q] = "reported", Len(results[q]) # Limit
                 PROVE  (before[q] \cap Matches) \ skipped[q] \subseteq Range(results[q])
    BY DEF SearchIsComplete
  <2> QED BY <2>1 DEF IInv, Covers, Reports, InHand
<1> QED BY <1>1, Invariance, PTL

(* No event is reported twice, and none that is not recorded (cmdLocalSearch). *)
THEOREM NothingTwice == Spec => []ReportedOnce
<1>1. IInv => ReportedOnce
  BY DEF IInv, Reports, ReportedOnce
<1> QED BY <1>1, Invariance, PTL
=============================================================================
