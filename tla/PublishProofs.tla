---------------------------- MODULE PublishProofs ----------------------------
(***************************************************************************)
(* Proofs about Publish: for any commands, of any kind, about any sessions,*)
(* one after the other or at the same time.                                *)
(***************************************************************************)
EXTENDS Publish, TLAPS

USE DEF vars, local, attempts, cloud, history, Goto

(* A written attempt file is an attempt file. *)
LEMMA FilledType ==
  ASSUME TypeOK, NEW c \in Command, NEW file \in AttemptFile
  PROVE  Filled(c, file) \in AttemptFile
<1>1. saving[c] \in {"PREPARED", "UPLOADING", "PUBLISHED"} /\ id[c] \in Command \cup {None}
  BY DEF TypeOK
<1>2. Size(saving[c]) \in 0..3
  BY <1>1 DEF Size
<1>3. file.length \in 0..3
  BY DEF AttemptFile
<1> QED
  BY <1>1, <1>2, <1>3 DEF Filled, Digest, Artifact, AttemptFile

(* A file that was just truncated is an attempt file. *)
LEMMA TruncatedType == Truncated \in AttemptFile
  BY DEF Truncated, AttemptFile

(* What resolving an attempt does: it gives the command its own attempt. *)
LEMMA ResolveFacts ==
  ASSUME TypeOK, CallsByKind, OwnAttempt, SavedAttempts, NEW c \in Command, Resolve(c)
  PROVE  /\ c \in Publisher /\ UNCHANGED stored
         /\ \/ pc' = [pc EXCEPT ![c] = "threw"] /\ UNCHANGED <<id, saving>>
            \/ \E state \in {"PREPARED", "UPLOADING"} :
                 /\ pc' = [pc EXCEPT ![c] = "open"]
                 /\ id' = [id EXCEPT ![c] = c]
                 /\ saving' = [saving EXCEPT ![c] = state]
<1> DEFINE old == attempt[For[c]]
           reusable == old # None /\ old.state # "PUBLISHED" /\ old.digest = c
<1>1. c \in Publisher /\ saving[c] = "PREPARED" /\ For[c] \in Session
  BY KindAssumption DEF Resolve, CallsByKind, OwnAttempt, Owns, BeforeResolve, Holding
<1>2. CASE ~Parses(old)
  BY <1>1, <1>2 DEF Resolve
<1>3. CASE Parses(old) /\ reusable
  <2>1. old.id = c
    BY <1>1, <1>3 DEF SavedAttempts
  <2> QED
    BY <1>1, <1>3, <2>1 DEF Resolve, Digest, Artifact
<1>4. CASE Parses(old) /\ ~reusable
  <2>1. saving' = saving /\ id' = [id EXCEPT ![c] = c] /\ pc' = [pc EXCEPT ![c] = "open"]
    BY <1>4 DEF Resolve, Digest, Artifact, TypeOK
  <2>2. saving' = [saving EXCEPT ![c] = "PREPARED"]
    BY <1>1, <2>1 DEF TypeOK
  <2> QED
    BY <1>1, <2>1, <2>2 DEF Resolve
<1> QED
  BY <1>2, <1>3, <1>4

(* Where a save leads: the command has its own attempt in hand, and after  *)
(* the save as published, which follows the upload, it shows the link.     *)
LEMMA WriteFacts ==
  ASSUME TypeOK, CallsByKind, OwnAttempt, NEW c \in Command, WriteAttempt(c)
  PROVE  /\ c \in Publisher /\ id[c] = c /\ UNCHANGED <<id, stored>>
         /\ \E call \in {"open", "post", "link"}, state \in {"UPLOADING", "PUBLISHED"} :
              /\ pc' = [pc EXCEPT ![c] = call]
              /\ saving' = [saving EXCEPT ![c] = state]
              /\ call = "open" => state = "UPLOADING"
              /\ call = "post" => state = "PUBLISHED"
              /\ call = "link" => saving[c] = "PUBLISHED" /\ stored[c] # None
<1>1. c \in Publisher /\ id[c] = c
  BY DEF WriteAttempt, CallsByKind, OwnAttempt, Owns, Holding
<1>2. saving[c] = "PUBLISHED" => stored[c] # None
  BY <1>1 DEF WriteAttempt, OwnAttempt, Owns
<1>3. CASE saving[c] = "PREPARED"
  BY <1>1, <1>3 DEF WriteAttempt, AfterSave, NextState
<1>4. CASE saving[c] = "UPLOADING"
  BY <1>1, <1>4 DEF WriteAttempt, AfterSave, NextState
<1>5. CASE saving[c] = "PUBLISHED"
  BY <1>1, <1>2, <1>5 DEF WriteAttempt, AfterSave, NextState
<1> QED
  BY <1>3, <1>4, <1>5 DEF TypeOK

(* A command leaves the locals of the others alone. *)
LEMMA OneActs ==
  ASSUME TypeOK, CallsByKind, OwnAttempt, SavedAttempts, NEW c \in Command, Step(c)
  PROVE  \A d \in Command : d # c => pc'[d] = pc[d] /\ saving'[d] = saving[d] /\ id'[d] = id[d]
<1>1. CASE Resolve(c)
  BY <1>1, ResolveFacts DEF TypeOK
<1>2. CASE WriteAttempt(c)
  BY <1>2 DEF WriteAttempt, TypeOK
<1>3. CASE ~Resolve(c) /\ ~WriteAttempt(c)
  BY <1>3 DEF TypeOK, Step, BeginPublish, LoadSignIn, Poll, OpenSignIn, WriteSignIn,
         OpenAttempt, Post, RequestFails, ShowLink, BeginUnpublish, LookUp,
         NamePublication, Delete, Clear, Die
<1> QED
  BY <1>1, <1>2, <1>3

(* Which calls write to the service, the terminal and the files. *)
LEMMA Frame ==
  ASSUME NEW c \in Command, Step(c)
  PROVE  /\ UNCHANGED stored \/ Post(c) \/ Delete(c)
         /\ UNCHANGED shown \/ ShowLink(c)
         /\ UNCHANGED signIn \/ OpenSignIn(c) \/ WriteSignIn(c)
         /\ UNCHANGED attempts \/ OpenAttempt(c) \/ WriteAttempt(c) \/ Clear(c) \/ Die(c)
         /\ overlapped => overlapped'
         /\ UNCHANGED last \/ OpenAttempt(c) \/ Clear(c)
<1>1. UNCHANGED stored \/ Post(c) \/ Delete(c)
  BY DEF Step, BeginPublish, LoadSignIn, Poll, OpenSignIn, WriteSignIn, Resolve,
         OpenAttempt, WriteAttempt, RequestFails, ShowLink, BeginUnpublish,
         LookUp, NamePublication, Clear, Die
<1>2. UNCHANGED shown \/ ShowLink(c)
  BY DEF Step, BeginPublish, LoadSignIn, Poll, OpenSignIn, WriteSignIn, Resolve,
         OpenAttempt, WriteAttempt, Post, RequestFails, BeginUnpublish, LookUp,
         NamePublication, Delete, Clear, Die
<1>3. UNCHANGED signIn \/ OpenSignIn(c) \/ WriteSignIn(c)
  BY DEF Step, BeginPublish, LoadSignIn, Poll, Resolve, OpenAttempt,
         WriteAttempt, Post, RequestFails, ShowLink, BeginUnpublish, LookUp,
         NamePublication, Delete, Clear, Die
<1>4. UNCHANGED attempts \/ OpenAttempt(c) \/ WriteAttempt(c) \/ Clear(c) \/ Die(c)
  BY DEF Step, BeginPublish, LoadSignIn, Poll, OpenSignIn, WriteSignIn, Resolve,
         Post, RequestFails, ShowLink, BeginUnpublish, LookUp, NamePublication,
         Delete
<1>5. overlapped => overlapped'
  BY DEF Step, BeginPublish, LoadSignIn, Poll, OpenSignIn, WriteSignIn, Resolve,
         OpenAttempt, WriteAttempt, Post, RequestFails, ShowLink,
         BeginUnpublish, LookUp, NamePublication, Delete, Clear, Die
<1>6. UNCHANGED last \/ OpenAttempt(c) \/ Clear(c)
  BY DEF Step, BeginPublish, LoadSignIn, Poll, OpenSignIn, WriteSignIn, Resolve, WriteAttempt,
         Post, RequestFails, ShowLink, BeginUnpublish, LookUp, NamePublication, Delete, Die
<1> QED
  BY <1>1, <1>2, <1>3, <1>4, <1>5, <1>6

(* Types are preserved. *)
LEMMA TypeStep ==
  ASSUME TypeOK, CallsByKind, OwnAttempt, SavedAttempts, NEW c \in Command, Step(c)
  PROVE  TypeOK'
<1>1. CASE BeginPublish(c)
  BY <1>1 DEF BeginPublish, TypeOK, Calls, Writing, Outcome
<1>2. CASE LoadSignIn(c)
  BY <1>2 DEF LoadSignIn, TypeOK, Calls, Writing, Outcome
<1>3. CASE Poll(c)
  BY <1>3 DEF Poll, TypeOK, Calls, Writing, Outcome
<1>4. CASE OpenSignIn(c)
  BY <1>4 DEF OpenSignIn, TypeOK, Calls, Writing, Outcome
<1>5. CASE WriteSignIn(c)
  BY <1>5 DEF WriteSignIn, TypeOK, Calls, Writing, Outcome
<1>6. CASE Resolve(c)
<2> DEFINE reusable == attempt[For[c]] # None /\ attempt[For[c]].state # "PUBLISHED"
                                     /\ attempt[For[c]].digest = Digest(c)
<2>1. CASE Parses(attempt[For[c]]) /\ reusable
  <3>1. attempt[For[c]].id \in Command \cup {None}
    BY <2>1, KindAssumption DEF TypeOK, AttemptFile
  <3> QED
    BY <1>6, <2>1, <3>1 DEF Resolve, TypeOK, Calls, Writing, Outcome
<2>2. CASE Parses(attempt[For[c]]) /\ ~reusable
  <3>1. saving' = saving /\ id' = [id EXCEPT ![c] = c] /\ pc' = [pc EXCEPT ![c] = "open"]
    BY <1>6, <2>2 DEF Resolve, TypeOK
  <3> QED
    BY <1>6, <3>1 DEF Resolve, TypeOK, Calls, Writing, Outcome
<2>3. CASE ~Parses(attempt[For[c]])
  BY <1>6, <2>3 DEF Resolve, TypeOK, Calls, Writing, Outcome
<2> QED
  BY <2>1, <2>2, <2>3
<1>7. CASE OpenAttempt(c)
  BY <1>7, TruncatedType, KindAssumption DEF OpenAttempt, TypeOK, Calls, Writing, Outcome
<1>8. CASE WriteAttempt(c)
<2> DEFINE s == For[c]
<2>1. s \in Session /\ c \in Publisher /\ id[c] = c
  BY <1>8, KindAssumption DEF WriteAttempt, CallsByKind, OwnAttempt, Owns, Holding, TypeOK
<2>2. attempt' \in [Session -> AttemptFile \cup {None}]
  <3>1. CASE c \in writers[s] /\ attempt[s] # None
    BY <1>8, <2>1, <3>1, FilledType DEF WriteAttempt, TypeOK
  <3>2. CASE c \notin writers[s]
    BY <1>8, <3>2 DEF WriteAttempt, TypeOK
  <3> QED
    BY <2>1, <3>1, <3>2 DEF SavedAttempts
<2>3. saving[c] \in {"PREPARED", "UPLOADING", "PUBLISHED"}
  BY DEF TypeOK
<2>4. AfterSave[saving[c]] \in Calls /\ NextState[saving[c]] \in {"PREPARED", "UPLOADING", "PUBLISHED"}
  <3>1. CASE saving[c] = "PREPARED"
    BY <3>1 DEF AfterSave, NextState, Calls, Writing
  <3>2. CASE saving[c] = "UPLOADING"
    BY <3>2 DEF AfterSave, NextState, Calls, Writing
  <3>3. CASE saving[c] = "PUBLISHED"
    BY <3>3 DEF AfterSave, NextState, Calls, Writing
  <3> QED
    BY <2>3, <3>1, <3>2, <3>3
<2> QED
  BY <1>8, <2>2, <2>4 DEF WriteAttempt, TypeOK
<1>9. CASE Post(c)
<2>1. stored' \in [Command -> Command \cup {None, "deleted"}]
  BY <1>9 DEF Post, TypeOK, Artifact
<2> QED
  BY <1>9, <2>1 DEF Post, TypeOK, Calls, Writing, Outcome
<1>10. CASE RequestFails(c)
  BY <1>10 DEF RequestFails, TypeOK, Calls, Writing, Outcome
<1>11. CASE ShowLink(c)
<2>1. id[c] = c /\ For[c] \in Session
  BY <1>11, KindAssumption DEF ShowLink, CallsByKind, OwnAttempt, Owns, Holding
<2>2. shown' \subseteq [session : Session, id : Command, key : Command]
  BY <1>11, <2>1 DEF ShowLink, TypeOK, Artifact
<2> QED
  BY <1>11, <2>2 DEF ShowLink, TypeOK, Calls, Writing, Outcome
<1>12. CASE BeginUnpublish(c)
  BY <1>12 DEF BeginUnpublish, TypeOK, Calls, Writing, Outcome
<1>13. CASE LookUp(c)
<2>1. Published(attempt[For[c]]) => attempt[For[c]].id \in Command \cup {None}
  BY KindAssumption DEF TypeOK, AttemptFile, Published
<2> QED
  BY <1>13, <2>1 DEF LookUp, TypeOK, Calls, Writing, Outcome
<1>14. CASE NamePublication(c)
<2>1. Nameable(c) \subseteq Command
  BY DEF Nameable, TypeOK
<2> QED
  BY <1>14, <2>1 DEF NamePublication, TypeOK, Calls, Writing, Outcome
<1>15. CASE Delete(c)
  BY <1>15 DEF Delete, TypeOK, Calls, Writing, Outcome
<1>16. CASE Clear(c)
<2>1. /\ attempt' \in [Session -> AttemptFile \cup {None}] /\ writers' \in [Session -> SUBSET Command]
      /\ last' \in [Session -> Command \cup {None}]
  BY <1>16 DEF Clear, TypeOK
<2> QED
  BY <1>16, <2>1 DEF Clear, TypeOK, Calls, Writing, Outcome
<1>17. CASE Die(c)
  BY <1>17 DEF Die, TypeOK, Calls, Writing, Outcome
<1> QED
  BY <1>1, <1>2, <1>3, <1>4, <1>5, <1>6, <1>7, <1>8, <1>9, <1>10, <1>11, <1>12, <1>13, <1>14, <1>15, <1>16, <1>17 DEF Step

(* Only a publish makes the calls of a publish. *)
LEMMA KindStep ==
  ASSUME TypeOK, CallsByKind, OwnAttempt, NEW c \in Command, Step(c)
  PROVE  CallsByKind'
<1>1. CASE BeginPublish(c)
  BY <1>1 DEF BeginPublish, TypeOK, CallsByKind, Holding, BeforeResolve, Withdrawing, Calls, Writing, Outcome
<1>2. CASE LoadSignIn(c)
  BY <1>2 DEF LoadSignIn, TypeOK, CallsByKind, Holding, BeforeResolve, Withdrawing, Calls, Writing, Outcome
<1>3. CASE Poll(c)
  BY <1>3 DEF Poll, TypeOK, CallsByKind, Holding, BeforeResolve, Withdrawing, Calls, Writing, Outcome
<1>4. CASE OpenSignIn(c)
  BY <1>4 DEF OpenSignIn, TypeOK, CallsByKind, Holding, BeforeResolve, Withdrawing, Calls, Writing, Outcome
<1>5. CASE WriteSignIn(c)
  BY <1>5 DEF WriteSignIn, TypeOK, CallsByKind, Holding, BeforeResolve, Withdrawing, Calls, Writing, Outcome
<1>6. CASE Resolve(c)
  BY <1>6 DEF Resolve, TypeOK, CallsByKind, Holding, BeforeResolve, Withdrawing, Calls, Writing, Outcome
<1>7. CASE OpenAttempt(c)
  BY <1>7 DEF OpenAttempt, TypeOK, CallsByKind, Holding, BeforeResolve, Withdrawing, Calls, Writing, Outcome
<1>8. CASE WriteAttempt(c)
<2> PICK call \in {"open", "post", "link"}, state \in {"UPLOADING", "PUBLISHED"} :
       /\ c \in Publisher /\ id[c] = c /\ UNCHANGED <<id, stored>>
       /\ pc' = [pc EXCEPT ![c] = call]
       /\ saving' = [saving EXCEPT ![c] = state]
       /\ call = "open" => state = "UPLOADING"
       /\ call = "post" => state = "PUBLISHED"
       /\ call = "link" => saving[c] = "PUBLISHED" /\ stored[c] # None
  BY <1>8, WriteFacts
<2> QED
  BY DEF TypeOK, CallsByKind, Holding, BeforeResolve, Withdrawing
<1>9. CASE Post(c)
  BY <1>9 DEF Post, TypeOK, CallsByKind, Holding, BeforeResolve, Withdrawing, Calls, Writing, Outcome
<1>10. CASE RequestFails(c)
  BY <1>10 DEF RequestFails, TypeOK, CallsByKind, Holding, BeforeResolve, Withdrawing, Calls, Writing, Outcome
<1>11. CASE ShowLink(c)
  BY <1>11 DEF ShowLink, TypeOK, CallsByKind, Holding, BeforeResolve, Withdrawing, Calls, Writing, Outcome
<1>12. CASE BeginUnpublish(c)
  BY <1>12 DEF BeginUnpublish, TypeOK, CallsByKind, Holding, BeforeResolve, Withdrawing, Calls, Writing, Outcome
<1>13. CASE LookUp(c)
  BY <1>13 DEF LookUp, TypeOK, CallsByKind, Holding, BeforeResolve, Withdrawing, Calls, Writing, Outcome
<1>14. CASE NamePublication(c)
  BY <1>14 DEF NamePublication, TypeOK, CallsByKind, Holding, BeforeResolve, Withdrawing, Calls, Writing, Outcome
<1>15. CASE Delete(c)
  BY <1>15 DEF Delete, TypeOK, CallsByKind, Holding, BeforeResolve, Withdrawing, Calls, Writing, Outcome
<1>16. CASE Clear(c)
  BY <1>16 DEF Clear, TypeOK, CallsByKind, Holding, BeforeResolve, Withdrawing, Calls, Writing, Outcome
<1>17. CASE Die(c)
  BY <1>17 DEF Die, TypeOK, CallsByKind, Holding, BeforeResolve, Withdrawing, Calls, Writing, Outcome
<1> QED
  BY <1>1, <1>2, <1>3, <1>4, <1>5, <1>6, <1>7, <1>8, <1>9, <1>10, <1>11, <1>12, <1>13, <1>14, <1>15, <1>16, <1>17 DEF Step

(* What is stored stays, or is marked as deleted. *)
LEMMA StoredStays ==
  ASSUME TypeOK, CallsByKind, OwnAttempt, NEW c \in Command, Step(c), NEW a \in Command
  PROVE  /\ stored[a] # None => stored'[a] # None
         /\ stored'[a] \in {stored[a], a, "deleted"}
<1>1. CASE Post(c)
  <2>1. id[c] = c
    BY <1>1 DEF Post, CallsByKind, OwnAttempt, Owns, Holding
  <2> QED
    BY <1>1, <2>1, NoneAssumption DEF Post, TypeOK, Artifact
<1>2. CASE Delete(c)
  BY <1>2, NoneAssumption DEF Delete, TypeOK
<1> QED
  BY <1>1, <1>2, Frame

(* A publish has its own attempt in hand: its calls, one by one. *)
LEMMA OwnStep ==
  ASSUME TypeOK, CallsByKind, OwnAttempt, SavedAttempts, NEW c \in Command, Step(c)
  PROVE  OwnAttempt'
<1> SUFFICES ASSUME NEW d \in Publisher PROVE Owns(d)'
  BY DEF OwnAttempt
<1>a. d \in Command /\ Owns(d)
  BY DEF Publisher, OwnAttempt
<1>b. stored[d] # None => stored'[d] # None
  BY <1>a, StoredStays
<1>c. CASE d # c
  <2>1. pc'[d] = pc[d] /\ saving'[d] = saving[d] /\ id'[d] = id[d]
    BY <1>a, <1>c, OneActs
  <2> QED
    BY <1>a, <1>b, <2>1 DEF Owns
<1>d. CASE d = c
  <2> USE <1>a, <1>b, <1>d
  <2>1. CASE BeginPublish(c)
    BY <2>1 DEF BeginPublish, TypeOK, Owns, Holding, BeforeResolve
  <2>2. CASE LoadSignIn(c)
    BY <2>2 DEF LoadSignIn, TypeOK, Owns, Holding, BeforeResolve
  <2>3. CASE Poll(c)
    BY <2>3 DEF Poll, TypeOK, Owns, Holding, BeforeResolve
  <2>4. CASE OpenSignIn(c)
    BY <2>4 DEF OpenSignIn, TypeOK, Owns, Holding, BeforeResolve
  <2>5. CASE WriteSignIn(c)
    BY <2>5 DEF WriteSignIn, TypeOK, Owns, Holding, BeforeResolve
  <2>6. CASE Resolve(c)
    BY <2>6, ResolveFacts DEF TypeOK, Owns, Holding, BeforeResolve
  <2>7. CASE OpenAttempt(c)
    BY <2>7 DEF OpenAttempt, TypeOK, Owns, Holding, BeforeResolve
  <2>8. CASE WriteAttempt(c)
    <3> PICK call \in {"open", "post", "link"}, state \in {"UPLOADING", "PUBLISHED"} :
           /\ id[c] = c /\ UNCHANGED <<id, stored>>
           /\ pc' = [pc EXCEPT ![c] = call]
           /\ saving' = [saving EXCEPT ![c] = state]
           /\ call = "open" => state = "UPLOADING"
           /\ call = "post" => state = "PUBLISHED"
           /\ call = "link" => stored[c] # None
      BY <2>8, WriteFacts
    <3> QED
      BY DEF TypeOK, Owns, Holding, BeforeResolve
  <2>9. CASE Post(c)
    <3>1. id[c] = c /\ saving[c] = "PUBLISHED" /\ UNCHANGED <<id, saving>>
      BY <2>9 DEF Post, Owns, Holding
    <3>2. stored'[c] # None
      BY <2>9, <3>1, NoneAssumption DEF Post, TypeOK, Artifact
    <3> QED
      BY <2>9, <3>1, <3>2 DEF Post, TypeOK, Owns, Holding, BeforeResolve
  <2>10. CASE RequestFails(c)
    BY <2>10 DEF RequestFails, TypeOK, Owns, Holding, BeforeResolve
  <2>11. CASE ShowLink(c)
    BY <2>11 DEF ShowLink, TypeOK, Owns, Holding, BeforeResolve
  <2>12. CASE BeginUnpublish(c)
    BY <2>12 DEF BeginUnpublish, TypeOK, Owns, Holding, BeforeResolve
  <2>13. CASE LookUp(c)
    BY <2>13 DEF LookUp, TypeOK, CallsByKind, Withdrawing
  <2>14. CASE NamePublication(c)
    BY <2>14 DEF NamePublication, TypeOK, CallsByKind, Withdrawing
  <2>15. CASE Delete(c)
    BY <2>15 DEF Delete, TypeOK, CallsByKind, Withdrawing
  <2>16. CASE Clear(c)
    BY <2>16 DEF Clear, TypeOK, CallsByKind, Withdrawing
  <2>17. CASE Die(c)
    BY <2>17 DEF Die, TypeOK, Owns, Holding, BeforeResolve
  <2> QED
    BY <2>1, <2>2, <2>3, <2>4, <2>5, <2>6, <2>7, <2>8, <2>9, <2>10, <2>11, <2>12, <2>13, <2>14, <2>15, <2>16, <2>17 DEF Step
<1> QED
  BY <1>c, <1>d

(* The service holds artifacts under their own attempts. *)
LEMMA ArtifactStep ==
  ASSUME TypeOK, CallsByKind, OwnAttempt, OwnArtifact, NEW c \in Command, Step(c)
  PROVE  OwnArtifact'
<1>1. \A a \in Command : stored'[a] \in {None, a, "deleted"}
  BY StoredStays DEF OwnArtifact
<1>2. \A link \in shown' : link.id = link.key /\ stored'[link.id] # None
  <2>1. CASE ShowLink(c)
    <3>1. id[c] = c /\ stored[c] # None /\ UNCHANGED stored
      BY <2>1 DEF ShowLink, CallsByKind, OwnAttempt, Owns, Holding
    <3> QED
      BY <2>1, <3>1 DEF ShowLink, OwnArtifact, Artifact
  <2>2. CASE UNCHANGED shown
    <3>1. \A link \in shown : link.id \in Command
      BY DEF TypeOK
    <3> QED
      BY <2>2, <3>1, StoredStays DEF OwnArtifact
  <2> QED
    BY <2>1, <2>2, Frame
<1> QED
  BY <1>1, <1>2 DEF OwnArtifact

(* A link names the artifact whose key it carries. *)
LEMMA LinkStep ==
  ASSUME TypeOK', OwnArtifact', LinkOpens, NEW c \in Command, Step(c)
  PROVE  LinkOpens'
<1>1. \A link \in shown' : For[link.key] = link.session
  <2>1. CASE ShowLink(c)
    BY <2>1 DEF ShowLink, Artifact, LinkOpens
  <2>2. CASE UNCHANGED shown
    BY <2>2 DEF LinkOpens
  <2> QED
    BY <2>1, <2>2, Frame
<1>2. \A link \in shown' : link.id \in Command /\ link.key \in Command
  BY DEF TypeOK
<1> QED
  BY <1>1, <1>2 DEF LinkOpens, OwnArtifact

(* What an attempt file holds. *)
LEMMA SavedStep ==
  ASSUME TypeOK, CallsByKind, OwnAttempt, SavedAttempts, NEW c \in Command, Step(c)
  PROVE  SavedAttempts'
<1>1. CASE OpenAttempt(c)
  <2>1. Truncated # None /\ Truncated.id = Truncated.digest /\ Truncated.state = "PREPARED"
    BY TruncatedType, NoneAssumption DEF Truncated
  <2> QED
    BY <1>1, <2>1 DEF OpenAttempt, TypeOK, SavedAttempts
<1>2. CASE WriteAttempt(c)
  <2> DEFINE s == For[c]
  <2>1. s \in Session /\ id[c] = c
    BY <1>2, WriteFacts, KindAssumption
  <2>2. CASE c \in writers[s]
    <3>1. Filled(c, attempt[s]) # None
      BY <2>1, <2>2, FilledType, NoneAssumption DEF TypeOK, SavedAttempts
    <3>2. Filled(c, attempt[s]).id = c /\ Filled(c, attempt[s]).digest = c
      BY <2>1 DEF Filled, Digest, Artifact
    <3> QED
      BY <1>2, <2>1, <2>2, <3>1, <3>2, NoneAssumption DEF WriteAttempt, TypeOK, SavedAttempts
  <2>3. CASE c \notin writers[s]
    BY <1>2, <2>1, <2>3 DEF WriteAttempt, TypeOK, SavedAttempts
  <2> QED
    BY <2>2, <2>3
<1>3. CASE Clear(c)
  BY <1>3 DEF Clear, TypeOK, SavedAttempts
<1>4. CASE Die(c)
  BY <1>4 DEF Die, SavedAttempts
<1>5. CASE UNCHANGED attempts
  BY <1>5 DEF SavedAttempts
<1> QED
  BY <1>1, <1>2, <1>3, <1>4, <1>5, Frame

(* An attempt file tells of a publication the service has stored. *)
LEMMA TrueStep ==
  ASSUME TypeOK, CallsByKind, OwnAttempt, SavedAttempts, AttemptIsTrue, NEW c \in Command, Step(c)
  PROVE  AttemptIsTrue'
<1>1. CASE OpenAttempt(c)
  <2>1. ~Published(Truncated)
    BY DEF Published, Truncated
  <2> QED
    BY <1>1, <2>1 DEF OpenAttempt, TypeOK, AttemptIsTrue
<1>2. CASE WriteAttempt(c)
  <2> DEFINE s == For[c]
  <2>1. s \in Session /\ c \in Publisher /\ id[c] = c /\ UNCHANGED stored
    BY <1>2, WriteFacts, KindAssumption
  <2>2. saving[c] = "PUBLISHED" => stored[c] # None
    BY <1>2, <2>1 DEF WriteAttempt, OwnAttempt, Owns
  <2>3. Published(Filled(c, attempt[s])) => Filled(c, attempt[s]).id = c /\ stored[c] # None
    BY <2>1, <2>2 DEF Published, Filled
  <2>4. CASE c \in writers[s]
    BY <1>2, <2>1, <2>3, <2>4 DEF WriteAttempt, TypeOK, AttemptIsTrue
  <2>5. CASE c \notin writers[s]
    BY <1>2, <2>1, <2>5 DEF WriteAttempt, AttemptIsTrue
  <2> QED
    BY <2>4, <2>5
<1>3. CASE Clear(c)
  <2>1. ~Published(None)
    BY DEF Published
  <2> QED
    BY <1>3, <2>1 DEF Clear, TypeOK, AttemptIsTrue
<1>4. CASE UNCHANGED attempt
  <2>1. \A s \in Session : Published(attempt[s]) => attempt[s].id \in Command
    BY DEF TypeOK, SavedAttempts, Published, AttemptFile
  <2> QED
    BY <1>4, <2>1, StoredStays DEF AttemptIsTrue
<1> QED
  BY <1>1, <1>2, <1>3, <1>4, Frame DEF Die

(* Without overlap a command that takes a step is the one under way. *)
LEMMA AloneIsActor ==
  ASSUME OneAtATime, NEW c \in Command, Step(c), ~overlapped'
  PROVE  ~overlapped /\ \A d \in UnderWay : d = c
<1>1. CASE BeginPublish(c) \/ BeginUnpublish(c)
  BY <1>1 DEF BeginPublish, BeginUnpublish
<1>2. CASE ~BeginPublish(c) /\ ~BeginUnpublish(c)
  <2>1. c \in UnderWay
    BY <1>2 DEF UnderWay, Outcome, Step, LoadSignIn, Poll, OpenSignIn, WriteSignIn, Resolve, OpenAttempt,
         WriteAttempt, Post, RequestFails, ShowLink, LookUp, NamePublication,
         Delete, Clear, Die
  <2> QED
    BY <2>1, Frame DEF OneAtATime
<1> QED
  BY <1>1, <1>2

(* It finds its file as it opened it. *)
LEMMA AloneStep ==
  ASSUME TypeOK, CallsByKind, OwnAttempt, SavedAttempts, OneAtATime, NEW c \in Command, Step(c)
  PROVE  OneAtATime'
<1>1. ~overlapped' => \A d \in UnderWay' : d = c
  BY AloneIsActor, OneActs DEF UnderWay
<1>2. pc'[c] = "write" => c \in writers'[For[c]] /\ attempt'[For[c]] = Truncated
  <2>1. CASE OpenAttempt(c)
    BY <2>1, KindAssumption DEF OpenAttempt, TypeOK
  <2>2. CASE WriteAttempt(c)
    BY <2>2, WriteFacts DEF TypeOK
  <2>3. CASE Resolve(c)
    BY <2>3, ResolveFacts DEF TypeOK
  <2>4. CASE ~OpenAttempt(c) /\ ~WriteAttempt(c) /\ ~Resolve(c)
    BY <2>4 DEF TypeOK, Step, BeginPublish, LoadSignIn, Poll, OpenSignIn, WriteSignIn, Post,
         RequestFails, ShowLink, BeginUnpublish, LookUp, NamePublication,
         Delete, Clear, Die
  <2> QED
    BY <2>1, <2>2, <2>3, <2>4
<1> QED
  BY <1>1, <1>2 DEF OneAtATime, UnderWay, Outcome

(* What is being written stays so while other commands take steps. *)
LEMMA StaysReadable ==
  ASSUME Readable, NEW c \in Command, pc[c] \notin Writing,
         \A d \in Command : d # c => pc'[d] = pc[d], UNCHANGED <<signIn, attempt>>
  PROVE  Readable'
<1>1. signIn' = "torn" => \E d \in Command : pc'[d] = "write token"
  BY DEF Readable, Writing
<1>2. ASSUME NEW s \in Session, ~Parses(attempt'[s])
      PROVE  \E d \in Command : pc'[d] = "write" /\ For[d] = s
  BY <1>2 DEF Readable, Writing
<1> QED
  BY <1>1, <1>2 DEF Readable

(* What holds without overlap and a death in a write held before the step, *)
(* and the command that takes it was the one under way.                    *)
LEMMA UndisturbedStep ==
  ASSUME TypeOK, CallsByKind, OwnAttempt, SavedAttempts, OneAtATime, NEW c \in Command, Step(c),
         Undisturbed'
  PROVE  /\ Undisturbed /\ \A d \in UnderWay : d = c
         /\ \A d \in Command : d # c => pc'[d] = pc[d]
         /\ ~Die(c) \/ pc[c] \notin Writing
<1>1. \A d \in Command : d # c => pc'[d] = pc[d]
  BY OneActs
<1>2. pc[c] # "torn"
  BY DEF UnderWay, Outcome, Step, BeginPublish, LoadSignIn, Poll, OpenSignIn, WriteSignIn, Resolve,
         OpenAttempt, WriteAttempt, Post, RequestFails, ShowLink,
         BeginUnpublish, LookUp, NamePublication, Delete, Clear, Die
<1>3. ~Die(c) \/ pc[c] \notin Writing
  BY DEF Die, TypeOK, Undisturbed
<1> QED
  BY <1>1, <1>2, <1>3, AloneIsActor DEF Undisturbed

(* Without overlap and a death in a write, what does not parse is being    *)
(* written.                                                                *)
LEMMA ReadableStep ==
  ASSUME TypeOK, CallsByKind, OwnAttempt, SavedAttempts, OneAtATime, UnreadableWhileWritten,
         NEW c \in Command, Step(c), Undisturbed'
  PROVE  Readable'
<1>1. ~Die(c) \/ pc[c] \notin Writing
  BY UndisturbedStep
<1>2. \A d \in Command : d # c => pc'[d] = pc[d]
  BY OneActs
<1>3. Readable /\ ~overlapped /\ \A d \in UnderWay : d = c
  BY UndisturbedStep DEF UnreadableWhileWritten, Undisturbed
<1>4. CASE OpenSignIn(c)
  BY <1>3, <1>4 DEF OpenSignIn, TypeOK, Readable
<1>5. CASE WriteSignIn(c)
  BY <1>3, <1>5 DEF WriteSignIn, TypeOK, Readable
<1>6. CASE OpenAttempt(c)
  BY <1>3, <1>6, KindAssumption DEF OpenAttempt, TypeOK, Readable
<1>7. CASE WriteAttempt(c)
  <2> DEFINE s == For[c]
  <2>1. s \in Session /\ c \in writers[s] /\ attempt[s] = Truncated /\ pc[c] = "write"
    BY <1>3, <1>7, KindAssumption DEF WriteAttempt, OneAtATime
  <2>2. Parses(Filled(c, Truncated))
    <3>1. Size(saving[c]) \in Nat
      BY DEF Size
    <3> QED
      BY <3>1 DEF Parses, Filled, Truncated
  <2>3. attempt' = [attempt EXCEPT ![s] = Filled(c, Truncated)] /\ UNCHANGED signIn
    BY <1>7, <2>1 DEF WriteAttempt, TypeOK
  <2>4. ASSUME NEW r \in Session, ~Parses(attempt'[r])
        PROVE  \E d \in Command : pc'[d] = "write" /\ For[d] = r
    <3>1. r # s /\ ~Parses(attempt[r])
      BY <2>1, <2>2, <2>3, <2>4 DEF TypeOK
    <3>2. PICK d \in Command : pc[d] = "write" /\ For[d] = r
      BY <1>3, <3>1 DEF Readable
    <3> QED
      BY <1>2, <3>1, <3>2
  <2>5. signIn' = "torn" => \E d \in Command : pc'[d] = "write token"
    BY <1>2, <1>3, <2>1, <2>3 DEF Readable
  <2> QED
    BY <2>4, <2>5 DEF Readable
<1>8. CASE Clear(c)
  <2>1. Parses(None)
    BY DEF Parses
  <2> QED
    BY <1>3, <1>8, <2>1 DEF Clear, TypeOK, Readable
<1>9. CASE UNCHANGED <<signIn, attempt>> /\ ~WriteSignIn(c) /\ ~WriteAttempt(c)
  <2>1. pc[c] \notin Writing
    BY <1>1, <1>9 DEF Writing, Step, BeginPublish, LoadSignIn, Poll, OpenSignIn, Resolve, OpenAttempt,
         Post, RequestFails, ShowLink, BeginUnpublish, LookUp, NamePublication,
         Delete, Clear, Die
  <2> QED
    BY <1>2, <1>3, <1>9, <2>1, StaysReadable
<1> QED
  BY <1>4, <1>5, <1>6, <1>7, <1>8, <1>9, Frame DEF Die

(* Without overlap and a death in a write, no command comes upon anything  *)
(* that does not parse.                                                    *)
LEMMA NothingThrown ==
  ASSUME TypeOK, CallsByKind, OwnAttempt, SavedAttempts, OneAtATime, UnreadableWhileWritten,
         NEW c \in Command, Step(c), Undisturbed'
  PROVE  \A d \in Command : pc'[d] # "threw"
<1>1. \A d \in Command : d # c => pc'[d] = pc[d]
  BY OneActs
<1>2. \A d \in UnderWay : d = c
  BY UndisturbedStep
<1>3. Readable /\ \A d \in Command : pc[d] # "threw"
  BY UndisturbedStep DEF UnreadableWhileWritten
<1>4. pc[c] # "write token" => signIn # "torn"
  <2> SUFFICES ASSUME signIn = "torn", pc[c] # "write token" PROVE FALSE
    OBVIOUS
  <2>1. PICK d \in Command : pc[d] = "write token"
    BY <1>3 DEF Readable
  <2> QED
    BY <1>2, <2>1 DEF UnderWay, Outcome
<1>5. pc[c] # "write" => Parses(attempt[For[c]])
  <2> SUFFICES ASSUME ~Parses(attempt[For[c]]), pc[c] # "write" PROVE FALSE
    OBVIOUS
  <2>1. PICK d \in Command : pc[d] = "write"
    BY <1>3, KindAssumption DEF Readable
  <2> QED
    BY <1>2, <2>1 DEF UnderWay, Outcome
<1>6. pc'[c] # "threw"
  <2>1. CASE LoadSignIn(c)
    BY <1>4, <2>1 DEF LoadSignIn, TypeOK
  <2>2. CASE BeginUnpublish(c)
    BY <1>4, <2>2 DEF BeginUnpublish, TypeOK
  <2>3. CASE Resolve(c)
    BY <1>5, <2>3 DEF Resolve, TypeOK
  <2>4. CASE LookUp(c)
    BY <1>5, <2>4 DEF LookUp, TypeOK
  <2>5. CASE WriteAttempt(c)
    BY <2>5, WriteFacts DEF TypeOK
  <2>6. CASE ~(LoadSignIn(c) \/ BeginUnpublish(c) \/ Resolve(c) \/ LookUp(c) \/ WriteAttempt(c))
    BY <2>6 DEF TypeOK, Step, BeginPublish, Poll, OpenSignIn, WriteSignIn, OpenAttempt, Post,
         RequestFails, ShowLink, NamePublication, Delete, Clear, Die
  <2> QED
    BY <2>1, <2>2, <2>3, <2>4, <2>5, <2>6
<1> QED
  BY <1>1, <1>3, <1>6

(* Whoever goes on to publish, or has published, is signed in. *)
LEMMA SignedInStep ==
  ASSUME TypeOK, CallsByKind, OwnAttempt, SavedAttempts, SignedIn, NEW c \in Command, Step(c)
  PROVE  SignedIn'
<1> DEFINE With == Holding \cup {"resolve", "write token"}
<1>1. \A d \in Command : d # c => pc'[d] = pc[d]
  BY OneActs
<1>2. signIn # None => signIn' # None
  BY Frame, NoneAssumption DEF OpenSignIn, WriteSignIn
<1>3. pc'[c] \in With /\ pc[c] \notin With => signIn' # None
  <2>1. CASE LoadSignIn(c)
    BY <2>1, NoneAssumption DEF LoadSignIn, TypeOK, Holding
  <2>2. CASE OpenSignIn(c)
    BY <2>2, NoneAssumption DEF OpenSignIn, TypeOK, Holding
  <2>3. CASE ~LoadSignIn(c) /\ ~OpenSignIn(c)
    BY <2>3 DEF Holding, TypeOK, Step, BeginPublish, Poll, WriteSignIn, Resolve, OpenAttempt,
       WriteAttempt, Post, RequestFails, ShowLink, BeginUnpublish, LookUp, NamePublication, Delete,
       Clear, Die
  <2> QED
    BY <2>1, <2>2, <2>3
<1>4. shown' = shown \/ pc[c] \in With
  BY Frame DEF ShowLink, Holding
<1>5. c \in Publisher /\ pc'[c] = "ok" /\ pc[c] # "ok" => pc[c] \in With
  <2>1. CASE ShowLink(c)
    BY <2>1 DEF ShowLink, Holding
  <2>2. CASE Clear(c)
    BY <2>2 DEF Clear, CallsByKind, Withdrawing
  <2>3. CASE Resolve(c) \/ WriteAttempt(c)
    BY <2>3 DEF Resolve, WriteAttempt, Holding
  <2>4. CASE ~ShowLink(c) /\ ~Clear(c) /\ ~Resolve(c) /\ ~WriteAttempt(c)
    BY <2>4 DEF TypeOK, Step, BeginPublish, LoadSignIn, Poll, OpenSignIn, WriteSignIn, OpenAttempt,
       Post, RequestFails, BeginUnpublish, LookUp, NamePublication, Delete, Die
  <2> QED
    BY <2>1, <2>2, <2>3, <2>4
<1>6. pc[c] \in With => signIn # None
  BY DEF SignedIn
<1>7. Publisher \subseteq Command
  BY DEF Publisher
<1> QED
  BY <1>1, <1>2, <1>3, <1>4, <1>5, <1>6, <1>7 DEF SignedIn

(* The latest publish of a session is one of the session. *)
LEMMA LastStep ==
  ASSUME TypeOK, CallsByKind, LastIsOwn, NEW c \in Command, Step(c)
  PROVE  LastIsOwn'
<1>1. CASE OpenAttempt(c)
  BY <1>1 DEF OpenAttempt, TypeOK, LastIsOwn, CallsByKind, Holding
<1>2. CASE Clear(c)
  BY <1>2 DEF Clear, TypeOK, LastIsOwn
<1>3. CASE UNCHANGED last
  BY <1>3 DEF LastIsOwn
<1> QED
  BY <1>1, <1>2, <1>3, Frame

(* Without overlap and a death in a write, what the latest publish of a    *)
(* session wrote when it was confirmed stays on file.                      *)
LEMMA OnFileStep ==
  ASSUME TypeOK, CallsByKind, OwnAttempt, SavedAttempts, OneAtATime, LastIsOwn, OnFile,
         NEW c \in Command, Step(c), Undisturbed'
  PROVE  OnFile'
<1>1. /\ Undisturbed /\ \A d \in UnderWay : d = c
      /\ \A d \in Command : d # c => pc'[d] = pc[d]
  BY UndisturbedStep
<1>2. /\ \A s \in Session : Completed(s) => Published(attempt[s])
      /\ pc[c] = "write" => last[For[c]] = c
      /\ pc[c] = "link" => Published(attempt[For[c]])
  BY <1>1 DEF OnFile
<1>3. \A d \in Command : d # c => pc'[d] \notin {"write", "link"}
  BY <1>1 DEF UnderWay, Outcome
<1> SUFFICES ASSUME TRUE
             PROVE  /\ \A s \in Session : Completed(s)' => Published(attempt'[s])
                    /\ pc'[c] = "write" => last'[For[c]] = c
                    /\ pc'[c] = "link" => Published(attempt'[For[c]])
  BY <1>3 DEF OnFile, Published, Parses
<1>4. For[c] \in Session
  BY KindAssumption
<1>5. CASE OpenAttempt(c)
  <2>1. \A s \in Session : s # For[c] => last'[s] = last[s] /\ attempt'[s] = attempt[s]
    BY <1>5 DEF OpenAttempt, TypeOK
  <2>2. last'[For[c]] = c /\ pc'[c] = "write"
    BY <1>4, <1>5 DEF OpenAttempt, TypeOK
  <2>3. \A s \in Session : s # For[c] /\ Completed(s)' => Completed(s)
    BY <1>1, <2>1, <2>2 DEF Completed, TypeOK
  <2> QED
    BY <1>2, <2>1, <2>2, <2>3 DEF Completed
<1>6. CASE WriteAttempt(c)
  <2>1. last' = last /\ last[For[c]] = c
    BY <1>2, <1>6 DEF WriteAttempt
  <2>2. PICK call \in {"open", "post", "link"} :
           /\ pc' = [pc EXCEPT ![c] = call]
           /\ call = "link" => saving[c] = "PUBLISHED"
    BY <1>6, WriteFacts
  <2>3. \A s \in Session : s # For[c] => attempt'[s] = attempt[s]
    BY <1>6 DEF WriteAttempt, TypeOK
  <2>4. pc'[c] = call
    BY <2>2 DEF TypeOK
  <2>5. \A s \in Session : Completed(s)' => s # For[c] /\ Completed(s)
    BY <1>1, <2>1, <2>4 DEF Completed, TypeOK
  <2>6. pc'[c] = "link" => Published(attempt'[For[c]])
    <3>1. attempt'[For[c]] = Filled(c, Truncated)
      BY <1>1, <1>4, <1>6 DEF WriteAttempt, OneAtATime, Undisturbed, TypeOK
    <3>2. SUFFICES ASSUME saving[c] = "PUBLISHED" PROVE Published(Filled(c, Truncated))
      BY <2>2, <2>4, <3>1
    <3>3. Filled(c, Truncated) \in AttemptFile
      BY TruncatedType, FilledType
    <3> QED
      BY <3>2, <3>3, NoneAssumption DEF Published, Parses, Filled, Truncated, Size
  <2> QED
    BY <1>2, <2>3, <2>4, <2>5, <2>6
<1>7. CASE Clear(c)
  <2>1. c \notin Publisher /\ pc'[c] = "ok"
    BY <1>7 DEF Clear, CallsByKind, Withdrawing, TypeOK
  <2>2. \A s \in Session : last'[s] # None => last'[s] = last[s] /\ attempt'[s] = attempt[s]
    BY <1>7, <1>4 DEF Clear, TypeOK
  <2>3. \A s \in Session : Completed(s)' => Completed(s) /\ attempt'[s] = attempt[s]
    BY <1>1, <2>1, <2>2 DEF Completed, LastIsOwn, TypeOK
  <2> QED
    BY <1>2, <2>1, <2>3
<1>8. CASE ShowLink(c)
  <2>1. last' = last /\ attempt' = attempt /\ pc'[c] = "ok" /\ pc[c] = "link"
    BY <1>8 DEF ShowLink, TypeOK
  <2>2. \A s \in Session : Completed(s)' => Completed(s) \/ (last[s] = c /\ For[c] = s)
    BY <1>1, <2>1 DEF Completed, LastIsOwn, TypeOK
  <2> QED
    BY <1>2, <2>1, <2>2
<1>9. CASE ~OpenAttempt(c) /\ ~WriteAttempt(c) /\ ~Clear(c) /\ ~ShowLink(c)
  <2>1. last' = last /\ attempt' = attempt
    BY <1>9, Frame DEF Die
  <2>2. pc'[c] \notin {"ok", "write", "link"}
    <3>1. CASE Resolve(c)
      BY <3>1, ResolveFacts DEF TypeOK
    <3> QED
      BY <1>9, <3>1 DEF TypeOK, Step, BeginPublish, LoadSignIn, Poll, OpenSignIn, WriteSignIn, Post,
         RequestFails, BeginUnpublish, LookUp, NamePublication, Delete, Die
  <2>3. \A s \in Session : Completed(s)' => Completed(s)
    BY <1>1, <2>1, <2>2 DEF Completed, TypeOK
  <2> QED
    BY <1>2, <2>1, <2>2, <2>3
<1> QED
  BY <1>5, <1>6, <1>7, <1>8, <1>9

(* An unpublish is refused only for a session without a completed publish. *)
LEMMA RefusedStep ==
  ASSUME IInv, NEW c \in Command, Step(c), Undisturbed',
         NEW d \in Command, pc'[d] = "refused", pc[d] # "refused"
  PROVE  Kind[d] = "unpublish session" /\ ~Completed(For[d])
<1> USE DEF IInv
<1>1. d = c /\ Undisturbed
  BY UndisturbedStep
<1>2. BeginUnpublish(c) \/ LookUp(c)
  <2>1. CASE Resolve(c)
    BY <1>1, <2>1, ResolveFacts DEF TypeOK
  <2>2. CASE WriteAttempt(c)
    BY <1>1, <2>2, WriteFacts DEF TypeOK
  <2> QED
    BY <1>1, <2>1, <2>2 DEF TypeOK, Step, BeginPublish, LoadSignIn, Poll, OpenSignIn, WriteSignIn,
       OpenAttempt, Post, RequestFails, ShowLink, NamePublication, Delete, Clear, Die
<1>3. For[c] \in Session /\ Kind[c] \in Kinds
  BY KindAssumption
<1>4. CASE BeginUnpublish(c)
  <2>1. signIn = None
    BY <1>1, <1>4 DEF BeginUnpublish, TypeOK
  <2>2. shown = {}
    BY <2>1 DEF SignedIn
  <2>3. Kind[c] = "unpublish session"
    BY <1>3, <1>4, <2>2 DEF BeginUnpublish, Nameable, Kinds, Publisher
  <2>4. ~Completed(For[c])
    BY <1>3, <2>1 DEF SignedIn, LastIsOwn, Completed
  <2> QED
    BY <1>1, <2>3, <2>4
<1>5. CASE LookUp(c)
  <2>1. ~Published(attempt[For[c]]) /\ Kind[c] = "unpublish session"
    BY <1>1, <1>5 DEF LookUp, TypeOK
  <2> QED
    BY <1>1, <1>3, <2>1 DEF OnFile
<1> QED
  BY <1>2, <1>4, <1>5
----------------------------------------------------------------------------
(* The initial state satisfies the invariant. *)
LEMMA InitInv == Init => IInv
<1> SUFFICES ASSUME Init PROVE IInv
  OBVIOUS
<1>1. TypeOK
  BY DEF Init, TypeOK, Calls, Writing, Outcome
<1>2. CallsByKind /\ OwnAttempt
  BY DEF Init, CallsByKind, OwnAttempt, Owns, Holding, BeforeResolve, Withdrawing, Publisher
<1>3. OwnArtifact /\ SavedAttempts /\ LinkOpens
  BY DEF Init, OwnArtifact, SavedAttempts, LinkOpens
<1>4. Parses(None) /\ ~Published(None)
  BY DEF Parses, Published
<1>5. AttemptIsTrue /\ UnreadableWhileWritten
  BY <1>4, NoneAssumption DEF Init, AttemptIsTrue, UnreadableWhileWritten, Readable
<1>6. OneAtATime /\ SignedIn /\ LastIsOwn /\ OnFile
  BY DEF Init, OneAtATime, UnderWay, SignedIn, Publisher, Holding, LastIsOwn, OnFile, Completed
<1> QED
  BY <1>1, <1>2, <1>3, <1>5, <1>6 DEF IInv

(* Every step preserves the invariant: one lemma above per conjunct.      *)
LEMMA StepInv == IInv /\ [Next]_vars => IInv'
<1> SUFFICES ASSUME IInv, [Next]_vars PROVE IInv'
  OBVIOUS
<1>1. ASSUME NEW c \in Command, Step(c) PROVE IInv'
  <2> USE <1>1 DEF IInv
  <2>1. TypeOK' /\ CallsByKind' /\ OwnAttempt' /\ OwnArtifact' /\ SavedAttempts'
    BY TypeStep, KindStep, OwnStep, ArtifactStep, SavedStep
  <2>2. LinkOpens'
    BY <2>1, LinkStep
  <2>3. AttemptIsTrue' /\ OneAtATime' /\ SignedIn' /\ LastIsOwn'
    BY TrueStep, AloneStep, SignedInStep, LastStep
  <2>4. UnreadableWhileWritten'
    BY ReadableStep, NothingThrown DEF UnreadableWhileWritten
  <2>5. OnFile'
    BY OnFileStep DEF OnFile
  <2> QED
    BY <2>1, <2>2, <2>3, <2>4, <2>5
<1>2. CASE UNCHANGED vars
  <2> USE <1>2 DEF IInv
  <2>1. TypeOK'
    BY DEF TypeOK
  <2>2. CallsByKind' /\ OwnAttempt' /\ OwnArtifact' /\ SavedAttempts'
    BY DEF CallsByKind, OwnAttempt, Owns, OwnArtifact, SavedAttempts
  <2>3. LinkOpens' /\ AttemptIsTrue' /\ SignedIn' /\ LastIsOwn' /\ OnFile'
    BY DEF LinkOpens, AttemptIsTrue, SignedIn, LastIsOwn, OnFile, Completed, Undisturbed
  <2>4. OneAtATime' /\ UnreadableWhileWritten'
    BY DEF OneAtATime, UnderWay, UnreadableWhileWritten, Readable, Undisturbed
  <2> QED
    BY <2>1, <2>2, <2>3, <2>4
<1> QED
  BY <1>1, <1>2 DEF Next

(***************************************************************************)
(* The inductive invariant holds in every reachable state.                 *)
(***************************************************************************)
THEOREM Invariance == Spec => []IInv
  BY InitInv, StepInv, PTL DEF Spec

(***************************************************************************)
(* publish, finalizePublishArtifact and resolvePublishAttempt: a link that *)
(* is shown opens its publication until that is deleted, for any number of *)
(* commands that overlap, die and lose answers.                            *)
(***************************************************************************)
THEOREM LinksOpen == Spec => []LinkOpens
<1>1. IInv => LinkOpens
  BY DEF IInv
<1> QED
  BY <1>1, Invariance, PTL

(***************************************************************************)
(* savePublishAttempt and unpublish --session: an attempt file names only  *)
(* a publication of its session that the service confirmed.                *)
(***************************************************************************)
THEOREM AttemptsAreTrue == Spec => []AttemptIsTrue
<1>1. IInv => AttemptIsTrue
  BY DEF IInv
<1> QED
  BY <1>1, Invariance, PTL

(***************************************************************************)
(* Commands one after the other never fail on what an earlier one left,    *)
(* unless that one died while it was writing a file; and unpublish refuses *)
(* (cli.ts:449, 454-456) only a session whose latest publish has not shown *)
(* its link, or that has nothing on file.                                  *)
(***************************************************************************)
THEOREM TroubleDoesNotLast == Spec => NoLastingTrouble
<1>1. IInv /\ [Next]_vars =>
        [Undisturbed' =>
           \A c \in Command :
             /\ pc'[c] # "threw"
             /\ pc'[c] = "refused" /\ pc[c] # "refused" =>
                  Kind[c] = "unpublish session" /\ ~Completed(For[c])]_vars
  <2> SUFFICES ASSUME IInv, Next, Undisturbed', NEW d \in Command
               PROVE  /\ pc'[d] # "threw"
                      /\ pc'[d] = "refused" /\ pc[d] # "refused" =>
                           Kind[d] = "unpublish session" /\ ~Completed(For[d])
    OBVIOUS
  <2>1. PICK c \in Command : Step(c)
    BY DEF Next
  <2> QED
    BY <2>1, NothingThrown, RefusedStep DEF IInv
<1> QED
  BY <1>1, Invariance, PTL DEF Spec, NoLastingTrouble
=============================================================================
