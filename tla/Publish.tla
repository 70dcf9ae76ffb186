------------------------------- MODULE Publish -------------------------------
(***************************************************************************)
(* "memora local publish" and "memora local unpublish": cmdLocalPublish    *)
(* and cmdLocalUnpublish (packages/cli/src/cli.ts) with the upload attempt *)
(* they keep per session (packages/local/src/publishClient.ts), the stored *)
(* sign-in (packages/local/src/publishAuth.ts) and the key each publish    *)
(* encrypts its artifact under (packages/local/src/publish.ts).            *)
(*                                                                         *)
(* The publication service is external.  It stores an artifact under the   *)
(* idempotency key of the request, once, and answers with an id; any       *)
(* request may fail before it gets there, any answer may be lost.          *)
(***************************************************************************)
EXTENDS Naturals, FiniteSets

CONSTANTS
  Command,  \* the runs of a command
  Kind,     \* Kind[c]: what command c is
  Session,  \* the local sessions
  For,      \* For[c]: the session that command c is about
  None      \* no file, no id, nothing stored

Kinds == {"publish", "unpublish session", "unpublish id"}

ASSUME KindAssumption == Kind \in [Command -> Kinds] /\ For \in [Command -> Session]

Publisher == {c \in Command : Kind[c] = "publish"}

AttemptFile ==
  [id : Command \cup {None}, digest : Command \cup {None},
   state : {"PREPARED", "UPLOADING", "PUBLISHED"}, length : 0..3]

ASSUME NoneAssumption == None \notin Command \cup AttemptFile \cup {"token", "torn", "deleted"}

VARIABLES
  pc,         \* pc[c]: the call command c makes next, or how it ended
  saving,     \* saving[c]: the state of the attempt that c saves next
  id,         \* id[c]: the attempt or publication c has in hand
  signIn,     \* the sign-in file: None, "token", or "torn", which does not parse
  attempt,    \* attempt[s]: the attempt file of session s
  writers,    \* writers[s]: the commands with the file open that is attempt[s]
  stored,     \* stored[a]: what the service holds under idempotency key a
  shown,      \* the links shown to the user
  overlapped, \* two commands were under way at once
  last        \* last[s]: the publish that last wrote attempt[s], None once that is removed

local == <<pc, saving, id>>
attempts == <<attempt, writers>>
cloud == <<stored, shown>>
history == <<overlapped, last>>
vars == <<local, signIn, attempts, cloud, history>>

(***************************************************************************)
(* An attempt id is named for the command that drew it.  The artifact of a *)
(* command is named for the command too: its key is drawn afresh, so no    *)
(* two runs produce the same ciphertext.                                   *)
(***************************************************************************)
Artifact(c) == c

(* Mutant: the digest is that of the session's content, which all runs     *)
(* that publish the session share, and not of what the fresh key makes.    *)
ContentDigest(c) == CHOOSE d \in Publisher : For[d] = For[c]

(* The digest is taken over the artifact as it is uploaded. *)
Digest(c) == Artifact(c)

(***************************************************************************)
(* An attempt file is its text's record and its length, which differ when  *)
(* one write left the tail of a longer one behind.  A file that was just   *)
(* truncated holds no record.                                              *)
(***************************************************************************)
Size(state) == IF state = "PREPARED" THEN 1 ELSE IF state = "UPLOADING" THEN 2 ELSE 3

Truncated == [id |-> None, digest |-> None, state |-> "PREPARED", length |-> 0]

Parses(file) == file # None => file.length = Size(file.state)

Published(file) == file # None /\ Parses(file) /\ file.state = "PUBLISHED"

(***************************************************************************)
(* How a command ends: "ok"; "nothing" was published, as the scan or the   *)
(* user would have it; a request or the sign-in "failed"; an unpublish is  *)
(* "refused", as nobody is signed in or the session has no publication; it *)
(* "threw" on what it found; it was killed or a write failed, "torn" when  *)
(* a file was open, "dead" otherwise.                                      *)
(***************************************************************************)
Outcome == {"ok", "nothing", "failed", "refused", "threw", "torn", "dead"}
Writing == {"write token", "write"}
Calls ==
  Writing \cup {"begin", "sign in", "poll", "open token", "resolve", "open", "post", "link",
                "look up", "delete", "clear"}

UnderWay == {c \in Command : pc[c] \notin Outcome \cup {"begin"}}

Goto(c, call) == pc' = [pc EXCEPT ![c] = call]

Init ==
  /\ pc = [c \in Command |-> "begin"]
  /\ saving = [c \in Command |-> "PREPARED"]
  /\ id = [c \in Command |-> None]
  /\ signIn = None
  /\ attempt = [s \in Session |-> None]
  /\ writers = [s \in Session |-> {}]
  /\ stored = [a \in Command |-> None]
  /\ shown = {}
  /\ overlapped = FALSE
  /\ last = [s \in Session |-> None]
----------------------------------------------------------------------------
(***************************************************************************)
(* publish up to the confirmation: the scan refuses, the artifact is too   *)
(* large or the user declines, and nothing has happened; or it goes on.    *)
(***************************************************************************)
BeginPublish(c) ==
  /\ c \in Publisher
  /\ pc[c] = "begin"
  /\ \/ Goto(c, "sign in")
     \/ Goto(c, "nothing")
  /\ overlapped' = (overlapped \/ UnderWay # {})
  /\ UNCHANGED <<saving, id, signIn, attempts, cloud, last>>

(***************************************************************************)
(* ensurePublishLogin.  A stored session is used as it is; a file that     *)
(* does not parse ends the command; without one the device flow starts.    *)
(***************************************************************************)
LoadSignIn(c) ==
  /\ pc[c] = "sign in"
  /\ \/ signIn = "torn" /\ Goto(c, "threw")
     \/ signIn = "token" /\ Goto(c, "resolve")
     \/ signIn = None /\ Goto(c, "poll")
  /\ UNCHANGED <<saving, id, signIn, attempts, cloud, history>>

(* The user signs in, or the code expires, is denied, or a request fails. *)
Poll(c) ==
  /\ pc[c] = "poll"
  /\ \/ Goto(c, "open token")
     \/ Goto(c, "failed")
  /\ UNCHANGED <<saving, id, signIn, attempts, cloud, history>>

(* writeFile truncates the file when it opens it, and then fills it. *)
OpenSignIn(c) ==
  /\ pc[c] = "open token"
  /\ signIn' = "torn"
  /\ Goto(c, "write token")
  /\ UNCHANGED <<saving, id, attempts, cloud, history>>

WriteSignIn(c) ==
  /\ pc[c] = "write token"
  /\ signIn' = "token"
  /\ Goto(c, "resolve")
  /\ UNCHANGED <<saving, id, attempts, cloud, history>>
----------------------------------------------------------------------------
(***************************************************************************)
(* resolvePublishAttempt: an attempt for the same artifact that has not    *)
(* ended is taken up again, and any other is replaced by a fresh one,      *)
(* saved as PREPARED.  The caller then saves it as UPLOADING.              *)
(***************************************************************************)
Resolve(c) ==
  LET old == attempt[For[c]]
      reusable == old # None /\ old.state # "PUBLISHED" /\ old.digest = Digest(c)
  IN  /\ pc[c] = "resolve"
      /\ IF Parses(old)
           THEN /\ Goto(c, "open")
                /\ id' = [id EXCEPT ![c] = IF reusable THEN old.id ELSE c]
                /\ saving' = [saving EXCEPT ![c] = IF reusable THEN "UPLOADING" ELSE @]
           ELSE Goto(c, "threw") /\ UNCHANGED <<saving, id>>
      /\ UNCHANGED <<signIn, attempts, cloud, history>>

(* savePublishAttempt opens the file, and then fills it. *)
OpenAttempt(c) ==
  /\ pc[c] = "open"
  /\ attempt' = [attempt EXCEPT ![For[c]] = Truncated]
  /\ writers' = [writers EXCEPT ![For[c]] = @ \cup {c}]
  /\ last' = [last EXCEPT ![For[c]] = c]
  /\ Goto(c, "write")
  /\ UNCHANGED <<saving, id, signIn, cloud, overlapped>>

(* The file as c's write leaves it: a longer text keeps its tail. *)
Filled(c, file) ==
  [id |-> id[c], digest |-> Digest(c), state |-> saving[c],
   length |-> IF file.length > Size(saving[c]) THEN file.length ELSE Size(saving[c])]

(* Mutant: the attempt is saved as published before the upload. *)
AfterSaveEarly == [PREPARED |-> "open", UPLOADING |-> "open", PUBLISHED |-> "post"]

(* The calls around the three saves of an attempt. *)
AfterSave == [PREPARED |-> "open", UPLOADING |-> "post", PUBLISHED |-> "link"]
NextState == [PREPARED |-> "UPLOADING", UPLOADING |-> "PUBLISHED", PUBLISHED |-> "PUBLISHED"]

(* A write to a file that was unlinked meanwhile is not seen by anyone. *)
WriteAttempt(c) ==
  LET s == For[c]
  IN  /\ pc[c] = "write"
      /\ attempt' = IF c \in writers[s]
                      THEN [attempt EXCEPT ![s] = Filled(c, @)] ELSE attempt
      /\ writers' = [writers EXCEPT ![s] = @ \ {c}]
      /\ saving' = [saving EXCEPT ![c] = NextState[@]]
      /\ Goto(c, AfterSave[saving[c]])
      /\ UNCHANGED <<id, signIn, cloud, history>>

(***************************************************************************)
(* createPublication.  The service stores the artifact unless it holds one *)
(* under that key already; without its answer the command gives up.        *)
(***************************************************************************)
Post(c) ==
  /\ pc[c] = "post"
  /\ stored' = [stored EXCEPT ![id[c]] = IF @ = None THEN Artifact(c) ELSE @]
  /\ \/ Goto(c, "open")
     \/ Goto(c, "failed")
  /\ UNCHANGED <<saving, id, signIn, attempts, shown, history>>

(* A request, to store or to delete, that does not get through. *)
RequestFails(c) ==
  /\ pc[c] \in {"post", "delete"}
  /\ Goto(c, "failed")
  /\ UNCHANGED <<saving, id, signIn, attempts, cloud, history>>

(* The link: the id the service answered with, and the key of the artifact. *)
ShowLink(c) ==
  /\ pc[c] = "link"
  /\ shown' = shown \cup {[session |-> For[c], id |-> id[c], key |-> Artifact(c)]}
  /\ Goto(c, "ok")
  /\ UNCHANGED <<saving, id, signIn, attempts, stored, history>>
----------------------------------------------------------------------------
(* The user names the publication, from a link seen before, or the session. *)
Nameable(c) == {link.id : link \in {l \in shown : l.session = For[c]}}

(* unpublish needs a stored session; it does not sign anybody in. *)
BeginUnpublish(c) ==
  /\ c \notin Publisher
  /\ pc[c] = "begin"
  /\ Kind[c] = "unpublish id" => Nameable(c) # {}
  /\ \/ signIn = "torn" /\ Goto(c, "threw")
     \/ signIn = None /\ Goto(c, "refused")
     \/ signIn = "token" /\ Goto(c, "look up")
  /\ overlapped' = (overlapped \/ UnderWay # {})
  /\ UNCHANGED <<saving, id, signIn, attempts, cloud, last>>

(* With --session the attempt file names the publication, if it says so. *)
LookUp(c) ==
  LET file == attempt[For[c]]
  IN  /\ pc[c] = "look up"
      /\ Kind[c] = "unpublish session"
      /\ \/ ~Parses(file) /\ Goto(c, "threw") /\ UNCHANGED id
         \/ Parses(file) /\ ~Published(file) /\ Goto(c, "refused") /\ UNCHANGED id
         \/ Published(file) /\ Goto(c, "delete") /\ id' = [id EXCEPT ![c] = file.id]
      /\ UNCHANGED <<saving, signIn, attempts, cloud, history>>

NamePublication(c) ==
  /\ pc[c] = "look up"
  /\ Kind[c] = "unpublish id"
  /\ \E named \in Nameable(c) : id' = [id EXCEPT ![c] = named]
  /\ Goto(c, "delete")
  /\ UNCHANGED <<saving, signIn, attempts, cloud, history>>

(* Mutant: a publication that is not there is an error. *)
DeleteOnce(c) ==
  /\ pc[c] = "delete"
  /\ stored' = [stored EXCEPT ![id[c]] = "deleted"]
  /\ \/ Goto(c, IF stored[id[c]] = "deleted" THEN "threw" ELSE "clear")
     \/ Goto(c, "failed")
  /\ UNCHANGED <<saving, id, signIn, attempts, shown, history>>

(***************************************************************************)
(* deletePublication.  A publication that is not there counts as deleted.  *)
(***************************************************************************)
Delete(c) ==
  /\ pc[c] = "delete"
  /\ stored' = [stored EXCEPT ![id[c]] = "deleted"]
  /\ \/ Goto(c, "clear")
     \/ Goto(c, "failed")
  /\ UNCHANGED <<saving, id, signIn, attempts, shown, history>>

(***************************************************************************)
(* With --session the attempt file goes.  "Existing links will no longer   *)
(* load this session", says the command.                                   *)
(***************************************************************************)
Clear(c) ==
  LET s == For[c]
  IN  /\ pc[c] = "clear"
      /\ IF Kind[c] = "unpublish session"
           THEN /\ attempt' = [attempt EXCEPT ![s] = None]
                /\ writers' = [writers EXCEPT ![s] = {}]
                /\ last' = [last EXCEPT ![s] = None]
           ELSE UNCHANGED <<attempts, last>>
      /\ Goto(c, "ok")
      /\ UNCHANGED <<saving, id, signIn, stored, shown, overlapped>>
----------------------------------------------------------------------------
(* A command is killed, or a write of its own fails. *)
Die(c) ==
  /\ c \in UnderWay
  /\ Goto(c, IF pc[c] \in Writing THEN "torn" ELSE "dead")
  /\ writers' = [s \in Session |-> writers[s] \ {c}]
  /\ UNCHANGED <<saving, id, signIn, attempt, cloud, history>>

Step(c) ==
  \/ BeginPublish(c) \/ LoadSignIn(c) \/ Poll(c) \/ OpenSignIn(c) \/ WriteSignIn(c)
  \/ Resolve(c) \/ OpenAttempt(c) \/ WriteAttempt(c)
  \/ Post(c) \/ RequestFails(c) \/ ShowLink(c)
  \/ BeginUnpublish(c) \/ LookUp(c) \/ NamePublication(c) \/ Delete(c) \/ Clear(c)
  \/ Die(c)

Next == \E c \in Command : Step(c)

Spec == Init /\ [][Next]_vars
----------------------------------------------------------------------------
TypeOK ==
  /\ pc \in [Command -> Calls \cup Outcome]
  /\ saving \in [Command -> {"PREPARED", "UPLOADING", "PUBLISHED"}]
  /\ id \in [Command -> Command \cup {None}]
  /\ signIn \in {None, "token", "torn"}
  /\ attempt \in [Session -> AttemptFile \cup {None}]
  /\ writers \in [Session -> SUBSET Command]
  /\ stored \in [Command -> Command \cup {None, "deleted"}]
  /\ shown \subseteq [session : Session, id : Command, key : Command]
  /\ overlapped \in BOOLEAN
  /\ last \in [Session -> Command \cup {None}]

(***************************************************************************)
(* A link opens: the publication it names is encrypted under the very key  *)
(* it carries, and holds the session it was shown for, whatever attempts   *)
(* were taken up again and whichever commands ran beside, until it is      *)
(* deleted.                                                                *)
(***************************************************************************)
LinkOpens ==
  \A link \in shown :
    stored[link.id] \in {link.key, "deleted"} /\ For[link.key] = link.session

(***************************************************************************)
(* What an attempt file says was published was: "unpublish --session"      *)
(* never takes an id the service does not know, nor one of another session *)
(* or of an upload that nobody was told of.                                *)
(***************************************************************************)
AttemptIsTrue ==
  \A s \in Session :
    Published(attempt[s]) =>
      stored[attempt[s].id] # None /\ For[attempt[s].id] = s

(***************************************************************************)
(* Commands that run one after the other recover from each other's lost    *)
(* answers, failed requests and deaths, unless one died in the middle of a *)
(* write.  No publish fails on what an earlier command left behind, nor    *)
(* does an unpublish that names a publication.  One that names a session   *)
(* is refused only if nothing of the session is on file or its latest      *)
(* publish did not come to its link: even with an earlier link that still  *)
(* opens, for the latest attempt takes the place of its record.            *)
(***************************************************************************)
Undisturbed == ~overlapped /\ \A c \in Command : pc[c] # "torn"

Completed(s) == last[s] # None /\ pc[last[s]] = "ok"

NoLastingTrouble ==
  [][Undisturbed' =>
       \A c \in Command :
         /\ pc'[c] # "threw"
         /\ pc'[c] = "refused" /\ pc[c] # "refused" =>
              Kind[c] = "unpublish session" /\ ~Completed(For[c])]_vars

(***************************************************************************)
(* Why these hold.  A publish has its own attempt in hand, even one taken  *)
(* up again, and saves it as published only once it has the answer; the    *)
(* service holds artifacts under the attempt of the command that made them.*)
(***************************************************************************)
BeforeResolve == {"begin", "sign in", "poll", "open token", "write token", "resolve"}
Holding == {"open", "write", "post", "link"}
Withdrawing == {"look up", "delete", "clear"}

CallsByKind ==
  \A c \in Command :
    /\ pc[c] \in Holding \cup (BeforeResolve \ {"begin"}) => c \in Publisher
    /\ pc[c] \in Withdrawing => c \notin Publisher

Owns(c) ==
  /\ pc[c] \in Holding => id[c] = c
  /\ pc[c] \in BeforeResolve => saving[c] = "PREPARED"
  /\ pc[c] = "post" => saving[c] = "PUBLISHED"
  /\ pc[c] = "link" \/ (pc[c] \in {"open", "write"} /\ saving[c] = "PUBLISHED") =>
       stored[c] # None

OwnAttempt == \A c \in Publisher : Owns(c)

OwnArtifact ==
  /\ \A a \in Command : stored[a] \in {None, a, "deleted"}
  /\ \A link \in shown : link.id = link.key /\ stored[link.id] # None

SavedAttempts ==
  \A s \in Session :
    /\ attempt[s] = None => writers[s] = {}
    /\ attempt[s] # None =>
         /\ attempt[s].id = attempt[s].digest
         /\ attempt[s].state = "PUBLISHED" => attempt[s].id # None

(* Why nothing lasts: a file that does not parse is being written, by the  *)
(* one command that is under way.                                          *)
OneAtATime ==
  ~overlapped =>
    /\ \A c, d \in UnderWay : c = d
    /\ \A c \in Command : pc[c] = "write" =>
         c \in writers[For[c]] /\ attempt[For[c]] = Truncated

Readable ==
  /\ signIn = "torn" => \E c \in Command : pc[c] = "write token"
  /\ \A s \in Session :
       ~Parses(attempt[s]) => \E c \in Command : pc[c] = "write" /\ For[c] = s

UnreadableWhileWritten == Undisturbed => Readable /\ \A c \in Command : pc[c] # "threw"

(* Why a session whose latest publish showed its link is not refused: the  *)
(* sign-in stays, and so does what that publish wrote.                     *)
SignedIn ==
  (\/ shown # {}
   \/ \E c \in Command : pc[c] \in Holding \cup {"resolve", "write token"}
   \/ \E c \in Publisher : pc[c] = "ok") => signIn # None

LastIsOwn == \A s \in Session : last[s] # None => last[s] \in Publisher /\ For[last[s]] = s

OnFile ==
  Undisturbed =>
    /\ \A s \in Session : Completed(s) => Published(attempt[s])
    /\ \A c \in Command :
         /\ pc[c] = "write" => last[For[c]] = c
         /\ pc[c] = "link" => Published(attempt[For[c]])

IInv ==
  /\ TypeOK
  /\ CallsByKind /\ OwnAttempt /\ OwnArtifact /\ SavedAttempts /\ LinkOpens /\ AttemptIsTrue
  /\ OneAtATime /\ UnreadableWhileWritten /\ SignedIn /\ LastIsOwn /\ OnFile
=============================================================================
