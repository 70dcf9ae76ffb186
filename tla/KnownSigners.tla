---------------------------- MODULE KnownSigners ----------------------------
(***************************************************************************)
(* The receipts of others: verifying them, and the list of the keys that   *)
(* signed them (packages/local/src/knownSigners.ts), which the desktop     *)
(* (the handlers of apps/desktop/src/main/main.ts, verifyBundleAt and      *)
(* updateSigner of the renderer's main.tsx) and the command                *)
(* "local verify-bundle" (packages/cli/src/cli.ts) write.                  *)
(*                                                                         *)
(* The list is written to a file named for the process, which is renamed   *)
(* over the list.  The desktop's handlers are one process: they share that *)
(* file.  A file that is open stays open when it is renamed.               *)
(***************************************************************************)
EXTENDS Naturals, Sequences, FiniteSets

CONSTANTS
  Signer,      \* the keys that sign receipts
  Name,        \* the names a user gives a key
  MaxRequests, \* bounds the verifications and updates
  MaxKills,    \* bounds how often a process is killed
  NoFile       \* no such file, no receipt, no name

ASSUME KnownSignersAssumption ==
  /\ MaxRequests \in Nat /\ MaxKills \in Nat
  /\ NoFile \notin [by : {"desktop", "command"}, kind : {"verify", "label", "forget"},
                    signer : Signer, valid : BOOLEAN, name : Name \cup {NoFile}]

Request == 1..MaxRequests

VARIABLES
  list,     \* the entries on disk: none if the file is not there or does not parse
  temp,     \* temp[p]: the entries in the file process p writes, or NoFile
  request,  \* request[i]: what was asked, [by, kind, signer, valid, name], or NoFile
  doing,    \* doing[i]: the update of the list that i is at
  stage,    \* stage[i]: its next step, or how it ended
  entries,  \* entries[i]: the list i has read, then the one it writes
  handle,   \* handle[i]: where the file went that i has open
  shown,    \* the receipt the desktop shows, [signer, valid, known], or NoFile
  kills,    \* how often a process was killed
  meant,    \* the list, had each update been made at once where it was put in place
  verified, \* verified[s]: how many verifications of receipts of s passed
  mixed     \* two updates overlapped from reading to renaming

svars == <<list, temp, request, doing, stage, entries, handle, shown, kills, meant, verified, mixed>>
ghosts == <<meant, verified>>
----------------------------------------------------------------------------
Entry(s, count, name) == [address |-> s, receipts_verified |-> count, label |-> name]

(* Mutant: the entry that is there is not taken out. *)
recordBeside(signers, s) ==
  LET existing == {e \in signers : e.address = s} IN
  signers \cup IF existing = {} THEN {Entry(s, 1, NoFile)}
               ELSE {[e EXCEPT !.receipts_verified = @ + 1] : e \in existing}

record(signers, s) ==
  LET existing == {e \in signers : e.address = s} IN
  (signers \ existing) \cup IF existing = {} THEN {Entry(s, 1, NoFile)}
                            ELSE {[e EXCEPT !.receipts_verified = @ + 1] : e \in existing}

label(signers, s, name) ==
  {IF e.address = s THEN [e EXCEPT !.label = name] ELSE e : e \in signers}

forget(signers, s) == {e \in signers : e.address # s}

Known(signers, s) == \E e \in signers : e.address = s

Updated(signers, i) ==
  LET r == request[i] IN
  CASE doing[i] = "record" -> record(signers, r.signer)
    [] doing[i] = "label" -> label(signers, r.signer, r.name)
    [] doing[i] = "forget" -> forget(signers, r.signer)
----------------------------------------------------------------------------
(* Each command is a process of its own, named by its request. *)
Desktop == 0
Process == {Desktop} \cup Request

SInit ==
  /\ list = {}
  /\ temp = [p \in Process |-> NoFile]
  /\ request = [i \in Request |-> NoFile]
  /\ doing = [i \in Request |-> "record"]
  /\ stage = [i \in Request |-> "new"]
  /\ entries = [i \in Request |-> {}]
  /\ handle = [i \in Request |-> "closed"]
  /\ shown = NoFile /\ kills = 0
  /\ meant = {} /\ verified = [s \in Signer |-> 0]
  /\ mixed = FALSE

ProcessOf(i) == IF request[i].by = "desktop" THEN Desktop ELSE i

Over == {"done", "threw", "killed"}
Runs(i) == stage[i] \notin {"new"} \cup Over
Updating(i) == stage[i] \in {"truncate", "write", "rename"}

To(i, next) == stage' = [stage EXCEPT ![i] = next]

Ask(i, asked, update, first) ==
  /\ stage[i] = "new"
  /\ \A j \in 1..(i - 1) : stage[j] # "new"
  /\ request' = [request EXCEPT ![i] = asked]
  /\ doing' = [doing EXCEPT ![i] = update]
  /\ To(i, first)
  /\ UNCHANGED <<list, temp, entries, handle, shown, kills, ghosts, mixed>>

Asked(by, kind, s, valid, name) ==
  [by |-> by, kind |-> kind, signer |-> s, valid |-> valid, name |-> name]

(* A file is dropped on the window that shows none, or verified by the command. *)
VerifyBundle(i, s, valid) ==
  \/ /\ shown = NoFile
     /\ Ask(i, Asked("desktop", "verify", s, valid, NoFile), "record", "verify")
  \/ Ask(i, Asked("command", "verify", s, valid, NoFile), "record", "verify")

SignerBusy == \E i \in Request : Runs(i) /\ request[i].kind # "verify"

(* updateSigner, for the signer that is shown. *)
NameSigner(i, name) ==
  /\ shown # NoFile /\ ~SignerBusy
  /\ Ask(i, Asked("desktop", "label", shown.signer, shown.valid, name), "label", "read")

ForgetSigner(i) ==
  /\ shown # NoFile /\ ~SignerBusy
  /\ shown.known
  /\ Ask(i, Asked("desktop", "forget", shown.signer, shown.valid, NoFile), "forget", "read")

(* "Verify another". *)
Clear ==
  /\ shown # NoFile
  /\ shown' = NoFile
  /\ UNCHANGED <<list, temp, request, doing, stage, entries, handle, kills, ghosts, mixed>>
----------------------------------------------------------------------------
(* The signer of a bundle that verified is recorded.  A file that cannot   *)
(* be read is no receipt; the desktop shows none any more.                 *)
Verify(i) ==
  /\ stage[i] = "verify"
  /\ doing' = [doing EXCEPT ![i] = "record"]
  /\ IF request[i].valid
     THEN verified' = [verified EXCEPT ![request[i].signer] = @ + 1] /\ To(i, "read")
     ELSE UNCHANGED verified /\ To(i, "reply")
  /\ UNCHANGED <<list, temp, request, entries, handle, shown, kills, meant, mixed>>

BundleUnreadable(i) ==
  /\ stage[i] = "verify"
  /\ To(i, "threw")
  /\ shown' = IF request[i].by = "desktop" THEN NoFile ELSE shown
  /\ UNCHANGED <<list, temp, request, doing, entries, handle, kills, ghosts, mixed>>

(* What follows an update: the renderer verifies the file again. *)
After(i) == IF doing[i] = "record" THEN "reply" ELSE "verify"

(* A key that is not on the list is not labelled. *)
Read(i) ==
  /\ stage[i] = "read"
  /\ IF doing[i] = "label" /\ ~Known(list, request[i].signer)
     THEN To(i, After(i)) /\ UNCHANGED <<entries, mixed>>
     ELSE /\ To(i, "truncate")
          /\ entries' = [entries EXCEPT ![i] = Updated(list, i)]
          /\ mixed' = (mixed \/ \E j \in Request \ {i} : Updating(j))
  /\ UNCHANGED <<list, temp, request, doing, handle, shown, kills, ghosts>>

OpenTemp(i) ==
  /\ stage[i] = "truncate"
  /\ temp' = [temp EXCEPT ![ProcessOf(i)] = {}]
  /\ handle' = [handle EXCEPT ![i] = "temp"]
  /\ To(i, "write")
  /\ UNCHANGED <<list, request, doing, entries, shown, kills, ghosts, mixed>>

(* What is written over another's entries may not parse. *)
Written(i, there) == {entries[i]} \cup {e \in {{}} : there # {}}

WriteTemp(i) ==
  /\ stage[i] = "write"
  /\ \/ /\ handle[i] = "temp"
        /\ \E e \in Written(i, temp[ProcessOf(i)]) : temp' = [temp EXCEPT ![ProcessOf(i)] = e]
        /\ UNCHANGED list
     \/ /\ handle[i] = "list"
        /\ list' \in Written(i, list)
        /\ UNCHANGED temp
     \/ /\ handle[i] = "replaced"
        /\ UNCHANGED <<list, temp>>
  /\ handle' = [handle EXCEPT ![i] = "closed"]
  /\ To(i, "rename")
  /\ UNCHANGED <<request, doing, entries, shown, kills, ghosts, mixed>>

Rename(i) ==
  LET p == ProcessOf(i) IN
  /\ stage[i] = "rename"
  /\ temp[p] # NoFile
  /\ list' = temp[p]
  /\ temp' = [temp EXCEPT ![p] = NoFile]
  /\ handle' = [j \in Request |->
       IF handle[j] = "list" THEN "replaced"
       ELSE IF handle[j] = "temp" /\ ProcessOf(j) = p THEN "list" ELSE handle[j]]
  /\ meant' = Updated(meant, i)
  /\ entries' = [entries EXCEPT ![i] = {}]
  /\ To(i, After(i))
  /\ UNCHANGED <<request, doing, shown, kills, verified, mixed>>

(* Another handler has renamed the file. *)
RenameFails(i) ==
  /\ stage[i] = "rename"
  /\ temp[ProcessOf(i)] = NoFile
  /\ entries' = [entries EXCEPT ![i] = {}]
  /\ To(i, "threw")
  /\ shown' = IF doing[i] = "record" /\ request[i].by = "desktop" THEN NoFile ELSE shown
  /\ UNCHANGED <<list, temp, request, doing, handle, kills, ghosts, mixed>>

(* describeSigner reads the list again. *)
Reply(i) ==
  /\ stage[i] = "reply"
  /\ To(i, "done")
  /\ shown' = IF request[i].by = "desktop"
              THEN [signer |-> request[i].signer, valid |-> request[i].valid,
                    known |-> Known(list, request[i].signer)]
              ELSE shown
  /\ UNCHANGED <<list, temp, request, doing, entries, handle, kills, ghosts, mixed>>

(* A process that is started again has another id, so another file. *)
KillProcess(p) ==
  LET stopped == {i \in Request : Runs(i) /\ ProcessOf(i) = p} IN
  /\ kills < MaxKills /\ stopped # {}
  /\ kills' = kills + 1
  /\ stage' = [i \in Request |-> IF i \in stopped THEN "killed" ELSE stage[i]]
  /\ entries' = [i \in Request |-> IF i \in stopped THEN {} ELSE entries[i]]
  /\ handle' = [i \in Request |-> IF i \in stopped THEN "closed" ELSE handle[i]]
  /\ temp' = [temp EXCEPT ![p] = NoFile]
  /\ shown' = IF p = Desktop THEN NoFile ELSE shown
  /\ UNCHANGED <<list, request, doing, ghosts, mixed>>

SNext ==
  \/ \E i \in Request :
       \/ \E s \in Signer, valid \in BOOLEAN : VerifyBundle(i, s, valid)
       \/ \E name \in Name \cup {NoFile} : NameSigner(i, name)
       \/ ForgetSigner(i)
       \/ Verify(i) \/ BundleUnreadable(i) \/ Read(i) \/ OpenTemp(i) \/ WriteTemp(i)
       \/ Rename(i) \/ RenameFails(i) \/ Reply(i)
  \/ Clear
  \/ \E p \in Process : KillProcess(p)

SSpec == SInit /\ [][SNext]_svars
----------------------------------------------------------------------------
Entries == [address : Signer, receipts_verified : Nat \ {0}, label : Name \cup {NoFile}]

STypeOK ==
  /\ list \subseteq Entries /\ meant \subseteq Entries
  /\ \A p \in Process : temp[p] = NoFile \/ temp[p] \subseteq Entries
  /\ \A i \in Request : entries[i] \subseteq Entries /\ (handle[i] # "closed" => stage[i] = "write")
  /\ stage \in [Request -> Over \cup {"new", "verify", "read", "truncate", "write", "rename", "reply"}]
  /\ doing \in [Request -> {"record", "label", "forget"}]
  /\ handle \in [Request -> {"closed", "temp", "list", "replaced"}]

(***************************************************************************)
(* Trust is earned: however updates overlap or are cut off, a key is       *)
(* listed once, with no more receipts than of its were verified, and with  *)
(* a name the user gave it.  And nothing is lost: the list is what the     *)
(* updates make of it one after the other, also if a process was killed    *)
(* in the middle of one, unless two of them overlapped.                    *)
(***************************************************************************)
SignersKept ==
  /\ \A e \in list :
       /\ e.receipts_verified <= verified[e.address]
       /\ e.label # NoFile =>
            \E i \in Request : request[i] # NoFile /\ request[i].signer = e.address
                                 /\ request[i].name = e.label
       /\ \A d \in list : d.address = e.address => d = e
  /\ ~mixed => list = meant

(***************************************************************************)
(* "Forget it" (components.tsx:452) of the one device's receipt that is    *)
(* shown "forgets a device completely" (knownSigners.test.ts:57).  It does *)
(* not: the file is verified again at once, which records its signer       *)
(* (main.tsx:237, main.ts:394).                                            *)
(***************************************************************************)
ForgottenStaysForgotten ==
  \A i \in Request :
    stage[i] = "done" /\ request[i].kind = "forget" /\ ~mixed
      /\ (\A j \in Request : j > i => stage[j] = "new") =>
      ~Known(list, request[i].signer)
=============================================================================
