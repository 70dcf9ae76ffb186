----------------------------- MODULE RunCapture -----------------------------
(***************************************************************************)
(* "memora local run": cmdLocalRun (packages/cli/src/cli.ts) records what  *)
(* a command prints and which files it changes: runLocalCommand with its   *)
(* buffer and its chain of flushes (packages/local/src/run.ts), and the    *)
(* project snapshots before and after (packages/local/src/capture.ts).     *)
(*                                                                         *)
(* The process is one event loop: a callback runs to its end.  The child   *)
(* and its pipe are outside: its exit may be told before its last output.  *)
(***************************************************************************)
EXTENDS Naturals, Sequences, SequencesExt, FiniteSets

CONSTANTS
  Chunk,       \* the pieces of output, numbered as the child prints them
  Large,       \* the pieces that fill the buffer at once
  File,        \* the project's files
  Secret,      \* those whose name the capture refuses to read
  Content,     \* what a file may hold
  Excluded,    \* Excluded[x]: why content x is left out, or "no"
  Undisturbed, \* the record calls that never fail, of "start", "output", "rest"
  NoFile         \* no file there

(* A file whose content is not read has no hash; its hash is none of a content's. *)
NoHash == "no hash"

ASSUME CaptureAssumption ==
  /\ IsFiniteSet(Chunk) /\ Chunk = 1..Cardinality(Chunk)
  /\ Large \subseteq Chunk /\ Secret \subseteq File
  /\ NoFile \notin Content \cup {NoHash}

VARIABLES
  pc,        \* what runLocalCommand awaits, or how the run ended
  printed,   \* how many pieces the child has printed
  arrived,   \* how many of them have come through the pipe
  buffer,    \* outputBuffer
  chain,     \* the flushes whose records are not done yet
  awaited,   \* how many of those flushes the end of the run awaits
  ticking,   \* the interval is running
  record,    \* the events of the session, in order
  todo,      \* the file changes that are still to be recorded
  session,   \* the session: "open", "partial", "interrupted"
  children,  \* how often the command was started
  disk,      \* disk[f]: what is in file f
  seenBefore, seenAfter, \* the two snapshots
  told,      \* how many pieces had arrived when the exit was told
  terminal,  \* the command runs in a pseudo-terminal
  ended      \* how the child ended

output == <<printed, arrived, buffer, chain, awaited, ticking>>
files == <<disk, seenBefore, seenAfter, todo>>
child == <<children, terminal, ended>>
rvars == <<pc, output, record, session, child, files, told>>

(***************************************************************************)
(* snapshotProject: a file with a secret's name has no hash.  A file of    *)
(* another kind has a hash, and a reason if its content is left out.       *)
(***************************************************************************)
SnapshotOf(f, x) ==
  IF f \in Secret THEN [hash |-> NoHash, excluded |-> "secret-default"]
  ELSE [hash |-> x, excluded |-> Excluded[x]]

snapshotProject(d) ==
  [f \in {g \in File : d[g] # NoFile} |-> SnapshotOf(f, d[f])]

Changed(how, f) == [type |-> "file_changed", change |-> how, path |-> f]

(* Mutant: only what is new or gone is compared. *)
diffPresence(before, after) ==
     {Changed("created", f) : f \in DOMAIN after \ DOMAIN before}
  \cup {Changed("deleted", f) : f \in DOMAIN before \ DOMAIN after}

(* The changes are recorded in the order of their paths. *)
diffSnapshots(before, after) ==
     {Changed("created", f) : f \in DOMAIN after \ DOMAIN before}
  \cup {Changed("modified", f) :
        f \in {g \in DOMAIN after \cap DOMAIN before :
                 \/ after[g].hash # before[g].hash
                 \/ after[g].excluded # before[g].excluded}}
  \cup {Changed("deleted", f) : f \in DOMAIN before \ DOMAIN after}

RunInit ==
  /\ pc = "snapshot"
  /\ printed = 0 /\ arrived = 0
  /\ buffer = <<>> /\ chain = <<>> /\ awaited = 0
  /\ ticking = FALSE
  /\ record = <<>>
  /\ todo = {}
  /\ session = "open"
  /\ children = 0
  /\ disk \in [File -> Content \cup {NoFile}]
  /\ seenBefore = <<>> /\ seenAfter = <<>>
  /\ told = 0
  /\ terminal = FALSE
  /\ ended = "not yet"
----------------------------------------------------------------------------
(***************************************************************************)
(* A call that the run awaits throws: cmdLocalRun closes the session, if   *)
(* that does not fail too, and the command ends.                           *)
(***************************************************************************)
RunThrows ==
  /\ pc' = "failed"
  /\ session' \in {"interrupted", session}

SnapshotBefore ==
  /\ pc = "snapshot"
  /\ seenBefore' = snapshotProject(disk)
  /\ pc' = "start"
  /\ UNCHANGED <<output, record, session, child, disk, seenAfter, todo, told>>

RecordStart ==
  /\ pc = "start"
  /\ record' = Append(record, [type |-> "process_started"])
  /\ ticking' = TRUE
  /\ pc' = "spawn"
  /\ UNCHANGED <<printed, arrived, buffer, chain, awaited, session, child, files, told>>

(* A snapshot or a record of the run's own fails. *)
CallFails ==
  /\ \/ pc \in {"snapshot", "after"}
     \/ pc = "start" /\ "start" \notin Undisturbed
     \/ pc = "changes" /\ "rest" \notin Undisturbed
  /\ RunThrows
  /\ UNCHANGED <<output, record, child, files, told>>

(* The pseudo-terminal starts the command, and is connected to this one. *)
SpawnPty ==
  /\ pc = "spawn"
  /\ children' = children + 1
  /\ terminal' = TRUE
  /\ pc' = "connect"
  /\ UNCHANGED <<output, record, session, ended, files, told>>

Connect ==
  /\ pc = "connect"
  /\ pc' = "running"
  /\ UNCHANGED <<output, record, session, child, files, told>>

(***************************************************************************)
(* Whatever fails up to here, the command is started with plain pipes: a   *)
(* second time if it was the connecting that failed.                       *)
(***************************************************************************)
SpawnPipes ==
  /\ pc \in {"spawn", "connect"}
  /\ children' = children + 1
  /\ terminal' = FALSE
  /\ pc' = "running"
  /\ UNCHANGED <<output, record, session, ended, files, told>>

(* The command cannot be started with pipes either. *)
SpawnFails ==
  /\ pc \in {"spawn", "connect"}
  /\ RunThrows
  /\ UNCHANGED <<output, record, child, files, told>>
----------------------------------------------------------------------------
(* The child prints and edits files until it exits. *)
ChildPrints ==
  /\ pc = "running"
  /\ printed + 1 \in Chunk
  /\ printed' = printed + 1
  /\ UNCHANGED <<pc, arrived, buffer, chain, awaited, ticking, record, session, child, files, told>>

Edit(f, x) ==
  /\ pc = "running"
  /\ x # disk[f]
  /\ disk' = [disk EXCEPT ![f] = x]
  /\ UNCHANGED <<pc, output, record, session, child, seenBefore, seenAfter, todo, told>>

Alive == pc \notin {"partial", "failed", "died"}

(* Mutant: the buffer goes to the front of the chain. *)
FlushedFirst(buf) == IF buf = <<>> THEN chain ELSE <<buf>> \o chain

(* flush: the buffer, if there is any, joins the chain of records. *)
Flushed(buf) == IF buf = <<>> THEN chain ELSE Append(chain, buf)

(* captureOutput: a full buffer is flushed at once. *)
Arrive ==
  /\ Alive
  /\ arrived < printed
  /\ arrived' = arrived + 1
  /\ IF arrived' \in Large
     THEN buffer' = <<>> /\ chain' = Flushed(Append(buffer, arrived'))
     ELSE buffer' = Append(buffer, arrived') /\ UNCHANGED chain
  /\ UNCHANGED <<pc, printed, awaited, ticking, record, session, child, files, told>>

Tick ==
  /\ Alive /\ ticking
  /\ buffer # <<>>
  /\ chain' = Flushed(buffer) /\ buffer' = <<>>
  /\ UNCHANGED <<pc, printed, arrived, awaited, ticking, record, session, child, files, told>>

(* Mutant: the flushes that are awaited are not counted down. *)
RecordOutputUncounted ==
  /\ Alive
  /\ chain # <<>>
  /\ record' = Append(record, [type |-> "terminal_output", content |-> Head(chain)])
  /\ chain' = Tail(chain)
  /\ UNCHANGED <<pc, printed, arrived, buffer, awaited, ticking, session, child, files, told>>

(* The records of the chain are made one after the other. *)
RecordOutput ==
  /\ Alive
  /\ chain # <<>>
  /\ record' = Append(record, [type |-> "terminal_output", content |-> Head(chain)])
  /\ chain' = Tail(chain)
  /\ awaited' = IF awaited > 0 THEN awaited - 1 ELSE 0
  /\ UNCHANGED <<pc, printed, arrived, buffer, ticking, session, child, files, told>>

(***************************************************************************)
(* A failing record rejects the chain.  The end of the run may be waiting  *)
(* for it, and throws; before that nobody handles the rejection, and the   *)
(* process dies of it, with its session open.                              *)
(***************************************************************************)
OutputFails ==
  /\ Alive
  /\ chain # <<>>
  /\ "output" \notin Undisturbed
  /\ IF pc = "drain" /\ awaited > 0 THEN RunThrows ELSE pc' = "died" /\ UNCHANGED session
  /\ UNCHANGED <<output, record, child, files, told>>

(* Mutant: the last buffer is not flushed. *)
ExitUnflushed ==
  /\ pc = "running"
  /\ ticking' = FALSE
  /\ awaited' = Len(chain)
  /\ told' = arrived
  /\ pc' = "drain"
  /\ ended' \in {"success", "failure", "signal"}
  /\ UNCHANGED <<printed, arrived, buffer, chain, record, session, children, terminal, files>>

(***************************************************************************)
(* The exit is told: the interval is cleared, what is in the buffer is     *)
(* flushed, and the chain is awaited as it is now.                         *)
(***************************************************************************)
Exit ==
  /\ pc = "running"
  /\ ticking' = FALSE
  /\ chain' = Flushed(buffer) /\ buffer' = <<>>
  /\ awaited' = Len(chain')
  /\ told' = arrived
  /\ pc' = "drain"
  /\ ended' \in {"success", "failure", "signal"}
  /\ UNCHANGED <<printed, arrived, record, session, children, terminal, files>>

(***************************************************************************)
(* What runLocalCommand returns.  A pseudo-terminal gives a command that a *)
(* signal killed the exit code 0 (external: node-pty), pipes give it 1.    *)
(***************************************************************************)
exitCode ==
  IF ended = "success" \/ (ended = "signal" /\ terminal) THEN "success" ELSE "failure"

(* Mutant: the end of the output is awaited, which the child need not reach. *)
DrainedWhole ==
  /\ pc = "drain"
  /\ awaited = 0 /\ arrived = Cardinality(Chunk)
  /\ pc' = "after"
  /\ UNCHANGED <<output, record, session, child, files, told>>

Drained ==
  /\ pc = "drain"
  /\ awaited = 0
  /\ pc' = "after"
  /\ UNCHANGED <<output, record, session, child, files, told>>

SnapshotAfter ==
  /\ pc = "after"
  /\ seenAfter' = snapshotProject(disk)
  /\ todo' = diffSnapshots(seenBefore, seenAfter')
  /\ pc' = "changes"
  /\ UNCHANGED <<output, record, session, child, disk, seenBefore, told>>

RecordChange ==
  /\ pc = "changes"
  /\ \E c \in todo :
       /\ record' = Append(record, c)
       /\ todo' = todo \ {c}
  /\ UNCHANGED <<pc, output, session, child, disk, seenBefore, seenAfter, told>>

(* The last record, and the session is closed as captured in part. *)
Finish ==
  /\ pc = "changes" /\ todo = {}
  /\ record' = Append(record, [type |-> "process_exited"])
  /\ session' = "partial"
  /\ pc' = "partial"
  /\ UNCHANGED <<output, child, files, told>>

RunStep ==
  \/ SnapshotBefore \/ RecordStart \/ CallFails \/ SpawnPty \/ Connect \/ SpawnPipes \/ SpawnFails
  \/ RecordOutput \/ OutputFails \/ Drained \/ SnapshotAfter \/ RecordChange \/ Finish

RunNext ==
  \/ RunStep \/ Arrive \/ Tick \/ Exit \/ ChildPrints
  \/ \E f \in File, x \in Content \cup {NoFile} : Edit(f, x)

RunSpec == RunInit /\ [][RunNext]_rvars

----------------------------------------------------------------------------
Change == [type : {"file_changed"}, path : File, change : {"created", "modified", "deleted"}]

Event == [type : {"process_started", "process_exited"}]
         \cup [type : {"terminal_output"}, content : Seq(Chunk)] \cup Change

RTypeOK ==
  /\ pc \in {"snapshot", "start", "spawn", "connect", "running", "drain", "after", "changes",
             "partial", "failed", "died"}
  /\ printed \in 0..Cardinality(Chunk) /\ arrived \in 0..printed /\ told \in 0..arrived
  /\ buffer \in Seq(Chunk) /\ chain \in Seq(Seq(Chunk) \ {<<>>}) /\ awaited \in 0..Len(chain)
  /\ record \in Seq(Event) /\ todo \subseteq Change
  /\ session \in {"open", "partial", "interrupted"}
  /\ children \in 0..2 /\ terminal \in BOOLEAN
  /\ ended \in {"not yet", "success", "failure", "signal"}

(* The contents of buffers, one after the other. *)
Joined(buffers) ==
  LET upTo[n \in 0..Len(buffers)] == IF n = 0 THEN <<>> ELSE upTo[n - 1] \o buffers[n]
  IN upTo[Len(buffers)]

Said(e) == IF e.type = "terminal_output" THEN e.content ELSE <<>>

OutputOf(events) == Joined([i \in DOMAIN events |-> Said(events[i])])

(***************************************************************************)
(* However arrivals, ticks, full buffers and slow records interleave, the  *)
(* recorded output with what is still on its way is what has arrived, in   *)
(* its order: nothing is dropped, repeated or reordered.                   *)
(***************************************************************************)
OutputConserved ==
  OutputOf(record) \o Joined(chain) \o buffer = [i \in 1..arrived |-> i]

(***************************************************************************)
(* A run that ends well has recorded, before the exit of the process, all  *)
(* output that had come in when the exit was told (and may miss what comes *)
(* later), and its session is closed.                                      *)
(***************************************************************************)
CapturedToTheExit ==
  pc = "partial" =>
    /\ session = "partial"
    /\ \E i \in DOMAIN record :
         /\ record[i].type = "process_exited"
         /\ IsPrefix([n \in 1..told |-> n], OutputOf(SubSeq(record, 1, i)))

(***************************************************************************)
(* The changes on record are those between the two snapshots: each file    *)
(* that came, went or holds something else, once; of a secret's file only  *)
(* that it came or went.                                                   *)
(***************************************************************************)
Held(seen, f) == IF f \in DOMAIN seen THEN seen[f].hash ELSE NoFile

ChangesOnRecord ==
  pc = "partial" =>
    \A f \in File :
      LET of == {i \in DOMAIN record : record[i].type = "file_changed" /\ record[i].path = f}
      IN IF Held(seenBefore, f) = Held(seenAfter, f) THEN of = {}
         ELSE \E i \in of :
                /\ of = {i}
                /\ record[i].change = IF f \notin DOMAIN seenBefore THEN "created"
                                      ELSE IF f \notin DOMAIN seenAfter THEN "deleted"
                                      ELSE "modified"
=============================================================================
