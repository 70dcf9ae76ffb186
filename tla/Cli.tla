--------------------------------- MODULE Cli ---------------------------------
(***************************************************************************)
(* The command-line tool: main() of packages/cli/src/cli.ts dispatches to  *)
(* a command and turns what becomes of it into an exit status.  Composed   *)
(* are "local run" (RunCapture), "verify" and "replay verify"              *)
(* (ReplayVerify), "local doctor" (Diagnostic), and the hook commands that *)
(* an agent runs side by side (GuardrailHook).                             *)
(***************************************************************************)
EXTENDS RunCapture, ReplayVerify, Diagnostic, GuardrailHook

VARIABLES
  command, \* what main was called for
  exit     \* exit[p]: whether process p runs, or its exit status

vars == <<command, exit, rvars, vvars, dvars, hvars>>

Main == "main"
Process == Hook \cup {Main}

ASSUME MainAssumption == Main \notin Hook

(***************************************************************************)
(* A command that is not known, or lacks an argument it needs, throws, as  *)
(* one on a platform that is not supported is refused.  The components of  *)
(* the commands that are not run stay as they are.                         *)
(***************************************************************************)
Init ==
  /\ command \in {"local run", "verify", "local doctor", "local hook", "unusable"}
  /\ exit = [p \in Process |-> "running"]
  /\ RunInit /\ VInit /\ DInit /\ HInit
  /\ command # "local run" => \A f \in File : disk[f] = NoFile
  /\ command # "verify" =>
       /\ step = "lookup" /\ ~rpc /\ ~signer
       /\ index = [payload |-> Signed.payload, parents |-> Signed.parents,
                   sequence |-> FALSE, tx |-> FALSE, event_id |-> FALSE]
  /\ command # "local doctor" => provider = "claude"
  /\ command # "local hook" => platform = "linux" /\ rulesFile = None
----------------------------------------------------------------------------
Running(c) == command = c /\ exit[Main] = "running"

LocalRun ==
  /\ Running("local run")
  /\ RunNext
  /\ UNCHANGED <<command, exit, vvars, dvars, hvars>>

(* What a run does by itself: neither the child nor its output is waited for. *)
LocalRunStep ==
  /\ Running("local run")
  /\ RunStep
  /\ UNCHANGED <<command, exit, vvars, dvars, hvars>>

Verify ==
  /\ Running("verify")
  /\ VNext
  /\ UNCHANGED <<command, exit, rvars, dvars, hvars>>

LocalDoctor ==
  /\ Running("local doctor")
  /\ DNext
  /\ UNCHANGED <<command, exit, rvars, vvars, hvars>>

(* What a diagnosis does by itself: no agent it asks is waited for. *)
LocalDoctorStep ==
  /\ Running("local doctor")
  /\ DStep
  /\ UNCHANGED <<command, exit, rvars, vvars, hvars>>

LocalHook ==
  /\ command = "local hook"
  /\ HNext
  /\ UNCHANGED <<command, exit, rvars, vvars, dvars>>

Exits(p, status) ==
  /\ exit[p] = "running"
  /\ exit' = [exit EXCEPT ![p] = status]
  /\ UNCHANGED <<command, rvars, vvars, dvars, hvars>>

StatusIf(ok) == IF ok THEN "success" ELSE "failure"

(* Mutant: a run that recorded nothing of its end reports its command's status. *)
RunExitsAsChild ==
  /\ command = "local run"
  /\ pc \in {"partial", "failed", "died"}
  /\ Exits(Main, exitCode)

(* A run exits as its command did, if it could record that. *)
RunExits ==
  /\ command = "local run"
  /\ \/ pc = "partial" /\ Exits(Main, exitCode)
     \/ pc \in {"failed", "died"} /\ Exits(Main, "failure")

VerifyExits ==
  /\ command = "verify" /\ step = "done"
  /\ Exits(Main, StatusIf(verdict = "CONSISTENT"))

(* With nothing left to wait for, Node ends the process without a word. *)
DoctorExits ==
  /\ command = "local doctor"
  /\ \/ /\ next \in {"done", "threw"}
        /\ Exits(Main, StatusIf(next = "done" /\ health \notin {"needs_attention", "not_installed"}))
     \/ inspect = "malformed" /\ Exits(Main, "success")

Refuse ==
  /\ command = "unusable"
  /\ Exits(Main, "failure")

(* A hook command that throws fails; one that denies a call succeeds. *)
HookExits(h) ==
  /\ hookPc[h] \in {"answered", "threw"}
  /\ Exits(h, StatusIf(hookPc[h] = "answered"))

MainStep == LocalRunStep \/ Verify \/ LocalDoctorStep \/ RunExits \/ VerifyExits \/ DoctorExits \/ Refuse

Next ==
  \/ LocalRun \/ Verify \/ LocalDoctor \/ LocalHook
  \/ RunExits \/ VerifyExits \/ DoctorExits \/ Refuse
  \/ \E h \in Hook : HookExits(h)

Spec == Init /\ [][Next]_vars

(***************************************************************************)
(* The event loop goes on, timers fire, and every request that is sent is  *)
(* answered or fails (fetch gives it up in the end); nothing makes the     *)
(* child of a run exit, its output arrive, or Codex answer.                *)
(***************************************************************************)
FairSpec == Spec /\ WF_vars(MainStep)
----------------------------------------------------------------------------
(* Every component's types, and the exit statuses. *)
TypeOK ==
  /\ exit \in [Process -> {"running", "success", "failure"}]
  /\ RTypeOK /\ VTypeOK /\ DTypeOK /\ HTypeOK

(***************************************************************************)
(* Scripts and agents go by the exit status alone.  Success means: a run   *)
(* closed its session with the end of a command that succeeded, or that a  *)
(* signal killed in a pseudo-terminal; an event is consistent as its       *)
(* checks are (VerdictFollowsChecks, TeeCommitHasQuote); the connection    *)
(* was found in order, or Codex's answer was of another shape; the event   *)
(* of a hook was handed over.  And a hook that fails has denied nothing.   *)
(***************************************************************************)
ExitTellsTruth ==
  /\ exit[Main] = "success" =>
       CASE command = "local run" ->
              /\ session = "partial" /\ record[Len(record)].type = "process_exited"
              /\ ended = "success" \/ (ended = "signal" /\ terminal)
         [] command = "verify" ->
              verdict = "CONSISTENT" /\ VerdictFollowsChecks /\ TeeCommitHasQuote
         [] command = "local doctor" -> health \in {"ready", "capturing"} \/ inspect = "malformed"
  /\ exit[Main] = "failure" =>
       CASE command = "local run" -> ended # "success" \/ session # "partial"
         [] command = "verify" ->
              verdict = "INTEGRITY CONCERN" => failed # {} \/ index.parents # {}
         [] command = "local doctor" ->
              next = "done" => (Failed # {} \/ "trust" \notin found) /\ TroubleHasAdvice
         [] OTHER -> TRUE
  /\ \A h \in Hook :
       /\ exit[h] = "success" => evidence[h] # None
       /\ exit[h] = "failure" => agent[h] # "denied"

(***************************************************************************)
(* Every command ends: a verification and a diagnosis whatever they ask    *)
(* does not answer or goes away, a run once its command has exited,        *)
(* whatever of the output never comes and whichever call fails.            *)
(***************************************************************************)
Awaited == command \in {"verify", "local doctor"} \/ pc = "drain"

CommandEnds == Awaited ~> (exit[Main] # "running")
=============================================================================
