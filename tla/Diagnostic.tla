----------------------------- MODULE Diagnostic -----------------------------
(***************************************************************************)
(* runIntegrationDiagnostic (packages/local/src/integrationDiagnostic.ts): *)
(* "memora local doctor" and the desktop's connection test.  It looks at   *)
(* the CLI, the hook configuration, the shell wrapper, the agent's         *)
(* runtimes and its trust in the hooks, sends a synthetic hook through a   *)
(* store of its own, and looks for a recent event.                         *)
(*                                                                         *)
(* What it starts may fail, exit without an answer, or be killed by a      *)
(* timer.  The synthetic hook's pipeline is that of HookSpool; the daemon  *)
(* the hook starts is in DaemonLifecycle.                                  *)
(***************************************************************************)
EXTENDS HookConfig

CONSTANT Configs \* the configurations that may be found

VARIABLES
  next,        \* the check that comes next
  provider,    \* the agent that is diagnosed
  found,       \* of "cli", "configuration", "runtime", "trust", "recent": what is in order
  inspect,     \* what became of the inspection of Codex: see listCodexHooks
  checks,      \* the checks so far: <<id, status>>
  remediation, \* what the user is told to do
  health       \* the status at the end

dvars == <<next, provider, found, inspect, checks, remediation, health>>

DInit ==
  /\ next = "cli"
  /\ provider \in {"claude", "codex"}
  /\ found = {}
  /\ inspect = "none"
  /\ checks = {} /\ remediation = {}
  /\ health = "none"

(* The check named id has the status, and its advice is given if needed. *)
Report(id, status, advised) ==
  /\ checks' = checks \cup {<<id, status>>}
  /\ remediation' = remediation \cup {a \in {id} : advised}

PassedIf(ok) == IF ok THEN "passed" ELSE "failed"

With(what, ok) == found' = found \cup {w \in {what} : ok}

(* The CLI can be executed and answers --help within five seconds. *)
CheckCli ==
  /\ next = "cli"
  /\ \E cliReady \in BOOLEAN :
       Report("cli", PassedIf(cliReady), ~cliReady) /\ With("cli", cliReady)
  /\ next' = "configuration"
  /\ UNCHANGED <<provider, inspect, health>>

(* The configuration that is found, or none that can be read. *)
CheckConfiguration ==
  /\ next = "configuration"
  /\ \E valid \in {Valid(config, "ours") : config \in Configs} \cup {FALSE} :
       Report("configuration", PassedIf(valid), ~valid) /\ With("configuration", valid)
  /\ next' = "wrapper"
  /\ UNCHANGED <<provider, inspect, health>>

(* A shell function that wraps the agent, besides valid hooks, has every   *)
(* session captured twice.                                                 *)
CheckWrapper ==
  /\ next = "wrapper"
  /\ \/ UNCHANGED <<checks, remediation>>
     \/ IF "configuration" \in found THEN Report("shell_wrapper", "warning", TRUE)
                                     ELSE Report("shell_wrapper", "passed", FALSE)
  /\ next' = "runtime"
  /\ UNCHANGED <<provider, found, inspect, health>>

(* detectRuntimes: a candidate counts if it may be executed, whether or    *)
(* not it tells its version.                                               *)
CheckRuntime ==
  /\ next = "runtime"
  /\ \E runtimes \in BOOLEAN :
       Report("runtime", PassedIf(runtimes), ~runtimes) /\ With("runtime", runtimes)
  /\ next' = "trust"
  /\ UNCHANGED <<provider, inspect, health>>
----------------------------------------------------------------------------
(* Claude is not asked, Codex cannot be if it is not installed. *)
CheckTrust ==
  /\ next = "trust"
  /\ \/ /\ provider = "claude"
        /\ found' = found \cup {"trust"}
        /\ Report("trust", IF "configuration" \in found THEN "passed" ELSE "warning", FALSE)
        /\ next' = "synthetic" /\ UNCHANGED inspect
     \/ /\ provider = "codex" /\ "runtime" \notin found
        /\ next' = "synthetic" /\ UNCHANGED <<found, inspect, checks, remediation>>
     \/ /\ provider = "codex" /\ "runtime" \in found
        /\ inspect' = "asked"
        /\ next' = "inspect" /\ UNCHANGED <<found, checks, remediation>>
  /\ UNCHANGED <<provider, health>>

(***************************************************************************)
(* listCodexHooks: Codex's server is asked and its first answer counts; a  *)
(* server that cannot be started, or did not answer within seven seconds,  *)
(* whether or not it still runs, could not be inspected.  An answer of     *)
(* another shape is dropped after the timer has been cleared: nothing ends *)
(* the diagnosis any more.                                                 *)
(***************************************************************************)
CodexExits ==
  /\ next = "inspect" /\ inspect = "asked"
  /\ inspect' = "exited"
  /\ UNCHANGED <<next, provider, found, checks, remediation, health>>

CodexAnswers ==
  /\ next = "inspect" /\ inspect = "asked"
  /\ \E trusted \in BOOLEAN :
       Report("trust", PassedIf(trusted), ~trusted) /\ With("trust", trusted)
  /\ inspect' = "answered"
  /\ next' = "synthetic"
  /\ UNCHANGED <<provider, health>>

CodexAnswersMalformed ==
  /\ next = "inspect" /\ inspect = "asked"
  /\ inspect' = "malformed"
  /\ UNCHANGED <<next, provider, found, checks, remediation, health>>

CodexTimesOut ==
  /\ next = "inspect" /\ inspect # "malformed"
  /\ Report("trust", "warning", TRUE)
  /\ inspect' = "given up"
  /\ next' = "synthetic"
  /\ UNCHANGED <<provider, found, health>>

(***************************************************************************)
(* runSyntheticDiagnostic: a hook command of its own is run, its spool     *)
(* drained, and the one session verified.  It is rejected if any of this   *)
(* throws, and skipped without a CLI.                                      *)
(***************************************************************************)
CheckSynthetic ==
  /\ next = "synthetic"
  /\ \E accepted, verified \in BOOLEAN :
       /\ verified => accepted
       /\ accepted => "cli" \in found
       /\ checks' = checks \cup {<<"synthetic", PassedIf(accepted)>>,
                                 <<"verification", PassedIf(verified)>>}
  /\ next' = "recent"
  /\ UNCHANGED <<provider, found, inspect, remediation, health>>

(* lastRealEvent: the start of the agent's newest session, five minutes ago *)
(* at most.                                                                 *)
CheckRecent ==
  /\ next = "recent"
  /\ \E recent \in BOOLEAN :
       /\ Report("recent_event", IF recent THEN "passed" ELSE "warning", ~recent)
       /\ With("recent", recent)
  /\ next' = "status"
  /\ UNCHANGED <<provider, inspect, health>>

(***************************************************************************)
(* Writing to a process that has gone is an error nobody handles; removing *)
(* the synthetic hook's directory and listing the sessions may throw.      *)
(***************************************************************************)
DiagnosticThrows ==
  /\ next \in {"inspect", "synthetic", "recent"} /\ inspect # "malformed"
  /\ next' = "threw"
  /\ UNCHANGED <<provider, found, inspect, checks, remediation, health>>

Failed == {c[1] : c \in {k \in checks : k[2] = "failed"}}

(* Mutant: only what was installed has to be in order. *)
StatusOfInstalled ==
  /\ next = "status"
  /\ health' = IF found \cap {"cli", "configuration", "runtime"} = {} THEN "not_installed"
               ELSE IF "trust" \notin found THEN "needs_attention"
               ELSE IF "recent" \in found THEN "capturing" ELSE "ready"
  /\ next' = "done"
  /\ UNCHANGED <<provider, found, inspect, checks, remediation>>

Status ==
  /\ next = "status"
  /\ health' = IF found \cap {"cli", "configuration", "runtime"} = {} THEN "not_installed"
               ELSE IF Failed # {} \/ "trust" \notin found THEN "needs_attention"
               ELSE IF "recent" \in found THEN "capturing" ELSE "ready"
  /\ next' = "done"
  /\ UNCHANGED <<provider, found, inspect, checks, remediation>>

(* What the diagnosis does by itself; its timers are its own. *)
DStep ==
  \/ CheckCli \/ CheckConfiguration \/ CheckWrapper \/ CheckRuntime \/ CheckTrust
  \/ CodexTimesOut \/ CheckSynthetic \/ CheckRecent \/ Status

DNext == DStep \/ CodexExits \/ CodexAnswers \/ CodexAnswersMalformed \/ DiagnosticThrows
----------------------------------------------------------------------------
Ids == {"cli", "configuration", "shell_wrapper", "runtime", "trust", "synthetic",
        "verification", "recent_event"}

DTypeOK ==
  /\ next \in {"cli", "configuration", "wrapper", "runtime", "trust", "inspect", "synthetic",
                "recent", "status", "done", "threw"}
  /\ provider \in {"claude", "codex"}
  /\ found \subseteq {"cli", "configuration", "runtime", "trust", "recent"}
  /\ inspect \in {"none", "asked", "exited", "answered", "malformed", "given up"}
  /\ checks \subseteq Ids \X {"passed", "warning", "failed"}
  /\ remediation \subseteq Ids
  /\ health \in {"none", "not_installed", "needs_attention", "ready", "capturing"}

(***************************************************************************)
(* Good health is earned: an integration is told to be ready or capturing  *)
(* only if the CLI runs, the hooks are current and trusted, an agent is    *)
(* there, and a hook of Memora's own went all the way to verified          *)
(* evidence; capturing, only if there is a recent event.                   *)
(***************************************************************************)
HealthIsEarned ==
  health \in {"ready", "capturing"} =>
    /\ {"cli", "configuration", "runtime", "trust"} \subseteq found
    /\ {<<"synthetic", "passed">>, <<"verification", "passed">>} \subseteq checks
    /\ health = "capturing" => "recent" \in found

(***************************************************************************)
(* Who is told that something needs attention is told what to do; but      *)
(* there is no advice for a synthetic hook that fails while real events    *)
(* come in.                                                                *)
(***************************************************************************)
TroubleHasAdvice ==
  health = "needs_attention" /\ remediation = {} =>
    /\ "recent" \in found
    /\ Failed # {} /\ Failed \subseteq {"synthetic", "verification"}
=============================================================================
