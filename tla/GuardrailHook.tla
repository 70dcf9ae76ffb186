---------------------------- MODULE GuardrailHook ----------------------------
(***************************************************************************)
(* The hook command as a guardrail: cmdLocalHook (packages/cli/src/cli.ts) *)
(* decides a tool call (rules/guardrail.ts, rules/loader.ts), asks the     *)
(* user (dialog/), hands the event to the spool and answers, while the     *)
(* agent waits for the answer no longer than the timeout its hook is       *)
(* installed with (hookConfig.ts), which is half the dialog's.             *)
(*                                                                         *)
(* The agent is external: it runs the tool unless the command answers with *)
(* a denial and ends well.                                                 *)
(***************************************************************************)
EXTENDS Guardrail

CONSTANTS
  Platform,   \* the platforms it runs on
  Hook,       \* the runs of the hook command
  ToolCall,   \* the calls an agent makes: [provider, event, tool, subjects, disabled],
              \* the last if MEMORA_GUARDRAIL_DISABLED is set where the agent runs
  UserFile,   \* the rules files a user saves
  MaxSaves,   \* bounds the different files the user saves
  None        \* nothing in hand

ASSUME NoneAssumption == None \notin {"allow", "hard_block", "ask_approved", "ask_denied"}

ASSUME CallAssumption ==
  ToolCall \subseteq [provider : STRING, event : STRING, tool : STRING, subjects : Seq(STRING),
                       disabled : BOOLEAN]

ASSUME FileAssumption ==
  UserFile \subseteq
    [parses : BOOLEAN,
     rules : Seq([id : STRING, category : STRING, pattern : SUBSET STRING, tier : STRING,
                  enabled : STRING])]

VARIABLES
  platform,   \* where all of this runs
  rulesFile,  \* the rules file, [parses, rules], or None
  saved,      \* the files the user has saved
  hookPc,         \* hookPc[h]: what the command awaits next, or how it ended
  call,       \* call[h]: the agent's call that h was run for
  rules,      \* rules[h]: the rules in force for h
  decision,   \* decision[h]: [tier, rule, subject] or None
  outcome,    \* outcome[h]: the GuardrailOutcome, or None
  evidence,   \* evidence[h]: the outcome in the event handed over, or None
  agent       \* agent[h]: "waits", "ran" the tool, "denied" it, or "left" and ran it

file == <<platform, rulesFile, saved>>
local == <<call, rules, decision, outcome>>
hvars == <<file, local, hookPc, evidence, agent>>

Scaffold == [parses |-> TRUE, rules |-> DefaultRules]
Torn == [parses |-> FALSE, rules |-> <<>>]

HInit ==
  /\ platform \in Platform
  /\ rulesFile \in {None, Scaffold}
  /\ saved = {}
  /\ hookPc = [h \in Hook |-> "new"]
  /\ call = [h \in Hook |-> None]
  /\ rules = [h \in Hook |-> <<>>]
  /\ decision = [h \in Hook |-> None]
  /\ outcome = [h \in Hook |-> None]
  /\ evidence = [h \in Hook |-> None]
  /\ agent = [h \in Hook |-> "waits"]

Goto(h, label) == hookPc' = [hookPc EXCEPT ![h] = label]

(* A command that throws ends with an error, which agents do not heed. *)
HookThrows(h) ==
  /\ Goto(h, "threw")
  /\ agent' = [agent EXCEPT ![h] = IF @ = "waits" THEN "ran" ELSE @]
----------------------------------------------------------------------------
(* Only a tool call that is about to be made is decided upon. *)
isGuardrailApplicable(c) ==
  ~c.disabled /\ c.provider \in {"codex", "claude"} /\ c.event = "PreToolUse"

BeginHook(h) ==
  /\ hookPc[h] = "new"
  /\ \E c \in ToolCall :
       /\ call' = [call EXCEPT ![h] = c]
       /\ IF isGuardrailApplicable(c)
          THEN Goto(h, "check") /\ UNCHANGED outcome
          ELSE Goto(h, "enqueue") /\ outcome' = [outcome EXCEPT ![h] = "allow"]
  /\ UNCHANGED <<file, rules, decision, evidence, agent>>

(* loadRuleSet looks for the file, and writes the built-in rules if there is none. *)
CheckRules(h) ==
  /\ hookPc[h] = "check"
  /\ Goto(h, IF rulesFile = None THEN "scaffold" ELSE "load")
  /\ UNCHANGED <<file, local, evidence, agent>>

TruncateRules(h) ==
  /\ hookPc[h] = "scaffold"
  /\ rulesFile' = Torn
  /\ Goto(h, "write")
  /\ UNCHANGED <<platform, saved, local, evidence, agent>>

WriteRules(h) ==
  /\ hookPc[h] = "write"
  /\ rulesFile' = Scaffold
  /\ rules' = [rules EXCEPT ![h] = DefaultRules]
  /\ Goto(h, "evaluate")
  /\ UNCHANGED <<platform, saved, call, decision, outcome, evidence, agent>>

ScaffoldFails(h) ==
  /\ hookPc[h] \in {"scaffold", "write"}
  /\ HookThrows(h)
  /\ UNCHANGED <<file, local, evidence>>

(* A file that is gone by now cannot be used either. *)
LoadRules(h) ==
  /\ hookPc[h] = "load"
  /\ rules' = [rules EXCEPT ![h] = Loaded(IF rulesFile = None THEN Torn ELSE rulesFile)]
  /\ Goto(h, "evaluate")
  /\ UNCHANGED <<file, call, decision, outcome, evidence, agent>>

Evaluate(h) ==
  LET actions == normalizeToolCall(call[h])
      best == Strictest(rules[h], actions)
  IN
  /\ hookPc[h] = "evaluate"
  /\ ~EvaluationThrows(rules[h], actions)
  /\ decision' = [decision EXCEPT ![h] = best]
  /\ IF best.tier = "ask"
     THEN Goto(h, "dialog") /\ UNCHANGED outcome
     ELSE Goto(h, "enqueue") /\ outcome' = [outcome EXCEPT ![h] = best.tier]
  /\ UNCHANGED <<file, call, rules, evidence, agent>>

EvaluateThrows(h) ==
  /\ hookPc[h] = "evaluate"
  /\ EvaluationThrows(rules[h], normalizeToolCall(call[h]))
  /\ HookThrows(h)
  /\ UNCHANGED <<file, local, evidence>>
----------------------------------------------------------------------------
(***************************************************************************)
(* The dialog closes on its own after its timeout.  parseMacDialogOutput   *)
(* and parseWindowsDialogExitCode take what they do not know, and a dialog *)
(* that could not be opened, for "no_display"; other platforms have none.  *)
(***************************************************************************)
Closing == {"allow", "deny", "gave up", "error"}

parseDialog(closing) ==
  CASE closing = "allow" -> "ask_approved" [] OTHER -> "ask_denied"

DialogCloses(h) ==
  /\ hookPc[h] = "dialog"
  /\ \E closing \in IF platform \in {"darwin", "win32"} THEN Closing ELSE {"error"} :
       outcome' = [outcome EXCEPT ![h] = parseDialog(closing)]
  /\ Goto(h, "enqueue")
  /\ UNCHANGED <<file, call, rules, decision, evidence, agent>>

(***************************************************************************)
(* The agent's patience ends while the dialog is open.  It runs the tool;  *)
(* the command is killed, or goes on for nobody.                           *)
(***************************************************************************)
AgentGivesUp(h) ==
  /\ hookPc[h] = "dialog"
  /\ agent[h] = "waits"
  /\ agent' = [agent EXCEPT ![h] = "left"]
  /\ Goto(h, "killed") \/ UNCHANGED hookPc
  /\ UNCHANGED <<file, local, evidence>>

(* The event is handed over with the outcome, before anything is answered. *)
Enqueue(h) ==
  /\ hookPc[h] = "enqueue"
  /\ evidence' = [evidence EXCEPT ![h] = outcome[h]]
  /\ Goto(h, "autostart")
  /\ UNCHANGED <<file, local, agent>>

(* Mutant: a failing handover is passed over, as a failing autostart is. *)
EnqueueFailsQuietly(h) ==
  /\ hookPc[h] = "enqueue"
  /\ Goto(h, "autostart")
  /\ UNCHANGED <<file, local, evidence, agent>>

EnqueueFails(h) ==
  /\ hookPc[h] = "enqueue"
  /\ HookThrows(h)
  /\ UNCHANGED <<file, local, evidence>>

(* Whether a daemon is found, started or not, the command goes on. *)
Autostart(h) ==
  /\ hookPc[h] = "autostart"
  /\ Goto(h, "answer")
  /\ UNCHANGED <<file, local, evidence, agent>>

Denies(h) == outcome[h] \in {"hard_block", "ask_denied"}

Answer(h) ==
  /\ hookPc[h] = "answer"
  /\ Goto(h, "answered")
  /\ agent' = [agent EXCEPT ![h] =
       IF @ # "waits" THEN @ ELSE IF Denies(h) THEN "denied" ELSE "ran"]
  /\ UNCHANGED <<file, local, evidence>>

UserSaves ==
  /\ \E f \in UserFile :
       /\ rulesFile' = f
       /\ saved' = saved \cup {f}
       /\ Cardinality(saved') <= MaxSaves
  /\ UNCHANGED <<platform, local, hookPc, evidence, agent>>

HookStep(h) ==
  \/ CheckRules(h) \/ TruncateRules(h) \/ WriteRules(h) \/ ScaffoldFails(h) \/ LoadRules(h)
  \/ Evaluate(h) \/ EvaluateThrows(h) \/ DialogCloses(h)
  \/ Enqueue(h) \/ EnqueueFails(h) \/ Autostart(h) \/ Answer(h)

HNext ==
  \/ \E h \in Hook : BeginHook(h) \/ HookStep(h) \/ AgentGivesUp(h)
  \/ UserSaves

HookSpec == HInit /\ [][HNext]_hvars

----------------------------------------------------------------------------
HTypeOK ==
  /\ hookPc \in [Hook -> {"new", "check", "scaffold", "write", "load", "evaluate", "dialog",
                      "enqueue", "autostart", "answer", "answered", "threw", "killed"}]
  /\ outcome \in [Hook -> {None, "allow", "hard_block", "ask_approved", "ask_denied"}]
  /\ evidence \in [Hook -> {None, "allow", "hard_block", "ask_approved", "ask_denied"}]
  /\ agent \in [Hook -> {"waits", "ran", "left", "denied"}]
  /\ saved \subseteq UserFile

(***************************************************************************)
(* defaults.ts of its tiers: "hard_block - always denied, no prompt" and   *)
(* "ask - [...] treated as denied if not explicitly approved".  What the   *)
(* rules in force forbid is defined here without the engine's order: some  *)
(* enabled rule of the tier matches some action of the call.  A call with  *)
(* a hard block never runs, and one with an ask runs only approved, unless *)
(* the command threw, or the agent ran out of patience over the dialog;    *)
(* and a hard block does not make the agent wait for a dialog.             *)
(***************************************************************************)
Forbids(h, tier) ==
  LET actions == normalizeToolCall(call[h]) IN
  \E i \in DOMAIN rules[h], j \in DOMAIN actions :
    Matches(rules[h][i], actions[j]) /\ rules[h][i].tier = tier

RunsOnlyIfLet ==
  \A h \in Hook :
    /\ hookPc[h] = "answered" /\ Forbids(h, "hard_block") => agent[h] = "denied"
    /\ hookPc[h] = "answered" /\ Forbids(h, "ask") /\ agent[h] = "ran" =>
         outcome[h] = "ask_approved"
    /\ hookPc[h] = "dialog" \/ agent[h] = "left" => ~Forbids(h, "hard_block")
    /\ outcome[h] \in {"ask_approved", "ask_denied"} => Forbids(h, "ask")

(***************************************************************************)
(* No denial without evidence of it, under a rule in force that matches a  *)
(* subject of the call; and where the evidence says a call was denied and  *)
(* the agent ran it, the user was asked and too slow.                      *)
(***************************************************************************)
EvidenceOfDenials ==
  \A h \in Hook :
    /\ agent[h] = "denied" => evidence[h] \in {"hard_block", "ask_denied"}
    /\ hookPc[h] = "answered" /\ evidence[h] \in {"hard_block", "ask_denied"} =>
         agent[h] = "denied" \/ (evidence[h] = "ask_denied" /\ agent[h] = "left")
    /\ evidence[h] \notin {None, "allow"} =>
         \E i \in DOMAIN rules[h] :
           /\ rules[h][i].id = decision[h].rule /\ rules[h][i].tier = decision[h].tier
           /\ decision[h].subject \in rules[h][i].pattern

(***************************************************************************)
(* As long as the user saves no usable rules that drop it, the built-in    *)
(* protection of the rules file stands, whatever the file holds while it   *)
(* is being created or edited: no answered edit of it is run.              *)
(***************************************************************************)
Protects(f) ==
  LET protected == [category |-> "file_write", subject |-> "~/.config/memora/rules.yaml"]
  IN evaluateAction(Loaded(f), protected).tier = "hard_block"

ProtectsItself ==
  (\A f \in saved : Protects(f)) =>
    \A h \in Hook :
      hookPc[h] = "answered" /\ isGuardrailApplicable(call[h]) /\ call[h].tool \in Writes
        /\ Contains(call[h].subjects, "~/.config/memora/rules.yaml") => agent[h] # "ran"
=============================================================================
