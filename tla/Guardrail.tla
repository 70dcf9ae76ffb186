------------------------------ MODULE Guardrail ------------------------------
(***************************************************************************)
(* The rule engine (packages/local/src/rules): what a tool call does, as   *)
(* normalized actions, what the rules say of an action, and which rules    *)
(* are in force given what the rules file holds.                           *)
(*                                                                         *)
(* A subject (a resolved path, a command, a URL) is a name for all that    *)
(* the patterns do not tell apart.  A pattern is the set of subjects it    *)
(* matches, or Broken: an expression the RegExp constructor refuses.       *)
(***************************************************************************)
EXTENDS Naturals, Sequences, SequencesExt, FiniteSets

Category == {"file_read", "file_write", "shell_exec", "git_push", "network_call"}
Tier == {"hard_block", "ask"}

Broken == {"("}

(* The built-in rules, each with what its pattern matches. *)
Block(id, category, pattern) ==
  [id |-> id, category |-> category, pattern |-> pattern, tier |-> "hard_block", enabled |-> "yes"]

DefaultRules == <<
  Block("block-credential-writes", "file_write", {"~/.env"}),
  Block("block-ssh-writes", "file_write", {"~/.ssh/id_rsa"}),
  Block("block-aws-writes", "file_write", {"~/.aws/credentials"}),
  Block("block-force-push", "git_push", {"git push --force"}),
  Block("block-rm-rf-broad", "shell_exec", {"rm -rf /"}),
  Block("block-git-reset-hard", "shell_exec", {"git reset --hard"}),
  Block("block-rules-file-edit", "file_write", {"~/.config/memora/rules.yaml"}),
  Block("block-memora-config-edit", "file_write",
        {"~/.config/memora/rules.yaml", "~/.config/memora/hooks"}) >>

Pushes(command) == command \in {"git push --force", "git push"}
----------------------------------------------------------------------------
(***************************************************************************)
(* normalizeToolCall.  A call has a tool and the subjects it names: the    *)
(* paths of a patch, otherwise one, or none when the field is missing.     *)
(***************************************************************************)
Action(category, subject) == [category |-> category, subject |-> subject]

EachAs(category, subjects) == [i \in DOMAIN subjects |-> Action(category, subjects[i])]

Reads == {"Read", "Glob", "Grep"}
Writes == {"Write", "Edit", "NotebookEdit", "apply_patch"}

normalizeToolCall(call) ==
  CASE call.tool \in Reads ->
         IF call.subjects = <<>> /\ call.tool # "Read"
         THEN <<Action("file_read", "cwd")>>
         ELSE EachAs("file_read", call.subjects)
    [] call.tool \in Writes -> EachAs("file_write", call.subjects)
    [] call.tool = "WebFetch" -> EachAs("network_call", call.subjects)
    [] call.tool = "Bash" ->
         IF \E i \in DOMAIN call.subjects : Pushes(call.subjects[i])
         THEN EachAs("shell_exec", call.subjects) \o EachAs("git_push", call.subjects)
         ELSE EachAs("shell_exec", call.subjects)
    [] OTHER -> <<>>

(***************************************************************************)
(* evaluateAction: among the enabled rules of the category that match, the *)
(* first hard block, else the first ask.  A glob is escaped; any other     *)
(* pattern that is no expression throws when it is tried.                  *)
(***************************************************************************)
Globbed == {"file_read", "file_write"}

Matches(rule, action) ==
  rule.enabled = "yes" /\ rule.category = action.category /\ action.subject \in rule.pattern

Throws(rules, action) ==
  \E i \in DOMAIN rules :
    /\ rules[i].enabled = "yes"
    /\ rules[i].category = action.category
    /\ rules[i].category \notin Globbed
    /\ rules[i].pattern = Broken

Allowed == [tier |-> "allow", rule |-> "none", subject |-> "none"]

Decide(rule, action) == [tier |-> rule.tier, rule |-> rule.id, subject |-> action.subject]

Hits(rules, action) == {i \in DOMAIN rules : Matches(rules[i], action)}

OfTier(rules, action, tier) == {i \in Hits(rules, action) : rules[i].tier = tier}

(* Mutant: the first rule that matches decides, whatever its tier. *)
FirstMatchDecides(rules, action) ==
  IF Hits(rules, action) = {} THEN Allowed ELSE Decide(rules[Min(Hits(rules, action))], action)

evaluateAction(rules, action) ==
  LET blocks == OfTier(rules, action, "hard_block")
      asks == OfTier(rules, action, "ask")
  IN IF blocks # {} THEN Decide(rules[Min(blocks)], action)
     ELSE IF asks # {} THEN Decide(rules[Min(asks)], action)
     ELSE Allowed

(***************************************************************************)
(* The decision of a call is that of the first of its actions that none is *)
(* stricter than (the loop of evaluateGuardrail), if that is not allowed.  *)
(***************************************************************************)
Severity(decision) ==
  CASE decision.tier = "allow" -> 0 [] decision.tier = "ask" -> 1 [] OTHER -> 2

Strictest(rules, actions) ==
  LET decision(i) == evaluateAction(rules, actions[i])
      strictest == {i \in DOMAIN actions :
                      /\ decision(i).tier # "allow"
                      /\ \A j \in DOMAIN actions : Severity(decision(j)) <= Severity(decision(i))}
  IN IF strictest = {} THEN Allowed ELSE decision(Min(strictest))

EvaluationThrows(rules, actions) == \E i \in DOMAIN actions : Throws(rules, actions[i])
----------------------------------------------------------------------------
(***************************************************************************)
(* validate: one bad entry refuses the file.  An entry without "enabled"   *)
(* is enabled.  loadRuleSet: a file that cannot be used gives the built-in *)
(* rules.                                                                  *)
(***************************************************************************)
ValidEntry(raw) ==
  raw.id # "" /\ raw.category \in Category /\ raw.tier \in Tier /\ raw.pattern # {}

ValidRules(raw) ==
  /\ \A i \in DOMAIN raw : ValidEntry(raw[i])
  /\ \A i, j \in DOMAIN raw : raw[i].id = raw[j].id => i = j

Rule(raw) == [raw EXCEPT !.enabled = IF @ = "no" THEN "no" ELSE "yes"]

(* Mutant: a file that cannot be used gives no rules. *)
LoadedOrNothing(file) ==
  IF file.parses /\ ValidRules(file.rules)
  THEN [i \in DOMAIN file.rules |-> Rule(file.rules[i])]
  ELSE <<>>

Loaded(file) ==
  IF file.parses /\ ValidRules(file.rules)
  THEN [i \in DOMAIN file.rules |-> Rule(file.rules[i])]
  ELSE DefaultRules
=============================================================================
