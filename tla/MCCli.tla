-------------------------------- MODULE MCCli --------------------------------
(***************************************************************************)
(* Small instances of Cli: three pieces of output, the second of which      *)
(* fills the buffer, a source file and a file with a secret's name; an     *)
(* event with up to two parents, of which two things at most differ from   *)
(* what was signed, and a signer's policy that was updated up to twice;    *)
(* tool calls with no, one and two actions, and rules files with an ask    *)
(* before a hard block, with a rule that is disabled, with a broken        *)
(* expression, with an invalid entry, and one that is still being written. *)
(***************************************************************************)
EXTENDS Cli, TLC

WhyExcluded == [x \in Content |-> IF x = "bytes" THEN "binary-content" ELSE "no"]
----------------------------------------------------------------------------
SignedOne == [payload |-> "h1", parents |-> {"p1"}]

Policy == {[enabled |-> TRUE, from |-> 0, until |-> 0], [enabled |-> FALSE, from |-> 0, until |-> 0],
           [enabled |-> TRUE, from |-> 3, until |-> 0], [enabled |-> TRUE, from |-> 0, until |-> 1]}
Update == {[time |-> t, known |-> k, enabled |-> p.enabled, from |-> p.from, until |-> p.until] :
             t \in 1..3, k \in BOOLEAN, p \in Policy}
Histories == {<<>>} \cup {<<u>> : u \in Update}
             \cup {<<p[1], p[2]>> : p \in {q \in Update \X Update : q[1].time <= q[2].time}}
----------------------------------------------------------------------------
ConfigsFound ==
  [{"e1", "e2"} -> {<<>>, <<{"ours"}>>, <<{"stale"}>>, <<{"ours"}, {"ours", "user"}>>}]
----------------------------------------------------------------------------
Before(tool, subjects) ==
  [provider |-> "claude", event |-> "PreToolUse", tool |-> tool, subjects |-> subjects,
   disabled |-> FALSE]
ToolCalls == {
  Before("Bash", <<"git push">>), Before("Bash", <<"git push --force">>),
  Before("Grep", <<>>),
  Before("apply_patch", <<"src/a", "~/.config/memora/rules.yaml">>),
  [Before("Bash", <<"git push --force">>) EXCEPT !.event = "PostToolUse"],
  [Before("Bash", <<"git push --force">>) EXCEPT !.disabled = TRUE] }

Ask(id, category, pattern) ==
  [id |-> id, category |-> category, pattern |-> pattern, tier |-> "ask", enabled |-> "absent"]
Saved(entries) == [parses |-> TRUE, rules |-> entries]
UserFiles == {
  Saved(<<Ask("ask-writes", "file_write", {"src/a", "~/.config/memora/rules.yaml"}),
          Ask("ask-shell", "shell_exec", {"git push", "git push --force"})>>
          \o DefaultRules),
  Saved(<<Ask("ask-push", "git_push", {"git push"}),
          [DefaultRules[4] EXCEPT !.enabled = "no"]>>),
  Saved(<<Ask("broken", "shell_exec", Broken)>>),
  Saved(<<Ask("twice", "file_read", {"cwd"}), Ask("twice", "file_read", {"cwd"})>>),
  Torn }
=============================================================================
