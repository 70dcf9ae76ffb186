----------------------------- MODULE MCHookSpool -----------------------------
(***************************************************************************)
(* Small instances of HookSpool: three hooks of one Claude session, or two *)
(* of them and one of a Codex session without a session id.                *)
(***************************************************************************)
EXTENDS HookSpool, TLC

Claude == [provider |-> "claude", session |-> "s1", cwd |-> "/p"]
Codex == [provider |-> "codex", session |-> None, cwd |-> "/p"]

Hook2 == 1..2
Hook3 == 1..3
InputOneSession == [h \in Hook |-> Claude]
InputTwoSessions == [h \in Hook |-> IF h = 2 THEN Codex ELSE Claude]
PrecedesAll == {pair \in Hook \X Hook : pair[1] < pair[2]}
PrecedesInSession == {pair \in PrecedesAll : MappingId(pair[1]) = MappingId(pair[2])}
Symmetric == Permutations(Process) \cup Permutations(LocalId)
=============================================================================
