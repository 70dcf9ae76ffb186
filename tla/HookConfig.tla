----------------------------- MODULE HookConfig -----------------------------
(***************************************************************************)
(* The hook configuration of a terminal agent as Memora writes and reads   *)
(* it: packages/local/src/hookConfig.ts, and the analysis of it in         *)
(* packages/local/src/integrationDiagnostic.ts.                            *)
(*                                                                         *)
(* A configuration has a list of groups for an event; a group is the set   *)
(* of its handlers.  A handler of Memora's is named by the path of the CLI *)
(* it runs (its data root is abstracted), one that is not, "user".         *)
(***************************************************************************)
EXTENDS Naturals, Sequences, FiniteSets

CONSTANTS
  Expected, \* the events the agent's adapter expects
  CliPath   \* the paths of the command-line tool

User == "user"

ASSUME PathAssumption == User \notin CliPath

Handler == CliPath \cup {User}

(* The events and groups that a configuration can have. *)
Configuration(config, handlers) ==
  /\ config = [event \in DOMAIN config |-> config[event]]
  /\ \A event \in DOMAIN config : config[event] \in Seq(SUBSET handlers)

GroupsOf(config, event) == IF event \in DOMAIN config THEN config[event] ELSE <<>>

isMemoraHandler(handler) == handler # User

(* Of a list what is wanted, in its order. *)
Filtered(list, wanted) ==
  LET first[n \in 0..Len(list)] ==
        IF n = 0 THEN <<>>
        ELSE IF list[n] \in wanted THEN Append(first[n - 1], list[n]) ELSE first[n - 1]
  IN first[Len(list)]

(* The groups no handler of which is Memora's. *)
NotMemoras(groups) == Filtered(groups, SUBSET {h \in Handler : ~isMemoraHandler(h)})

(* A group with a handler of Memora's is replaced, whoever's its other     *)
(* handlers are.                                                           *)
mergeMemoraHooks(config, cli) ==
  [event \in DOMAIN config \cup Expected |->
     IF event \in Expected THEN Append(NotMemoras(GroupsOf(config, event)), {cli})
                           ELSE config[event]]

(* An event that has no group left is dropped. *)
removeMemoraHooks(config) ==
  [event \in {e \in DOMAIN config : NotMemoras(config[e]) # <<>>} |-> NotMemoras(config[event])]

(***************************************************************************)
(* analyzeHookConfiguration for a diagnosis that expects the CLI at path   *)
(* cli: every expected event has one handler of Memora's, which runs that. *)
(***************************************************************************)
Handlers(config, event) ==
  LET groups == GroupsOf(config, event)
  IN {at \in (DOMAIN groups) \X Handler : at[2] \in groups[at[1]] /\ isMemoraHandler(at[2])}

Valid(config, cli) ==
  \A event \in Expected :
    /\ Cardinality(Handlers(config, event)) = 1
    /\ \A found \in Handlers(config, event) : found[2] = cli
=============================================================================
