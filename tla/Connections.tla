----------------------------- MODULE Connections -----------------------------
(***************************************************************************)
(* Agent connections: the desktop's handlers that configure and diagnose   *)
(* them and keep its settings (apps/desktop/src/main/main.ts,              *)
(* integrationSettings.ts, shellIntegration.ts), the CLI's commands that   *)
(* install and uninstall hooks and the shell wrapper (packages/cli/src/    *)
(* cli.ts, packages/local/src/shellIntegration.ts), which the desktop and  *)
(* the user run, and the user's own edits of an agent's configuration.     *)
(*                                                                         *)
(* A handler is interleaved with the others at each await.  Several run at *)
(* once: the renderer disables only the button of the test that runs.      *)
(* What a diagnosis finds is in Diagnostic, here it is its status.         *)
(***************************************************************************)
EXTENDS HookConfig, SequencesExt

CONSTANTS
  terminalAdapters, \* the agents with hooks, in the order of the registry
  Level,            \* the reading levels
  DefaultLevel,
  OnPath,           \* the agents whose executable the desktop finds
  UserConfigs,      \* the agents' configurations before Memora is installed
  MaxCalls,         \* bounds how many handlers and commands are run, and edits made, in all
  None,             \* nothing there
  Torn              \* a file that does not parse

Provider == Range(terminalAdapters)
Call == 1..MaxCalls

(* The paths that the desktop's own CLI and its launcher have. *)
cliScript == "cli.js"
cliLauncherTarget == "launcher"

ASSUME ConnectionsAssumption ==
  /\ terminalAdapters \in Seq(Provider) /\ terminalAdapters # <<>>
  /\ {cliScript, cliLauncherTarget} \subseteq CliPath
  /\ DefaultLevel \in Level /\ OnPath \subseteq Provider
  /\ MaxCalls \in Nat

VARIABLES
  settings, \* the settings file: None, Torn, or fields that are set
  config,   \* config[p]: the hook configuration of agent p as last written in full
  emptied,  \* the agents whose configuration has been cut short since: it does not parse
  saved,    \* saved[p]: the copy beside it, <path>.backup; a missing file counts as empty
  miscopied, \* the agents whose copy is cut short
  wrapper,  \* the agents that the shell wrapper shadows
  sourced,  \* the shell's rc file has the line that loads the wrapper
  calls,    \* calls[i]: the i-th call, or None
  at,       \* at[i]: what call i does next, or how it ended: "done", or "stopped" before that
  previous, \* previous[i]: previouslyInstalled
  left,     \* left[i]: the agents call i has yet to handle
  base,     \* base[i]: the settings or the configuration call i has read
  patch,    \* patch[i]: the fields call i sets
  edits,    \* how often the user edited or restored a configuration
  asked,    \* the settings as the writes were meant, one after the other
  users,    \* users[p]: the groups without a handler of Memora's, as the user left them
  byHand,   \* the agents whose hooks the user installed or removed
  trouble   \* of "clash", "crossed", "mingled", "torn", "failed", "raced", "unwrapped": what went wrong

hookFiles == <<config, emptied, saved, miscopied>>
files == <<settings, config, emptied, saved, miscopied, wrapper, sourced>>
memory == <<previous, left, base, patch>>
history == <<edits, asked, users, byHand, trouble>>
cvars == <<files, calls, at, memory, history>>
----------------------------------------------------------------------------
(* integrationSettings.ts.  Editors, and when the file was written, are left out. *)
defaultIntegrationSettings ==
  [onboarding_complete |-> FALSE,
   automatic_terminal_agents |-> {},
   last_diagnostics |-> [p \in Provider |-> "none"],
   reading_level |-> DefaultLevel]

(* Mutant: the fields are taken as they are. *)
asStored(stored) == stored

(* A field that the file lacks has its default. *)
normalizeIntegrationSettings(stored) ==
  [field \in DOMAIN defaultIntegrationSettings |->
     IF field \in DOMAIN stored THEN stored[field] ELSE defaultIntegrationSettings[field]]

readIntegrationSettings ==
  IF settings \in {None, Torn} THEN defaultIntegrationSettings
                               ELSE normalizeIntegrationSettings(settings)

(* Mutant: a write sets the fields it does not name to their defaults. *)
mergeOverDefaults(current, fields) ==
  [field \in DOMAIN current |->
     IF field \in DOMAIN fields THEN fields[field] ELSE defaultIntegrationSettings[field]]

mergeIntegrationSettings(current, fields) ==
  [field \in DOMAIN current |->
     IF field \in DOMAIN fields THEN fields[field] ELSE current[field]]
----------------------------------------------------------------------------
(***************************************************************************)
(* The settings, and the fields that a handler sets.                       *)
(***************************************************************************)
Diagnoses == [Provider -> {"none", "ready", "needs_attention"}]

Settings == [onboarding_complete : BOOLEAN, automatic_terminal_agents : SUBSET Provider,
             last_diagnostics : Diagnoses, reading_level : Level]

Fields == [onboarding_complete : {TRUE}, automatic_terminal_agents : SUBSET Provider]
          \cup [last_diagnostics : Diagnoses] \cup [reading_level : Level]

(* A first start, or the settings and hooks of a version without reading levels. *)
Older == [onboarding_complete |-> TRUE, automatic_terminal_agents |-> {terminalAdapters[1]}]

ASSUME ApartAssumption ==
  /\ None # Torn /\ None \notin {"ready", "needs_attention"} \cup Fields
  /\ \A stored \in {None, Torn} : stored \notin Settings /\ stored # Older

(* An agent's configuration before Memora is installed: an event has a group, if it is there. *)
ASSUME UsersAssumption ==
  \A start \in UserConfigs :
    /\ start = [p \in Provider |-> start[p]]
    /\ \A p \in Provider : /\ Configuration(start[p], {User})
                           /\ \A event \in DOMAIN start[p] : start[p][event] # <<>>

CInit ==
  /\ \E start \in UserConfigs :
       /\ users = start
       /\ \/ /\ settings = None /\ config = start
             /\ wrapper = {} /\ sourced = FALSE
          \/ /\ settings = Older
             /\ config = [start EXCEPT ![terminalAdapters[1]] = mergeMemoraHooks(@, cliScript)]
             /\ wrapper = {terminalAdapters[1]} /\ sourced = TRUE
  /\ emptied = {} /\ miscopied = {}
  /\ saved = [p \in Provider |-> <<>>]
  /\ calls = [i \in Call |-> None]
  /\ at = [i \in Call |-> "new"]
  /\ previous = [i \in Call |-> {}]
  /\ left = [i \in Call |-> <<>>]
  /\ base = [i \in Call |-> None]
  /\ patch = [i \in Call |-> None]
  /\ edits = 0
  /\ asked = readIntegrationSettings
  /\ byHand = {} /\ trouble = {}

Ended == {"done", "stopped"}
Active(i) == at[i] \notin {"new"} \cup Ended
InDesktop(i) == calls[i].kind \in {"configure", "diagnose", "level"}

Goto(i, label) == at' = [at EXCEPT ![i] = label]
Hold(i, read) == base' = [base EXCEPT ![i] = read]

(* What calls is had in memory is gone with them. *)
Forget(is) ==
  /\ calls' = [i \in Call |-> IF i \in is THEN None ELSE calls[i]]
  /\ previous' = [i \in Call |-> IF i \in is THEN {} ELSE previous[i]]
  /\ left' = [i \in Call |-> IF i \in is THEN <<>> ELSE left[i]]
  /\ base' = [i \in Call |-> IF i \in is THEN None ELSE base[i]]
  /\ patch' = [i \in Call |-> IF i \in is THEN None ELSE patch[i]]

(* The writes of settings that are under way: from what was read to what is written. *)
Writing(i) == at[i] \in {"truncate", "write"} \/ (at[i] = "merge" /\ patch[i] # None /\ base[i] # None)

Notes(what) == trouble' = trouble \cup what

ClashIf(i) == {t \in {"clash"} : \E j \in Call \ {i} : Writing(j)}
TornIf == {t \in {"torn"} : settings = Torn}

Bounded == Cardinality({i \in Call : at[i] # "new"}) + edits < MaxCalls

(* A handler or a command begins. *)
Begin(i, request, label) ==
  /\ at[i] = "new" /\ Bounded
  /\ \A j \in 1..(i - 1) : at[j] # "new"
  /\ calls' = [calls EXCEPT ![i] = request]
  /\ Goto(i, label)

Configure(i, selected) ==
  /\ Begin(i, [kind |-> "configure", selected |-> selected], "previous")
  /\ Notes({t \in {"crossed"} : \E j \in Call : Active(j) /\ calls[j].kind = "configure"})
  /\ UNCHANGED <<files, memory, edits, asked, users, byHand>>

Diagnose(i, p) ==
  /\ Begin(i, [kind |-> "diagnose", provider |-> p], "diagnose")
  /\ left' = [left EXCEPT ![i] = <<p>>]
  /\ UNCHANGED <<files, previous, base, patch, history>>

SetReadingLevel(i, level) ==
  /\ Begin(i, [kind |-> "level", level |-> level], "merge")
  /\ patch' = [patch EXCEPT ![i] = [reading_level |-> level]]
  /\ UNCHANGED <<files, previous, left, base, history>>

(* The user runs a CLI's own command for an agent, from whatever path. *)
RunByHand(i, kind, p, cli) ==
  /\ Begin(i, [kind |-> kind, provider |-> p, cli |-> cli], "read config")
  /\ left' = [left EXCEPT ![i] = <<p>>]
  /\ byHand' = byHand \cup {p}
  /\ UNCHANGED <<files, previous, base, patch, edits, asked, users, trouble>>

UninstallShell(i) ==
  /\ Begin(i, [kind |-> "unwrap"], "strip")
  /\ Notes({"unwrapped"})
  /\ UNCHANGED <<files, memory, edits, asked, users, byHand>>
----------------------------------------------------------------------------
(* configureIntegrations. *)
ReadPrevious(i) ==
  /\ at[i] = "previous"
  /\ previous' = [previous EXCEPT ![i] = readIntegrationSettings.automatic_terminal_agents]
  /\ Goto(i, "shell")
  /\ Notes(TornIf)
  /\ UNCHANGED <<files, calls, left, base, patch, edits, asked, users, byHand>>

(* The launcher and the active data root, whose use is not modelled, and   *)
(* the shell wrapper of the agents that are found; then the rc file.       *)
WriteShellIntegration(i) ==
  /\ at[i] = "shell"
  /\ wrapper' = calls[i].selected \cap OnPath
  /\ left' = [left EXCEPT ![i] = terminalAdapters]
  /\ Goto(i, "rc")
  /\ UNCHANGED <<settings, hookFiles, sourced, calls, previous, base, patch, history>>

AppendSourceLine(i) ==
  /\ at[i] = "rc"
  /\ sourced' = TRUE
  /\ Goto(i, "hooks")
  /\ UNCHANGED <<settings, hookFiles, wrapper, calls, memory, history>>

(* installLifecycleHooks: the agents with hooks to install or to uninstall. *)
ToChange(i) == Filtered(left[i], calls[i].selected \cup previous[i])

NextAgent(i) ==
  /\ at[i] = "hooks"
  /\ left' = [left EXCEPT ![i] = ToChange(i)]
  /\ IF ToChange(i) # <<>> THEN Goto(i, "read config") ELSE Goto(i, "editors")
  /\ UNCHANGED <<files, calls, previous, base, patch, history>>

(***************************************************************************)
(* The CLI, run by the desktop or the user: readHookConfigFile, which      *)
(* throws if the file does not parse, see StepFails, and                   *)
(* writeHookConfigFile, which copies the file, empties it and fills it.    *)
(***************************************************************************)
Rewriting(i) == at[i] \in {"back up", "empty config", "fill config"}

RewritesToo(i, p) == \E j \in Call \ {i} : Rewriting(j) /\ Head(left[j]) = p

(* Mutant: a file that does not parse counts as empty. *)
ReadConfigAnyway(i) ==
  LET p == Head(left[i]) IN
  /\ at[i] = "read config"
  /\ Hold(i, IF p \in emptied THEN <<>> ELSE config[p])
  /\ Goto(i, "back up")
  /\ Notes({t \in {"mingled"} : RewritesToo(i, p)})
  /\ UNCHANGED <<files, calls, previous, left, patch, edits, asked, users, byHand>>

ReadConfig(i) ==
  LET p == Head(left[i]) IN
  /\ at[i] = "read config" /\ p \notin emptied
  /\ Hold(i, config[p])
  /\ Goto(i, "back up")
  /\ Notes({t \in {"mingled"} : RewritesToo(i, p)})
  /\ UNCHANGED <<files, calls, previous, left, patch, edits, asked, users, byHand>>

Installs(i) ==
  \/ calls[i].kind = "install"
  \/ calls[i].kind = "configure" /\ Head(left[i]) \in calls[i].selected

WithCli(i) == IF calls[i].kind = "install" THEN calls[i].cli ELSE cliScript

Rewritten(i) ==
  IF Installs(i) THEN mergeMemoraHooks(base[i], WithCli(i)) ELSE removeMemoraHooks(base[i])

(* What another call has emptied is copied as it is. *)
BackUpConfig(i) ==
  LET p == Head(left[i]) IN
  /\ at[i] = "back up"
  /\ IF p \in emptied THEN miscopied' = miscopied \cup {p} /\ UNCHANGED saved
                     ELSE /\ saved' = [saved EXCEPT ![p] = config[p]]
                          /\ miscopied' = miscopied \ {p}
  /\ Goto(i, "empty config")
  /\ UNCHANGED <<settings, config, emptied, wrapper, sourced, calls, memory, history>>

EmptyConfig(i) ==
  /\ at[i] = "empty config"
  /\ emptied' = emptied \cup {Head(left[i])}
  /\ Goto(i, "fill config")
  /\ UNCHANGED <<settings, config, saved, miscopied, wrapper, sourced, calls, memory, history>>

(* What another call has filled since is overwritten, but its end may stay. *)
FillConfig(i) ==
  LET p == Head(left[i]) IN
  /\ at[i] = "fill config"
  /\ \/ /\ config' = [config EXCEPT ![p] = Rewritten(i)]
        /\ emptied' = emptied \ {p}
     \/ /\ p \notin emptied
        /\ emptied' = emptied \cup {p} /\ UNCHANGED config
  /\ left' = [left EXCEPT ![i] = Tail(@)]
  /\ Hold(i, None)
  /\ Goto(i, IF calls[i].kind = "configure" THEN "hooks" ELSE "done")
  /\ UNCHANGED <<settings, saved, miscopied, wrapper, sourced, calls, previous, patch, history>>

InstallEditorAdapters(i) ==
  /\ at[i] = "editors"
  /\ patch' = [patch EXCEPT ![i] = [onboarding_complete |-> TRUE,
                                    automatic_terminal_agents |-> calls[i].selected]]
  /\ left' = [left EXCEPT ![i] = Filtered(terminalAdapters, calls[i].selected)]
  /\ previous' = [previous EXCEPT ![i] = {}]
  /\ Goto(i, "merge")
  /\ UNCHANGED <<files, calls, base, history>>

(***************************************************************************)
(* Any of these steps may fail, the extension's directory may be missing   *)
(* even if no editor is selected, and what was done before stays.  A copy  *)
(* or a configuration that is being written may be left cut short.         *)
(***************************************************************************)
StepFails(i) ==
  LET p == Head(left[i]) IN
  /\ at[i] \in {"shell", "rc", "read config", "back up", "empty config", "fill config", "editors",
               "diagnose", "merge", "truncate", "write"}
  /\ \/ UNCHANGED <<emptied, miscopied>>
     \/ at[i] = "back up" /\ miscopied' = miscopied \cup {p} /\ UNCHANGED emptied
     \/ at[i] = "fill config" /\ emptied' = emptied \cup {p} /\ UNCHANGED miscopied
  /\ Goto(i, "stopped")
  /\ Forget({i})
  /\ Notes({"failed"})
  /\ UNCHANGED <<settings, config, saved, wrapper, sourced, edits, asked, users, byHand>>
----------------------------------------------------------------------------
(***************************************************************************)
(* diagnoseIntegration: the configuration is only found in order if it     *)
(* parses and its handlers run the launcher.  The settings are read once   *)
(* for the earlier diagnoses and once more by the write.                   *)
(***************************************************************************)
Diagnosis(p) ==
  IF p \notin emptied /\ Valid(config[p], cliLauncherTarget) THEN {"ready", "needs_attention"} ELSE {"needs_attention"}

RunDiagnostic(i) ==
  /\ at[i] = "diagnose"
  /\ \E status \in Diagnosis(Head(left[i])) : Hold(i, status)
  /\ Goto(i, "note")
  /\ UNCHANGED <<files, calls, previous, left, patch, history>>

NoteDiagnosis(i) ==
  /\ at[i] = "note"
  /\ patch' = [patch EXCEPT ![i] = [last_diagnostics |->
       [readIntegrationSettings.last_diagnostics EXCEPT ![Head(left[i])] = base[i]]]]
  /\ Goto(i, "merge")
  /\ Notes(ClashIf(i) \cup TornIf)
  /\ UNCHANGED <<files, calls, previous, left, base, edits, asked, users, byHand>>

(* writeIntegrationSettings: the file is read, then emptied and written. *)
Merge(i) ==
  /\ at[i] = "merge"
  /\ Hold(i, readIntegrationSettings)
  /\ Goto(i, "truncate")
  /\ Notes(ClashIf(i) \cup TornIf)
  /\ UNCHANGED <<files, calls, previous, left, patch, edits, asked, users, byHand>>

Truncate(i) ==
  /\ at[i] = "truncate"
  /\ settings' = Torn
  /\ Goto(i, "write")
  /\ UNCHANGED <<hookFiles, wrapper, sourced, calls, memory, history>>

Write(i) ==
  LET diagnosis == "last_diagnostics" \in DOMAIN patch[i]
      p == Head(left[i])
      rest == IF diagnosis THEN Tail(left[i]) ELSE left[i]
  IN
  /\ at[i] = "write"
  /\ settings' = mergeIntegrationSettings(base[i], patch[i])
  /\ asked' = IF diagnosis
              THEN [asked EXCEPT !.last_diagnostics[p] = patch[i].last_diagnostics[p]]
              ELSE [field \in DOMAIN asked |->
                      IF field \in DOMAIN patch[i] THEN patch[i][field] ELSE asked[field]]
  /\ left' = [left EXCEPT ![i] = rest]
  /\ patch' = [patch EXCEPT ![i] = None] /\ Hold(i, None)
  /\ Goto(i, IF rest = <<>> THEN "done" ELSE "diagnose")
  /\ UNCHANGED <<hookFiles, wrapper, sourced, calls, previous, edits, users, byHand, trouble>>
----------------------------------------------------------------------------
(* uninstallShellIntegration: the rc file's line, then the wrapper itself. *)
StripRc(i) ==
  /\ at[i] = "strip"
  /\ sourced' = FALSE
  /\ Goto(i, "disable")
  /\ UNCHANGED <<settings, hookFiles, wrapper, calls, memory, history>>

DisableWrapper(i) ==
  /\ at[i] = "disable"
  /\ wrapper' = {}
  /\ Goto(i, "done")
  /\ UNCHANGED <<settings, hookFiles, sourced, calls, memory, history>>
----------------------------------------------------------------------------
(* The user adds a group, adds a handler to Memora's group, or drops that. *)
Beside(groups) == Append(groups, {User})
Among(groups) ==
  [i \in DOMAIN groups |-> IF NotMemoras(<<groups[i]>>) = <<>> THEN groups[i] \cup {User} ELSE groups[i]]

EditConfig(p) ==
  /\ Bounded /\ p \notin emptied
  /\ edits' = edits + 1
  /\ \E event \in Expected :
       LET groups == GroupsOf(config[p], event) IN
       \E edited \in {Beside(groups), Among(groups), NotMemoras(groups)} \ {groups} :
         /\ config' = [config EXCEPT ![p] =
              [e \in DOMAIN @ \cup {event} |-> IF e = event THEN edited ELSE @[e]]]
         /\ byHand' = byHand \cup {q \in {p} : edited = NotMemoras(groups)}
  /\ users' = [users EXCEPT ![p] = removeMemoraHooks(config'[p])]
  /\ Notes({t \in {"raced"} : \E i \in Call : Rewriting(i) /\ Head(left[i]) = p})
  /\ UNCHANGED <<settings, emptied, saved, miscopied, wrapper, sourced, calls, at, memory, asked>>

(* The user puts the copy in the place of a configuration that does not parse. *)
RestoreConfig(p) ==
  /\ Bounded /\ p \in emptied \ miscopied
  /\ edits' = edits + 1
  /\ config' = [config EXCEPT ![p] = saved[p]]
  /\ emptied' = emptied \ {p}
  /\ byHand' = byHand \cup {p}
  /\ Notes({t \in {"raced"} : \E i \in Call : Rewriting(i) /\ Head(left[i]) = p})
  /\ UNCHANGED <<settings, saved, miscopied, wrapper, sourced, calls, at, memory, asked, users>>

(* A command of the CLI that the desktop runs, when the desktop is gone. *)
CommandOf(i) ==
  IF Installs(i) THEN [kind |-> "install", provider |-> Head(left[i]), cli |-> cliScript]
                 ELSE [kind |-> "uninstall", provider |-> Head(left[i]), cli |-> None]

(* The desktop quits: its handlers end where they are, the CLI it runs does not. *)
Quit ==
  LET stopped == {i \in Call : Active(i) /\ InDesktop(i)}
      orphaned == {i \in stopped : Rewriting(i)}
  IN
  /\ stopped # {}
  /\ calls' = [i \in Call |-> IF i \in orphaned THEN CommandOf(i)
                             ELSE IF i \in stopped THEN None ELSE calls[i]]
  /\ at' = [i \in Call |-> IF i \in stopped \ orphaned THEN "stopped" ELSE at[i]]
  /\ previous' = [i \in Call |-> IF i \in stopped THEN {} ELSE previous[i]]
  /\ left' = [i \in Call |-> IF i \in orphaned THEN <<Head(left[i])>>
                            ELSE IF i \in stopped THEN <<>> ELSE left[i]]
  /\ base' = [i \in Call |-> IF i \in stopped \ orphaned THEN None ELSE base[i]]
  /\ patch' = [i \in Call |-> IF i \in stopped THEN None ELSE patch[i]]
  /\ Notes({"failed"})
  /\ UNCHANGED <<files, edits, asked, users, byHand>>

BeginCall(i) ==
  \/ \E selected \in SUBSET Provider : Configure(i, selected)
  \/ \E p \in Provider : Diagnose(i, p) \/ RunByHand(i, "uninstall", p, None)
  \/ \E p \in Provider, cli \in CliPath : RunByHand(i, "install", p, cli)
  \/ \E level \in Level : SetReadingLevel(i, level)
  \/ UninstallShell(i)

CallStep(i) ==
  \/ ReadPrevious(i) \/ WriteShellIntegration(i) \/ AppendSourceLine(i) \/ NextAgent(i)
  \/ ReadConfig(i) \/ BackUpConfig(i) \/ EmptyConfig(i) \/ FillConfig(i)
  \/ InstallEditorAdapters(i) \/ StepFails(i) \/ RunDiagnostic(i) \/ NoteDiagnosis(i)
  \/ Merge(i) \/ Truncate(i) \/ Write(i) \/ StripRc(i) \/ DisableWrapper(i)

CNext ==
  \/ \E i \in Call : BeginCall(i) \/ CallStep(i)
  \/ \E p \in Provider : EditConfig(p) \/ RestoreConfig(p)
  \/ Quit

CSpec == CInit /\ [][CNext]_cvars
----------------------------------------------------------------------------
CTypeOK ==
  /\ settings \in {None, Torn, Older} \cup Settings
  /\ asked \in Settings
  /\ config = [p \in Provider |-> config[p]] /\ saved = [p \in Provider |-> saved[p]]
  /\ \A p \in Provider : Configuration(config[p], Handler) /\ Configuration(saved[p], Handler)
  /\ emptied \subseteq Provider /\ miscopied \subseteq Provider
  /\ wrapper \subseteq Provider /\ sourced \in BOOLEAN
  /\ left \in [Call -> Seq(Provider)] /\ previous \in [Call -> SUBSET Provider]
  /\ at \in [Call -> Ended \cup {"new", "previous", "shell", "rc", "hooks", "read config", "back up",
                      "empty config", "fill config", "editors", "diagnose", "note", "merge", "truncate", "write",
                      "strip", "disable"}]
  /\ trouble \subseteq {"clash", "crossed", "mingled", "torn", "failed", "raced", "unwrapped"}

Idle == \A i \in Call : ~Active(i)

(***************************************************************************)
(* "A write can never silently drop another feature's setting"             *)
(* (main.ts:158): the settings are those of all writes, one after the      *)
(* other, if no two writes overlapped from reading to writing and none     *)
(* read the file while it was empty, being written or left so.             *)
(***************************************************************************)
SettingsKept ==
  trouble \cap {"clash", "torn"} = {} /\ settings # Torn => readIntegrationSettings = asked

(***************************************************************************)
(* Hooks are where the settings say: at rest, an agent that is connected   *)
(* has one handler for each event, that of the desktop's CLI, and another  *)
(* has none, whatever was connected before and whatever the user added,    *)
(* unless a step failed, connecting overlapped with itself or with another *)
(* write, or the user changed the hooks by hand.  The shell wraps          *)
(* only agents that are connected.  And whatever fails, dies or overlaps,  *)
(* groups that are the user's alone are in the configuration, unless one   *)
(* was added while the CLI rewrote; if it is cut short, they are in the    *)
(* copy, "good enough to hand-restore from" (hookConfig.ts:106), unless    *)
(* the CLI rewrote it twice at a time.                                     *)
(***************************************************************************)
HooksAsSelected ==
  LET agents == readIntegrationSettings.automatic_terminal_agents IN
  /\ Idle /\ trouble \subseteq {"raced", "unwrapped"} =>
       /\ \A p \in Provider \ byHand :
            /\ p \notin emptied
            /\ p \in agents => Valid(config[p], cliScript)
            /\ p \notin agents => removeMemoraHooks(config[p]) = config[p]
       /\ wrapper \subseteq agents /\ (wrapper = {} \/ sourced \/ "unwrapped" \in trouble)
  /\ "raced" \notin trouble =>
       \A p \in Provider :
         IF p \notin emptied THEN removeMemoraHooks(config[p]) = users[p]
         ELSE "mingled" \notin trouble => p \notin miscopied /\ removeMemoraHooks(saved[p]) = users[p]

(***************************************************************************)
(* "Reinstall this integration from Memora Agent connections"              *)
(* (integrationDiagnostic.ts:304): once an agent has been connected anew,  *)
(* with nothing else going on, the diagnosis finds its configuration in    *)
(* order.  It does not: it looks for the launcher, the hooks run the       *)
(* script (main.ts:193 and :99).                                           *)
(***************************************************************************)
ReinstallHelps ==
  \A i \in Call :
    at[i] = "done" /\ calls[i].kind = "configure" /\ (\A j \in Call \ {i} : at[j] = "new") =>
      \A p \in calls[i].selected : Valid(config[p], cliLauncherTarget)
=============================================================================
