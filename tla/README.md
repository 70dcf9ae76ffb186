# Memora Local: verification project

TLA+ models of `memora-local`, checked with TLC on small instances and, for the
safety properties of every component modelled, proved with TLAPS for every
instance. The modules are translated from the TypeScript sources; `PROJECT.json` maps each
definition to the lines it stands for.

## 1. The system

Memora Local records what coding agents do into a local, signed and encrypted
evidence store. An agent runs a **hook command** for each of its lifecycle
events; the command drops the event into a **spool directory** and makes sure a
**daemon** is running; the daemon **ingests** spool entries into **sessions** of
the evidence store. Other commands run an agent under capture, search, verify
and publish sessions; a desktop application configures the integrations.

| Component | Sources | State | Operations | Hard behaviour |
|---|---|---|---|---|
| Hook spool | `packages/local/src/hookTransport.ts` | spool files (`.tmp`, `.json`, `.json.failed`), one draining flag per daemon | `enqueueLocalHook`, `startLocalHookSpool` (`drain`) | several daemons on one directory, stale listings, death between ingestion and deletion |
| Hook ingestion | `packages/local/src/hookAdapter.ts` | lock directories, mapping files, sessions, search index | `ingestLocalHook`, `withLock` | lock without owner, mapping written in two steps, any call may fail |
| Daemon lifecycle | `packages/local/src/daemon.ts`, `packages/cli/src/cli.ts` | pidfile, daemon processes | autostart in `hook`, `daemon start`, `stop`, `status`, signal handling | check and act in separate steps by uncoordinated processes |
| Search index | `packages/local/src/searchIndex.ts` | one encrypted index file per session | `append` (ingestion), `ensureSearchIndexUpToDate` (search) | unlocked read-modify-write against the daemon |
| Publish | `publish.ts`, `publishClient.ts`, `publishAuth.ts`, `cli.ts` | attempt files, sign-in session, publications on the server | `publish`, `unpublish` | lost answers, retries, death between upload and record |
| Guardrail | `rules/*.ts`, `dialog/*.ts`, `cli.ts` | rules file | `evaluateGuardrail`, `loadRuleSet`, the hook command's answer | dialog longer than the agent's hook timeout, a failing enqueue, a rules file half written, a rule that throws |
| Run capture | `run.ts`, `capture.ts` | output buffer, flush chain, snapshots | `runLocalCommand`, `snapshotProject`, `diffSnapshots` | output arriving around the exit, a failing record |
| Commit verification | `cli.ts`, `checks.ts`, `verifyLight.ts`, `resolveRef.ts` | none | `verify`, `replay verify` | any of five services does not answer or disagrees |
| Integration diagnostic | `integrationDiagnostic.ts` | temporary spool and store | `runIntegrationDiagnostic` | a server that does not answer, its hook command is a real one |
| Command-line tool | `cli.ts` | none | dispatch, exit statuses | what callers go by is the status |
| Hook configuration | `hookConfig.ts` | agent settings file | `mergeMemoraHooks`, `removeMemoraHooks` | the user's groups next to Memora's |
| Desktop connections | `main.ts`, `integrationSettings.ts`, `shellIntegration.ts` | settings file, wrapper, rc file | `configureIntegrations`, `diagnoseIntegration`, `writeIntegrationSettings` | handlers overlap, a quit in the middle of a write |
| Known signers | `knownSigners.ts`, `main.ts`, `main.tsx` | trust list file | `record`, `label`, `forget` | unlocked read-modify-write by CLI and desktop |
| Desktop session view | `main.tsx`, `main.ts` | the renderer's state | refresh, select, load, reveal | calls overtake each other |
| Desktop sharing, receipts | `main.tsx`, `receiptDoc.ts`, `bundleView.ts` | none | export, receipt | - |
| Taxonomy, summary, capture tier | `eventTaxonomy.ts`, `summary.ts`, `captureTier.ts` | none | pure functions | - |
| Secret scan, labels, PTY helper, extension, registry | see `PROJECT.json` | none | text, pixels, tables | - |

How they interact: the hook command writes to the spool and to the pidfile; the
daemon polls the spool (every 250 ms) and calls ingestion; ingestion writes the
evidence store and the search index; `local search` reads the former and
rewrites the latter; publish reads the store and talks to a server; the
diagnostic runs a hook command and drains the temporary spool itself. The hook
command asks the guardrail before it hands the event over and answers after. The
desktop runs the CLI to install and uninstall hooks, and writes its own
settings; desktop and CLI write one trust list. All of
this is done by separate processes that share files and nothing else: no
component holds a lock across components, and the only lock of the program is
the `mkdir` lock of one agent session in `hookAdapter.ts`.

What makes each component correct: the pipeline must not lose a hook, must keep
one session per agent session, a linear chain and the agent's order, and must
not get stuck; the daemon must be there when an entry waits, once, and be gone
when stopped; the index must come to agree with the events; a link must open
what it names and an attempt file tell the truth; patches of settings and
signers must not be lost; a denied tool call must be denied; captured output
must be complete; a verdict must be that of its checks, and an honest event must
not be called into question; what the desktop shows must belong together.

## 2. Modules

| Module | Models | Uses |
|---|---|---|
| `HookIngest` | `ingestLocalHook` and `withLock`, one action per awaited call | - |
| `HookSpool` | `enqueueLocalHook` and the drain loop, composed with `HookIngest` | extends `HookIngest`, instance of `HookDelivery` |
| `HookDelivery` | abstract: at-least-once delivery as the agent may rely on it | - |
| `HookSpoolProofs` | theorems about `HookSpool` and their proofs | extends `HookSpool` |
| `MCHookSpool` | instances of `HookSpool` for TLC | extends `HookSpool` |
| `DaemonLifecycle` | pidfile, daemon processes and the commands that handle them | - |
| `DaemonLifecycleProofs` | theorems about `DaemonLifecycle` and their proofs | extends `DaemonLifecycle` |
| `MCDaemonLifecycle` | instances of `DaemonLifecycle` for TLC | extends `DaemonLifecycle` |
| `Publish` | `local publish` and `local unpublish`, their files, and the service they talk to | - |
| `PublishProofs` | theorems about `Publish` and their proofs | extends `Publish` |
| `MCPublish` | instances of `Publish` for TLC | extends `Publish` |
| `SearchIndex` | the index file of a session, its writers, and `local search` | - |
| `SearchIndexProofs` | theorems about `SearchIndex` and their proofs | extends `SearchIndex` |
| `MCSearchIndex` | instance of `SearchIndex` for TLC | extends `SearchIndex` |
| `Guardrail` | the rule engine, as operators | - |
| `GuardrailHook` | the hook command deciding, asking, handing over, answering | extends `Guardrail` |
| `GuardrailHookProofs` | theorems about the rule engine and the hook command, and their proofs | extends `GuardrailHook` |
| `RunCapture` | `local run` | - |
| `ReplayVerify` | `verify` and `replay verify` | - |
| `HookConfig` | merge, removal and analysis of hook groups, as operators | - |
| `Diagnostic` | `local doctor`, the desktop's connection test | extends `HookConfig` |
| `Cli` | `main`: dispatch and exit statuses of the four above | extends `RunCapture`, `ReplayVerify`, `Diagnostic`, `GuardrailHook` |
| `CliProofs` | theorems about `Cli` and the commands it runs, and their proofs | extends `Cli`, `GuardrailHookProofs` |
| `MCCli` | instance of `Cli` for TLC | extends `Cli` |
| `Connections` | the desktop's settings, wrapper and hooks, with the CLI commands beside it | extends `HookConfig` |
| `ConnectionsProofs` | theorems about `Connections` and `HookConfig`, and their proofs | extends `Connections` |
| `KnownSigners` | receipts of others and the trust list | - |
| `SessionView` | what the desktop shows of a session that is being recorded | - |
| `MCDesktop` | the three together, and an instance for TLC | extends them |
| `DesktopProofs` | theorems about `KnownSigners`, `SessionView` and the three together, and their proofs | extends `MCDesktop`, `ConnectionsProofs` |

### The hook pipeline

*State.* `pc[p]` is the call daemon `p` awaits next, in `drain` or inside
`ingestLocalHook`; `hook`, `attempts`, `lid` and `known` are that call's locals
(`known` is the number of events the `LocalSession` object in hand knows of:
`record` chains to it, wherever the session is by then). `locked[m]`,
`mapping[m]` are the lock directory and the mapping file of an agent session,
with `Torn` for a file truncated and not yet written. `events`, `index`, `ckpt`
are the evidence of a local session. `file[h]` is where the entry of hook `h`
is, `todo[p]` what is left of the listing of `p`'s pass.

*Actions.* One per awaited call, in the order of the source: `TakeLock` and
`LockBusy` (`mkdir`), `Resume` / `NoMapping` (reading the mapping), `Start`,
`TruncateMapping`, `BindMapping`, `Record`, `AppendIndex`, `Checkpoint`,
`Unlock`; `Fail` is a call failing under the lock, which leaves through the
`finally`. In the spool: `WriteTemporary`, `Publish`, `CommandFails`;
`ListEntries`, `SkipEntry`, `RefuseEntry`, `ReadEntry`, `DeleteEntry`,
`DeleteFails`, `MoveAside`, `PassDone`. `Crash` is a daemon's death at any point;
a daemon that is told to stop while it ingests dies in the same way, because
its `process.exit` does not wait for the pass.

*Abstractions.* A hook is its file name: names start with the time, so they are
ordered by the clock, and `Precedes` says which hooks the agent runs one after
the other. Session ids are drawn fresh from `LocalId`. `record`, `start` and
`checkpoint` of the external `LocalSession` either happen or fail. A payload
above 5 MB is a `CommandFails`. A directory is listed atomically. The extra
event that `start` records is left out, and so is an `EEXIST` thrown from inside
the critical section (`withLock` would take it for a held lock and run the
section again). A failing `readdir` ends the daemon
(unhandled rejection) and is a `Crash`. If renames fail *and* a call after
`record` fails, the same entry is recorded again on every pass without bound;
the runs do not combine the two.

### The daemon's life

*State.* `pidfile` is its content, with `Empty` between the two halves of
`writeFile`; `writers` are the commands whose open file still is the pidfile
(an unlink separates the two); `proc[d]` is the life of the process with pid
`d`, `serves[d]` the directory it drains. `pc[c]`, `seen[c]`, `hand[c]` and
`polls[c]` are the locals of command `c`.

*Actions.* `ReadPid`, `FindRunning` / `FindDead` and `UnlinkStale` are
`isDaemonRunning`; `Spawn`, `TruncatePidfile`, `WritePidfile` are `spawnDaemon`;
`Signal`, `PollAgain`, `GiveUp`, `RemoveAfterStop` are `daemon stop`; `Boot`,
`InstallHandlers`, `Drain`, `LoseDirectory`, `CloseDown`, `Exit` are
`runDaemonForeground`. `Cleanup` is the diagnostic removing its directory.
Faults: a daemon dies, a dead daemon's pid is reused, a command is aborted.
`AtOnce` bounds how many commands overlap. The ghost `outlasted` holds the daemons
that were still at work when a stop ran out of polls (`GiveUp`), and `calm` is set,
at any moment or never (`Calm`), by a behaviour in which no further fault, stop or
diagnostic begins; the code's actions read neither but for that.

*Abstractions.* `Drain` empties the directory at once: what happens to each
entry is `HookSpool`'s subject, which allows any number of daemons to come and
go at any time and so covers every history of `DaemonLifecycle`. The sleep
between two polls is not timed: any daemon may outlast them all. `rm` of the
diagnostic's directory succeeds.

### Publishing

*State.* `pc[c]` is the call command `c` makes next, or how it ended; `id[c]` is
the attempt or publication it has in hand, `saving[c]` the state of the attempt
that it saves next. `attempt[s]` is the attempt file of a session: the record
written last and the length of the text, which disagree when a shorter text was
written over a longer one; `writers[s]` are the commands that have this very
file open (unlinking it separates them). `signIn` is the sign-in file. `stored`
is the service, by idempotency key; `shown` records which links the user has
seen, `overlapped` whether commands ever ran at once, and `last[s]` which publish
wrote the attempt file of `s` last.

*Actions.* `BeginPublish` is the scan, the size limit and the confirmation;
`LoadSignIn`, `Poll`, `OpenSignIn`, `WriteSignIn` are `ensurePublishLogin`;
`Resolve`, `OpenAttempt`, `WriteAttempt` are `resolvePublishAttempt` and the three
saves of an attempt (`PREPARED`, `UPLOADING`, `PUBLISHED`); `Post`,
`RequestFails`, `ShowLink` end a publish. `BeginUnpublish`, `LookUp`,
`NamePublication`, `Delete`, `Clear` are `unpublish`, which ends `"refused"` where
nobody is signed in (`cli.ts:449`) or the attempt file names no publication
(`cli.ts:454`). `Die` is a command killed, or one whose own file write fails, at any
point.

*Abstractions.* An artifact and an attempt id are named for the run that made
them: both are drawn at random. What matters of a digest is when two agree. The
service is external: it stores once per idempotency key and answers with one id
per key, so the id is the key. A request that is refused, or does not get there,
or whose answer is lost ends the command alike; only the last changes `stored`.
Sign-in files have one length, since their tokens do. Which bundle or session is
published, its scan and its size are one nondeterministic choice.

### Searching

*State.* `events[s]` are the events of a session, `index[s]` the ids in its index
file, or `Unreadable`; `append[s]` is the append that the holder of the session's
lock is in; `pc`, `todo`, `hand`, `results` and `skipped` are the locals of a
search, `before` what was recorded when it began.

*Actions.* `RecordHook`, `ReadForAppend`, `WriteAppend` and `AppendFails` are the
daemon's side (`record` and `append`), `RecordRun` an event of `local run`, which
indexes nothing. `BeginSearch`, `ReadEvents`, `UseIndex`, `Backfill`,
`WriteIndex`, `EndSearch` and `SearchFails` are
`cmdLocalSearch` with `ensureSearchIndexUpToDate`. `Damage` is an index file lost
or unreadable.

*Abstractions.* An event is the number it is recorded as; its text either
matches or not. Index files are replaced by a rename, and appear whole.

### The command-line tool

`Cli` is one run of one command, begun by `main`, whose exit status the property
`ExitTellsTruth` compares with what became of the command. The components of the
commands that do not run stay in their initial states. The commands:

- `RunCapture`: `local run`. The process is one event loop, so a callback is one
  action: `Arrive` (data), `Tick` (the flush timer), `Exit`; between them the
  awaited `record` calls of the flush chain (`RecordOutput`, `OutputFails`), in
  the order in which they were chained. The child is outside: it prints, edits
  files and exits, and its exit may be told before its last output. Both ways to
  start it are there (`SpawnPty`, `SpawnPipes`). `snapshotProject` and
  `diffSnapshots` are operators over what each file holds. Resizing, and typing
  that is forwarded, are left out.
- `ReplayVerify`: `verify` and `replay verify`, one action per check. Each source
  may not answer, and may differ from what was signed; `MaxDiffer` bounds how
  many do. The model keeps the checks that failed (of those that pass, only
  whether the operator's signature was confirmed). The moment the signer is judged
  at may be the event's own, another, or no date at all (`Judgement`). Cryptography
  is external: the operator's signature verifies what the operator signed and nothing
  else; the agent's is verified under the key the commit names, so another key's
  passes on anything (`AgentPasses`).
- `Diagnostic`: `local doctor`, also the desktop's connection test, one action
  per check, with the Codex app server that answers, in the shape expected or in
  another, exits or says nothing, and its timer. `HookConfig` holds the operators on configurations: a group is the
  set of its handlers, one of Memora's is the path of the CLI it runs.
- `GuardrailHook`: the hook commands an agent runs side by side, while the user
  saves other rules. `CheckRules`, `TruncateRules`, `WriteRules` and
  `ScaffoldFails` are the scaffold of a missing file, `LoadRules` and `Evaluate`
  the decision, `DialogCloses` the user's answer or the dialog giving up after
  60 s, `Enqueue` and its failures the hand-over, `Answer` the output. The agent
  is external: it waits 30 s (`AgentGivesUp`), and runs the tool unless it was
  told not to. Where `MEMORA_GUARDRAIL_DISABLED` is set, no call is decided upon.
  `Guardrail` holds the rule engine as operators: a subject is a
  name, a pattern the set of subjects it matches, or `Broken`.

### The desktop

- `Connections`: handlers of the main process, interleaved at every await, with
  the commands that install and uninstall hooks and the shell wrapper, which the
  desktop spawns and the user runs. `at[i]` is the call that handler or command
  `i` awaits; `previous`, `left`, `base` and `patch` are its locals. In the order
  of the source: `ReadPrevious`, `WriteShellIntegration` (the wrapper),
  `AppendSourceLine` (the rc file), per agent `ReadConfig`, `BackUpConfig`,
  `EmptyConfig` and `FillConfig`, `InstallEditorAdapters`; `RunDiagnostic`,
  `NoteDiagnosis`; `Merge`, `Truncate`, `Write` of the settings. `StepFails` is a
  call that throws, and leaves a copy or a configuration that was being written cut
  short, or not; `Quit` ends the handlers and leaves the command they spawned
  running, as a command of its own (`CommandOf`). `config[p]` is an agent's
  configuration as last written in full, `emptied` the agents whose file has been
  cut short since, `saved[p]` the copy beside it and `miscopied` the agents whose
  copy is cut short. `EditConfig` is the user's own hook put beside Memora's or into
  its group, `RestoreConfig` the user putting the copy in the place of a
  configuration that does not parse. The ghosts `asked`, `users`, `byHand` and
  `trouble` say what was asked last, which groups are the user's, what was installed
  by hand, and what failed or overlapped. What a diagnosis finds is a choice here and
  the subject of `Diagnostic` there. A missing configuration counts as an empty one,
  and its copy too; the wrapper is written in one step.
- `KnownSigners`: `Read`, `OpenTemp`, `WriteTemp`, `Rename` of the trust list by
  the desktop's handlers, which share one temporary file because its name is
  made of the pid, and by `local verify-bundle` processes, and the receipt view
  that asks for them. `KillProcess` may happen in between. The ghosts `meant` and
  `verified` say what the user asked for.
- `SessionView`: a call of a handler is begun, answered from the store as it then
  is, and its answer taken up, each in its own time. An effect's clean-up sets
  `active` to false for the loads of a selection that has gone.

`MCDesktop` runs them as one instance. They share no state, so a behaviour is one
of one part: interleaving them would multiply the states and add no outcome.

## 3. Runs

Bounds are chosen so that each hazard listed in `PROJECT.json` can happen:
two daemons are enough for every race on a lock, a mapping or an entry, because
the lock and the entries are per agent session and a third process only repeats
what the second does; three hooks give one session a predecessor, a successor
and a neighbour; `MaxAttempts` is 1 or 2 instead of 100 so that giving up
happens; `LocalId` is as large as the number of sessions that can be started, so
that no run stops for want of an id.

| Run | Checks | Shows |
|---|---|---|
| `spool_two_daemons` | `TypeOK`, `MutualExclusion`, `LinearChain`, `OneSessionPerMapping`, `AgentOrder` | two daemons, three hooks of two sessions, one death anywhere |
| `spool_io_errors` | `LockHasHolder`, `IInv`, `ImplementsDelivery` | every call of the handler may fail, two daemons, one death |
| `spool_stuck_files` | `DeletedOnlyIfDelivered`, `LoneDaemonGivesUpOnInvalid` | failing mapping reads and renames, a malformed request, two deaths |
| `spool_liveness` | `SpoolDrains` | failing checkpoints, locks left behind by a death or a failed removal |
| `daemon_in_turn` | `OneAfterTheOther`, `StoppedHasEnded` | a hook, start, two stops, status and diagnostic one after the other in any order, deaths, reused pids, daemons that outlast a stop |
| `daemon_recovery` | `ServedUntilTrouble`, `NextHookRecovers` | two hooks, a stop and a diagnostic, any two overlapping, a death or an aborted command, daemons that outlast a stop |
| `publish_links` | `LinkOpens`, `AttemptIsTrue`, `NoLastingTrouble` | three publishes of two sessions and two unpublishes, overlapping in any way, with deaths and lost answers |
| `search_index` | `SearchIsComplete`, `ReportedOnce`, `IndexHeals` | two searches against hooks and runs that record, one damaged file |
| `cli_commands` | `TypeOK`, `ExitTellsTruth`, `CommandEnds`; of `local run` `OutputConserved`, `CapturedToTheExit`, `ChangesOnRecord`; of `verify` `SignedIsConfirmed`, `HonestIsConsistent`, `TimelineIsHistory`; of `local doctor` `HealthIsEarned`; of `local hook` `RunsOnlyIfLet`, `EvidenceOfDenials`, `ProtectsItself` | one run of each command with every outcome of what it calls, and two hook commands side by side |
| `desktop` | `TypeOK`, `SettingsKept`, `HooksAsSelected`, `SignersKept`, `ShownBelongs`, `ShownGrows` | two handlers or commands, three updates of the trust list, a session view whose calls overtake each other |
| `desktop_reinstall` | `ReinstallHelps` *(violated)* | a fresh connection is diagnosed as one to install again |
| `desktop_forget` | `ForgottenStaysForgotten` *(violated)* | a forgotten device is back on the list |

The largest, `daemon_recovery`, `publish_links`, `cli_commands` and `desktop`, have
one to two million states.

*Bounds of the later runs.* `search_index`: two sessions, two events, two
searches, so that an append can fall between the read and the rename of either
search and a search can overtake another; one fault. `cli_commands`: three pieces
of output, the second of which fills the buffer, so that one can wait in the
buffer, one in the chain and one in the pipe when the child exits; two files, one
with a secret's name; up to two deviations from what was signed and up to two
updates of the signer's policy, for one before and one after the event; two hooks
and one save of the rules. `daemon_in_turn`: three pids and two faults;
`daemon_recovery`: three pids, two commands at a time and one fault, which is the
death or abort that a later hook finds, since daemons that outlast a stop or lose
their directory need no fault. `desktop`: two handlers, commands or edits of the
user (`MaxCalls` bounds them together, so that one command can come upon what
another, or a quit, has left cut short), any number of quits; three requests for two
signers, so that one process can be in the middle of two; one kill; two sessions,
two refreshes and two loads under way, so that an older answer can come after a
newer one, and one event, which is enough for a late answer to take it away or to
show another session's (with two events the run holds as well, but takes twice as
many states of the view).

*Premises.* Some properties hold only where the code makes them hold; the
hazards they leave are in `PROJECT.json`. `IndexHeals` speaks of a search during
which nothing is recorded or appended, because append and backfill overwrite each
other's file; `SettingsKept` of times without overlapping or torn writes;
`SignersKept` promises an earned list always, and that no update is lost only
without overlapping ones; `HooksAsSelected` and `ServedUntilTrouble` say what counts
as trouble. `OneSessionPerMapping` assumes mapping reads that succeed.
`OneAfterTheOther` and `StoppedHasEnded` speak of commands in turn, until a stop runs
out of polls with its daemon at work. `NextHookRecovers` speaks of every moment from
which on no fault, stop or diagnostic begins, whatever happened before, unless the
pidfile then names a live process that does not serve the user's spool.
`NoLastingTrouble` speaks of commands in turn of which none died in the middle of a
write, and lets `unpublish --session` be refused where the latest publish did not
come to its link. `HonestIsConsistent` lets an honest event be a concern if its
parents or its signer's history cannot be read or there is no consensus time to judge
it by; `SignedIsConfirmed` takes the operator's signature, with `--signer`, as the
proof, not the agent's. That the user's groups are in the copy if the configuration
is cut short is left out of `HooksAsSelected` where two rewrites of it overlapped.
`RunsOnlyIfLet` and `ProtectsItself` speak of calls that the hook command answers.

*Disagreements with a document or a comment.* The two violated runs state what
the application tells its user; the findings in `PROJECT.json` quote it. Others
were met while the code was modelled, and have no run of their own:

- a hook that is delivered again is recorded and indexed again
  (`hookAdapter.ts:82`), the local-search design document says once per event;
- two hooks that overlap start two daemons on one spool (`cli.ts:522`), the race
  "across processes" because of which the desktop does not drain
  (`main.ts:471-473`);
- the diagnostic's hook command starts a daemon on the diagnostic's spool and
  writes the user's pidfile (`integrationDiagnostic.ts:214`), so that the user's
  next hook starts none until it has ended;
- a publish that is retried after a lost answer encrypts with a fresh key, so that
  the digest differs and the first upload is never withdrawn
  (`publishClient.ts:35-37`);
- `unpublish --session` withdraws the latest publication of a session only
  (`cli.ts:457`, `:464`);
- an entry that one daemon has recorded can be set aside by another, and `daemon
  status` counts it as "failed to ingest";
- a failing read of a mapping counts as "first event" (`hookAdapter.ts:66`) and
  splits the agent session;
- a pid that the system has given to another process passes for the daemon
  (`daemon.ts:54`), although `isDaemonRunning`'s comment says a dead daemon is
  always detected;
- `daemon stop` reports "Daemon stopped" for one that is still shutting down
  (`cli.ts:615`), and a daemon started then loses its pidfile when the old one gets
  to removing "its" own (`daemon.ts:146`);
- the diagnostic's daemon that boots after the diagnostic has removed its directory
  makes it anew and stays, under the user's pidfile (`integrationDiagnostic.ts:237`);
- `unpublish --session` says "no publication found" (`cli.ts:455`) after a publish
  whose answer was lost, although an earlier link of the session still opens: the
  attempt in progress has taken the place of the published one;
- an attempt file or sign-in file that a death left cut short, or two writes mingled,
  never parses again, and nothing in the code repairs it (`publishClient.ts:32`);
- the agent's signature on a commit passes under whatever key the commit names
  (`cli.ts:1256`, `:1267`): it is never compared with the `agent_signer` of the index
  that the signer's timeline was checked for (`cli.ts:1097`);
- without a consensus time the signer is judged at the time of creation or the
  present, and a time that does not parse finds every policy not in force yet
  (`cli.ts:1100-1112`): an honest event is then told to be a concern;
- an answer of Codex's with `data` that is no list is dropped after the timer was
  cleared (`integrationDiagnostic.ts:170-180`): `local doctor` ends without a word and
  with success, and the desktop's test never ends;
- a configuration that a rewrite left cut short does not parse, and all later
  commands fail on it until the user repairs it. The copy, "good enough to
  hand-restore from" (`hookConfig.ts:106`), is good then, unless two rewrites
  overlapped, of which the later copies what the earlier has just emptied;
- a user's rule whose pattern is no regular expression makes the hook command throw
  (`engine.ts:25`), and so does a failing hand-over of a denied call (`cli.ts:516`):
  the agent runs the tool;
- settings read while they are being written are merged from the defaults
  (`main.ts:157-160`), and what they held is lost;
- a hook of the user's that was put into Memora's group is removed with it
  (`hookConfig.ts:67-71`);
- when a receipt is verified, the answer to a request that was abandoned by
  "Verify another" appears all the same; details that are revealed late are added
  to the session selected since (`main.tsx:323`), and a refresh every two seconds
  starts the load again, so that one that takes longer never shows.

Deadlock is checked in the spool runs. The other runs switch it off: when all
commands and handlers are done nothing is left to do.

*Fairness.* `SpoolDrains` assumes weak fairness of each live daemon's steps: its
timer ticks and its awaited file operations return or fail. It assumes nothing
of hook commands, and a dead daemon need not come back: the property is
conditional on one that stays up. `NextHookRecovers` assumes weak fairness of
the steps of commands under way and of live daemons, not that anybody runs a
command. `IndexHeals` assumes it of each search's own awaited calls, not of the
daemon's. `CommandEnds` assumes it of the command under way: the event loop goes
on, timers fire, requests are answered or fail. Nothing makes a child exit, its
output arrive or Codex answer; the property is about the commands, and the
phases of `local run`, that the program bounds itself.

## 4. Proofs

`HookSpoolProofs` proves for every number of daemons, hooks, sessions, deaths and
any set of failing calls, from the assumptions named in `HookIngest` and
`HookSpool` (a hook has a well-formed input, names are numbers that respect
`Precedes`, `None` and `Torn` are not ids):

- `TypeCorrect`: `TypeOK`.
- `Invariance`: the inductive invariant `IInv`. The safety properties are not
  inductive by themselves: mutual exclusion needs that a process in the critical
  section holds the lock (`HolderLocked`); linear chains need that whoever has a
  session in hand is alone with it (`SessionsExclusive`) and knows all of its
  events (`KnowsAll`), which needs that mappings name different sessions
  (`MappingsNameSessions`); no loss needs that a hook past its checkpoint is
  delivered (`RecordedInHand`); the agent's order needs that a pass has its
  entries in turn and that whatever precedes a listed entry is listed or settled
  (`InTurn`, `ListedInOrder`).
- `LockExcludes`, `ChainsAreLinear`, `SessionsCorrespond`, `NoHookIsLost`,
  `EvidenceInAgentOrder`, `LocksAreGivenBack`: the safety properties of the runs.
- `OnlyInvalidAside`: one daemon alone that never dies sets aside only requests
  that are not valid (`LoneDaemonGivesUpOnInvalid`). What throws in its handler is
  the taking of a lock, a call that may fail, or the request; alone it holds no
  lock when it asks for one (`LockHasHolder`), and the calls that may fail here are
  none of the handler's. Such a run is stated as any two processes being the
  same, so that the set of processes need not be known to be finite.
- `PipelineDelivers`: `HookSpool` implements `HookDelivery`; every step is an
  `Accept`, `Deliver`, `Retire`, `SetAside` or a stutter.

The proof of the invariant splits the steps in two. `IngestStep` changes the
evidence and one daemon's locals and leaves the spool alone (`IngestStepInv` and
its companions); the other steps of a daemon (`Outside`) leave the evidence
alone, and preserve `IngestInv` whatever they do to the spool (`OutsideInv`).

`PublishProofs` proves, for any commands of any kind about any sessions,
overlapping or not, from `KindAssumption` and `NoneAssumption`:

- `LinksOpen`: a link opens what it names. Invariant: a publish has its own
  attempt in hand (`OwnAttempt`), even one it takes up again, because a saved
  attempt with its digest is its own (`SavedAttempts`); so the service holds
  artifacts under the attempts of the runs that made them (`OwnArtifact`).
- `AttemptsAreTrue`: `PUBLISHED` is saved only once the answer is there.
- `TroubleDoesNotLast`: the action property `NoLastingTrouble`. Invariant: without
  overlap one command is under way (`OneAtATime`), and what does not parse is being
  written by it (`UnreadableWhileWritten`), so that no other comes upon it; once
  there is a link somebody is signed in (`SignedIn`), and the attempt file of a
  session whose latest publish came to its link says so (`OnFile`).
- `Invariance`: all of these and the types.

Without overlap is a premise the code does not enforce: two publishes of one
session can leave an attempt file that never parses again, and so can a death in
the middle of a write. Nothing in the code repairs such a file.

`DaemonLifecycleProofs` proves, for any commands of any kind, any number of pids,
polls and faults, from the assumptions in `DaemonLifecycle` (the markers `None`
and `Empty` are no pids):

- `OneDaemon`, `StopsEndDaemons`: `OneAfterTheOther` and `StoppedHasEnded`, of
  commands that run in turn, until one of the stops runs out of polls with its daemon
  at work; of what it then prints they say nothing. Invariant `TurnInv`: one command is under way; a
  daemon at work is the one the pidfile names, or is about to be written there by
  the command that started it (`Tracked`); a command that starts one, or removes
  the pidfile, has seen that there is none (`NoneToStart`, `NoneToRemove`); what it
  has read is still what the file says (`SeenOnFile`).
- `EntriesAreServed`: `ServedUntilTrouble`, of commands that overlap. Until there is
  trouble no daemon ends (`AllServe`), and a hook that has handed its event over is
  on its way to starting one unless there is one (`EntriesServed`).
- `TypeCorrect`, and `Invariance` for all of these together.

`SearchIndexProofs` proves, for any sessions, searches side by side, events,
limits and damaged files:

- `SearchesAreComplete`, `NothingTwice`: `SearchIsComplete` and `ReportedOnce`.
  Invariant: an index has no id twice and none of another session (`Indexed`),
  also the one a writer has in hand (`AtSession`); what is found of a session is
  reported once, when its turn has come (`Reports`); and each event recorded before
  the search began is reported, or of a session still ahead, unless the limit is
  reached (`Covers`). `AmongProperties` and its companions say what filtering and
  appending do to a list of any length.

`GuardrailHookProofs` proves, for any tool calls, rules files, saves and number of
hook commands, from the shapes of calls and rules that `GuardrailHook` assumes:

- `DecisionOfCall`: what the rule engine decides for any list of rules, a block
  if any rule that matches blocks, otherwise the strictest.
- `BlockedIsDenied`, `DenialsOnRecord`, `RulesProtected`: `RunsOnlyIfLet`,
  `EvidenceOfDenials` and `ProtectsItself`. Invariant: the outcome in hand is that
  of the decision under the rules in hand (`Settled`), the evidence is that
  outcome once the event is handed over (`Handed`), an agent has given up only on a
  dialog (`Agents`), and the rules in hand protect the file they come from unless a
  saved file dropped that (`Shielded`), whatever moment of a save was read.

`CliProofs` proves, for any pieces of output, files and contents, parents, sources
that answer or not, and hooks beside it. It assumes that the parents of an event
and the pieces of output are finitely many, and that the times of the chain's
blocks do not go back (`LogsAssumption`):

- `OutputKept`, `CapturedToExit`, `ChangesRecorded`: `OutputConserved`,
  `CapturedToTheExit` and `ChangesOnRecord`. Invariant: buffer, flush chain and
  record hold all output in its order; what had come in when the exit was told is
  on record or in flushes that are awaited (`AccountedFor`); the differences of
  the snapshots are on record but for those left to do (`Compared`).
- `SignedConfirmed`, `HonestConsistent`, `Timeline`: `SignedIsConfirmed`,
  `HonestIsConsistent` and `TimelineIsHistory`. Invariant until the verdict: while
  nothing differs only what could not be read, or judged at the event's time, counts
  against it (`Honest`), and an operator's signature that passed covers what the index
  says (`Covered`).
  `Timeline` compares the code's reading of the policy log with its history for
  every log, not only for those of the runs.
- `HealthEarned`: `HealthIsEarned`. Each check that was made has left what it
  found or a failure (`Checked`, `Concluded`).
- `ExitsAreTrue`: `ExitTellsTruth`. An exit status is tied to the state its
  command ended in (`MainTold`, `HooksTold`), in which nothing changes any more.
- `TypeCorrect` and `Invariance` for the whole tool: a step of it is a step of one
  of the four components or leaves them alone (`StepOfParts`).

`ConnectionsProofs` proves, for any agents, events, paths of the CLI, calls, edits
and quits. It assumes that the user's own handler is no CLI path
(`PathAssumption`), that a missing or torn file is neither settings nor a status
(`ApartAssumption`), and that before Memora is installed no configuration has
handlers of Memora's and each event listed has a group (`UsersAssumption`):

- `MergedIs`, `RemovedIs`: what `mergeMemoraHooks` and `removeMemoraHooks` make of
  any configuration: one handler of Memora's for each event, or none, and the
  user's groups as they were. `EditedIs` says the same of the user's edit.
- `SettingsAreKept`: `SettingsKept`. While writes are in turn one is under way, and
  it has read all that was asked before it (`InOrder`).
- `HooksWhereSelected`: `HooksAsSelected`. One connection is under way at most
  (`OneAtATime`); before it begins and after it has set the settings, hooks and
  wrapper are as the settings say, and on the way those of the agents seen to are
  as selected (`OnTheWay`). A rewrite keeps the user's groups because what it has
  in hand still has them (`UsersKept`), and while the file is cut short the copy has
  them (`CopiesKept`), because the one rewrite under way made it before.
- `ConnectionsTypes` and `ConnectionsInvariance`. The proof has one lemma per
  action; what a step leaves alone is dealt with once (`OneStep`), by saying for
  which parts of the invariant it is quiet.

`DesktopProofs` proves, for any keys, names, requests and kills, and for any
sessions, events, refreshes and loads, from constants that are apart from the
records they stand beside (`KnownSignersAssumption`, `SessionViewAssumption`):

- `TrustIsEarned`: `SignersKept`. Every list, on file, in a temporary file or in
  hand, is earned (`AllEarned`): a verification not yet read into the list is
  credit that no list has used. Without overlap the one update under way has in
  hand what it makes of the list as it still is (`Alone`).
- `ShownTogether`: `ShownBelongs`. One load is wanted, of the session selected
  (`OneWanted`); it was begun after what is shown was read (`Newer`); what is
  decrypted belongs to it (`DetailsOfSelected`).
- `EventsStay`: the action property `ShownGrows`, an answer that comes late takes
  no event away.
- `SignersTypes`, `SessionTypes`, `SignersInvariance`, `SessionInvariance`; and
  `DesktopTypes`, the types of the three parts put together.

*Induction along lists.* Filters and joins are recursive functions on 0..n; that
such a function exists and has a property up to n is proved from the
well-ordering of the naturals (lemma `UpTo` in three of the modules), since
induction theorems that take a predicate cannot be used here.

Only model-checked: the liveness properties `SpoolDrains`, `NextHookRecovers`,
`IndexHeals` and `CommandEnds`, because TLAPS has no rules for fairness and
ENABLED here, and the two properties that runs show to be violated. Every
invariant and action property of the passing runs is the subject of a theorem.

## 5. Plan

Done: every component listed as modelled has its module, its run and theorems for
the safety properties that the run checks.

What may follow, in this order:

1. Refinements beside that of the pipeline: `SearchIndex` and `Publish` against
   abstract specifications of what a user of them may rely on.
2. Action properties for the daemon and for publishing: a pidfile is only replaced
   by its owner in turn, a confirmed attempt is never taken back.
3. The composition of the session view with sharing, for the receipt that may name
   an older export; it needs an abstraction that keeps the run small.

Liveness stays with TLC.

## 6. Not modelled

- *Sharing and receipts* (`main.tsx`, `receiptDoc.ts`, `bundleView.ts`): an export
  is one call behind a save dialog, whose result is a file for somebody else; a
  receipt is formatting. The receipt that is offered next may name an older export
  (`main.tsx:62`), which a composition with the session view would show; that
  composition leaves the reach of a run.
- *Labels and view models* of the desktop, *taxonomy and summary*, *capture tier*:
  pure functions from events to wording, without state, with unit tests.
- *Secret scan*: regular expressions over text; its outcome is a choice in
  `Publish`.
- *PTY helper*, *adapter registry*: a file mode and tables.
- *Editor extension*: runs hook commands, which `HookSpool` has, and keeps no state.
- *`init`, `sessions`, `show`, `export`, `gc`, `status`* of the CLI: single reads
  or writes of the external store.
- The external `@memora-hq` libraries are modelled only as the code here uses them;
  text and HTML formatting, packaging and CI are not modelled.
