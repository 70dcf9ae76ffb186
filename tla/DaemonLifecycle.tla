--------------------------- MODULE DaemonLifecycle ---------------------------
(***************************************************************************)
(* How the daemon that drains the hook spool comes and goes: its pidfile   *)
(* (packages/local/src/daemon.ts) and the commands that read and write it  *)
(* (packages/cli/src/cli.ts): each agent hook, which starts a daemon if it *)
(* finds none, "memora daemon start", "stop" and "status", and the hook    *)
(* the integration diagnostic runs on a spool directory of its own.        *)
(*                                                                         *)
(* Nothing but the pidfile coordinates these processes, and each reads it, *)
(* probes the process it names, removes it and writes it in separate steps.*)
(* What draining does to a spool entry is HookSpool's subject: here a      *)
(* daemon empties the directory it serves.                                 *)
(***************************************************************************)
EXTENDS Naturals, FiniteSets

CONSTANTS
  Command,       \* the runs of a command
  Kind,          \* Kind[c]: what command c is
  Daemon,        \* the pids that daemons get, one after the other
  Home,          \* the user's spool directory
  None, Empty,   \* no pidfile or pid in hand; a pidfile with nothing in it
  Polls,         \* how often stop looks whether the daemon is gone (20)
  AtOnce,        \* bound: how many commands run concurrently
  Faults,        \* the kinds of fault that may happen
  MaxFaults      \* bound: how many faults happen

ASSUME KindAssumption == Kind \in [Command -> {"hook", "start", "stop", "status", "diagnostic"}]
ASSUME NameAssumption ==
  Daemon \cup Command \subseteq Nat /\ None \notin Daemon \cup Command /\ Empty \notin Daemon /\ None # Empty /\ Home \notin Command
ASSUME FaultAssumption ==
  Polls \in Nat \ {0} /\ MaxFaults \in Nat /\ Faults \subseteq {"death", "abort", "reuse"}
ASSUME ConcurrencyAssumption == IsFiniteSet(Command) /\ AtOnce \in Nat \ {0}

VARIABLES
  pidfile,  \* its content: a pid, Empty, or None without a file
  writers,  \* the commands with the file open that is the pidfile
  proc,     \* proc[d]: the life of the process with pid d
  serves,   \* serves[d]: the spool directory that daemon drains
  dirs,     \* the spool directories that exist
  spool,    \* the hook commands whose entry waits in the user's spool
  pc,       \* pc[c]: the call command c makes next
  seen,     \* seen[c]: the pid c last read
  hand,     \* hand[c]: the daemon c has spawned or signalled
  polls,    \* polls[c]: which poll of its loop a stop is at, 0 before it
  faults,   \* number of faults so far
  outlasted, \* the daemons at work when a stop ran out of polls
  calm      \* no fault, stop or diagnostic begins from here on

files == <<pidfile, writers>>
daemons == <<proc, serves>>
spools == <<dirs, spool>>
commands == <<pc, seen, hand, polls>>
history == <<faults, outlasted, calm>>
vars == <<files, daemons, spools, commands, history>>

(***************************************************************************)
(* A process is "booting" until its spool directory is there, "starting"   *)
(* until the first drain is over, and only then has signal handlers.       *)
(* "closing" and "leaving" are the shutdown before and after it removes    *)
(* the pidfile; "reused" is the pid in the hands of an unrelated process.  *)
(***************************************************************************)
Life == {"none", "booting", "starting", "running", "closing", "leaving", "gone", "reused"}
Serving == {"booting", "starting", "running"}
AtWork == Serving \cup {"closing"}

Directory == {Home} \cup {c \in Command : Kind[c] = "diagnostic"}

(* The spool a command hands its hook to, and starts a daemon for. *)
SpoolOf(c) == IF Kind[c] = "diagnostic" THEN c ELSE Home

Goto(c, label) == pc' = [pc EXCEPT ![c] = label]
See(c, pid) == seen' = [seen EXCEPT ![c] = pid]

Init ==
  /\ pidfile = None
  /\ writers = {}
  /\ proc = [d \in Daemon |-> "none"]
  /\ serves = [d \in Daemon |-> Home]
  /\ dirs = {Home}
  /\ spool = {}
  /\ pc = [c \in Command |-> "new"]
  /\ seen = [c \in Command |-> None]
  /\ hand = [c \in Command |-> None]
  /\ polls = [c \in Command |-> 0]
  /\ faults = 0
  /\ outlasted = {}
  /\ calm = FALSE
----------------------------------------------------------------------------
UnderWay(c) == pc[c] \notin {"new", "done"}

(* A command begins, the runs of a kind in their order; a hook does by     *)
(* handing its event over, a diagnostic in a directory of its own          *)
(* (enqueueLocalHook).                                                     *)
Begin(c) ==
  /\ pc[c] = "new"
  /\ Cardinality({b \in Command : UnderWay(b)}) < AtOnce
  /\ \A b \in Command : b < c /\ Kind[b] = Kind[c] => pc[b] # "new"
  /\ calm => Kind[c] \notin {"stop", "diagnostic"}
  /\ dirs' = dirs \cup {SpoolOf(c)}
  /\ spool' = spool \cup {h \in {c} : Kind[h] = "hook"}
  /\ Goto(c, "read")
  /\ UNCHANGED <<files, daemons, seen, hand, polls, history>>

(* A diagnostic ends by removing its spool directory. *)
End(c) == IF Kind[c] = "diagnostic" THEN "cleanup" ELSE "done"

(***************************************************************************)
(* isDaemonRunning: reads the pidfile, probes the process it names, and    *)
(* removes the pidfile of a process that is gone.  What follows depends on *)
(* the command: a stop that has sent its signal is polling.                *)
(***************************************************************************)
IfNotRunning(c) ==
  CASE Kind[c] \in {"hook", "start", "diagnostic"} -> "spawn"
    [] polls[c] > 0 -> "remove"
    [] OTHER -> "done"

Alive(d) == proc[d] \notin {"none", "gone"}

ReadPid(c) ==
  /\ pc[c] = "read"
  /\ \/ /\ pidfile \in Daemon
        /\ See(c, pidfile)
        /\ Goto(c, "check")
     \/ /\ pidfile \notin Daemon
        /\ See(c, None)
        /\ Goto(c, IfNotRunning(c))
  /\ UNCHANGED <<files, daemons, spools, hand, polls, history>>

(* Mutant: a process that is gone passes for a running daemon. *)
FindRunningUnprobed(c) ==
  /\ pc[c] = "check"
  /\ polls[c] = 0
  /\ Goto(c, IF Kind[c] = "stop" THEN "signal" ELSE End(c))
  /\ UNCHANGED <<files, daemons, spools, seen, hand, polls, history>>

(* Mutant: the process is not found although it is alive. *)
FindRunningNever(c) ==
  /\ pc[c] = "check"
  /\ polls[c] = 0
  /\ Goto(c, "unlink")
  /\ UNCHANGED <<files, daemons, spools, seen, hand, polls, history>>

FindRunning(c) ==
  /\ pc[c] = "check"
  /\ polls[c] = 0
  /\ Alive(seen[c])
  /\ Goto(c, IF Kind[c] = "stop" THEN "signal" ELSE End(c))
  /\ See(c, IF Kind[c] = "stop" THEN seen[c] ELSE None)
  /\ UNCHANGED <<files, daemons, spools, hand, polls, history>>

FindDead(c) ==
  /\ pc[c] = "check"
  /\ ~Alive(seen[c])
  /\ See(c, None)
  /\ Goto(c, "unlink")
  /\ UNCHANGED <<files, daemons, spools, hand, polls, history>>

(* Whatever the path names by now is removed. *)
RemovePidfile == pidfile' = None /\ writers' = {}

UnlinkStale(c) ==
  /\ pc[c] = "unlink"
  /\ RemovePidfile
  /\ Goto(c, IfNotRunning(c))
  /\ UNCHANGED <<daemons, spools, seen, hand, polls, history>>
----------------------------------------------------------------------------
(***************************************************************************)
(* spawnDaemon: the child inherits the environment, and with it the spool  *)
(* directory of the command.  The command does not wait for it; it writes  *)
(* the pidfile, which writeFile truncates first.  A file unlinked while    *)
(* the command has it open is no longer the pidfile.                       *)
(***************************************************************************)
Spawn(c) ==
  /\ pc[c] = "spawn"
  /\ \E d \in Daemon :
       /\ proc[d] = "none" /\ \A e \in Daemon : e < d => proc[e] # "none"
       /\ proc' = [proc EXCEPT ![d] = "booting"]
       /\ serves' = [serves EXCEPT ![d] = SpoolOf(c)]
       /\ hand' = [hand EXCEPT ![c] = d]
  /\ Goto(c, "truncate")
  /\ UNCHANGED <<files, spools, seen, polls, history>>

TruncatePidfile(c) ==
  /\ pc[c] = "truncate"
  /\ pidfile' = Empty
  /\ writers' = writers \cup {c}
  /\ Goto(c, "write")
  /\ UNCHANGED <<daemons, spools, seen, hand, polls, history>>

WritePidfile(c) ==
  /\ pc[c] = "write"
  /\ pidfile' = IF c \in writers THEN hand[c] ELSE pidfile
  /\ writers' = writers \ {c}
  /\ hand' = [hand EXCEPT ![c] = None]
  /\ Goto(c, End(c))
  /\ UNCHANGED <<daemons, spools, seen, polls, history>>

(***************************************************************************)
(* The diagnostic drains its spool directory itself and removes it.        *)
(***************************************************************************)
Cleanup(c) ==
  /\ pc[c] = "cleanup"
  /\ dirs' = dirs \ {c}
  /\ Goto(c, "done")
  /\ UNCHANGED <<files, daemons, spool, seen, hand, polls, history>>
----------------------------------------------------------------------------
(* Mutant: the stop does not wait for the daemon to end. *)
SignalOnly(c) ==
  /\ pc[c] = "signal"
  /\ proc' = [proc EXCEPT ![seen[c]] = IF @ = "running" THEN "closing" ELSE @]
  /\ hand' = [hand EXCEPT ![c] = seen[c]]
  /\ Goto(c, "remove")
  /\ UNCHANGED <<files, serves, spools, seen, polls, history>>

(***************************************************************************)
(* "memora daemon stop": SIGTERM, which ends a process that has no handler *)
(* yet and is without effect on one that is shutting down; an error if the *)
(* process is gone.  Then the loop of polls, and the removal of the        *)
(* pidfile, whether or not the daemon was seen to end.                     *)
(***************************************************************************)
Signal(c) ==
  LET d == seen[c] IN
    /\ pc[c] = "signal"
    /\ \/ /\ Alive(d)
          /\ proc' = [proc EXCEPT ![d] =
                        CASE @ = "running" -> "closing"
                          [] @ \in {"closing", "leaving"} -> @
                          [] OTHER -> "gone"]
          /\ hand' = [hand EXCEPT ![c] = d]
          /\ polls' = [polls EXCEPT ![c] = 1]
          /\ Goto(c, "read")
       \/ /\ ~Alive(d)
          /\ Goto(c, "done")
          /\ UNCHANGED <<proc, hand, polls>>
    /\ See(c, None)
    /\ UNCHANGED <<files, serves, spools, history>>

PollAgain(c) ==
  /\ pc[c] = "check"
  /\ polls[c] \in 1..(Polls - 1)
  /\ Alive(seen[c])
  /\ polls' = [polls EXCEPT ![c] = @ + 1]
  /\ See(c, None)
  /\ Goto(c, "read")
  /\ UNCHANGED <<files, daemons, spools, hand, history>>

GiveUp(c) ==
  /\ pc[c] = "check"
  /\ polls[c] = Polls
  /\ Alive(seen[c])
  /\ Goto(c, "remove")
  /\ outlasted' = outlasted \cup {d \in Daemon : d = seen[c] /\ proc[d] \in AtWork}
  /\ See(c, None)
  /\ UNCHANGED <<files, daemons, spools, hand, polls, faults, calm>>

RemoveAfterStop(c) ==
  /\ pc[c] = "remove"
  /\ RemovePidfile
  /\ Goto(c, "done")
  /\ UNCHANGED <<daemons, spools, seen, hand, polls, history>>
----------------------------------------------------------------------------
Live(d, from, to) == proc[d] = from /\ proc' = [proc EXCEPT ![d] = to]

(***************************************************************************)
(* runDaemonForeground.  The directory is created at the start; a pass     *)
(* that does not find it ends the process (an unhandled rejection).        *)
(***************************************************************************)
Boot(d) ==
  /\ Live(d, "booting", "starting")
  /\ dirs' = dirs \cup {serves[d]}
  /\ UNCHANGED <<files, serves, spool, commands, history>>

(* Mutant: nothing keeps the process alive after the first drain. *)
InstallHandlersAndEnd(d) ==
  /\ serves[d] \in dirs
  /\ Live(d, "starting", "gone")
  /\ UNCHANGED <<files, serves, spools, commands, history>>

InstallHandlers(d) ==
  /\ serves[d] \in dirs
  /\ Live(d, "starting", "running")
  /\ UNCHANGED <<files, serves, spools, commands, history>>

Drain(d) ==
  /\ proc[d] \in {"starting", "running"}
  /\ serves[d] = Home /\ spool # {}
  /\ spool' = {}
  /\ UNCHANGED <<files, daemons, dirs, commands, history>>

LoseDirectory(d) ==
  /\ serves[d] \notin dirs
  /\ Live(d, "starting", "gone") \/ Live(d, "running", "gone")
  /\ UNCHANGED <<files, serves, spools, commands, history>>

(* The shutdown removes the pidfile, whichever daemon it names by then. *)
CloseDown(d) ==
  /\ Live(d, "closing", "leaving")
  /\ RemovePidfile
  /\ UNCHANGED <<serves, spools, commands, history>>

Exit(d) ==
  /\ Live(d, "leaving", "gone")
  /\ UNCHANGED <<files, serves, spools, commands, history>>
----------------------------------------------------------------------------
(***************************************************************************)
(* A daemon dies; the system gives the pid of a dead one to some other     *)
(* process; a command is killed or fails (a hook command has 30 seconds,   *)
(* and the diagnostic waits 5 for its own).                                *)
(***************************************************************************)
Fault(kind) ==
  /\ ~calm
  /\ kind \in Faults /\ faults < MaxFaults /\ faults' = faults + 1
  /\ UNCHANGED <<outlasted, calm>>

Die(d) ==
  /\ Fault("death")
  /\ proc[d] \in AtWork
  /\ proc' = [proc EXCEPT ![d] = "gone"]
  /\ UNCHANGED <<files, serves, spools, commands>>

Reuse(d) ==
  /\ Fault("reuse")
  /\ Live(d, "gone", "reused")
  /\ UNCHANGED <<files, serves, spools, commands>>

Abort(c) ==
  /\ Fault("abort")
  /\ pc[c] \notin {"new", "cleanup", "done"}
  /\ Goto(c, End(c))
  /\ See(c, None)
  /\ hand' = [hand EXCEPT ![c] = None]
  /\ UNCHANGED <<files, daemons, spools, polls>>

(* The stops and diagnostics are over, and nothing more goes wrong. *)
Calm ==
  /\ ~calm /\ calm' = TRUE
  /\ \A c \in Command : Kind[c] \in {"stop", "diagnostic"} => ~UnderWay(c)
  /\ UNCHANGED <<files, daemons, spools, commands, faults, outlasted>>

CommandStep(c) ==
  \/ ReadPid(c) \/ FindRunning(c) \/ FindDead(c) \/ UnlinkStale(c)
  \/ Spawn(c) \/ TruncatePidfile(c) \/ WritePidfile(c) \/ Cleanup(c)
  \/ Signal(c) \/ PollAgain(c) \/ GiveUp(c) \/ RemoveAfterStop(c)

DaemonStep(d) ==
  \/ Boot(d) \/ InstallHandlers(d) \/ Drain(d) \/ LoseDirectory(d)
  \/ CloseDown(d) \/ Exit(d)

Next ==
  \/ \E c \in Command : Begin(c) \/ CommandStep(c) \/ Abort(c)
  \/ \E d \in Daemon : DaemonStep(d) \/ Die(d) \/ Reuse(d)
  \/ Calm

Spec == Init /\ [][Next]_vars

(* Processes that run make progress; nothing makes a user run a command. *)
FairSpec ==
  /\ Spec
  /\ \A c \in Command : WF_vars(CommandStep(c))
  /\ \A d \in Daemon : WF_vars(DaemonStep(d))
----------------------------------------------------------------------------
TypeOK ==
  /\ pidfile \in Daemon \cup {None, Empty}
  /\ writers \in SUBSET Command
  /\ proc \in [Daemon -> Life]
  /\ serves \in [Daemon -> Directory]
  /\ dirs \in SUBSET Directory
  /\ spool \subseteq Command
  /\ pc \in [Command -> {"new", "read", "check", "unlink", "spawn", "truncate",
                         "write", "signal", "remove", "cleanup", "done"}]
  /\ seen \in [Command -> Daemon \cup {None}]
  /\ hand \in [Command -> Daemon \cup {None}]
  /\ polls \in [Command -> 0..Polls]
  /\ faults \in 0..MaxFaults
  /\ outlasted \subseteq Daemon /\ calm \in BOOLEAN

Servers(s) == {d \in Daemon : proc[d] \in Serving /\ serves[d] = s}

(***************************************************************************)
(* Commands run one after the other never leave two daemons draining the   *)
(* user's spool, even with stale pidfiles of daemons that were killed      *)
(* while they booted, until a daemon outlasts the polls of a stop: its     *)
(* shutdown would remove the pidfile of its successor.                     *)
(***************************************************************************)
InTurn == AtOnce = 1 /\ "abort" \notin Faults /\ outlasted = {}

OneAfterTheOther == InTurn => Cardinality(Servers(Home)) <= 1

(***************************************************************************)
(* "Daemon stopped", the last line of cmdDaemonStop, is true until one of  *)
(* the stops has run out of polls: the daemon that a stop signalled is     *)
(* then not at work any more, nor is it later.                             *)
(***************************************************************************)
StoppedHasEnded ==
  InTurn => \A c \in Command :
    Kind[c] = "stop" /\ pc[c] = "done" /\ hand[c] # None => proc[hand[c]] \notin AtWork

(***************************************************************************)
(* apps/desktop/src/main/main.ts:471-472: "the daemon owns draining hook   *)
(* events into the local evidence store (autostarted on first hook fire)". *)
(* An entry handed over is never left without a daemon: one serves the     *)
(* spool, or is about to be started by a command under way.                *)
(***************************************************************************)
Starts(c) == Kind[c] # "diagnostic" /\ pc[c] \in {"read", "check", "unlink", "spawn"}

HandedOverIsServed ==
  spool # {} => Servers(Home) # {} \/ \E c \in Command : Starts(c)

(***************************************************************************)
(* However commands overlap, that is so until a daemon dies or is stopped, *)
(* or serves a directory of its own under the user's pidfile.              *)
(***************************************************************************)
Untroubled ==
  /\ faults = 0
  /\ \A c \in Command : polls[c] = 0
  /\ \A d \in Daemon : serves[d] = Home

ServedUntilTrouble == Untroubled => HandedOverIsServed

(***************************************************************************)
(* Once nothing more goes wrong, however much has, and with the stops and  *)
(* diagnostics over, the next hook command gets the spool drained, its own *)
(* entry and those that were left behind, whatever pidfile it finds: none, *)
(* one with nothing in it, one of a daemon that is gone, while others      *)
(* write and remove it, and daemons that serve a directory of their own or *)
(* are shutting down are still around.  Unless the pidfile misleads it:    *)
(* the process it names is alive and does not, or not for long, serve the  *)
(* user's spool.                                                           *)
(***************************************************************************)
Misleads(d) == d \in Daemon /\ Alive(d) /\ ~(proc[d] \in Serving /\ serves[d] = Home)

TroubleOver == calm /\ ~Misleads(pidfile)

NextHookRecovers ==
  (TroubleOver /\ \E c \in Command : Kind[c] = "hook" /\ pc[c] = "read") ~> (spool = {})
=============================================================================
