------------------------ MODULE DaemonLifecycleProofs ------------------------
(***************************************************************************)
(* Proofs about DaemonLifecycle, for any commands of any kind, any number  *)
(* of pids, polls and faults.                                              *)
(***************************************************************************)
EXTENDS DaemonLifecycle, FiniteSetTheorems, TLAPS

USE DEF vars, files, daemons, spools, commands, history, Goto, See, RemovePidfile, Live, Fault

(***************************************************************************)
(* Commands in turn.  A daemon at work is the one the pidfile names, or    *)
(* the command that started it is about to write its pid there; and a      *)
(* command that starts one or removes the pidfile has seen that there is   *)
(* none.                                                                   *)
(***************************************************************************)
OneUnderWay == \A a, b \in Command : UnderWay(a) /\ UnderWay(b) => a = b

Registers(c, d) == pc[c] \in {"truncate", "write"} /\ hand[c] = d

Tracked ==
  \A d \in Daemon : proc[d] \in AtWork => pidfile = d \/ \E c \in Command : Registers(c, d)

NoneToStart == \A c \in Command : pc[c] \in {"spawn", "truncate", "write"} => pidfile \notin Daemon

OwnFile == \A c \in Command : pc[c] = "write" => c \in writers

ClosingNamed == \A d \in Daemon : proc[d] = "closing" => pidfile = d

SeenOnFile ==
  \A c \in Command :
    pc[c] \in {"check", "signal"} => seen[c] \in Daemon /\ pidfile \in {seen[c], None}

NoneToRemove ==
  \A c \in Command : pc[c] \in {"unlink", "remove"} => \A d \in Daemon : proc[d] \notin AtWork

(* What a command has in hand has lived; a stop has nothing before its signal. *)
InHand ==
  \A c \in Command :
    /\ pc[c] \in {"truncate", "write"} => hand[c] \in Daemon
    /\ hand[c] # None => proc[hand[c]] # "none"
    /\ Kind[c] = "stop" /\ polls[c] = 0 => hand[c] = None
    /\ pc[c] \in {"spawn", "truncate", "write", "cleanup"} => Kind[c] # "stop"
    /\ pc[c] = "signal" => polls[c] = 0
    /\ Kind[c] = "stop" /\ pc[c] = "done" /\ hand[c] # None => proc[hand[c]] \notin AtWork

TurnInv ==
  /\ OneUnderWay /\ Tracked /\ NoneToStart /\ OwnFile /\ ClosingNamed /\ SeenOnFile
  /\ NoneToRemove /\ InHand

(***************************************************************************)
(* Commands that overlap.  Until there is trouble no daemon ends, and a    *)
(* hook that has handed its event over is on its way to starting a daemon  *)
(* unless there is one.                                                    *)
(***************************************************************************)
OnItsWay(c) == Kind[c] = "hook" /\ pc[c] \in {"read", "check", "unlink", "spawn"}

Unspoilt ==
  /\ Home \in dirs
  /\ \A d \in Daemon : proc[d] = "none" => serves[d] = Home
  /\ \A c \in Command : pc[c] = "cleanup" => Kind[c] = "diagnostic"
  /\ \A c \in Command : pc[c] \in {"check", "signal"} => seen[c] \in Daemon

AllServe == Untroubled => \A d \in Daemon : proc[d] \in {"none"} \cup Serving

EntriesServed ==
  Untroubled => Servers(Home) # {} \/ \A c \in spool : OnItsWay(c)

IInv == TypeOK /\ Unspoilt /\ AllServe /\ EntriesServed /\ (InTurn => TurnInv)
----------------------------------------------------------------------------
(* Types are kept. *)
LEMMA TypeStep == TypeOK /\ [Next]_vars => TypeOK'
<1> SUFFICES ASSUME TypeOK, [Next]_vars PROVE TypeOK'
  OBVIOUS
<1> USE KindAssumption, FaultAssumption DEF TypeOK
<1>1. \A c \in Command : SpoolOf(c) \in Directory
  BY DEF SpoolOf, Directory
<1>2. ASSUME NEW c \in Command, Begin(c) PROVE TypeOK'
  BY <1>1, <1>2 DEF Begin
<1>3. CASE Calm
  BY <1>3 DEF Calm
<1>4. ASSUME NEW c \in Command, ReadPid(c) PROVE TypeOK'
  BY <1>1, <1>4 DEF ReadPid, IfNotRunning
<1>5. ASSUME NEW c \in Command, FindRunning(c) PROVE TypeOK'
  BY <1>1, <1>5 DEF FindRunning, End
<1>6. ASSUME NEW c \in Command, FindDead(c) PROVE TypeOK'
  BY <1>1, <1>6 DEF FindDead
<1>7. ASSUME NEW c \in Command, UnlinkStale(c) PROVE TypeOK'
  BY <1>1, <1>7 DEF UnlinkStale, IfNotRunning
<1>8. ASSUME NEW c \in Command, Spawn(c) PROVE TypeOK'
  BY <1>1, <1>8 DEF Spawn, Life
<1>9. ASSUME NEW c \in Command, TruncatePidfile(c) PROVE TypeOK'
  BY <1>1, <1>9 DEF TruncatePidfile
<1>10. ASSUME NEW c \in Command, WritePidfile(c) PROVE TypeOK'
  BY <1>1, <1>10 DEF WritePidfile, End
<1>11. ASSUME NEW c \in Command, Cleanup(c) PROVE TypeOK'
  BY <1>1, <1>11 DEF Cleanup
<1>12. ASSUME NEW c \in Command, Signal(c) PROVE TypeOK'
  BY <1>1, <1>12 DEF Signal, Life, Alive
<1>13. ASSUME NEW c \in Command, PollAgain(c) PROVE TypeOK'
  BY <1>1, <1>13 DEF PollAgain
<1>14. ASSUME NEW c \in Command, GiveUp(c) PROVE TypeOK'
  BY <1>1, <1>14 DEF GiveUp
<1>15. ASSUME NEW c \in Command, RemoveAfterStop(c) PROVE TypeOK'
  BY <1>1, <1>15 DEF RemoveAfterStop
<1>16. ASSUME NEW c \in Command, Abort(c) PROVE TypeOK'
  BY <1>1, <1>16 DEF Abort, End
<1>17. ASSUME NEW d \in Daemon, Boot(d) PROVE TypeOK'
  BY <1>1, <1>17 DEF Boot, Life
<1>18. ASSUME NEW d \in Daemon, InstallHandlers(d) PROVE TypeOK'
  BY <1>1, <1>18 DEF InstallHandlers, Life
<1>19. ASSUME NEW d \in Daemon, Drain(d) PROVE TypeOK'
  BY <1>1, <1>19 DEF Drain
<1>20. ASSUME NEW d \in Daemon, LoseDirectory(d) PROVE TypeOK'
  BY <1>1, <1>20 DEF LoseDirectory, Life
<1>21. ASSUME NEW d \in Daemon, CloseDown(d) PROVE TypeOK'
  BY <1>1, <1>21 DEF CloseDown, Life
<1>22. ASSUME NEW d \in Daemon, Exit(d) PROVE TypeOK'
  BY <1>1, <1>22 DEF Exit, Life
<1>23. ASSUME NEW d \in Daemon, Die(d) PROVE TypeOK'
  BY <1>1, <1>23 DEF Die, Life
<1>24. ASSUME NEW d \in Daemon, Reuse(d) PROVE TypeOK'
  BY <1>1, <1>24 DEF Reuse, Life
<1>25. CASE UNCHANGED vars
  BY <1>25
<1> QED
  BY <1>2, <1>3, <1>4, <1>5, <1>6, <1>7, <1>8, <1>9, <1>10, <1>11, <1>12, <1>13, <1>14,
  <1>15, <1>16, <1>17, <1>18, <1>19, <1>20, <1>21, <1>22, <1>23, <1>24, <1>25
  DEF Next, CommandStep, DaemonStep

LEMMA TypeInit == Init => TypeOK
<1>1. Init => calm \in BOOLEAN
  BY DEF Init
<1>2. Init => faults \in 0..MaxFaults /\ polls \in [Command -> 0..Polls]
  BY FaultAssumption DEF Init
<1> QED
  BY <1>1, <1>2 DEF Init, TypeOK, Life, Directory
----------------------------------------------------------------------------
(* In turn, the command that acts is the only one under way. *)
LEMMA TurnCommand ==
  ASSUME TypeOK, InTurn', TurnInv, NEW c \in Command, CommandStep(c)
  PROVE  TurnInv'
<1> USE KindAssumption, NameAssumption, FaultAssumption DEF TypeOK, InTurn
<1>1. \A b \in Command \ {c} : pc[b] \in {"new", "done"}
  BY DEF TurnInv, OneUnderWay, UnderWay, CommandStep, ReadPid, FindRunning, FindDead,
         UnlinkStale, Spawn, TruncatePidfile, WritePidfile, Cleanup, Signal, PollAgain, GiveUp,
         RemoveAfterStop
<1> USE <1>1 DEF TurnInv, OneUnderWay, UnderWay, Tracked, Registers, NoneToStart, OwnFile,
                 ClosingNamed, SeenOnFile, NoneToRemove, InHand
<1>3. CASE ReadPid(c)
  <2>1. CASE pidfile \in Daemon
    BY <1>3, <2>1 DEF ReadPid
  <2>2. CASE pidfile \notin Daemon
    BY <1>3, <2>2 DEF ReadPid, IfNotRunning
  <2> QED BY <2>1, <2>2
<1>4. CASE FindRunning(c)
  BY <1>4 DEF FindRunning, End, Alive, AtWork, Serving
<1>5. CASE FindDead(c)
  BY <1>5 DEF FindDead, Alive, AtWork, Serving
<1>6. CASE UnlinkStale(c)
  BY <1>6 DEF UnlinkStale, IfNotRunning, AtWork
<1>7. CASE Spawn(c)
  BY <1>7 DEF Spawn, Alive, AtWork, Serving
<1>8. CASE TruncatePidfile(c)
  BY <1>8 DEF TruncatePidfile
<1>9. CASE WritePidfile(c)
  BY <1>9 DEF WritePidfile, End
<1>10. CASE Cleanup(c)
  BY <1>10 DEF Cleanup
<1>11. CASE Signal(c)
  BY <1>11 DEF Signal, Alive, AtWork, Serving
<1>12. CASE PollAgain(c)
  BY <1>12 DEF PollAgain, Alive, AtWork, Serving
<1>13. CASE GiveUp(c)
  <2>1. pidfile \in {seen[c], None} /\ proc[seen[c]] \notin AtWork
    BY <1>13 DEF GiveUp
  <2>2. \A d \in Daemon : proc[d] \notin AtWork
    BY <1>13, <2>1 DEF GiveUp
  <2> QED
    BY <1>13, <2>1, <2>2 DEF GiveUp
<1>14. CASE RemoveAfterStop(c)
  BY <1>14 DEF RemoveAfterStop, AtWork
<1> QED
  BY <1>3, <1>4, <1>5, <1>6, <1>7, <1>8, <1>9, <1>10, <1>11, <1>12, <1>13, <1>14
  DEF CommandStep

LEMMA TurnDaemon ==
  ASSUME TypeOK, InTurn, TurnInv, NEW d \in Daemon, DaemonStep(d) \/ Die(d) \/ Reuse(d)
  PROVE  TurnInv'
<1> USE NameAssumption DEF TypeOK, InTurn, TurnInv, OneUnderWay, UnderWay, Tracked, Registers,
        NoneToStart, OwnFile, ClosingNamed, SeenOnFile, NoneToRemove, InHand, AtWork, Serving
<1>1. CASE Boot(d)
  BY <1>1 DEF Boot
<1>2. CASE InstallHandlers(d)
  BY <1>2 DEF InstallHandlers
<1>3. CASE Drain(d)
  BY <1>3 DEF Drain
<1>4. CASE LoseDirectory(d)
  BY <1>4 DEF LoseDirectory
<1>5. CASE CloseDown(d)
  BY <1>5 DEF CloseDown
<1>6. CASE Exit(d)
  BY <1>6 DEF Exit
<1>7. CASE Die(d)
  BY <1>7 DEF Die
<1>8. CASE Reuse(d)
  BY <1>8 DEF Reuse
<1> QED
  BY <1>1, <1>2, <1>3, <1>4, <1>5, <1>6, <1>7, <1>8
  DEF DaemonStep

(* A command begins when no other is under way; none is aborted. *)
LEMMA TurnBegin ==
  ASSUME TypeOK, InTurn, TurnInv, NEW c \in Command, Begin(c) \/ Abort(c)
  PROVE  TurnInv'
<1>1. ~Abort(c)
  BY DEF Abort, InTurn
<1> DEFINE others == {b \in Command : UnderWay(b)}
<1>2. Begin(c) /\ Cardinality(others) < 1
  BY <1>1 DEF Begin, InTurn
<1>3. IsFiniteSet(others)
  BY ConcurrencyAssumption, FS_Subset
<1>4. others = {}
  <2>1. Cardinality(others) \in Nat /\ (Cardinality(others) = 0 <=> others = {})
    BY <1>3, FS_CardinalityType, FS_EmptySet
  <2> HIDE DEF others
  <2> QED
    BY <1>2, <2>1
<1>5. \A b \in Command : pc[b] \in {"new", "done"}
  BY <1>4 DEF UnderWay
<1> QED
  BY <1>2, <1>5 DEF TypeOK, Begin, TurnInv, OneUnderWay, UnderWay, Tracked, Registers, NoneToStart,
              OwnFile, ClosingNamed, SeenOnFile, NoneToRemove, InHand

LEMMA TurnInit == Init => TurnInv
  BY DEF Init, TurnInv, OneUnderWay, UnderWay, Tracked, Registers, NoneToStart, OwnFile,
         ClosingNamed, SeenOnFile, NoneToRemove, InHand, AtWork, Serving
----------------------------------------------------------------------------
(* What every step leaves in order, whatever overlaps and goes wrong. *)
LEMMA UnspoiltStep ==
  ASSUME TypeOK, Unspoilt, Next
  PROVE  Unspoilt'
<1> USE NameAssumption, KindAssumption DEF TypeOK, Unspoilt
<1>1. ASSUME NEW c \in Command, Begin(c) PROVE Unspoilt'
  BY <1>1 DEF Begin
<1>2. CASE Calm
  BY <1>2 DEF Calm
<1>3. ASSUME NEW c \in Command, ReadPid(c) PROVE Unspoilt'
  BY <1>3 DEF ReadPid, IfNotRunning
<1>4. ASSUME NEW c \in Command, FindRunning(c) PROVE Unspoilt'
  BY <1>4 DEF FindRunning, End
<1>5. ASSUME NEW c \in Command, FindDead(c) PROVE Unspoilt'
  BY <1>5 DEF FindDead
<1>6. ASSUME NEW c \in Command, UnlinkStale(c) PROVE Unspoilt'
  BY <1>6 DEF UnlinkStale, IfNotRunning
<1>7. ASSUME NEW c \in Command, Spawn(c) PROVE Unspoilt'
  BY <1>7 DEF Spawn
<1>8. ASSUME NEW c \in Command, TruncatePidfile(c) PROVE Unspoilt'
  BY <1>8 DEF TruncatePidfile
<1>9. ASSUME NEW c \in Command, WritePidfile(c) PROVE Unspoilt'
  BY <1>9 DEF WritePidfile, End
<1>10. ASSUME NEW c \in Command, Cleanup(c) PROVE Unspoilt'
  BY <1>10 DEF Cleanup
<1>11. ASSUME NEW c \in Command, Signal(c) PROVE Unspoilt'
  BY <1>11 DEF Signal
<1>12. ASSUME NEW c \in Command, PollAgain(c) PROVE Unspoilt'
  BY <1>12 DEF PollAgain
<1>13. ASSUME NEW c \in Command, GiveUp(c) PROVE Unspoilt'
  BY <1>13 DEF GiveUp
<1>14. ASSUME NEW c \in Command, RemoveAfterStop(c) PROVE Unspoilt'
  BY <1>14 DEF RemoveAfterStop
<1>15. ASSUME NEW c \in Command, Abort(c) PROVE Unspoilt'
  BY <1>15 DEF Abort, End
<1>16. ASSUME NEW d \in Daemon, Boot(d) PROVE Unspoilt'
  BY <1>16 DEF Boot
<1>17. ASSUME NEW d \in Daemon, InstallHandlers(d) PROVE Unspoilt'
  BY <1>17 DEF InstallHandlers
<1>18. ASSUME NEW d \in Daemon, Drain(d) PROVE Unspoilt'
  BY <1>18 DEF Drain
<1>19. ASSUME NEW d \in Daemon, LoseDirectory(d) PROVE Unspoilt'
  BY <1>19 DEF LoseDirectory
<1>20. ASSUME NEW d \in Daemon, CloseDown(d) PROVE Unspoilt'
  BY <1>20 DEF CloseDown
<1>21. ASSUME NEW d \in Daemon, Exit(d) PROVE Unspoilt'
  BY <1>21 DEF Exit
<1>22. ASSUME NEW d \in Daemon, Die(d) PROVE Unspoilt'
  BY <1>22 DEF Die
<1>23. ASSUME NEW d \in Daemon, Reuse(d) PROVE Unspoilt'
  BY <1>23 DEF Reuse
<1> QED
  BY <1>1, <1>2, <1>3, <1>4, <1>5, <1>6, <1>7, <1>8, <1>9, <1>10, <1>11, <1>12, <1>13,
  <1>14, <1>15, <1>16, <1>17, <1>18, <1>19, <1>20, <1>21, <1>22, <1>23
  DEF Next, CommandStep, DaemonStep

(* Until there is trouble: a pid that is found alive is that of a daemon  *)
(* that serves, and a hook that finds none alive goes on to start one.    *)
LEMMA ServedStep ==
  ASSUME TypeOK, Unspoilt, AllServe, EntriesServed, Next
  PROVE  AllServe' /\ EntriesServed'
<1> USE NameAssumption, KindAssumption, FaultAssumption
    DEF TypeOK, Unspoilt, AllServe, EntriesServed, Untroubled, OnItsWay, Servers, Serving
<1>1. ASSUME NEW c \in Command, Begin(c) PROVE AllServe' /\ EntriesServed'
  BY <1>1 DEF Begin
<1>2. CASE Calm
  BY <1>2 DEF Calm
<1>3. ASSUME NEW c \in Command, ReadPid(c) PROVE AllServe' /\ EntriesServed'
  BY <1>3 DEF ReadPid, IfNotRunning
<1>4. ASSUME NEW c \in Command, FindRunning(c) PROVE AllServe' /\ EntriesServed'
  BY <1>4 DEF FindRunning, End, Alive
<1>5. ASSUME NEW c \in Command, FindDead(c) PROVE AllServe' /\ EntriesServed'
  BY <1>5 DEF FindDead
<1>6. ASSUME NEW c \in Command, UnlinkStale(c) PROVE AllServe' /\ EntriesServed'
  BY <1>6 DEF UnlinkStale, IfNotRunning
<1>7. ASSUME NEW c \in Command, Spawn(c) PROVE AllServe' /\ EntriesServed'
  BY <1>7 DEF Spawn, SpoolOf
<1>8. ASSUME NEW c \in Command, TruncatePidfile(c) PROVE AllServe' /\ EntriesServed'
  BY <1>8 DEF TruncatePidfile
<1>9. ASSUME NEW c \in Command, WritePidfile(c) PROVE AllServe' /\ EntriesServed'
  BY <1>9 DEF WritePidfile, End
<1>10. ASSUME NEW c \in Command, Cleanup(c) PROVE AllServe' /\ EntriesServed'
  BY <1>10 DEF Cleanup
<1>11. ASSUME NEW c \in Command, Signal(c) PROVE AllServe' /\ EntriesServed'
  BY <1>11 DEF Signal, Alive
<1>12. ASSUME NEW c \in Command, PollAgain(c) PROVE AllServe' /\ EntriesServed'
  BY <1>12 DEF PollAgain
<1>13. ASSUME NEW c \in Command, GiveUp(c) PROVE AllServe' /\ EntriesServed'
  BY <1>13 DEF GiveUp
<1>14. ASSUME NEW c \in Command, RemoveAfterStop(c) PROVE AllServe' /\ EntriesServed'
  BY <1>14 DEF RemoveAfterStop
<1>15. ASSUME NEW c \in Command, Abort(c) PROVE AllServe' /\ EntriesServed'
  BY <1>15 DEF Abort, End
<1>16. ASSUME NEW d \in Daemon, Boot(d) PROVE AllServe' /\ EntriesServed'
  BY <1>16 DEF Boot
<1>17. ASSUME NEW d \in Daemon, InstallHandlers(d) PROVE AllServe' /\ EntriesServed'
  BY <1>17 DEF InstallHandlers
<1>18. ASSUME NEW d \in Daemon, Drain(d) PROVE AllServe' /\ EntriesServed'
  BY <1>18 DEF Drain
<1>19. ASSUME NEW d \in Daemon, LoseDirectory(d) PROVE AllServe' /\ EntriesServed'
  BY <1>19 DEF LoseDirectory
<1>20. ASSUME NEW d \in Daemon, CloseDown(d) PROVE AllServe' /\ EntriesServed'
  BY <1>20 DEF CloseDown
<1>21. ASSUME NEW d \in Daemon, Exit(d) PROVE AllServe' /\ EntriesServed'
  BY <1>21 DEF Exit
<1>22. ASSUME NEW d \in Daemon, Die(d) PROVE AllServe' /\ EntriesServed'
  BY <1>22 DEF Die
<1>23. ASSUME NEW d \in Daemon, Reuse(d) PROVE AllServe' /\ EntriesServed'
  BY <1>23 DEF Reuse
<1> QED
  BY <1>1, <1>2, <1>3, <1>4, <1>5, <1>6, <1>7, <1>8, <1>9, <1>10, <1>11, <1>12, <1>13,
  <1>14, <1>15, <1>16, <1>17, <1>18, <1>19, <1>20, <1>21, <1>22, <1>23
  DEF Next, CommandStep, DaemonStep

LEMMA ServedInit == Init => Unspoilt /\ AllServe /\ EntriesServed
  BY DEF Init, Unspoilt, AllServe, EntriesServed, Directory
----------------------------------------------------------------------------
(***************************************************************************)
(* Every reachable state has the types of TypeOK: pids, commands and       *)
(* directories are what daemon.ts and cli.ts write where they write them.  *)
(***************************************************************************)
THEOREM TypeCorrect == Spec => []TypeOK
  BY TypeInit, TypeStep, PTL DEF Spec

(***************************************************************************)
(* The inductive invariant of the pidfile and the processes around it.     *)
(***************************************************************************)
THEOREM Invariance == Spec => []IInv
<1>1. Init => IInv
  BY TypeInit, TurnInit, ServedInit DEF IInv
<1>2. IInv /\ [Next]_vars => IInv'
  <2> SUFFICES ASSUME IInv, [Next]_vars PROVE IInv'
    OBVIOUS
  <2>1. CASE Next
    <3>1. TypeOK' /\ Unspoilt' /\ AllServe' /\ EntriesServed'
      BY <2>1, TypeStep, UnspoiltStep, ServedStep DEF IInv
    <3>2. InTurn' => InTurn
      BY <2>1 DEF InTurn, Next, CommandStep, DaemonStep, Begin, ReadPid, FindRunning, FindDead,
         UnlinkStale, Spawn, TruncatePidfile, WritePidfile, Cleanup, Signal, PollAgain, GiveUp,
         RemoveAfterStop, Abort, Boot, InstallHandlers, Drain, LoseDirectory, CloseDown, Exit,
         Die, Reuse, Calm
    <3>3. ASSUME InTurn' PROVE TurnInv'
      <4>1. CASE Calm
        BY <3>2, <3>3, <4>1 DEF Calm, IInv, TurnInv, OneUnderWay, UnderWay, Tracked, Registers,
           NoneToStart, OwnFile, ClosingNamed, SeenOnFile, NoneToRemove, InHand
      <4>2. CASE ~Calm
        BY <2>1, <3>2, <3>3, <4>2, TurnCommand, TurnDaemon, TurnBegin DEF Next, IInv
      <4> QED
        BY <4>1, <4>2
    <3> QED
      BY <3>1, <3>2, <3>3 DEF IInv
  <2>2. CASE UNCHANGED vars
    BY <2>2 DEF IInv, TypeOK, Unspoilt, AllServe, EntriesServed, Untroubled, Servers, OnItsWay,
           InTurn, TurnInv, OneUnderWay, UnderWay, Tracked, Registers, NoneToStart, OwnFile,
           ClosingNamed, SeenOnFile, NoneToRemove, InHand
  <2> QED
    BY <2>1, <2>2
<1> QED
  BY <1>1, <1>2, PTL DEF Spec

(***************************************************************************)
(* Commands one after the other (hooks, "memora daemon start", "stop" and  *)
(* "status", diagnostics) never leave two daemons draining the user's      *)
(* spool, whatever dies and whatever pid is reused, until a daemon         *)
(* outlasts the polls of a stop: a daemon at work is the one on file.      *)
(***************************************************************************)
THEOREM OneDaemon == Spec => []OneAfterTheOther
<1>1. IInv => OneAfterTheOther
  <2> SUFFICES ASSUME IInv, InTurn PROVE Cardinality(Servers(Home)) <= 1
    BY DEF OneAfterTheOther
  <2>1. \A d, e \in Servers(Home) : d = e
    BY NameAssumption DEF IInv, TypeOK, TurnInv, Tracked, Registers, NoneToStart, OneUnderWay,
       UnderWay, Servers, AtWork
  <2>2. CASE Servers(Home) = {}
    BY <2>2, FS_EmptySet
  <2>3. ASSUME NEW d \in Servers(Home) PROVE Cardinality(Servers(Home)) = 1
    <3>1. Servers(Home) = {d}
      BY <2>1
    <3> QED
      BY <3>1, FS_Singleton
  <2> QED
    BY <2>2, <2>3
<1> QED
  BY <1>1, Invariance, PTL

(***************************************************************************)
(* Commands one after the other: until a stop has run out of polls with    *)
(* its daemon at work, every stop has told the truth: the daemon it        *)
(* signalled is not at work any more when it prints "Daemon stopped", nor  *)
(* is it later.                                                            *)
(***************************************************************************)
THEOREM StopsEndDaemons == Spec => []StoppedHasEnded
<1>1. IInv => StoppedHasEnded
  BY DEF IInv, StoppedHasEnded, TurnInv, InHand
<1> QED
  BY <1>1, Invariance, PTL

(***************************************************************************)
(* However commands overlap: while no daemon has died or been stopped, no  *)
(* command was aborted and no diagnostic's daemon runs, an entry handed    *)
(* over by a hook has a daemon that serves it, or one is being started.    *)
(***************************************************************************)
THEOREM EntriesAreServed == Spec => []ServedUntilTrouble
<1>1. IInv => ServedUntilTrouble
  <2> SUFFICES ASSUME IInv, Untroubled, spool # {}, Servers(Home) = {}
               PROVE  \E c \in Command : Starts(c)
    BY DEF ServedUntilTrouble, HandedOverIsServed
  <2>1. PICK c \in spool : OnItsWay(c)
    BY DEF IInv, EntriesServed
  <2>2. c \in Command
    BY DEF IInv, TypeOK, Directory
  <2> QED
    BY <2>1, <2>2 DEF OnItsWay, Starts
<1> QED
  BY <1>1, Invariance, PTL
=============================================================================
