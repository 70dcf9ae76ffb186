-------------------------- MODULE MCDaemonLifecycle --------------------------
(***************************************************************************)
(* Small instances of DaemonLifecycle: a handful of commands, and a pid    *)
(* for each daemon they can start.  A command is a number; Kinds is the    *)
(* mix a run asks for.                                                     *)
(***************************************************************************)
EXTENDS DaemonLifecycle, Sequences

InAnyOrder == <<"hook", "stop", "diagnostic", "start", "status", "stop">>
HooksAndTrouble == <<"hook", "stop", "diagnostic", "hook">>

Commands6 == 1..6
Commands4 == 1..4
=============================================================================
