------------------------------ MODULE MCDesktop ------------------------------
(***************************************************************************)
(* A small instance of the desktop's three parts: the connections, the     *)
(* receipts of others, and the session that is shown.  They share neither  *)
(* files nor the renderer's state, so a behaviour is one of any of them.   *)
(***************************************************************************)
EXTENDS Connections, KnownSigners, SessionView, TLC

VARIABLE part

Agents == <<"codex", "claude">>
OneHasHooks == {[p \in Provider |->
  IF p = "codex" THEN <<>> ELSE [event \in Expected |-> <<{User}>>]]}

Init ==
  /\ part \in {"connections", "receipts", "session"}
  /\ CInit /\ SInit /\ VInit
  /\ part # "connections" => settings = None

Next ==
  /\ UNCHANGED part
  /\ \/ part = "connections" /\ CNext /\ UNCHANGED <<svars, vvars>>
     \/ part = "receipts" /\ SNext /\ UNCHANGED <<cvars, vvars>>
     \/ part = "session" /\ VNext /\ UNCHANGED <<cvars, svars>>

Spec == Init /\ [][Next]_<<part, cvars, svars, vvars>>

(* The parts that do not act are as they were. *)
TypeOK ==
  CASE part = "connections" -> CTypeOK
    [] part = "receipts" -> STypeOK
    [] part = "session" -> VTypeOK
=============================================================================
