---------------------------- MODULE HookDelivery ----------------------------
(***************************************************************************)
(* What the hook pipeline promises the agent whose hook command returned:  *)
(* the hook stays pending until it is either in checkpointed evidence and  *)
(* retired, or set aside where "memora daemon status" counts it.  Nothing  *)
(* is delivered that was not accepted, and neither outcome is taken back.  *)
(* Delivery is at least once: a hook may be delivered before or after its  *)
(* outcome is settled, and again.                                          *)
(***************************************************************************)
CONSTANT Hook

VARIABLES
  status,    \* status[h]: "unsent", "pending", "retired" or "aside"
  delivered  \* the hooks that are in checkpointed evidence

vars == <<status, delivered>>

TypeOK ==
  /\ status \in [Hook -> {"unsent", "pending", "retired", "aside"}]
  /\ delivered \in SUBSET Hook

Init ==
  /\ status = [h \in Hook |-> "unsent"]
  /\ delivered = {}

Accept(h) ==
  /\ status[h] = "unsent"
  /\ status' = [status EXCEPT ![h] = "pending"]
  /\ UNCHANGED delivered

(* One checkpoint may deliver several hooks at once. *)
Deliver(hs) ==
  /\ \A h \in hs : status[h] # "unsent"
  /\ delivered' = delivered \cup hs
  /\ UNCHANGED status

Retire(h) ==
  /\ status[h] = "pending"
  /\ h \in delivered
  /\ status' = [status EXCEPT ![h] = "retired"]
  /\ UNCHANGED delivered

SetAside(h) ==
  /\ status[h] = "pending"
  /\ status' = [status EXCEPT ![h] = "aside"]
  /\ UNCHANGED delivered

Next ==
  \/ \E h \in Hook : Accept(h) \/ Retire(h) \/ SetAside(h)
  \/ \E hs \in SUBSET Hook : Deliver(hs)

Spec == Init /\ [][Next]_vars
=============================================================================
