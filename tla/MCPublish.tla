------------------------------ MODULE MCPublish ------------------------------
(***************************************************************************)
(* Small instances of Publish: two publishes of one session, one of        *)
(* another, and the two ways to unpublish.                                 *)
(***************************************************************************)
EXTENDS Publish, TLC

CONSTANTS p1, p2, p3, u1, u2, s1, s2

Publishes == {p1, p2, p3}
KindOf ==
  [c \in Command |-> IF c \in Publishes THEN "publish"
                     ELSE IF c = u1 THEN "unpublish session" ELSE "unpublish id"]
OtherSession == [c \in Command |-> IF c = p3 THEN s2 ELSE s1]
=============================================================================
