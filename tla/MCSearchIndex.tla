---------------------------- MODULE MCSearchIndex ----------------------------
(***************************************************************************)
(* Small instances of SearchIndex.                                         *)
(***************************************************************************)
EXTENDS SearchIndex, TLC
=============================================================================
