----------------------------- MODULE MCSimuList -----------------------------
(***************************************************************************)
(* The instance of SimuList for TLC.                                       *)
(***************************************************************************)
EXTENDS SimuList

MCKeys == 0 .. 2
=============================================================================
