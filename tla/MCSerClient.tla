----------------------------- MODULE MCSerClient -----------------------------
(***************************************************************************)
(* Instances of SerClient for TLC: headers of 2 and 3 cells keep the order *)
(* CmdHead < AgentHead < 2 * CmdHead of the real 8 and 9, and the buffer   *)
(* holds a little more than two init packets, so that it fills up.         *)
(***************************************************************************)
EXTENDS SerClient
=============================================================================
