----------------------------- MODULE MCCmdAgent -----------------------------
(***************************************************************************)
(* Instances of CmdAgent for TLC: three devices for two entries, so that   *)
(* the list fills up, and two allocations more than there are entries, so  *)
(* that two registrations fail after theirs.                               *)
(***************************************************************************)
EXTENDS CmdAgent, TLC

Symmetry == Permutations(Devices)
=============================================================================
