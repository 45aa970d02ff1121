------------------------------- MODULE MCTask -------------------------------
(***************************************************************************)
(* Instances of Task for TLC: two tasks, like the service and a device.    *)
(***************************************************************************)
EXTENDS Task
=============================================================================
