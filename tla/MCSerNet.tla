------------------------------ MODULE MCSerNet ------------------------------
(***************************************************************************)
(* Instances of SerNet for TLC: two connections, of which the second may   *)
(* get the descriptor of the first, and two device threads that compete    *)
(* for the lock with each other and with the service thread.               *)
(***************************************************************************)
EXTENDS SerNet
=============================================================================
