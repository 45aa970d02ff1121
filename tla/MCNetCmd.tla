------------------------------ MODULE MCNetCmd ------------------------------
(***************************************************************************)
(* Instances of NetCmd for TLC.  Two ticks in a second, so that a command  *)
(* can be written late in one and checked early in the next; timeouts of   *)
(* 1 s and 3 s keep the order 2 * Period < CmdTimeout of the real 3 s and  *)
(* 10 s.                                                                   *)
(***************************************************************************)
EXTENDS NetCmd, TLC

CONSTANT w1

\* Between them two tasks call everything: a "command" is a "mode" that does not
\* succeed.
CallsOf == [w \in Tasks |-> IF w = w1 THEN {"mode"} ELSE {"version", "conf"}]

Symmetry == Permutations(Bufs)
=============================================================================
