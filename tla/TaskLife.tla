------------------------------ MODULE TaskLife ------------------------------
(***************************************************************************)
(* What the task library promises of a task, with no lock, no sleep and no *)
(* handlers: a task changes its state in single steps while its thread is  *)
(* alive; once aborted it changes it no more; its thread ends for no other *)
(* reason, and it quits behind its thread.  The cluster is released when   *)
(* every task has quit.  Task is shown to implement this.                  *)
(***************************************************************************)

CONSTANT Tasks

VARIABLES
    state,    \* of every task
    alive,    \* the tasks that have a thread
    released  \* the cluster is gone

vars == <<state, alive, released>>

Init ==
    /\ state = [t \in Tasks |-> "IDLE"]
    /\ alive = {}
    /\ released = FALSE

-----------------------------------------------------------------------------
Working(t) == t \in alive /\ state[t] \in {"IDLE", "PREP", "RUNNING"}

Start(t) ==
    /\ t \notin alive /\ state[t] = "IDLE"
    /\ alive' = alive \cup {t}
    /\ UNCHANGED <<state, released>>

Change(t) ==
    /\ Working(t)
    /\ \E new \in {"PREP", "RUNNING"} : state' = [state EXCEPT ![t] = new]
    /\ UNCHANGED <<alive, released>>

Abort(t) ==
    /\ Working(t)
    /\ state' = [state EXCEPT ![t] = "ABORT"]
    /\ UNCHANGED <<alive, released>>

Exit(t) ==
    /\ t \in alive /\ state[t] = "ABORT"
    /\ alive' = alive \ {t}
    /\ UNCHANGED <<state, released>>

Quit(t) ==
    /\ t \notin alive /\ state[t] = "ABORT"
    /\ state' = [state EXCEPT ![t] = "QUIT"]
    /\ UNCHANGED <<alive, released>>

Release ==
    /\ \A t \in Tasks : state[t] = "QUIT"
    /\ released' = TRUE
    /\ UNCHANGED <<state, alive>>

Next == Release \/ \E t \in Tasks : Start(t) \/ Change(t) \/ Abort(t) \/ Exit(t) \/ Quit(t)

Spec == Init /\ [][Next]_vars

=============================================================================
