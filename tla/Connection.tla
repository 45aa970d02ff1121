----------------------------- MODULE Connection -----------------------------
(***************************************************************************)
(* What netcom.c promises to the tasks that share a connection: an object  *)
(* has one connection at a time, none that has ended comes back, and as    *)
(* long as a task's data is on its way into a connection nobody exchanges  *)
(* it or ends it; only a disconnect and the release do not wait.           *)
(* Tasks are let in by what was last heard of a connection (open), which   *)
(* may have been another than the present one.  Locks, pointers and the    *)
(* event loop are gone.  NetLink is shown to implement this.               *)
(***************************************************************************)
EXTENDS Naturals

CONSTANTS
    Writers,  \* the tasks
    None

VARIABLES
    object,  \* is there an object?
    made,    \* connections made so far; they are numbered
    cur,     \* the one the object has, or None
    state,   \* of that: "connecting", "up" or "down"
    open,    \* was "up" the last that was heard?
    user,    \* the task that is let in, or None
    target,  \* the connection its data goes into, or None
    lost     \* connections that objects were released with

vars == <<object, made, cur, state, open, user, target, lost>>

Init ==
    /\ object = FALSE
    /\ made = 0
    /\ cur = None /\ state = None /\ open = FALSE
    /\ user = None /\ target = None
    /\ lost = {}

Make ==
    /\ ~ object
    /\ object' = TRUE
    /\ UNCHANGED <<made, cur, state, open, user, target, lost>>

\* Does not wait for the task that is let in.
Release ==
    /\ object
    /\ object' = FALSE /\ cur' = None /\ state' = None /\ open' = FALSE
    /\ user' = None /\ target' = None
    /\ lost' = lost \cup ({cur} \ {None})
    /\ UNCHANGED made

-----------------------------------------------------------------------------
\* A new connection takes the place of the old one ...
Connect ==
    /\ object /\ user = None
    /\ made' = made + 1
    /\ cur' = made + 1 /\ state' = "connecting"
    /\ UNCHANGED <<object, open, user, target, lost>>

\* ... or could not be made, and the old one is gone nevertheless.
ConnectFails ==
    /\ object /\ user = None
    /\ cur' = None /\ state' = None
    /\ UNCHANGED <<object, made, open, user, target, lost>>

ComeUp ==
    /\ state = "connecting" /\ user = None
    /\ state' = "up" /\ open' = TRUE
    /\ UNCHANGED <<object, made, cur, user, target, lost>>

End ==
    /\ state \in {"connecting", "up"} /\ user = None
    /\ state' = "down" /\ open' = FALSE
    /\ UNCHANGED <<object, made, cur, user, target, lost>>

\* Does not wait for the task that is let in.
Disconnect ==
    /\ cur # None
    /\ cur' = None /\ state' = None
    /\ user' = None /\ target' = None
    /\ UNCHANGED <<object, made, open, lost>>

-----------------------------------------------------------------------------
Enter(w) ==
    /\ open /\ cur # None /\ user = None
    /\ user' = w /\ target' = cur
    /\ UNCHANGED <<object, made, cur, state, open, lost>>

Leave ==
    /\ user # None
    /\ user' = None /\ target' = None
    /\ UNCHANGED <<object, made, cur, state, open, lost>>

Next ==
    \/ Make \/ Release
    \/ Connect \/ ConnectFails \/ ComeUp \/ End \/ Disconnect
    \/ \E w \in Writers : Enter(w)
    \/ Leave

Spec == Init /\ [][Next]_vars
=============================================================================
