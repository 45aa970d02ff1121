----------------------------- MODULE AtomicLink -----------------------------
(***************************************************************************)
(* What devnet.c promises to those who send commands over the link to a    *)
(* device, with no bufferevents and no flag that is read without a lock:   *)
(* the link is up or down; a command that has been let in while it was up  *)
(* gets into the output of that very link unless there is no memory or the *)
(* link is lost first; and a new link starts without output of the old.    *)
(* Only a command whose link was lost under it may come late, into the     *)
(* next link.  DevLink is shown to implement this, and Relay takes it for  *)
(* granted: it puts a command into the link in one step.                   *)
(***************************************************************************)

CONSTANTS
    Sers,  \* the clients that send commands
    None   \* no client

VARIABLES
    up,      \* is the link up?
    output,  \* does the link hold output that is not sent?
    stray,   \* has a late command been put where the next link will find it?
    last,    \* the client that answers go to
    write,   \* the command being sent: "no", "in", or "cut" from its link
    accepted \* what the last call returned: is its command on its way?

vars == <<up, output, stray, last, write, accepted>>

Init ==
    /\ up = FALSE /\ output = FALSE /\ stray = FALSE
    /\ last = None
    /\ accepted = FALSE
    /\ write = "no"

-----------------------------------------------------------------------------
ComeUp ==
    /\ ~ up
    /\ up' = TRUE /\ output' = stray /\ stray' = FALSE
    /\ UNCHANGED <<last, accepted, write>>

Lose ==
    /\ up
    /\ up' = FALSE /\ output' = FALSE
    /\ write' = IF write = "in" THEN "cut" ELSE write
    /\ UNCHANGED <<stray, last, accepted>>

\* An attempt to connect has failed.
Forget ==
    /\ ~ up
    /\ stray' = FALSE
    /\ UNCHANGED <<up, output, last, accepted, write>>

\* Some of the output reaches the device, or all.
Transmit ==
    /\ up /\ output
    /\ output' \in BOOLEAN
    /\ UNCHANGED <<up, stray, last, accepted, write>>

-----------------------------------------------------------------------------
Call ==
    /\ write = "no"
    /\ accepted' = FALSE
    /\ UNCHANGED <<up, output, stray, last, write>>

\* The link is up: the command is let in.
Enter ==
    /\ up /\ write = "no"
    /\ write' = "in"
    /\ UNCHANGED <<up, output, stray, last, accepted>>

\* Before its command is in the output, a client is the one to be answered.
Remember(s) ==
    /\ write # "no"
    /\ last' = s
    /\ UNCHANGED <<up, output, stray, accepted, write>>

Put ==
    /\ up /\ write = "in"
    /\ output' = TRUE
    /\ accepted' = TRUE
    /\ write' = "no"
    /\ UNCHANGED <<up, stray, last>>

\* There is no memory.
Refuse ==
    /\ write = "in"
    /\ accepted' = FALSE
    /\ write' = "no"
    /\ UNCHANGED <<up, output, stray, last>>

\* Without its link, a command is lost or gets into the next one, whatever the
\* caller is told.
PutLate ==
    /\ write = "cut"
    /\ \/ UNCHANGED <<output, stray>>
       \/ up /\ output' = TRUE /\ UNCHANGED stray
       \/ ~ up /\ stray' = TRUE /\ UNCHANGED output
    /\ accepted' \in BOOLEAN
    /\ write' = "no"
    /\ UNCHANGED <<up, last>>

Next ==
    \/ ComeUp \/ Lose \/ Forget \/ Transmit
    \/ Call \/ Enter \/ Put \/ Refuse \/ PutLate
    \/ \E s \in Sers : Remember(s)

Spec == Init /\ [][Next]_vars

=============================================================================
