------------------------------ MODULE Registry ------------------------------
(***************************************************************************)
(* What cmdagent.c does for clients, with no entries that are filled and   *)
(* filled again: a device gets a task with a connection of its own, once   *)
(* and for ever, before it is known; a command for a device that is known  *)
(* goes to that connection.  While the agent is starting up, a device that *)
(* is known already may be given a second thread for the same connection,  *)
(* and if starting up fails, devices may be told to end.  CmdAgent is      *)
(* shown to implement this.                                                *)
(***************************************************************************)

CONSTANTS Devices, Threads, Procs, None

VARIABLES
    phase,   \* of the agent: starting, running or failed
    serving, \* the tasks that run, with their device and connection
    twice,   \* the devices whose task has two threads
    ended,   \* the devices whose task is told to end
    known,   \* the devices that commands are taken for
    sent     \* the last command: its device and the connection it went to

vars == <<phase, serving, twice, ended, known, sent>>

Init ==
    /\ phase = "starting"
    /\ serving = {} /\ twice = {} /\ ended = {} /\ known = {}
    /\ sent = None

\* The agent runs, or gives up.
Begin ==
    /\ phase = "starting"
    /\ phase' \in {"running", "failed"}
    /\ UNCHANGED <<serving, twice, ended, known, sent>>

\* A thread starts for a device that has none; it shares nothing with others.
Start(t, d, p) ==
    /\ \A s \in serving : s.thread # t /\ s.dev # d /\ s.proc # p
    /\ serving' = serving \cup {[thread |-> t, dev |-> d, proc |-> p]}
    /\ UNCHANGED <<phase, twice, ended, known, sent>>

StartAgain(d) ==
    /\ phase = "starting"
    /\ d \in known \ twice
    /\ twice' = twice \cup {d}
    /\ UNCHANGED <<phase, serving, ended, known, sent>>

End(d) ==
    /\ phase = "failed"
    /\ d \in known \ ended
    /\ ended' = ended \cup {d}
    /\ UNCHANGED <<phase, serving, twice, known, sent>>

\* From now on commands are taken for the device.
MakeKnown(s) ==
    /\ s.dev \notin known
    /\ known' = known \cup {s.dev}
    /\ UNCHANGED <<phase, serving, twice, ended, sent>>

Send(s) ==
    /\ s.dev \in known
    /\ sent' = [dev |-> s.dev, proc |-> s.proc]
    /\ UNCHANGED <<phase, serving, twice, ended, known>>

Next ==
    \/ Begin
    \/ \E t \in Threads, d \in Devices, p \in Procs : Start(t, d, p)
    \/ \E d \in Devices : StartAgain(d) \/ End(d)
    \/ \E s \in serving : MakeKnown(s) \/ Send(s)

Spec == Init /\ [][Next]_vars

=============================================================================
