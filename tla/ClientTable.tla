----------------------------- MODULE ClientTable -----------------------------
(***************************************************************************)
(* What src/agent/sernet.c promises to the rest of the agent: a table of   *)
(* the connected clients with atomic operations.  A client leaves the      *)
(* table in the very step in which it is destroyed, a reply is only added  *)
(* to a client that exists, and a client is not destroyed while a reply is *)
(* being added to it.  SerNet shows how a lock and a list achieve this.    *)
(***************************************************************************)

CONSTANTS
    Conns,  \* connections
    FDs,    \* the numbers the table is keyed by
    Devs,   \* devices that reply
    None    \* no connection

VARIABLES
    alive,  \* the connections that exist
    table,  \* the entries, each a number and a connection
    using   \* using[d]: the connection device d is adding a reply to, or None

vars == <<alive, table, using>>

Entry == [key : FDs, clt : Conns]

Init ==
    /\ alive = {}
    /\ table = {}
    /\ using = [d \in Devs |-> None]

\* A connection comes into being.
Open(c) ==
    /\ c \notin alive
    /\ alive' = alive \cup {c}
    /\ UNCHANGED <<table, using>>

\* It is entered, under a number no other connection has.
Join(e) ==
    /\ e.clt \in alive
    /\ \A f \in table : f.key # e.key /\ f.clt # e.clt
    /\ table' = table \cup {e}
    /\ UNCHANGED <<alive, using>>

\* It leaves and is destroyed, in one step and only when nobody uses it.
Leave(e) ==
    /\ e \in table
    /\ \A d \in Devs : using[d] # e.clt
    /\ table' = table \ {e}
    /\ alive' = alive \ {e.clt}
    /\ UNCHANGED using

\* Device d looks a number up and holds on to the connection ...
Find(d, e) ==
    /\ e \in table
    /\ using[d] = None
    /\ using' = [using EXCEPT ![d] = e.clt]
    /\ UNCHANGED <<alive, table>>

\* ... adds its reply, to a connection that exists, and lets go of it.
Reply(d) ==
    /\ using[d] \in alive
    /\ using' = [using EXCEPT ![d] = None]
    /\ UNCHANGED <<alive, table>>

Next ==
    \/ \E c \in Conns : Open(c)
    \/ \E e \in Entry : Join(e) \/ Leave(e)
    \/ \E d \in Devs, e \in Entry : Find(d, e)
    \/ \E d \in Devs : Reply(d)

Spec == Init /\ [][Next]_vars
=============================================================================
