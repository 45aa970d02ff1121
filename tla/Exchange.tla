------------------------------ MODULE Exchange ------------------------------
(***************************************************************************)
(* What the agent promises to its clients as a relay, without sockets,     *)
(* links and a number that is remembered: the link to a device takes       *)
(* commands, those of one client in the order in which they were sent; it  *)
(* answers each of them once at most and in the order in which it took     *)
(* them, over all clients together, in one piece or in several; and every  *)
(* piece goes to the client whose command was taken last or, once that one *)
(* has left, to whoever came in its place.  Relay is shown to implement    *)
(* this.                                                                   *)
(***************************************************************************)
EXTENDS Naturals, Sequences

CONSTANTS
    Conns,   \* the connections clients make
    Devices,
    Cmd,     \* commands, each with its connection conn, number n and device dev
    Parts    \* how many pieces an answer has

VARIABLES
    left,    \* the connections that have ended
    taken,   \* taken[d]: the commands the link to device d has taken
    got      \* got[c]: what connection c has received: the command and the piece

vars == <<left, taken, got>>

Init ==
    /\ left = {}
    /\ taken = [d \in Devices |-> <<>>]
    /\ got = [c \in Conns |-> <<>>]

Leave(c) ==
    /\ left' = left \cup {c}
    /\ UNCHANGED <<taken, got>>

Take(r) ==
    /\ r.conn \notin left
    /\ \A d \in Devices : \A k \in DOMAIN taken[d] :
           taken[d][k].conn = r.conn => taken[d][k].n < r.n
    /\ taken' = [taken EXCEPT ![r.dev] = Append(@, r)]
    /\ UNCHANGED <<left, got>>

\* Of what device d has been asked, has nothing been answered from piece p of its
\* k-th command on, to anybody?
Unanswered(d, k, p) ==
    \A c \in Conns : \A i \in DOMAIN got[c], j \in DOMAIN taken[d] :
        got[c][i].cmd = taken[d][j] => j < k \/ (j = k /\ got[c][i].part < p)

\* Piece p of the answer to the k-th command that device d took
Answer(d, k, p, c) ==
    /\ c \notin left
    /\ k \in DOMAIN taken[d]
    /\ Unanswered(d, k, p)
    /\ taken[d][Len(taken[d])].conn \in {c} \cup left
    /\ got' = [got EXCEPT ![c] = Append(@, [cmd |-> taken[d][k], part |-> p])]
    /\ UNCHANGED <<left, taken>>

Next ==
    \/ \E c \in Conns : Leave(c)
    \/ \E r \in Cmd : Take(r)
    \/ \E d \in Devices : \E k \in DOMAIN taken[d], p \in 1 .. Parts, c \in Conns :
                             Answer(d, k, p, c)

Spec == Init /\ [][Next]_vars
=============================================================================
