-------------------------------- MODULE Relay --------------------------------
(***************************************************************************)
(* The agent as a relay: commands of many clients go out over one link per *)
(* device, and what a device sends comes back to a client.  This module    *)
(* puts the two halves together, SerNet with SerClient on the client side  *)
(* and DevLink on the device side, and follows single commands through     *)
(* them.  Each callback is one step here; the races inside a callback are  *)
(* the subject of SerNet and DevLink.                                      *)
(*                                                                         *)
(* The agent keeps no record of who asked what.  devnet_write stores the   *)
(* socket number of the last command in devnet->nserid, and _devnet_readcb *)
(* sends whatever it reads to that number.                                 *)
(***************************************************************************)
EXTENDS Naturals, Sequences, FiniteSets

CONSTANTS
    Conns,      \* the connections clients make
    FDs,        \* socket numbers
    Devices,    \* devices clients name
    None,
    Parts,      \* in how many pieces an answer may be read at most
    MaxCmds     \* bound: commands sent over one connection

ASSUME RelayAssumption ==
    /\ None \notin Conns \cup FDs \cup Devices
    /\ Parts \in Nat \ {0}
    /\ MaxCmds \in Nat

VARIABLES
    fd_of,   \* socket number of each connected client, or None
    given,   \* the socket number each connection got when it was made, or None
    reg,     \* reg[c]: the device c named last (devip, devport), or None
    known,   \* the devices that have a task (agent->dev_info)
    up,      \* the devices whose link is connected
    nserid,  \* devnet->nserid
    toDev,   \* commands on their way to each device
    fromDev, \* the pieces of answers on their way back
    inbox,   \* what each client has received
    asked,   \* how many commands each connection has sent
    log      \* history: the commands that found the link connected, with their socket

client == <<fd_of, given, reg>>
device == <<known, up, toDev, fromDev>>
vars == <<fd_of, given, reg, known, up, nserid, toDev, fromDev, inbox, asked, log>>

Range(s) == {s[k] : k \in DOMAIN s}

Cmd == [conn : Conns, n : 1 .. MaxCmds, dev : Devices]

\* What a device sends is a stream that is read in any pieces.
Piece == [cmd : Cmd, part : 1 .. Parts]
Answer(r) == [p \in 1 .. Parts |-> [cmd |-> r, part |-> p]]

-----------------------------------------------------------------------------
Init ==
    /\ fd_of = [c \in Conns |-> None]
    /\ given = [c \in Conns |-> None]
    /\ reg = [c \in Conns |-> None]
    /\ known = {}
    /\ up = {}
    /\ nserid = [d \in Devices |-> None]
    /\ toDev = [d \in Devices |-> <<>>]
    /\ fromDev = [d \in Devices |-> <<>>]
    /\ inbox = [c \in Conns |-> <<>>]
    /\ asked = [c \in Conns |-> 0]
    /\ log = [d \in Devices |-> <<>>]

-----------------------------------------------------------------------------
\* Clients come and go

\* _sernet_acceptcb: the client is in the list under a number nobody uses.
Connect(c, fd) ==
    /\ given[c] = None
    /\ fd \notin {fd_of[e] : e \in Conns}
    /\ given' = [given EXCEPT ![c] = fd]
    /\ fd_of' = [fd_of EXCEPT ![c] = fd]
    /\ UNCHANGED <<reg, device, nserid, inbox, asked, log>>

\* _sernet_eventcb: the client is taken out of the list and its socket is
\* closed.  nserid may still hold the number.
Disconnect(c) ==
    /\ fd_of[c] # None
    /\ fd_of' = [fd_of EXCEPT ![c] = None]
    /\ UNCHANGED <<given, reg, device, nserid, inbox, asked, log>>

\* An init packet arrives: serclt_recvdata stores the device whatever
\* cmdagent_register_device returns.
Register(c, d) ==
    /\ fd_of[c] # None
    /\ reg' = [reg EXCEPT ![c] = d]
    /\ known' = known \cup {d}
    /\ UNCHANGED <<fd_of, given, up, toDev, fromDev, nserid, inbox, asked, log>>

\* No task can be made for the device (list full, initialize or startup fails).
RegisterFails(c, d) ==
    /\ fd_of[c] # None
    /\ d \notin known
    /\ reg' = [reg EXCEPT ![c] = d]
    /\ UNCHANGED <<fd_of, given, device, nserid, inbox, asked, log>>

-----------------------------------------------------------------------------
\* A command arrives over connection c: serclt_recvdata,
\* cmdagent_sendto_device, devcom_write, devnet_write

NextCmd(c) == [conn |-> c, n |-> asked[c] + 1, dev |-> reg[c]]

CanSend(c) == fd_of[c] # None /\ asked[c] < MaxCmds

\* Mutant: nserid keeps the first client that used the link.
CommandSentKeepsFirst(c) ==
    /\ CanSend(c)
    /\ reg[c] \in up
    /\ nserid' = [nserid EXCEPT ![reg[c]] = IF @ = None THEN fd_of[c] ELSE @]
    /\ toDev' = [toDev EXCEPT ![reg[c]] = Append(@, NextCmd(c))]
    /\ log' = [log EXCEPT ![reg[c]] = Append(@, [cmd |-> NextCmd(c), fd |-> fd_of[c]])]
    /\ asked' = [asked EXCEPT ![c] = @ + 1]
    /\ UNCHANGED <<client, known, up, fromDev, inbox>>

\* devnet_write records the socket number and adds the command to the output.
CommandSent(c) ==
    /\ CanSend(c)
    /\ reg[c] \in up
    /\ nserid' = [nserid EXCEPT ![reg[c]] = fd_of[c]]
    /\ toDev' = [toDev EXCEPT ![reg[c]] = Append(@, NextCmd(c))]
    /\ log' = [log EXCEPT ![reg[c]] = Append(@, [cmd |-> NextCmd(c), fd |-> fd_of[c]])]
    /\ asked' = [asked EXCEPT ![c] = @ + 1]
    /\ UNCHANGED <<client, known, up, fromDev, inbox>>

\* evbuffer_add fails after nserid has been set (devnet.c:170-172).
CommandNotAdded(c) ==
    /\ CanSend(c)
    /\ reg[c] \in up
    /\ nserid' = [nserid EXCEPT ![reg[c]] = fd_of[c]]
    /\ log' = [log EXCEPT ![reg[c]] = Append(@, [cmd |-> NextCmd(c), fd |-> fd_of[c]])]
    /\ asked' = [asked EXCEPT ![c] = @ + 1]
    /\ UNCHANGED <<client, device, inbox>>

\* No device named yet, no task for it, or its link is not connected: the
\* command is dropped, and the client is told nothing.
CommandDropped(c) ==
    /\ CanSend(c)
    /\ reg[c] \notin up
    /\ asked' = [asked EXCEPT ![c] = @ + 1]
    /\ UNCHANGED <<client, device, nserid, inbox, log>>

-----------------------------------------------------------------------------
\* Devices

\* _devnet_eventcb: the link of a device that has a task comes up, with
\* nothing in either direction ...
LinkUp(d) ==
    /\ d \in known \ up
    /\ up' = up \cup {d}
    /\ UNCHANGED <<client, known, toDev, fromDev, nserid, inbox, asked, log>>

\* ... or is lost together with all that was under way.
LinkDown(d) ==
    /\ d \in up
    /\ up' = up \ {d}
    /\ toDev' = [toDev EXCEPT ![d] = <<>>]
    /\ fromDev' = [fromDev EXCEPT ![d] = <<>>]
    /\ UNCHANGED <<client, known, nserid, inbox, asked, log>>

\* The device answers its commands one by one.
Serve(d) ==
    /\ toDev[d] # <<>>
    /\ toDev' = [toDev EXCEPT ![d] = Tail(@)]
    /\ fromDev' = [fromDev EXCEPT ![d] = @ \o Answer(Head(toDev[d]))]
    /\ UNCHANGED <<client, known, up, nserid, inbox, asked, log>>

\* Mutant: what was read stays in the input and is read again.
ReadAnswerAgain(d) ==
    /\ fromDev[d] # <<>>
    /\ \A c \in Conns : Len(inbox[c]) < 2
    /\ inbox' = [c \in Conns |-> IF fd_of[c] # None /\ fd_of[c] = nserid[d]
                                 THEN Append(inbox[c], Head(fromDev[d])) ELSE inbox[c]]
    /\ UNCHANGED <<client, device, nserid, asked, log>>

\* Mutant: of what was read at once only the first piece is passed on.
ReadAnswerFirstOnly(d) ==
    /\ fromDev[d] # <<>>
    /\ fromDev' = [fromDev EXCEPT ![d] = <<>>]
    /\ inbox' = [c \in Conns |-> IF fd_of[c] # None /\ fd_of[c] = nserid[d]
                                 THEN Append(inbox[c], Head(fromDev[d])) ELSE inbox[c]]
    /\ UNCHANGED <<client, known, up, toDev, nserid, asked, log>>

\* _devnet_readcb reads what there is, not caring where an answer ends, and calls
\* sernet_write with nserid: it goes to the client that has this number now, and is
\* dropped if there is none.  To read several pieces at once is a run of these steps
\* with nothing in between.
ReadAnswer(d) ==
    /\ fromDev[d] # <<>>
    /\ fromDev' = [fromDev EXCEPT ![d] = Tail(@)]
    /\ inbox' = [c \in Conns |-> IF fd_of[c] # None /\ fd_of[c] = nserid[d]
                                 THEN Append(inbox[c], Head(fromDev[d])) ELSE inbox[c]]
    /\ UNCHANGED <<client, known, up, toDev, nserid, asked, log>>

-----------------------------------------------------------------------------
Next ==
    \/ \E c \in Conns, fd \in FDs : Connect(c, fd)
    \/ \E c \in Conns : Disconnect(c)
    \/ \E c \in Conns, d \in Devices : Register(c, d)
    \/ \E c \in Conns, d \in Devices : RegisterFails(c, d)
    \/ \E c \in Conns : CommandSent(c)
    \/ \E c \in Conns : CommandNotAdded(c)
    \/ \E c \in Conns : CommandDropped(c)
    \/ \E d \in Devices : LinkUp(d)
    \/ \E d \in Devices : LinkDown(d)
    \/ \E d \in Devices : Serve(d)
    \/ \E d \in Devices : ReadAnswer(d)

Spec == Init /\ [][Next]_vars

\* Devices answer, and the agent reads what they say.
Fairness == \A d \in Devices : WF_vars(Serve(d)) /\ WF_vars(ReadAnswer(d))

FairSpec == Spec /\ Fairness

-----------------------------------------------------------------------------
TypeOK ==
    /\ fd_of \in [Conns -> FDs \cup {None}]
    /\ given \in [Conns -> FDs \cup {None}]
    /\ reg \in [Conns -> Devices \cup {None}]
    /\ known \in SUBSET Devices
    /\ up \in SUBSET known
    /\ nserid \in [Devices -> FDs \cup {None}]
    /\ toDev \in [Devices -> Seq(Cmd)]
    /\ fromDev \in [Devices -> Seq(Piece)]
    /\ inbox \in [Conns -> Seq(Piece)]
    /\ asked \in [Conns -> 0 .. MaxCmds]
    /\ log \in [Devices -> Seq([cmd : Cmd, fd : FDs])]

\* Position of a command among those the device's link accepted.
Accepted(r) == {k \in DOMAIN log[r.dev] : log[r.dev][k].cmd = r}

\* A client sees what one device answers in the order in which the link took the
\* commands, every answer from its first piece to its last and none twice, even
\* across lost links and even if some of it was meant for others.
AnswersInOrder ==
    \A c \in Conns : \A i, j \in DOMAIN inbox[c] :
        LET r == inbox[c][i].cmd
            s == inbox[c][j].cmd
        IN  i < j /\ r.dev = s.dev =>
                \A k \in Accepted(r), l \in Accepted(s) :
                    k < l \/ (k = l /\ inbox[c][i].part < inbox[c][j].part)

\* What a device answers reaches a client that did not ask for one of two reasons:
\* devnet_write let another command pass after the one answered, from a connection
\* with the same socket number; or it was the last and who sent it has left, and
\* the client has got its number (devnet.c:28-31, 170; sernet.c, sernet_write).
MisrouteExplained ==
    [][\A c \in Conns : inbox'[c] # inbox[c] =>
          LET r == inbox'[c][Len(inbox'[c])].cmd
          IN  \/ r.conn = c
              \/ \E k \in Accepted(r), l \in DOMAIN log[r.dev] :
                     /\ log[r.dev][l].fd = fd_of[c]
                     /\ k < l \/ (k = l /\ fd_of[r.conn] = None)]_vars

\* ser_clt.c:88-95, command, read, print the answer's sequence number: what a
\* client reads answers its own commands.
AnswersToAsker == \A c \in Conns : \A a \in Range(inbox[c]) : a.cmd.conn = c

\* To its clients the agent is an exchange: the answers of one device come in the
\* order in which its link took the commands, over all clients together and none
\* twice, and an answer goes to the client whose command was taken last or, once
\* that one has left, to whoever got its number (agent/devnet.c:13-33, 165-175;
\* agent/sernet.c, sernet_write).
Left == {c \in Conns : given[c] # None /\ fd_of[c] = None}
Taken == [d \in Devices |-> [k \in DOMAIN log[d] |-> log[d][k].cmd]]

Clients == INSTANCE Exchange WITH left <- Left, taken <- Taken, got <- inbox

ImplementsExchange == Clients!Spec

\* Every command that a link took is answered to some client, from the first piece
\* to the last, unless the link is lost or the number that the link remembers is
\* nobody's.
Awaited(c, n, d) == \E r \in Range(toDev[d]) : r.conn = c /\ r.n = n
Coming(c, n, p, d) == \E a \in Range(fromDev[d]) : a.cmd.conn = c /\ a.cmd.n = n /\ a.part = p
Answered(c, n, p) ==
    \E e \in Conns : \E a \in Range(inbox[e]) : a.cmd.conn = c /\ a.cmd.n = n /\ a.part = p

TakenIsAnswered ==
    \A c \in Conns, n \in 1 .. MaxCmds, p \in 1 .. Parts, d \in Devices :
        Awaited(c, n, d) \/ Coming(c, n, p, d)
            ~> (Answered(c, n, p) \/ d \notin up \/ \A e \in Conns : fd_of[e] # nserid[d])
=============================================================================
