---------------------------- MODULE RelayProofs ----------------------------
(***************************************************************************)
(* Where answers go, for any set of connections, socket numbers and        *)
(* devices, any number of commands, and answers read in any pieces.        *)
(*                                                                         *)
(* A command is at one place of its device's log (LogInv).  Order is kept  *)
(* because a command passes from toDev, as pieces of its answer, through   *)
(* fromDev to an inbox, and at any time what is further on its way was     *)
(* accepted before what is less far, or is an earlier piece of the same    *)
(* answer (QueueInv, SeenInv).  nserid always holds the number of the last *)
(* command in the log (LastInv), which is what every piece goes to.        *)
(***************************************************************************)
EXTENDS Relay, TLAPS

\* A command in the log has been asked, and the ones of a connection are
\* numbered in the order in which they were accepted.
LogInv ==
    \A d \in Devices :
        /\ \A k \in DOMAIN log[d] : log[d][k].cmd.dev = d
                                    /\ log[d][k].cmd.n <= asked[log[d][k].cmd.conn]
        /\ \A k, l \in DOMAIN log[d] :
              k < l /\ log[d][k].cmd.conn = log[d][l].cmd.conn
                  => log[d][k].cmd.n < log[d][l].cmd.n

LastInv == \A d \in Devices : log[d] # <<>> => nserid[d] = log[d][Len(log[d])].fd

\* The command r was accepted before s.
Earlier(r, s) == \A k \in Accepted(r), l \in Accepted(s) : k < l

\* The piece a belongs before b.
Before(a, b) ==
    \A k \in Accepted(a.cmd), l \in Accepted(b.cmd) : k < l \/ (k = l /\ a.part < b.part)

OnTheWay(d, r) == r.dev = d /\ Accepted(r) # {}

QueueInv ==
    \A d \in Devices :
        /\ \A i \in DOMAIN toDev[d] : OnTheWay(d, toDev[d][i])
        /\ \A i \in DOMAIN fromDev[d] : OnTheWay(d, fromDev[d][i].cmd)
        /\ \A i, j \in DOMAIN toDev[d] : i < j => Earlier(toDev[d][i], toDev[d][j])
        /\ \A i, j \in DOMAIN fromDev[d] : i < j => Before(fromDev[d][i], fromDev[d][j])
        /\ \A i \in DOMAIN fromDev[d], j \in DOMAIN toDev[d] :
              Earlier(fromDev[d][i].cmd, toDev[d][j])

\* What a client has received was accepted before what is still on its way.
SeenInv ==
    \A c \in Conns, d \in Devices : \A i \in DOMAIN inbox[c] :
        inbox[c][i].cmd.dev = d =>
            /\ Accepted(inbox[c][i].cmd) # {}
            /\ \A j \in DOMAIN toDev[d] : Earlier(inbox[c][i].cmd, toDev[d][j])
            /\ \A j \in DOMAIN fromDev[d] : Before(inbox[c][i], fromDev[d][j])

InboxInv ==
    \A c \in Conns : \A i, j \in DOMAIN inbox[c] :
        i < j /\ inbox[c][i].cmd.dev = inbox[c][j].cmd.dev => Before(inbox[c][i], inbox[c][j])

IInv == TypeOK /\ LogInv /\ LastInv /\ QueueInv /\ SeenInv /\ InboxInv

-----------------------------------------------------------------------------
LEMMA InitInv == Init => IInv
  BY RelayAssumption
  DEF Init, IInv, TypeOK, LogInv, LastInv, QueueInv, SeenInv, InboxInv, OnTheWay,
      Before, Earlier, Accepted

\* What the log is made of
Entry == [cmd : Cmd, fd : FDs]

LEMMA Appended ==
    ASSUME NEW S, NEW s \in Seq(S), NEW x \in S
    PROVE  /\ Append(s, x) \in Seq(S)
           /\ DOMAIN s = 1 .. Len(s) /\ Len(s) \in Nat
           /\ DOMAIN Append(s, x) = 1 .. (Len(s) + 1)
           /\ Append(s, x)[Len(s) + 1] = x
           /\ \A k \in 1 .. Len(s) : Append(s, x)[k] = s[k] /\ s[k] \in S
  OBVIOUS

\* A link takes the next command of c, new: it is new in the log, and all others
\* keep their places.
LEMMA Grown ==
    ASSUME TypeOK, LogInv, NEW c \in Conns, CanSend(c), reg[c] \in up,
           NEW CONSTANT new, new = NextCmd(c),
           log' = [log EXCEPT ![reg[c]] = Append(@, [cmd |-> new, fd |-> fd_of[c]])],
           asked' = [asked EXCEPT ![c] = @ + 1]
    PROVE  /\ reg[c] \in Devices /\ new \in Cmd /\ new.dev = reg[c]
           /\ asked' \in [Conns -> 0 .. MaxCmds]
           /\ log' \in [Devices -> Seq(Entry)]
           /\ log'[reg[c]] # <<>> /\ log'[reg[c]][Len(log'[reg[c]])].fd = fd_of[c]
           /\ \A e \in Devices : e # reg[c] => log'[e] = log[e]
           /\ Accepted(new)' = {Len(log[reg[c]]) + 1}
           /\ \A r \in Cmd : Accepted(r) # {} => Accepted(r)' = Accepted(r)
           /\ \A r \in Cmd : \A k \in Accepted(r) : k < Len(log[reg[c]]) + 1 \/ r.dev # reg[c]
           /\ LogInv'
<1> DEFINE d == reg[c]
           entry == [cmd |-> new, fd |-> fd_of[c]]
<1>1. /\ d \in Devices /\ fd_of[c] \in FDs /\ new \in Cmd /\ new.dev = d
      /\ new.n = asked[c] + 1 /\ new.conn = c /\ entry \in Entry /\ entry.cmd = new
      /\ asked[c] < MaxCmds /\ entry.fd = fd_of[c]
  BY RelayAssumption DEF TypeOK, CanSend, NextCmd, Cmd, Entry
<1>2. log \in [Devices -> Seq(Entry)] /\ asked \in [Conns -> 0 .. MaxCmds]
  BY DEF TypeOK, Entry
<1>3. log' = [log EXCEPT ![d] = Append(@, entry)]
  OBVIOUS
<1> HIDE DEF d, entry
<1>4. asked' \in [Conns -> 0 .. MaxCmds] /\ asked'[c] = new.n
      /\ \A b \in Conns : asked[b] <= asked'[b]
  BY <1>1, <1>2, RelayAssumption
<1>5. log'[d] = Append(log[d], entry) /\ \A e \in Devices : e # d => log'[e] = log[e]
  BY <1>1, <1>2, <1>3
<1>6. log[d] \in Seq(Entry)
  BY <1>1, <1>2
<1>7. /\ DOMAIN log[d] = 1 .. Len(log[d]) /\ Len(log[d]) \in Nat
      /\ DOMAIN log'[d] = 1 .. (Len(log[d]) + 1)
      /\ log'[d][Len(log[d]) + 1] = entry
      /\ \A k \in 1 .. Len(log[d]) : log'[d][k] = log[d][k]
      /\ log'[d] \in Seq(Entry) /\ Len(log'[d]) = Len(log[d]) + 1
  BY <1>1, <1>5, <1>6, Appended
<1>8. log' \in [Devices -> Seq(Entry)]
  BY <1>1, <1>2, <1>3, <1>5, <1>7
<1>9. ASSUME NEW e \in Devices, NEW k \in DOMAIN log[e]
      PROVE  /\ log[e][k].cmd \in Cmd /\ log[e][k].cmd.conn \in Conns
             /\ log[e][k].cmd.n \in Nat
  <2>1. log[e] \in Seq(Entry)
    BY <1>2
  <2>2. log[e][k] \in Entry
    BY <2>1
  <2> QED BY <2>2 DEF Entry, Cmd
<1>10. \A k \in DOMAIN log[d] : log[d][k].cmd.conn = c => log[d][k].cmd.n < new.n
  BY <1>1, <1>2, <1>9 DEF LogInv
<1>11. \A k \in DOMAIN log[d] : log[d][k].cmd # new
  BY <1>1, <1>9, <1>10
<1>12. Accepted(new)' = {Len(log[d]) + 1} /\ Accepted(new) = {}
  BY <1>1, <1>7, <1>11 DEF Accepted
<1>13. ASSUME NEW r \in Cmd, r # new PROVE Accepted(r)' = Accepted(r)
  <2>1. r.dev \in Devices
    BY DEF Cmd
  <2>2. CASE r.dev = d
    BY <2>2, <1>1, <1>7, <1>13 DEF Accepted
  <2>3. CASE r.dev # d
    BY <2>1, <2>3, <1>5 DEF Accepted
  <2> QED BY <2>2, <2>3
<1>14. \A r \in Cmd : \A k \in Accepted(r) : k < Len(log[d]) + 1 \/ r.dev # d
  BY <1>7 DEF Accepted
<1>15. LogInv'
  <2> DEFINE Told(e) == \A k \in DOMAIN log'[e] : log'[e][k].cmd.dev = e
                               /\ log'[e][k].cmd.n <= asked'[log'[e][k].cmd.conn]
             Rising(e) == \A k, l \in DOMAIN log'[e] :
                             k < l /\ log'[e][k].cmd.conn = log'[e][l].cmd.conn
                                 => log'[e][k].cmd.n < log'[e][l].cmd.n
  <2>1. ASSUME NEW e \in Devices
        PROVE  /\ \A k \in DOMAIN log[e] : log[e][k].cmd.dev = e
                      /\ log[e][k].cmd.n <= asked'[log[e][k].cmd.conn]
               /\ \A k, l \in DOMAIN log[e] : k < l /\ log[e][k].cmd.conn = log[e][l].cmd.conn
                                                   => log[e][k].cmd.n < log[e][l].cmd.n
    <3>1. \A k \in DOMAIN log[e] : log[e][k].cmd.n <= asked[log[e][k].cmd.conn]
      BY DEF LogInv
    <3>2. ASSUME NEW k \in DOMAIN log[e] PROVE log[e][k].cmd.n <= asked'[log[e][k].cmd.conn]
      <4>1. /\ asked[log[e][k].cmd.conn] \in Nat /\ asked'[log[e][k].cmd.conn] \in Nat
            /\ asked[log[e][k].cmd.conn] <= asked'[log[e][k].cmd.conn] /\ log[e][k].cmd.n \in Nat
        BY <1>2, <1>4, <1>9, RelayAssumption
      <4> QED BY <3>1, <4>1
    <3> QED BY <3>2 DEF LogInv
  <2>2. ASSUME NEW e \in Devices, e # d PROVE Told(e) /\ Rising(e)
    <3>1. log'[e] = log[e]
      BY <1>5, <2>2
    <3>2. Told(e)
      BY <2>1, <3>1
    <3>3. Rising(e)
      <4> DEFINE q == log[e]
      <4>1. \A k, l \in DOMAIN q : k < l /\ q[k].cmd.conn = q[l].cmd.conn
                                       => q[k].cmd.n < q[l].cmd.n
        BY <2>1, Zenon
      <4>2. log'[e] = q
        BY <3>1
      <4> HIDE DEF q
      <4> QED BY <4>1, <4>2
    <3> QED BY <3>2, <3>3, Zenon
  <2>3. \A k \in DOMAIN log'[d] : k \in Nat /\ (k = Len(log[d]) + 1 \/ k \in DOMAIN log[d])
    BY <1>7
  <2>4. ASSUME NEW k \in DOMAIN log[d] PROVE log'[d][k] = log[d][k]
    BY <1>7
  <2>5. log'[d][Len(log[d]) + 1].cmd = new
    BY <1>1, <1>7
  <2>6. Told(d)
    <3> SUFFICES ASSUME NEW k \in DOMAIN log'[d]
                 PROVE  log'[d][k].cmd.dev = d /\ log'[d][k].cmd.n <= asked'[log'[d][k].cmd.conn]
      OBVIOUS
    <3>1. CASE k \in DOMAIN log[d]
      BY <1>1, <2>1, <2>4, <3>1
    <3>2. CASE k = Len(log[d]) + 1
      BY <1>1, <1>4, <2>5, <3>2
    <3> QED BY <2>3, <3>1, <3>2
  <2>7. Rising(d)
    <3> SUFFICES ASSUME NEW k \in DOMAIN log'[d], NEW l \in DOMAIN log'[d], k < l,
                        log'[d][k].cmd.conn = log'[d][l].cmd.conn
                 PROVE  log'[d][k].cmd.n < log'[d][l].cmd.n
      OBVIOUS
    <3>1. k \in DOMAIN log[d] /\ log'[d][k] = log[d][k]
      BY <1>7, <2>3, <2>4
    <3>2. CASE l \in DOMAIN log[d]
      <4>1. log'[d][l] = log[d][l]
        BY <2>4, <3>2
      <4>2. log[d][k].cmd.conn = log[d][l].cmd.conn => log[d][k].cmd.n < log[d][l].cmd.n
        BY <1>1, <2>1, <3>1, <3>2
      <4> QED BY <3>1, <4>1, <4>2
    <3>3. CASE l = Len(log[d]) + 1
      BY <1>1, <1>10, <2>5, <3>1, <3>3
    <3> QED BY <2>3, <3>2, <3>3
  <2>8. \A e \in Devices : Told(e) /\ Rising(e)
    <3> HIDE DEF Told, Rising
    <3> QED BY <2>2, <2>6, <2>7, Zenon
  <2> QED BY <2>8, Zenon DEF LogInv
<1> QED BY <1>1, <1>4, <1>5, <1>7, <1>8, <1>12, <1>13, <1>14, <1>15 DEF d, entry

LEMMA Shifted ==
    ASSUME NEW S, NEW s \in Seq(S), s # <<>>
    PROVE  /\ Tail(s) \in Seq(S) /\ Head(s) \in S
           /\ 1 \in DOMAIN s /\ Head(s) = s[1]
           /\ \A k \in DOMAIN Tail(s) :
                 k \in Nat /\ k + 1 > 1 /\ k + 1 \in DOMAIN s /\ Tail(s)[k] = s[k + 1]
  OBVIOUS

\* The sequences and what is in them
LEMMA Contents ==
    ASSUME TypeOK
    PROVE  /\ \A d \in Devices : toDev[d] \in Seq(Cmd) /\ fromDev[d] \in Seq(Piece)
           /\ \A c \in Conns : inbox[c] \in Seq(Piece)
           /\ \A d \in Devices : \A i \in DOMAIN toDev[d] : i \in Nat /\ toDev[d][i] \in Cmd
           /\ \A d \in Devices : \A i \in DOMAIN fromDev[d] :
                 i \in Nat /\ fromDev[d][i] \in Piece /\ fromDev[d][i].cmd \in Cmd
           /\ \A c \in Conns : \A i \in DOMAIN inbox[c] :
                 i \in Nat /\ inbox[c][i] \in Piece /\ inbox[c][i].cmd \in Cmd
           /\ \A r \in Cmd : r.dev \in Devices
<1>1. \A d \in Devices : toDev[d] \in Seq(Cmd) /\ fromDev[d] \in Seq(Piece)
  BY DEF TypeOK
<1>2. \A c \in Conns : inbox[c] \in Seq(Piece)
  BY DEF TypeOK
<1>3. \A q \in Seq(Cmd) : \A i \in DOMAIN q : i \in Nat /\ q[i] \in Cmd
  OBVIOUS
<1>4. \A q \in Seq(Piece) : \A i \in DOMAIN q : i \in Nat /\ q[i] \in Piece
  OBVIOUS
<1>5. \A a \in Piece : a.cmd \in Cmd
  BY DEF Piece
<1>6. \A r \in Cmd : r.dev \in Devices
  BY DEF Cmd
<1> QED BY <1>1, <1>2, <1>3, <1>4, <1>5, <1>6

\* A command has one place in the log.
LEMMA OnePlace ==
    ASSUME TypeOK, LogInv, NEW r \in Cmd, NEW k \in Accepted(r), NEW l \in Accepted(r)
    PROVE  k = l
<1>1. /\ r.dev \in Devices /\ r.n \in Nat
      /\ k \in DOMAIN log[r.dev] /\ log[r.dev][k].cmd = r
      /\ l \in DOMAIN log[r.dev] /\ log[r.dev][l].cmd = r
  BY DEF Accepted, Cmd
<1>2. k \in Nat /\ l \in Nat
  <2>1. log[r.dev] \in Seq([cmd : Cmd, fd : FDs])
    BY <1>1 DEF TypeOK
  <2> QED BY <1>1, <2>1
<1>3. ~ k < l /\ ~ l < k
  BY <1>1 DEF LogInv
<1> QED BY <1>2, <1>3

\* An action that leaves the log and what is on its way alone
LEMMA Untouched ==
    ASSUME IInv, UNCHANGED <<log, toDev, fromDev, inbox>>
    PROVE  QueueInv' /\ SeenInv' /\ InboxInv'
<1>1. \A r : Accepted(r)' = Accepted(r)
  BY DEF Accepted
<1>2. \A r, s : (Before(r, s)' <=> Before(r, s)) /\ (Earlier(r, s)' <=> Earlier(r, s))
  BY <1>1 DEF Before, Earlier
<1>3. QueueInv'
  BY <1>1, <1>2 DEF IInv, QueueInv, OnTheWay
<1>4. SeenInv'
  BY <1>1, <1>2 DEF IInv, SeenInv
<1>5. InboxInv'
  BY <1>2 DEF IInv, InboxInv
<1> QED BY <1>3, <1>4, <1>5

LEMMA StepSend ==
    ASSUME IInv, NEW c \in Conns, CommandSent(c) PROVE IInv'
<1> DEFINE d == reg[c]
<1>1. PICK new : new = NextCmd(c)
  OBVIOUS
<1>2. /\ CanSend(c) /\ d \in up
      /\ log' = [log EXCEPT ![d] = Append(@, [cmd |-> new, fd |-> fd_of[c]])]
      /\ asked' = [asked EXCEPT ![c] = @ + 1]
      /\ nserid' = [nserid EXCEPT ![d] = fd_of[c]]
      /\ toDev' = [toDev EXCEPT ![d] = Append(@, new)]
      /\ UNCHANGED <<client, known, up, fromDev, inbox>>
  BY <1>1 DEF CommandSent
<1>3. /\ d \in Devices /\ new \in Cmd /\ new.dev = d
      /\ asked' \in [Conns -> 0 .. MaxCmds]
      /\ log' \in [Devices -> Seq(Entry)]
      /\ log'[d] # <<>> /\ log'[d][Len(log'[d])].fd = fd_of[c]
      /\ \A e \in Devices : e # d => log'[e] = log[e]
      /\ Accepted(new)' = {Len(log[d]) + 1}
      /\ \A r \in Cmd : Accepted(r) # {} => Accepted(r)' = Accepted(r)
      /\ \A r \in Cmd : \A k \in Accepted(r) : k < Len(log[d]) + 1 \/ r.dev # d
      /\ LogInv'
  BY <1>1, <1>2, Grown DEF IInv
<1> HIDE DEF d
<1>4. /\ toDev[d] \in Seq(Cmd) /\ toDev'[d] = Append(toDev[d], new)
      /\ \A e \in Devices : e # d => toDev'[e] = toDev[e]
      /\ toDev' \in [Devices -> Seq(Cmd)]
  BY <1>2, <1>3 DEF IInv, TypeOK
<1>5. /\ DOMAIN toDev[d] = 1 .. Len(toDev[d]) /\ Len(toDev[d]) \in Nat
      /\ DOMAIN toDev'[d] = 1 .. (Len(toDev[d]) + 1)
      /\ toDev'[d][Len(toDev[d]) + 1] = new
      /\ \A k \in 1 .. Len(toDev[d]) : toDev'[d][k] = toDev[d][k]
  BY <1>3, <1>4, Appended
<1>6. TypeOK'
  <2>1. nserid' \in [Devices -> FDs \cup {None}]
    BY <1>2, <1>3 DEF IInv, TypeOK, CanSend
  <2> QED BY <2>1, <1>2, <1>3, <1>4 DEF IInv, TypeOK, client, Entry
<1>7. LastInv'
  <2>1. nserid'[d] = fd_of[c] /\ \A e \in Devices : e # d => nserid'[e] = nserid[e]
    BY <1>2, <1>3 DEF IInv, TypeOK
  <2> QED BY <2>1, <1>3 DEF IInv, LastInv
<1>8. /\ \A r, s \in Cmd : Accepted(r) # {} /\ Accepted(s) # {} /\ Earlier(r, s)
                                => Earlier(r, s)'
      /\ \A x, y \in Piece : Accepted(x.cmd) # {} /\ Accepted(y.cmd) # {} /\ Before(x, y)
                                  => Before(x, y)'
  BY <1>3 DEF Before, Earlier, Piece
<1>9. \A r \in Cmd : Accepted(r) # {} /\ r.dev = d => Earlier(r, new)'
  BY <1>3 DEF Earlier
<1>10. \A r \in Cmd : Accepted(r) # {} => Accepted(r)' # {}
  BY <1>3
<1>11. Accepted(new)' # {}
  BY <1>3
<1>12. InboxInv'
  <2> SUFFICES ASSUME NEW b \in Conns, NEW i \in DOMAIN inbox[b], NEW j \in DOMAIN inbox[b],
                      i < j, inbox[b][i].cmd.dev = inbox[b][j].cmd.dev
               PROVE  Before(inbox[b][i], inbox[b][j])'
    BY <1>2 DEF InboxInv
  <2>1. /\ inbox[b][i] \in Piece /\ inbox[b][j] \in Piece /\ inbox' = inbox
        /\ inbox[b][i].cmd.dev \in Devices /\ inbox[b][j].cmd.dev \in Devices
    BY <1>2, Contents DEF IInv
  <2>2. Accepted(inbox[b][i].cmd) # {} /\ Accepted(inbox[b][j].cmd) # {}
    BY <2>1 DEF IInv, SeenInv
  <2>3. Before(inbox[b][i], inbox[b][j])
    BY DEF IInv, InboxInv
  <2> QED BY <1>8, <2>1, <2>2, <2>3
<1>13. ASSUME NEW e \in Devices, NEW i \in DOMAIN fromDev[e]
       PROVE  /\ fromDev[e][i] \in Piece /\ fromDev[e][i].cmd \in Cmd
              /\ fromDev[e][i].cmd.dev = e /\ Accepted(fromDev[e][i].cmd) # {}
  BY Contents DEF IInv, QueueInv, OnTheWay
<1>14. ASSUME NEW e \in Devices, NEW i \in DOMAIN toDev[e]
       PROVE  /\ toDev[e][i] \in Cmd /\ toDev[e][i].dev = e /\ Accepted(toDev[e][i]) # {}
              /\ toDev[e][i] # new
  <2>1. toDev[e][i] \in Cmd /\ toDev[e][i].dev = e /\ Accepted(toDev[e][i]) # {}
    BY Contents DEF IInv, QueueInv, OnTheWay
  <2> QED BY <1>3, <2>1
<1>15. ASSUME NEW e \in Devices, NEW i \in DOMAIN toDev'[e]
       PROVE  \/ i \in DOMAIN toDev[e] /\ toDev'[e][i] = toDev[e][i]
              \/ e = d /\ toDev'[e][i] = new /\ i = Len(toDev[d]) + 1
  <2>1. CASE e = d
    BY <2>1, <1>5
  <2>2. CASE e # d
    BY <2>2, <1>4
  <2> QED BY <2>1, <2>2
<1>16. fromDev' = fromDev /\ inbox' = inbox
  BY <1>2
<1>17. QueueInv'
  <2> SUFFICES ASSUME NEW e \in Devices
               PROVE  /\ \A i \in DOMAIN toDev'[e] : OnTheWay(e, toDev[e][i])'
                      /\ \A i \in DOMAIN fromDev'[e] : OnTheWay(e, fromDev[e][i].cmd)'
                      /\ \A i, j \in DOMAIN toDev'[e] :
                            i < j => Earlier(toDev[e][i], toDev[e][j])'
                      /\ \A i, j \in DOMAIN fromDev'[e] :
                            i < j => Before(fromDev[e][i], fromDev[e][j])'
                      /\ \A i \in DOMAIN fromDev'[e], j \in DOMAIN toDev'[e] :
                            Earlier(fromDev[e][i].cmd, toDev[e][j])'
    BY DEF QueueInv
  <2>1. ASSUME NEW i \in DOMAIN toDev'[e] PROVE OnTheWay(e, toDev[e][i])'
    <3>1. CASE i \in DOMAIN toDev[e] /\ toDev'[e][i] = toDev[e][i]
      <4>1. toDev[e][i].dev = e /\ Accepted(toDev[e][i])' # {}
        BY <1>10, <1>14, <3>1
      <4> QED BY <3>1, <4>1 DEF OnTheWay
    <3>2. CASE e = d /\ toDev'[e][i] = new
      BY <1>3, <1>11, <3>2 DEF OnTheWay
    <3> QED BY <1>15, <3>1, <3>2
  <2>2. \A i \in DOMAIN fromDev'[e] : OnTheWay(e, fromDev[e][i].cmd)'
    BY <1>10, <1>13, <1>16 DEF OnTheWay
  <2>3. ASSUME NEW i \in DOMAIN toDev'[e], NEW j \in DOMAIN toDev'[e], i < j
        PROVE  Earlier(toDev[e][i], toDev[e][j])'
    <3>1. i \in DOMAIN toDev[e] /\ toDev'[e][i] = toDev[e][i]
      BY <1>4, <1>5, <1>15, <2>3
    <3>2. CASE j \in DOMAIN toDev[e] /\ toDev'[e][j] = toDev[e][j]
      <4>1. Earlier(toDev[e][i], toDev[e][j])
        BY <2>3, <3>1, <3>2 DEF IInv, QueueInv
      <4> QED BY <1>8, <1>14, <3>1, <3>2, <4>1
    <3>3. CASE e = d /\ toDev'[e][j] = new
      BY <1>9, <1>14, <3>1, <3>3
    <3> QED BY <1>15, <3>2, <3>3
  <2>4. ASSUME NEW i \in DOMAIN fromDev'[e], NEW j \in DOMAIN fromDev'[e], i < j
        PROVE  Before(fromDev[e][i], fromDev[e][j])'
    <3>1. Before(fromDev[e][i], fromDev[e][j])
      BY <1>16, <2>4 DEF IInv, QueueInv
    <3> QED BY <1>8, <1>13, <1>16, <3>1
  <2>5. ASSUME NEW i \in DOMAIN fromDev'[e], NEW j \in DOMAIN toDev'[e]
        PROVE  Earlier(fromDev[e][i].cmd, toDev[e][j])'
    <3>1. CASE j \in DOMAIN toDev[e] /\ toDev'[e][j] = toDev[e][j]
      <4>1. Earlier(fromDev[e][i].cmd, toDev[e][j])
        BY <1>16, <3>1 DEF IInv, QueueInv
      <4> QED BY <1>8, <1>13, <1>14, <1>16, <3>1, <4>1
    <3>2. CASE e = d /\ toDev'[e][j] = new
      BY <1>9, <1>13, <1>16, <3>2
    <3> QED BY <1>15, <3>1, <3>2
  <2> QED BY <2>1, <2>2, <2>3, <2>4, <2>5
<1>18. SeenInv'
  <2> SUFFICES ASSUME NEW b \in Conns, NEW e \in Devices, NEW i \in DOMAIN inbox[b],
                      inbox[b][i].cmd.dev = e
               PROVE  /\ Accepted(inbox[b][i].cmd)' # {}
                      /\ \A j \in DOMAIN toDev'[e] : Earlier(inbox[b][i].cmd, toDev[e][j])'
                      /\ \A j \in DOMAIN fromDev'[e] : Before(inbox[b][i], fromDev[e][j])'
    BY <1>16 DEF SeenInv
  <2>1. inbox[b][i] \in Piece /\ inbox[b][i].cmd \in Cmd /\ Accepted(inbox[b][i].cmd) # {}
    BY Contents DEF IInv, SeenInv
  <2>2. \A j \in DOMAIN fromDev'[e] : Before(inbox[b][i], fromDev[e][j])'
    <3>1. ASSUME NEW j \in DOMAIN fromDev[e] PROVE Before(inbox[b][i], fromDev[e][j])'
      <4>1. Before(inbox[b][i], fromDev[e][j])
        BY DEF IInv, SeenInv
      <4>2. /\ inbox[b][i]' = inbox[b][i] /\ fromDev[e][j]' = fromDev[e][j]
            /\ fromDev[e][j] \in Piece /\ Accepted(fromDev[e][j].cmd) # {}
        BY <1>13, <1>16
      <4> QED BY <1>8, <2>1, <4>1, <4>2
    <3> QED BY <1>16, <3>1
  <2>3. ASSUME NEW j \in DOMAIN toDev'[e] PROVE Earlier(inbox[b][i].cmd, toDev[e][j])'
    <3>1. CASE j \in DOMAIN toDev[e] /\ toDev'[e][j] = toDev[e][j]
      <4>1. Earlier(inbox[b][i].cmd, toDev[e][j])
        BY <3>1 DEF IInv, SeenInv
      <4> QED BY <1>8, <1>14, <1>16, <2>1, <3>1, <4>1
    <3>2. CASE e = d /\ toDev'[e][j] = new
      BY <1>9, <1>16, <2>1, <3>2
    <3> QED BY <1>15, <3>1, <3>2
  <2> QED BY <1>10, <1>16, <2>1, <2>2, <2>3
<1> QED BY <1>3, <1>6, <1>7, <1>12, <1>17, <1>18 DEF IInv

LEMMA StepNotAdded ==
    ASSUME IInv, NEW c \in Conns, CommandNotAdded(c) PROVE IInv'
<1> DEFINE d == reg[c]
<1>1. PICK new : new = NextCmd(c)
  OBVIOUS
<1>2. /\ CanSend(c) /\ d \in up
      /\ log' = [log EXCEPT ![d] = Append(@, [cmd |-> new, fd |-> fd_of[c]])]
      /\ asked' = [asked EXCEPT ![c] = @ + 1]
      /\ nserid' = [nserid EXCEPT ![d] = fd_of[c]]
      /\ UNCHANGED <<client, device, inbox>>
  BY <1>1 DEF CommandNotAdded
<1>3. /\ d \in Devices
      /\ asked' \in [Conns -> 0 .. MaxCmds]
      /\ log' \in [Devices -> Seq(Entry)]
      /\ log'[d] # <<>> /\ log'[d][Len(log'[d])].fd = fd_of[c]
      /\ \A e \in Devices : e # d => log'[e] = log[e]
      /\ \A r \in Cmd : Accepted(r) # {} => Accepted(r)' = Accepted(r)
      /\ LogInv'
  BY <1>1, <1>2, Grown DEF IInv
<1> HIDE DEF d
<1>4. TypeOK'
  <2>1. nserid' \in [Devices -> FDs \cup {None}]
    BY <1>2, <1>3 DEF IInv, TypeOK, CanSend
  <2> QED BY <2>1, <1>2, <1>3 DEF IInv, TypeOK, client, device, Entry
<1>5. LastInv'
  <2>1. nserid'[d] = fd_of[c] /\ \A e \in Devices : e # d => nserid'[e] = nserid[e]
    BY <1>2, <1>3 DEF IInv, TypeOK
  <2> QED BY <2>1, <1>3 DEF IInv, LastInv
<1>6. /\ \A r, s \in Cmd : Accepted(r) # {} /\ Accepted(s) # {} /\ Earlier(r, s)
                                => Earlier(r, s)'
      /\ \A x, y \in Piece : Accepted(x.cmd) # {} /\ Accepted(y.cmd) # {} /\ Before(x, y)
                                  => Before(x, y)'
  BY <1>3 DEF Before, Earlier, Piece
<1>7. toDev' = toDev /\ fromDev' = fromDev /\ inbox' = inbox
  BY <1>2 DEF device
<1>8. \A e \in Devices : \A i \in DOMAIN fromDev[e] :
          /\ fromDev[e][i] \in Piece /\ fromDev[e][i].cmd \in Cmd
          /\ fromDev[e][i].cmd.dev = e /\ Accepted(fromDev[e][i].cmd) # {}
  BY Contents DEF IInv, QueueInv, OnTheWay
<1>9. \A e \in Devices : \A i \in DOMAIN toDev[e] :
          toDev[e][i] \in Cmd /\ toDev[e][i].dev = e /\ Accepted(toDev[e][i]) # {}
  BY Contents DEF IInv, QueueInv, OnTheWay
<1>10. \A b \in Conns : \A i \in DOMAIN inbox[b] :
          /\ inbox[b][i] \in Piece /\ inbox[b][i].cmd \in Cmd
          /\ Accepted(inbox[b][i].cmd) # {}
  BY Contents DEF IInv, SeenInv
<1>11. \A r \in Cmd : Accepted(r) # {} => Accepted(r)' # {}
  BY <1>3
<1>12. QueueInv'
  <2> SUFFICES ASSUME NEW e \in Devices
               PROVE  /\ \A i \in DOMAIN toDev[e] : OnTheWay(e, toDev[e][i])'
                      /\ \A i \in DOMAIN fromDev[e] : OnTheWay(e, fromDev[e][i].cmd)'
                      /\ \A i, j \in DOMAIN toDev[e] :
                            i < j => Earlier(toDev[e][i], toDev[e][j])'
                      /\ \A i, j \in DOMAIN fromDev[e] :
                            i < j => Before(fromDev[e][i], fromDev[e][j])'
                      /\ \A i \in DOMAIN fromDev[e], j \in DOMAIN toDev[e] :
                            Earlier(fromDev[e][i].cmd, toDev[e][j])'
    BY <1>7 DEF QueueInv
  <2>1. /\ \A i \in DOMAIN toDev[e] : OnTheWay(e, toDev[e][i])'
        /\ \A i \in DOMAIN fromDev[e] : OnTheWay(e, fromDev[e][i].cmd)'
    BY <1>7, <1>8, <1>9, <1>11 DEF OnTheWay
  <2>2. ASSUME NEW i \in DOMAIN toDev[e], NEW j \in DOMAIN toDev[e], i < j
        PROVE  Earlier(toDev[e][i], toDev[e][j])'
    <3>1. Earlier(toDev[e][i], toDev[e][j])
      BY <2>2 DEF IInv, QueueInv
    <3> QED BY <1>6, <1>7, <1>9, <3>1
  <2>3. ASSUME NEW i \in DOMAIN fromDev[e], NEW j \in DOMAIN fromDev[e], i < j
        PROVE  Before(fromDev[e][i], fromDev[e][j])'
    <3>1. Before(fromDev[e][i], fromDev[e][j])
      BY <2>3 DEF IInv, QueueInv
    <3> QED BY <1>6, <1>7, <1>8, <3>1
  <2>4. ASSUME NEW i \in DOMAIN fromDev[e], NEW j \in DOMAIN toDev[e]
        PROVE  Earlier(fromDev[e][i].cmd, toDev[e][j])'
    <3>1. Earlier(fromDev[e][i].cmd, toDev[e][j])
      BY DEF IInv, QueueInv
    <3> QED BY <1>6, <1>7, <1>8, <1>9, <3>1
  <2> QED BY <2>1, <2>2, <2>3, <2>4
<1>13. SeenInv'
  <2> SUFFICES ASSUME NEW b \in Conns, NEW e \in Devices, NEW i \in DOMAIN inbox[b],
                      inbox[b][i].cmd.dev = e
               PROVE  /\ Accepted(inbox[b][i].cmd)' # {}
                      /\ \A j \in DOMAIN toDev[e] : Earlier(inbox[b][i].cmd, toDev[e][j])'
                      /\ \A j \in DOMAIN fromDev[e] : Before(inbox[b][i], fromDev[e][j])'
    BY <1>7 DEF SeenInv
  <2>1. Accepted(inbox[b][i].cmd)' # {}
    BY <1>7, <1>10, <1>11
  <2>2. ASSUME NEW j \in DOMAIN toDev[e] PROVE Earlier(inbox[b][i].cmd, toDev[e][j])'
    <3>1. Earlier(inbox[b][i].cmd, toDev[e][j])
      BY DEF IInv, SeenInv
    <3> QED BY <1>6, <1>7, <1>9, <1>10, <3>1
  <2>3. ASSUME NEW j \in DOMAIN fromDev[e] PROVE Before(inbox[b][i], fromDev[e][j])'
    <3>1. Before(inbox[b][i], fromDev[e][j])
      BY DEF IInv, SeenInv
    <3>2. /\ inbox[b][i]' = inbox[b][i] /\ fromDev[e][j]' = fromDev[e][j]
          /\ inbox[b][i] \in Piece /\ Accepted(inbox[b][i].cmd) # {}
          /\ fromDev[e][j] \in Piece /\ Accepted(fromDev[e][j].cmd) # {}
      BY <1>7, <1>8, <1>10
    <3> QED BY <1>6, <3>1, <3>2
  <2> QED BY <2>1, <2>2, <2>3
<1>14. InboxInv'
  <2> SUFFICES ASSUME NEW b \in Conns, NEW i \in DOMAIN inbox[b], NEW j \in DOMAIN inbox[b],
                      i < j, inbox[b][i].cmd.dev = inbox[b][j].cmd.dev
               PROVE  Before(inbox[b][i], inbox[b][j])'
    BY <1>7 DEF InboxInv
  <2>1. Before(inbox[b][i], inbox[b][j])
    BY DEF IInv, InboxInv
  <2> QED BY <1>6, <1>7, <1>10, <2>1
<1> QED BY <1>3, <1>4, <1>5, <1>12, <1>13, <1>14 DEF IInv

\* What the pieces of an answer add to a queue
LEMMA PiecesFollow ==
    ASSUME NEW q \in Seq(Piece), NEW r \in Cmd
    PROVE  /\ q \o Answer(r) \in Seq(Piece)
           /\ Len(q) \in Nat /\ \A k \in DOMAIN q : k <= Len(q)
           /\ \A k \in DOMAIN (q \o Answer(r)) :
                 /\ k \in Nat
                 /\ \/ k \in DOMAIN q /\ (q \o Answer(r))[k] = q[k]
                    \/ /\ k > Len(q)
                       /\ (q \o Answer(r))[k].cmd = r
                       /\ (q \o Answer(r))[k].part = k - Len(q)
<1>1. Parts \in Nat
  BY RelayAssumption
<1>2. PICK a : a = Answer(r)
  OBVIOUS
<1>3. /\ a \in Seq(Piece) /\ Len(a) = Parts
      /\ \A p \in 1 .. Parts : a[p].cmd = r /\ a[p].part = p
  BY <1>1, <1>2 DEF Answer, Piece
<1>4. /\ q \o a \in Seq(Piece)
      /\ Len(q) \in Nat /\ DOMAIN q = 1 .. Len(q) /\ DOMAIN (q \o a) = 1 .. (Len(q) + Parts)
      /\ \A k \in 1 .. (Len(q) + Parts) :
            (q \o a)[k] = IF k <= Len(q) THEN q[k] ELSE a[k - Len(q)]
  BY <1>1, <1>3
<1>5. ASSUME NEW k \in 1 .. (Len(q) + Parts), k > Len(q)
      PROVE  (q \o a)[k].cmd = r /\ (q \o a)[k].part = k - Len(q)
  <2>1. k - Len(q) \in 1 .. Parts /\ (q \o a)[k] = a[k - Len(q)]
    BY <1>1, <1>4, <1>5
  <2> QED BY <1>3, <2>1
<1>6. \A k \in 1 .. (Len(q) + Parts) : k \in Nat /\ (k > Len(q) \/ (k \in DOMAIN q /\ (q \o a)[k] = q[k]))
  BY <1>1, <1>4
<1> QED
  <2>1. ASSUME NEW k \in DOMAIN (q \o a)
        PROVE  /\ k \in Nat
               /\ \/ k \in DOMAIN q /\ (q \o a)[k] = q[k]
                  \/ k > Len(q) /\ (q \o a)[k].cmd = r /\ (q \o a)[k].part = k - Len(q)
    <3>1. k \in 1 .. (Len(q) + Parts)
      BY <1>4
    <3> QED BY <1>5, <1>6, <3>1
  <2>2. \A k \in DOMAIN q : k <= Len(q)
    OBVIOUS
  <2> QED BY <1>2, <1>4, <2>1, <2>2

LEMMA StepServe ==
    ASSUME IInv, NEW d \in Devices, Serve(d) PROVE IInv'
<1>1. /\ toDev[d] # <<>>
      /\ toDev' = [toDev EXCEPT ![d] = Tail(@)]
      /\ fromDev' = [fromDev EXCEPT ![d] = @ \o Answer(Head(toDev[d]))]
      /\ UNCHANGED <<client, known, up, nserid, inbox, asked, log>>
  BY DEF Serve
<1>2. /\ toDev[d] \in Seq(Cmd) /\ fromDev[d] \in Seq(Piece)
      /\ toDev'[d] = Tail(toDev[d]) /\ fromDev'[d] = fromDev[d] \o Answer(toDev[d][1])
      /\ \A e \in Devices : e # d => toDev'[e] = toDev[e] /\ fromDev'[e] = fromDev[e]
  BY <1>1, Contents DEF IInv, TypeOK
<1>3. /\ 1 \in DOMAIN toDev[d] /\ Tail(toDev[d]) \in Seq(Cmd) /\ toDev[d][1] \in Cmd
      /\ \A k \in DOMAIN toDev'[d] : /\ k \in Nat /\ k + 1 > 1 /\ k + 1 \in DOMAIN toDev[d]
                                     /\ toDev'[d][k] = toDev[d][k + 1]
  <2>1. toDev[d] \in Seq(Cmd) /\ toDev[d] # <<>> /\ toDev'[d] = Tail(toDev[d])
    BY <1>1, <1>2
  <2> HIDE <1>1, <1>2
  <2> QED BY <2>1, Shifted
<1>4. /\ fromDev'[d] \in Seq(Piece)
      /\ \A k \in DOMAIN fromDev'[d] :
            /\ k \in Nat
            /\ \/ k \in DOMAIN fromDev[d] /\ fromDev'[d][k] = fromDev[d][k]
               \/ /\ k > Len(fromDev[d])
                  /\ fromDev'[d][k].cmd = toDev[d][1]
                  /\ fromDev'[d][k].part = k - Len(fromDev[d])
      /\ Len(fromDev[d]) \in Nat /\ \A k \in DOMAIN fromDev[d] : k <= Len(fromDev[d])
  <2>1. PICK q \in Seq(Piece) : q = fromDev[d]
    BY <1>2
  <2>2. PICK r \in Cmd : r = toDev[d][1]
    BY <1>3
  <2>3. fromDev'[d] = q \o Answer(r)
    BY <1>2, <2>1, <2>2
  <2> HIDE <1>1, <1>2, <1>3
  <2>4. /\ q \o Answer(r) \in Seq(Piece)
        /\ Len(q) \in Nat /\ \A k \in DOMAIN q : k <= Len(q)
        /\ \A k \in DOMAIN (q \o Answer(r)) :
              /\ k \in Nat
              /\ \/ k \in DOMAIN q /\ (q \o Answer(r))[k] = q[k]
                 \/ /\ k > Len(q)
                    /\ (q \o Answer(r))[k].cmd = r
                    /\ (q \o Answer(r))[k].part = k - Len(q)
    BY PiecesFollow
  <2> QED BY <2>1, <2>2, <2>3, <2>4
<1>5. TypeOK'
  BY <1>1, <1>2, <1>3, <1>4 DEF IInv, TypeOK, client
<1>6. LogInv' /\ LastInv'
  BY <1>1 DEF IInv, LogInv, LastInv
<1>7. \A r : Accepted(r)' = Accepted(r)
  BY <1>1 DEF Accepted
<1>8. \A r, s : (Before(r, s)' <=> Before(r, s)) /\ (Earlier(r, s)' <=> Earlier(r, s))
  BY <1>7 DEF Before, Earlier
<1>9. QueueInv'
  <2> SUFFICES ASSUME NEW e \in Devices
               PROVE  /\ \A i \in DOMAIN toDev'[e] : OnTheWay(e, toDev'[e][i])
                      /\ \A i \in DOMAIN fromDev'[e] : OnTheWay(e, fromDev'[e][i].cmd)
                      /\ \A i, j \in DOMAIN toDev'[e] :
                            i < j => Earlier(toDev'[e][i], toDev'[e][j])
                      /\ \A i, j \in DOMAIN fromDev'[e] :
                            i < j => Before(fromDev'[e][i], fromDev'[e][j])
                      /\ \A i \in DOMAIN fromDev'[e], j \in DOMAIN toDev'[e] :
                            Earlier(fromDev'[e][i].cmd, toDev'[e][j])
    BY <1>7, <1>8 DEF QueueInv, OnTheWay
  <2>1. CASE e # d
    BY <1>2, <2>1 DEF IInv, QueueInv
  <2>2. CASE e = d
    <3>1. \A i \in DOMAIN toDev'[d] : OnTheWay(d, toDev'[d][i])
      BY <1>3 DEF IInv, QueueInv
    <3>2. \A i \in DOMAIN fromDev'[d] : OnTheWay(d, fromDev'[d][i].cmd)
      BY <1>3, <1>4 DEF IInv, QueueInv
    <3>3. \A i, j \in DOMAIN toDev'[d] : i < j => Earlier(toDev'[d][i], toDev'[d][j])
      BY <1>3 DEF IInv, QueueInv
    <3>4. ASSUME NEW i \in DOMAIN fromDev'[d], NEW j \in DOMAIN fromDev'[d], i < j
          PROVE  Before(fromDev'[d][i], fromDev'[d][j])
      <4>1. CASE j \in DOMAIN fromDev[d] /\ fromDev'[d][j] = fromDev[d][j]
        <5>1. i \in DOMAIN fromDev[d] /\ fromDev'[d][i] = fromDev[d][i]
          BY <1>4, <3>4, <4>1
        <5> QED BY <3>4, <4>1, <5>1 DEF IInv, QueueInv
      <4>2. CASE i \in DOMAIN fromDev[d] /\ fromDev'[d][i] = fromDev[d][i]
                 /\ fromDev'[d][j].cmd = toDev[d][1]
        <5>1. Earlier(fromDev[d][i].cmd, toDev[d][1])
          BY <1>3, <4>2 DEF IInv, QueueInv
        <5> QED BY <4>2, <5>1 DEF Earlier, Before
      <4>3. CASE /\ fromDev'[d][i].cmd = toDev[d][1] /\ fromDev'[d][j].cmd = toDev[d][1]
                 /\ fromDev'[d][i].part = i - Len(fromDev[d])
                 /\ fromDev'[d][j].part = j - Len(fromDev[d])
        <5>1. fromDev'[d][i].part < fromDev'[d][j].part
          BY <1>4, <3>4, <4>3
        <5>2. \A k, l \in Accepted(toDev[d][1]) : k = l
          BY <1>3, OnePlace DEF IInv
        <5> QED BY <4>3, <5>1, <5>2 DEF Before
      <4> QED BY <1>4, <3>4, <4>1, <4>2, <4>3
    <3>5. \A i \in DOMAIN fromDev'[d], j \in DOMAIN toDev'[d] :
              Earlier(fromDev'[d][i].cmd, toDev'[d][j])
      BY <1>3, <1>4 DEF IInv, QueueInv
    <3> QED BY <2>2, <3>1, <3>2, <3>3, <3>4, <3>5
  <2> QED BY <2>1, <2>2
<1>10. SeenInv'
  <2> SUFFICES ASSUME NEW b \in Conns, NEW e \in Devices, NEW i \in DOMAIN inbox[b],
                      inbox[b][i].cmd.dev = e
               PROVE  /\ Accepted(inbox[b][i].cmd) # {}
                      /\ \A j \in DOMAIN toDev'[e] : Earlier(inbox[b][i].cmd, toDev'[e][j])
                      /\ \A j \in DOMAIN fromDev'[e] : Before(inbox[b][i], fromDev'[e][j])
    BY <1>1, <1>7, <1>8 DEF SeenInv
  <2>1. /\ Accepted(inbox[b][i].cmd) # {}
        /\ \A j \in DOMAIN toDev[e] : Earlier(inbox[b][i].cmd, toDev[e][j])
        /\ \A j \in DOMAIN fromDev[e] : Before(inbox[b][i], fromDev[e][j])
    BY DEF IInv, SeenInv
  <2>2. CASE e # d
    BY <1>2, <2>1, <2>2
  <2>3. CASE e = d
    <3>1. \A j \in DOMAIN toDev'[e] : Earlier(inbox[b][i].cmd, toDev'[e][j])
      BY <1>3, <2>1, <2>3
    <3>2. Earlier(inbox[b][i].cmd, toDev[d][1])
      BY <1>3, <2>1, <2>3
    <3>3. ASSUME NEW j \in DOMAIN fromDev'[e] PROVE Before(inbox[b][i], fromDev'[e][j])
      <4>1. CASE j \in DOMAIN fromDev[d] /\ fromDev'[d][j] = fromDev[d][j]
        BY <2>1, <2>3, <4>1
      <4>2. CASE fromDev'[d][j].cmd = toDev[d][1]
        BY <2>3, <3>2, <4>2 DEF Before, Earlier
      <4> QED BY <1>4, <2>3, <4>1, <4>2
    <3> QED BY <2>1, <3>1, <3>3
  <2> QED BY <2>2, <2>3
<1>11. InboxInv'
  BY <1>1, <1>8 DEF IInv, InboxInv
<1> QED BY <1>5, <1>6, <1>9, <1>10, <1>11 DEF IInv

LEMMA StepRead ==
    ASSUME IInv, NEW d \in Devices, ReadAnswer(d) PROVE IInv'
<1>1. PICK r : r = Head(fromDev[d])
  OBVIOUS
<1>2. /\ fromDev[d] # <<>>
      /\ fromDev' = [fromDev EXCEPT ![d] = Tail(@)]
      /\ inbox' = [c \in Conns |-> IF fd_of[c] # None /\ fd_of[c] = nserid[d]
                                   THEN Append(inbox[c], r) ELSE inbox[c]]
      /\ UNCHANGED <<client, known, up, toDev, nserid, asked, log>>
  BY <1>1 DEF ReadAnswer
<1>3. /\ fromDev[d] \in Seq(Piece) /\ fromDev'[d] = Tail(fromDev[d])
      /\ \A e \in Devices : e # d => fromDev'[e] = fromDev[e]
  BY <1>2, Contents DEF IInv, TypeOK
<1>4. /\ Tail(fromDev[d]) \in Seq(Piece) /\ 1 \in DOMAIN fromDev[d] /\ r = fromDev[d][1]
      /\ r \in Piece /\ r.cmd \in Cmd
      /\ \A k \in DOMAIN fromDev'[d] : /\ k \in Nat /\ k + 1 > 1 /\ k + 1 \in DOMAIN fromDev[d]
                                       /\ fromDev'[d][k] = fromDev[d][k + 1]
  <2>1. fromDev[d] \in Seq(Piece) /\ fromDev[d] # <<>> /\ fromDev'[d] = Tail(fromDev[d])
    BY <1>2, <1>3
  <2> HIDE <1>2, <1>3
  <2>2. r \in Piece
    BY <2>1, <1>1, Shifted
  <2>3. r.cmd \in Cmd
    BY <2>2 DEF Piece
  <2> QED BY <2>1, <2>2, <2>3, <1>1, Shifted
<1>5. /\ r.cmd.dev = d /\ Accepted(r.cmd) # {}
      /\ \A j \in DOMAIN toDev[d] : Earlier(r.cmd, toDev[d][j])
      /\ \A j \in DOMAIN fromDev'[d] : Before(r, fromDev'[d][j])
  BY <1>4 DEF IInv, QueueInv, OnTheWay
<1>6. ASSUME NEW c \in Conns
      PROVE  /\ inbox'[c] \in Seq(Piece)
             /\ \A i \in DOMAIN inbox'[c] : \/ i \in DOMAIN inbox[c] /\ inbox'[c][i] = inbox[c][i]
                                            \/ inbox'[c][i] = r
             /\ \A i, j \in DOMAIN inbox'[c] :
                    i < j => i \in DOMAIN inbox[c] /\ inbox'[c][i] = inbox[c][i]
  <2>1. inbox[c] \in Seq(Piece)
    BY Contents DEF IInv
  <2>2. CASE inbox'[c] = inbox[c]
    BY <2>1, <2>2
  <2>3. CASE inbox'[c] = Append(inbox[c], r)
    BY <2>1, <2>3, <1>4, Appended
  <2> QED BY <1>2, <2>2, <2>3
<1>7. TypeOK'
  <2>1. inbox' \in [Conns -> Seq(Piece)]
    BY <1>2, <1>6
  <2>2. fromDev' \in [Devices -> Seq(Piece)]
    BY <1>2, <1>3, <1>4 DEF IInv, TypeOK
  <2> QED BY <2>1, <2>2, <1>2 DEF IInv, TypeOK, client
<1>8. LogInv' /\ LastInv'
  BY <1>2 DEF IInv, LogInv, LastInv
<1>9. \A q : Accepted(q)' = Accepted(q)
  BY <1>2 DEF Accepted
<1>10. \A q, s : (Before(q, s)' <=> Before(q, s)) /\ (Earlier(q, s)' <=> Earlier(q, s))
  BY <1>9 DEF Before, Earlier
<1>11. toDev' = toDev
  BY <1>2
<1>12. QueueInv'
  <2> SUFFICES ASSUME NEW e \in Devices
               PROVE  /\ \A i \in DOMAIN toDev[e] : OnTheWay(e, toDev[e][i])
                      /\ \A i \in DOMAIN fromDev'[e] : OnTheWay(e, fromDev'[e][i].cmd)
                      /\ \A i, j \in DOMAIN toDev[e] :
                            i < j => Earlier(toDev[e][i], toDev[e][j])
                      /\ \A i, j \in DOMAIN fromDev'[e] :
                            i < j => Before(fromDev'[e][i], fromDev'[e][j])
                      /\ \A i \in DOMAIN fromDev'[e], j \in DOMAIN toDev[e] :
                            Earlier(fromDev'[e][i].cmd, toDev[e][j])
    BY <1>9, <1>10, <1>11 DEF QueueInv, OnTheWay
  <2>1. CASE e # d
    BY <1>3, <2>1 DEF IInv, QueueInv
  <2>2. CASE e = d
    BY <1>4, <2>2 DEF IInv, QueueInv
  <2> QED BY <2>1, <2>2
<1>13. SeenInv'
  <2> SUFFICES ASSUME NEW b \in Conns, NEW e \in Devices, NEW i \in DOMAIN inbox'[b],
                      inbox'[b][i].cmd.dev = e
               PROVE  /\ Accepted(inbox'[b][i].cmd) # {}
                      /\ \A j \in DOMAIN toDev[e] : Earlier(inbox'[b][i].cmd, toDev[e][j])
                      /\ \A j \in DOMAIN fromDev'[e] : Before(inbox'[b][i], fromDev'[e][j])
    BY <1>9, <1>10, <1>11 DEF SeenInv
  <2>1. CASE inbox'[b][i] = r
    BY <1>5, <2>1
  <2>2. CASE i \in DOMAIN inbox[b] /\ inbox'[b][i] = inbox[b][i]
    <3>1. /\ Accepted(inbox[b][i].cmd) # {}
          /\ \A j \in DOMAIN toDev[e] : Earlier(inbox[b][i].cmd, toDev[e][j])
          /\ \A j \in DOMAIN fromDev[e] : Before(inbox[b][i], fromDev[e][j])
      BY <2>2 DEF IInv, SeenInv
    <3>2. CASE e # d
      BY <1>3, <2>2, <3>1, <3>2
    <3>3. CASE e = d
      BY <1>4, <2>2, <3>1, <3>3
    <3> QED BY <3>2, <3>3
  <2> QED BY <1>6, <2>1, <2>2
<1>14. InboxInv'
  <2> SUFFICES ASSUME NEW b \in Conns, NEW i \in DOMAIN inbox'[b], NEW j \in DOMAIN inbox'[b],
                      i < j, inbox'[b][i].cmd.dev = inbox'[b][j].cmd.dev
               PROVE  Before(inbox'[b][i], inbox'[b][j])
    BY <1>10 DEF InboxInv
  <2>1. i \in DOMAIN inbox[b] /\ inbox'[b][i] = inbox[b][i]
    BY <1>6
  <2>2. CASE j \in DOMAIN inbox[b] /\ inbox'[b][j] = inbox[b][j]
    BY <2>1, <2>2 DEF IInv, InboxInv
  <2>3. CASE inbox'[b][j] = r
    BY <1>4, <1>5, <2>1, <2>3 DEF IInv, SeenInv
  <2> QED BY <1>6, <2>2, <2>3
<1> QED BY <1>7, <1>8, <1>12, <1>13, <1>14 DEF IInv

LEMMA StepLinkDown ==
    ASSUME IInv, NEW d \in Devices, LinkDown(d) PROVE IInv'
<1>1. /\ up' = up \ {d}
      /\ toDev' = [toDev EXCEPT ![d] = <<>>]
      /\ fromDev' = [fromDev EXCEPT ![d] = <<>>]
      /\ UNCHANGED <<client, known, nserid, inbox, asked, log>>
  BY DEF LinkDown
<1>2. /\ toDev'[d] = <<>> /\ fromDev'[d] = <<>>
      /\ \A e \in Devices : e # d => toDev'[e] = toDev[e] /\ fromDev'[e] = fromDev[e]
      /\ DOMAIN toDev'[d] = {} /\ DOMAIN fromDev'[d] = {}
  BY <1>1 DEF IInv, TypeOK
<1>3. TypeOK'
  <2>1. <<>> \in Seq(Cmd) /\ <<>> \in Seq(Piece)
    OBVIOUS
  <2>2. toDev' \in [Devices -> Seq(Cmd)] /\ fromDev' \in [Devices -> Seq(Piece)]
    BY <1>1, <2>1 DEF IInv, TypeOK
  <2>3. up' \in SUBSET known'
    BY <1>1 DEF IInv, TypeOK
  <2> QED BY <1>1, <2>2, <2>3 DEF IInv, TypeOK, client
<1>4. LogInv' /\ LastInv'
  BY <1>1 DEF IInv, LogInv, LastInv
<1>5. \A q : Accepted(q)' = Accepted(q)
  BY <1>1 DEF Accepted
<1>6. \A q, s : (Before(q, s)' <=> Before(q, s)) /\ (Earlier(q, s)' <=> Earlier(q, s))
  BY <1>5 DEF Before, Earlier
<1>7. QueueInv'
  <2> SUFFICES ASSUME NEW e \in Devices
               PROVE  /\ \A i \in DOMAIN toDev'[e] : OnTheWay(e, toDev'[e][i])
                      /\ \A i \in DOMAIN fromDev'[e] : OnTheWay(e, fromDev'[e][i].cmd)
                      /\ \A i, j \in DOMAIN toDev'[e] :
                            i < j => Earlier(toDev'[e][i], toDev'[e][j])
                      /\ \A i, j \in DOMAIN fromDev'[e] :
                            i < j => Before(fromDev'[e][i], fromDev'[e][j])
                      /\ \A i \in DOMAIN fromDev'[e], j \in DOMAIN toDev'[e] :
                            Earlier(fromDev'[e][i].cmd, toDev'[e][j])
    BY <1>5, <1>6 DEF QueueInv, OnTheWay
  <2>1. CASE e = d
    BY <1>2, <2>1
  <2>2. CASE e # d
    <3>1. toDev'[e] = toDev[e] /\ fromDev'[e] = fromDev[e]
      BY <1>2, <2>2
    <3> QED BY <1>5, <3>1 DEF IInv, QueueInv, OnTheWay
  <2> QED BY <2>1, <2>2
<1>8. SeenInv'
  BY <1>1, <1>2, <1>5, <1>6 DEF IInv, SeenInv
<1>9. InboxInv'
  BY <1>1, <1>6 DEF IInv, InboxInv
<1> QED BY <1>3, <1>4, <1>7, <1>8, <1>9 DEF IInv

LEMMA NextInv == IInv /\ [Next]_vars => IInv'
<1> SUFFICES ASSUME IInv, [Next]_vars PROVE IInv'
  OBVIOUS
<1>1. ASSUME UNCHANGED <<log, toDev, fromDev, inbox, nserid>>, asked' = asked, TypeOK' PROVE IInv'
  <2>1. LogInv' /\ LastInv'
    BY <1>1 DEF IInv, LogInv, LastInv
  <2> QED BY <1>1, <2>1, Untouched DEF IInv
<1>2. ASSUME NEW c \in Conns, NEW fd \in FDs, Connect(c, fd) PROVE IInv'
  <2>1. TypeOK'
    BY <1>2 DEF Connect, IInv, TypeOK, device
  <2> QED BY <1>1, <1>2, <2>1 DEF Connect, device
<1>3. ASSUME NEW c \in Conns, Disconnect(c) PROVE IInv'
  <2>1. TypeOK'
    BY <1>3 DEF Disconnect, IInv, TypeOK, device
  <2> QED BY <1>1, <1>3, <2>1 DEF Disconnect, device
<1>4. ASSUME NEW c \in Conns, NEW d \in Devices, Register(c, d) PROVE IInv'
  <2>1. TypeOK'
    BY <1>4 DEF Register, IInv, TypeOK
  <2> QED BY <1>1, <1>4, <2>1 DEF Register
<1>5. ASSUME NEW c \in Conns, NEW d \in Devices, RegisterFails(c, d) PROVE IInv'
  <2>1. TypeOK'
    BY <1>5 DEF RegisterFails, IInv, TypeOK, device
  <2> QED BY <1>1, <1>5, <2>1 DEF RegisterFails, device
<1>6. ASSUME NEW c \in Conns, CommandDropped(c) PROVE IInv'
  <2>1. TypeOK' /\ \A b \in Conns : asked[b] <= asked'[b]
    <3>1. asked' = [asked EXCEPT ![c] = @ + 1] /\ asked[c] < MaxCmds /\ c \in Conns
          /\ asked \in [Conns -> 0 .. MaxCmds]
      BY <1>6 DEF CommandDropped, CanSend, IInv, TypeOK
    <3>2. asked' \in [Conns -> 0 .. MaxCmds] /\ \A b \in Conns : asked[b] <= asked'[b]
      BY <3>1, RelayAssumption
    <3> QED BY <1>6, <3>2 DEF CommandDropped, IInv, TypeOK, client, device
  <2>2. UNCHANGED <<log, toDev, fromDev, inbox, nserid>>
    BY <1>6 DEF CommandDropped, device
  <2>3. LogInv'
    <3>1. \A d \in Devices : \A k \in DOMAIN log[d] : log[d][k].cmd.conn \in Conns
                                                     /\ log[d][k].cmd.n \in Nat
      <4>1. \A d \in Devices : log[d] \in Seq([cmd : Cmd, fd : FDs])
        BY DEF IInv, TypeOK
      <4>2. \A d \in Devices : \A k \in DOMAIN log[d] : log[d][k].cmd \in Cmd
        <5>1. \A q \in Seq(Entry) : \A k \in DOMAIN q : q[k] \in Entry
          OBVIOUS
        <5>2. \A x \in Entry : x.cmd \in Cmd
          BY DEF Entry
        <5>3. \A d \in Devices : log[d] \in Seq(Entry)
          BY <4>1 DEF Entry
        <5> QED BY <5>1, <5>2, <5>3
      <4> QED BY <4>2 DEF Cmd
    <3>2. asked \in [Conns -> Nat] /\ asked' \in [Conns -> Nat]
      BY <2>1 DEF IInv, TypeOK
    <3> QED BY <2>1, <2>2, <3>1, <3>2 DEF IInv, LogInv
  <2>4. LastInv'
    BY <2>2 DEF IInv, LastInv
  <2> QED BY <2>1, <2>2, <2>3, <2>4, Untouched DEF IInv
<1>7. ASSUME NEW d \in Devices, LinkUp(d) PROVE IInv'
  <2>1. TypeOK'
    BY <1>7 DEF LinkUp, IInv, TypeOK, client
  <2> QED BY <1>1, <1>7, <2>1 DEF LinkUp
<1>8. CASE UNCHANGED vars
  <2>1. TypeOK'
    BY <1>8 DEF IInv, TypeOK, vars, client, device
  <2> QED BY <1>1, <1>8, <2>1 DEF vars, device
<1> QED
  BY <1>2, <1>3, <1>4, <1>5, <1>6, <1>7, <1>8, StepSend, StepNotAdded, StepServe, StepRead,
     StepLinkDown
  DEF Next

-----------------------------------------------------------------------------
\* Every command and answer on its way is of one of the commands the clients sent,
\* and the queues keep their order (sernet.c, cmdagent.c, devcom.c, devnet.c).
THEOREM Invariant == Spec => []IInv
  BY InitInv, NextInv, PTL DEF Spec

\* The variables keep their types, for any sets of clients and devices.
THEOREM TypeCorrect == Spec => []TypeOK
  BY Invariant, PTL DEF IInv

\* A client sees the answers of one device in the order in which its link took
\* the commands, and none twice.
THEOREM Ordered == Spec => []AnswersInOrder
<1>1. IInv => AnswersInOrder
  BY DEF IInv, InboxInv, Before, AnswersInOrder
<1> QED BY <1>1, Invariant, PTL

-----------------------------------------------------------------------------
(***************************************************************************)
(* Relay implements Exchange.  A number belongs to one client at a time,   *)
(* and the log remembers for each command the number its client got: so if *)
(* an answer goes to another client than the one that asked last, that one *)
(* has left.                                                               *)
(***************************************************************************)

NumberInv ==
    /\ \A c \in Conns : fd_of[c] \in {None, given[c]}
    /\ \A c, e \in Conns : fd_of[c] = fd_of[e] /\ fd_of[c] # None => c = e
    /\ \A d \in Devices : \A k \in DOMAIN log[d] : log[d][k].fd = given[log[d][k].cmd.conn]

\* What the types say of a command in the log
LEMMA Logged ==
    ASSUME TypeOK
    PROVE  /\ \A d \in Devices : log[d] \in Seq(Entry)
           /\ \A d \in Devices : \A k \in DOMAIN log[d] :
                 /\ log[d][k] \in Entry /\ log[d][k].cmd \in Cmd /\ log[d][k].fd \in FDs
                 /\ log[d][k].cmd.conn \in Conns /\ log[d][k].cmd.n \in Nat
<1>1. \A d \in Devices : log[d] \in Seq(Entry)
  BY DEF TypeOK, Entry
<1>2. \A q \in Seq(Entry) : \A k \in DOMAIN q : q[k] \in Entry
  OBVIOUS
<1>3. \A x \in Entry : x.cmd \in Cmd /\ x.fd \in FDs
  BY DEF Entry
<1>4. \A r \in Cmd : r.conn \in Conns /\ r.n \in Nat
  BY DEF Cmd
<1> QED BY <1>1, <1>2, <1>3, <1>4

LEMMA InitNumber == Init => NumberInv
  BY DEF Init, NumberInv

\* A step that takes a command of c
LEMMA StepNumber ==
    ASSUME IInv, NumberInv, NEW c \in Conns, CanSend(c), reg[c] \in up,
           log' = [log EXCEPT ![reg[c]] = Append(@, [cmd |-> NextCmd(c), fd |-> fd_of[c]])],
           asked' = [asked EXCEPT ![c] = @ + 1], UNCHANGED <<fd_of, given>>
    PROVE  NumberInv'
<1> DEFINE new == NextCmd(c)
           entry == [cmd |-> new, fd |-> fd_of[c]]
<1>1. /\ reg[c] \in Devices /\ new \in Cmd /\ new.conn = c
      /\ entry.cmd = new /\ entry.fd = fd_of[c] /\ fd_of[c] = given[c] /\ entry \in Entry
  <2>1. reg[c] \in Devices /\ new \in Cmd
    BY Grown DEF IInv
  <2>2. fd_of[c] = given[c] /\ fd_of[c] \in FDs
    BY DEF NumberInv, CanSend, IInv, TypeOK
  <2> QED BY <2>1, <2>2 DEF NextCmd, Entry
<1>2. ASSUME NEW d \in Devices, NEW k \in DOMAIN log'[d]
      PROVE  \/ k \in DOMAIN log[d] /\ log'[d][k] = log[d][k]
             \/ log'[d][k] = entry
  <2> HIDE DEF entry
  <2>1. log[d] \in Seq(Entry) /\ log \in [Devices -> Seq([cmd : Cmd, fd : FDs])]
    BY Logged DEF IInv, TypeOK
  <2>2. CASE d # reg[c]
    BY <2>1, <2>2 DEF entry
  <2>3. CASE d = reg[c]
    <3>1. log'[d] = Append(log[d], entry)
      BY <1>1, <2>1, <2>3 DEF entry
    <3> QED BY <1>1, <1>2, <2>1, <3>1, Appended
  <2> QED BY <2>2, <2>3
<1>3. ASSUME NEW d \in Devices, NEW k \in DOMAIN log'[d]
      PROVE  log'[d][k].fd = given[log'[d][k].cmd.conn]
  <2> HIDE DEF entry, new
  <2>1. CASE k \in DOMAIN log[d] /\ log'[d][k] = log[d][k]
    BY <2>1 DEF NumberInv
  <2>2. CASE log'[d][k] = entry
    BY <1>1, <2>2
  <2> QED BY <1>2, <2>1, <2>2
<1> QED BY <1>3 DEF NumberInv

LEMMA NextNumber == IInv /\ NumberInv /\ [Next]_vars => NumberInv'
<1> SUFFICES ASSUME IInv, NumberInv, [Next]_vars PROVE NumberInv'
  OBVIOUS
<1>1. ASSUME NEW c \in Conns, NEW fd \in FDs, Connect(c, fd) PROVE NumberInv'
  <2>1. /\ given[c] = None /\ fd_of[c] = None /\ \A e \in Conns : fd_of[e] # fd
        /\ given'[c] = fd /\ fd_of'[c] = fd /\ fd # None /\ log' = log
        /\ \A e \in Conns : e # c => given'[e] = given[e] /\ fd_of'[e] = fd_of[e]
    BY <1>1, RelayAssumption DEF Connect, NumberInv, IInv, TypeOK
  <2>2. ASSUME NEW d \in Devices, NEW k \in DOMAIN log[d]
        PROVE  log[d][k].fd = given'[log[d][k].cmd.conn]
    <3>1. log[d][k].fd \in FDs /\ log[d][k].cmd.conn \in Conns /\ None \notin FDs
      BY Logged, RelayAssumption DEF IInv
    <3>2. log[d][k].cmd.conn # c
      BY <2>1, <3>1 DEF NumberInv
    <3> QED BY <2>1, <3>1, <3>2 DEF NumberInv
  <2> QED BY <2>1, <2>2 DEF NumberInv
<1>2. ASSUME NEW c \in Conns, Disconnect(c) PROVE NumberInv'
  BY <1>2 DEF Disconnect, NumberInv, IInv, TypeOK
<1>3. ASSUME NEW c \in Conns, CommandSent(c) \/ CommandNotAdded(c) PROVE NumberInv'
  BY <1>3, StepNumber DEF CommandSent, CommandNotAdded, client
<1>4. ASSUME UNCHANGED <<fd_of, given, log>> PROVE NumberInv'
  BY <1>4 DEF NumberInv
<1> QED
  BY <1>1, <1>2, <1>3, <1>4
  DEF Next, vars, client, Register, RegisterFails, CommandDropped, LinkUp, LinkDown, Serve,
      ReadAnswer

\* What a device answers reaches a client that did not ask only after a later command
\* from a connection with the client's number, or after who asked has left and the
\* client has got that number.
THEOREM Misrouted == Spec => MisrouteExplained
<1>1. IInv /\ NumberInv /\ [Next]_vars =>
      [\A c \in Conns : inbox'[c] # inbox[c] =>
          LET r == inbox'[c][Len(inbox'[c])].cmd
          IN  \/ r.conn = c
              \/ \E k \in Accepted(r), l \in DOMAIN log[r.dev] :
                     /\ log[r.dev][l].fd = fd_of[c]
                     /\ k < l \/ (k = l /\ fd_of[r.conn] = None)]_vars
  <2> SUFFICES ASSUME IInv, NumberInv, Next, NEW c \in Conns, inbox'[c] # inbox[c]
               PROVE  LET r == inbox'[c][Len(inbox'[c])].cmd
                      IN  \/ r.conn = c
                          \/ \E k \in Accepted(r), l \in DOMAIN log[r.dev] :
                                /\ log[r.dev][l].fd = fd_of[c]
                                /\ k < l \/ (k = l /\ fd_of[r.conn] = None)
    OBVIOUS
  <2>1. PICK d \in Devices : ReadAnswer(d)
    BY DEF Next, Connect, Disconnect, Register, RegisterFails, CommandSent, CommandNotAdded,
           CommandDropped, LinkUp, LinkDown, Serve
  <2>2. /\ fromDev[d] # <<>> /\ fromDev[d] \in Seq(Piece) /\ inbox[c] \in Seq(Piece)
        /\ inbox'[c] = Append(inbox[c], Head(fromDev[d]))
        /\ fd_of[c] # None /\ fd_of[c] = nserid[d]
    BY <2>1, Contents DEF ReadAnswer, IInv
  <2>3. Head(fromDev[d]) = fromDev[d][1] /\ 1 \in DOMAIN fromDev[d]
    BY <2>2, Shifted
  <2>4. inbox'[c][Len(inbox'[c])] = fromDev[d][1]
    BY <2>2, <2>3
  <2>5. PICK r \in Cmd : r = fromDev[d][1].cmd
    BY <2>3, Contents DEF IInv
  <2>6. r.dev = d /\ Accepted(r) # {}
    BY <2>3, <2>5 DEF IInv, QueueInv, OnTheWay
  <2>7. PICK k \in Accepted(r) : TRUE
    BY <2>6
  <2>8. k \in DOMAIN log[d] /\ log[d] \in Seq([cmd : Cmd, fd : FDs]) /\ log[d][k].cmd = r
    BY <2>6, <2>7 DEF Accepted, IInv, TypeOK
  <2>9. Len(log[d]) \in DOMAIN log[d] /\ k <= Len(log[d]) /\ log[d] # <<>>
        /\ k \in Nat /\ Len(log[d]) \in Nat
    BY <2>8
  <2>10. log[d][Len(log[d])].fd = fd_of[c]
    BY <2>2, <2>9 DEF IInv, LastInv
  <2>11. k = Len(log[d]) => r.conn = c \/ fd_of[r.conn] = None
    <3>1. r.conn \in Conns
      BY DEF Cmd
    <3>2. log[d][k].fd = given[r.conn]
      BY <2>8 DEF NumberInv
    <3>3. fd_of[r.conn] \in {None, given[r.conn]}
      BY <3>1 DEF NumberInv
    <3> QED BY <2>2, <2>10, <3>1, <3>2, <3>3 DEF NumberInv
  <2>12. inbox'[c][Len(inbox'[c])].cmd = r
    BY <2>4, <2>5
  <2>13. k < Len(log[d]) \/ k = Len(log[d])
    BY <2>9
  <2> QED BY <2>6, <2>7, <2>9, <2>10, <2>11, <2>12, <2>13
<1>2. Spec => [](IInv /\ NumberInv)
  BY Invariant, InitNumber, NextNumber, PTL DEF Spec
<1> QED BY <1>1, <1>2, PTL DEF Spec, MisrouteExplained

-----------------------------------------------------------------------------
LEMMA InitImplements == Init => Clients!Init
  BY DEF Init, Clients!Init, Left, Taken

\* Taking a command is seen as one more command taken.
LEMMA TakenGrows ==
    ASSUME IInv, NEW d \in Devices, NEW entry \in Entry,
           log' = [log EXCEPT ![d] = Append(@, entry)]
    PROVE  Taken' = [Taken EXCEPT ![d] = Append(@, entry.cmd)]
<1>1. log[d] \in Seq(Entry) /\ log \in [Devices -> Seq([cmd : Cmd, fd : FDs])]
  BY Logged DEF IInv, TypeOK
<1> DEFINE cmds(q) == [k \in DOMAIN q |-> q[k].cmd]
<1>2. cmds(Append(log[d], entry)) = Append(cmds(log[d]), entry.cmd)
  <2>1. PICK n \in Nat : n = Len(log[d])
    BY <1>1
  <2>2. /\ DOMAIN log[d] = 1 .. n /\ DOMAIN Append(log[d], entry) = 1 .. (n + 1)
        /\ Append(log[d], entry)[n + 1] = entry
        /\ \A k \in 1 .. n : Append(log[d], entry)[k] = log[d][k]
    BY <1>1, <2>1, Appended
  <2>3. cmds(log[d]) \in Seq(Cmd) /\ Len(cmds(log[d])) = n /\ entry.cmd \in Cmd
    <3>1. \A k \in 1 .. n : log[d][k].cmd \in Cmd
      BY <2>2, Logged DEF IInv
    <3>2. cmds(log[d]) = [k \in 1 .. n |-> log[d][k].cmd]
      BY <2>2
    <3> QED BY <2>1, <3>1, <3>2 DEF Entry
  <2>4. /\ DOMAIN Append(cmds(log[d]), entry.cmd) = 1 .. (n + 1)
        /\ Append(cmds(log[d]), entry.cmd)[n + 1] = entry.cmd
        /\ \A k \in 1 .. n : Append(cmds(log[d]), entry.cmd)[k] = cmds(log[d])[k]
    <3> HIDE DEF cmds
    <3> QED BY <2>3, Appended
  <2>5. ASSUME NEW k \in 1 .. (n + 1)
        PROVE  Append(log[d], entry)[k].cmd = Append(cmds(log[d]), entry.cmd)[k]
    <3>1. CASE k = n + 1
      BY <2>2, <2>4, <3>1
    <3>2. CASE k \in 1 .. n
      BY <2>2, <2>4, <3>2
    <3> QED BY <2>1, <3>1, <3>2
  <2>6. Append(cmds(log[d]), entry.cmd) = [k \in 1 .. (n + 1) |-> Append(cmds(log[d]), entry.cmd)[k]]
    BY <2>3, <2>4
  <2> QED BY <2>2, <2>5, <2>6
<1>3. Taken = [e \in Devices |-> cmds(log[e])] /\ Taken' = [e \in Devices |-> cmds(log'[e])]
  BY DEF Taken
<1>4. log'[d] = Append(log[d], entry) /\ \A e \in Devices : e # d => log'[e] = log[e]
  BY <1>1
<1> HIDE DEF cmds
<1>5. /\ Taken[d] = cmds(log[d]) /\ Taken'[d] = Append(Taken[d], entry.cmd)
      /\ \A e \in Devices : e # d => Taken'[e] = Taken[e]
  BY <1>2, <1>3, <1>4
<1>6. Taken = [e \in Devices |-> Taken[e]] /\ Taken' = [e \in Devices |-> Taken'[e]]
  BY <1>3
<1> QED BY <1>5, <1>6

LEMMA TakeStep ==
    ASSUME IInv, NumberInv, NEW c \in Conns, CanSend(c), reg[c] \in up,
           log' = [log EXCEPT ![reg[c]] = Append(@, [cmd |-> NextCmd(c), fd |-> fd_of[c]])],
           UNCHANGED <<fd_of, given, inbox>>
    PROVE  Clients!Next
<1> DEFINE new == NextCmd(c)
           entry == [cmd |-> new, fd |-> fd_of[c]]
<1>1. /\ reg[c] \in Devices /\ asked[c] \in Nat /\ asked[c] + 1 <= MaxCmds /\ fd_of[c] \in FDs
  BY RelayAssumption DEF CanSend, IInv, TypeOK
<1>2. new \in Cmd /\ new.dev = reg[c] /\ new.conn = c /\ new.n = asked[c] + 1
  BY <1>1, RelayAssumption DEF NextCmd, Cmd
<1>3. entry \in Entry /\ entry.cmd = new
  BY <1>1, <1>2 DEF Entry
<1>4. Taken' = [Taken EXCEPT ![new.dev] = Append(@, new)]
  <2> HIDE DEF entry, new
  <2>1. log' = [log EXCEPT ![reg[c]] = Append(@, entry)]
    BY DEF entry, new
  <2>2. Taken' = [Taken EXCEPT ![reg[c]] = Append(@, entry.cmd)]
    BY <1>1, <1>3, <2>1, TakenGrows
  <2> QED BY <1>2, <1>3, <2>2
<1>5. ASSUME NEW d \in Devices, NEW k \in DOMAIN Taken[d], Taken[d][k].conn = c
      PROVE  Taken[d][k].n < new.n
  <2>1. k \in DOMAIN log[d] /\ Taken[d][k] = log[d][k].cmd
    BY DEF Taken
  <2>2. log[d][k].cmd.n <= asked[log[d][k].cmd.conn] /\ log[d][k].cmd.n \in Nat
    BY <2>1, Logged DEF IInv, LogInv
  <2> QED BY <1>1, <1>2, <1>5, <2>1, <2>2
<1>6. c \notin Left /\ Left' = Left
  BY DEF Left, CanSend
<1> HIDE DEF new
<1>7. Clients!Take(new)
  BY <1>2, <1>4, <1>5, <1>6 DEF Clients!Take
<1> QED BY <1>2, <1>7 DEF Clients!Next

LEMMA AnswerStep ==
    ASSUME IInv, NumberInv, NEW d \in Devices, ReadAnswer(d)
    PROVE  Clients!Next \/ UNCHANGED Clients!vars
<1> DEFINE h == fromDev[d][1]
<1>1. /\ fromDev[d] \in Seq(Piece) /\ Head(fromDev[d]) = h /\ 1 \in DOMAIN fromDev[d]
      /\ h \in Piece /\ h.cmd \in Cmd /\ h.part \in 1 .. Parts
  BY Contents, Shifted DEF IInv, ReadAnswer, Piece
<1>2. inbox' = [c \in Conns |-> IF fd_of[c] # None /\ fd_of[c] = nserid[d]
                                THEN Append(inbox[c], h) ELSE inbox[c]]
  BY <1>1 DEF ReadAnswer
<1>3. inbox \in [Conns -> Seq(Piece)]
  BY DEF IInv, TypeOK
<1>4. Left' = Left /\ Taken' = Taken
  BY DEF ReadAnswer, client, Left, Taken
<1>5. CASE \A c \in Conns : ~ (fd_of[c] # None /\ fd_of[c] = nserid[d])
  <2>1. inbox' = inbox
    BY <1>2, <1>3, <1>5
  <2> QED BY <1>4, <2>1 DEF Clients!vars
<1>6. CASE \E c \in Conns : fd_of[c] # None /\ fd_of[c] = nserid[d]
  <2>1. PICK c \in Conns : fd_of[c] # None /\ fd_of[c] = nserid[d]
    BY <1>6
  <2>2. inbox' = [inbox EXCEPT ![c] = Append(@, h)]
    <3>1. \A e \in Conns : fd_of[e] # None /\ fd_of[e] = nserid[d] <=> e = c
      BY <2>1 DEF NumberInv
    <3> HIDE DEF h
    <3> QED BY <1>2, <1>3, <3>1
  <2>3. h.cmd.dev = d /\ Accepted(h.cmd) # {}
    BY <1>1 DEF IInv, QueueInv, OnTheWay
  <2>4. PICK k \in DOMAIN log[d] : k \in Accepted(h.cmd) /\ log[d][k].cmd = h.cmd
    BY <2>3 DEF Accepted
  <2>5. k \in DOMAIN Taken[d] /\ Taken[d][k] = h.cmd
    BY <2>4 DEF Taken
  <2>6. Clients!Unanswered(d, k, h.part)
    <3> SUFFICES ASSUME NEW b \in Conns, NEW i \in DOMAIN inbox[b], NEW j \in DOMAIN Taken[d],
                        inbox[b][i].cmd = Taken[d][j]
                 PROVE  j < k \/ (j = k /\ inbox[b][i].part < h.part)
      BY DEF Clients!Unanswered
    <3>1. j \in DOMAIN log[d] /\ log[d][j].cmd = inbox[b][i].cmd
      BY DEF Taken
    <3>2. inbox[b][i].cmd.dev = d
      BY <3>1 DEF IInv, LogInv
    <3>3. j \in Accepted(inbox[b][i].cmd)
      BY <3>1, <3>2 DEF Accepted
    <3>4. Before(inbox[b][i], h)
      BY <1>1, <3>2 DEF IInv, SeenInv
    <3> QED BY <2>4, <3>3, <3>4 DEF Before
  <2>7. Taken[d][Len(Taken[d])].conn \in {c} \cup Left
    <3>1. log[d] \in Seq(Entry) /\ log[d] # <<>>
      BY <2>4, Logged DEF IInv
    <3>2. Len(log[d]) \in DOMAIN log[d] /\ DOMAIN log[d] = 1 .. Len(log[d]) /\ Len(log[d]) \in Nat
      BY <3>1
    <3>3. Len(Taken[d]) = Len(log[d])
      BY <3>2 DEF Taken
    <3>4. PICK e \in Conns : e = log[d][Len(log[d])].cmd.conn
      BY <3>2, Logged DEF IInv
    <3>5. Taken[d][Len(Taken[d])].conn = e
      BY <3>2, <3>3, <3>4 DEF Taken
    <3>6. given[e] = fd_of[c]
      BY <2>1, <3>1, <3>2, <3>4 DEF IInv, LastInv, NumberInv
    <3>7. e = c \/ fd_of[e] = None
      BY <2>1, <3>6 DEF NumberInv
    <3> QED BY <2>1, <3>5, <3>6, <3>7 DEF Left
  <2>8. c \notin Left
    BY <2>1 DEF Left
  <2>9. inbox' = [inbox EXCEPT ![c] = Append(@, [cmd |-> Taken[d][k], part |-> h.part])]
    <3>1. h = [cmd |-> h.cmd, part |-> h.part]
      BY <1>1 DEF Piece
    <3> HIDE DEF h
    <3> QED BY <2>2, <2>5, <3>1
  <2>10. Clients!Answer(d, k, h.part, c)
    BY <1>4, <2>5, <2>6, <2>7, <2>8, <2>9 DEF Clients!Answer
  <2> QED BY <1>1, <2>5, <2>10 DEF Clients!Next
<1> QED BY <1>5, <1>6

LEMMA StepImplements == IInv /\ NumberInv /\ [Next]_vars => [Clients!Next]_Clients!vars
<1> SUFFICES ASSUME IInv, NumberInv, [Next]_vars PROVE Clients!Next \/ UNCHANGED Clients!vars
  OBVIOUS
<1>1. ASSUME UNCHANGED <<Left, log, inbox>> PROVE UNCHANGED Clients!vars
  BY <1>1 DEF Clients!vars, Taken
<1>2. ASSUME NEW c \in Conns, NEW fd \in FDs, Connect(c, fd) PROVE UNCHANGED Clients!vars
  <2>1. /\ given[c] = None /\ fd_of[c] = None /\ given'[c] = fd /\ fd_of'[c] = fd /\ fd # None
        /\ \A e \in Conns : e # c => given'[e] = given[e] /\ fd_of'[e] = fd_of[e]
    BY <1>2, RelayAssumption DEF Connect, NumberInv, IInv, TypeOK
  <2>2. Left' = Left
    BY <2>1 DEF Left
  <2> QED BY <1>1, <1>2, <2>2 DEF Connect
<1>3. ASSUME NEW c \in Conns, Disconnect(c) PROVE Clients!Next
  <2>1. /\ fd_of'[c] = None /\ given[c] # None /\ given' = given
        /\ \A e \in Conns : e # c => fd_of'[e] = fd_of[e]
    BY <1>3 DEF Disconnect, NumberInv, IInv, TypeOK
  <2>2. Left' = Left \cup {c}
    BY <2>1 DEF Left
  <2>3. Taken' = Taken /\ inbox' = inbox
    BY <1>3 DEF Disconnect, Taken
  <2> QED BY <2>2, <2>3 DEF Clients!Next, Clients!Leave
<1>4. ASSUME NEW c \in Conns, CommandSent(c) \/ CommandNotAdded(c) PROVE Clients!Next
  BY <1>4, TakeStep DEF CommandSent, CommandNotAdded, client, device
<1>5. ASSUME UNCHANGED <<fd_of, given, log, inbox>> PROVE UNCHANGED Clients!vars
  BY <1>1, <1>5 DEF Left
<1> QED
  BY <1>2, <1>3, <1>4, <1>5, AnswerStep
  DEF Next, vars, client, Register, RegisterFails, CommandDropped, LinkUp, LinkDown, Serve

\* To its clients the agent is an exchange that answers each command once at most,
\* in order over all clients, and to the one that asked last or came in its place
\* (agent/sernet.c, cmdagent.c, devcom.c and devnet.c together).
THEOREM AgentIsAnExchange == Spec => ImplementsExchange
<1>1. Spec => [](IInv /\ NumberInv)
  BY Invariant, InitNumber, NextNumber, PTL DEF Spec
<1> QED BY <1>1, InitImplements, StepImplements, PTL DEF Spec, ImplementsExchange, Clients!Spec
=============================================================================
