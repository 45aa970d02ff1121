--------------------------- MODULE NetLinkProofs ---------------------------
(***************************************************************************)
(* Safety of the life of a connection, for any set of writers and any      *)
(* number of connections and objects.                                      *)
(*                                                                         *)
(* What a writer may rely on rests on three things: the list lock, which   *)
(* keeps connect away from it (LockInv), the bufferevent being there       *)
(* whenever nc->bev says so, but for the middle of a disconnect (LinkInv), *)
(* and that a disconnect and a release count everybody they meet as raced  *)
(* (WriterInv).                                                            *)
(***************************************************************************)
EXTENDS NetLink, TLAPS

\* The lock is held by the writer that is between its lock and its unlock, or by the
\* read callback.
LockInv ==
    /\ \A w \in Writers : wpc[w] \in {"output", "add", "unlock"} <=> lock = w
    /\ pc = "parse" <=> lock = Reader

\* Where the object is there, and where a bufferevent is.
LinkInv ==
    /\ pc = "none" => bev = None /\ disc = "no" /\ ~ connected
    /\ disc # "no" => pc \in {"ready", "hook"} /\ bev # None
    /\ bev # None /\ disc # "clear" => bev \in bevs
    /\ disc = "clear" => bev \notin bevs /\ (connected => replaced)

\* A writer whose call met no disconnect and no release works with what nc->bev points to.
WriterInv ==
    \A w \in Writers \ raced :
        /\ wpc[w] # "idle" => disc = "no"
        /\ wpc[w] = "output" => bev # None
        /\ wpc[w] = "add" => output[w] = bev /\ bev # None

IInv == /\ TypeOK /\ LockInv /\ LinkInv /\ WriterInv
        /\ NothingLeaks /\ OnlyTearDownBreaksWrite /\ FlagExplained

-----------------------------------------------------------------------------
LEMMA PartsInOrder ==
    /\ Len(PartOrder) = 8
    /\ \A i \in 1 .. 8 : PartOrder[i] \in Parts
    /\ PartOrder \in Seq(Parts)
  BY DEF PartOrder, Parts, ToSet

\* Every failure gives back what was acquired before it.
LEMMA AllFreed ==
    ASSUME NEW n \in 1 .. Len(PartOrder)
    PROVE  ToSet(SubSeq(PartOrder, 1, n - 1)) \ ToSet(Freed(n)) = {}
<1> DEFINE got == SubSeq(PartOrder, 1, n - 1)
           back == IF PartOrder[n] = "wrbuf_blob" THEN <<"wrbuf_ncbuf">> ELSE <<>>
<1>1. got \in Seq(Parts) /\ Len(got) = n - 1
  BY PartsInOrder
<1>2. back \in Seq({"wrbuf_ncbuf"}) /\ Len(back) \in {0, 1}
  <2>1. CASE PartOrder[n] = "wrbuf_blob"
    BY <2>1
  <2>2. CASE PartOrder[n] # "wrbuf_blob"
    BY <2>2
  <2> QED BY <2>1, <2>2
<1>3. Reverse(got) \in Seq(Parts) /\ Len(Reverse(got)) = n - 1
  <2>1. \A i \in 1 .. n - 1 : n - 1 - i + 1 \in 1 .. n - 1
    BY PartsInOrder
  <2> QED BY <1>1, <2>1, PartsInOrder DEF Reverse
<1>4. ASSUME NEW i \in 1 .. n - 1
      PROVE  \E j \in DOMAIN Freed(n) : Freed(n)[j] = got[i]
  <2> DEFINE j == n - 1 - i + 1
  <2>1. j \in 1 .. n - 1 /\ n - 1 - j + 1 = i
    BY PartsInOrder
  <2>2. Reverse(got)[j] = got[i]
    BY <1>1, <2>1 DEF Reverse
  <2> HIDE DEF got, back, j
  <2>3. Freed(n) = back \o Reverse(got)
    BY DEF Freed, got, back
  <2>4. Len(back) + j \in DOMAIN Freed(n) /\ Freed(n)[Len(back) + j] = got[i]
    BY <1>2, <1>3, <2>1, <2>2, <2>3
  <2> QED BY <2>4
<1>5. DOMAIN got = 1 .. n - 1
  BY <1>1, PartsInOrder
<1> HIDE DEF got
<1>6. ToSet(got) \subseteq ToSet(Freed(n))
  BY <1>4, <1>5 DEF ToSet
<1> QED BY <1>6 DEF got

-----------------------------------------------------------------------------
LEMMA InitInv == Init => IInv
<1> SUFFICES ASSUME Init PROVE IInv
  OBVIOUS
<1> USE NetLinkAssumption DEF Init
<1>1. TypeOK
  <2>1. connected \in BOOLEAN /\ event_break \in BOOLEAN /\ armed \in BOOLEAN
        /\ dead \in BOOLEAN /\ replaced \in BOOLEAN
        /\ added \in BOOLEAN /\ spun \in BOOLEAN
    BY Zenon
  <2>2. status \in Seq({"connecting", "up", "down"}) /\ Len(status) <= MaxConnects
    OBVIOUS
  <2> QED BY <2>1, <2>2 DEF TypeOK
<1>2. LockInv /\ LinkInv /\ WriterInv
  BY DEF LockInv, LinkInv, WriterInv
<1>3. NothingLeaks /\ OnlyTearDownBreaksWrite /\ FlagExplained
  BY DEF NothingLeaks, OnlyTearDownBreaksWrite, FlagExplained
<1> QED BY <1>1, <1>2, <1>3 DEF IInv

LEMMA NextInv == IInv /\ [Next]_vars => IInv'
<1> SUFFICES ASSUME IInv, [Next]_vars PROVE IInv'
  OBVIOUS
<1> USE NetLinkAssumption
    DEF IInv, TypeOK, LockInv, LinkInv, WriterInv, NothingLeaks, OnlyTearDownBreaksWrite,
        FlagExplained, Bevs, owner, link, loop, timer, writing, past, heap, Free, InCall
<1>1. CASE Initialize
  <2>1. TypeOK'
    <3>1. connected' \in BOOLEAN /\ event_break' \in BOOLEAN /\ armed' \in BOOLEAN
          /\ added' \in BOOLEAN
      BY <1>1, Zenon DEF Initialize
    <3>2. inits' \in 0 .. MaxInits /\ pc' = "ready" /\ parts' = Parts /\ bev' = None
      BY <1>1 DEF Initialize
    <3>3. UNCHANGED <<bevs, disc, lock, status, spun, writing, dead, past>>
      BY <1>1 DEF Initialize
    <3> QED BY <3>1, <3>2, <3>3
  <2>2. LockInv' /\ LinkInv' /\ WriterInv'
    BY <1>1 DEF Initialize
  <2>3. NothingLeaks' /\ OnlyTearDownBreaksWrite' /\ FlagExplained'
    BY <1>1 DEF Initialize
  <2> QED BY <2>1, <2>2, <2>3
<1>2. ASSUME NEW n \in 1 .. Len(PartOrder), InitializeFails(n) PROVE IInv'
  <2>1. parts' = {}
    BY <1>2, AllFreed DEF InitializeFails
  <2>2. dead' \in BOOLEAN
    BY <1>2, Zenon DEF InitializeFails
  <2>3. inits' \in 0 .. MaxInits /\ UNCHANGED <<bevs, owner, lock, link, loop, writing, past>>
    BY <1>2 DEF InitializeFails
  <2>4. pc = "none"
    BY <1>2 DEF InitializeFails
  <2> QED BY <2>1, <2>2, <2>3, <2>4
<1>3. CASE Release
  <2>1. /\ parts' = {} /\ pc' = "none" /\ pc = "ready" /\ disc = "no" /\ bev' = None
        /\ UNCHANGED <<bevs, disc, lock, status, spun, writing, inits>>
        /\ left' = IF bev = None THEN left ELSE left \cup {bev}
    BY <1>3 DEF Release
  <2>2. raced' = raced \cup InCall /\ broken' = broken \cup InCall
    BY <1>3 DEF Release
  <2>3. /\ connected' = FALSE /\ event_break' = FALSE /\ armed' = FALSE /\ added' = FALSE
        /\ replaced' = FALSE /\ dead' \in BOOLEAN
    BY <1>3, Zenon DEF Release
  <2>4. TypeOK'
    BY <2>1, <2>2, <2>3
  <2>5. LockInv' /\ LinkInv'
    BY <2>1, <2>3
  <2>6. WriterInv'
    <3>1. \A w \in Writers \ raced' : wpc'[w] = "idle"
      BY <2>1, <2>2
    <3> QED BY <3>1
  <2>7. NothingLeaks' /\ OnlyTearDownBreaksWrite' /\ FlagExplained'
    BY <2>1, <2>2, <2>3
  <2> QED BY <2>4, <2>5, <2>6, <2>7
<1>4. CASE Connect
  <2> DEFINE new == Len(status) + 1
  <2>1. /\ status' \in Seq({"connecting", "up", "down"})
        /\ Len(status') = new /\ new \in Bevs
    BY <1>4 DEF Connect
  <2>2. /\ bevs' = (bevs \ {bev}) \cup {new} /\ bev' = new
        /\ replaced' = (replaced \/ (connected /\ bev # None))
        /\ lock = None /\ disc = "no" /\ pc \in {"ready", "hook"}
        /\ UNCHANGED <<parts, owner, lock, connected, loop, writing, inits, dead, raced, broken,
                        left>>
    BY <1>4 DEF Connect
  <2>3. TypeOK'
    <3>1. replaced' \in BOOLEAN
      BY <2>2, Zenon
    <3>2. /\ bevs' = (bevs \ {bev}) \cup {new} /\ bev' = new
          /\ UNCHANGED <<parts, owner, lock, connected, loop, writing, inits, dead, raced,
                          broken, left>>
      BY <2>2, Zenon
    <3>3. bevs' \subseteq Bevs /\ bev' \in {None} \cup 1 .. Len(status')
      <4>1. 1 .. MaxConnects = Bevs /\ bevs \subseteq Bevs /\ bev' = Len(status')
        BY <2>1, <3>2
      <4>2. Len(status') \in 1 .. Len(status')
        BY <2>1
      <4> QED BY <2>1, <3>2, <4>1, <4>2
    <3>4. connected' \in BOOLEAN /\ dead' \in BOOLEAN
      BY <3>2, Zenon
    <3> QED BY <2>1, <3>1, <3>2, <3>3, <3>4
  <2>4. LockInv' /\ LinkInv' /\ WriterInv'
    BY <2>1, <2>2
  <2>5. NothingLeaks' /\ OnlyTearDownBreaksWrite'
    BY <2>1, <2>2
  <2>6. FlagExplained'
    BY <2>2, Zenon
  <2> QED BY <2>3, <2>4, <2>5, <2>6
<1>5. ASSUME NEW twice \in BOOLEAN, ConnectFails(twice) PROVE IInv'
  BY <1>5 DEF ConnectFails
<1>6. CASE Disconnect
  BY <1>6 DEF Disconnect
<1>7. CASE DisconnectFree
  BY <1>7 DEF DisconnectFree
<1>8. CASE DisconnectClear
  BY <1>8 DEF DisconnectClear
<1>9. CASE Loop
  BY <1>9 DEF Loop
<1>10. CASE BreakLoop
  BY <1>10 DEF BreakLoop
<1>11. ASSUME NEW s \in {"up", "down"}, LinkEvent(s) PROVE IInv'
  <2>1. bev \in 1 .. Len(status) /\ bev \in DOMAIN status /\ pc = "loop"
    BY <1>11 DEF LinkEvent
  <2>2. /\ status' \in Seq({"connecting", "up", "down"})
        /\ Len(status') = Len(status) /\ status'[bev] = s
    BY <1>11, <2>1 DEF LinkEvent
  <2>3. (connected' => status'[bev] = "up") /\ ~ replaced' /\ pc' = "after"
    BY <1>11, <2>2 DEF LinkEvent
  <2>4. UNCHANGED <<disc, lock, heap, bev, loop, writing, inits, dead, raced, broken, left>>
    BY <1>11 DEF LinkEvent
  <2>5. connected' \in BOOLEAN /\ replaced' \in BOOLEAN
    BY <1>11, Zenon DEF LinkEvent
  <2>6. TypeOK'
    <3>1. pc' = "after" /\ bev' \in 1 .. Len(status')
      BY <2>1, <2>2, <2>3, <2>4
    <3> QED BY <3>1, <2>2, <2>4, <2>5
  <2>7. LockInv' /\ LinkInv' /\ WriterInv'
    BY <2>1, <2>2, <2>3, <2>4
  <2>8. NothingLeaks' /\ OnlyTearDownBreaksWrite'
    BY <2>1, <2>2, <2>3, <2>4
  <2>9. FlagExplained'
    <3>1. bev' = bev /\ bev # None
      BY <2>1, <2>4
    <3> QED BY <2>3, <3>1, Zenon
  <2> QED BY <2>6, <2>7, <2>8, <2>9
<1>12. CASE Timer
  BY <1>12 DEF Timer
<1>13. CASE Timeoutcb
  BY <1>13 DEF Timeoutcb
<1>14. CASE HookReturns
  BY <1>14 DEF HookReturns
<1>15. CASE LoopGoesOn
  BY <1>15 DEF LoopGoesOn
<1>16. ASSUME NEW w \in Writers, Call(w) PROVE IInv'
  BY <1>16 DEF Call
<1>17. ASSUME NEW w \in Writers, Enter(w) PROVE IInv'
  BY <1>17 DEF Enter
<1>18. ASSUME NEW w \in Writers, GetOutput(w) PROVE IInv'
  BY <1>18 DEF GetOutput
<1>19. ASSUME NEW w \in Writers, Add(w) PROVE IInv'
  BY <1>19 DEF Add
<1>20. ASSUME NEW w \in Writers, Unlock(w) PROVE IInv'
  BY <1>20 DEF Unlock
<1>21. CASE UNCHANGED vars
  BY <1>21 DEF vars
<1>22. CASE Read
  BY <1>22 DEF Read
<1>23. CASE ReadSpins
  BY <1>23 DEF ReadSpins
<1>24. CASE ReadReturns
  BY <1>24 DEF ReadReturns
<1>25. CASE LoopEmpty
  BY <1>25 DEF LoopEmpty
<1> QED
  BY <1>1, <1>2, <1>3, <1>4, <1>5, <1>6, <1>7, <1>8, <1>9, <1>10, <1>11, <1>12, <1>13, <1>14, <1>15, <1>16, <1>17, <1>18, <1>19, <1>20, <1>21, <1>22, <1>23, <1>24, <1>25
  DEF Next, Write

-----------------------------------------------------------------------------
\* What TLC checks for one writer holds for any number: the lists, the timer, the
\* bufferevent and the flag agree at every step of connect, disconnect, the event
\* loop and the writers (netcom.c:341-640).
THEOREM Invariant == Spec => []IInv
  BY InitInv, NextInv, PTL DEF Spec

\* The variables keep their types, for any number of writers and connections.
THEOREM TypeCorrect == Spec => []TypeOK
  BY Invariant, PTL DEF IInv

\* Whatever allocation fails, l0006_netcmd_initialize gives back what it had
\* acquired, and connecting anew leaves no bufferevent behind.
THEOREM LeakFree == Spec => []NothingLeaks
  BY Invariant, PTL DEF IInv

\* l0006_netcom_write uses what has been freed only in a call that met a disconnect
\* or the release.
THEOREM WriteIsSafe == Spec => []OnlyTearDownBreaksWrite
  BY Invariant, PTL DEF IInv

\* The connected flag is right unless the owner has exchanged or freed the
\* bufferevent and no event has come since.
THEOREM FlagIsExplained == Spec => []FlagExplained
  BY Invariant, PTL DEF IInv

-----------------------------------------------------------------------------
(***************************************************************************)
(* NetLink implements Connection.  A writer is seen as let in from the     *)
(* moment it has found the flag set until it has added its data, unless a  *)
(* disconnect counted it as raced; as it holds the lock meanwhile and      *)
(* works with the current bufferevent (WriterInv), nobody else's step is   *)
(* seen in between.                                                        *)
(***************************************************************************)

\* Nobody but the holder of the lock is let in, and its data goes where nc->bev
\* points.
LEMMA WhoIsIn ==
    ASSUME IInv
    PROVE  /\ \A w \in Writers : Inside(w) => lock = w /\ User = w /\ disc = "no"
                                              /\ bev # None /\ Target = bev
           /\ (\A w \in Writers : ~ Inside(w)) => User = None /\ Target = None
           /\ lock = None => User = None /\ Target = None
<1>1. \A w \in Writers : Inside(w) => lock = w
  BY DEF IInv, LockInv, Inside
<1>2. ASSUME NEW w \in Writers, Inside(w)
      PROVE  User = w /\ disc = "no" /\ bev # None /\ Target = bev
  <2>1. User = w /\ w # None
    BY <1>1, <1>2, NetLinkAssumption DEF User
  <2>2. wpc[w] \in {"output", "add"} /\ w \in Writers \ raced
    BY <1>2 DEF Inside
  <2>3. disc = "no" /\ bev # None
    BY <2>2 DEF IInv, WriterInv
  <2>4. wpc[w] = "add" => output[w] = bev
    BY <2>2 DEF IInv, WriterInv
  <2> QED BY <2>1, <2>2, <2>3, <2>4 DEF Target
<1>3. (\A w \in Writers : ~ Inside(w)) => User = None /\ Target = None
  BY DEF User, Target
<1>4. lock = None => \A w \in Writers : ~ Inside(w)
  BY <1>1, NetLinkAssumption
<1> QED BY <1>1, <1>2, <1>3, <1>4

LEMMA InitImplements == Init => Shared!Init
  BY DEF Init, Shared!Init, Current, User, Inside, Target

\* A step that lets nobody in or out and leaves the bufferevent alone
LEMMA NobodyMoves ==
    ASSUME IInv, UNCHANGED <<bev, lock>>,
           \A w \in Writers : Inside(w)' <=> Inside(w),
           \A w \in Writers : Inside(w) =>
               \/ wpc'[w] = wpc[w] /\ output'[w] = output[w]
               \/ wpc'[w] = "add" /\ output'[w] = bev
    PROVE  UNCHANGED <<User, Target>>
<1>1. CASE \E w \in Writers : Inside(w)
  <2>1. PICK w \in Writers : Inside(w)
    BY <1>1
  <2>2. lock = w /\ User = w /\ Target = bev /\ w # None
    BY <2>1, WhoIsIn, NetLinkAssumption
  <2>3. User' = w
    BY <2>1, <2>2 DEF User
  <2>4. Target' = IF wpc'[w] = "output" THEN bev' ELSE output'[w]
    BY <2>2, <2>3 DEF Target
  <2>5. wpc'[w] = wpc[w] /\ output'[w] = output[w] => Target' = Target
    BY <2>2, <2>4 DEF Target
  <2>6. wpc'[w] = "add" /\ output'[w] = bev => Target' = Target
    BY <2>2, <2>4
  <2> QED BY <2>1, <2>2, <2>3, <2>5, <2>6
<1>2. CASE ~ \E w \in Writers : Inside(w)
  BY <1>2 DEF User, Target
<1> QED BY <1>1, <1>2

\* A step of the owner that leaves lock and writers alone while nobody is let in
LEMMA WritersApart ==
    ASSUME IInv, lock = None \/ \A w \in Writers : ~ Inside(w), UNCHANGED <<wpc, raced>>
    PROVE  User = None /\ Target = None /\ User' = None /\ Target' = None
<1>1. \A w \in Writers : ~ Inside(w)
  BY NetLinkAssumption, WhoIsIn
<1>2. \A w \in Writers : ~ Inside(w)'
  BY <1>1 DEF Inside
<1> QED BY <1>1, <1>2, WhoIsIn DEF User, Target

LEMMA StepImplements == IInv /\ [Next]_vars => [Shared!Next]_Shared!vars
<1> SUFFICES ASSUME IInv, [Next]_vars PROVE Shared!Next \/ UNCHANGED Shared!vars
  OBVIOUS
<1> USE DEF Shared!Next, Shared!vars, owner, link, loop, writing, past, heap
<1>0. Len(status) \in Nat /\ bev \in (1 .. Len(status)) \cup {None} /\ None \notin Nat
      /\ connected \in BOOLEAN
  BY NetLinkAssumption DEF IInv, TypeOK
<1>1. CASE Initialize
  <2>1. bev = None /\ disc = "no" /\ ~ connected /\ pc = "none"
    BY <1>1 DEF Initialize, IInv, LinkInv
  <2>2. \A w \in Writers : ~ Inside(w)
    BY <2>1, WhoIsIn
  <2>3. UNCHANGED <<User, Target>>
    BY <1>1, <2>2, WritersApart DEF Initialize
  <2>4. UNCHANGED Current /\ Current = None /\ UNCHANGED <<status, connected, left>>
    BY <1>1, <2>1 DEF Initialize, Current, IInv, TypeOK
  <2>5. Shared!Make
    BY <1>1, <2>1, <2>3, <2>4 DEF Initialize, Shared!Make
  <2> QED BY <2>5
<1>2. ASSUME NEW n \in 1 .. Len(PartOrder), InitializeFails(n) PROVE UNCHANGED Shared!vars
  BY <1>2 DEF InitializeFails, Current, User, Target, Inside
<1>3. CASE Release
  <2>1. \A w \in Writers : ~ Inside(w)'
    BY <1>3 DEF Release, Inside, InCall
  <2>2. User' = None /\ Target' = None
    BY <2>1 DEF User, Target
  <2>3. Current = bev /\ Current' = None
    BY <1>3 DEF Release, Current
  <2>4. left' = left \cup ({Current} \ {None})
    BY <1>3, <2>3 DEF Release
  <2>5. Shared!Release
    BY <1>3, <2>2, <2>3, <2>4 DEF Release, Shared!Release
  <2> QED BY <2>5
<1>4. CASE Connect
  <2>1. User = None /\ Target = None /\ User' = None /\ Target' = None
    BY <1>4, WritersApart DEF Connect
  <2>2. Len(status') = Len(status) + 1 /\ Current' = Len(status) + 1
        /\ status'[Len(status) + 1] = "connecting"
    BY <1>0, <1>4 DEF Connect, Free, Current, IInv, TypeOK
  <2>3. Current' # None
    BY <1>0, <2>2
  <2>4. pc # "none" /\ UNCHANGED <<pc, connected, left>>
    BY <1>4 DEF Connect, Free
  <2>5. Shared!Connect
    BY <2>1, <2>2, <2>3, <2>4 DEF Shared!Connect
  <2> QED BY <2>5
<1>5. ASSUME NEW twice \in BOOLEAN, ConnectFails(twice) PROVE Shared!Next
  <2>1. User = None /\ Target = None /\ User' = None /\ Target' = None
    BY <1>5, WritersApart DEF ConnectFails
  <2>2. Current' = None
    BY <1>5 DEF ConnectFails, Current
  <2>3. Shared!ConnectFails
    BY <1>5, <2>1, <2>2 DEF ConnectFails, Free, Shared!ConnectFails
  <2> QED BY <2>3
<1>6. CASE Disconnect
  <2>1. CASE bev = None
    BY <1>6, <2>1 DEF Disconnect, Current, User, Target, Inside
  <2>2. CASE bev # None
    <3>1. Current # None /\ Current' = None
      BY <1>6, <2>2 DEF Disconnect, Free, Current
    <3>2. \A w \in Writers : ~ Inside(w)'
      BY <1>6, <2>2 DEF Disconnect, Inside, InCall
    <3>3. User' = None /\ Target' = None
      BY <3>2 DEF User, Target
    <3>4. Shared!Disconnect
      BY <1>6, <3>1, <3>3 DEF Disconnect, Shared!Disconnect
    <3> QED BY <3>4
  <2> QED BY <2>1, <2>2
<1>7. CASE DisconnectFree \/ DisconnectClear
  <2>1. \A w \in Writers : ~ Inside(w)
    BY <1>7, WhoIsIn DEF DisconnectFree, DisconnectClear
  <2>2. UNCHANGED <<User, Target>>
    BY <1>7, <2>1, WritersApart DEF DisconnectFree, DisconnectClear
  <2>3. Current = None /\ Current' = None
    BY <1>7 DEF DisconnectFree, DisconnectClear, Current
  <2> QED BY <1>7, <2>2, <2>3 DEF DisconnectFree, DisconnectClear
<1>8. CASE \/ Loop \/ BreakLoop \/ Timer \/ Timeoutcb \/ HookReturns \/ LoopEmpty
           \/ LoopGoesOn
  <2>1. (pc' # "none") = (pc # "none")
    BY <1>8 DEF Loop, BreakLoop, Timer, Timeoutcb, HookReturns, LoopEmpty, LoopGoesOn
  <2>2. UNCHANGED <<disc, lock, bev, status, connected, wpc, output, raced, left>>
    BY <1>8 DEF Loop, BreakLoop, Timer, Timeoutcb, HookReturns, LoopEmpty, LoopGoesOn
  <2>3. UNCHANGED <<Current, User, Target>>
    BY <2>2 DEF Current, User, Target, Inside
  <2> QED BY <2>1, <2>2, <2>3
<1>9. ASSUME NEW s \in {"up", "down"}, LinkEvent(s) PROVE Shared!Next
  <2>1. User = None /\ Target = None /\ User' = None /\ Target' = None
    BY <1>9, WritersApart DEF LinkEvent
  <2>2. Current = bev /\ Current' = bev /\ bev # None /\ bev \in 1 .. Len(status)
    BY <1>0, <1>9 DEF LinkEvent, Current, IInv, LinkInv
  <2>3. status \in Seq({"connecting", "up", "down"})
    BY DEF IInv, TypeOK
  <2>4. status' = [status EXCEPT ![bev] = s]
    BY <1>9 DEF LinkEvent
  <2>5. Len(status') = Len(status) /\ status'[bev] = s
    BY <2>2, <2>3, <2>4
  <2>6. pc # "none" /\ pc' # "none" /\ left' = left /\ connected' = (s = "up")
    BY <1>9 DEF LinkEvent
  <2>7. CASE s = "up"
    <3>1. status[bev] = "connecting"
      BY <1>9, <2>7 DEF LinkEvent
    <3>2. connected' = TRUE
      BY <2>6, <2>7
    <3>3. Shared!ComeUp
      BY <2>1, <2>2, <2>5, <2>6, <2>7, <3>1, <3>2 DEF Shared!ComeUp
    <3> QED BY <3>3
  <2>8. CASE s = "down"
    <3>1. status[bev] \in {"connecting", "up"}
      BY <1>9, <2>2, <2>3, <2>8 DEF LinkEvent
    <3>2. connected' = FALSE
      BY <2>6, <2>8
    <3>3. Shared!End
      BY <2>1, <2>2, <2>5, <2>6, <2>8, <3>1, <3>2 DEF Shared!End
    <3> QED BY <3>3
  <2> QED BY <2>7, <2>8
<1>10. ASSUME NEW w \in Writers, Call(w) PROVE UNCHANGED Shared!vars
  <2>1. wpc \in [Writers -> {"idle", "enter", "output", "add", "unlock"}]
    BY DEF IInv, TypeOK
  <2>2. \A x \in Writers : (Inside(x)' <=> Inside(x)) /\ (x # w => wpc'[x] = wpc[x])
    BY <1>10, <2>1 DEF Call, Inside
  <2>3. ~ Inside(w)
    BY <1>10 DEF Call, Inside
  <2>4. UNCHANGED <<User, Target>>
    BY <1>10, <2>2, <2>3, NobodyMoves DEF Call
  <2> QED BY <1>10, <2>4 DEF Call, Current
<1>11. ASSUME NEW w \in Writers, Enter(w) PROVE Shared!Next \/ UNCHANGED Shared!vars
  <2>1. /\ wpc \in [Writers -> {"idle", "enter", "output", "add", "unlock"}]
        /\ lock = None /\ lock' = w /\ wpc[w] = "enter" /\ w # None
        /\ wpc' \in [Writers -> {"idle", "enter", "output", "add", "unlock"}]
        /\ \A x \in Writers : x # w => wpc'[x] = wpc[x]
    BY <1>11, NetLinkAssumption DEF Enter, IInv, TypeOK
  <2>2. User = None /\ Target = None /\ \A x \in Writers : ~ Inside(x)
    BY <2>1, WhoIsIn, NetLinkAssumption
  <2>3. UNCHANGED <<pc, disc, bev, status, connected, left, raced, output, Current>>
    BY <1>11 DEF Enter, Current
  <2>4. \A x \in Writers : x # w => ~ Inside(x)'
    BY <2>1, <2>2, <2>3 DEF Inside
  <2>5. CASE Inside(w)'
    <3>1. wpc'[w] = "output" /\ w \notin raced /\ connected /\ bev # None
      BY <1>11, <2>1, <2>3, <2>5 DEF Enter, Inside
    <3>2. disc = "no"
      BY <2>1, <3>1 DEF IInv, WriterInv
    <3>3. User' = w
      BY <2>1, <2>5 DEF User
    <3>4. Target' = bev /\ Current = bev
      BY <2>1, <2>3, <3>1, <3>2, <3>3 DEF Target, Current
    <3>5. Shared!Enter(w)
      BY <2>2, <2>3, <3>1, <3>3, <3>4 DEF Shared!Enter
    <3> QED BY <3>5
  <2>6. CASE ~ Inside(w)'
    <3>1. User' = None /\ Target' = None
      BY <2>4, <2>6 DEF User, Target
    <3> QED BY <2>2, <2>3, <3>1
  <2> QED BY <2>5, <2>6
<1>12. ASSUME NEW w \in Writers, GetOutput(w) PROVE UNCHANGED Shared!vars
  <2>1. /\ wpc \in [Writers -> {"idle", "enter", "output", "add", "unlock"}]
        /\ output \in [Writers -> Bevs \cup {None}]
    BY DEF IInv, TypeOK
  <2>2. \A x \in Writers : (Inside(x)' <=> Inside(x))
                           /\ (x # w => wpc'[x] = wpc[x] /\ output'[x] = output[x])
    BY <1>12, <2>1 DEF GetOutput, Inside
  <2>3. wpc'[w] = "add" /\ output'[w] = bev
    BY <1>12, <2>1 DEF GetOutput
  <2>4. UNCHANGED <<User, Target>>
    BY <1>12, <2>2, <2>3, NobodyMoves DEF GetOutput
  <2> QED BY <1>12, <2>4 DEF GetOutput, Current
<1>13. ASSUME NEW w \in Writers, Add(w) PROVE Shared!Next \/ UNCHANGED Shared!vars
  <2>1. /\ wpc \in [Writers -> {"idle", "enter", "output", "add", "unlock"}]
        /\ wpc[w] = "add" /\ wpc'[w] = "unlock" /\ lock = w
        /\ \A x \in Writers : x # w => wpc'[x] = wpc[x]
    BY <1>13 DEF Add, IInv, TypeOK, LockInv
  <2>2. UNCHANGED <<pc, disc, bev, status, connected, left, raced, Current>>
    BY <1>13 DEF Add, Current
  <2>3. \A x \in Writers : x # w => ~ Inside(x)
    BY <2>1, WhoIsIn
  <2>4. \A x \in Writers : ~ Inside(x)'
    BY <2>1, <2>2, <2>3 DEF Inside
  <2>5. User' = None /\ Target' = None
    BY <2>4 DEF User, Target
  <2>6. CASE Inside(w)
    <3>1. User # None
      BY <2>6, WhoIsIn, NetLinkAssumption
    <3>2. Shared!Leave
      BY <2>2, <2>5, <3>1 DEF Shared!Leave
    <3> QED BY <3>2
  <2>7. CASE ~ Inside(w)
    <3>1. User = None /\ Target = None
      BY <2>3, <2>7, WhoIsIn
    <3> QED BY <2>2, <2>5, <3>1
  <2> QED BY <2>6, <2>7
<1>14. ASSUME NEW w \in Writers, Unlock(w) PROVE UNCHANGED Shared!vars
  <2>1. /\ wpc \in [Writers -> {"idle", "enter", "output", "add", "unlock"}]
        /\ wpc[w] = "unlock" /\ wpc'[w] = "idle" /\ lock = w /\ raced' = raced \ {w}
        /\ \A x \in Writers : x # w => wpc'[x] = wpc[x]
    BY <1>14 DEF Unlock, IInv, TypeOK, LockInv
  <2>2. \A x \in Writers : ~ Inside(x)
    BY <2>1, WhoIsIn DEF Inside
  <2>3. \A x \in Writers : ~ Inside(x)'
    BY <2>1, <2>2 DEF Inside
  <2>4. UNCHANGED <<User, Target>>
    BY <2>2, <2>3 DEF User, Target
  <2> QED BY <1>14, <2>4 DEF Unlock, Current
<1>15. CASE UNCHANGED vars
  BY <1>15 DEF vars, Current, User, Target, Inside
<1>16. CASE Read \/ ReadSpins \/ ReadReturns
  <2>1. lock \notin Writers /\ lock' \notin Writers /\ pc # "none" /\ pc' # "none"
    BY <1>16, NetLinkAssumption DEF Read, ReadSpins, ReadReturns, IInv, LockInv
  <2>2. UNCHANGED <<disc, bev, status, connected, wpc, output, raced, left>>
    BY <1>16 DEF Read, ReadSpins, ReadReturns
  <2>3. \A w \in Writers : ~ Inside(w)
    BY <2>1, WhoIsIn
  <2>4. UNCHANGED <<User, Target>>
    BY <2>2, <2>3, WritersApart
  <2> QED BY <2>1, <2>2, <2>4 DEF Current
<1> QED
  BY <1>1, <1>2, <1>3, <1>4, <1>5, <1>6, <1>7, <1>8, <1>9, <1>10, <1>11, <1>12, <1>13, <1>14,
     <1>15, <1>16
  DEF Next, Write

\* To the tasks that share it, an object of netcom.c has one connection at a time;
\* it changes in single steps, and not while a task's data is on its way into it,
\* unless the owner disconnects or releases the object (netcom.c:388-468, 491-573,
\* 622-704).
THEOREM ConnectionIsShared == Spec => ImplementsConnection
  BY InitImplements, StepImplements, Invariant, PTL DEF Spec, ImplementsConnection, Shared!Spec
=============================================================================
