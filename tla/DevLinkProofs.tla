---------------------------- MODULE DevLinkProofs ----------------------------
(***************************************************************************)
(* Safety of the link to a device, for any set of bufferevent addresses    *)
(* and clients.                                                            *)
(*                                                                         *)
(* ConnectedMeansLive is about a flag that one thread clears and another   *)
(* trusts; it is inductive only together with the program points at which  *)
(* the flag may be set (PhaseInv) and what the pointer means there.        *)
(***************************************************************************)
EXTENDS DevLink, TLAPS

\* At each program point of the device thread: is there a bufferevent, what
\* is its socket doing, and what does the task state say.
PhaseInv ==
    /\ connected => dev_pc \in {"loop", "drain"} /\ bev # None /\ sock[bev] \in {"up", "broken"}
    /\ dev_pc \in {"sleep", "new", "restart"} => bev = None
    /\ dev_pc = "statmach" /\ task = "PREP" => bev = None
    /\ dev_pc = "dial" => bev # None /\ sock[bev] = "new"
    /\ dev_pc = "drain" => bev # None

\* The heap holds exactly what devnet->bev points to, except between a free
\* and the assignment that follows it.
HeapInv ==
    /\ dev_pc \in {"dial_clear", "clear"} => heap = {}
    /\ dev_pc \notin {"dial_clear", "clear"} => heap = {bev} \ {None}

\* Past its check, and as long as the link is not lost, the service thread
\* works with the bufferevent of a connected link.
WriterInv ==
    svc_pc \in {"set_ser", "get_output", "add"} /\ ~ disturbed =>
        connected /\ (svc_pc = "add" => svc_out = bev)

IInv == TypeOK /\ PhaseInv /\ HeapInv /\ WriterInv

-----------------------------------------------------------------------------
LEMMA InitInv == Init => IInv
<1> SUFFICES ASSUME Init PROVE IInv
  OBVIOUS
<1>1. TypeOK
  <2>1. remote \in BOOLEAN /\ connected \in BOOLEAN /\ pending \in BOOLEAN /\ disturbed \in BOOLEAN
    BY Zenon DEF Init
  <2>2. reconnect_count \in 0 .. BackoffAfter /\ sock \in [Bevs -> {"dead"}]
    BY DEF Init, BackoffAfter
  <2> QED BY <2>1, <2>2, Zenon DEF Init, TypeOK
<1>2. PhaseInv
  BY DEF Init, PhaseInv
<1>3. HeapInv
  BY DEF Init, HeapInv
<1>4. WriterInv
  BY DEF Init, WriterInv
<1> QED BY <1>1, <1>2, <1>3, <1>4 DEF IInv

LEMMA NextInv == IInv /\ [Next]_vars => IInv'
<1> SUFFICES ASSUME IInv, [Next]_vars PROVE IInv'
  OBVIOUS
<1> USE DevLinkAssumption DEF IInv, TypeOK, DevAt, DevGoto, SvcReturns, link, rest, dev, svc
<1>1. CASE RemoteUp
  <2>1. TypeOK'
    BY <1>1 DEF RemoteUp
  <2>2. PhaseInv'
    BY <1>1 DEF RemoteUp, PhaseInv
  <2>3. HeapInv'
    BY <1>1 DEF RemoteUp, HeapInv
  <2>4. WriterInv'
    BY <1>1 DEF RemoteUp, WriterInv
  <2> QED BY <2>1, <2>2, <2>3, <2>4
<1>2. CASE RemoteDown
  <2>1. TypeOK'
    <3>1. sock' \in [Bevs -> {"new", "connecting", "up", "broken", "stuck", "dead"}]
      BY <1>2 DEF RemoteDown
    <3>2. remote' \in BOOLEAN /\ UNCHANGED <<heap, bev, connected, pending, dev, svc, disturbed>>
      BY <1>2 DEF RemoteDown
    <3> QED BY <3>1, <3>2
  <2>2. PhaseInv'
    BY <1>2 DEF RemoteDown, PhaseInv
  <2>3. HeapInv'
    BY <1>2 DEF RemoteDown, HeapInv
  <2>4. WriterInv'
    BY <1>2 DEF RemoteDown, WriterInv
  <2> QED BY <2>1, <2>2, <2>3, <2>4
<1>3. CASE Prep
  <2>1. TypeOK'
    BY <1>3 DEF Prep, BackoffAfter
  <2>2. PhaseInv'
    BY <1>3 DEF Prep, PhaseInv
  <2>3. HeapInv'
    BY <1>3 DEF Prep, HeapInv
  <2>4. WriterInv'
    BY <1>3 DEF Prep, WriterInv
  <2> QED BY <2>1, <2>2, <2>3, <2>4
<1>4. CASE ConnectFreeOld
  <2>1. TypeOK'
    BY <1>4 DEF ConnectFreeOld
  <2>2. PhaseInv'
    BY <1>4 DEF ConnectFreeOld, PhaseInv
  <2>3. HeapInv'
    BY <1>4 DEF ConnectFreeOld, HeapInv
  <2>4. WriterInv'
    BY <1>4 DEF ConnectFreeOld, WriterInv, PhaseInv
  <2> QED BY <2>1, <2>2, <2>3, <2>4
<1>5. CASE ConnectNew
  <2>1. TypeOK'
    BY <1>5 DEF ConnectNew
  <2>2. PhaseInv'
    BY <1>5 DEF ConnectNew, PhaseInv
  <2>3. HeapInv'
    BY <1>5 DEF ConnectNew, HeapInv, PhaseInv
  <2>4. WriterInv'
    BY <1>5 DEF ConnectNew, WriterInv, PhaseInv
  <2> QED BY <2>1, <2>2, <2>3, <2>4
<1>6. CASE ConnectNewFails
  <2>1. TypeOK'
    BY <1>6 DEF ConnectNewFails
  <2>2. PhaseInv'
    BY <1>6 DEF ConnectNewFails, PhaseInv
  <2>3. HeapInv'
    BY <1>6 DEF ConnectNewFails, HeapInv, PhaseInv
  <2>4. WriterInv'
    BY <1>6 DEF ConnectNewFails, WriterInv, PhaseInv
  <2> QED BY <2>1, <2>2, <2>3, <2>4
<1>7. CASE ConnectDial
  <2>1. TypeOK'
    <3>1. sock' \in [Bevs -> {"new", "connecting", "up", "broken", "stuck", "dead"}]
      BY <1>7 DEF ConnectDial
    <3>2. dev_pc' = "chgstat" /\ connected' \in BOOLEAN /\ disturbed' \in BOOLEAN
      BY <1>7, Zenon DEF ConnectDial
    <3>3. UNCHANGED <<remote, heap, bev, pending, task, reconnect_count, svc>>
      BY <1>7 DEF ConnectDial
    <3> QED BY <3>1, <3>2, <3>3
  <2>2. PhaseInv'
    BY <1>7 DEF ConnectDial, PhaseInv
  <2>3. HeapInv'
    BY <1>7 DEF ConnectDial, HeapInv
  <2>4. WriterInv'
    BY <1>7 DEF ConnectDial, WriterInv
  <2> QED BY <2>1, <2>2, <2>3, <2>4
<1>8. CASE ConnectDialErrorNow
  <2>1. TypeOK'
    <3>1. sock' \in [Bevs -> {"new", "connecting", "up", "broken", "stuck", "dead"}]
      BY <1>8 DEF ConnectDialErrorNow
    <3>2. dev_pc' = "chgstat" /\ connected' \in BOOLEAN /\ disturbed' \in BOOLEAN
      BY <1>8, Zenon DEF ConnectDialErrorNow
    <3>3. UNCHANGED <<remote, heap, bev, pending, task, reconnect_count, svc>>
      BY <1>8 DEF ConnectDialErrorNow
    <3> QED BY <3>1, <3>2, <3>3
  <2>2. PhaseInv'
    BY <1>8 DEF ConnectDialErrorNow, PhaseInv
  <2>3. HeapInv'
    BY <1>8 DEF ConnectDialErrorNow, HeapInv
  <2>4. WriterInv'
    BY <1>8 DEF ConnectDialErrorNow, WriterInv
  <2> QED BY <2>1, <2>2, <2>3, <2>4
<1>9. CASE ConnectDialFails
  <2>1. TypeOK'
    BY <1>9 DEF ConnectDialFails
  <2>2. PhaseInv'
    BY <1>9 DEF ConnectDialFails, PhaseInv
  <2>3. HeapInv'
    BY <1>9 DEF ConnectDialFails, HeapInv
  <2>4. WriterInv'
    BY <1>9 DEF ConnectDialFails, WriterInv
  <2> QED BY <2>1, <2>2, <2>3, <2>4
<1>10. CASE ConnectClear
  <2>1. TypeOK'
    BY <1>10 DEF ConnectClear
  <2>2. PhaseInv'
    BY <1>10 DEF ConnectClear, PhaseInv
  <2>3. HeapInv'
    BY <1>10 DEF ConnectClear, HeapInv
  <2>4. WriterInv'
    BY <1>10 DEF ConnectClear, WriterInv, PhaseInv
  <2> QED BY <2>1, <2>2, <2>3, <2>4
<1>11. CASE PrepDone
  <2>1. TypeOK'
    BY <1>11 DEF PrepDone
  <2>2. PhaseInv'
    BY <1>11 DEF PrepDone, PhaseInv
  <2>3. HeapInv'
    BY <1>11 DEF PrepDone, HeapInv
  <2>4. WriterInv'
    BY <1>11 DEF PrepDone, WriterInv
  <2> QED BY <2>1, <2>2, <2>3, <2>4
<1>12. CASE RunLoop
  <2>1. TypeOK'
    BY <1>12 DEF RunLoop
  <2>2. PhaseInv'
    BY <1>12 DEF RunLoop, PhaseInv
  <2>3. HeapInv'
    BY <1>12 DEF RunLoop, HeapInv
  <2>4. WriterInv'
    BY <1>12 DEF RunLoop, WriterInv
  <2> QED BY <2>1, <2>2, <2>3, <2>4
<1>13. CASE EventConnected
  <2>1. TypeOK'
    BY <1>13 DEF EventConnected
  <2>2. PhaseInv'
    BY <1>13 DEF EventConnected, PhaseInv
  <2>3. HeapInv'
    BY <1>13 DEF EventConnected, HeapInv
  <2>4. WriterInv'
    BY <1>13 DEF EventConnected, WriterInv
  <2> QED BY <2>1, <2>2, <2>3, <2>4
<1>14. CASE EventWritable
  <2>1. TypeOK'
    BY <1>14 DEF EventWritable
  <2>2. PhaseInv'
    BY <1>14 DEF EventWritable, PhaseInv
  <2>3. HeapInv'
    BY <1>14 DEF EventWritable, HeapInv
  <2>4. WriterInv'
    BY <1>14 DEF EventWritable, WriterInv
  <2> QED BY <2>1, <2>2, <2>3, <2>4
<1>15. CASE EventWritten
  <2>1. TypeOK'
    BY <1>15 DEF EventWritten
  <2>2. PhaseInv'
    BY <1>15 DEF EventWritten, PhaseInv
  <2>3. HeapInv'
    BY <1>15 DEF EventWritten, HeapInv
  <2>4. WriterInv'
    BY <1>15 DEF EventWritten, WriterInv
  <2> QED BY <2>1, <2>2, <2>3, <2>4
<1>16. CASE EventLost
  <2>1. TypeOK'
    BY <1>16 DEF EventLost
  <2>2. PhaseInv'
    BY <1>16 DEF EventLost, PhaseInv
  <2>3. HeapInv'
    BY <1>16 DEF EventLost, HeapInv
  <2>4. WriterInv'
    BY <1>16 DEF EventLost, WriterInv
  <2> QED BY <2>1, <2>2, <2>3, <2>4
<1>17. CASE LoopEmpty
  <2>1. TypeOK'
    BY <1>17 DEF LoopEmpty
  <2>2. PhaseInv'
    BY <1>17 DEF LoopEmpty, PhaseInv
  <2>3. HeapInv'
    BY <1>17 DEF LoopEmpty, HeapInv
  <2>4. WriterInv'
    BY <1>17 DEF LoopEmpty, WriterInv
  <2> QED BY <2>1, <2>2, <2>3, <2>4
<1>18. CASE Disconnect
  <2>1. TypeOK'
    <3>1. heap' \in SUBSET Bevs
      BY <1>18 DEF Disconnect
    <3>2. dev_pc' = "clear" /\ pending' = FALSE
      BY <1>18, Zenon DEF Disconnect
    <3>3. UNCHANGED <<remote, sock, bev, connected, rest>>
      BY <1>18 DEF Disconnect
    <3>4. dev_pc' \in {"statmach", "sleep", "new", "dial", "dial_clear", "chgstat", "loop",
                      "drain", "disconnect", "clear", "restart"}
      BY <3>2
    <3>5. pending' \in BOOLEAN
      BY <3>2, Zenon
    <3> QED BY <3>1, <3>3, <3>4, <3>5
  <2>2. PhaseInv'
    BY <1>18 DEF Disconnect, PhaseInv
  <2>3. HeapInv'
    BY <1>18 DEF Disconnect, HeapInv
  <2>4. WriterInv'
    BY <1>18 DEF Disconnect, WriterInv
  <2> QED BY <2>1, <2>2, <2>3, <2>4
<1>19. CASE DisconnectClear
  <2>1. TypeOK'
    BY <1>19 DEF DisconnectClear
  <2>2. PhaseInv'
    BY <1>19 DEF DisconnectClear, PhaseInv
  <2>3. HeapInv'
    BY <1>19 DEF DisconnectClear, HeapInv
  <2>4. WriterInv'
    BY <1>19 DEF DisconnectClear, WriterInv, PhaseInv
  <2> QED BY <2>1, <2>2, <2>3, <2>4
<1>20. CASE RunDone
  <2>1. TypeOK'
    BY <1>20 DEF RunDone
  <2>2. PhaseInv'
    BY <1>20 DEF RunDone, PhaseInv
  <2>3. HeapInv'
    BY <1>20 DEF RunDone, HeapInv
  <2>4. WriterInv'
    BY <1>20 DEF RunDone, WriterInv
  <2> QED BY <2>1, <2>2, <2>3, <2>4
<1>21. ASSUME NEW s \in Sers, WriteCall(s) PROVE IInv'
  <2>1. TypeOK'
    <3>1. svc_pc' = "is_bev" /\ svc_ser' = s /\ retval' = FALSE
      BY <1>21, Zenon DEF WriteCall
    <3>2. UNCHANGED <<remote, link, dev, nserid, svc_out, disturbed>>
      BY <1>21 DEF WriteCall
    <3>3. svc_pc' \in {"idle", "is_bev", "is_connected", "set_ser", "get_output", "add"}
      BY <3>1
    <3>4. svc_ser' \in Sers \cup {None} /\ retval' \in BOOLEAN
      BY <3>1, Zenon
    <3> QED BY <3>2, <3>3, <3>4
  <2>2. PhaseInv'
    BY <1>21 DEF WriteCall, PhaseInv
  <2>3. HeapInv'
    BY <1>21 DEF WriteCall, HeapInv
  <2>4. WriterInv'
    BY <1>21 DEF WriteCall, WriterInv
  <2> QED BY <2>1, <2>2, <2>3, <2>4
<1>22. CASE WriteNoBev
  <2>1. TypeOK'
    BY <1>22 DEF WriteNoBev
  <2>2. PhaseInv'
    BY <1>22 DEF WriteNoBev, PhaseInv
  <2>3. HeapInv'
    BY <1>22 DEF WriteNoBev, HeapInv
  <2>4. WriterInv'
    BY <1>22 DEF WriteNoBev, WriterInv
  <2> QED BY <2>1, <2>2, <2>3, <2>4
<1>23. CASE WriteBev
  <2>1. TypeOK'
    BY <1>23 DEF WriteBev
  <2>2. PhaseInv'
    BY <1>23 DEF WriteBev, PhaseInv
  <2>3. HeapInv'
    BY <1>23 DEF WriteBev, HeapInv
  <2>4. WriterInv'
    BY <1>23 DEF WriteBev, WriterInv
  <2> QED BY <2>1, <2>2, <2>3, <2>4
<1>24. CASE WriteNotConnected
  <2>1. TypeOK'
    BY <1>24 DEF WriteNotConnected
  <2>2. PhaseInv'
    BY <1>24 DEF WriteNotConnected, PhaseInv
  <2>3. HeapInv'
    BY <1>24 DEF WriteNotConnected, HeapInv
  <2>4. WriterInv'
    BY <1>24 DEF WriteNotConnected, WriterInv
  <2> QED BY <2>1, <2>2, <2>3, <2>4
<1>25. CASE WriteConnected
  <2>1. TypeOK'
    <3>1. svc_pc' = "set_ser" /\ disturbed' = FALSE
      BY <1>25, Zenon DEF WriteConnected
    <3>2. UNCHANGED <<remote, link, dev, nserid, svc_ser, svc_out, retval>>
      BY <1>25 DEF WriteConnected
    <3>3. svc_pc' \in {"idle", "is_bev", "is_connected", "set_ser", "get_output", "add"}
      BY <3>1
    <3>4. disturbed' \in BOOLEAN
      BY <3>1, Zenon
    <3> QED BY <3>2, <3>3, <3>4
  <2>2. PhaseInv'
    BY <1>25 DEF WriteConnected, PhaseInv
  <2>3. HeapInv'
    BY <1>25 DEF WriteConnected, HeapInv
  <2>4. WriterInv'
    BY <1>25 DEF WriteConnected, WriterInv
  <2> QED BY <2>1, <2>2, <2>3, <2>4
<1>26. CASE WriteSetSer
  <2>1. TypeOK'
    BY <1>26 DEF WriteSetSer
  <2>2. PhaseInv'
    BY <1>26 DEF WriteSetSer, PhaseInv
  <2>3. HeapInv'
    BY <1>26 DEF WriteSetSer, HeapInv
  <2>4. WriterInv'
    BY <1>26 DEF WriteSetSer, WriterInv
  <2> QED BY <2>1, <2>2, <2>3, <2>4
<1>27. CASE WriteGetOutput
  <2>1. TypeOK'
    BY <1>27 DEF WriteGetOutput
  <2>2. PhaseInv'
    BY <1>27 DEF WriteGetOutput, PhaseInv
  <2>3. HeapInv'
    BY <1>27 DEF WriteGetOutput, HeapInv
  <2>4. WriterInv'
    BY <1>27 DEF WriteGetOutput, WriterInv
  <2> QED BY <2>1, <2>2, <2>3, <2>4
<1>28. CASE WriteAdd
  <2>1. TypeOK'
    BY <1>28 DEF WriteAdd
  <2>2. PhaseInv'
    BY <1>28 DEF WriteAdd, PhaseInv
  <2>3. HeapInv'
    BY <1>28 DEF WriteAdd, HeapInv
  <2>4. WriterInv'
    BY <1>28 DEF WriteAdd, WriterInv
  <2> QED BY <2>1, <2>2, <2>3, <2>4
<1>29. CASE WriteAddFails
  <2>1. TypeOK'
    BY <1>29 DEF WriteAddFails
  <2>2. PhaseInv'
    BY <1>29 DEF WriteAddFails, PhaseInv
  <2>3. HeapInv'
    BY <1>29 DEF WriteAddFails, HeapInv
  <2>4. WriterInv'
    BY <1>29 DEF WriteAddFails, WriterInv
  <2> QED BY <2>1, <2>2, <2>3, <2>4
<1>30. CASE UNCHANGED vars
  <2>1. TypeOK'
    BY <1>30 DEF vars
  <2>2. PhaseInv'
    BY <1>30 DEF vars, PhaseInv
  <2>3. HeapInv'
    BY <1>30 DEF vars, HeapInv
  <2>4. WriterInv'
    BY <1>30 DEF vars, WriterInv
  <2> QED BY <2>1, <2>2, <2>3, <2>4
<1> QED
  BY <1>1, <1>2, <1>3, <1>4, <1>5, <1>6, <1>7, <1>8, <1>9, <1>10, <1>11, <1>12,
     <1>13, <1>14, <1>15, <1>16, <1>17, <1>18, <1>19, <1>20, <1>21, <1>22, <1>23, <1>24,
     <1>25, <1>26, <1>27, <1>28, <1>29, <1>30 DEF Next, DevStep, SvcStep

LEMMA Inductive == Spec => []IInv
BY InitInv, NextInv, PTL DEF Spec

\* Every variable of the device link keeps its type.
THEOREM TypeCorrect == Spec => []TypeOK
<1>1. IInv => TypeOK
  BY DEF IInv
<1> QED BY <1>1, Inductive, PTL

\* The flag devnet_isconnected reads is never set for a bufferevent that has
\* been freed or never connected.
THEOREM ConnectedIsLive == Spec => []ConnectedMeansLive
<1>1. IInv => ConnectedMeansLive
  BY DEF IInv, PhaseInv, HeapInv, ConnectedMeansLive
<1> QED BY <1>1, Inductive, PTL

\* However often devcom_prep and devcom_run alternate, at most the current
\* bufferevent is allocated.
THEOREM NothingLeaks == Spec => []NoBevLeak
<1>1. IInv => NoBevLeak
  BY DEF IInv, HeapInv, NoBevLeak
<1> QED BY <1>1, Inductive, PTL

\* The one race of devnet_write: without a loss of the link between its check
\* and its evbuffer_add it always writes to an allocated bufferevent.
THEOREM OnlyLossIsDangerous == Spec => []OnlyLossBreaksWrite
<1>1. IInv => OnlyLossBreaksWrite
  BY DEF IInv, PhaseInv, HeapInv, WriterInv, OnlyLossBreaksWrite
<1> QED BY <1>1, Inductive, PTL

-----------------------------------------------------------------------------
\* The steps of devnet.c add up to those of AtomicLink.  What it takes, besides
\* IInv: the flag is set whenever the socket of the bufferevent is connected,
\* and a call has returned nothing before it is over.
PassInv ==
    /\ bev # None /\ sock[bev] \in {"up", "broken"} => connected
    /\ dev_pc = "drain" => connected /\ pending
    /\ svc_pc # "idle" => ~ retval /\ svc_ser \in Sers

LEMMA InitPass == Init => PassInv
  BY DEF Init, PassInv

LEMMA NextPass == IInv /\ PassInv /\ [Next]_vars => PassInv'
<1> SUFFICES ASSUME IInv, PassInv, [Next]_vars PROVE PassInv'
  OBVIOUS
<1> USE DevLinkAssumption DEF PassInv, DevAt, DevGoto, SvcReturns, link, rest, dev, svc
<1>1. CASE RemoteUp \/ Prep \/ PrepDone \/ RunLoop \/ EventWritable \/ LoopEmpty \/ RunDone
  BY <1>1 DEF RemoteUp, Prep, PrepDone, RunLoop, EventWritable, LoopEmpty, RunDone, IInv, TypeOK
<1>2. CASE RemoteDown
  BY <1>2 DEF RemoteDown, IInv, TypeOK
<1>3. CASE ConnectFreeOld \/ ConnectNewFails \/ ConnectClear \/ Disconnect \/ DisconnectClear
  BY <1>3 DEF ConnectFreeOld, ConnectNewFails, ConnectClear, Disconnect, DisconnectClear, IInv,
     TypeOK
<1>4. CASE ConnectNew \/ ConnectDial \/ ConnectDialErrorNow \/ ConnectDialFails
  BY <1>4 DEF ConnectNew, ConnectDial, ConnectDialErrorNow, ConnectDialFails, IInv, TypeOK
<1>5. CASE EventConnected \/ EventLost
  BY <1>5 DEF EventConnected, EventLost, IInv, TypeOK
<1>6. CASE EventWritten
  BY <1>6 DEF EventWritten
<1>7. ASSUME NEW s \in Sers, WriteCall(s) PROVE PassInv'
  BY <1>7 DEF WriteCall
<1>8. CASE WriteNoBev \/ WriteBev \/ WriteNotConnected \/ WriteConnected \/ WriteSetSer
  BY <1>8 DEF WriteNoBev, WriteBev, WriteNotConnected, WriteConnected, WriteSetSer
<1>9. CASE WriteGetOutput \/ WriteAddFails
  BY <1>9 DEF WriteGetOutput, WriteAddFails
<1>10. CASE WriteAdd
  <2>1. (pending => pending') /\ svc_pc' = "idle" /\ UNCHANGED <<bev, sock, connected, dev_pc>>
    BY <1>10 DEF WriteAdd
  <2> QED BY <2>1
<1>11. CASE UNCHANGED vars
  BY <1>11 DEF vars
<1> QED
  BY <1>1, <1>2, <1>3, <1>4, <1>5, <1>6, <1>7, <1>8, <1>9, <1>10, <1>11 DEF Next, DevStep, SvcStep

LEMMA LinkInit == Init => Link!Init
  BY DEF Init, Link!Init, Passing

LEMMA LinkStep == IInv /\ PassInv /\ [Next]_vars => [Link!Next]_(Link!vars)
<1> SUFFICES ASSUME IInv, PassInv, [Next]_vars PROVE [Link!Next]_(Link!vars)
  OBVIOUS
<1> USE DevLinkAssumption DEF IInv, PassInv, DevAt, DevGoto, SvcReturns, Passing, link, rest, dev, svc
\* The device thread, away from its events, and the device
<1>1. CASE RemoteUp \/ RemoteDown
  BY <1>1 DEF RemoteUp, RemoteDown, Link!vars
<1>2. CASE Prep \/ ConnectFreeOld \/ ConnectNew \/ ConnectNewFails \/ ConnectDial
  BY <1>2 DEF Prep, ConnectFreeOld, ConnectNew, ConnectNewFails, ConnectDial, Link!vars
<1>3. CASE ConnectDialFails \/ ConnectClear \/ PrepDone \/ RunLoop \/ EventWritable
  BY <1>3 DEF ConnectDialFails, ConnectClear, PrepDone, RunLoop, EventWritable, Link!vars
<1>4. CASE ConnectDialErrorNow
  <2>1. ~ connected
    BY <1>4 DEF ConnectDialErrorNow, PhaseInv
  <2> QED BY <1>4, <2>1 DEF ConnectDialErrorNow, TypeOK, Link!vars
<1>5. CASE DisconnectClear \/ RunDone
  BY <1>5 DEF DisconnectClear, RunDone, Link!vars
\* Its events
<1>6. CASE EventConnected
  <2>1. ~ connected
    BY <1>6 DEF EventConnected, PhaseInv
  <2>2. Link!ComeUp
    BY <1>6, <2>1 DEF EventConnected, Link!ComeUp
  <2> QED BY <2>2 DEF Link!Next
<1>7. CASE EventWritten
  <2>1. Link!Transmit
    BY <1>7 DEF EventWritten, Link!Transmit
  <2> QED BY <2>1 DEF Link!Next
<1>8. CASE EventLost
  <2>1. CASE connected
    <3>1. Link!Lose
      BY <1>8, <2>1 DEF EventLost, Link!Lose
    <3> QED BY <3>1 DEF Link!Next
  <2>2. CASE ~ connected
    <3>1. Link!Forget
      BY <1>8, <2>2 DEF EventLost, Link!Forget, TypeOK
    <3> QED BY <3>1 DEF Link!Next
  <2> QED BY <2>1, <2>2
<1>9. CASE LoopEmpty
  <2>1. ~ connected
    BY <1>9 DEF LoopEmpty, PhaseInv
  <2>2. Link!Forget
    BY <1>9, <2>1 DEF LoopEmpty, Link!Forget
  <2> QED BY <2>2 DEF Link!Next
<1>10. CASE Disconnect
  <2>1. ~ connected
    BY <1>10 DEF Disconnect, PhaseInv
  <2> QED BY <1>10, <2>1 DEF Disconnect, Link!vars
\* The service thread
<1>11. ASSUME NEW s \in Sers, WriteCall(s) PROVE Link!Next
  <2>1. Link!Call
    BY <1>11 DEF WriteCall, Link!Call
  <2> QED BY <2>1 DEF Link!Next
<1>12. CASE WriteNoBev \/ WriteBev \/ WriteNotConnected \/ WriteGetOutput
  BY <1>12 DEF WriteNoBev, WriteBev, WriteNotConnected, WriteGetOutput, Link!vars
<1>13. CASE WriteConnected
  <2>1. Link!Enter
    BY <1>13 DEF WriteConnected, Link!Enter
  <2> QED BY <2>1 DEF Link!Next
<1>14. CASE WriteSetSer
  <2>1. Link!Remember(svc_ser) /\ svc_ser \in Sers
    BY <1>14 DEF WriteSetSer, Link!Remember
  <2> QED BY <2>1 DEF Link!Next
<1>15. CASE WriteAdd
  <2>1. CASE ~ disturbed
    <3>1. connected /\ svc_out = bev /\ bev # None /\ heap = {bev}
      BY <1>15, <2>1 DEF WriteAdd, WriterInv, PhaseInv, HeapInv
    <3>2. pending' = TRUE /\ retval' = TRUE
      BY <1>15, <3>1 DEF WriteAdd
    <3>3. Link!Put
      BY <1>15, <2>1, <3>1, <3>2 DEF WriteAdd, Link!Put
    <3> QED BY <3>3 DEF Link!Next
  <2>2. CASE disturbed
    <3>1. retval' \in BOOLEAN /\ pending' \in BOOLEAN /\ (pending => pending')
      BY <1>15 DEF WriteAdd, TypeOK
    <3>2. Link!PutLate
      BY <1>15, <2>2, <3>1 DEF WriteAdd, Link!PutLate, TypeOK
    <3> QED BY <3>2 DEF Link!Next
  <2> QED BY <2>1, <2>2 DEF TypeOK
<1>16. CASE WriteAddFails
  <2>1. CASE ~ disturbed
    <3>1. Link!Refuse
      BY <1>16, <2>1 DEF WriteAddFails, Link!Refuse
    <3> QED BY <3>1 DEF Link!Next
  <2>2. CASE disturbed
    <3>1. Link!PutLate
      BY <1>16, <2>2 DEF WriteAddFails, Link!PutLate, TypeOK
    <3> QED BY <3>1 DEF Link!Next
  <2> QED BY <2>1, <2>2 DEF TypeOK
<1>17. CASE UNCHANGED vars
  BY <1>17 DEF vars, Link!vars
<1> QED
  BY <1>1, <1>2, <1>3, <1>4, <1>5, <1>6, <1>7, <1>8, <1>9, <1>10, <1>11, <1>12, <1>13, <1>14,
     <1>15, <1>16, <1>17
  DEF Next, DevStep, SvcStep

\* Unlocked as it is, devnet.c behaves like a link with single steps: what it
\* accepts is on its way over the link that was checked, unless that link was
\* lost during the call.
THEOREM LinkIsAtomic == Spec => ImplementsAtomicLink
<1>1. Spec => []IInv
  BY Inductive
<1>2. Spec => []PassInv
  BY <1>1, InitPass, NextPass, PTL DEF Spec
<1>3. Spec => Link!Spec
  BY <1>1, <1>2, LinkInit, LinkStep, PTL DEF Spec, Link!Spec
<1> QED BY <1>3 DEF ImplementsAtomicLink
=============================================================================
