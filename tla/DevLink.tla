------------------------------- MODULE DevLink -------------------------------
(***************************************************************************)
(* The link to one device: src/agent/devcom.c and devnet.c, with the task  *)
(* state of l0003-0/task.c that drives them.                               *)
(*                                                                         *)
(* The device thread alternates between two handlers.  devcom_prep waits,  *)
(* makes a bufferevent and starts to connect; devcom_run dispatches the    *)
(* events of that bufferevent until its loop ends, frees it and goes back  *)
(* to devcom_prep.  Meanwhile the service thread calls devnet_write, which *)
(* reads devnet->bev and devnet->flags with no lock: `rwlock' is           *)
(* initialised and never taken.  Each read and write of a shared field is  *)
(* a step here.                                                            *)
(*                                                                         *)
(* Out of the model: what is read from the device (Relay), wr_off, which   *)
(* only ever grows and is never used, and task_stop (nothing stops a       *)
(* device's task once the agent runs).                                     *)
(***************************************************************************)
EXTENDS Naturals

CONSTANTS
    Bevs,       \* addresses a bufferevent can have
    Sers,       \* socket numbers of the clients that send commands
    None        \* NULL, and nserid before any command

ASSUME DevLinkAssumption == None \notin Bevs \cup Sers

VARIABLES
    remote,           \* is the device listening?
    heap,             \* the bufferevents that are allocated
    sock,             \* sock[b]: "new", "connecting", "up", "broken", "stuck" or "dead"
    bev,              \* devnet->bev
    connected,        \* DEVNET_FLAGS_CONNECTED in devnet->flags
    pending,          \* is there output in bev that libevent has not sent?
    nserid,           \* devnet->nserid
    task,             \* flags & TASK_MASK of the device's task
    reconnect_count,  \* dev_proc->reconnect_count, up to BackoffAfter
    dev_pc,           \* where the device thread is
    svc_pc,           \* where the service thread is in devnet_write
    svc_ser,          \* its parameter serid
    svc_out,          \* the bufferevent its local `output' belongs to
    retval,           \* what it returns, or last returned: TRUE for 0
    disturbed         \* history: the link was lost during this devnet_write

link == <<heap, sock, bev, connected, pending>>
dev == <<task, reconnect_count, dev_pc>>
rest == <<task, reconnect_count, nserid, svc_pc, svc_ser, svc_out, retval, disturbed>>
svc == <<nserid, svc_pc, svc_ser, svc_out, retval>>
vars == <<remote, heap, sock, bev, connected, pending, nserid, task, reconnect_count,
          dev_pc, svc_pc, svc_ser, svc_out, retval, disturbed>>

\* From the third attempt on devcom_prep sleeps 10 s instead of 1 s; nothing
\* tells larger counts apart, so the count stops there.
BackoffAfter == 3

-----------------------------------------------------------------------------
Init ==
    /\ remote \in BOOLEAN
    /\ heap = {}
    /\ sock = [b \in Bevs |-> "dead"]
    /\ bev = None
    /\ connected = FALSE
    /\ pending = FALSE
    /\ nserid = None
    /\ task = "PREP"
    /\ reconnect_count = 0
    /\ dev_pc = "statmach"
    /\ svc_pc = "idle"
    /\ svc_ser = None
    /\ svc_out = None
    /\ retval = FALSE
    /\ disturbed = FALSE

-----------------------------------------------------------------------------
\* The device, at the other end of the wire

RemoteUp ==
    /\ ~ remote
    /\ remote' = TRUE
    /\ UNCHANGED <<link, dev, svc, disturbed>>

\* It stops listening, and the connection it had breaks.
RemoteDown ==
    /\ remote
    /\ remote' = FALSE
    /\ sock' = [b \in Bevs |-> IF sock[b] = "up" THEN "broken" ELSE sock[b]]
    /\ UNCHANGED <<heap, bev, connected, pending, dev, svc, disturbed>>

-----------------------------------------------------------------------------
\* devcom_prep and devnet_connect

DevAt(pc) == dev_pc = pc
DevGoto(pc) == dev_pc' = pc

\* task_process calls devcom_prep, which counts the attempt and sleeps.
Prep ==
    /\ DevAt("statmach") /\ task = "PREP"
    /\ reconnect_count' =
           IF reconnect_count < BackoffAfter THEN reconnect_count + 1 ELSE BackoffAfter
    /\ DevGoto("sleep")
    /\ UNCHANGED <<remote, link, task, svc, disturbed>>

\* devnet_connect first frees a bufferevent it still has (there is none).
ConnectFreeOld ==
    /\ DevAt("sleep")
    /\ heap' = heap \ {bev}
    /\ bev' = None
    /\ DevGoto("new")
    /\ UNCHANGED <<remote, sock, connected, pending, rest>>

ConnectNew ==
    /\ DevAt("new")
    /\ \E b \in Bevs \ heap :
           /\ heap' = heap \cup {b}
           /\ bev' = b
           /\ sock' = [sock EXCEPT ![b] = "new"]
    /\ DevGoto("dial")
    /\ UNCHANGED <<remote, connected, pending, rest>>

\* bufferevent_socket_new returns NULL: err1.
ConnectNewFails ==
    /\ DevAt("new")
    /\ bev' = None
    /\ DevGoto("chgstat")
    /\ UNCHANGED <<remote, heap, sock, connected, pending, rest>>

ConnectDial ==
    /\ DevAt("dial")
    /\ sock' = [sock EXCEPT ![bev] = "connecting"]
    /\ DevGoto("chgstat")
    /\ UNCHANGED <<remote, heap, bev, connected, pending, rest>>

\* connect() fails at once; libevent runs _devnet_eventcb from inside the
\* call, outside of the loop, and reports success to the caller.  The events
\* of the bufferevent stay registered, for no descriptor, so that nothing will
\* ever come of them; and the loop that is about to start forgets the
\* loopbreak of the callback.
ConnectDialErrorNow ==
    /\ DevAt("dial")
    /\ sock' = [sock EXCEPT ![bev] = "stuck"]
    /\ connected' = FALSE
    /\ disturbed' = (disturbed \/ connected)
    /\ DevGoto("chgstat")
    /\ UNCHANGED <<remote, heap, bev, pending, task, reconnect_count, svc>>

\* bufferevent_socket_connect_hostname returns -1: err2 frees, then clears.
ConnectDialFails ==
    /\ DevAt("dial")
    /\ heap' = heap \ {bev}
    /\ DevGoto("dial_clear")
    /\ UNCHANGED <<remote, sock, bev, connected, pending, rest>>

ConnectClear ==
    /\ DevAt("dial_clear")
    /\ bev' = None
    /\ DevGoto("chgstat")
    /\ UNCHANGED <<remote, heap, sock, connected, pending, rest>>

\* devcom_prep ends with chgstat(TASK_RUNNING) whatever devnet_connect said.
PrepDone ==
    /\ DevAt("chgstat")
    /\ task' = "RUNNING"
    /\ DevGoto("statmach")
    /\ UNCHANGED <<remote, link, reconnect_count, svc, disturbed>>

-----------------------------------------------------------------------------
\* devcom_run: the event loop and _devnet_eventcb

RunLoop ==
    /\ DevAt("statmach") /\ task = "RUNNING"
    /\ DevGoto("loop")
    /\ UNCHANGED <<remote, link, rest>>

EventConnected ==
    /\ DevAt("loop") /\ bev # None
    /\ sock[bev] = "connecting" /\ remote
    /\ sock' = [sock EXCEPT ![bev] = "up"]
    /\ connected' = TRUE
    /\ UNCHANGED <<remote, heap, bev, pending, dev, svc, disturbed>>

\* The socket is writable: libevent sends the output buffer, outside of any
\* lock since the bufferevent was made without BEV_OPT_THREADSAFE ...
EventWritable ==
    /\ DevAt("loop") /\ bev # None
    /\ sock[bev] = "up" /\ pending
    /\ DevGoto("drain")
    /\ UNCHANGED <<remote, link, rest>>

\* ... and removes what the socket took of it.
EventWritten ==
    /\ DevAt("drain")
    /\ pending' \in BOOLEAN
    /\ DevGoto("loop")
    /\ UNCHANGED <<remote, heap, sock, bev, connected, rest>>

\* Mutant: DEVNET_FLAGS_CONNECTED is not cleared.
EventLostKeepsFlag ==
    /\ DevAt("loop") /\ bev # None
    /\ \/ sock[bev] = "connecting" /\ ~ remote
       \/ sock[bev] = "broken"
    /\ sock' = [sock EXCEPT ![bev] = "dead"]
    /\ disturbed' = (disturbed \/ connected)
    /\ DevGoto("disconnect")
    /\ UNCHANGED <<remote, heap, bev, connected, pending, task, reconnect_count, svc>>

\* EOF or ERROR: the flag is cleared and the loop broken.
EventLost ==
    /\ DevAt("loop") /\ bev # None
    /\ \/ sock[bev] = "connecting" /\ ~ remote
       \/ sock[bev] = "broken"
    /\ sock' = [sock EXCEPT ![bev] = "dead"]
    /\ connected' = FALSE
    /\ disturbed' = (disturbed \/ connected)
    /\ DevGoto("disconnect")
    /\ UNCHANGED <<remote, heap, bev, pending, task, reconnect_count, svc>>

\* event_base_dispatch returns at once when no event is registered: there is
\* no bufferevent.
LoopEmpty ==
    /\ DevAt("loop") /\ bev = None
    /\ DevGoto("disconnect")
    /\ UNCHANGED <<remote, link, rest>>

\* Mutant: the pointer is cleared but the bufferevent is not freed.
DisconnectLeaks ==
    /\ DevAt("disconnect")
    /\ DevGoto("clear")
    /\ UNCHANGED <<remote, link, rest>>

\* devnet_disconnect frees the bufferevent with its output, then clears the
\* pointer.
Disconnect ==
    /\ DevAt("disconnect")
    /\ heap' = heap \ {bev}
    /\ pending' = FALSE
    /\ DevGoto("clear")
    /\ UNCHANGED <<remote, sock, bev, connected, rest>>

DisconnectClear ==
    /\ DevAt("clear")
    /\ bev' = None
    /\ DevGoto("restart")
    /\ UNCHANGED <<remote, heap, sock, connected, pending, rest>>

\* Mutant: devcom_run does not go back to TASK_PREP.
RunDoneStays ==
    /\ DevAt("restart")
    /\ DevGoto("statmach")
    /\ UNCHANGED <<remote, link, task, reconnect_count, svc, disturbed>>

RunDone ==
    /\ DevAt("restart")
    /\ task' = "PREP"
    /\ DevGoto("statmach")
    /\ UNCHANGED <<remote, link, reconnect_count, svc, disturbed>>

-----------------------------------------------------------------------------
\* devnet_write, in the service thread

SvcReturns ==
    /\ svc_pc' = "idle"
    /\ svc_ser' = None
    /\ svc_out' = None
    /\ disturbed' = FALSE

WriteCall(s) ==
    /\ svc_pc = "idle"
    /\ svc_pc' = "is_bev"
    /\ svc_ser' = s
    /\ retval' = FALSE
    /\ UNCHANGED <<remote, link, dev, nserid, svc_out, disturbed>>

\* devnet_isconnected looks at the pointer ...
WriteNoBev ==
    /\ svc_pc = "is_bev" /\ bev = None
    /\ SvcReturns
    /\ UNCHANGED <<remote, link, dev, nserid, retval>>

WriteBev ==
    /\ svc_pc = "is_bev" /\ bev # None
    /\ svc_pc' = "is_connected"
    /\ UNCHANGED <<remote, link, dev, nserid, svc_ser, svc_out, retval, disturbed>>

\* ... and then at the flag.
WriteNotConnected ==
    /\ svc_pc = "is_connected" /\ ~ connected
    /\ SvcReturns
    /\ UNCHANGED <<remote, link, dev, nserid, retval>>

\* Mutant: devnet_isconnected looks at the pointer only.
WriteConnectedByBev ==
    /\ svc_pc = "is_connected"
    /\ svc_pc' = "set_ser"
    /\ disturbed' = FALSE
    /\ UNCHANGED <<remote, link, dev, nserid, svc_ser, svc_out, retval>>

WriteConnected ==
    /\ svc_pc = "is_connected" /\ connected
    /\ svc_pc' = "set_ser"
    /\ disturbed' = FALSE
    /\ UNCHANGED <<remote, link, dev, nserid, svc_ser, svc_out, retval>>

WriteSetSer ==
    /\ svc_pc = "set_ser"
    /\ nserid' = svc_ser
    /\ svc_pc' = "get_output"
    /\ UNCHANGED <<remote, link, dev, svc_ser, svc_out, retval, disturbed>>

\* bufferevent_get_output reads the pointer a second time.
WriteGetOutput ==
    /\ svc_pc = "get_output"
    /\ svc_out' = bev
    /\ svc_pc' = "add"
    /\ UNCHANGED <<remote, link, dev, nserid, svc_ser, retval, disturbed>>

\* evbuffer_add to the output of svc_out, which is bev's unless the link was
\* lost.  In memory that has been freed it may return anything.
WriteAdd ==
    /\ svc_pc = "add"
    /\ pending' = (pending \/ svc_out \in heap \cap {bev})
    /\ retval' \in (IF svc_out \in heap THEN {TRUE} ELSE BOOLEAN)
    /\ SvcReturns
    /\ UNCHANGED <<remote, heap, sock, bev, connected, dev, nserid>>

\* evbuffer_add has no memory: nserid names a client that sent nothing.
WriteAddFails ==
    /\ svc_pc = "add"
    /\ SvcReturns
    /\ UNCHANGED <<remote, link, dev, nserid, retval>>

-----------------------------------------------------------------------------
DevStep ==
    \/ Prep
    \/ ConnectFreeOld
    \/ ConnectNew
    \/ ConnectNewFails
    \/ ConnectDial
    \/ ConnectDialErrorNow
    \/ ConnectDialFails
    \/ ConnectClear
    \/ PrepDone
    \/ RunLoop
    \/ EventConnected
    \/ EventWritable
    \/ EventWritten
    \/ EventLost
    \/ LoopEmpty
    \/ Disconnect
    \/ DisconnectClear
    \/ RunDone

SvcStep ==
    \/ \E s \in Sers : WriteCall(s)
    \/ WriteNoBev
    \/ WriteBev
    \/ WriteNotConnected
    \/ WriteConnected
    \/ WriteSetSer
    \/ WriteGetOutput
    \/ WriteAdd
    \/ WriteAddFails

Next == RemoteUp \/ RemoteDown \/ DevStep \/ SvcStep

Spec == Init /\ [][Next]_vars

\* The device thread keeps running, libevent reports what happened to the
\* socket, and neither allocation nor connect() fails for ever.
Fairness ==
    /\ WF_vars(DevStep)
    /\ SF_vars(ConnectNew)
    /\ SF_vars(ConnectDial)

FairSpec == Spec /\ Fairness

-----------------------------------------------------------------------------
TypeOK ==
    /\ remote \in BOOLEAN
    /\ heap \in SUBSET Bevs
    /\ sock \in [Bevs -> {"new", "connecting", "up", "broken", "stuck", "dead"}]
    /\ bev \in Bevs \cup {None}
    /\ connected \in BOOLEAN
    /\ pending \in BOOLEAN
    /\ nserid \in Sers \cup {None}
    /\ task \in {"PREP", "RUNNING"}
    /\ reconnect_count \in 0 .. BackoffAfter
    /\ dev_pc \in {"statmach", "sleep", "new", "dial", "dial_clear", "chgstat", "loop",
                   "drain", "disconnect", "clear", "restart"}
    /\ svc_pc \in {"idle", "is_bev", "is_connected", "set_ser", "get_output", "add"}
    /\ svc_ser \in Sers \cup {None}
    /\ svc_out \in Bevs \cup {None}
    /\ retval \in BOOLEAN
    /\ disturbed \in BOOLEAN

\* The flag the service thread trusts is only set while the bufferevent
\* exists and its socket has been connected: on every way out of the loop it
\* is cleared before the bufferevent is freed.
ConnectedMeansLive ==
    connected => bev \in heap /\ sock[bev] \in {"up", "broken"}

\* Reconnecting never leaks a bufferevent: the only one allocated is the one
\* devnet->bev points to.
NoBevLeak == heap \subseteq {bev}

\* devnet_write can meet a freed bufferevent or NULL in one way only: the
\* link is lost between its check and its evbuffer_add.
OnlyLossBreaksWrite ==
    svc_pc = "add" /\ ~ disturbed => svc_out \in heap

\* What devnet.c:165-167 checks for, "write data, but devnet disconnect":
\* data is only ever added to a bufferevent that exists.
WriteOnLive == svc_pc = "add" => svc_out \in heap

\* Although the flag, the pointer and the bufferevent change and are read one by
\* one and without a lock, devnet.c is a link that goes up and down in single
\* steps: a command that passed the check gets into the output of the link it
\* was checked for, or that link was lost, or there was no memory
\* (devnet.c:35-61, 101-150, 165-175).
Passing == svc_pc \in {"set_ser", "get_output", "add"}

Link == INSTANCE AtomicLink WITH
            up <- connected,
            output <- connected /\ pending,
            stray <- ~ connected /\ pending /\ dev_pc # "disconnect",
            last <- nserid,
            accepted <- retval,
            write <- IF Passing THEN (IF disturbed THEN "cut" ELSE "in") ELSE "no"

ImplementsAtomicLink == Link!Spec

\* The device thread waits in event_base_dispatch for events that cannot come:
\* connect() has failed at once.
Stuck == dev_pc = "loop" /\ bev # None /\ sock[bev] = "stuck"

\* If the device is reachable from some time on, the agent ends up connected
\* to it and stays so, however often it failed before and by whatever exit of
\* devnet_connect and the loop, but for one: an attempt that failed at once
\* was the last (devnet.c:123-149, 190-193, devcom.c:20-54).
Reconnects == <>[]remote => <>[]connected \/ <>[]Stuck

=============================================================================
