------------------------------- MODULE NetLink -------------------------------
(***************************************************************************)
(* The life of a connection: l0006-0/netcom.c without its packets, and     *)
(* l0006_netcmd_initialize and _release of netcmd.c.                       *)
(*                                                                         *)
(* One thread, the owner, makes the object, connects, runs the event loop  *)
(* and releases the object; it may also connect and disconnect from the    *)
(* operation `timeout', which the timer's callback calls.  libevent lets   *)
(* no other thread touch a bufferevent that is not THREADSAFE.  Other      *)
(* threads, the writers, send commands, and anybody may break the loop.    *)
(* All of them take the list lock, except l0006_netcom_disconnect and the  *)
(* release, which is why writing and disconnecting are several steps here. *)
(*                                                                         *)
(* parts and bevs are what has been allocated.  A pointer to what is no    *)
(* longer there may be followed: broken names the writers that did.  When  *)
(* something is freed twice, or the lock is destroyed under a writer, the  *)
(* program is at the mercy of its allocator: dead says so, and the owner   *)
(* goes no further in the model.                                           *)
(*                                                                         *)
(* Out of the model: what is written and read (NetCmd, ReadBuf), except    *)
(* that the read callback holds the lock, it may be for ever; and an event *)
(* callback that libevent makes inside of                                  *)
(* bufferevent_socket_connect_hostname, with the lock held.                *)
(***************************************************************************)
EXTENDS Integers, SequencesExt

CONSTANTS
    Writers,      \* tasks that call l0006_netcom_write
    None,
    Reader,       \* the read callback, as a holder of the list lock
    MaxConnects,  \* bound: bufferevents made
    MaxInits      \* bound: objects made

ASSUME NetLinkAssumption ==
    /\ MaxConnects \in Nat /\ MaxInits \in Nat
    /\ None \notin Writers /\ None \notin Nat
    /\ Reader \notin Writers \cup {None}

VARIABLES
    pc,         \* the owner: "none" (no object), "ready" (has one, outside of the
                \* loop), "loop" (waits for events), "timer" (in the timer's callback),
                \* "hook" (in the operation timeout), "parse" (in the read callback),
                \* "after" (behind a callback)
    disc,       \* the owner in l0006_netcom_disconnect: "free" and "clear" are the
                \* lines it is at, "no" if it is not there
    lock,       \* the writer that holds the list lock, or Reader, or None
    parts,      \* allocated, of the object and what belongs to it
    bevs,       \* allocated bufferevents
    bev,        \* nc->bev
    status,     \* of each bufferevent made: "connecting", "up" or "down"
    connected,  \* L0006_NETCOM_FLAGS_CONNECTED
    event_break,\* base->event_break
    armed,      \* the timer is pending
    added,      \* history: event_add has succeeded for it
    spun,       \* the read callback will not come back
    wpc,        \* each writer: "idle", "enter", "output", "add" or "unlock"
    output,     \* its local output, by the bufferevent it belongs to
    inits,      \* objects made
    dead,       \* something has been freed twice, or used when it was gone
    replaced,   \* history: bev was freed while the flag was set, and no event since
    raced,      \* history: writers that were inside while a disconnect or release went on
    broken,     \* history: writers that followed a pointer to what was freed
    left        \* history: bufferevents that objects were released with

owner == <<pc, disc>>
link == <<bev, status, connected>>
timer == <<armed, added>>
loop == <<event_break, timer, spun>>
writing == <<wpc, output>>
past == <<replaced, raced, broken, left>>
heap == <<parts, bevs>>
vars == <<owner, lock, heap, link, loop, writing, inits, dead, past>>

-----------------------------------------------------------------------------
\* What l0006_netcmd_initialize acquires, in that order.
PartOrder == <<"nc", "rwlock_attr", "rwlock", "wrbuf_ncbuf", "wrbuf_blob", "ncrdbuf.blob",
               "base", "evtimeout">>

Parts == ToSet(PartOrder)
Bevs == 1 .. MaxConnects

Init ==
    /\ pc = "none" /\ disc = "no"
    /\ lock = None
    /\ parts = {} /\ bevs = {}
    /\ bev = None /\ status = <<>> /\ connected = FALSE
    /\ event_break = FALSE /\ armed = FALSE /\ added = FALSE
    /\ spun = FALSE
    /\ wpc = [w \in Writers |-> "idle"]
    /\ output = [w \in Writers |-> None]
    /\ inits = 0
    /\ dead = FALSE
    /\ replaced = FALSE /\ raced = {} /\ broken = {} /\ left = {}

-----------------------------------------------------------------------------
\* Making and releasing the object

\* The result of event_add is ignored: there may be no timer.
Initialize ==
    /\ pc = "none" /\ ~ dead /\ inits < MaxInits
    /\ pc' = "ready"
    /\ inits' = inits + 1
    /\ parts' = Parts
    /\ bev' = None /\ connected' = FALSE
    /\ event_break' = FALSE
    /\ added' \in BOOLEAN /\ armed' = added'
    /\ UNCHANGED <<bevs, disc, lock, status, spun, writing, dead, past>>

\* Mutant: the buffers stay when there is no event base.
Freed_NotBuffers(n) ==
    IF PartOrder[n] = "base" THEN <<"rwlock", "rwlock_attr", "nc">>
    ELSE (IF PartOrder[n] = "wrbuf_blob" THEN <<"wrbuf_ncbuf">> ELSE <<>>)
         \o Reverse(SubSeq(PartOrder, 1, n - 1))

\* The labels of netcom_allocate_buffer, l0006_netcom_initialize and
\* l0006_netcmd_initialize undo what was done before the n-th part could not be
\* had.  Without wrbuf_blob, wrbuf_ncbuf is freed before its label frees it.
\* A lock that cannot be initialised is not noticed: pthread_rwlock_init and
\* pthread_rwlockattr_init never return less than zero.
Freed(n) ==
    (IF PartOrder[n] = "wrbuf_blob" THEN <<"wrbuf_ncbuf">> ELSE <<>>)
    \o Reverse(SubSeq(PartOrder, 1, n - 1))

InitializeFails(n) ==
    /\ pc = "none" /\ ~ dead /\ inits < MaxInits
    /\ PartOrder[n] \notin {"rwlock_attr", "rwlock"}
    /\ inits' = inits + 1
    /\ parts' = ToSet(SubSeq(PartOrder, 1, n - 1)) \ ToSet(Freed(n))
    /\ dead' = ~ IsInjective(Freed(n))
    /\ UNCHANGED <<bevs, owner, lock, link, loop, writing, past>>

InCall == {w \in Writers : wpc[w] # "idle"}

\* l0006_netcmd_release frees the parts, and leaves the bufferevent to whoever forgot
\* to disconnect.  It takes no lock and does not look for writers: it destroys the
\* lock under them.  evtimer_del follows the pointer to the base, which has been freed
\* the line before, and that may go well or not.
Release ==
    /\ pc = "ready" /\ disc = "no" /\ ~ dead
    /\ pc' = "none"
    /\ parts' = {}
    /\ left' = IF bev = None THEN left ELSE left \cup {bev}
    /\ bev' = None /\ connected' = FALSE
    /\ event_break' = FALSE /\ armed' = FALSE /\ added' = FALSE
    /\ raced' = raced \cup InCall
    /\ broken' = broken \cup InCall
    /\ IF InCall = {} THEN dead' \in BOOLEAN ELSE dead' = TRUE
    /\ replaced' = FALSE
    /\ UNCHANGED <<bevs, disc, lock, status, spun, writing, inits>>

-----------------------------------------------------------------------------
\* Connecting and disconnecting, by the owner outside of the loop or in timeout

Free == disc = "no" /\ pc \in {"ready", "hook"} /\ ~ dead

\* Mutant: without the lock.
ConnectUnlocked ==
    /\ Free
    /\ Len(status) < MaxConnects
    /\ bevs' = (bevs \ {bev}) \cup {Len(status) + 1}
    /\ bev' = Len(status) + 1
    /\ status' = Append(status, "connecting")
    /\ replaced' = (replaced \/ (connected /\ bev # None))
    /\ UNCHANGED <<parts, owner, lock, connected, loop, writing, inits, dead, raced, broken, left>>

\* l0006_netcom_connect, l0006_netcom_connect2.  The flag is left as it is.
Connect ==
    /\ Free /\ lock = None
    /\ Len(status) < MaxConnects
    /\ bevs' = (bevs \ {bev}) \cup {Len(status) + 1}
    /\ bev' = Len(status) + 1
    /\ status' = Append(status, "connecting")
    /\ replaced' = (replaced \/ (connected /\ bev # None))
    /\ UNCHANGED <<parts, owner, lock, connected, loop, writing, inits, dead, raced, broken, left>>

\* bufferevent_socket_new has failed, or bufferevent_socket_connect in connect2,
\* or bufferevent_socket_connect_hostname in connect, which then frees the new
\* bufferevent twice.
ConnectFails(twice) ==
    /\ Free /\ lock = None
    /\ bevs' = bevs \ {bev}
    /\ bev' = None
    /\ dead' = twice
    /\ replaced' = (replaced \/ (connected /\ bev # None))
    /\ UNCHANGED <<parts, owner, lock, status, connected, loop, writing, inits, raced, broken, left>>

\* l0006_netcom_disconnect: event_base_loopbreak, bufferevent_free, bev = NULL.
Disconnect ==
    /\ Free
    /\ event_break' = TRUE
    /\ IF bev = None
       THEN UNCHANGED <<disc, raced>>
       ELSE disc' = "free" /\ raced' = raced \cup InCall
    /\ UNCHANGED <<pc, lock, heap, link, timer, spun, writing, inits, dead, replaced, broken, left>>

DisconnectFree ==
    /\ disc = "free"
    /\ bevs' = bevs \ {bev}
    /\ disc' = "clear"
    /\ replaced' = (replaced \/ connected)
    /\ UNCHANGED <<parts, pc, lock, link, loop, writing, inits, dead, raced, broken, left>>

DisconnectClear ==
    /\ disc = "clear"
    /\ bev' = None
    /\ disc' = "no"
    /\ UNCHANGED <<pc, lock, heap, status, connected, loop, writing, inits, dead, past>>

-----------------------------------------------------------------------------
\* The event loop

\* l0006_netcom_loop: event_base_loop starts by forgetting an earlier break.
Loop ==
    /\ pc = "ready" /\ disc = "no" /\ ~ dead
    /\ pc' = "loop"
    /\ event_break' = FALSE
    /\ UNCHANGED <<disc, lock, heap, link, timer, spun, writing, inits, dead, past>>

\* l0006_netcom_breakloop, from any thread
BreakLoop ==
    /\ pc # "none" /\ lock = None
    /\ event_break' = TRUE
    /\ UNCHANGED <<owner, lock, heap, link, timer, spun, writing, inits, dead, past>>

\* Mutant: the flag stays set when the connection ends.
LinkEventKeepsFlag(s) ==
    /\ pc = "loop" /\ lock = None
    /\ bev # None
    /\ \/ s = "up" /\ status[bev] = "connecting"
       \/ s = "down" /\ status[bev] # "down"
    /\ status' = [status EXCEPT ![bev] = s]
    /\ connected' = (connected \/ s = "up")
    /\ replaced' = FALSE
    /\ pc' = "after"
    /\ UNCHANGED <<disc, lock, heap, bev, loop, writing, inits, dead, raced, broken, left>>

\* netcom_eventcb: the connection is made, or has ended or failed.
LinkEvent(s) ==
    /\ pc = "loop" /\ lock = None
    /\ bev # None
    /\ \/ s = "up" /\ status[bev] = "connecting"
       \/ s = "down" /\ status[bev] # "down"
    /\ status' = [status EXCEPT ![bev] = s]
    /\ connected' = (s = "up")
    /\ replaced' = FALSE
    /\ pc' = "after"
    /\ UNCHANGED <<disc, lock, heap, bev, loop, writing, inits, dead, raced, broken, left>>

\* Mutant: the timer as evtimer_new makes it, without EV_PERSIST.
TimerOnce ==
    /\ pc = "loop" /\ armed
    /\ pc' = "timer"
    /\ armed' = FALSE
    /\ UNCHANGED <<disc, lock, heap, link, event_break, added, spun, writing, inits, dead, past>>

\* The timer is due.  It has been assigned anew with EV_PERSIST.
Timer ==
    /\ pc = "loop" /\ armed
    /\ pc' = "timer"
    /\ UNCHANGED <<disc, lock, heap, link, loop, writing, inits, dead, past>>

\* netcom_timeoutcb: the commands overdue (NetCmd), then the operation timeout
Timeoutcb ==
    /\ pc = "timer" /\ lock = None
    /\ pc' = "hook"
    /\ UNCHANGED <<disc, lock, heap, link, loop, writing, inits, dead, past>>

HookReturns ==
    /\ pc = "hook" /\ disc = "no" /\ ~ dead
    /\ pc' = "after"
    /\ UNCHANGED <<disc, lock, heap, link, loop, writing, inits, dead, past>>

\* netcom_readcb takes what has been read apart, with the lock.
Read ==
    /\ pc = "loop" /\ lock = None
    /\ bev # None /\ status[bev] = "up"
    /\ lock' = Reader
    /\ pc' = "parse"
    /\ UNCHANGED <<disc, heap, link, loop, writing, inits, dead, past>>

\* A header that is valid and of no command is taken out with length 0 and found
\* again, for ever.
ReadSpins ==
    /\ pc = "parse"
    /\ spun' = TRUE
    /\ UNCHANGED <<owner, lock, heap, link, event_break, timer, writing, inits, dead, past>>

ReadReturns ==
    /\ pc = "parse" /\ ~ spun
    /\ lock' = None
    /\ pc' = "after"
    /\ UNCHANGED <<disc, heap, link, loop, writing, inits, dead, past>>

\* event_base_loop finds no event to wait for.
LoopEmpty ==
    /\ pc = "loop" /\ ~ armed
    /\ bev # None => status[bev] = "down"
    /\ pc' = "ready"
    /\ UNCHANGED <<disc, lock, heap, link, loop, writing, inits, dead, past>>

\* event_base_loop, behind each callback
LoopGoesOn ==
    /\ pc = "after"
    /\ pc' = IF event_break THEN "ready" ELSE "loop"
    /\ UNCHANGED <<disc, lock, heap, link, loop, writing, inits, dead, past>>

-----------------------------------------------------------------------------
\* l0006_netcom_write

Call(w) ==
    /\ wpc[w] = "idle" /\ pc # "none" /\ ~ dead
    /\ wpc' = [wpc EXCEPT ![w] = "enter"]
    /\ raced' = IF disc = "no" THEN raced ELSE raced \cup {w}
    /\ UNCHANGED <<owner, lock, heap, link, loop, output, inits, dead, replaced, broken, left>>

\* With the lock: connected, a buffer unused, and nc->bev not NULL
Enter(w) ==
    /\ wpc[w] = "enter" /\ lock = None
    /\ lock' = w
    /\ \/ wpc' = [wpc EXCEPT ![w] = "output"] /\ connected /\ bev # None
       \/ wpc' = [wpc EXCEPT ![w] = "unlock"]
    /\ UNCHANGED <<owner, heap, link, loop, output, inits, dead, past>>

\* bufferevent_get_output(nc->bev)
GetOutput(w) ==
    /\ wpc[w] = "output"
    /\ output' = [output EXCEPT ![w] = bev]
    /\ broken' = IF bev \in bevs THEN broken ELSE broken \cup {w}
    /\ wpc' = [wpc EXCEPT ![w] = "add"]
    /\ UNCHANGED <<owner, lock, heap, link, loop, inits, dead, replaced, raced, left>>

\* evbuffer_add
Add(w) ==
    /\ wpc[w] = "add"
    /\ broken' = IF output[w] \in bevs THEN broken ELSE broken \cup {w}
    /\ output' = [output EXCEPT ![w] = None]
    /\ wpc' = [wpc EXCEPT ![w] = "unlock"]
    /\ UNCHANGED <<owner, lock, heap, link, loop, inits, dead, replaced, raced, left>>

\* Mutant: a write that was refused keeps the lock.
UnlockIfWritten(w) ==
    /\ wpc[w] = "unlock"
    /\ lock' = IF connected THEN None ELSE lock
    /\ wpc' = [wpc EXCEPT ![w] = "idle"]
    /\ raced' = raced \ {w}
    /\ broken' = broken \ {w}
    /\ UNCHANGED <<owner, heap, link, loop, output, inits, dead, replaced, left>>

Unlock(w) ==
    /\ wpc[w] = "unlock"
    /\ lock' = None
    /\ wpc' = [wpc EXCEPT ![w] = "idle"]
    /\ raced' = raced \ {w}
    /\ broken' = broken \ {w}
    /\ UNCHANGED <<owner, heap, link, loop, output, inits, dead, replaced, left>>

Write(w) == Call(w) \/ Enter(w) \/ GetOutput(w) \/ Add(w) \/ Unlock(w)

-----------------------------------------------------------------------------
Next ==
    \/ Initialize
    \/ \E n \in 1 .. Len(PartOrder) : InitializeFails(n)
    \/ Release
    \/ Connect
    \/ \E twice \in BOOLEAN : ConnectFails(twice)
    \/ Disconnect
    \/ DisconnectFree
    \/ DisconnectClear
    \/ Loop
    \/ BreakLoop
    \/ \E s \in {"up", "down"} : LinkEvent(s)
    \/ Timer
    \/ Timeoutcb
    \/ HookReturns
    \/ Read
    \/ ReadSpins
    \/ ReadReturns
    \/ LoopEmpty
    \/ LoopGoesOn
    \/ \E w \in Writers : Write(w)

Spec == Init /\ [][Next]_vars

\* The owner's thread goes on, its timer comes, and who waits for the lock gets
\* it in the end.  Nobody has to call anything.
FairSpec ==
    /\ Spec
    /\ WF_vars(Timer) /\ SF_vars(Timeoutcb) /\ WF_vars(HookReturns) /\ WF_vars(LoopGoesOn)
    /\ WF_vars(ReadReturns) /\ WF_vars(LoopEmpty)
    /\ WF_vars(DisconnectFree) /\ WF_vars(DisconnectClear)
    /\ \A w \in Writers :
           SF_vars(Enter(w)) /\ WF_vars(GetOutput(w)) /\ WF_vars(Add(w)) /\ WF_vars(Unlock(w))

-----------------------------------------------------------------------------
\* Properties

TypeOK ==
    /\ pc \in {"none", "ready", "loop", "timer", "hook", "parse", "after"}
    /\ disc \in {"no", "free", "clear"}
    /\ lock \in Writers \cup {Reader, None}
    /\ parts \subseteq Parts /\ bevs \subseteq Bevs
    /\ status \in Seq({"connecting", "up", "down"}) /\ Len(status) <= MaxConnects
    /\ bev \in (1 .. Len(status)) \cup {None}
    /\ connected \in BOOLEAN /\ event_break \in BOOLEAN
    /\ armed \in BOOLEAN /\ added \in BOOLEAN /\ spun \in BOOLEAN
    /\ wpc \in [Writers -> {"idle", "enter", "output", "add", "unlock"}]
    /\ output \in [Writers -> Bevs \cup {None}]
    /\ inits \in 0 .. MaxInits
    /\ dead \in BOOLEAN /\ replaced \in BOOLEAN
    /\ raced \subseteq Writers /\ broken \subseteq Writers
    /\ left \subseteq Bevs

\* Whatever fails on the way, everything acquired is given back, and there is
\* one bufferevent at most: only one that nobody disconnected before the release
\* stays behind (netcom.c:491-523, 575-704, netcmd.c:465-489).
NothingLeaks ==
    /\ parts = IF pc = "none" THEN {} ELSE Parts
    /\ bevs \subseteq left \cup {bev}

\* A write follows a pointer to what has been freed only if a disconnect or the
\* release went on while it was in l0006_netcom_write, since these two take no lock;
\* connecting anew, failing to, and losing the connection are safe at any moment
\* (netcom.c:388-432, 563-573, 623-642).
OnlyTearDownBreaksWrite == broken \subseteq raced

\* A write that is let through goes to a connection that is up, or to one the
\* owner has exchanged without an event since: the flag is not cleared by
\* connect and disconnect (netcom.c:394, 447, 462).
FlagExplained == connected => replaced \/ (bev # None /\ status[bev] = "up")

\* To its tasks the object is one connection at a time, made, lost and given back
\* in single steps, and what a task writes goes into the connection it was let
\* into, unless a disconnect or the release went on: then the task is on its own
\* (netcom.c:388-468, 491-573, 622-704).
Inside(w) == wpc[w] \in {"output", "add"} /\ w \notin raced
User == IF \E w \in Writers : Inside(w) THEN lock ELSE None
Target == IF User = None THEN None ELSE IF wpc[User] = "output" THEN bev ELSE output[User]
Current == IF disc = "no" THEN bev ELSE None

Shared == INSTANCE Connection WITH
              object <- pc # "none",
              made <- Len(status),
              cur <- Current,
              state <- IF Current = None THEN None ELSE status[Current],
              open <- connected,
              user <- User,
              target <- Target,
              lost <- left

ImplementsConnection == Shared!Spec

\* A break asked for while the loop runs ends it, though nothing else may ever
\* happen on the connection: the timer comes again and again, if event_add has
\* succeeded (netcom.c:480-490, 668-677).  One asked for before the loop is forgotten.
BreakEndsLoop ==
    pc # "ready" /\ event_break /\ added ~> pc \in {"ready", "none"} \/ dead \/ spun

\* Every write returns, whatever path it takes, and with it the lock, whoever else
\* wants it: the loop's callbacks, other writers, a connect.  But the read callback
\* may keep the lock for ever, and the release destroys it (netcom.c:236-336, 388-432,
\* 641).
WriteReturns == \A w \in Writers : wpc[w] # "idle" ~> wpc[w] = "idle" \/ dead \/ spun

=============================================================================
