------------------------------- MODULE SerNet -------------------------------
(***************************************************************************)
(* The client side of the agent: src/agent/sernet.c on top of SimuList.c   *)
(* and serclient.c.                                                        *)
(*                                                                         *)
(* One service thread runs the libevent loop of the UNIX socket.  Each     *)
(* iteration dispatches a callback: a connection is accepted, a client has *)
(* sent bytes, or a client has gone.  Every device has a thread of its own *)
(* that may call sernet_write at any moment, with the socket number it     *)
(* remembers in devnet->nserid.  Both sides meet in serclt_list, a linked  *)
(* list keyed by file descriptor and guarded by a lock that is always      *)
(* taken for writing (LIST_WLOCK).                                         *)
(*                                                                         *)
(* A connection is a bufferevent; freeing it closes its descriptor         *)
(* (BEV_OPT_CLOSE_ON_FREE), after which accept may return the same number. *)
(***************************************************************************)

CONSTANTS
    Conns,        \* the connections clients ever make, one bufferevent each
    FDs,          \* file descriptor numbers
    Devs,         \* device threads
    Svc,          \* the service thread
    None          \* no connection, no descriptor, nobody

ASSUME SerNetAssumption ==
    /\ None \notin Conns \cup FDs \cup Devs \cup {Svc}
    /\ Svc \notin Devs

VARIABLES
    bev,          \* bev[c]: "none", "live" or "freed" bufferevent of c
    fd_of,        \* fd_of[c]: the open descriptor of c, or None
    peer,         \* peer[c]: "open", "closed", or "seen" once EOF was reported
    serclt_list,  \* the nodes of serclt_list (below the dummy head)
    unlisted,     \* history: connections that an allocation failed for
    lock,         \* holder of sernet->rwlock, or None
    svc_pc,       \* where the service thread is
    svc_c,        \* the bufferevent its callback was called for
    svc_fd,       \* its local socketfd
    svc_node,     \* its local node->pData
    dev_pc,       \* where each device thread is
    dev_fd,       \* its local serid
    dev_c,        \* its local node->pData
    dev_for,      \* history: the connection the reply was meant for
    nserid,       \* devnet->nserid of each device
    asker         \* history: the connection that wrote nserid

nodes == <<serclt_list, unlisted>>
svcVars == <<svc_pc, svc_c, svc_fd, svc_node>>
devVars == <<dev_pc, dev_fd, dev_c, dev_for>>
replyTo == <<nserid, asker>>
vars == <<bev, fd_of, peer, serclt_list, unlisted, lock, svc_pc, svc_c, svc_fd, svc_node,
          dev_pc, dev_fd, dev_c, dev_for, nserid, asker>>

Node == [key : FDs, clt : Conns]

-----------------------------------------------------------------------------
\* SimuList

\* Mutant: SimuList_Get returns a node whatever its key is.
NodesAtAny(key) == serclt_list

\* SimuList_Get: the node with the key.
NodesAt(key) == {n \in serclt_list : n.key = key}

\* SimuList_Add with nIgnoreKey = 0: refuses a key that is present; the
\* node's malloc may fail.  The caller looks at neither return value.
ListAdd(key, clt) ==
    \/ /\ NodesAt(key) = {}
       /\ serclt_list' = serclt_list \cup {[key |-> key, clt |-> clt]}
       /\ UNCHANGED unlisted
    \/ /\ NodesAt(key) # {}
       /\ UNCHANGED <<serclt_list, unlisted>>
    \/ /\ NodesAt(key) = {}
       /\ unlisted' = unlisted \cup {clt}
       /\ UNCHANGED serclt_list

\* Mutant: SimuList_Del frees the node's data but does not unlink the node.
ListDelKeeps(key) == UNCHANGED serclt_list

\* SimuList_Del: unlinks a node with the key, if there is one.
ListDel(key) ==
    IF NodesAt(key) = {}
    THEN UNCHANGED serclt_list
    ELSE \E n \in NodesAt(key) : serclt_list' = serclt_list \ {n}

-----------------------------------------------------------------------------
\* The lock

Acquire(t) == lock = None /\ lock' = t
Unlock == lock' = None

\* The service thread goes back to its event loop; its locals die.
SvcReturns ==
    /\ svc_pc' = "loop"
    /\ svc_c' = None
    /\ svc_fd' = None
    /\ svc_node' = None

\* A device thread comes back from sernet_write.
DevReturns(d) ==
    /\ dev_pc' = [dev_pc EXCEPT ![d] = "idle"]
    /\ dev_fd' = [dev_fd EXCEPT ![d] = None]
    /\ dev_c' = [dev_c EXCEPT ![d] = None]
    /\ dev_for' = [dev_for EXCEPT ![d] = None]

-----------------------------------------------------------------------------
Init ==
    /\ bev = [c \in Conns |-> "none"]
    /\ fd_of = [c \in Conns |-> None]
    /\ peer = [c \in Conns |-> "open"]
    /\ serclt_list = {}
    /\ unlisted = {}
    /\ lock = None
    /\ svc_pc = "loop"
    /\ svc_c = None
    /\ svc_fd = None
    /\ svc_node = None
    /\ dev_pc = [d \in Devs |-> "idle"]
    /\ dev_fd = [d \in Devs |-> None]
    /\ dev_c = [d \in Devs |-> None]
    /\ dev_for = [d \in Devs |-> None]
    /\ nserid = [d \in Devs |-> None]
    /\ asker = [d \in Devs |-> None]

-----------------------------------------------------------------------------
\* The client: it closes its end when it likes.
PeerClose(c) ==
    /\ fd_of[c] # None
    /\ peer[c] = "open"
    /\ peer' = [peer EXCEPT ![c] = "closed"]
    /\ UNCHANGED <<bev, fd_of, nodes, lock, svcVars, devVars, replyTo>>

-----------------------------------------------------------------------------
\* _sernet_acceptcb

FreeFds == FDs \ {fd_of[c] : c \in Conns}

\* The listener has accepted c on descriptor fd and the callback runs up to
\* the lock; both allocations succeed.
AcceptCb(c, fd) ==
    /\ svc_pc = "loop"
    /\ bev[c] = "none" /\ fd_of[c] = None
    /\ fd \in FreeFds
    /\ bev' = [bev EXCEPT ![c] = "live"]
    /\ fd_of' = [fd_of EXCEPT ![c] = fd]
    /\ svc_pc' = "accept"
    /\ svc_c' = c
    /\ svc_fd' = fd
    /\ UNCHANGED <<peer, nodes, lock, svc_node, devVars, replyTo>>

\* An allocation fails and the callback returns: without a bufferevent when
\* bufferevent_socket_new failed (b = "none"), with a live bufferevent that no
\* list knows when serclt's allocation did (b = "live").  The descriptor stays
\* open in both cases.
AcceptFails(c, fd, b) ==
    /\ svc_pc = "loop"
    /\ bev[c] = "none" /\ fd_of[c] = None
    /\ fd \in FreeFds
    /\ bev' = [bev EXCEPT ![c] = b]
    /\ fd_of' = [fd_of EXCEPT ![c] = fd]
    /\ unlisted' = unlisted \cup {c}
    /\ UNCHANGED <<peer, serclt_list, lock, svcVars, devVars, replyTo>>

AcceptLock ==
    /\ svc_pc = "accept"
    /\ Acquire(Svc)
    /\ svc_pc' = "accept_add"
    /\ UNCHANGED <<bev, fd_of, peer, nodes, svc_c, svc_fd, svc_node,
                   devVars, replyTo>>

\* Mutant: the new client is not entered in the list.
AcceptAddForgets ==
    /\ svc_pc = "accept_add"
    /\ Unlock
    /\ SvcReturns
    /\ UNCHANGED <<bev, fd_of, peer, nodes, devVars, replyTo>>

AcceptAdd ==
    /\ svc_pc = "accept_add"
    /\ ListAdd(svc_fd, svc_c)
    /\ Unlock
    /\ SvcReturns
    /\ UNCHANGED <<bev, fd_of, peer, devVars, replyTo>>

-----------------------------------------------------------------------------
\* _sernet_eventcb, for EOF or ERROR (any other event returns at once)

EventCb(c) ==
    /\ svc_pc = "loop"
    /\ bev[c] = "live"
    /\ peer[c] = "closed"
    /\ peer' = [peer EXCEPT ![c] = "seen"]
    /\ svc_pc' = "event"
    /\ svc_c' = c
    /\ svc_fd' = fd_of[c]
    /\ UNCHANGED <<bev, fd_of, nodes, lock, svc_node, devVars, replyTo>>

\* Mutant: _sernet_eventcb does not take the lock.
EventNoLock ==
    /\ svc_pc = "event"
    /\ svc_pc' = "event_get"
    /\ UNCHANGED <<bev, fd_of, peer, nodes, lock, svc_c, svc_fd, svc_node,
                   devVars, replyTo>>

EventLock ==
    /\ svc_pc = "event"
    /\ Acquire(Svc)
    /\ svc_pc' = "event_get"
    /\ UNCHANGED <<bev, fd_of, peer, nodes, svc_c, svc_fd, svc_node,
                   devVars, replyTo>>

\* Mutant: the bufferevent was made without BEV_OPT_CLOSE_ON_FREE.
EventReleaseLeaksFd ==
    /\ svc_pc = "event_get"
    /\ \E n \in NodesAt(svc_fd) : bev' = [bev EXCEPT ![n.clt] = "freed"]
    /\ svc_pc' = "event_del"
    /\ UNCHANGED <<fd_of, peer, nodes, lock, svc_c, svc_fd, svc_node, devVars,
                   replyTo>>

\* serclt_release frees the bufferevent of the node that was found, and with
\* it closes the descriptor.  The serclt_info and its data_blob of 204800 bytes
\* are never freed, here or elsewhere; memory is not followed in this module.
EventRelease ==
    /\ svc_pc = "event_get"
    /\ \E n \in NodesAt(svc_fd) :
           /\ bev' = [bev EXCEPT ![n.clt] = "freed"]
           /\ fd_of' = [fd_of EXCEPT ![n.clt] = None]
    /\ svc_pc' = "event_del"
    /\ UNCHANGED <<peer, nodes, lock, svc_c, svc_fd, svc_node, devVars, replyTo>>

EventNotFound ==
    /\ svc_pc = "event_get"
    /\ NodesAt(svc_fd) = {}
    /\ Unlock
    /\ SvcReturns
    /\ UNCHANGED <<bev, fd_of, peer, nodes, devVars, replyTo>>

EventDel ==
    /\ svc_pc = "event_del"
    /\ ListDel(svc_fd)
    /\ Unlock
    /\ SvcReturns
    /\ UNCHANGED <<bev, fd_of, peer, unlisted, devVars, replyTo>>

-----------------------------------------------------------------------------
\* _sernet_readcb

ReadCb(c) ==
    /\ svc_pc = "loop"
    /\ bev[c] = "live"
    /\ peer[c] # "seen"
    /\ svc_pc' = "read"
    /\ svc_c' = c
    /\ svc_fd' = fd_of[c]
    /\ UNCHANGED <<bev, fd_of, peer, nodes, lock, svc_node, devVars, replyTo>>

ReadLock ==
    /\ svc_pc = "read"
    /\ Acquire(Svc)
    /\ svc_pc' = "read_get"
    /\ UNCHANGED <<bev, fd_of, peer, nodes, svc_c, svc_fd, svc_node,
                   devVars, replyTo>>

\* The lock is released before the node is used.
ReadGet ==
    /\ svc_pc = "read_get"
    /\ \E n \in NodesAt(svc_fd) : svc_node' = n.clt
    /\ Unlock
    /\ svc_pc' = "read_use"
    /\ UNCHANGED <<bev, fd_of, peer, nodes, svc_c, svc_fd, devVars, replyTo>>

ReadNotFound ==
    /\ svc_pc = "read_get"
    /\ NodesAt(svc_fd) = {}
    /\ Unlock
    /\ SvcReturns
    /\ UNCHANGED <<bev, fd_of, peer, nodes, devVars, replyTo>>

\* serclt_recvdata forwards what it read to device d: devnet_write records
\* the socket the command came from (devnet.c:170).
ReadForward(d) ==
    /\ svc_pc = "read_use"
    /\ svc_node = svc_c
    /\ nserid' = [nserid EXCEPT ![d] = svc_fd]
    /\ asker' = [asker EXCEPT ![d] = svc_c]
    /\ SvcReturns
    /\ UNCHANGED <<bev, fd_of, peer, nodes, lock, devVars>>

\* serclt_recvdata forwards nothing (header incomplete, client not
\* registered, device not connected), or the bufferevent is not the node's.
ReadDone ==
    /\ svc_pc = "read_use"
    /\ SvcReturns
    /\ UNCHANGED <<bev, fd_of, peer, nodes, lock, devVars, replyTo>>

-----------------------------------------------------------------------------
\* sernet_write, called by device thread d from _devnet_readcb

\* The device has sent data; the thread reads nserid and calls.
WriteCall(d) ==
    /\ dev_pc[d] = "idle"
    /\ dev_pc' = [dev_pc EXCEPT ![d] = "want"]
    /\ dev_fd' = [dev_fd EXCEPT ![d] = nserid[d]]
    /\ dev_for' = [dev_for EXCEPT ![d] = asker[d]]
    /\ UNCHANGED <<bev, fd_of, peer, nodes, lock, svcVars, dev_c, replyTo>>

WriteLock(d) ==
    /\ dev_pc[d] = "want"
    /\ Acquire(d)
    /\ dev_pc' = [dev_pc EXCEPT ![d] = "get"]
    /\ UNCHANGED <<bev, fd_of, peer, nodes, svcVars, dev_fd, dev_c, dev_for,
                   replyTo>>

WriteGet(d) ==
    /\ dev_pc[d] = "get"
    /\ \E n \in NodesAt(dev_fd[d]) : dev_c' = [dev_c EXCEPT ![d] = n.clt]
    /\ dev_pc' = [dev_pc EXCEPT ![d] = "put"]
    /\ UNCHANGED <<bev, fd_of, peer, nodes, lock, svcVars, dev_fd, dev_for, replyTo>>

\* Mutant: the device thread tries again until the client is back.
WriteNotFoundRetries(d) ==
    /\ dev_pc[d] = "get"
    /\ NodesAt(dev_fd[d]) = {}
    /\ Unlock
    /\ dev_pc' = [dev_pc EXCEPT ![d] = "want"]
    /\ UNCHANGED <<bev, fd_of, peer, nodes, svcVars, dev_fd, dev_c, dev_for, replyTo>>

WriteNotFound(d) ==
    /\ dev_pc[d] = "get"
    /\ NodesAt(dev_fd[d]) = {}
    /\ Unlock
    /\ DevReturns(d)
    /\ UNCHANGED <<bev, fd_of, peer, nodes, svcVars, replyTo>>

\* serclt_writedata appends to the output buffer of dev_c[d].
WritePut(d) ==
    /\ dev_pc[d] = "put"
    /\ Unlock
    /\ DevReturns(d)
    /\ UNCHANGED <<bev, fd_of, peer, nodes, svcVars, replyTo>>

-----------------------------------------------------------------------------
SvcStep ==
    \/ \E c \in Conns, fd \in FDs : AcceptCb(c, fd)
    \/ \E c \in Conns, fd \in FDs, b \in {"none", "live"} : AcceptFails(c, fd, b)
    \/ AcceptLock
    \/ AcceptAdd
    \/ \E c \in Conns : EventCb(c)
    \/ EventLock
    \/ EventRelease
    \/ EventNotFound
    \/ EventDel
    \/ \E c \in Conns : ReadCb(c)
    \/ ReadLock
    \/ ReadGet
    \/ ReadNotFound
    \/ \E d \in Devs : ReadForward(d)
    \/ ReadDone

DevStep(d) ==
    \/ WriteCall(d)
    \/ WriteLock(d)
    \/ WriteGet(d)
    \/ WriteNotFound(d)
    \/ WritePut(d)

Next ==
    \/ \E c \in Conns : PeerClose(c)
    \/ SvcStep
    \/ \E d \in Devs : DevStep(d)

Spec == Init /\ [][Next]_vars

\* Threads keep running; libevent hands out every pending event before it
\* polls again (so a ready EOF is not passed over for ever), and a thread that
\* keeps asking for the lock gets it.
Fairness ==
    /\ WF_vars(AcceptAdd \/ EventRelease \/ EventNotFound \/ EventDel \/ ReadGet
               \/ ReadNotFound \/ ReadDone \/ \E d \in Devs : ReadForward(d))
    /\ SF_vars(AcceptLock \/ EventLock \/ ReadLock)
    /\ \A c \in Conns : SF_vars(EventCb(c))
    /\ \A d \in Devs : /\ SF_vars(WriteLock(d))
                       /\ WF_vars(WriteGet(d) \/ WriteNotFound(d) \/ WritePut(d))

FairSpec == Spec /\ Fairness

-----------------------------------------------------------------------------
TypeOK ==
    /\ bev \in [Conns -> {"none", "live", "freed"}]
    /\ fd_of \in [Conns -> FDs \cup {None}]
    /\ peer \in [Conns -> {"open", "closed", "seen"}]
    /\ serclt_list \in SUBSET Node
    /\ unlisted \in SUBSET Conns
    /\ lock \in Devs \cup {Svc, None}
    /\ svc_pc \in {"loop", "accept", "accept_add", "event", "event_get", "event_del",
                   "read", "read_get", "read_use"}
    /\ svc_c \in Conns \cup {None}
    /\ svc_fd \in FDs \cup {None}
    /\ svc_node \in Conns \cup {None}
    /\ dev_pc \in [Devs -> {"idle", "want", "get", "put"}]
    /\ dev_fd \in [Devs -> FDs \cup {None}]
    /\ dev_c \in [Devs -> Conns \cup {None}]
    /\ dev_for \in [Devs -> Conns \cup {None}]
    /\ nserid \in [Devs -> FDs \cup {None}]
    /\ asker \in [Devs -> Conns \cup {None}]

\* Whoever gets the lock finds only clients whose bufferevent is alive, each
\* under the descriptor it really has, and no descriptor twice: the window of
\* _sernet_eventcb between serclt_release and SimuList_Del is never seen.
ListSound ==
    lock = None =>
        /\ \A n \in serclt_list : bev[n.clt] = "live" /\ fd_of[n.clt] = n.key
        /\ \A n, m \in serclt_list : n.key = m.key \/ n.clt = m.clt => n = m

\* The node _sernet_readcb uses after it has released the lock is still
\* listed, alive, and the node of the bufferevent it was called for: the
\* warning of sernet.c:124 is never printed.
ReaderOwnsNode ==
    svc_pc = "read_use" =>
        /\ svc_node = svc_c
        /\ bev[svc_node] = "live"
        /\ [key |-> svc_fd, clt |-> svc_node] \in serclt_list

\* Every bufferevent the agent holds is in the list or on its way there, so
\* that eventcb will find it, unless an allocation failed for it.
NoOrphan ==
    \A c \in Conns : bev[c] = "live" =>
        \/ [key |-> fd_of[c], clt |-> c] \in serclt_list
        \/ svc_c = c /\ svc_pc \in {"accept", "accept_add"}
        \/ c \in unlisted

\* A reply is looked up by the descriptor of the client that asked.  It can
\* reach another connection, but only once the one that asked has been freed
\* (sernet.c:213, "serclt is disconnect!", does not notice the difference).
LateReplyExplained ==
    [][\A d \in Devs : WritePut(d) =>
          dev_for[d] \in {dev_c[d]} \cup {c \in Conns : bev[c] = "freed"}]_vars

\* Once a listed client has hung up its bufferevent is freed and its
\* descriptor closed, however many replies the devices are sending.
Reclaimed ==
    \A c \in Conns :
        (bev[c] = "live" /\ peer[c] = "closed")
            ~> (fd_of[c] = None \/ c \in unlisted)

\* No device thread waits for ever in sernet_write: every path of every
\* callback gives the lock back.
WriterReturns == \A d \in Devs : dev_pc[d] = "want" ~> dev_pc[d] = "idle"

-----------------------------------------------------------------------------
\* SerNet implements the atomic table: between serclt_release and
\* SimuList_Del the node that is going away is in the table no longer.
alive == {c \in Conns : bev[c] = "live"}
table == IF svc_pc = "event_del" THEN serclt_list \ NodesAt(svc_fd) ELSE serclt_list

CT == INSTANCE ClientTable WITH using <- dev_c

\* The locked list behaves as the atomic table of ClientTable, whatever the
\* interleaving of callbacks and device threads.
ImplementsClientTable == CT!Spec
=============================================================================
