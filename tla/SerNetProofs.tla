---------------------------- MODULE SerNetProofs ----------------------------
(***************************************************************************)
(* Safety of the client list of SerNet, for any number of connections,     *)
(* descriptors and device threads, and of the linked list under it.        *)
(*                                                                         *)
(* The invariants of SerNet are not inductive: they say what holds when    *)
(* the lock is free or at one program point.  IInv adds who holds the lock *)
(* at each program point, that open descriptors are distinct, and what the *)
(* service thread knows of its connection between two steps.               *)
(***************************************************************************)
EXTENDS SerNet, SimuList, TLAPS

\* The lock is held exactly at the program points between LOCK and UNLOCK.
LockInv ==
    /\ lock = Svc <=> svc_pc \in {"accept_add", "event_get", "event_del", "read_get"}
    /\ \A d \in Devs : lock = d <=> dev_pc[d] \in {"get", "put"}

\* Open descriptors are distinct, and a live bufferevent has one.
FdInv ==
    /\ \A c, e \in Conns : fd_of[c] = fd_of[e] /\ fd_of[c] # None => c = e
    /\ \A c \in Conns : bev[c] = "live" => fd_of[c] # None
    /\ \A c \in Conns : bev[c] = "freed" => fd_of[c] = None

\* Every node is live and under its own descriptor, but for the one that
\* _sernet_eventcb has released and is about to unlink.
NodesInv ==
    /\ \A n \in serclt_list : \/ svc_pc = "event_del" /\ n.key = svc_fd
                              \/ bev[n.clt] = "live" /\ fd_of[n.clt] = n.key
    /\ \A n, m \in serclt_list : n.key = m.key => n = m

\* The connection of the running callback stays alive until the callback
\* itself releases it, and one being accepted is in no node yet; before the
\* node is unlinked its descriptor is already nobody's.
SvcInv ==
    /\ svc_pc \in {"accept", "accept_add", "event", "event_get", "read", "read_get", "read_use"} =>
           svc_c \in Conns /\ bev[svc_c] = "live" /\ fd_of[svc_c] = svc_fd
    /\ svc_pc \in {"accept", "accept_add"} => \A n \in serclt_list : n.clt # svc_c
    /\ svc_pc = "event_del" => \A c \in Conns : fd_of[c] # svc_fd
    /\ svc_pc = "read_use" => [key |-> svc_fd, clt |-> svc_node] \in serclt_list

\* What a device thread found is still listed when it uses it; elsewhere it
\* holds on to nothing.
DevInv ==
    \A d \in Devs :
        IF dev_pc[d] = "put"
        THEN [key |-> dev_fd[d], clt |-> dev_c[d]] \in serclt_list
        ELSE dev_c[d] = None

IInv == TypeOK /\ LockInv /\ FdInv /\ NodesInv /\ SvcInv /\ DevInv

-----------------------------------------------------------------------------
LEMMA InitInv == Init => IInv
BY SerNetAssumption
DEF Init, IInv, TypeOK, LockInv, FdInv, NodesInv, SvcInv, DevInv, Node

LEMMA NextInv == IInv /\ [Next]_vars => IInv'
<1> SUFFICES ASSUME IInv, [Next]_vars PROVE IInv'
  OBVIOUS
<1> USE SerNetAssumption DEF IInv, TypeOK, Node, NodesAt, Acquire, Unlock, SvcReturns,
        DevReturns, svcVars, devVars, replyTo, nodes
<1>1. ASSUME NEW c \in Conns, PeerClose(c) PROVE IInv'
  <2>1. TypeOK'
    BY <1>1 DEF PeerClose
  <2>2. LockInv'
    BY <1>1 DEF PeerClose, LockInv
  <2>3. FdInv'
    BY <1>1 DEF PeerClose, FdInv
  <2>4. NodesInv'
    BY <1>1 DEF PeerClose, NodesInv
  <2>5. SvcInv'
    BY <1>1 DEF PeerClose, SvcInv
  <2>6. DevInv'
    BY <1>1 DEF PeerClose, DevInv
  <2> QED BY <2>1, <2>2, <2>3, <2>4, <2>5, <2>6
<1>2. ASSUME NEW c \in Conns, NEW fd \in FDs, AcceptCb(c, fd) PROVE IInv'
  <2>1. TypeOK'
    BY <1>2 DEF AcceptCb, FreeFds
  <2>2. LockInv'
    BY <1>2 DEF AcceptCb, FreeFds, LockInv
  <2>3. FdInv'
    BY <1>2 DEF AcceptCb, FreeFds, FdInv
  <2>4. NodesInv'
    BY <1>2 DEF AcceptCb, FreeFds, NodesInv
  <2>5. SvcInv'
    BY <1>2 DEF AcceptCb, FreeFds, SvcInv, NodesInv
  <2>6. DevInv'
    BY <1>2 DEF AcceptCb, FreeFds, DevInv
  <2> QED BY <2>1, <2>2, <2>3, <2>4, <2>5, <2>6
<1>3. ASSUME NEW c \in Conns, NEW fd \in FDs, NEW b \in {"none", "live"},
               AcceptFails(c, fd, b)
        PROVE IInv'
  <2>1. TypeOK'
    BY <1>3 DEF AcceptFails, FreeFds
  <2>2. LockInv'
    BY <1>3 DEF AcceptFails, FreeFds, LockInv
  <2>3. FdInv'
    BY <1>3 DEF AcceptFails, FreeFds, FdInv
  <2>4. NodesInv'
    BY <1>3 DEF AcceptFails, FreeFds, NodesInv
  <2>5. SvcInv'
    BY <1>3 DEF AcceptFails, FreeFds, SvcInv
  <2>6. DevInv'
    BY <1>3 DEF AcceptFails, FreeFds, DevInv
  <2> QED BY <2>1, <2>2, <2>3, <2>4, <2>5, <2>6
<1>4. CASE AcceptLock
  <2>1. TypeOK'
    BY <1>4 DEF AcceptLock
  <2>2. LockInv'
    BY <1>4 DEF AcceptLock, LockInv
  <2>3. FdInv'
    BY <1>4 DEF AcceptLock, FdInv
  <2>4. NodesInv'
    BY <1>4 DEF AcceptLock, NodesInv
  <2>5. SvcInv'
    BY <1>4 DEF AcceptLock, SvcInv
  <2>6. DevInv'
    BY <1>4 DEF AcceptLock, DevInv
  <2> QED BY <2>1, <2>2, <2>3, <2>4, <2>5, <2>6
<1>5. CASE AcceptAdd
  <2>1. TypeOK'
    BY <1>5 DEF AcceptAdd, ListAdd, FdInv, SvcInv
  <2>2. LockInv'
    BY <1>5 DEF AcceptAdd, ListAdd, LockInv
  <2>3. FdInv'
    BY <1>5 DEF AcceptAdd, ListAdd, FdInv
  <2>4. NodesInv'
    BY <1>5 DEF AcceptAdd, ListAdd, NodesInv, SvcInv
  <2>5. SvcInv'
    BY <1>5 DEF AcceptAdd, ListAdd, SvcInv
  <2>6. DevInv'
    BY <1>5 DEF AcceptAdd, ListAdd, DevInv
  <2> QED BY <2>1, <2>2, <2>3, <2>4, <2>5, <2>6
<1>6. ASSUME NEW c \in Conns, EventCb(c) PROVE IInv'
  <2>1. TypeOK'
    BY <1>6 DEF EventCb
  <2>2. LockInv'
    BY <1>6 DEF EventCb, LockInv
  <2>3. FdInv'
    BY <1>6 DEF EventCb, FdInv
  <2>4. NodesInv'
    BY <1>6 DEF EventCb, NodesInv
  <2>5. SvcInv'
    BY <1>6 DEF EventCb, SvcInv
  <2>6. DevInv'
    BY <1>6 DEF EventCb, DevInv
  <2> QED BY <2>1, <2>2, <2>3, <2>4, <2>5, <2>6
<1>7. CASE EventLock
  <2>1. TypeOK'
    BY <1>7 DEF EventLock
  <2>2. LockInv'
    BY <1>7 DEF EventLock, LockInv
  <2>3. FdInv'
    BY <1>7 DEF EventLock, FdInv
  <2>4. NodesInv'
    BY <1>7 DEF EventLock, NodesInv
  <2>5. SvcInv'
    BY <1>7 DEF EventLock, SvcInv
  <2>6. DevInv'
    BY <1>7 DEF EventLock, DevInv
  <2> QED BY <2>1, <2>2, <2>3, <2>4, <2>5, <2>6
<1>8. CASE EventRelease
  <2>1. TypeOK'
    BY <1>8 DEF EventRelease
  <2>2. LockInv'
    BY <1>8 DEF EventRelease, LockInv
  <2>3. FdInv'
    BY <1>8 DEF EventRelease, FdInv
  <2>4. NodesInv'
    BY <1>8 DEF EventRelease, NodesInv
  <2>5. SvcInv'
    BY <1>8 DEF EventRelease, SvcInv, FdInv, NodesInv
  <2>6. DevInv'
    BY <1>8 DEF EventRelease, DevInv
  <2> QED BY <2>1, <2>2, <2>3, <2>4, <2>5, <2>6
<1>9. CASE EventNotFound
  <2>1. TypeOK'
    BY <1>9 DEF EventNotFound
  <2>2. LockInv'
    BY <1>9 DEF EventNotFound, LockInv
  <2>3. FdInv'
    BY <1>9 DEF EventNotFound, FdInv
  <2>4. NodesInv'
    BY <1>9 DEF EventNotFound, NodesInv
  <2>5. SvcInv'
    BY <1>9 DEF EventNotFound, SvcInv
  <2>6. DevInv'
    BY <1>9 DEF EventNotFound, DevInv
  <2> QED BY <2>1, <2>2, <2>3, <2>4, <2>5, <2>6
<1>10. CASE EventDel
  <2>1. TypeOK'
    BY <1>10 DEF EventDel, ListDel
  <2>2. LockInv'
    BY <1>10 DEF EventDel, ListDel, LockInv
  <2>3. FdInv'
    BY <1>10 DEF EventDel, ListDel, FdInv
  <2>4. NodesInv'
    BY <1>10 DEF EventDel, ListDel, NodesInv
  <2>5. SvcInv'
    BY <1>10 DEF EventDel, ListDel, SvcInv
  <2>6. DevInv'
    BY <1>10 DEF EventDel, ListDel, DevInv, LockInv
  <2> QED BY <2>1, <2>2, <2>3, <2>4, <2>5, <2>6
<1>11. ASSUME NEW c \in Conns, ReadCb(c) PROVE IInv'
  <2>1. TypeOK'
    BY <1>11 DEF ReadCb
  <2>2. LockInv'
    BY <1>11 DEF ReadCb, LockInv
  <2>3. FdInv'
    BY <1>11 DEF ReadCb, FdInv
  <2>4. NodesInv'
    BY <1>11 DEF ReadCb, NodesInv
  <2>5. SvcInv'
    BY <1>11 DEF ReadCb, SvcInv
  <2>6. DevInv'
    BY <1>11 DEF ReadCb, DevInv
  <2> QED BY <2>1, <2>2, <2>3, <2>4, <2>5, <2>6
<1>12. CASE ReadLock
  <2>1. TypeOK'
    BY <1>12 DEF ReadLock
  <2>2. LockInv'
    BY <1>12 DEF ReadLock, LockInv
  <2>3. FdInv'
    BY <1>12 DEF ReadLock, FdInv
  <2>4. NodesInv'
    BY <1>12 DEF ReadLock, NodesInv
  <2>5. SvcInv'
    BY <1>12 DEF ReadLock, SvcInv
  <2>6. DevInv'
    BY <1>12 DEF ReadLock, DevInv
  <2> QED BY <2>1, <2>2, <2>3, <2>4, <2>5, <2>6
<1>13. CASE ReadGet
  <2>1. TypeOK'
    BY <1>13 DEF ReadGet
  <2>2. LockInv'
    BY <1>13 DEF ReadGet, LockInv
  <2>3. FdInv'
    BY <1>13 DEF ReadGet, FdInv
  <2>4. NodesInv'
    BY <1>13 DEF ReadGet, NodesInv
  <2>5. SvcInv'
    BY <1>13 DEF ReadGet, SvcInv
  <2>6. DevInv'
    BY <1>13 DEF ReadGet, DevInv
  <2> QED BY <2>1, <2>2, <2>3, <2>4, <2>5, <2>6
<1>14. CASE ReadNotFound
  <2>1. TypeOK'
    BY <1>14 DEF ReadNotFound
  <2>2. LockInv'
    BY <1>14 DEF ReadNotFound, LockInv
  <2>3. FdInv'
    BY <1>14 DEF ReadNotFound, FdInv
  <2>4. NodesInv'
    BY <1>14 DEF ReadNotFound, NodesInv
  <2>5. SvcInv'
    BY <1>14 DEF ReadNotFound, SvcInv
  <2>6. DevInv'
    BY <1>14 DEF ReadNotFound, DevInv
  <2> QED BY <2>1, <2>2, <2>3, <2>4, <2>5, <2>6
<1>15. ASSUME NEW d \in Devs, ReadForward(d) PROVE IInv'
  <2>1. TypeOK'
    BY <1>15 DEF ReadForward
  <2>2. LockInv'
    BY <1>15 DEF ReadForward, LockInv
  <2>3. FdInv'
    BY <1>15 DEF ReadForward, FdInv
  <2>4. NodesInv'
    BY <1>15 DEF ReadForward, NodesInv
  <2>5. SvcInv'
    BY <1>15 DEF ReadForward, SvcInv
  <2>6. DevInv'
    BY <1>15 DEF ReadForward, DevInv
  <2> QED BY <2>1, <2>2, <2>3, <2>4, <2>5, <2>6
<1>16. CASE ReadDone
  <2>1. TypeOK'
    BY <1>16 DEF ReadDone
  <2>2. LockInv'
    BY <1>16 DEF ReadDone, LockInv
  <2>3. FdInv'
    BY <1>16 DEF ReadDone, FdInv
  <2>4. NodesInv'
    BY <1>16 DEF ReadDone, NodesInv
  <2>5. SvcInv'
    BY <1>16 DEF ReadDone, SvcInv
  <2>6. DevInv'
    BY <1>16 DEF ReadDone, DevInv
  <2> QED BY <2>1, <2>2, <2>3, <2>4, <2>5, <2>6
<1>17. ASSUME NEW d \in Devs, WriteCall(d) PROVE IInv'
  <2>1. TypeOK'
    BY <1>17 DEF WriteCall
  <2>2. LockInv'
    BY <1>17 DEF WriteCall, LockInv
  <2>3. FdInv'
    BY <1>17 DEF WriteCall, FdInv
  <2>4. NodesInv'
    BY <1>17 DEF WriteCall, NodesInv
  <2>5. SvcInv'
    BY <1>17 DEF WriteCall, SvcInv
  <2>6. DevInv'
    BY <1>17 DEF WriteCall, DevInv
  <2> QED BY <2>1, <2>2, <2>3, <2>4, <2>5, <2>6
<1>18. ASSUME NEW d \in Devs, WriteLock(d) PROVE IInv'
  <2>1. TypeOK'
    BY <1>18 DEF WriteLock
  <2>2. LockInv'
    BY <1>18 DEF WriteLock, LockInv
  <2>3. FdInv'
    BY <1>18 DEF WriteLock, FdInv
  <2>4. NodesInv'
    BY <1>18 DEF WriteLock, NodesInv
  <2>5. SvcInv'
    BY <1>18 DEF WriteLock, SvcInv
  <2>6. DevInv'
    BY <1>18 DEF WriteLock, DevInv
  <2> QED BY <2>1, <2>2, <2>3, <2>4, <2>5, <2>6
<1>19. ASSUME NEW d \in Devs, WriteGet(d) PROVE IInv'
  <2>1. TypeOK'
    BY <1>19 DEF WriteGet
  <2>2. LockInv'
    BY <1>19 DEF WriteGet, LockInv
  <2>3. FdInv'
    BY <1>19 DEF WriteGet, FdInv
  <2>4. NodesInv'
    BY <1>19 DEF WriteGet, NodesInv
  <2>5. SvcInv'
    BY <1>19 DEF WriteGet, SvcInv
  <2>6. DevInv'
    BY <1>19 DEF WriteGet, DevInv
  <2> QED BY <2>1, <2>2, <2>3, <2>4, <2>5, <2>6
<1>20. ASSUME NEW d \in Devs, WriteNotFound(d) PROVE IInv'
  <2>1. TypeOK'
    BY <1>20 DEF WriteNotFound
  <2>2. LockInv'
    BY <1>20 DEF WriteNotFound, LockInv
  <2>3. FdInv'
    BY <1>20 DEF WriteNotFound, FdInv
  <2>4. NodesInv'
    BY <1>20 DEF WriteNotFound, NodesInv
  <2>5. SvcInv'
    BY <1>20 DEF WriteNotFound, SvcInv
  <2>6. DevInv'
    BY <1>20 DEF WriteNotFound, DevInv
  <2> QED BY <2>1, <2>2, <2>3, <2>4, <2>5, <2>6
<1>21. ASSUME NEW d \in Devs, WritePut(d) PROVE IInv'
  <2>1. TypeOK'
    BY <1>21 DEF WritePut
  <2>2. LockInv'
    BY <1>21 DEF WritePut, LockInv
  <2>3. FdInv'
    BY <1>21 DEF WritePut, FdInv
  <2>4. NodesInv'
    BY <1>21 DEF WritePut, NodesInv
  <2>5. SvcInv'
    BY <1>21 DEF WritePut, SvcInv
  <2>6. DevInv'
    BY <1>21 DEF WritePut, DevInv
  <2> QED BY <2>1, <2>2, <2>3, <2>4, <2>5, <2>6
<1>22. CASE UNCHANGED vars
  <2>1. TypeOK'
    BY <1>22 DEF vars
  <2>2. LockInv'
    BY <1>22 DEF vars, LockInv
  <2>3. FdInv'
    BY <1>22 DEF vars, FdInv
  <2>4. NodesInv'
    BY <1>22 DEF vars, NodesInv
  <2>5. SvcInv'
    BY <1>22 DEF vars, SvcInv
  <2>6. DevInv'
    BY <1>22 DEF vars, DevInv
  <2> QED BY <2>1, <2>2, <2>3, <2>4, <2>5, <2>6
<1> QED
  BY <1>1, <1>2, <1>3, <1>4, <1>5, <1>6, <1>7, <1>8, <1>9, <1>10, <1>11, <1>12, <1>13, <1>14, <1>15, <1>16, <1>17, <1>18, <1>19, <1>20, <1>21, <1>22 DEF Next, SvcStep, DevStep

LEMMA Inductive == Spec => []IInv
BY InitInv, NextInv, PTL DEF Spec

\* Every variable of the client side keeps its type.
THEOREM TypeCorrect == Spec => []TypeOK
<1>1. IInv => TypeOK
  BY DEF IInv
<1> QED BY <1>1, Inductive, PTL

-----------------------------------------------------------------------------
\* Whoever takes the list lock finds only live clients under their own
\* descriptors: the half-deleted client of _sernet_eventcb is never seen.
THEOREM ListIsSound == Spec => []ListSound
<1>1. IInv => ListSound
  <2> SUFFICES ASSUME IInv, lock = None PROVE ListSound
    BY DEF ListSound
  <2>1. svc_pc # "event_del"
    BY SerNetAssumption DEF IInv, LockInv
  <2>2. \A n \in serclt_list : bev[n.clt] = "live" /\ fd_of[n.clt] = n.key
    BY <2>1 DEF IInv, NodesInv
  <2> QED BY <2>2 DEF ListSound, IInv, NodesInv
<1> QED BY <1>1, Inductive, PTL

\* A device thread that is about to append to a client's output buffer has a
\* live client, still listed under the socket number it looked up.
WriterHoldsLive ==
    \A d \in Devs : dev_pc[d] = "put" =>
        /\ bev[dev_c[d]] = "live"
        /\ fd_of[dev_c[d]] = dev_fd[d]

\* sernet_write never appends to a freed bufferevent, nor to one that is not
\* at present the client of the socket number it was given.
THEOREM WritersAreSafe == Spec => []WriterHoldsLive
<1>1. IInv => WriterHoldsLive
  <2> SUFFICES ASSUME IInv, NEW d \in Devs, dev_pc[d] = "put"
               PROVE  bev[dev_c[d]] = "live" /\ fd_of[dev_c[d]] = dev_fd[d]
    BY DEF WriterHoldsLive
  <2>1. svc_pc # "event_del"
    BY SerNetAssumption DEF IInv, LockInv
  <2> QED BY <2>1 DEF IInv, DevInv, NodesInv
<1> QED BY <1>1, Inductive, PTL

\* _sernet_readcb may use its node after it gave the lock back.
THEOREM ReaderIsSafe == Spec => []ReaderOwnsNode
<1>1. IInv => ReaderOwnsNode
  <2> SUFFICES ASSUME IInv, svc_pc = "read_use" PROVE ReaderOwnsNode
    BY DEF ReaderOwnsNode
  <2>1. [key |-> svc_fd, clt |-> svc_node] \in serclt_list
    BY DEF IInv, SvcInv
  <2>2. svc_node \in Conns /\ bev[svc_node] = "live" /\ fd_of[svc_node] = svc_fd
    BY <2>1 DEF IInv, TypeOK, NodesInv, Node
  <2>3. svc_node = svc_c
    BY <2>2 DEF IInv, SvcInv, FdInv
  <2> QED BY <2>1, <2>2, <2>3 DEF ReaderOwnsNode
<1> QED BY <1>1, Inductive, PTL

\* SimuList_Add is never refused because of an old entry: by the time accept
\* can return a descriptor again its previous client has left the list.
AddNeverRefused == svc_pc = "accept_add" => NodesAt(svc_fd) = {}

\* SimuList_Add, whose result nobody looks at, is never refused.
LEMMA AddFindsNoNode == IInv => AddNeverRefused
<1> SUFFICES ASSUME IInv, svc_pc = "accept_add", NEW n \in serclt_list, n.key = svc_fd
             PROVE  FALSE
  BY DEF AddNeverRefused, NodesAt
<1>1. bev[n.clt] = "live" /\ fd_of[n.clt] = fd_of[svc_c] /\ n.clt \in Conns
  BY DEF IInv, TypeOK, Node, NodesInv, SvcInv
<1>2. n.clt = svc_c
  BY <1>1 DEF IInv, SvcInv, FdInv
<1> QED BY <1>2 DEF IInv, SvcInv

\* Hence in every reachable state; the cast-off result of SimuList_Add is safe
\* to ignore, but for its malloc.
THEOREM AddIsNeverRefused == Spec => []AddNeverRefused
BY AddFindsNoNode, Inductive, PTL

-----------------------------------------------------------------------------
\* The agent loses track of no client but those an allocation failed for.
THEOREM NoClientIsLost == Spec => []NoOrphan
<1>1. Init => NoOrphan
  BY DEF Init, NoOrphan
<1>2. IInv /\ NoOrphan /\ [Next]_vars => NoOrphan'
  <2> SUFFICES ASSUME IInv, NoOrphan, [Next]_vars PROVE NoOrphan'
    OBVIOUS
  <2> USE DEF NoOrphan, NodesAt, svcVars, devVars, nodes
  <2>1. ASSUME NEW c \in Conns, NEW fd \in FDs, AcceptCb(c, fd) PROVE NoOrphan'
    BY <2>1 DEF AcceptCb, IInv, TypeOK
  <2>2. CASE AcceptAdd
    <3>1. NodesAt(svc_fd) = {}
      BY <2>2, AddFindsNoNode DEF AcceptAdd, AddNeverRefused
    <3>2. \/ serclt_list' = serclt_list \cup {[key |-> svc_fd, clt |-> svc_c]} /\ UNCHANGED unlisted
          \/ unlisted' = unlisted \cup {svc_c} /\ UNCHANGED serclt_list
      BY <2>2, <3>1 DEF AcceptAdd, ListAdd
    <3>3. fd_of[svc_c] = svc_fd
      BY <2>2 DEF AcceptAdd, IInv, SvcInv
    <3> QED BY <2>2, <3>2, <3>3 DEF AcceptAdd
  <2>3. CASE EventRelease
    BY <2>3 DEF EventRelease, IInv, TypeOK, Node
  <2>4. CASE EventDel
    BY <2>4 DEF EventDel, ListDel, IInv, SvcInv
  <2>5. CASE AcceptLock \/ EventLock \/ EventNotFound \/ ReadLock \/ ReadGet \/ ReadNotFound \/ ReadDone
    BY <2>5 DEF AcceptLock, EventLock, EventNotFound, ReadLock, ReadGet, ReadNotFound, ReadDone
  <2>6. ASSUME NEW c \in Conns, PeerClose(c) \/ EventCb(c) \/ ReadCb(c) PROVE NoOrphan'
    BY <2>6 DEF PeerClose, EventCb, ReadCb
  <2>7. ASSUME NEW d \in Devs, ReadForward(d) \/ DevStep(d) PROVE NoOrphan'
    BY <2>7 DEF ReadForward, DevStep, WriteCall, WriteLock, WriteGet, WriteNotFound, WritePut
  <2>8. CASE UNCHANGED vars
    BY <2>8 DEF vars
  <2>9. ASSUME NEW c \in Conns, NEW fd \in FDs, NEW b \in {"none", "live"}, AcceptFails(c, fd, b)
        PROVE  NoOrphan'
    BY <2>9 DEF AcceptFails, IInv, TypeOK
  <2> QED
    BY <2>1, <2>2, <2>3, <2>4, <2>5, <2>6, <2>7, <2>8, <2>9 DEF Next, SvcStep
<1> QED BY <1>1, <1>2, Inductive, PTL DEF Spec

-----------------------------------------------------------------------------
\* The connection a device's answer is for: it still has the number that was
\* remembered for it, or has been freed.
HistInv ==
    \A d \in Devs :
        /\ nserid[d] # None => /\ asker[d] \in Conns
                               /\ bev[asker[d]] = "freed" \/ fd_of[asker[d]] = nserid[d]
        /\ dev_fd[d] # None => /\ dev_for[d] \in Conns
                               /\ bev[dev_for[d]] = "freed" \/ fd_of[dev_for[d]] = dev_fd[d]

LEMMA NextHist == IInv /\ HistInv /\ [Next]_vars => HistInv'
<1> SUFFICES ASSUME IInv, HistInv, [Next]_vars PROVE HistInv'
  OBVIOUS
<1> USE DEF IInv, TypeOK, Node, HistInv, NodesAt, SvcReturns, DevReturns, svcVars, devVars,
        replyTo, nodes
<1>1. ASSUME NEW c \in Conns, PeerClose(c) \/ EventCb(c) \/ ReadCb(c) PROVE HistInv'
  BY <1>1 DEF PeerClose, EventCb, ReadCb
<1>2. ASSUME NEW c \in Conns, NEW fd \in FDs, AcceptCb(c, fd) PROVE HistInv'
  BY <1>2, SerNetAssumption DEF AcceptCb
<1>3. ASSUME NEW c \in Conns, NEW fd \in FDs, NEW b \in {"none", "live"}, AcceptFails(c, fd, b)
      PROVE  HistInv'
  BY <1>3, SerNetAssumption DEF AcceptFails
<1>4. CASE EventRelease
  BY <1>4 DEF EventRelease
<1>5. CASE AcceptLock \/ AcceptAdd \/ EventLock \/ EventNotFound \/ EventDel
  BY <1>5 DEF AcceptLock, AcceptAdd, EventLock, EventNotFound, EventDel
<1>6. CASE ReadLock \/ ReadGet \/ ReadNotFound \/ ReadDone
  BY <1>6 DEF ReadLock, ReadGet, ReadNotFound, ReadDone
<1>7. ASSUME NEW d \in Devs, ReadForward(d) PROVE HistInv'
  BY <1>7 DEF ReadForward, SvcInv
<1>8. ASSUME NEW d \in Devs, WriteCall(d) PROVE HistInv'
  BY <1>8 DEF WriteCall
<1>9. ASSUME NEW d \in Devs, WriteLock(d) \/ WriteGet(d) PROVE HistInv'
  BY <1>9 DEF WriteLock, WriteGet
<1>10. ASSUME NEW d \in Devs, WriteNotFound(d) \/ WritePut(d) PROVE HistInv'
  BY <1>10 DEF WriteNotFound, WritePut
<1>11. CASE UNCHANGED vars
  BY <1>11 DEF vars
<1> QED
  BY <1>1, <1>2, <1>3, <1>4, <1>5, <1>6, <1>7, <1>8, <1>9, <1>10, <1>11 DEF Next, SvcStep, DevStep

\* A reply goes astray only if the connection it is for no longer exists.
THEOREM LateRepliesExplained == Spec => LateReplyExplained
<1>1. Init => HistInv
  BY DEF Init, HistInv
<1>2. ASSUME IInv, HistInv, NEW d \in Devs, WritePut(d)
      PROVE  dev_for[d] \in {dev_c[d]} \cup {c \in Conns : bev[c] = "freed"}
  <2>1. svc_pc # "event_del" /\ [key |-> dev_fd[d], clt |-> dev_c[d]] \in serclt_list
    BY <1>2, SerNetAssumption DEF IInv, LockInv, DevInv, WritePut
  <2>2. dev_fd[d] \in FDs /\ dev_c[d] \in Conns /\ fd_of[dev_c[d]] = dev_fd[d]
    BY <1>2, <2>1 DEF IInv, TypeOK, Node, NodesInv
  <2> QED BY <1>2, <2>2, SerNetAssumption DEF HistInv, IInv, FdInv
<1>3. IInv /\ HistInv /\ [Next]_vars
        => [\A d \in Devs : WritePut(d) =>
               dev_for[d] \in {dev_c[d]} \cup {c \in Conns : bev[c] = "freed"}]_vars
  BY <1>2
<1> QED BY <1>1, <1>3, NextHist, Inductive, PTL DEF Spec, LateReplyExplained

-----------------------------------------------------------------------------
\* Refinement of ClientTable

LEMMA RefineInit == Init => CT!Init
BY DEF Init, CT!Init, alive, table

\* A step that touches no bufferevent's life, no node and no device's find is
\* no step of the table.
LEMMA Stutter ==
  ASSUME UNCHANGED <<serclt_list, dev_c, svc_fd>>,
         \A c \in Conns : bev'[c] = "live" <=> bev[c] = "live",
         svc_pc = "event_del" <=> svc_pc' = "event_del"
  PROVE  UNCHANGED CT!vars
BY DEF CT!vars, alive, table, NodesAt

LEMMA RefineStep == IInv /\ IInv' /\ [Next]_vars => [CT!Next]_(CT!vars)
<1> SUFFICES ASSUME IInv, IInv', [Next]_vars PROVE [CT!Next]_(CT!vars)
  OBVIOUS
<1> USE SerNetAssumption DEF NodesAt, Acquire, Unlock, SvcReturns, DevReturns, svcVars, devVars, replyTo, nodes
<1>1. ASSUME NEW c \in Conns, NEW fd \in FDs, AcceptCb(c, fd) PROVE CT!Open(c)
  <2>1. alive' = alive \cup {c} /\ c \notin alive
    BY <1>1 DEF AcceptCb, alive, IInv, TypeOK
  <2>2. UNCHANGED <<table, dev_c>>
    BY <1>1 DEF AcceptCb, table
  <2> QED BY <2>1, <2>2 DEF CT!Open
<1>2. ASSUME NEW c \in Conns, NEW fd \in FDs, NEW b \in {"none", "live"}, AcceptFails(c, fd, b)
      PROVE  [CT!Next]_(CT!vars)
  <2>1. UNCHANGED <<table, dev_c>>
    BY <1>2 DEF AcceptFails, table
  <2>2. CASE b = "none"
    <3>1. UNCHANGED alive
      BY <1>2, <2>2 DEF AcceptFails, alive, IInv, TypeOK
    <3> QED BY <2>1, <3>1 DEF CT!vars
  <2>3. CASE b = "live"
    <3>1. alive' = alive \cup {c} /\ c \notin alive
      BY <1>2, <2>3 DEF AcceptFails, alive, IInv, TypeOK
    <3> QED BY <2>1, <3>1 DEF CT!Open, CT!Next
  <2> QED BY <2>2, <2>3
<1>3. CASE AcceptAdd
  <2>1. UNCHANGED <<alive, dev_c>> /\ table = serclt_list /\ table' = serclt_list'
    BY <1>3 DEF AcceptAdd, alive, table
  <2>2. CASE UNCHANGED serclt_list
    BY <2>1, <2>2 DEF CT!vars
  <2>3. CASE serclt_list' = serclt_list \cup {[key |-> svc_fd, clt |-> svc_c]} /\ NodesAt(svc_fd) = {}
    <3> DEFINE e == [key |-> svc_fd, clt |-> svc_c]
    <3>1. svc_c \in Conns /\ bev[svc_c] = "live" /\ svc_fd \in FDs
      BY <1>3 DEF AcceptAdd, IInv, TypeOK, SvcInv, FdInv
    <3>2. e \in CT!Entry /\ e.clt \in alive
      BY <3>1 DEF CT!Entry, alive
    <3>3. \A f \in table : f.key # e.key /\ f.clt # e.clt
      BY <1>3, <2>1, <2>3 DEF AcceptAdd, IInv, SvcInv
    <3>4. CT!Join(e)
      BY <2>1, <2>3, <3>2, <3>3 DEF CT!Join
    <3> QED BY <3>2, <3>4 DEF CT!Next
  <2> QED BY <1>3, <2>2, <2>3 DEF AcceptAdd, ListAdd
<1>4. CASE EventRelease
  <2>1. PICK n \in NodesAt(svc_fd) : bev' = [bev EXCEPT ![n.clt] = "freed"]
    BY <1>4 DEF EventRelease
  <2>2. n \in Node /\ n \in serclt_list /\ n.key = svc_fd
    BY <2>1 DEF IInv, TypeOK
  <2>3. svc_pc = "event_get" /\ svc_pc' = "event_del" /\ UNCHANGED <<serclt_list, svc_fd, dev_c, dev_pc, lock>>
    BY <1>4 DEF EventRelease
  <2>4. table = serclt_list /\ table' = table \ {n}
    BY <2>2, <2>3 DEF table, IInv, NodesInv
  <2>5. alive' = alive \ {n.clt}
    BY <2>1, <2>2 DEF alive, Node, IInv, TypeOK
  <2>6. ASSUME NEW d \in Devs PROVE dev_c[d] # n.clt
    <3>1. dev_pc[d] # "put"
      BY <2>3 DEF IInv, LockInv
    <3> QED BY <2>2, <3>1 DEF IInv, DevInv, Node
  <2>7. CT!Leave(n)
    BY <2>2, <2>3, <2>4, <2>5, <2>6 DEF CT!Leave
  <2> QED BY <2>2, <2>7 DEF CT!Next, CT!Entry, Node
<1>5. CASE EventDel
  <2>1. UNCHANGED <<alive, dev_c>>
    BY <1>5 DEF EventDel, alive
  <2>2. table = serclt_list \ NodesAt(svc_fd) /\ table' = serclt_list'
    BY <1>5 DEF EventDel, table
  <2>3. serclt_list' = serclt_list \ NodesAt(svc_fd)
    BY <1>5 DEF EventDel, ListDel, IInv, NodesInv
  <2> QED BY <2>1, <2>2, <2>3 DEF CT!vars
<1>6. ASSUME NEW d \in Devs, WriteGet(d) PROVE [CT!Next]_(CT!vars)
  <2>1. PICK n \in NodesAt(dev_fd[d]) : dev_c' = [dev_c EXCEPT ![d] = n.clt]
    BY <1>6 DEF WriteGet
  <2>2. svc_pc # "event_del" /\ dev_c[d] = None /\ UNCHANGED <<serclt_list, bev, svc_pc, svc_fd>>
    BY <1>6 DEF WriteGet, IInv, LockInv, DevInv
  <2>3. n \in table /\ UNCHANGED <<alive, table>>
    BY <2>1, <2>2 DEF table, alive
  <2>4. CT!Find(d, n)
    BY <2>1, <2>2, <2>3 DEF CT!Find
  <2> QED BY <2>1, <2>4 DEF CT!Next, CT!Entry, Node, IInv, TypeOK
<1>7. ASSUME NEW d \in Devs, WritePut(d) PROVE [CT!Next]_(CT!vars)
  <2>1. dev_c[d] \in Conns /\ bev[dev_c[d]] = "live"
    <3>1. svc_pc # "event_del"
      BY <1>7 DEF WritePut, IInv, LockInv
    <3>2. [key |-> dev_fd[d], clt |-> dev_c[d]] \in serclt_list
      BY <1>7 DEF WritePut, IInv, DevInv
    <3> QED BY <3>1, <3>2 DEF IInv, TypeOK, Node, NodesInv
  <2>2. UNCHANGED <<alive, table>> /\ dev_c' = [dev_c EXCEPT ![d] = None]
    BY <1>7 DEF WritePut, alive, table
  <2>3. CT!Reply(d)
    BY <2>1, <2>2 DEF CT!Reply, alive
  <2> QED BY <2>3 DEF CT!Next
<1>8. ASSUME NEW d \in Devs, WriteNotFound(d) PROVE UNCHANGED CT!vars
  <2>1. dev_c[d] = None /\ dev_c' = [dev_c EXCEPT ![d] = None]
    BY <1>8 DEF WriteNotFound, IInv, DevInv
  <2>2. dev_c' = dev_c
    BY <2>1 DEF IInv, TypeOK
  <2> QED BY <1>8, <2>2, Stutter DEF WriteNotFound
<1>9. ASSUME NEW d \in Devs, WriteCall(d) \/ WriteLock(d) \/ ReadForward(d) PROVE UNCHANGED CT!vars
  BY <1>9 DEF WriteCall, WriteLock, ReadForward, CT!vars, alive, table
<1>10. ASSUME NEW c \in Conns, PeerClose(c) \/ EventCb(c) \/ ReadCb(c) PROVE UNCHANGED CT!vars
  BY <1>10 DEF PeerClose, EventCb, ReadCb, CT!vars, alive, table
<1>11. CASE AcceptLock \/ EventLock \/ ReadLock
  BY <1>11 DEF AcceptLock, EventLock, ReadLock, CT!vars, alive, table
<1>12. CASE EventNotFound \/ ReadGet \/ ReadNotFound \/ ReadDone
  BY <1>12 DEF EventNotFound, ReadGet, ReadNotFound, ReadDone, CT!vars, alive, table
<1>13. CASE UNCHANGED vars
  BY <1>13 DEF vars, CT!vars, alive, table
<1> QED
  BY <1>1, <1>2, <1>3, <1>4, <1>5, <1>6, <1>7, <1>8, <1>9, <1>10, <1>11, <1>12, <1>13
  DEF Next, SvcStep, DevStep, CT!Next

\* The locked linked list implements the atomic table of clients.
THEOREM ListImplementsTable == Spec => ImplementsClientTable
<1>1. Spec => []IInv
  BY Inductive
<1>2. Spec => CT!Spec
  BY <1>1, RefineInit, RefineStep, PTL DEF Spec, CT!Spec
<1> QED BY <1>2 DEF ImplementsClientTable

-----------------------------------------------------------------------------
(***************************************************************************)
(* SimuList, for any amount of memory and any set of keys.  The pointers   *)
(* are read off order: it is a list without repetitions, each of its cells *)
(* points to the next one (LinkInv), nothing else is allocated but a node  *)
(* about to be linked (CellInv), and a call stands between two neighbours, *)
(* none of them passed with its key (CallInv).                             *)
(***************************************************************************)

LinkInv ==
    /\ state = "made" => Len(order) = nCount + 1 /\ pHead = order[1]
    /\ state # "made" => Len(order) = 0 /\ nCount = 0 /\ pHead = Null
    /\ \A i, j \in 1 .. Len(order) : order[i] = order[j] => i = j
    /\ \A i \in 1 .. Len(order) : i < Len(order) => pNext[order[i]] = order[i + 1]
    /\ Len(order) > 0 => pNext[order[Len(order)]] = Null
    /\ \A i \in 2 .. Len(order) : nKey[order[i]] \in Keys /\ pData[order[i]] \in Data
    /\ \A i, j \in 2 .. Len(order) : nKey[order[i]] = nKey[order[j]] => i = j

CellInv ==
    state \in {"new", "made", "failed"} =>
        /\ pc # "tail" => heap = {order[i] : i \in 1 .. Len(order)}
        /\ pc = "tail" => heap = {order[i] : i \in 1 .. Len(order)} \cup {pNewNode}

\* No node among the first n has the key that the call is about.
Passed(n) == \A j \in 2 .. n : nKey[order[j]] # key

CallInv ==
    /\ state \in {"new", "dropped"} => pc = "idle"
    /\ pc # "idle" => key \in Keys /\ data \in Data /\ ret = {}
    /\ pc \notin {"find", "probe", "seek", "tail"} => p1 = Null /\ p2 = Null
    /\ pc # "tail" => pNewNode = Null
    /\ Walking => /\ state = "made"
                  /\ \E i \in 1 .. Len(order) :
                         p2 = order[i] /\ p1 = pNext[order[i]] /\ Passed(i)
    /\ pc = "tail" /\ state \in {"made", "failed"} =>
           /\ pNewNode \in Cells /\ \A i \in 1 .. Len(order) : order[i] # pNewNode
           /\ nKey[pNewNode] = key /\ pData[pNewNode] = data /\ pNext[pNewNode] = Null
           /\ Passed(Len(order))
           /\ p2 = Null \/ \E i \in 1 .. Len(order) : p2 = order[i]
           /\ \/ state = "made" /\ \E i \in 1 .. Len(order) : p1 = order[i]
              \/ state = "failed" /\ p1 = Null

PointerInv == ListTypeOK /\ LinkInv /\ CellInv /\ CallInv

LEMMA NullIsNoCell == Null \notin Cells
  BY DEF Null, Cells

LEMMA InitPointers == ListInit => PointerInv
<1> SUFFICES ASSUME ListInit PROVE PointerInv
  OBVIOUS
<1>1. ListTypeOK
  BY DEF ListInit, ListTypeOK
<1>2. /\ Len(order) = 0 /\ nCount = 0 /\ state = "new" /\ heap = {} /\ pc = "idle"
      /\ pHead = Null /\ ~ Len(order) > 0 /\ 1 .. Len(order) = {} /\ 2 .. Len(order) = {} /\ state # "made"
  BY DEF ListInit
<1>4. LinkInv
  BY <1>2, Zenon DEF LinkInv
<1>5. CellInv
  BY <1>2 DEF CellInv
<1>3. CallInv
  BY DEF ListInit, CallInv, Walking
<1> QED BY <1>1, <1>3, <1>4, <1>5 DEF PointerInv

\* Taking one element out of a sequence without repetitions
LEMMA WithoutOne ==
    ASSUME NEW S, NEW s \in Seq(S), NEW i \in 1 .. Len(s),
           \A j, k \in 1 .. Len(s) : s[j] = s[k] => j = k
    PROVE  /\ Without(s, s[i]) \in Seq(S) /\ Len(Without(s, s[i])) + 1 = Len(s)
           /\ \A j \in 1 .. Len(s) - 1 :
                  Without(s, s[i])[j] = IF j < i THEN s[j] ELSE s[j + 1]
<1> DEFINE w == Without(s, s[i])
<1>1. Len(s) - 1 \in Nat /\ Len(s) \in Nat /\ i \in Nat
  OBVIOUS
<1>2. \A j \in 1 .. Len(s) - 1 : (\E k \in 1 .. j : s[k] = s[i]) <=> i <= j
  BY <1>1
<1>3. w = [j \in 1 .. Len(s) - 1 |-> IF i <= j THEN s[j + 1] ELSE s[j]]
  BY <1>2 DEF Without
<1>4. \A j \in 1 .. Len(s) - 1 : w[j] = IF j < i THEN s[j] ELSE s[j + 1]
  BY <1>1, <1>3
<1>5. \A j \in 1 .. Len(s) - 1 : s[j] \in S /\ s[j + 1] \in S
  BY <1>1
<1>6. w \in [1 .. Len(s) - 1 -> S]
  BY <1>3, <1>5
<1>7. w \in Seq(S) /\ Len(w) = Len(s) - 1
  BY <1>1, <1>6
<1> QED BY <1>1, <1>4, <1>7

\* What a walk has found
LEMMA HitIs ==
    ASSUME PointerInv, Hit
    PROVE  /\ state = "made" /\ ret = {}
           /\ \E i \in 2 .. Len(order) :
                  p1 = order[i] /\ p2 = order[i - 1] /\ nKey[order[i]] = key
<1>1. PICK i \in 1 .. Len(order) : p2 = order[i] /\ p1 = pNext[order[i]]
  BY DEF Hit, PointerInv, CallInv
<1>2. i < Len(order) /\ p1 = order[i + 1]
  BY <1>1 DEF Hit, PointerInv, LinkInv, ListTypeOK
<1>3. state = "made" /\ ret = {}
  BY DEF Hit, PointerInv, CallInv, Walking
<1>4. i + 1 \in 2 .. Len(order) /\ (i + 1) - 1 = i
  BY <1>1, <1>2
<1> QED BY <1>1, <1>2, <1>3, <1>4 DEF Hit

LEMMA MissIs ==
    ASSUME PointerInv, state \in {"made", "failed"}, Miss \/ (pc \in Calls /\ nCount = 0)
    PROVE  Passed(Len(order)) /\ key \in Keys /\ data \in Data /\ ret = {}
<1>1. key \in Keys /\ data \in Data /\ ret = {}
  BY DEF PointerInv, CallInv, Miss, Walking, Calls
<1>2. CASE Miss
  <2>1. PICK i \in 1 .. Len(order) : p2 = order[i] /\ Null = pNext[order[i]] /\ Passed(i)
    BY <1>2 DEF Miss, PointerInv, CallInv
  <2>2. ~ i < Len(order)
    <3> SUFFICES ASSUME i < Len(order) PROVE FALSE
      OBVIOUS
    <3>1. order \in Seq(Cells)
      BY DEF PointerInv, ListTypeOK
    <3>2. order[i + 1] \in Cells
      BY <3>1
    <3>3. pNext[order[i]] = order[i + 1]
      BY DEF PointerInv, LinkInv
    <3> QED BY <2>1, <3>2, <3>3, NullIsNoCell
  <2>3. i = Len(order)
    BY <2>1, <2>2
  <2> QED BY <1>1, <2>1, <2>3
<1>3. CASE nCount = 0
  <2>1. Len(order) \in {0, 1}
    BY <1>3 DEF PointerInv, LinkInv, ListTypeOK
  <2> QED BY <1>1, <2>1 DEF Passed
<1> QED BY <1>2, <1>3

-----------------------------------------------------------------------------
\* Steps that only move the pointers of the call
LEMMA StepWalks ==
    ASSUME PointerInv, StartWalk \/ Walk \/ WalkTail, state \in {"made", "failed"}
    PROVE  PointerInv'
<1>1. UNCHANGED <<pHead, nCount, state, nKey, pData, pNext, heap, key, data, pNewNode, ret, order>>
  BY DEF StartWalk, Walk, WalkTail, list, fields
<1>2. pc = "tail" <=> pc' = "tail"
  BY DEF StartWalk, Walk, WalkTail, Calls, Walking
<1>3. LinkInv' /\ CellInv'
  BY <1>1, <1>2 DEF PointerInv, LinkInv, CellInv
<1>4. order \in Seq(Cells) /\ Len(order) \in Nat /\ \A i \in 1 .. Len(order) : order[i] \in Cells
  BY DEF PointerInv, ListTypeOK
<1>5. CASE StartWalk
  <2>1. state = "made" /\ Len(order) > 1 /\ pHead = order[1]
    BY <1>5 DEF StartWalk, PointerInv, LinkInv, ListTypeOK
  <2>2. pc' \in {"find", "probe", "seek"} /\ p1' = pNext[order[1]] /\ p2' = order[1]
    BY <1>5, <2>1 DEF StartWalk, Calls
  <2>3. Passed(1)' /\ 1 \in 1 .. Len(order)
    BY <1>4, <2>1 DEF Passed
  <2>4. CallInv'
    <3>1. pc # "idle"
      BY <1>5 DEF StartWalk, Calls
    <3>2. key \in Keys /\ data \in Data /\ ret = {} /\ pNewNode = Null
      BY <1>5, <3>1 DEF StartWalk, Calls, PointerInv, CallInv
    <3>3. \E i \in 1 .. Len(order') : p2' = order'[i] /\ p1' = pNext'[order'[i]] /\ Passed(i)'
      BY <1>1, <2>2, <2>3
    <3> QED BY <1>1, <2>1, <2>2, <3>2, <3>3 DEF CallInv, Walking
  <2>5. ListTypeOK'
    BY <1>1, <1>4, <2>1, <2>2, SMTT(30) DEF PointerInv, ListTypeOK
  <2> QED BY <1>3, <2>4, <2>5 DEF PointerInv
<1>6. CASE Walk
  <2>1. PICK i \in 1 .. Len(order) : p2 = order[i] /\ p1 = pNext[order[i]] /\ Passed(i)
    BY <1>6 DEF Walk, PointerInv, CallInv
  <2>2. i < Len(order) /\ p1 = order[i + 1]
    BY <1>4, <1>6, <2>1 DEF Walk, PointerInv, LinkInv
  <2>3. Passed(i + 1)
    BY <1>4, <1>6, <2>1, <2>2 DEF Walk, Passed
  <2>4. i + 1 \in 1 .. Len(order) /\ p2' = order[i + 1] /\ p1' = pNext[order[i + 1]]
    BY <1>4, <1>6, <2>2 DEF Walk
  <2>5. CallInv'
    <3>1. Passed(i + 1)'
      BY <1>1, <2>3 DEF Passed
    <3>2. state = "made" /\ pc' = pc /\ pc \in {"find", "probe", "seek"}
      BY <1>6 DEF Walk, Walking, PointerInv, CallInv
    <3> QED BY <1>1, <2>4, <3>1, <3>2 DEF PointerInv, CallInv, Walking
  <2>6. ListTypeOK'
    BY <1>1, <1>4, <1>6, <2>4 DEF Walk, PointerInv, ListTypeOK
  <2> QED BY <1>3, <2>5, <2>6 DEF PointerInv
<1>7. CASE WalkTail
  <2>1. PICK i \in 1 .. Len(order) : p1 = order[i] /\ state = "made"
    BY <1>7 DEF WalkTail, PointerInv, CallInv
  <2>2. i < Len(order) /\ p1' = order[i + 1]
    BY <1>4, <1>7, <2>1 DEF WalkTail, PointerInv, LinkInv
  <2>3. i + 1 \in 1 .. Len(order)
    BY <1>4, <2>2
  <2>4. CallInv'
    BY <1>1, <1>7, <2>1, <2>2, <2>3 DEF WalkTail, PointerInv, CallInv, Passed, Walking
  <2>5. ListTypeOK'
    BY <1>1, <1>4, <1>7, <2>2, <2>3 DEF WalkTail, PointerInv, ListTypeOK
  <2> QED BY <1>3, <2>4, <2>5 DEF PointerInv
<1> QED BY <1>5, <1>6, <1>7

\* Calls and returns that leave the list alone
LEMMA StepCalls ==
    ASSUME PointerInv,
           \/ \E op \in Calls, k \in Keys, d \in Data : Call(op, k, d)
           \/ GetReturns \/ AddPresent \/ MallocFails \/ DelAbsent
    PROVE  PointerInv' /\ UNCHANGED <<list, fields, heap, order>>
<1>1. UNCHANGED <<list, fields, heap, order>>
  BY DEF Call, GetReturns, AddPresent, MallocFails, DelAbsent
<1>2. pc # "tail" /\ pc' \in {"idle"} \cup Calls
  BY DEF Call, Returns, GetReturns, AddPresent, MallocFails, DelAbsent, Absent, Calls, Hit, Miss, Walking
<1>3. LinkInv' /\ CellInv'
  <2>1. pc' # "tail"
    BY <1>2 DEF Calls
  <2> QED BY <1>1, <1>2, <2>1 DEF PointerInv, LinkInv, CellInv, list, fields
<1>4. CASE \E op \in Calls, k \in Keys, d \in Data : Call(op, k, d)
  <2>1. /\ state \in {"made", "failed"} /\ pc' \in Calls /\ key' \in Keys /\ data' \in Data
        /\ ret' = {} /\ p1' = p1 /\ p2' = p2 /\ pNewNode' = pNewNode /\ pc = "idle"
    BY <1>4 DEF Call
  <2>2. CallInv'
    BY <1>1, <2>1 DEF PointerInv, CallInv, Walking, Calls, list
  <2>3. ListTypeOK'
    BY <1>1, <2>1 DEF PointerInv, ListTypeOK, list, fields
  <2> QED BY <1>1, <1>3, <2>2, <2>3 DEF PointerInv
<1>5. CASE GetReturns \/ AddPresent \/ MallocFails \/ DelAbsent
  <2>1. /\ pc' = "idle" /\ p1' = Null /\ p2' = Null /\ pNewNode' = Null
        /\ key' = Null /\ data' = Null
    BY <1>5 DEF GetReturns, AddPresent, MallocFails, DelAbsent, Returns
  <2>2. CallInv'
    BY <2>1 DEF CallInv, Walking
  <2>3. ListTypeOK'
    BY <1>1, <2>1 DEF PointerInv, ListTypeOK, list, fields
  <2> QED BY <1>1, <1>3, <2>2, <2>3 DEF PointerInv
<1> QED BY <1>4, <1>5

\* Making a list, giving it up, and doing either without a head
LEMMA StepMakes ==
    ASSUME PointerInv, Create \/ Destory \/ DestoryCrashes \/ TailCrashes,
           TailCrashes => state \in {"made", "failed"}
    PROVE  PointerInv' /\ (TailCrashes => state = "failed")
<1> USE DEF list, fields, locals
<1>1. CASE Create
  <2>1. state = "new" /\ pc = "idle" /\ Len(order) = 0 /\ nCount = 0 /\ pc' = "idle" /\ pHead = Null
    BY <1>1 DEF Create, PointerInv, LinkInv, CallInv
  <2>2. CallInv'
    BY <1>1, <2>1 DEF Create, PointerInv, CallInv, Walking, Calls
  <2>3. ~ TailCrashes
    BY <2>1 DEF TailCrashes
  <2>4. CASE state' = "failed" /\ UNCHANGED <<pHead, heap, fields, order>>
    <3>1. ListTypeOK'
      BY <1>1, <2>4 DEF Create, PointerInv, ListTypeOK
    <3>2. 1 .. Len(order) = {} /\ 2 .. Len(order) = {} /\ ~ Len(order) > 0
      BY <2>1
    <3>3. nCount' = 0 /\ pHead' = Null /\ order' = order /\ state' # "made"
      BY <1>1, <2>1, <2>4 DEF Create
    <3>4. LinkInv'
      BY <2>1, <3>2, <3>3, Zenon DEF LinkInv
    <3>5. CellInv'
      <4>1. heap = {order[i] : i \in 1 .. Len(order)}
        BY <2>1 DEF PointerInv, CellInv
      <4>2. heap' = {order'[i] : i \in 1 .. Len(order')}
        BY <2>4, <4>1
      <4> QED BY <2>1, <4>2 DEF CellInv
    <3> QED BY <2>2, <2>3, <3>1, <3>4, <3>5 DEF PointerInv
  <2>5. CASE ~ (state' = "failed" /\ UNCHANGED <<pHead, heap, fields, order>>)
    <3>1. PICK n \in Cells :
             /\ nKey' = [nKey EXCEPT ![n] = 0] /\ pData' = [pData EXCEPT ![n] = Null]
             /\ pNext' = [pNext EXCEPT ![n] = Null]
             /\ pHead' = n /\ heap' = {n} /\ order' = <<n>> /\ state' = "made"
      BY <1>1, <2>5 DEF Create
    <3>2. ListTypeOK'
      BY <1>1, <3>1 DEF Create, PointerInv, ListTypeOK
    <3>3. Len(order') = 1 /\ order'[1] = n /\ pNext'[n] = Null /\ nCount' = 0
      BY <1>1, <2>1, <3>1 DEF Create, PointerInv, ListTypeOK
    <3>4. LinkInv'
      BY <3>1, <3>3 DEF LinkInv
    <3>5. CellInv'
      <4>1. heap' = {order'[i] : i \in 1 .. Len(order')}
        BY <3>1, <3>3
      <4>2. pc' # "tail"
        BY <2>1
      <4> QED BY <4>1, <4>2, Zenon DEF CellInv
    <3> QED BY <2>2, <2>3, <3>2, <3>4, <3>5 DEF PointerInv
  <2> QED BY <2>4, <2>5
<1>2. CASE Destory
  <2>1. state' = "dropped" /\ pc' = "idle" /\ pc = "idle" /\ order' = <<>> /\ nCount' = 0
        /\ pHead' = Null /\ UNCHANGED <<fields, p1, p2, pNewNode>>
    BY <1>2 DEF Destory
  <2>2. CallInv'
    BY <2>1 DEF PointerInv, CallInv, Walking, Calls
  <2>3. ListTypeOK'
    BY <1>2 DEF Destory, PointerInv, ListTypeOK
  <2>4. Len(order') = 0 /\ 1 .. Len(order') = {} /\ 2 .. Len(order') = {} /\ ~ Len(order') > 0
    BY <2>1
  <2>5. LinkInv' /\ CellInv'
    <3>1. state' \notin {"new", "made", "failed"}
      BY <2>1
    <3>2. LinkInv'
      BY <2>1, <2>4, <3>1, Zenon DEF LinkInv
    <3> QED BY <3>1, <3>2 DEF CellInv
  <2>6. ~ TailCrashes
    BY <2>1 DEF TailCrashes
  <2> QED BY <2>2, <2>3, <2>5, <2>6 DEF PointerInv
<1>3. CASE DestoryCrashes \/ TailCrashes
  <2>1. state = "failed" /\ state' = "crashed"
        /\ UNCHANGED <<pHead, nCount, fields, heap, pc, locals, ret, order>>
    BY <1>3, NullIsNoCell DEF DestoryCrashes, TailCrashes, PointerInv, CallInv, ListTypeOK
  <2>2. ListTypeOK' /\ CellInv'
    BY <2>1 DEF PointerInv, ListTypeOK, CellInv
  <2>3. LinkInv'
    BY <2>1 DEF PointerInv, LinkInv
  <2>4. CallInv'
    BY <2>1 DEF PointerInv, CallInv, Walking
  <2> QED BY <2>1, <2>2, <2>3, <2>4 DEF PointerInv
<1> QED BY <1>1, <1>2, <1>3

LEMMA StepMalloc ==
    ASSUME PointerInv, state \in {"made", "failed"}, Malloc
    PROVE  PointerInv'
<1>1. PICK n \in Cells \ heap :
         /\ nKey' = [nKey EXCEPT ![n] = key] /\ pData' = [pData EXCEPT ![n] = data]
         /\ pNext' = [pNext EXCEPT ![n] = Null] /\ heap' = heap \cup {n} /\ pNewNode' = n
  BY DEF Malloc
<1>2. pc' = "tail" /\ p1' = pHead /\ UNCHANGED <<list, key, data, p2, ret, order>>
  BY DEF Malloc
<1>3. Passed(Len(order)) /\ key \in Keys /\ data \in Data /\ ret = {} /\ pc # "tail"
  <2>1. Miss \/ (pc \in Calls /\ nCount = 0)
    <3>1. Absent
      BY DEF Malloc
    <3>2. pc = "add" => pc \in Calls
      BY DEF Calls
    <3> QED BY <3>1, <3>2 DEF Absent
  <2>2. pc # "tail"
    BY DEF Malloc, Absent
  <2> QED BY <2>1, <2>2, MissIs
<1>4. heap = {order[i] : i \in 1 .. Len(order)}
  BY <1>3 DEF PointerInv, CellInv
<1>5. \A i \in 1 .. Len(order) : order[i] # n
  BY <1>1, <1>4
<1>6. \A i \in 1 .. Len(order) : order[i] \in Cells
  BY DEF PointerInv, ListTypeOK
<1>7. \A i \in 1 .. Len(order) : /\ nKey'[order[i]] = nKey[order[i]]
                                 /\ pData'[order[i]] = pData[order[i]]
                                 /\ pNext'[order[i]] = pNext[order[i]]
  BY <1>1, <1>5, <1>6 DEF PointerInv, ListTypeOK
<1>8. Len(order) \in Nat /\ \A i \in 2 .. Len(order) : i \in 1 .. Len(order)
  BY DEF PointerInv, ListTypeOK
<1>9. ListTypeOK'
  BY <1>1, <1>2, <1>3 DEF PointerInv, ListTypeOK, list, Calls
<1>10. LinkInv'
  <2>1. Len(order) > 0 => Len(order) \in 1 .. Len(order)
    BY <1>8
  <2> QED BY <1>2, <1>7, <1>8, <2>1 DEF PointerInv, LinkInv, list
<1>11. CellInv'
  BY <1>1, <1>2, <1>4 DEF CellInv
<1>12. CallInv'
  <2>1. Passed(Len(order))'
    BY <1>2, <1>3, <1>7, <1>8 DEF Passed
  <2>2. nKey'[n] = key /\ pData'[n] = data /\ pNext'[n] = Null
    BY <1>1 DEF PointerInv, ListTypeOK
  <2>3. p2 = Null \/ \E i \in 1 .. Len(order) : p2 = order[i]
    BY <1>3 DEF PointerInv, CallInv, Malloc, Absent, Miss, Walking
  <2>4. state = "made" => 1 \in 1 .. Len(order) /\ pHead = order[1]
    BY <1>8 DEF PointerInv, LinkInv, ListTypeOK
  <2>5. state = "failed" => pHead = Null
    BY DEF PointerInv, LinkInv
  <2> QED BY <1>1, <1>2, <1>3, <1>5, <2>1, <2>2, <2>3, <2>4, <2>5 DEF CallInv, Walking, list
<1> QED BY <1>9, <1>10, <1>11, <1>12 DEF PointerInv

LEMMA StepLink ==
    ASSUME PointerInv, state \in {"made", "failed"}, Link
    PROVE  /\ PointerInv'
           /\ state = "made" /\ order' = Append(order, pNewNode) /\ Passed(Len(order))
           /\ nKey[pNewNode] = key /\ pData[pNewNode] = data
<1> DEFINE L == Len(order)
<1>1. /\ pc = "tail" /\ p1 # Null /\ pNext[p1] = Null
      /\ pNext' = [pNext EXCEPT ![p1] = pNewNode] /\ order' = Append(order, pNewNode)
      /\ nCount' = nCount + 1 /\ UNCHANGED <<pHead, state, nKey, pData, heap>>
  BY DEF Link
<1>2. /\ pc' = "idle" /\ p1' = Null /\ p2' = Null /\ pNewNode' = Null
      /\ key' = Null /\ data' = Null
  BY DEF Link, Returns
<1>3. /\ pNewNode \in Cells /\ \A i \in 1 .. L : order[i] # pNewNode
      /\ nKey[pNewNode] = key /\ pData[pNewNode] = data /\ pNext[pNewNode] = Null
      /\ Passed(L) /\ state = "made" /\ key \in Keys /\ data \in Data
  BY <1>1 DEF PointerInv, CallInv
<1>4. PICK n \in 1 .. L : p1 = order[n]
  BY <1>1, <1>3 DEF PointerInv, CallInv
<1>5. order \in Seq(Cells) /\ L \in Nat /\ L = nCount + 1 /\ \A i \in 1 .. L : order[i] \in Cells
  BY <1>3 DEF PointerInv, ListTypeOK, LinkInv
<1>6. n = L /\ L > 0
  <2>1. n < L => pNext[p1] = order[n + 1] /\ order[n + 1] \in Cells
    BY <1>4, <1>5 DEF PointerInv, LinkInv
  <2> QED BY <1>1, <1>4, <1>5, <2>1, NullIsNoCell
<1>7. /\ Len(order') = L + 1 /\ order'[L + 1] = pNewNode
      /\ \A i \in 1 .. L : order'[i] = order[i]
  BY <1>1, <1>3, <1>5, SMTT(30)
<1>8. ListTypeOK'
  <2>1. pNext' \in [Cells -> Cells \cup {Null}] /\ order' \in Seq(Cells) /\ nCount' \in Nat
    BY <1>1, <1>3, <1>5 DEF PointerInv, ListTypeOK
  <2> QED BY <1>1, <1>2, <2>1 DEF PointerInv, ListTypeOK
<1>9. /\ pNext'[order[L]] = pNewNode /\ pNext'[pNewNode] = Null
      /\ \A i \in 1 .. L : i < L => pNext'[order[i]] = order[i + 1]
  <2>1. \A i \in 1 .. L : i < L => order[i] # order[L]
    BY <1>5, <1>6 DEF PointerInv, LinkInv
  <2>2. pNewNode # order[L] /\ order[L] \in Cells
    BY <1>3, <1>5, <1>6
  <2>3. \A c \in Cells : pNext'[c] = IF c = order[L] THEN pNewNode ELSE pNext[c]
    BY <1>1, <1>4, <1>6 DEF PointerInv, ListTypeOK
  <2>4. \A i \in 1 .. L : i < L => pNext[order[i]] = order[i + 1]
    BY DEF PointerInv, LinkInv
  <2> QED BY <1>3, <1>5, <2>1, <2>2, <2>3, <2>4
<1>10. LinkInv'
  <2>1. \A i, j \in 1 .. L + 1 : order'[i] = order'[j] => i = j
    <3>1. \A i, j \in 1 .. L : order[i] = order[j] => i = j
      BY DEF PointerInv, LinkInv
    <3> QED BY <1>3, <1>5, <1>7, <3>1
  <2>2. \A i \in 1 .. L + 1 : i < L + 1 => pNext'[order'[i]] = order'[i + 1]
    <3> SUFFICES ASSUME NEW i \in 1 .. L PROVE pNext'[order'[i]] = order'[i + 1]
      <4>1. \A i \in 1 .. L + 1 : i < L + 1 => i \in 1 .. L
        BY <1>5
      <4> QED BY <4>1
    <3>1. CASE i = L
      BY <1>7, <1>9, <3>1
    <3>2. CASE i < L
      BY <1>5, <1>7, <1>9, <3>2
    <3> QED BY <1>5, <3>1, <3>2
  <2>3. \A i \in 2 .. L + 1 : nKey'[order'[i]] \in Keys /\ pData'[order'[i]] \in Data
    <3>1. \A i \in 2 .. L : nKey[order[i]] \in Keys /\ pData[order[i]] \in Data
      BY DEF PointerInv, LinkInv
    <3> QED BY <1>1, <1>3, <1>5, <1>7, <3>1
  <2>4. \A i, j \in 2 .. L + 1 : nKey'[order'[i]] = nKey'[order'[j]] => i = j
    <3>1. \A i, j \in 2 .. L : nKey[order[i]] = nKey[order[j]] => i = j
      BY DEF PointerInv, LinkInv
    <3>2. \A j \in 2 .. L : nKey[order[j]] # key
      BY <1>3 DEF Passed
    <3> QED BY <1>1, <1>3, <1>5, <1>7, <3>1, <3>2
  <2>5. pHead' = order'[1] /\ nCount' \in Nat /\ Len(order') = nCount' + 1
    <3>1. pHead = order[1] /\ nCount \in Nat
      BY <1>3 DEF PointerInv, LinkInv, ListTypeOK
    <3> QED BY <1>1, <1>5, <1>6, <1>7, <3>1
  <2>6. pNext'[order'[Len(order')]] = Null
    BY <1>7, <1>9
  <2> QED BY <1>1, <1>3, <1>7, <2>1, <2>2, <2>3, <2>4, <2>5, <2>6 DEF LinkInv
<1>11. CellInv'
  <2>1. heap = {order[i] : i \in 1 .. L} \cup {pNewNode}
    BY <1>1, <1>3 DEF PointerInv, CellInv
  <2>2. heap = {order'[i] : i \in 1 .. L + 1}
    BY <1>5, <1>7, <2>1
  <2> QED BY <1>1, <1>2, <1>7, <2>2 DEF CellInv
<1>12. CallInv'
  BY <1>1, <1>2, <1>3 DEF CallInv, Walking
<1> QED BY <1>1, <1>3, <1>8, <1>10, <1>11, <1>12 DEF PointerInv

LEMMA StepUnlink ==
    ASSUME PointerInv, state \in {"made", "failed"}, Unlink,
           NEW n \in 2 .. Len(order), p1 = order[n], p2 = order[n - 1]
    PROVE  /\ PointerInv' /\ UNCHANGED <<nKey, pData>>
           /\ Len(order') + 1 = Len(order)
           /\ \A i \in 1 .. Len(order) - 1 : order'[i] = IF i < n THEN order[i] ELSE order[i + 1]
<1> DEFINE L == Len(order)
<1>1. /\ pc = "seek"
      /\ pNext' = [pNext EXCEPT ![p2] = pNext[p1]] /\ order' = Without(order, p1)
      /\ heap' = heap \ {p1} /\ nCount' = nCount - 1 /\ UNCHANGED <<pHead, state, nKey, pData>>
  BY DEF Unlink
<1>2. /\ pc' = "idle" /\ p1' = Null /\ p2' = Null /\ pNewNode' = Null
      /\ key' = Null /\ data' = Null
  BY DEF Unlink, Returns
<1>3. state = "made"
  BY <1>1 DEF PointerInv, CallInv, Walking
<1>4. /\ order \in Seq(Cells) /\ L \in Nat /\ L = nCount + 1 /\ pHead = order[1]
      /\ \A i \in 1 .. L : order[i] \in Cells
      /\ \A i, j \in 1 .. L : order[i] = order[j] => i = j
  BY <1>3 DEF PointerInv, ListTypeOK, LinkInv
<1>5. n \in 1 .. L /\ n - 1 \in 1 .. L /\ n \in Nat /\ n > 1 /\ L > 1
  BY <1>4
<1>6. /\ order' \in Seq(Cells) /\ Len(order') + 1 = L
      /\ \A i \in 1 .. L - 1 : order'[i] = IF i < n THEN order[i] ELSE order[i + 1]
  BY <1>1, <1>4, <1>5, WithoutOne
<1>7. Len(order') = L - 1 /\ Len(order') \in Nat
  BY <1>6
<1>8. ListTypeOK'
  <2>1. pNext' \in [Cells -> Cells \cup {Null}] /\ nCount' \in Nat
    BY <1>1, <1>4, <1>5 DEF PointerInv, ListTypeOK
  <2> QED BY <1>1, <1>2, <1>6, <2>1 DEF PointerInv, ListTypeOK
<1>9. \A i \in 1 .. L : pNext'[order[i]] = IF i = n - 1 THEN pNext[order[n]] ELSE pNext[order[i]]
  BY <1>1, <1>4, <1>5 DEF PointerInv, ListTypeOK
<1>10. /\ \A i \in 1 .. L : i < L => pNext[order[i]] = order[i + 1]
       /\ pNext[order[L]] = Null
  BY <1>5 DEF PointerInv, LinkInv
<1>11. LinkInv'
  <2>1. \A i, j \in 1 .. L - 1 : order'[i] = order'[j] => i = j
    <3> SUFFICES ASSUME NEW i \in 1 .. L - 1, NEW j \in 1 .. L - 1, order'[i] = order'[j]
                 PROVE  i = j
      OBVIOUS
    <3>1. \A k \in 1 .. L - 1 : (IF k < n THEN k ELSE k + 1) \in 1 .. L
      BY <1>4
    <3>2. \A k \in 1 .. L - 1 : order'[k] = order[IF k < n THEN k ELSE k + 1]
      BY <1>6
    <3>3. (IF i < n THEN i ELSE i + 1) = (IF j < n THEN j ELSE j + 1)
      BY <1>4, <3>1, <3>2
    <3> QED BY <1>4, <1>5, <3>3, SMTT(30)
  <2>2. \A i \in 1 .. L - 1 : i < L - 1 => pNext'[order'[i]] = order'[i + 1]
    <3> SUFFICES ASSUME NEW i \in 1 .. L - 1, i < L - 1 PROVE pNext'[order'[i]] = order'[i + 1]
      OBVIOUS
    <3>1. i + 1 \in 1 .. L - 1 /\ i + 1 \in 1 .. L /\ i \in 1 .. L /\ i \in Nat
      BY <1>4
    <3>2. CASE i + 1 < n
      BY <1>4, <1>6, <1>9, <1>10, <3>1, <3>2, SMTT(30)
    <3>3. CASE i + 1 = n
      BY <1>4, <1>6, <1>9, <1>10, <3>1, <3>3, SMTT(30)
    <3>4. CASE i + 1 > n
      <4>1. order'[i] = order[i + 1] /\ order'[i + 1] = order[i + 2]
        BY <1>4, <1>5, <1>6, <3>1, <3>4
      <4>2. pNext'[order[i + 1]] = pNext[order[i + 1]]
        BY <1>5, <1>9, <3>1, <3>4
      <4>3. pNext[order[i + 1]] = order[i + 2]
        BY <1>4, <1>10, <3>1
      <4> QED BY <4>1, <4>2, <4>3
    <3> QED BY <1>5, <3>1, <3>2, <3>3, <3>4
  <2>3. pNext'[order'[L - 1]] = Null
    <3>1. L - 1 \in 1 .. L - 1 /\ L - 1 \in 1 .. L
      BY <1>4, <1>5
    <3>2. CASE n = L
      BY <1>4, <1>5, <1>6, <1>9, <1>10, <3>1, <3>2
    <3>3. CASE n < L
      BY <1>4, <1>5, <1>6, <1>9, <1>10, <3>1, <3>3
    <3> QED BY <1>4, <1>5, <3>2, <3>3
  <2>4. \A i \in 2 .. L - 1 : nKey'[order'[i]] \in Keys /\ pData'[order'[i]] \in Data
    <3>1. \A i \in 2 .. L : nKey[order[i]] \in Keys /\ pData[order[i]] \in Data
      BY DEF PointerInv, LinkInv
    <3> SUFFICES ASSUME NEW i \in 2 .. L - 1
                 PROVE  nKey[order'[i]] \in Keys /\ pData[order'[i]] \in Data
      BY <1>1
    <3>2. PICK k \in 2 .. L : order'[i] = order[k]
      <4>1. i \in 1 .. L - 1 /\ i \in 2 .. L /\ i + 1 \in 2 .. L
        BY <1>4
      <4> QED BY <1>6, <4>1
    <3> QED BY <3>1, <3>2
  <2>5. \A i, j \in 2 .. L - 1 : nKey'[order'[i]] = nKey'[order'[j]] => i = j
    <3>1. \A i, j \in 2 .. L : nKey[order[i]] = nKey[order[j]] => i = j
      BY DEF PointerInv, LinkInv
    <3>2. \A i \in 2 .. L - 1 : /\ i \in 1 .. L - 1
                               /\ (IF i < n THEN i ELSE i + 1) \in 2 .. L
                               /\ order'[i] = order[IF i < n THEN i ELSE i + 1]
      BY <1>4, <1>6
    <3> SUFFICES ASSUME NEW i \in 2 .. L - 1, NEW j \in 2 .. L - 1,
                        nKey[order'[i]] = nKey[order'[j]]
                 PROVE  i = j
      BY <1>1
    <3>3. PICK k \in 2 .. L : order'[i] = order[k] /\ k = IF i < n THEN i ELSE i + 1
      BY <3>2
    <3>4. PICK m \in 2 .. L : order'[j] = order[m] /\ m = IF j < n THEN j ELSE j + 1
      BY <3>2
    <3>5. k = m
      BY <3>1, <3>3, <3>4
    <3> QED BY <1>4, <1>5, <3>3, <3>4, <3>5
  <2>6. pHead' = order'[1] /\ Len(order') = nCount' + 1
    BY <1>1, <1>4, <1>5, <1>6, <1>7 DEF PointerInv, ListTypeOK
  <2> QED BY <1>1, <1>3, <1>7, <2>1, <2>2, <2>3, <2>4, <2>5, <2>6 DEF LinkInv
<1>12. CellInv'
  <2>1. heap = {order[i] : i \in 1 .. L}
    BY <1>1, <1>3 DEF PointerInv, CellInv
  <2>2. \A i \in 1 .. L - 1 : order'[i] \in heap /\ order'[i] # order[n]
    <3> SUFFICES ASSUME NEW i \in 1 .. L - 1 PROVE order'[i] \in heap /\ order'[i] # order[n]
      OBVIOUS
    <3>1. PICK k \in 1 .. L : order'[i] = order[k] /\ k # n
      BY <1>4, <1>5, <1>6
    <3> QED BY <1>4, <1>5, <2>1, <3>1
  <2>3. \A i \in 1 .. L : i # n => \E j \in 1 .. L - 1 : order[i] = order'[j]
    <3> SUFFICES ASSUME NEW i \in 1 .. L, i # n PROVE \E j \in 1 .. L - 1 : order[i] = order'[j]
      OBVIOUS
    <3>1. CASE i < n
      <4>1. i \in 1 .. L - 1
        BY <1>4, <1>5, <3>1
      <4> QED BY <1>6, <3>1, <4>1
    <3>2. CASE i > n
      <4>1. i - 1 \in 1 .. L - 1 /\ ~ i - 1 < n /\ (i - 1) + 1 = i
        BY <1>4, <1>5, <3>2
      <4> QED BY <1>6, <4>1
    <3> QED BY <1>5, <3>1, <3>2
  <2>4. heap' = {order'[i] : i \in 1 .. L - 1}
    BY <1>1, <2>1, <2>2, <2>3
  <2> QED BY <1>2, <1>7, <2>4 DEF CellInv
<1>13. CallInv'
  BY <1>1, <1>2, <1>3 DEF CallInv, Walking
<1> QED BY <1>1, <1>6, <1>8, <1>11, <1>12, <1>13 DEF PointerInv

LEMMA NextPointers == PointerInv /\ [ListNext]_listVars => PointerInv'
<1> SUFFICES ASSUME PointerInv, [ListNext]_listVars PROVE PointerInv'
  OBVIOUS
<1>1. ASSUME state \in {"made", "failed"}, Step PROVE PointerInv'
  <2>1. ASSUME Unlink PROVE PointerInv'
    <3>1. Hit
      BY <2>1 DEF Unlink
    <3> QED BY <1>1, <2>1, <3>1, HitIs, StepUnlink
  <2> QED BY <1>1, <2>1, StepWalks, StepCalls, StepMakes, StepMalloc, StepLink DEF Step
<1>2. CASE UNCHANGED listVars
  <2>1. ListTypeOK'
    BY <1>2 DEF listVars, PointerInv, ListTypeOK
  <2>2. LinkInv' /\ CellInv'
    BY <1>2 DEF listVars, PointerInv, LinkInv, CellInv
  <2>3. CallInv'
    BY <1>2 DEF listVars, PointerInv, CallInv, Passed, Walking
  <2> QED BY <2>1, <2>2, <2>3 DEF PointerInv
<1>3. ASSUME Create \/ Destory \/ DestoryCrashes PROVE PointerInv'
  <2>1. TailCrashes => state \in {"made", "failed"}
    BY <1>3 DEF Create, Destory, DestoryCrashes, TailCrashes, PointerInv, CallInv
  <2> QED BY <1>3, <2>1, StepMakes
<1>4. ASSUME \E op \in Calls, k \in Keys, d \in Data : Call(op, k, d) PROVE PointerInv'
  BY <1>4, StepCalls
<1> QED BY <1>1, <1>2, <1>3, <1>4 DEF ListNext

THEOREM Pointers == ListSpec => []PointerInv
  BY InitPointers, NextPointers, PTL DEF ListSpec

\* The variables of SimuList keep their types.
THEOREM ListTypeCorrect == ListSpec => []ListTypeOK
<1>1. PointerInv => ListTypeOK
  BY DEF PointerInv
<1> QED BY <1>1, Pointers, PTL

\* No call follows a pointer to freed memory, and between two calls every
\* allocated cell is the head or can be reached from it
\* (SimuList.c, SimuList_Add and SimuList_Del).
THEOREM HeapIsSound == ListSpec => []HeapIsLinked
<1>1. ASSUME PointerInv PROVE HeapIsLinked
  <2> SUFFICES ASSUME state = "made" PROVE
          /\ {pHead, p1, p2, pNewNode} \subseteq heap \cup {Null}
          /\ \A n \in heap : pNext[n] \in heap \cup {Null}
          /\ pc = "idle" => \A n \in heap \ {pHead} : \E m \in heap : pNext[m] = n
    BY DEF HeapIsLinked
  <2>1. /\ \A i \in 1 .. Len(order) : order[i] \in heap
        /\ \A n \in heap : (\E i \in 1 .. Len(order) : n = order[i])
                            \/ (pc = "tail" /\ n = pNewNode)
        /\ pc = "tail" => pNewNode \in heap
    BY <1>1 DEF PointerInv, CellInv
  <2>2. Len(order) \in Nat /\ Len(order) > 0 /\ pHead = order[1]
    BY <1>1 DEF PointerInv, LinkInv, ListTypeOK
  <2>3. \A i \in 1 .. Len(order) : pNext[order[i]] \in heap \cup {Null}
    <3> SUFFICES ASSUME NEW i \in 1 .. Len(order) PROVE pNext[order[i]] \in heap \cup {Null}
      OBVIOUS
    <3>1. CASE i < Len(order)
      <4>1. i + 1 \in 1 .. Len(order)
        BY <2>2, <3>1
      <4> QED BY <1>1, <2>1, <3>1, <4>1 DEF PointerInv, LinkInv
    <3>2. CASE i = Len(order)
      BY <1>1, <2>2, <3>2 DEF PointerInv, LinkInv
    <3> QED BY <2>2, <3>1, <3>2
  <2>4. \A n \in heap : pNext[n] \in heap \cup {Null}
    BY <1>1, <2>1, <2>3 DEF PointerInv, CallInv
  <2>5. {p1, p2, pNewNode} \subseteq heap \cup {Null}
    <3>1. CASE Walking
      BY <1>1, <2>1, <2>3, <3>1 DEF PointerInv, CallInv, Walking
    <3>2. CASE pc = "tail"
      BY <1>1, <2>1, <3>2 DEF PointerInv, CallInv
    <3>3. CASE ~ Walking /\ pc # "tail"
      BY <1>1, <3>3 DEF PointerInv, CallInv, Walking
    <3> QED BY <3>1, <3>2, <3>3
  <2>6. ASSUME pc = "idle", NEW n \in heap \ {pHead} PROVE \E m \in heap : pNext[m] = n
    <3>1. PICK i \in 1 .. Len(order) : n = order[i]
      BY <2>1, <2>6
    <3>2. i - 1 \in 1 .. Len(order) /\ i - 1 < Len(order) /\ (i - 1) + 1 = i
      BY <2>2, <2>6, <3>1
    <3>3. pNext[order[i - 1]] = n
      BY <1>1, <3>1, <3>2 DEF PointerInv, LinkInv
    <3> QED BY <2>1, <3>2, <3>3
  <2>7. pHead \in heap
    BY <2>1, <2>2
  <2> QED BY <2>4, <2>5, <2>6, <2>7
<1> QED BY <1>1, Pointers, PTL

-----------------------------------------------------------------------------
\* SimuList implements KeyTable.

\* What the table has for the key of the call
LEMMA FoundIs ==
    ASSUME PointerInv, NEW i \in 2 .. Len(order), nKey[order[i]] = key
    PROVE  Keyed!At(key) = {[key |-> key, data |-> pData[order[i]]]}
<1>1. \A j \in 2 .. Len(order) : nKey[order[j]] = key => j = i
  BY DEF PointerInv, LinkInv
<1>2. \A j \in 2 .. Len(order) :
          [key |-> nKey[order[j]], data |-> pData[order[j]]].key = nKey[order[j]]
  OBVIOUS
<1> QED BY <1>1, <1>2 DEF Keyed!At, Entries

LEMMA AbsentIs ==
    ASSUME Passed(Len(order))
    PROVE  Keyed!At(key) = {}
<1>1. \A j \in 2 .. Len(order) :
          [key |-> nKey[order[j]], data |-> pData[order[j]]].key # key
  BY DEF Passed
<1> QED BY <1>1 DEF Keyed!At, Entries

LEMMA InitKeyed == ListInit => Keyed!Init
<1> SUFFICES ASSUME ListInit PROVE Keyed!Init
  OBVIOUS
<1>1. 2 .. Len(order) = {}
  BY DEF ListInit
<1>2. Entries = {}
  BY <1>1 DEF Entries
<1> QED BY <1>2 DEF ListInit, Keyed!Init

LEMMA LinkAdds ==
    ASSUME PointerInv, state \in {"made", "failed"}, Link
    PROVE  Keyed!Next
<1>1. /\ state = "made" /\ order' = Append(order, pNewNode) /\ Passed(Len(order))
      /\ nKey[pNewNode] = key /\ pData[pNewNode] = data
  BY StepLink
<1>2. order \in Seq(Cells) /\ Len(order) \in Nat /\ Len(order) > 0
  BY <1>1 DEF PointerInv, ListTypeOK, LinkInv
<1>3. /\ Len(order') = Len(order) + 1 /\ order'[Len(order) + 1] = pNewNode
      /\ \A i \in 1 .. Len(order) : order'[i] = order[i]
  BY <1>1, <1>2 DEF PointerInv, CallInv, Link
<1>4. UNCHANGED <<nKey, pData, state>> /\ nCount' = nCount + 1 /\ ret' = {[key |-> key, is |-> "done"]}
  BY DEF Link, Returns
<1>5. Entries' = Entries \cup {[key |-> key, data |-> data]}
  <2>1. \A i \in 2 .. Len(order) : i \in 1 .. Len(order) /\ i \in 2 .. Len(order')
    BY <1>2, <1>3
  <2>2. \A i \in 2 .. Len(order') : i \in 2 .. Len(order) \/ i = Len(order) + 1
    BY <1>2, <1>3
  <2>3. Len(order) + 1 \in 2 .. Len(order')
    BY <1>2, <1>3
  <2>4. \A e : e \in Entries' <=> e \in Entries \/ e = [key |-> key, data |-> data]
    BY <1>1, <1>3, <1>4, <2>1, <2>2, <2>3 DEF Entries
  <2> QED BY <2>4
<1>6. key \in Keys /\ data \in Data /\ ret = {} /\ Keyed!At(key) = {}
  BY <1>1, AbsentIs DEF PointerInv, CallInv, Link
<1>7. Keyed!Add(key, data)
  BY <1>1, <1>4, <1>5, <1>6 DEF Keyed!Add, Keyed!Ready
<1> QED BY <1>6, <1>7 DEF Keyed!Next

LEMMA UnlinkDeletes ==
    ASSUME PointerInv, state \in {"made", "failed"}, Unlink
    PROVE  Keyed!Next
<1>1. PICK n \in 2 .. Len(order) : p1 = order[n] /\ p2 = order[n - 1] /\ nKey[order[n]] = key
  BY HitIs DEF Unlink
<1>2. /\ UNCHANGED <<nKey, pData>> /\ Len(order') + 1 = Len(order)
      /\ \A i \in 1 .. Len(order) - 1 : order'[i] = IF i < n THEN order[i] ELSE order[i + 1]
  BY <1>1, StepUnlink
<1>3. UNCHANGED state /\ nCount' = nCount - 1 /\ ret' = {[key |-> key, is |-> "done"]}
  BY DEF Unlink, Returns
<1>4. Len(order) \in Nat /\ Len(order') = Len(order) - 1
  <2>1. order \in Seq(Cells) /\ order' \in Seq(Cells)
    BY <1>1, StepUnlink DEF PointerInv, ListTypeOK
  <2> QED BY <1>2, <2>1
<1> DEFINE Entry(c) == [key |-> nKey[c], data |-> pData[c]]
<1>5. Entries = {Entry(order[i]) : i \in 2 .. Len(order)}
      /\ Entries' = {Entry(order'[i]) : i \in 2 .. Len(order')}
  BY <1>2 DEF Entries
<1>6. \A i \in 2 .. Len(order') : \E j \in 2 .. Len(order) : j # n /\ order'[i] = order[j]
  <2> SUFFICES ASSUME NEW i \in 2 .. Len(order')
               PROVE  \E j \in 2 .. Len(order) : j # n /\ order'[i] = order[j]
    OBVIOUS
  <2>1. i \in 1 .. Len(order) - 1 /\ i \in 2 .. Len(order) /\ i + 1 \in 2 .. Len(order)
    BY <1>4
  <2>2. CASE i < n
    BY <1>2, <2>1, <2>2
  <2>3. CASE ~ i < n
    BY <1>2, <2>1, <2>3
  <2> QED BY <2>2, <2>3
<1>7. \A j \in 2 .. Len(order) : j # n => \E i \in 2 .. Len(order') : order[j] = order'[i]
  <2> SUFFICES ASSUME NEW j \in 2 .. Len(order), j # n
               PROVE  \E i \in 2 .. Len(order') : order[j] = order'[i]
    OBVIOUS
  <2>1. CASE j < n
    <3>1. j \in 1 .. Len(order) - 1 /\ j \in 2 .. Len(order')
      BY <1>4, <2>1
    <3> QED BY <1>2, <2>1, <3>1
  <2>2. CASE j > n
    <3>1. j - 1 \in 1 .. Len(order) - 1 /\ j - 1 \in 2 .. Len(order') /\ ~ j - 1 < n
          /\ (j - 1) + 1 = j
      BY <1>4, <2>2
    <3> QED BY <1>2, <3>1
  <2> QED BY <2>1, <2>2
<1>8. \A j \in 2 .. Len(order) : Entry(order[j]) = Entry(order[n]) => j = n
  BY DEF PointerInv, LinkInv
<1>9. Entry(order[n]) \in Entries /\ Entries' = Entries \ {Entry(order[n])}
  <2> HIDE DEF Entry
  <2>1. \A e : e \in Entries' => e \in Entries /\ e # Entry(order[n])
    BY <1>5, <1>6, <1>8, SMTT(30)
  <2>2. \A e : e \in Entries /\ e # Entry(order[n]) => e \in Entries'
    BY <1>5, <1>7, SMTT(30)
  <2>3. Entry(order[n]) \in Entries
    BY <1>5
  <2> QED BY <2>1, <2>2, <2>3
<1>10. state = "made" /\ ret = {} /\ key \in Keys
  BY HitIs DEF Unlink, PointerInv, CallInv
<1>11. Keyed!At(key) = {Entry(order[n])}
  BY <1>1, FoundIs
<1>12. Keyed!Del(key)
  BY <1>3, <1>9, <1>10, <1>11 DEF Keyed!Del, Keyed!Ready
<1> QED BY <1>10, <1>12 DEF Keyed!Next

LEMMA StepKeyed == PointerInv /\ [ListNext]_listVars => [Keyed!Next]_Keyed!vars
<1> SUFFICES ASSUME PointerInv, [ListNext]_listVars PROVE Keyed!Next \/ UNCHANGED Keyed!vars
  BY DEF Keyed!vars
<1>1. ASSUME UNCHANGED <<order, nKey, pData>> PROVE Entries' = Entries
  BY <1>1 DEF Entries
<1>2. CASE Create
  <2>1. Len(order) = 0 /\ nCount = 0 /\ state = "new" /\ UNCHANGED <<nCount, ret>>
        /\ state' \in {"made", "failed"}
    BY <1>2 DEF Create, PointerInv, LinkInv
  <2>2. Len(order') \in {0, 1}
    BY <1>2, <2>1 DEF Create
  <2>3. 2 .. Len(order) = {} /\ 2 .. Len(order') = {}
    <3>1. 2 .. 0 = {} /\ 2 .. 1 = {}
      OBVIOUS
    <3> QED BY <2>1, <2>2, <3>1
  <2>4. Entries = {} /\ Entries' = {}
    BY <2>3 DEF Entries
  <2> QED BY <2>1, <2>4 DEF Keyed!Next, Keyed!Make
<1>3. CASE Destory
  <2>1. 2 .. Len(order') = {}
    BY <1>3 DEF Destory
  <2>2. Entries' = {}
    BY <2>1 DEF Entries
  <2> QED BY <1>3, <2>2 DEF Destory, Keyed!Next, Keyed!Drop
<1>4. ASSUME DestoryCrashes \/ (state \in {"made", "failed"} /\ TailCrashes) PROVE Keyed!Next
  <2>1. state = "failed" /\ state' = "crashed" /\ UNCHANGED <<nCount, ret, order, nKey, pData>>
    BY <1>4, StepMakes DEF DestoryCrashes, TailCrashes, fields
  <2> QED BY <1>1, <2>1 DEF Keyed!Next, Keyed!Crash
<1>5. ASSUME NEW op \in Calls, NEW k \in Keys, NEW d \in Data, Call(op, k, d) PROVE Keyed!Next
  BY <1>1, <1>5 DEF Call, list, fields, Keyed!Next, Keyed!Ask
<1>6. ASSUME state \in {"made", "failed"}, StartWalk \/ Walk \/ WalkTail
      PROVE  UNCHANGED Keyed!vars
  BY <1>1, <1>6 DEF StartWalk, Walk, WalkTail, list, fields, Keyed!vars
<1>7. ASSUME state \in {"made", "failed"}, Malloc PROVE UNCHANGED Keyed!vars
  <2>1. PICK n \in Cells \ heap :
           nKey' = [nKey EXCEPT ![n] = key] /\ pData' = [pData EXCEPT ![n] = data]
    BY <1>7 DEF Malloc
  <2>2. UNCHANGED <<nCount, state, ret, order>> /\ pc # "tail"
    BY <1>7 DEF Malloc, list, Absent
  <2>3. \A i \in 2 .. Len(order) : order[i] \in Cells /\ order[i] # n
    BY <1>7, <2>1, <2>2 DEF PointerInv, ListTypeOK, CellInv
  <2>4. \A i \in 2 .. Len(order) : nKey'[order[i]] = nKey[order[i]] /\ pData'[order[i]] = pData[order[i]]
    BY <2>1, <2>3 DEF PointerInv, ListTypeOK
  <2>5. Entries' = Entries
    BY <2>2, <2>4 DEF Entries
  <2> QED BY <2>2, <2>5 DEF Keyed!vars
<1>8. ASSUME state \in {"made", "failed"}, GetReturns \/ AddPresent \/ MallocFails \/ DelAbsent
      PROVE  Keyed!Next
  <2>1. UNCHANGED <<Entries, nCount, state>>
    BY <1>1, <1>8, StepCalls DEF list, fields
  <2>2. CASE Hit /\ (GetReturns \/ AddPresent)
    <3>1. PICK i \in 2 .. Len(order) : p1 = order[i] /\ nKey[order[i]] = key
      BY <2>2, HitIs
    <3>2. Keyed!At(key) = {[key |-> key, data |-> pData[p1]]} /\ ret = {} /\ key \in Keys
      BY <2>2, <3>1, FoundIs, HitIs DEF PointerInv, CallInv, Hit, Walking
    <3>3. ret' = {[key |-> key, is |-> pData[p1]]} \/ ret' = {[key |-> key, is |-> "present"]}
      BY <2>2 DEF GetReturns, AddPresent, Returns, Hit, Miss, Walking
    <3>4. CASE ret' = {[key |-> key, is |-> pData[p1]]}
      <4>1. [key |-> key, data |-> pData[p1]] \in Keyed!At(key)
            /\ [key |-> key, data |-> pData[p1]].data = pData[p1]
        BY <3>2
      <4> QED BY <1>8, <2>1, <3>2, <3>4, <4>1 DEF Keyed!Get, Keyed!Ready, Keyed!Next
    <3>5. CASE ret' = {[key |-> key, is |-> "present"]}
      BY <1>8, <2>1, <3>2, <3>5 DEF Keyed!AddFails, Keyed!Ready, Keyed!Next
    <3> QED BY <3>3, <3>4, <3>5
  <2>3. CASE Miss \/ (pc \in Calls /\ nCount = 0)
    <3>1. Keyed!At(key) = {} /\ ret = {} /\ key \in Keys
      BY <1>8, <2>3, MissIs, AbsentIs
    <3>2. ~ Hit
      BY <2>3 DEF Hit, Miss, Walking, Calls
    <3>3. \/ ret' = {[key |-> key, is |-> "absent"]}
          \/ ret' = {[key |-> key, is |-> "no memory"]}
      BY <1>8, <3>2 DEF GetReturns, AddPresent, MallocFails, DelAbsent, Returns
    <3>4. Keyed!Get(key) \/ Keyed!AddFails(key) \/ Keyed!DelFails(key)
      BY <1>8, <2>1, <3>1, <3>3 DEF Keyed!Get, Keyed!AddFails, Keyed!DelFails, Keyed!Ready
    <3> QED BY <3>1, <3>4 DEF Keyed!Next
  <2>4. (Hit /\ (GetReturns \/ AddPresent)) \/ Miss \/ (pc \in Calls /\ nCount = 0)
    <3>1. pc \in {"get", "add", "del"} => pc \in Calls
      BY DEF Calls
    <3> QED BY <1>8, <3>1 DEF GetReturns, AddPresent, MallocFails, DelAbsent, Absent
  <2> QED BY <2>2, <2>3, <2>4
<1>9. CASE UNCHANGED listVars
  BY <1>1, <1>9 DEF listVars, Keyed!vars
<1> QED
  BY <1>2, <1>3, <1>4, <1>5, <1>6, <1>7, <1>8, <1>9, LinkAdds, UnlinkDeletes
  DEF ListNext, Step

\* Under the lock the list is a table with one entry for a key at most: nodes, their
\* order and the memory they come from are not seen (SimuList.c).
THEOREM ListIsATable == ListSpec => ImplementsKeyTable
  BY InitKeyed, StepKeyed, Pointers, PTL DEF ListSpec, ImplementsKeyTable, Keyed!Spec
=============================================================================
