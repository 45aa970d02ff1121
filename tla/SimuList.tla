------------------------------ MODULE SimuList ------------------------------
(***************************************************************************)
(* The linked list of src/agent/SimuList.c with its pointers: a dummy head *)
(* and nodes that are allocated, linked at the end, found by walking from  *)
(* the head, unlinked and freed.  Memory keeps what was in it when it is   *)
(* freed and allocated again.                                              *)
(*                                                                         *)
(* sernet.c calls the list with the lock held, so one call runs at a time; *)
(* each pass of a loop is a step.  Entries are added with nIgnoreKey = 0,  *)
(* and nothing is to be freed with a node (pFreeFun is NULL).              *)
(***************************************************************************)
EXTENDS Naturals, Sequences

CONSTANTS
    Memory,  \* how many nodes malloc has room for
    Keys,    \* descriptors
    Data     \* what is stored under them

\* Addresses
Cells == 1 .. Memory
Null == 0

VARIABLES
    pHead, nCount,       \* SimuList_t
    nKey, pData, pNext,  \* the fields of all cells
    heap,                \* the cells that are allocated
    state,               \* of the list: "new", "made", "failed", "dropped", "crashed"
    pc,                  \* where the current call is
    key, data,           \* its arguments
    p1, p2,              \* its pointers: pNode or p1, and p2
    pNewNode,
    ret,                 \* key and result of the last call; none while one runs
    order                \* history: the head and the nodes in the order of their links

list == <<pHead, nCount, state>>
fields == <<nKey, pData, pNext>>
locals == <<key, data, p1, p2, pNewNode>>
listVars == <<pHead, nCount, nKey, pData, pNext, heap, state, pc, key, data, p1, p2,
              pNewNode, ret, order>>

\* The sequence s without its element n
Without(s, n) ==
    [j \in 1 .. Len(s) - 1 |-> IF \E i \in 1 .. j : s[i] = n THEN s[j + 1] ELSE s[j]]

Calls == {"get", "add", "del"}

ListInit ==
    /\ pHead = Null /\ nCount = 0
    /\ nKey = [c \in Cells |-> 0]
    /\ pData = [c \in Cells |-> Null]
    /\ pNext = [c \in Cells |-> Null]
    /\ heap = {}
    /\ state = "new" /\ pc = "idle"
    /\ key = Null /\ data = Null /\ p1 = Null /\ p2 = Null /\ pNewNode = Null
    /\ ret = {}
    /\ order = <<>>

\* The call is over, with result r; its locals die.
Returns(r) ==
    /\ pc' = "idle"
    /\ ret' = {[key |-> key, is |-> r]}
    /\ key' = Null /\ data' = Null /\ p1' = Null /\ p2' = Null /\ pNewNode' = Null

-----------------------------------------------------------------------------
\* SimuList_Create: the head has the key 0, which may be a descriptor's too.
\* sernet_initialize does not look at the result.
Create ==
    /\ state = "new"
    /\ \/ \E n \in Cells :
            /\ nKey' = [nKey EXCEPT ![n] = 0]
            /\ pData' = [pData EXCEPT ![n] = Null]
            /\ pNext' = [pNext EXCEPT ![n] = Null]
            /\ pHead' = n /\ heap' = {n} /\ order' = <<n>>
            /\ state' = "made"
       \/ state' = "failed" /\ UNCHANGED <<pHead, heap, fields, order>>
    /\ UNCHANGED <<nCount, pc, locals, ret>>

\* A call starts.
Call(op, k, d) ==
    /\ state \in {"made", "failed"} /\ pc = "idle"
    /\ pc' = op
    /\ key' = k /\ data' = d /\ ret' = {}
    /\ UNCHANGED <<list, fields, heap, p1, p2, pNewNode, order>>

\* SimuList_Get, called by sernet.c or by SimuList_Add, and the loop of SimuList_Del,
\* which remembers the node before.  An empty list is not looked at.
StartWalk ==
    /\ pc \in Calls /\ nCount > 0
    /\ pc' = [get |-> "find", add |-> "probe", del |-> "seek"][pc]
    /\ p1' = pNext[pHead] /\ p2' = pHead
    /\ UNCHANGED <<list, fields, heap, key, data, pNewNode, ret, order>>

Walking == pc \in {"find", "probe", "seek"}

Walk ==
    /\ Walking /\ p1 # Null /\ nKey[p1] # key
    /\ p2' = p1 /\ p1' = pNext[p1]
    /\ UNCHANGED <<list, fields, heap, pc, key, data, pNewNode, ret, order>>

Hit == Walking /\ p1 # Null /\ nKey[p1] = key
Miss == Walking /\ p1 = Null

\* The caller uses node->pData while it holds the lock.
GetReturns ==
    /\ \/ pc = "find" /\ Hit /\ Returns(pData[p1])
       \/ pc = "find" /\ Miss /\ Returns("absent")
       \/ pc = "get" /\ nCount = 0 /\ Returns("absent")
    /\ UNCHANGED <<list, fields, heap, order>>

-----------------------------------------------------------------------------
\* SimuList_Add
AddPresent ==
    /\ pc = "probe" /\ Hit /\ Returns("present")
    /\ UNCHANGED <<list, fields, heap, order>>

\* SimuList_Get found nothing.
Absent == (pc = "probe" /\ Miss) \/ (pc = "add" /\ nCount = 0)

Malloc ==
    /\ Absent
    /\ \E n \in Cells \ heap :
         /\ nKey' = [nKey EXCEPT ![n] = key]
         /\ pData' = [pData EXCEPT ![n] = data]
         /\ pNext' = [pNext EXCEPT ![n] = Null]
         /\ heap' = heap \cup {n} /\ pNewNode' = n
    /\ pc' = "tail" /\ p1' = pHead
    /\ UNCHANGED <<list, key, data, p2, ret, order>>

MallocFails ==
    /\ Absent /\ Returns("no memory")
    /\ UNCHANGED <<list, fields, heap, order>>

\* There is no head if SimuList_Create failed.
TailCrashes ==
    /\ pc = "tail" /\ p1 = Null
    /\ state' = "crashed"
    /\ UNCHANGED <<pHead, nCount, fields, heap, pc, locals, ret, order>>

WalkTail ==
    /\ pc = "tail" /\ p1 # Null /\ pNext[p1] # Null
    /\ p1' = pNext[p1]
    /\ UNCHANGED <<list, fields, heap, pc, key, data, p2, pNewNode, ret, order>>

Link ==
    /\ pc = "tail" /\ p1 # Null /\ pNext[p1] = Null
    /\ pNext' = [pNext EXCEPT ![p1] = pNewNode]
    /\ nCount' = nCount + 1
    /\ order' = Append(order, pNewNode)
    /\ Returns("done")
    /\ UNCHANGED <<pHead, state, nKey, pData, heap>>

-----------------------------------------------------------------------------
\* SimuList_Del
Unlink ==
    /\ pc = "seek" /\ Hit
    /\ pNext' = [pNext EXCEPT ![p2] = pNext[p1]]
    /\ heap' = heap \ {p1}
    /\ nCount' = nCount - 1
    /\ order' = Without(order, p1)
    /\ Returns("done")
    /\ UNCHANGED <<pHead, state, nKey, pData>>

DelAbsent ==
    /\ (pc = "seek" /\ Miss) \/ (pc = "del" /\ nCount = 0)
    /\ Returns("absent")
    /\ UNCHANGED <<list, fields, heap, order>>

\* SimuList_Destory: frees the head and the first node only.
Destory ==
    /\ state = "made" /\ pc = "idle"
    /\ heap' = heap \ {pHead, pNext[pHead]}
    /\ pHead' = Null /\ nCount' = 0 /\ order' = <<>>
    /\ state' = "dropped"
    /\ UNCHANGED <<fields, pc, locals, ret>>

DestoryCrashes ==
    /\ state = "failed" /\ pc = "idle"
    /\ state' = "crashed"
    /\ UNCHANGED <<pHead, nCount, fields, heap, pc, locals, ret, order>>

Step ==
    \/ StartWalk \/ Walk \/ GetReturns
    \/ AddPresent \/ Malloc \/ MallocFails \/ TailCrashes \/ WalkTail \/ Link
    \/ Unlink \/ DelAbsent

ListNext ==
    \/ Create \/ Destory \/ DestoryCrashes
    \/ \E op \in Calls, k \in Keys, d \in Data : Call(op, k, d)
    \/ state \in {"made", "failed"} /\ Step

ListSpec == ListInit /\ [][ListNext]_listVars

\* A call that has started goes on.
ListFairSpec == ListSpec /\ WF_listVars(state \in {"made", "failed"} /\ Step)

-----------------------------------------------------------------------------
\* Properties

ListTypeOK ==
    /\ pHead \in Cells \cup {Null} /\ nCount \in Nat
    /\ nKey \in [Cells -> Keys \cup {0}]
    /\ pData \in [Cells -> Data \cup {Null}]
    /\ pNext \in [Cells -> Cells \cup {Null}]
    /\ heap \subseteq Cells
    /\ state \in {"new", "made", "failed", "dropped", "crashed"}
    /\ pc \in {"idle", "find", "probe", "seek", "tail"} \cup Calls
    /\ key \in Keys \cup {Null} /\ data \in Data \cup {Null}
    /\ p1 \in Cells \cup {Null} /\ p2 \in Cells \cup {Null}
    /\ pNewNode \in Cells \cup {Null}
    /\ order \in Seq(Cells)

\* No pointer that a call holds, and none in an allocated node, leads to memory that
\* has been freed, and between two calls an allocated node points to each of them but
\* the head: no node is unlinked and not freed, or freed and still linked
\* (SimuList.c:77-81, 105-110).
HeapIsLinked ==
    state = "made" =>
        /\ {pHead, p1, p2, pNewNode} \subseteq heap \cup {Null}
        /\ \A n \in heap : pNext[n] \in heap \cup {Null}
        /\ pc = "idle" => \A n \in heap \ {pHead} : \E m \in heap : pNext[m] = n

\* To the thread that holds the lock the list is a table: one entry for a key, found
\* if it is there and only then, whatever was added and deleted in which order
\* (SimuList.c:26-114).
Entries ==
    {[key |-> nKey[order[i]], data |-> pData[order[i]]] : i \in 2 .. Len(order)}

Keyed == INSTANCE KeyTable WITH table <- Entries, size <- nCount, answer <- ret

ImplementsKeyTable == Keyed!Spec

\* Every call ends: no order of links and frees makes a loop of the list
\* (SimuList.c:36-43, 78-80, 98-104).
CallEnds == pc # "idle" ~> pc = "idle" \/ state = "crashed"
=============================================================================
