------------------------------ MODULE KeyTable ------------------------------
(***************************************************************************)
(* What SimuList.c promises to who holds the list's lock: a table with one *)
(* entry for a key at most, whose operations are single steps.  Memory,    *)
(* nodes and the order in which they are linked are gone; what is left of  *)
(* malloc is that entering something may fail, and that a table that could *)
(* not be made is only found out when something is entered.  SimuList is   *)
(* shown to implement this.                                                *)
(***************************************************************************)
EXTENDS Naturals

CONSTANTS Keys, Data

VARIABLES
    state,  \* of the table: "new", "made", "failed", "dropped" or "crashed"
    table,  \* the entries
    size,   \* what SimuList_Size says
    answer  \* the operation's key and result; none while it goes on

vars == <<state, table, size, answer>>

At(k) == {e \in table : e.key = k}

Init == state = "new" /\ table = {} /\ size = 0 /\ answer = {}

Make ==
    /\ state = "new"
    /\ state' \in {"made", "failed"}
    /\ UNCHANGED <<table, size, answer>>

\* The next operation starts.
Ask ==
    /\ answer' = {}
    /\ UNCHANGED <<state, table, size>>

Ready == answer = {} /\ state \in {"made", "failed"}

Get(k) ==
    /\ Ready
    /\ \/ At(k) = {} /\ answer' = {[key |-> k, is |-> "absent"]}
       \/ \E e \in At(k) : answer' = {[key |-> k, is |-> e.data]}
    /\ UNCHANGED <<state, table, size>>

Add(k, d) ==
    /\ Ready /\ state = "made" /\ At(k) = {}
    /\ table' = table \cup {[key |-> k, data |-> d]}
    /\ size' = size + 1
    /\ answer' = {[key |-> k, is |-> "done"]}
    /\ UNCHANGED state

AddFails(k) ==
    /\ Ready
    /\ \/ At(k) # {} /\ answer' = {[key |-> k, is |-> "present"]}
       \/ At(k) = {} /\ answer' = {[key |-> k, is |-> "no memory"]}
    /\ UNCHANGED <<state, table, size>>

Del(k) ==
    /\ Ready
    /\ \E e \in At(k) : table' = table \ {e}
    /\ size' = size - 1
    /\ answer' = {[key |-> k, is |-> "done"]}
    /\ UNCHANGED state

DelFails(k) ==
    /\ Ready /\ At(k) = {}
    /\ answer' = {[key |-> k, is |-> "absent"]}
    /\ UNCHANGED <<state, table, size>>

Drop ==
    /\ state = "made"
    /\ state' = "dropped" /\ table' = {} /\ size' = 0
    /\ UNCHANGED answer

\* Entering something into a table that could not be made, or dropping it.
Crash ==
    /\ state = "failed"
    /\ state' = "crashed"
    /\ UNCHANGED <<table, size, answer>>

Next ==
    \/ Make \/ Ask \/ Drop \/ Crash
    \/ \E k \in Keys : Get(k) \/ AddFails(k) \/ Del(k) \/ DelFails(k)
    \/ \E k \in Keys, d \in Data : Add(k, d)

Spec == Init /\ [][Next]_vars
=============================================================================
