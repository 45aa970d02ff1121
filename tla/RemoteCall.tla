----------------------------- MODULE RemoteCall -----------------------------
(***************************************************************************)
(* What a task that commands a board may rely on, with no write buffers,   *)
(* stack frames and timers: a call has one command on its way at a time    *)
(* and gets one outcome for it, an answer while the board is connected or  *)
(* a timeout; it returns after that and never before, and in time.  Only a *)
(* task whose wait was interrupted has no such promise, but it returns in  *)
(* time as well.  NetCmd is shown to implement this.                       *)
(***************************************************************************)
EXTENDS Naturals

CONSTANTS
    Tasks,
    None,
    Limit  \* ticks that a command takes at most

VARIABLES
    stage,    \* of the call of each task, "wild" once it was interrupted
    result,   \* the outcome of a command that is done
    age,      \* of the command, in ticks
    connected \* is the board there?

vars == <<stage, result, age, connected>>

Init ==
    /\ stage = [w \in Tasks |-> "idle"]
    /\ result = [w \in Tasks |-> None]
    /\ age = [w \in Tasks |-> 0]
    /\ connected = FALSE

-----------------------------------------------------------------------------
\* Time passes, up to the limit of whoever is in a call.
Tick ==
    /\ age' \in [Tasks -> 0 .. Limit]
    /\ \A w \in Tasks :
          \/ stage[w] # "idle" /\ age'[w] = age[w] + 1
          \/ stage[w] \in {"idle", "wild"} /\ age'[w] = 0
    /\ UNCHANGED <<stage, result, connected>>

Connection ==
    /\ connected' = ~ connected
    /\ UNCHANGED <<stage, result, age>>

Become(w, s, r, n) ==
    /\ stage' = [stage EXCEPT ![w] = s]
    /\ result' = [result EXCEPT ![w] = r]
    /\ age' = [age EXCEPT ![w] = n]
    /\ UNCHANGED connected

Call(w) == stage[w] = "idle" /\ Become(w, "sending", None, 0)

Refuse(w) == stage[w] = "sending" /\ Become(w, "idle", None, 0)

Send(w) == stage[w] = "sending" /\ connected /\ Become(w, "pending", None, age[w])

Answer(w, r) == stage[w] = "pending" /\ connected /\ Become(w, "done", r, age[w])

\* A round of the timer gives up any number of commands.
TimeOut(W) ==
    /\ \A w \in W : stage[w] = "pending"
    /\ stage' = [w \in Tasks |-> IF w \in W THEN "done" ELSE stage[w]]
    /\ result' = [w \in Tasks |-> IF w \in W THEN "TIMEOUT" ELSE result[w]]
    /\ UNCHANGED <<age, connected>>

\* Some calls have a second command, if the first has succeeded.
GoOn(w) == stage[w] = "done" /\ result[w] = "SUCCESS" /\ Become(w, "sending", None, 0)

Return(w) == stage[w] = "done" /\ Become(w, "idle", None, 0)

Interrupt(w) == stage[w] \in {"pending", "done"} /\ Become(w, "wild", None, age[w])

\* One that was interrupted returns, or calls again.
Wild(w) == stage[w] = "wild" /\ Become(w, "wild", None, 0)

Step(w) ==
    \/ Call(w) \/ Refuse(w) \/ Send(w)
    \/ Answer(w, "SUCCESS") \/ Answer(w, "FAIL")
    \/ GoOn(w) \/ Return(w)
    \/ Interrupt(w) \/ Wild(w)

Next ==
    \/ Tick
    \/ Connection
    \/ \E w \in Tasks : Step(w)
    \/ \E W \in SUBSET Tasks : TimeOut(W)

Spec == Init /\ [][Next]_vars

=============================================================================
