-------------------------------- MODULE Task --------------------------------
(***************************************************************************)
(* The tasks of a cluster: l0003-0/task.c, and the loop of cmdagent.c's    *)
(* main that waits for them to quit before it releases the cluster.        *)
(*                                                                         *)
(* A task is a thread that runs the handler of its state until its state   *)
(* is ABORT.  Handlers and other threads change the state with chgstat,    *)
(* under one lock for the whole cluster; everybody reads it without the    *)
(* lock.  A handler may sleep in wait until some thread calls wakeup.      *)
(* task_stop aborts a task, joins its thread and marks it QUIT.            *)
(*                                                                         *)
(* What a handler does is left open: any sequence of chgstat, wait and     *)
(* wakeupclear calls.  A task is started once and stopped at most once, by *)
(* one thread.  Heartbeats, priorities and the console are left out.       *)
(***************************************************************************)
EXTENDS Naturals

CONSTANTS
    TasksNum,  \* tcluster->tasks_num
    Unlocked   \* nobody holds stm_rwlock

Tasks == 0 .. TasksNum - 1

VARIABLES
    flags,     \* task->flags & TASK_MASK
    early,     \* task->wakeup_early
    pc,        \* where the thread of the task is
    want,      \* the state it passes to chgstat
    lock,      \* the holder of stm_rwlock and whether it is going to write
    stop,      \* where the thread in task_stop is
    late,      \* history: handlers entered after ABORT was written, up to 2
    poll,      \* how many tasks main has found QUIT in this round
    released   \* main has released the cluster

task_vars == <<flags, early, pc, want, lock, stop, late, poll, released>>

Held == [task : Tasks, by : {"worker", "stopper"}, write : BOOLEAN]

ASSUME TaskAssumption == TasksNum \in Nat \ {0} /\ Unlocked \notin Held

HeldBy(t, who) == lock # Unlocked /\ lock.task = t /\ lock.by = who

Started == \A t \in Tasks : pc[t] # "none"

-----------------------------------------------------------------------------
\* task_instantiate and task_initialize
TaskInit ==
    /\ flags = [t \in Tasks |-> "IDLE"]
    /\ early = [t \in Tasks |-> FALSE]
    /\ pc = [t \in Tasks |-> "none"]
    /\ want = [t \in Tasks |-> "PREP"]
    /\ lock = Unlocked
    /\ stop = [t \in Tasks |-> "none"]
    /\ late = [t \in Tasks |-> 0]
    /\ poll = 0
    /\ released = FALSE

\* task_start, called by main: the thread begins with chgstat(TASK_PREP).
Start(t) ==
    /\ pc[t] = "none"
    /\ \A u \in Tasks : u < t => pc[u] # "none"
    /\ pc' = [pc EXCEPT ![t] = "start"]
    /\ UNCHANGED <<flags, early, want, lock, stop, late, poll, released>>

-----------------------------------------------------------------------------
\* task_changestate: the lock is taken and the state looked at, then the new
\* state is written, or not, and the lock given back.

\* Mutants: whoever comes last wins; nothing follows ABORT.
MayWriteAlways(t, new) == TRUE

MayWriteNotQuit(t, new) == flags[t] # "ABORT"

MayWrite(t, new) == flags[t] # "ABORT" \/ new = "QUIT"

Acquire(t, who, new) ==
    /\ lock = Unlocked
    /\ lock' = [task |-> t, by |-> who, write |-> MayWrite(t, new)]

WriteFlags(t, who, new) ==
    /\ HeldBy(t, who)
    /\ flags' = IF lock.write THEN [flags EXCEPT ![t] = new] ELSE flags
    /\ lock' = Unlocked

WorkerLock(t) ==
    /\ pc[t] \in {"start", "change"}
    /\ Acquire(t, "worker", want[t])
    /\ UNCHANGED <<flags, early, pc, want, stop, late, poll, released>>

WorkerWrite(t) ==
    /\ WriteFlags(t, "worker", want[t])
    /\ pc' = [pc EXCEPT ![t] = IF @ = "start" THEN "check" ELSE "handler"]
    /\ UNCHANGED <<early, want, stop, late, poll, released>>

-----------------------------------------------------------------------------
\* task_process: the loop tests the state, then reads it a second time.

Check(t) ==
    /\ pc[t] = "check"
    /\ pc' = [pc EXCEPT ![t] = IF flags[t] = "ABORT" THEN "exited" ELSE "fetch"]
    /\ UNCHANGED <<flags, early, want, lock, stop, late, poll, released>>

Fetch(t) ==
    /\ pc[t] = "fetch"
    /\ pc' = [pc EXCEPT ![t] = "handler"]
    /\ late' = IF stop[t] \in {"join", "quit", "done"} /\ late[t] < 2
               THEN [late EXCEPT ![t] = @ + 1]
               ELSE late
    /\ UNCHANGED <<flags, early, want, lock, stop, poll, released>>

\* What a handler may do

HandlerChange(t, new) ==
    /\ pc[t] = "handler"
    /\ pc' = [pc EXCEPT ![t] = "change"]
    /\ want' = [want EXCEPT ![t] = new]
    /\ UNCHANGED <<flags, early, lock, stop, late, poll, released>>

HandlerWait(t) ==
    /\ pc[t] = "handler"
    /\ pc' = [pc EXCEPT ![t] = "wait"]
    /\ UNCHANGED <<flags, early, want, lock, stop, late, poll, released>>

WakeupClear(t) ==
    /\ pc[t] = "handler"
    /\ early' = [early EXCEPT ![t] = FALSE]
    /\ UNCHANGED <<flags, pc, want, lock, stop, late, poll, released>>

HandlerReturn(t) ==
    /\ pc[t] = "handler"
    /\ pc' = [pc EXCEPT ![t] = "check"]
    /\ UNCHANGED <<flags, early, want, lock, stop, late, poll, released>>

-----------------------------------------------------------------------------
\* task_wait: the task's mutex is held except while it sleeps, so each of
\* these is one step.

Leave(t) ==
    /\ pc' = [pc EXCEPT ![t] = "handler"]
    /\ early' = [early EXCEPT ![t] = FALSE]

\* Mutant: wakeup_early is not looked at, as in TASK_WAIT_COND.
WaitCheckNotEarly(t) ==
    /\ pc[t] = "wait"
    /\ IF flags[t] # "ABORT"
       THEN pc' = [pc EXCEPT ![t] = "asleep"] /\ early' = early
       ELSE Leave(t)
    /\ UNCHANGED <<flags, want, lock, stop, late, poll, released>>

\* The condition of the loop, on entry and after each second
WaitCheck(t) ==
    /\ pc[t] = "wait"
    /\ IF flags[t] # "ABORT" /\ ~ early[t]
       THEN pc' = [pc EXCEPT ![t] = "asleep"] /\ early' = early
       ELSE Leave(t)
    /\ UNCHANGED <<flags, want, lock, stop, late, poll, released>>

WaitTimesOut(t) ==
    /\ pc[t] = "asleep"
    /\ pc' = [pc EXCEPT ![t] = "wait"]
    /\ UNCHANGED <<flags, early, want, lock, stop, late, poll, released>>

\* pthread_cond_timedwait returns 0, for a broadcast or for no reason.
WaitSpurious(t) ==
    /\ pc[t] = "asleep"
    /\ pc' = [pc EXCEPT ![t] = "signalled"]
    /\ UNCHANGED <<flags, early, want, lock, stop, late, poll, released>>

WaitReturns(t) ==
    /\ pc[t] = "signalled"
    /\ Leave(t)
    /\ UNCHANGED <<flags, want, lock, stop, late, poll, released>>

\* task_wakeup, from any thread
Wakeup(t) ==
    /\ ~ released
    /\ early' = [early EXCEPT ![t] = TRUE]
    /\ pc' = [pc EXCEPT ![t] = IF @ = "asleep" THEN "signalled" ELSE @]
    /\ UNCHANGED <<flags, want, lock, stop, late, poll, released>>

-----------------------------------------------------------------------------
\* task_stop: chgstat(TASK_ABORT), pthread_join, chgstat(TASK_QUIT)

StopCall(t) ==
    /\ pc[t] # "none" /\ stop[t] = "none"
    /\ stop' = [stop EXCEPT ![t] = "abort"]
    /\ UNCHANGED <<flags, early, pc, want, lock, late, poll, released>>

StopState(t) == IF stop[t] = "abort" THEN "ABORT" ELSE "QUIT"

StopLock(t) ==
    /\ stop[t] \in {"abort", "quit"}
    /\ Acquire(t, "stopper", StopState(t))
    /\ UNCHANGED <<flags, early, pc, want, stop, late, poll, released>>

\* Mutant: the join comes after the state is QUIT.
StopWriteBeforeJoin(t) ==
    /\ HeldBy(t, "stopper")
    /\ flags' = [flags EXCEPT ![t] = StopState(t)]
    /\ lock' = Unlocked
    /\ stop' = [stop EXCEPT ![t] = IF @ = "abort" THEN "quit" ELSE "done"]
    /\ UNCHANGED <<early, pc, want, late, poll, released>>

StopWrite(t) ==
    /\ WriteFlags(t, "stopper", StopState(t))
    /\ stop' = [stop EXCEPT ![t] = IF @ = "abort" THEN "join" ELSE "done"]
    /\ UNCHANGED <<early, pc, want, late, poll, released>>

StopJoin(t) ==
    /\ stop[t] = "join" /\ pc[t] = "exited"
    /\ stop' = [stop EXCEPT ![t] = "quit"]
    /\ UNCHANGED <<flags, early, pc, want, lock, late, poll, released>>

-----------------------------------------------------------------------------
\* main, once every task is started

Poll ==
    /\ Started /\ poll < TasksNum
    /\ poll' = IF flags[poll] = "QUIT" THEN poll + 1 ELSE 0
    /\ UNCHANGED <<flags, early, pc, want, lock, stop, late, released>>

Release ==
    /\ Started /\ poll = TasksNum /\ ~ released
    /\ released' = TRUE
    /\ UNCHANGED <<flags, early, pc, want, lock, stop, late, poll>>

Exited == released /\ UNCHANGED task_vars

-----------------------------------------------------------------------------
Worker(t) ==
    \/ WorkerWrite(t) \/ Check(t) \/ Fetch(t)
    \/ WaitCheck(t) \/ WaitTimesOut(t) \/ WaitReturns(t)

Handler(t) ==
    \/ \E new \in {"PREP", "RUNNING"} : HandlerChange(t, new)
    \/ HandlerWait(t) \/ WakeupClear(t) \/ HandlerReturn(t)

Stopper(t) == StopWrite(t) \/ StopJoin(t)

TaskNext ==
    \/ \E t \in Tasks :
          \/ Start(t) \/ WorkerLock(t) \/ Worker(t) \/ Handler(t)
          \/ WaitSpurious(t) \/ Wakeup(t)
          \/ StopCall(t) \/ StopLock(t) \/ Stopper(t)
    \/ Poll
    \/ Release
    \/ Exited

TaskSpec == TaskInit /\ [][TaskNext]_task_vars

\* Threads run, time passes, and the lock is not withheld for ever from one who
\* asks for it.  Nothing is assumed of what a handler does: it may stay for ever.
TaskFairness ==
    /\ \A t \in Tasks :
          /\ WF_task_vars(Start(t))
          /\ WF_task_vars(Worker(t))
          /\ WF_task_vars(Stopper(t))
          /\ SF_task_vars(WorkerLock(t))
          /\ SF_task_vars(StopLock(t))
    /\ WF_task_vars(Poll)
    /\ WF_task_vars(Release)

TaskFairSpec == TaskSpec /\ TaskFairness

-----------------------------------------------------------------------------
TaskTypeOK ==
    /\ flags \in [Tasks -> {"IDLE", "PREP", "RUNNING", "ABORT", "QUIT"}]
    /\ early \in [Tasks -> BOOLEAN]
    /\ pc \in [Tasks -> {"none", "start", "check", "fetch", "handler", "change",
                         "wait", "asleep", "signalled", "exited"}]
    /\ want \in [Tasks -> {"PREP", "RUNNING"}]
    /\ lock \in {Unlocked} \cup Held
    /\ stop \in [Tasks -> {"none", "abort", "join", "quit", "done"}]
    /\ late \in [Tasks -> 0 .. 2]
    /\ poll \in 0 .. TasksNum
    /\ released \in BOOLEAN

\* However the thread of a task and the one that stops it interleave, and
\* however often a handler asks for another state, an aborted task does not
\* enter more than one handler.  It may enter one, since task_process reads
\* the state twice.
OneHandlerAfterAbort == \A t \in Tasks : late[t] <= 1

\* A task that has been woken does not go to sleep, whether wakeup came before
\* wait, in it, or between two of its seconds (task.h:96).
NoLostWakeup == \A t \in Tasks : pc[t] = "asleep" => ~ early[t]

\* When main releases the cluster, no thread of a task is left that uses it.
ReleaseAfterExit == released => \A t \in Tasks : pc[t] = "exited"

\* Although task_changestate decides and writes in two steps, under a lock
\* that readers do not take, a task's life is the one TaskLife describes: its
\* state changes as if in single steps, ABORT is never overwritten but by QUIT,
\* QUIT comes behind the end of the thread, and the release behind every QUIT
\* (task.c:21-36, 88-105, 258-268, cmdagent.c:213-233).
Alive == {t \in Tasks : pc[t] \notin {"none", "exited"}}
Life == INSTANCE TaskLife WITH state <- flags, alive <- Alive
ImplementsTaskLife == Life!Spec

\* The thread is in a handler, or in a wait or chgstat that a handler has called.
InHandler(t) == pc[t] \in {"handler", "change", "wait", "asleep", "signalled"}

\* Once every task is told to stop, main returns, unless a handler never does:
\* an ABORT reaches a thread that sleeps, waits for the lock or is about to write
\* another state, but it does not end sercom_run, which stays in
\* event_base_dispatch (task.c:21-36, 88-105, 258-268, cmdagent.c:219-229).
MainReturns ==
    (\A t \in Tasks : stop[t] # "none") ~> (released \/ \E t \in Tasks : []InHandler(t))
=============================================================================
