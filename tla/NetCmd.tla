------------------------------- MODULE NetCmd -------------------------------
(***************************************************************************)
(* Commands and acknowledgements: l0006-0/netcom.c, netcmd.c and cmdset.c, *)
(* with TASK_WAIT_COND of l0003-0/task.h.                                  *)
(*                                                                         *)
(* A task calls a function of cmdset.c, which issues a command or, if it   *)
(* switches a mode, that command and then a beep. It takes a sequence      *)
(* number, puts the command into a write buffer together with the address  *)
(* of a result on its own stack, and sleeps on its condition variable. One *)
(* thread runs the event loop of the connection: acknowledgements and a    *)
(* periodic timer find the write buffer, store the result through the      *)
(* address and wake the task. The lists of write buffers are only touched  *)
(* with the list lock held, so each of these is one step.                  *)
(*                                                                         *)
(* Sequence numbers are not kept. l0006_netcom_getseqno counts them modulo *)
(* 256; as long as fewer than 256 commands are issued while one is         *)
(* pending, a number names one used buffer at most, and an acknowledgement *)
(* is one of that buffer.                                                  *)
(*                                                                         *)
(* Time is discrete.  It passes while every task is idle or asleep, and    *)
(* never past a deadline: threads are taken to run promptly.  Of the clock *)
(* only the tick within the second is kept, and of a timestamp its age,    *)
(* which is all that differences of times depend on.  The task's flag      *)
(* wakeup_early is not here: wakeup sets it and wakeupclear resets it, but *)
(* TASK_WAIT_COND never looks at it.                                       *)
(*                                                                         *)
(* A wait may be interrupted by task_stop or by a spurious wakeup.  What   *)
(* the task is promised then is less, and the history variable cut says    *)
(* so.                                                                     *)
(*                                                                         *)
(* Out of the model: the bytes of packets and the read buffer, connect and *)
(* disconnect, and commands sent without asking for an acknowledgement     *)
(* (cmdset.c sends none).                                                  *)
(***************************************************************************)
EXTENDS Integers, SequencesExt

CONSTANTS
    Tasks,        \* tasks that issue commands
    MayCall,      \* the functions of cmdset.c that each of them calls
    Bufs,         \* write buffers, L0006_NETCOM_WRBUFFER_MAX of them
    None,
    Sec,          \* ticks in a second
    Period,       \* L0006_NETCOM_TIMEOUT_PERIOD, in seconds
    CmdTimeout,   \* L0006_NETCMD_COMMAND_TIMEOUT, in seconds
    MaxCuts       \* bound: tasks whose waits are ever interrupted

\* What the functions of cmdset.c do differently.  "command": beep,
\* setwindowsize, querymode.  "mode": setaddressmode, setnormmode and
\* recovercboard, which beep when they have succeeded.  "version":
\* hardwareversion.  "conf": save_sensorconfig and load_sensorconfig.
Functions == {"command", "mode", "version", "conf"}

ASSUME NetCmdAssumption ==
    /\ MayCall \in [Tasks -> SUBSET Functions]
    /\ IsFiniteSet(Bufs) /\ None \notin Tasks \cup Bufs
    /\ Sec \in Nat \ {0} /\ Period \in Nat \ {0} /\ CmdTimeout \in Nat
    /\ 2 * Period < CmdTimeout
    /\ MaxCuts \in Nat

VARIABLES
    now,        \* CLOCK_MONOTONIC: the tick within the current second
    timer,      \* ticks until evtimeout fires
    connected,  \* L0006_NETCOM_FLAGS_CONNECTED
    unused,     \* wrbuf_unused_list
    used,       \* wrbuf_used_list: commands that wait for their ack
    act,        \* act[b]: action and age of a used buffer, NoAct otherwise
    pc,         \* where each task is in its cmdset function
    fn,         \* the function it is in, "none" outside
    depth,      \* its stack frames: 1 in that function, 2 in the beep it calls
    outret,     \* the local retval of each of its frames
    reply,      \* the packet l0006_netcmd_general_action2 allocates for a version:
                \* "none", "held" by the local pkt, or history: "lost"
    age,        \* ticks since its local ts_start
    left,       \* ticks until its pthread_cond_timedwait times out
    aborted,    \* IS_TASK_ABORT
    acked,      \* history: its frames whose command has been acknowledged
    cut         \* history: a wait of the task has been interrupted

lists == <<unused, used, act>>
clock == <<now, timer>>
waits == <<age, left>>
frames == <<fn, depth, outret, reply>>
task == <<pc, frames, waits, acked, cut>>
vars == <<clock, connected, lists, task, aborted>>

\* frame: the stack frame of the result, 0 if it no longer exists.
Action == [who : Tasks, frame : 0 .. 2, fn : Functions, age : Nat]
NoAct == [who |-> None]

Results == {"SUCCESS", "FAIL", "TIMEOUT", "UNSET"}

-----------------------------------------------------------------------------
\* Time

\* l0001_second_elapsed: full seconds.
SecondElapsed(n) == n \div Sec

\* l0001_timespecelapsed(...) > L0006_NETCOM_TIMEOUT_PERIOD_MS for a time n
\* ticks ago.  The difference of the tv_nsec is divided as an unsigned number:
\* whenever it is negative the result is huge.
Expired(n) == now < (now - n) % Sec \/ n > Period * Sec

-----------------------------------------------------------------------------
Init ==
    /\ now = 0
    /\ timer \in 1 .. Period * Sec
    /\ connected = FALSE
    /\ unused \in {s \in [1 .. Cardinality(Bufs) -> Bufs] : IsInjective(s)}
    /\ used = <<>>
    /\ act = [b \in Bufs |-> NoAct]
    /\ pc = [w \in Tasks |-> "idle"]
    /\ fn = [w \in Tasks |-> "none"]
    /\ depth = [w \in Tasks |-> 0]
    /\ outret = [w \in Tasks |-> <<"UNSET", "UNSET">>]
    /\ reply = [w \in Tasks |-> "none"]
    /\ age = [w \in Tasks |-> 0]
    /\ left = [w \in Tasks |-> 0]
    /\ aborted = [w \in Tasks |-> FALSE]
    /\ acked = [w \in Tasks |-> {}]
    /\ cut = [w \in Tasks |-> FALSE]

-----------------------------------------------------------------------------
\* Time passes and connections come and go

Tick ==
    /\ timer > 0
    /\ \A w \in Tasks : pc[w] = "idle" \/ (pc[w] = "asleep" /\ left[w] > 0)
    /\ now' = (now + 1) % Sec
    /\ timer' = timer - 1
    /\ age' = [w \in Tasks |-> IF pc[w] = "idle" THEN 0 ELSE age[w] + 1]
    /\ left' = [w \in Tasks |-> IF pc[w] = "asleep" THEN left[w] - 1 ELSE 0]
    /\ act' = [b \in Bufs |-> IF act[b] = NoAct THEN NoAct ELSE [act[b] EXCEPT !.age = @ + 1]]
    /\ UNCHANGED <<connected, unused, used, pc, frames, aborted, acked,
                   cut>>

\* netcom_eventcb
Connected ==
    /\ ~ connected
    /\ connected' = TRUE
    /\ UNCHANGED <<clock, lists, task, aborted>>

Lost ==
    /\ connected
    /\ connected' = FALSE
    /\ UNCHANGED <<clock, lists, task, aborted>>

\* What may interrupt a wait: task_stop, or pthread_cond_timedwait returning
\* for no reason.
MayCut(w) ==
    /\ ~ aborted[w] /\ ~ cut[w]
    /\ Cardinality({x \in Tasks : aborted[x] \/ cut[x]}) < MaxCuts

\* task_stop, from another thread: it wakes nobody.
Abort(w) ==
    /\ MayCut(w)
    /\ aborted' = [aborted EXCEPT ![w] = TRUE]
    /\ UNCHANGED <<clock, connected, lists, task>>

-----------------------------------------------------------------------------
\* The task: a function of cmdset.c and l0006_netcmd_general_command

\* The command of the function f, in the frame d of the task.  The result starts
\* as ACK_SUCCESS, which is 0, or as -1 in l0006_cmdset_hardwareversion.
Command(w, f, d) ==
    /\ fn' = [fn EXCEPT ![w] = f]
    /\ depth' = [depth EXCEPT ![w] = d]
    /\ outret' = [outret EXCEPT ![w][d] = IF f = "version" THEN "UNSET" ELSE "SUCCESS"]
    /\ age' = [age EXCEPT ![w] = 0]
    /\ acked' = [acked EXCEPT ![w] = @ \ {d}]
    /\ pc' = [pc EXCEPT ![w] = "write"]

\* A version asked for with a channel or a node out of range sends nothing, nor
\* does a configuration without memory to load it to: no calls here.
Call(w, f) ==
    /\ pc[w] = "idle" /\ ~ aborted[w]
    /\ Command(w, f, 1)
    /\ UNCHANGED <<clock, connected, lists, reply, left, aborted, cut>>

Frame(w) == [who |-> w, frame |-> depth[w], age |-> 0,
             fn |-> IF depth[w] = 2 THEN "command" ELSE fn[w]]

\* Mutant: the buffer goes to the front of the used list.
WriteAtHead(w) ==
    /\ pc[w] = "write"
    /\ connected
    /\ unused # <<>>
    /\ act' = [act EXCEPT ![Head(unused)] = Frame(w)]
    /\ used' = <<Head(unused)>> \o used
    /\ unused' = Tail(unused)
    /\ pc' = [pc EXCEPT ![w] = "wait"]
    /\ UNCHANGED <<clock, connected, frames, waits, aborted, acked, cut>>

\* l0006_netcmd_general_command, _ex and command2 with l0006_netcom_write, which
\* takes the first unused buffer and appends it to the used ones.
Write(w) ==
    /\ pc[w] = "write"
    /\ connected
    /\ unused # <<>>
    /\ act' = [act EXCEPT ![Head(unused)] = Frame(w)]
    /\ used' = Append(used, Head(unused))
    /\ unused' = Tail(unused)
    /\ pc' = [pc EXCEPT ![w] = "wait"]
    /\ UNCHANGED <<clock, connected, frames, waits, aborted, acked, cut>>

\* Mutant: the packet of a version is not freed.
LeaveKeepsReply(w) ==
    /\ pc' = [pc EXCEPT ![w] = "idle"]
    /\ fn' = [fn EXCEPT ![w] = "none"]
    /\ depth' = [depth EXCEPT ![w] = 0]
    /\ outret' = [outret EXCEPT ![w] = <<"UNSET", "UNSET">>]
    /\ reply' = [reply EXCEPT ![w] = IF @ = "none" THEN "none" ELSE "lost"]
    /\ age' = [age EXCEPT ![w] = 0]
    /\ left' = [left EXCEPT ![w] = 0]
    /\ acked' = [acked EXCEPT ![w] = {}]
    /\ act' = [b \in Bufs |-> IF act[b].who = w THEN [act[b] EXCEPT !.frame = 0] ELSE act[b]]

\* The function returns; its stack frames are gone, whatever still points to
\* them.  The packet of a version that was had is freed.
Leave(w) ==
    /\ pc' = [pc EXCEPT ![w] = "idle"]
    /\ fn' = [fn EXCEPT ![w] = "none"]
    /\ depth' = [depth EXCEPT ![w] = 0]
    /\ outret' = [outret EXCEPT ![w] = <<"UNSET", "UNSET">>]
    /\ reply' = [reply EXCEPT ![w] = IF @ = "held" /\ outret[w][1] = "SUCCESS" THEN "none"
                                     ELSE IF @ = "none" THEN "none" ELSE "lost"]
    /\ age' = [age EXCEPT ![w] = 0]
    /\ left' = [left EXCEPT ![w] = 0]
    /\ acked' = [acked EXCEPT ![w] = {}]
    /\ act' = [b \in Bufs |-> IF act[b].who = w THEN [act[b] EXCEPT !.frame = 0] ELSE act[b]]

\* Mutant: the buffer taken for a command that is not sent is not put back.
WriteFailsLoses(w) ==
    /\ pc[w] = "write"
    /\ Leave(w)
    /\ unused' = IF unused = <<>> THEN <<>> ELSE Tail(unused)
    /\ UNCHANGED <<clock, connected, used, aborted, cut>>

\* Not connected, no unused buffer, or evbuffer_add has no memory.
WriteFails(w) ==
    /\ pc[w] = "write"
    /\ Leave(w)
    /\ UNCHANGED <<clock, connected, unused, used, aborted, cut>>

\* Mutant: the wait is not limited.
WaitingForever(w) == ~ aborted[w]

\* The condition of TASK_WAIT_COND
Waiting(w) == ~ aborted[w] /\ SecondElapsed(age[w]) <= CmdTimeout

\* TASK_WAIT_COND evaluates the condition, on entry and each time that
\* pthread_cond_timedwait has timed out after a second.
CheckWait(w) ==
    /\ pc[w] = "wait" \/ (pc[w] = "asleep" /\ left[w] = 0)
    /\ IF Waiting(w)
       THEN /\ pc' = [pc EXCEPT ![w] = "asleep"]
            /\ left' = [left EXCEPT ![w] = Sec]
       ELSE /\ pc' = [pc EXCEPT ![w] = "return"]
            /\ left' = [left EXCEPT ![w] = 0]
    /\ cut' = [cut EXCEPT ![w] = @ \/ aborted[w]]
    /\ UNCHANGED <<clock, connected, lists, frames, age, aborted, acked>>

\* pthread_cond_timedwait may return 0 for no reason; the macro then breaks.
SpuriousWakeup(w) ==
    /\ pc[w] = "asleep"
    /\ MayCut(w)
    /\ pc' = [pc EXCEPT ![w] = "return"]
    /\ left' = [left EXCEPT ![w] = 0]
    /\ cut' = [cut EXCEPT ![w] = TRUE]
    /\ UNCHANGED <<clock, connected, lists, frames, age, aborted, acked>>

\* A mode has been set: l0006_cmdset_beep
BeepDue(w) == fn[w] = "mode" /\ depth[w] = 1 /\ outret[w][1] = "SUCCESS"

Beep(w) ==
    /\ pc[w] = "return" /\ BeepDue(w)
    /\ Command(w, "mode", 2)
    /\ UNCHANGED <<clock, connected, lists, reply, left, aborted, cut>>

Return(w) ==
    /\ pc[w] = "return" /\ ~ BeepDue(w)
    /\ Leave(w)
    /\ UNCHANGED <<clock, connected, unused, used, aborted, cut>>

-----------------------------------------------------------------------------
\* The event loop

Targets(B) == {<<act[b].who, act[b].frame>> : b \in B}
Owners(B) == {act[b].who : b \in B}

\* l0006_netcmd_general_action2 allocates a packet for the answer, if it can, and
\* stores it through the address of pkt, which may be gone.
RepliesTo(B) ==
    LET asked == {b \in B : act[b].fn = "version"}
    IN  \/ UNCHANGED reply
        \/ reply' = [w \in Tasks |->
                        IF \E b \in asked : act[b].who = w /\ act[b].frame = 0 THEN "lost"
                        ELSE IF w \in Owners(asked) THEN "held" ELSE reply[w]]

\* Mutant: the result of a command that timed out is not stored.
RunActionsAcksOnly(B, r, wakes) ==
    /\ outret' = [w \in Tasks |-> [d \in 1 .. 2 |->
                      IF <<w, d>> \in Targets(B) /\ r # "TIMEOUT" THEN r ELSE outret[w][d]]]
    /\ pc' = [w \in Tasks |-> IF wakes /\ w \in Owners(B) /\ pc[w] = "asleep"
                               THEN "return" ELSE pc[w]]
    /\ left' = [w \in Tasks |-> IF wakes /\ w \in Owners(B) THEN 0 ELSE left[w]]
    /\ acked' = [w \in Tasks |-> acked[w]
                     \cup {d \in 1 .. 2 : <<w, d>> \in Targets(B) /\ r = "SUCCESS"}]
    /\ IF r = "SUCCESS" THEN RepliesTo(B) ELSE UNCHANGED reply
    /\ act' = [b \in Bufs |-> IF b \in B THEN NoAct ELSE act[b]]

\* actioncb of the buffers in B, each with result r: it stores the result and,
\* if wakes, broadcasts the condition.  A result for a frame that is gone goes
\* to memory that may by now hold a result of a frame the task is in.
RunActions(B, r, wakes) ==
    /\ \E hit \in SUBSET {f \in Tasks \X (1 .. 2) :
                            <<f[1], 0>> \in Targets(B) /\ f[2] <= depth[f[1]]} :
           outret' = [w \in Tasks |-> [d \in 1 .. 2 |->
                         IF <<w, d>> \in Targets(B) \cup hit THEN r ELSE outret[w][d]]]
    /\ pc' = [w \in Tasks |-> IF wakes /\ w \in Owners(B) /\ pc[w] = "asleep"
                               THEN "return" ELSE pc[w]]
    /\ left' = [w \in Tasks |-> IF wakes /\ w \in Owners(B) THEN 0 ELSE left[w]]
    /\ acked' = [w \in Tasks |-> acked[w]
                     \cup {d \in 1 .. 2 : <<w, d>> \in Targets(B) /\ r = "SUCCESS"}]
    /\ IF r = "SUCCESS" THEN RepliesTo(B) ELSE UNCHANGED reply
    /\ act' = [b \in Bufs |-> IF b \in B THEN NoAct ELSE act[b]]

\* An acknowledgement for a command of function f: its own, one that reports a
\* failure (l0006_netcmd_ex_general_action only), or that of another command
\* (l0006_netcmd_getackcmd).  The last stores its result but wakes nobody.
Outcome(f) == {[ack |-> "SUCCESS", wakes |-> TRUE], [ack |-> "FAIL", wakes |-> FALSE]}
              \cup (IF f = "conf" THEN {[ack |-> "FAIL", wakes |-> TRUE]} ELSE {})

\* netcom_readcb finds the used buffer with the number of the packet.  The
\* acknowledgement of a command that has timed out finds none and has no effect.
Acknowledge(i) ==
    /\ connected
    /\ \E o \in Outcome(act[used[i]].fn) : RunActions({used[i]}, o.ack, o.wakes)
    /\ used' = RemoveAt(used, i)
    /\ unused' = Append(unused, used[i])
    /\ UNCHANGED <<clock, connected, fn, depth, age, aborted, cut>>

\* How many buffers netcom_timeoutcb takes before its break.
Overdue == CHOOSE n \in 0 .. Len(used) :
    /\ \A i \in 1 .. n : Expired(act[used[i]].age)
    /\ n < Len(used) => ~ Expired(act[used[n + 1]].age)

Timeout ==
    /\ timer = 0
    /\ timer' = Period * Sec
    /\ LET gone == SubSeq(used, 1, Overdue)
       IN  /\ RunActions(Range(gone), "TIMEOUT", TRUE)
           /\ used' = SubSeq(used, Overdue + 1, Len(used))
           /\ unused' = unused \o gone
    /\ UNCHANGED <<now, connected, fn, depth, age, aborted, cut>>

-----------------------------------------------------------------------------
TaskStep(w) ==
    \/ \E f \in MayCall[w] : Call(w, f)
    \/ Write(w)
    \/ WriteFails(w)
    \/ CheckWait(w)
    \/ SpuriousWakeup(w)
    \/ Beep(w)
    \/ Return(w)
    \/ Abort(w)

Next ==
    \/ Tick
    \/ Connected
    \/ Lost
    \/ \E w \in Tasks : TaskStep(w)
    \/ \E i \in 1 .. Len(used) : Acknowledge(i)
    \/ Timeout

Spec == Init /\ [][Next]_vars

-----------------------------------------------------------------------------
TypeOK ==
    /\ now \in 0 .. Sec - 1
    /\ timer \in 0 .. Period * Sec
    /\ connected \in BOOLEAN
    /\ unused \in Seq(Bufs)
    /\ used \in Seq(Bufs)
    /\ act \in [Bufs -> Action \cup {NoAct}]
    /\ pc \in [Tasks -> {"idle", "write", "wait", "asleep", "return"}]
    /\ fn \in [Tasks -> Functions \cup {"none"}]
    /\ depth \in [Tasks -> 0 .. 2]
    /\ outret \in [Tasks -> [1 .. 2 -> Results]]
    /\ reply \in [Tasks -> {"none", "held", "lost"}]
    /\ age \in [Tasks -> Nat]
    /\ left \in [Tasks -> 0 .. Sec]
    /\ aborted \in [Tasks -> BOOLEAN]
    /\ acked \in [Tasks -> SUBSET (1 .. 2)]
    /\ cut \in [Tasks -> BOOLEAN]

\* Every write buffer is in exactly one of the two lists, once, and those that
\* wait for an acknowledgement are those with an action: none is ever lost,
\* whatever is acknowledged, times out, fails or is aborted.
PoolWhole ==
    /\ IsInjective(unused \o used)
    /\ Range(unused \o used) = Bufs
    /\ \A b \in Bufs : b \in Range(used) <=> act[b] # NoAct

\* No callback ever stores a result through the address of a stack frame that
\* is gone, for a task whose waits were not interrupted by task_stop or by a
\* spurious wakeup.  It rests on the two timeouts, two periods of netcom.h
\* (6 s) being shorter than the 10 s of netcmd.h, and on an event loop that keeps
\* running, so that its timer is never late (Tick).
NoDeadFrame == \A b \in Range(used) : act[b].frame # 0 \/ cut[act[b].who]

\* A function of cmdset.c whose result says success has had its acknowledgement,
\* though the result starts as ACK_SUCCESS (netcmd.h:16) and the beep of a mode
\* comes between, again unless a wait of the task was interrupted.
SuccessMeansAcked ==
    \A w \in Tasks : pc[w] = "return" /\ ~ cut[w] =>
        \A d \in 1 .. depth[w] : outret[w][d] = "SUCCESS" => d \in acked[w]

\* The packet that carries a version back is freed by whoever asked for it, once,
\* and never when nobody has it: it is lost only to a wait that was interrupted
\* (netcmd.c:332-337, cmdset.c:294-306).
NoReplyLeak == \A w \in Tasks : reply[w] = "lost" => cut[w]

\* Every function of cmdset.c returns, within CmdTimeout plus the second that
\* l0001_second_elapsed rounds away plus the second of a timed wait.
CallBounded == \A w \in Tasks : pc[w] # "idle" => age[w] <= (CmdTimeout + 2) * Sec

Stage(w) ==
    IF cut[w] THEN "wild"
    ELSE IF pc[w] = "idle" THEN "idle"
    ELSE IF pc[w] = "write" THEN "sending"
    ELSE IF \E b \in Bufs : act[b].who = w THEN "pending"
    ELSE "done"

Result(w) == IF Stage(w) = "done" THEN outret[w][depth[w]] ELSE None

Remote == INSTANCE RemoteCall
    WITH Limit <- (CmdTimeout + 2) * Sec,
         stage <- [w \in Tasks |-> Stage(w)],
         result <- [w \in Tasks |-> Result(w)]

\* Buffers that are passed between lists, results stored through addresses and
\* a timer for all of them look to a task like a call that is answered or times
\* out, once for each command and in time (netcmd.c:221-400, netcom.c:339-447).
ImplementsRemoteCall == Remote!Spec

\* netcom.h:4-5: a command is only reported as timed out once
\* L0006_NETCOM_TIMEOUT_PERIOD has passed since it was written.
TimeoutAfterPeriod ==
    [][\A w \in Tasks : outret'[w][1] = "TIMEOUT" /\ outret[w][1] # "TIMEOUT"
          => age[w] > Period * Sec]_vars
=============================================================================
