--------------------------- MODULE CmdAgentProofs ---------------------------
(***************************************************************************)
(* Safety of the registry of devices, for any set of devices and any size  *)
(* of dev_info.                                                            *)
(*                                                                         *)
(* The entries below dev_num are never touched again; the entry at dev_num *)
(* may be written any number of times by registrations that fail, and does *)
(* not count until its thread runs with what was written last (EntryInv).  *)
(* main's loops over the tasks come only to entries below dev_num, and to  *)
(* each of them once (LoopInv).                                            *)
(*                                                                         *)
(* Behind that, safety of the task library, whose threads the registry     *)
(* starts, for any number of tasks.  Its three properties rest on one      *)
(* fact: an ABORT that has been written stays until the thread has been    *)
(* joined.  A worker that decided to write before the ABORT still holds    *)
(* the lock, so the ABORT comes after it (LockInv); one that decides later *)
(* finds the ABORT (StopInv).                                              *)
(***************************************************************************)
EXTENDS CmdAgent, Task, TLAPS

\* Before main has started the service task, nothing is registered.
MainInv ==
    /\ main \in {"create", "initialize", "exited"} => svc = "none" /\ started = 0
    /\ main = "startup" /\ started = 0 => svc = "none"
    /\ svc = "none" => dev_num = 0

\* What main's loops have come to.
LoopInv ==
    /\ again \subseteq Registered
    /\ aborted \subseteq Registered
    /\ main \in {"startup", "poll"} => \A i \in again : i + 1 < started
    /\ main # "stop" => aborted = {}
    /\ main = "stop" => started <= dev_num /\ \A i \in aborted : i >= started

\* The entry, the task and the devcom_proc of a device belong together.
Joined(i) ==
    /\ dev_info[i].dev \in Devices
    /\ dev_info[i].devproc \in 1 .. Len(dials)
    /\ dials[dev_info[i].devproc] = dev_info[i].dev
    /\ task[i].priv = dev_info[i].devproc

\* The registered entries, and the one that is being filled.
EntryInv ==
    /\ \A i \in Slots : i < dev_num => Joined(i) /\ task[i].state = "running"
    /\ \A i, j \in Slots : i < dev_num /\ j < dev_num /\ i # j => dev_info[i].dev # dev_info[j].dev
    /\ \A i \in Slots : i >= dev_num /\ task[i].state = "running" => i = dev_num /\ svc = "publish"
    /\ svc \in {"initialize", "startup", "publish"} =>
          /\ dev_num < MaxDevs
          /\ dev_info[dev_num].dev \in Devices
          /\ \A i \in Slots : i < dev_num => dev_info[i].dev # dev_info[dev_num].dev
    /\ svc \in {"startup", "publish"} => Joined(dev_num)
    /\ svc = "publish" => task[dev_num].state = "running"

\* The last command went to a registered entry.
SentInv ==
    sent # None =>
        \E i \in Slots : i < dev_num /\ sent.dev = dev_info[i].dev /\ sent.proc = dev_info[i].devproc

IInv == TypeOK /\ MainInv /\ LoopInv /\ EntryInv /\ SentInv

-----------------------------------------------------------------------------
LEMMA InitInv == Init => IInv
  BY CmdAgentAssumption
  DEF Init, IInv, TypeOK, MainInv, LoopInv, EntryInv, SentInv, Joined, Slots, Procs, NoTask

\* Writing one field of an entry leaves the table well typed.
LEMMA FieldWritten ==
    ASSUME NEW S, NEW A, NEW B, NEW f \in [S -> [dev : A, devproc : B]], NEW i \in S
    PROVE  /\ \A a \in A : [f EXCEPT ![i].dev = a] \in [S -> [dev : A, devproc : B]]
           /\ \A b \in B : [f EXCEPT ![i].devproc = b] \in [S -> [dev : A, devproc : B]]
  OBVIOUS

LEMMA PrivWritten ==
    ASSUME NEW S, NEW A, NEW B, NEW f \in [S -> [state : A, priv : B]], NEW i \in S, NEW b \in B
    PROVE  [f EXCEPT ![i].priv = b] \in [S -> [state : A, priv : B]]
  OBVIOUS

\* The loop over dev_info finds one entry at most, so the first is the one.
LEMMA FirstFound ==
    ASSUME NEW d \in Devices, TypeOK, EntryInv, Found(d) # {}
    PROVE  \E i \in Found(d) : \A j \in Found(d) : i <= j
<1>1. PICK i \in Slots : i < dev_num /\ dev_info[i].dev = d
  BY DEF Found, Registered
<1>2. Found(d) = {i}
  BY <1>1 DEF EntryInv, Found, Registered
<1> QED BY <1>1, <1>2, CmdAgentAssumption DEF Slots

LEMMA NextInv == IInv /\ [Next]_vars => IInv'
<1> SUFFICES ASSUME IInv, [Next]_vars PROVE IInv'
  OBVIOUS
<1> USE CmdAgentAssumption
    DEF IInv, TypeOK, MainInv, LoopInv, EntryInv, SentInv, Joined, Slots, Procs, Registered,
        Found, startup
<1>1. CASE CreateCluster
  BY <1>1 DEF CreateCluster
<1>2. CASE TasksInitialize
  BY <1>2 DEF TasksInitialize
<1>3. CASE StartService \/ StartAgain \/ TasksStarted \/ StartFails \/ StopTask
  <2>1. /\ UNCHANGED <<tasks_num, dev_num, dev_info, task, dials, sent>>
        /\ svc' = svc \/ (svc = "none" /\ svc' = "idle")
    BY <1>3 DEF StartService, StartAgain, TasksStarted, StartFails, StopTask
  <2>2. EntryInv' /\ SentInv'
    BY <2>1
  <2>3. TypeOK' /\ MainInv' /\ LoopInv'
    <3>1. CASE StartService
      BY <3>1 DEF StartService
    <3>2. CASE StartAgain
      BY <3>2 DEF StartAgain
    <3>3. CASE TasksStarted
      BY <3>3 DEF TasksStarted
    <3>4. CASE StartFails
      BY <3>4 DEF StartFails
    <3>5. CASE StopTask
      BY <3>5 DEF StopTask
    <3> QED BY <1>3, <3>1, <3>2, <3>3, <3>4, <3>5
  <2> QED BY <2>2, <2>3
<1>4. ASSUME NEW d \in Devices, Register(d) PROVE IInv'
  <2>1. /\ svc = "idle" /\ dev_num \in Slots
        /\ \A i \in Slots : i < dev_num => dev_info[i].dev # d
        /\ dev_info' = [dev_info EXCEPT ![dev_num].dev = d]
        /\ task' = [task EXCEPT ![dev_num] = [state |-> "instantiated", priv |-> None]]
        /\ svc' = "initialize"
        /\ UNCHANGED <<startup, tasks_num, dev_num, dials, sent>>
    BY <1>4 DEF Register
  <2>2. TypeOK' /\ MainInv' /\ LoopInv'
    <3>1. dev_info' \in [Slots -> [dev : Devices \cup {None}, devproc : Procs \cup {None}]]
      <4> HIDE CmdAgentAssumption DEF Slots, Procs
      <4> QED BY <2>1, FieldWritten
    <3>2. task' \in [Slots -> [state : {"none", "instantiated", "initialized", "running"},
                               priv : Procs \cup {None}]]
      BY <2>1
    <3>3. svc' = "initialize" /\ UNCHANGED <<startup, tasks_num, dev_num, dials, sent>>
      BY <2>1
    <3>4. /\ main \notin {"create", "initialize", "exited"}
          /\ ~ (main = "startup" /\ started = 0)
      BY <2>1
    <3> QED BY <3>1, <3>2, <3>3, <3>4
  <2>3. EntryInv'
    BY <2>1
  <2>4. SentInv'
    <3> SUFFICES ASSUME sent # None PROVE SentInv'
      BY <2>1
    <3>1. PICK i \in Slots : /\ i < dev_num /\ sent.dev = dev_info[i].dev
                            /\ sent.proc = dev_info[i].devproc
      OBVIOUS
    <3>2. dev_info'[i] = dev_info[i]
      BY <2>1, <3>1
    <3> QED BY <2>1, <3>1, <3>2
  <2> QED BY <2>2, <2>3, <2>4
<1>5. ASSUME NEW d \in Devices, Send(d) PROVE IInv'
  <2>1. PICK idx \in Slots : idx < dev_num /\ dev_info[idx].dev = d
                             /\ sent' = [dev |-> d, proc |-> dev_info[idx].devproc]
    <3> DEFINE P(i) == i \in Found(d) /\ \A j \in Found(d) : i <= j
               idx == CHOOSE i \in Found(d) : \A j \in Found(d) : i <= j
    <3>1. \E i \in Found(d) : \A j \in Found(d) : i <= j
      BY <1>5, FirstFound DEF Send
    <3>2. idx \in Found(d)
      BY <3>1
    <3>3. sent' = [dev |-> d, proc |-> dev_info[idx].devproc]
      BY <1>5 DEF Send
    <3> QED BY <3>2, <3>3
  <2>2. UNCHANGED <<startup, tasks_num, svc, dev_num, dev_info, task, dials>>
    BY <1>5 DEF Send
  <2>3. TypeOK'
    BY <2>1, <2>2
  <2>4. MainInv' /\ LoopInv' /\ EntryInv'
    BY <2>2
  <2>5. SentInv'
    BY <2>1, <2>2
  <2> QED BY <2>3, <2>4, <2>5
<1>6. CASE Initialize
  <2>1. /\ svc = "initialize" /\ dev_num \in Slots
        /\ dials' = Append(dials, dev_info[dev_num].dev)
        /\ dev_info[dev_num].dev \in Devices
        /\ Len(dials') = Len(dials) + 1 /\ Len(dials') \in Procs
        /\ dials' \in Seq(Devices)
        /\ dials'[Len(dials')] = dev_info[dev_num].dev
        /\ \A p \in 1 .. Len(dials) : dials'[p] = dials[p]
    BY <1>6 DEF Initialize
  <2>2. /\ dev_info' = [dev_info EXCEPT ![dev_num].devproc = Len(dials')]
        /\ task' = [task EXCEPT ![dev_num] = [state |-> "initialized",
                                            priv |-> Len(dials')]]
        /\ svc' = "startup"
        /\ UNCHANGED <<startup, tasks_num, dev_num, sent>>
    BY <1>6 DEF Initialize
  <2>3. TypeOK' /\ MainInv' /\ LoopInv'
    <3>1. dev_info' \in [Slots -> [dev : Devices \cup {None}, devproc : Procs \cup {None}]]
      <4> HIDE CmdAgentAssumption DEF Slots, Procs
      <4> QED BY <2>1, <2>2, FieldWritten
    <3>2. task' \in [Slots -> [state : {"none", "instantiated", "initialized", "running"},
                               priv : Procs \cup {None}]]
      BY <2>1, <2>2
    <3>3. /\ main \notin {"create", "initialize", "exited"}
          /\ ~ (main = "startup" /\ started = 0)
      BY <2>1
    <3>4. dials' \in Seq(Devices) /\ Len(dials') <= MaxProcs
      BY <2>1
    <3> QED BY <2>2, <3>1, <3>2, <3>3, <3>4
  <2>4. EntryInv'
    BY <2>1, <2>2
  <2>5. SentInv'
    BY <2>1, <2>2
  <2> QED BY <2>3, <2>4, <2>5
<1>7. CASE InitializeFails
  BY <1>7 DEF InitializeFails
<1>8. CASE InitializeFailsLate
  <2>1. /\ svc = "initialize" /\ dev_num \in Slots
        /\ dials' = Append(dials, dev_info[dev_num].dev)
        /\ dev_info[dev_num].dev \in Devices
        /\ Len(dials') = Len(dials) + 1 /\ Len(dials') \in Procs
        /\ dials' \in Seq(Devices)
        /\ dials'[Len(dials')] = dev_info[dev_num].dev
        /\ \A p \in 1 .. Len(dials) : dials'[p] = dials[p]
    BY <1>8 DEF InitializeFailsLate
  <2>2. /\ dev_info' = [dev_info EXCEPT ![dev_num].devproc = Len(dials')]
        /\ task' = [task EXCEPT ![dev_num].priv = Len(dials')]
        /\ svc' = "idle"
        /\ UNCHANGED <<startup, tasks_num, dev_num, sent>>
    BY <1>8 DEF InitializeFailsLate
  <2>3. TypeOK' /\ MainInv' /\ LoopInv'
    <3>1. dev_info' \in [Slots -> [dev : Devices \cup {None}, devproc : Procs \cup {None}]]
      <4> HIDE CmdAgentAssumption DEF Slots, Procs
      <4> QED BY <2>1, <2>2, FieldWritten
    <3>2. task' \in [Slots -> [state : {"none", "instantiated", "initialized", "running"},
                               priv : Procs \cup {None}]]
      <4> HIDE CmdAgentAssumption DEF Slots, Procs
      <4> QED BY <2>1, <2>2, PrivWritten
    <3>3. /\ main \notin {"create", "initialize", "exited"}
          /\ ~ (main = "startup" /\ started = 0)
      BY <2>1
    <3>4. dials' \in Seq(Devices) /\ Len(dials') <= MaxProcs
      BY <2>1
    <3> QED BY <2>2, <3>1, <3>2, <3>3, <3>4
  <2>4. EntryInv'
    BY <2>1, <2>2
  <2>5. SentInv'
    BY <2>1, <2>2
  <2> QED BY <2>3, <2>4, <2>5
<1>9. CASE Startup
  <2>1. /\ svc = "startup" /\ dev_num \in Slots
        /\ task' = [task EXCEPT ![dev_num].state = "running"]
        /\ svc' = "publish"
        /\ UNCHANGED <<startup, tasks_num, dev_num, dev_info, dials, sent>>
    BY <1>9 DEF Startup
  <2>2. /\ task' \in [Slots -> [state : {"none", "instantiated", "initialized", "running"},
                               priv : Procs \cup {None}]]
        /\ task'[dev_num].state = "running"
        /\ \A i \in Slots : /\ task'[i].priv = task[i].priv
                            /\ i # dev_num => task'[i] = task[i]
    BY <2>1
  <2>3. TypeOK' /\ MainInv' /\ LoopInv'
    BY <2>1, <2>2
  <2>4. EntryInv'
    BY <2>1, <2>2
  <2>5. SentInv'
    BY <2>1
  <2> QED BY <2>3, <2>4, <2>5
<1>10. CASE StartupFails
  BY <1>10 DEF StartupFails
<1>11. CASE Publish
  BY <1>11 DEF Publish
<1>12. CASE Over \/ UNCHANGED vars
  <2>1. UNCHANGED <<startup, tasks_num, svc, dev_num, dev_info, task, dials, sent>>
    BY <1>12 DEF Over, vars
  <2> QED BY <2>1
<1> HIDE DEF IInv
<1> QED
  BY <1>1, <1>2, <1>3, <1>4, <1>5, <1>6, <1>7, <1>8, <1>9, <1>10, <1>11, <1>12 DEF Next

-----------------------------------------------------------------------------
\* The registry, the tasks and the threads agree at every step of register_device
\* and main (cmdagent.c:97-340).
THEOREM Invariant == Spec => []IInv
  BY InitInv, NextInv, PTL DEF Spec

\* The variables keep their types, for any set of devices.
THEOREM TypeCorrect == Spec => []TypeOK
  BY Invariant, PTL DEF IInv

\* Only an entry that was filled to the end has a running task.
LEMMA RunningJoined ==
    ASSUME IInv, NEW i \in Slots, task[i].state = "running"
    PROVE  Joined(i) /\ (i < dev_num \/ (i = dev_num /\ svc = "publish"))
<1>1. dev_num \in Nat /\ i \in Nat
  BY CmdAgentAssumption DEF IInv, TypeOK, Slots
<1>2. CASE i < dev_num
  BY <1>2 DEF IInv, EntryInv
<1>3. CASE i >= dev_num
  <2>1. i = dev_num /\ svc = "publish"
    BY <1>3 DEF IInv, EntryInv
  <2> QED BY <2>1 DEF IInv, EntryInv
<1> QED BY <1>1, <1>2, <1>3

\* A device has one task if it is registered and never two, whatever registrations
\* failed before, and that task has a second thread only if main's loop came to it.
THEOREM OneThread == Spec => []OneThreadPerDevice
<1>1. IInv => OneThreadPerDevice
  <2> SUFFICES ASSUME IInv, NEW d \in Devices,
                      NEW tasks, tasks = {i \in Slots : task[i].state = "running"
                                                        /\ dials[task[i].priv] = d}
               PROVE  /\ \A i, j \in tasks : i = j
                      /\ Found(d) # {} => tasks # {}
    BY DEF OneThreadPerDevice, IInv, LoopInv
  <2>1. \A i \in tasks : Joined(i) /\ i <= dev_num /\ dev_info[i].dev = d
    BY RunningJoined, CmdAgentAssumption DEF IInv, TypeOK, Joined, Slots
  <2>2. \A i, j \in tasks : i = j
    BY <2>1, CmdAgentAssumption DEF IInv, TypeOK, EntryInv, Joined, Slots
  <2>3. \A i \in Found(d) : i \in tasks
    BY DEF IInv, EntryInv, Joined, Found, Registered
  <2> QED BY <2>2, <2>3
<1> QED BY <1>1, Invariant, PTL

\* A command goes to the connection of the device it names, which has a thread.
THEOREM SendIsRight == Spec => []SendReachesDevice
<1>1. IInv => SendReachesDevice
  BY CmdAgentAssumption
  DEF IInv, TypeOK, EntryInv, SentInv, Joined, SendReachesDevice, Slots, Procs
<1> QED BY <1>1, Invariant, PTL

\* The threads of Registry, entry by entry, and the devices that are known
LEMMA ServedBy ==
    ASSUME IInv, NEW s
    PROVE  s \in Served <=> \E i \in Slots : /\ Running(i) /\ task[i].priv \in 1 .. Len(dials)
                                           /\ s = [thread |-> i, dev |-> dials[task[i].priv],
                                                  proc |-> task[i].priv]
<1>1. \A i \in Slots : Running(i) => task[i].priv \in 1 .. Len(dials)
  BY RunningJoined DEF Joined, Running
<1> QED BY <1>1 DEF Served

Known == DevicesOf(Registered)

\* A step that leaves the tasks that run, their connections and the registered
\* entries alone is not seen in the registry.
LEMMA Unseen ==
    ASSUME IInv, IInv', UNCHANGED startup, dev_num' = dev_num, sent' = sent,
           \A i \in Slots : Running(i)' <=> Running(i),
           \A i \in Slots : Running(i) => task'[i].priv = task[i].priv,
           \A i \in Slots : i < dev_num => dev_info'[i].dev = dev_info[i].dev,
           \A p \in 1 .. Len(dials) : dials'[p] = dials[p]
    PROVE  UNCHANGED Agent!vars
<1>1. \A i \in Slots : Running(i) => task[i].priv \in 1 .. Len(dials)
  BY RunningJoined DEF Joined, Running
<1>2. Served' = Served
  BY <1>1 DEF Served
<1>3. Known' = Known
  BY DEF Known, DevicesOf, Registered
<1>4. Phase' = Phase /\ DevicesOf(again)' = DevicesOf(again)
      /\ DevicesOf(aborted)' = DevicesOf(aborted)
  BY DEF startup, Phase, DevicesOf, IInv, LoopInv, Registered
<1> QED BY <1>2, <1>3, <1>4 DEF Agent!vars, Known

LEMMA AgentInit == Init => Agent!Init
<1> SUFFICES ASSUME Init
             PROVE  /\ Phase = "starting" /\ Served = {} /\ Known = {} /\ sent = None
                    /\ DevicesOf(again) = {} /\ DevicesOf(aborted) = {}
  BY DEF Agent!Init, Known
<1> QED BY CmdAgentAssumption
        DEF Init, Phase, Served, Known, DevicesOf, Running, Registered, Slots, NoTask

\* A registered device has one entry.
LEMMA OneEntry ==
    ASSUME IInv, NEW A, A \subseteq Registered, NEW i \in Registered,
           dev_info[i].dev \in DevicesOf(A)
    PROVE  i \in A
  BY DEF DevicesOf, Registered, IInv, EntryInv

LEMMA AgentStep == IInv /\ IInv' /\ [Next]_vars => [Agent!Next]_(Agent!vars)
<1> SUFFICES ASSUME IInv, IInv', [Next]_vars PROVE [Agent!Next]_(Agent!vars)
  OBVIOUS
\* steps that leave the entries and the threads of their tasks alone
<1>1. ASSUME UNCHANGED <<dev_num, dev_info, task, dials, sent>>
      PROVE  UNCHANGED <<Served, Known, sent>>
             /\ \A A : A' = A => DevicesOf(A)' = DevicesOf(A)
  BY <1>1 DEF Served, Running, Known, Registered, DevicesOf
<1>7. CASE CreateCluster \/ TasksInitialize \/ Over \/ InitializeFails \/ StartService
           \/ StartupFails \/ UNCHANGED vars
  <2>1. UNCHANGED <<again, aborted, dev_num, dev_info, task, dials, sent>>
    BY <1>7 DEF CreateCluster, TasksInitialize, StartService, Over, InitializeFails, StartupFails,
                vars, startup
  <2>2. Phase' = Phase
    BY <1>7 DEF CreateCluster, TasksInitialize, StartService, Over, InitializeFails, StartupFails,
                vars, startup, Phase
  <2>3. DevicesOf(again)' = DevicesOf(again) /\ DevicesOf(aborted)' = DevicesOf(aborted)
    BY <2>1 DEF DevicesOf
  <2> QED BY <1>1, <2>1, <2>2, <2>3 DEF Agent!vars, Known
<1>8. CASE TasksStarted \/ StartFails
  <2>1. UNCHANGED <<again, aborted, dev_num, dev_info, task, dials, sent>>
    BY <1>8 DEF TasksStarted, StartFails
  <2>2. Phase = "starting" /\ Phase' \in {"running", "failed"}
    BY <1>8 DEF TasksStarted, StartFails, Phase
  <2>3. DevicesOf(again)' = DevicesOf(again) /\ DevicesOf(aborted)' = DevicesOf(aborted)
    BY <2>1 DEF DevicesOf
  <2>4. Agent!Begin
    BY <1>1, <2>1, <2>2, <2>3 DEF Agent!Begin, Known
  <2> QED BY <2>4 DEF Agent!Next
\* A second thread, for a device that has had none from this loop
<1>9. CASE StartAgain
  <2> DEFINE i == started - 1
             d == dev_info[i].dev
  <2>1. /\ i \in Registered /\ i \notin again /\ d \in Devices
        /\ main = "startup" /\ main' = main
    BY <1>9, CmdAgentAssumption
    DEF StartAgain, IInv, TypeOK, LoopInv, EntryInv, Joined, Registered, Slots
  <2>2. again' = again \cup {i} /\ UNCHANGED <<aborted, dev_num, dev_info, task, dials, sent>>
    BY <1>9 DEF StartAgain
  <2>3. d \in Known \ DevicesOf(again)
    <3>1. d \in Known
      BY <2>1 DEF Known, DevicesOf
    <3>2. again \subseteq Registered
      BY DEF IInv, LoopInv
    <3> QED BY <2>1, <3>1, <3>2, OneEntry
  <2>4. DevicesOf(again)' = DevicesOf(again) \cup {d} /\ DevicesOf(aborted)' = DevicesOf(aborted)
    BY <2>2 DEF DevicesOf
  <2>5. Phase = "starting" /\ Phase' = Phase
    BY <2>1 DEF Phase
  <2>6. Agent!StartAgain(d)
    BY <1>1, <2>2, <2>3, <2>4, <2>5 DEF Agent!StartAgain, Known
  <2> QED BY <2>1, <2>6 DEF Agent!Next
<1>10. CASE StopTask
  <2> DEFINE i == started - 1
             d == dev_info[i].dev
  <2>1. /\ i \in Registered /\ i \notin aborted /\ d \in Devices
        /\ main = "stop" /\ main' = main
    BY <1>10, CmdAgentAssumption
    DEF StopTask, IInv, TypeOK, LoopInv, EntryInv, Joined, Registered, Slots
  <2>2. aborted' = aborted \cup {i} /\ UNCHANGED <<again, dev_num, dev_info, task, dials, sent>>
    BY <1>10 DEF StopTask
  <2>3. d \in Known \ DevicesOf(aborted)
    <3>1. d \in Known
      BY <2>1 DEF Known, DevicesOf
    <3>2. aborted \subseteq Registered
      BY DEF IInv, LoopInv
    <3> QED BY <2>1, <3>1, <3>2, OneEntry
  <2>4. DevicesOf(aborted)' = DevicesOf(aborted) \cup {d} /\ DevicesOf(again)' = DevicesOf(again)
    BY <2>2 DEF DevicesOf
  <2>5. Phase = "failed" /\ Phase' = Phase
    BY <2>1 DEF Phase
  <2>6. Agent!End(d)
    BY <1>1, <2>2, <2>3, <2>4, <2>5 DEF Agent!End, Known
  <2> QED BY <2>1, <2>6 DEF Agent!Next
<1>2. ASSUME NEW d \in Devices, Register(d) PROVE UNCHANGED Agent!vars
  <2>1. svc = "idle" /\ dev_num \in Slots /\ ~ Running(dev_num)
    BY <1>2, CmdAgentAssumption DEF Register, IInv, TypeOK, EntryInv, Slots, Running
  <2>2. /\ dev_info' = [dev_info EXCEPT ![dev_num].dev = d]
        /\ task' = [task EXCEPT ![dev_num] = [state |-> "instantiated", priv |-> None]]
        /\ UNCHANGED <<startup, dev_num, dials, sent>>
    BY <1>2 DEF Register
  <2>3. \A i \in Slots : i # dev_num => task'[i] = task[i] /\ dev_info'[i] = dev_info[i]
    BY <2>2 DEF IInv, TypeOK
  <2>4. ~ Running(dev_num)'
    BY <2>1, <2>2 DEF IInv, TypeOK, Running
  <2>5. \A i \in Slots : /\ Running(i)' <=> Running(i)
                         /\ Running(i) => task'[i].priv = task[i].priv
                         /\ i < dev_num => dev_info'[i].dev = dev_info[i].dev
    <3> SUFFICES ASSUME NEW i \in Slots
                 PROVE  /\ Running(i)' <=> Running(i)
                        /\ Running(i) => task'[i].priv = task[i].priv
                        /\ i < dev_num => dev_info'[i].dev = dev_info[i].dev
      OBVIOUS
    <3>1. CASE i = dev_num
      BY <3>1, <2>1, <2>2, <2>4, CmdAgentAssumption DEF Running, Slots
    <3>2. CASE i # dev_num
      BY <3>2, <2>3 DEF Running
    <3> QED BY <3>1, <3>2
  <2>6. dev_num' = dev_num /\ sent' = sent /\ dials' = dials
    BY <2>2
  <2> QED BY <2>2, <2>5, <2>6, Unseen
<1>3. CASE Initialize \/ InitializeFailsLate
  <2>1. /\ svc = "initialize" /\ dev_num \in Slots /\ ~ Running(dev_num)
        /\ dev_info[dev_num].dev \in Devices /\ dials \in Seq(Devices)
    BY <1>3, CmdAgentAssumption
    DEF Initialize, InitializeFailsLate, IInv, TypeOK, EntryInv, Slots, Running
  <2>2. /\ dev_info' = [dev_info EXCEPT ![dev_num].devproc = Len(dials')]
        /\ dials' = Append(dials, dev_info[dev_num].dev)
        /\ UNCHANGED <<startup, dev_num, sent>>
    BY <1>3 DEF Initialize, InitializeFailsLate
  <2>3. \A p \in 1 .. Len(dials) : dials'[p] = dials[p]
    BY <2>1, <2>2
  <2>4. \A i \in Slots : i # dev_num => task'[i] = task[i] /\ dev_info'[i] = dev_info[i]
    BY <1>3, <2>2 DEF Initialize, InitializeFailsLate, IInv, TypeOK
  <2>5. ~ Running(dev_num)'
    BY <1>3, <2>1, <2>2 DEF Initialize, InitializeFailsLate, IInv, TypeOK, Running
  <2>6. \A i \in Slots : /\ Running(i)' <=> Running(i)
                         /\ Running(i) => task'[i].priv = task[i].priv
                         /\ i < dev_num => dev_info'[i].dev = dev_info[i].dev
    <3> SUFFICES ASSUME NEW i \in Slots
                 PROVE  /\ Running(i)' <=> Running(i)
                        /\ Running(i) => task'[i].priv = task[i].priv
                        /\ i < dev_num => dev_info'[i].dev = dev_info[i].dev
      OBVIOUS
    <3>1. CASE i = dev_num
      BY <3>1, <2>1, <2>2, <2>5, CmdAgentAssumption DEF Running, Slots
    <3>2. CASE i # dev_num
      BY <3>2, <2>4 DEF Running
    <3> QED BY <3>1, <3>2
  <2> QED BY <2>2, <2>3, <2>6, Unseen
\* The thread of the entry that is being filled starts.
<1>4. CASE Startup
  <2> DEFINE p == task[dev_num].priv
             d == dials[p]
             new == [thread |-> dev_num, dev |-> d, proc |-> p]
  <2>1. /\ dev_num \in Slots /\ Joined(dev_num) /\ ~ Running(dev_num)
        /\ d = dev_info[dev_num].dev /\ d \in Devices /\ p \in Procs /\ p \in 1 .. Len(dials)
    BY <1>4, CmdAgentAssumption
    DEF Startup, IInv, TypeOK, EntryInv, Joined, Slots, Procs, Running
  <2>2. /\ task' = [task EXCEPT ![dev_num].state = "running"]
        /\ UNCHANGED <<startup, dev_num, dev_info, dials, sent>>
    BY <1>4 DEF Startup
  <2>3. \A i \in Slots : Running(i) => i < dev_num /\ dials[task[i].priv] = dev_info[i].dev
    BY <1>4, CmdAgentAssumption DEF Startup, IInv, TypeOK, EntryInv, Joined, Slots, Running
  <2>4. \A s \in Served : s.thread # dev_num /\ s.dev # d /\ s.proc # p
    <3> SUFFICES ASSUME NEW i \in Slots, Running(i)
                 PROVE  i # dev_num /\ dials[task[i].priv] # d /\ task[i].priv # p
      BY ServedBy
    <3>1. i < dev_num /\ dev_info[i].dev # dev_info[dev_num].dev
      BY <1>4, <2>1, <2>3 DEF Startup, IInv, EntryInv
    <3> QED BY <2>1, <2>3, <3>1 DEF IInv, TypeOK, Slots
  <2>5. Served' = Served \cup {new}
    <3>1. \A i \in Slots : /\ Running(i)' <=> Running(i) \/ i = dev_num
                           /\ task'[i].priv = task[i].priv
      BY <2>1, <2>2 DEF IInv, TypeOK, Running
    <3>2. Served' = {[thread |-> i, dev |-> dials[task[i].priv], proc |-> task[i].priv] :
                        i \in {j \in Slots : Running(j) \/ j = dev_num}}
      BY <2>2, <3>1 DEF Served
    <3> QED BY <2>1, <3>2 DEF Served
  <2>6. UNCHANGED <<Phase, DevicesOf(again), DevicesOf(aborted), Known, sent>>
    BY <2>2 DEF startup, Phase, Known, DevicesOf, Registered
  <2>7. Agent!Start(dev_num, d, p)
    BY <2>4, <2>5, <2>6 DEF Agent!Start, Known
  <2> QED BY <2>1, <2>7 DEF Agent!Next
<1>5. CASE Publish
  <2> DEFINE d == dev_info[dev_num].dev
             new == [thread |-> dev_num, dev |-> d, proc |-> task[dev_num].priv]
  <2>1. /\ dev_num \in Slots /\ Running(dev_num) /\ Joined(dev_num)
        /\ \A i \in Slots : i < dev_num => dev_info[i].dev # d
    BY <1>5, CmdAgentAssumption DEF Publish, IInv, TypeOK, EntryInv, Slots, Running
  <2>2. dev_num' = dev_num + 1 /\ UNCHANGED <<startup, dev_info, task, dials, sent>>
    BY <1>5 DEF Publish
  <2>3. PICK s \in Served : s = new
    BY <2>1, ServedBy DEF Joined
  <2>4. s.dev \notin Known
    BY <2>1, <2>3 DEF Known, DevicesOf, Registered
  <2>5. Known' = Known \cup {s.dev}
    <3>1. Registered' = Registered \cup {dev_num}
      BY <2>1, <2>2, CmdAgentAssumption DEF Registered, Slots, IInv, TypeOK
    <3> QED BY <2>2, <2>3, <3>1 DEF Known, DevicesOf
  <2>6. UNCHANGED <<Phase, DevicesOf(again), DevicesOf(aborted), Served, sent>>
    BY <2>2 DEF startup, Phase, DevicesOf, Served, Running
  <2>7. Agent!MakeKnown(s)
    BY <2>4, <2>5, <2>6 DEF Agent!MakeKnown, Known
  <2> QED BY <2>7 DEF Agent!Next
<1>6. ASSUME NEW d \in Devices, Send(d) PROVE Agent!Next
  <2>1. PICK i \in Found(d) : sent' = [dev |-> d, proc |-> dev_info[i].devproc]
    <3>1. \E i \in Found(d) : \A j \in Found(d) : i <= j
      BY <1>6, FirstFound DEF Send, IInv
    <3> QED BY <1>6, <3>1 DEF Send
  <2> DEFINE s == [thread |-> i, dev |-> d, proc |-> task[i].priv]
  <2>2. i \in Slots /\ i < dev_num /\ dev_info[i].dev = d /\ Running(i) /\ Joined(i)
    BY <2>1 DEF Found, Registered, IInv, EntryInv, Running
  <2>3. s \in Served
    BY <2>2, ServedBy DEF Joined
  <2>4. s.dev \in Known
    BY <2>2 DEF Known, DevicesOf, Registered
  <2>5. UNCHANGED <<Phase, DevicesOf(again), DevicesOf(aborted), Served, Known>>
    BY <1>6 DEF Send, startup, Phase, DevicesOf, Served, Known, Running, Registered
  <2>6. sent' = [dev |-> s.dev, proc |-> s.proc]
    BY <2>1, <2>2 DEF Joined
  <2>7. Agent!Send(s)
    BY <2>4, <2>5, <2>6 DEF Agent!Send, Known
  <2> QED BY <2>3, <2>7 DEF Agent!Next
<1> QED BY <1>2, <1>3, <1>4, <1>5, <1>6, <1>7, <1>8, <1>9, <1>10 DEF Next

\* A device is in the registry with a thread and a connection of its own or not
\* at all, and commands for it go to that connection; a second thread is given to
\* it only while main starts up (cmdagent.c:91-112, 246-326).
THEOREM AgentIsARegistry == Spec => ImplementsRegistry
<1>1. Spec => Agent!Spec
  BY Invariant, AgentInit, AgentStep, PTL DEF Spec, Agent!Spec
<1> QED BY <1>1 DEF ImplementsRegistry

\* No registration clears or re-initializes the task of a running thread.
THEOREM TaskIsKept == Spec => RunningTaskKept
<1>1. IInv /\ [Next]_vars
      => [\A i \in Slots : task[i].state = "running" => task'[i] = task[i]]_vars
  <2> SUFFICES ASSUME IInv, [Next]_vars, NEW i \in Slots, task[i].state = "running"
               PROVE  task'[i] = task[i]
    OBVIOUS
  <2>1. i # dev_num \/ svc = "publish"
    BY DEF IInv, EntryInv, TypeOK, Slots
  <2> QED
    BY <2>1 DEF IInv, TypeOK, Next, vars, CreateCluster, TasksInitialize, StartService,
                StartAgain, TasksStarted, StartFails, StopTask, Over, startup,
                Register, Send, Initialize, InitializeFails, InitializeFailsLate, Startup,
                StartupFails, Publish
<1> QED BY <1>1, Invariant, PTL DEF Spec, RunningTaskKept

-----------------------------------------------------------------------------
\* The task library

\* What the progress of task_stop says of the state and of the thread.
StopInv ==
    \A t \in Tasks :
        /\ stop[t] \in {"join", "quit"} <=> flags[t] = "ABORT"
        /\ stop[t] = "done" <=> flags[t] = "QUIT"
        /\ stop[t] \in {"quit", "done"} => pc[t] = "exited"

\* The holder of the lock is about to write, and may still write what it
\* decided to.
LockInv ==
    lock # Unlocked =>
        /\ lock.by = "worker" => /\ pc[lock.task] \in {"start", "change"}
                                 /\ lock.write => flags[lock.task] # "ABORT"
        /\ lock.by = "stopper" => stop[lock.task] \in {"abort", "quit"} /\ lock.write

\* A thread that is about to read the state for its next handler has entered
\* none since the ABORT.
LateInv ==
    \A t \in Tasks :
        /\ stop[t] \in {"none", "abort"} => late[t] = 0
        /\ pc[t] = "fetch" => late[t] = 0

\* The tasks main has counted have quit.
PollInv ==
    /\ \A t \in Tasks : t < poll => flags[t] = "QUIT"
    /\ released => poll = TasksNum

\* What the end of a thread, and its absence, say of the state.
ThreadInv ==
    \A t \in Tasks :
        /\ pc[t] = "none" => flags[t] = "IDLE" /\ stop[t] = "none"
        /\ pc[t] = "exited" => flags[t] \in {"ABORT", "QUIT"}

TaskInv ==
    /\ TaskTypeOK /\ StopInv /\ LockInv /\ LateInv /\ PollInv /\ ThreadInv
    /\ OneHandlerAfterAbort /\ NoLostWakeup

-----------------------------------------------------------------------------
LEMMA TaskInitInv == TaskInit => TaskInv
<1> SUFFICES ASSUME TaskInit PROVE TaskInv
  OBVIOUS
<1> USE TaskAssumption DEF TaskInit, Tasks
<1>1. early \in [Tasks -> BOOLEAN] /\ released \in BOOLEAN /\ \A t \in Tasks : ~ early[t]
  OBVIOUS
<1>2. TaskTypeOK
  BY <1>1 DEF TaskTypeOK
<1>3. StopInv /\ LockInv /\ LateInv /\ PollInv /\ ThreadInv
  BY DEF StopInv, LockInv, LateInv, PollInv, ThreadInv
<1>4. OneHandlerAfterAbort /\ NoLostWakeup
  BY <1>1 DEF OneHandlerAfterAbort, NoLostWakeup
<1> QED BY <1>2, <1>3, <1>4 DEF TaskInv

LEMMA TaskNextInv == TaskInv /\ [TaskNext]_task_vars => TaskInv'
<1> SUFFICES ASSUME TaskInv, [TaskNext]_task_vars PROVE TaskInv'
  OBVIOUS
<1> USE TaskAssumption
    DEF TaskInv, TaskTypeOK, StopInv, LockInv, LateInv, PollInv, ThreadInv,
        OneHandlerAfterAbort, NoLostWakeup,
        Tasks, Held, HeldBy, Started, Acquire, WriteFlags, MayWrite, Leave, StopState
<1>1. ASSUME NEW t \in Tasks, Start(t) PROVE TaskInv'
  BY <1>1 DEF Start
<1>2. ASSUME NEW t \in Tasks, WorkerLock(t) PROVE TaskInv'
  <2>1. lock' = [task |-> t, by |-> "worker", write |-> lock'.write]
        /\ lock'.write \in BOOLEAN /\ (lock'.write => flags[t] # "ABORT")
    <3>1. MayWrite(t, want[t]) \in BOOLEAN /\ (MayWrite(t, want[t]) => flags[t] # "ABORT")
      BY DEF MayWrite
    <3> QED BY <3>1, <1>2 DEF WorkerLock
  <2>2. pc[t] \in {"start", "change"}
        /\ UNCHANGED <<flags, early, pc, want, stop, late, poll, released>>
    BY <1>2 DEF WorkerLock
  <2>3. TaskTypeOK'
    <3>1. lock' \in Held
      BY <2>1
    <3>2. early' \in [Tasks -> BOOLEAN] /\ released' \in BOOLEAN
      BY <2>2, Zenon
    <3> QED BY <3>1, <3>2, <2>2
  <2> QED BY <2>1, <2>2, <2>3
<1>3. ASSUME NEW t \in Tasks, WorkerWrite(t) PROVE TaskInv'
  BY <1>3 DEF WorkerWrite
<1>4. ASSUME NEW t \in Tasks, Check(t) PROVE TaskInv'
  BY <1>4 DEF Check
<1>5. ASSUME NEW t \in Tasks, Fetch(t) PROVE TaskInv'
  BY <1>5 DEF Fetch
<1>6. ASSUME NEW t \in Tasks, WaitCheck(t) PROVE TaskInv'
  <2>1. CASE flags[t] # "ABORT" /\ ~ early[t]
    <3>1. /\ pc' = [pc EXCEPT ![t] = "asleep"] /\ early' = early
          /\ UNCHANGED <<flags, want, lock, stop, late, poll, released>>
          /\ pc[t] = "wait"
      BY <1>6, <2>1, Zenon DEF WaitCheck
    <3>2. early' \in [Tasks -> BOOLEAN] /\ released' \in BOOLEAN
      BY <3>1, Zenon
    <3>3. NoLostWakeup'
      BY <3>1, <2>1
    <3>4. pc' = [pc EXCEPT ![t] = "asleep"] /\ pc[t] = "wait"
          /\ UNCHANGED <<flags, want, lock, stop, late, poll, released>>
      BY <3>1, Zenon
    <3>5. TaskTypeOK'
      BY <3>2, <3>4
    <3>6. StopInv' /\ LockInv' /\ LateInv' /\ PollInv' /\ ThreadInv' /\ OneHandlerAfterAbort'
      BY <3>4
    <3> HIDE DEF TaskTypeOK, StopInv, LockInv, LateInv, PollInv, ThreadInv,
                 OneHandlerAfterAbort, NoLostWakeup
    <3> QED BY <3>3, <3>5, <3>6
  <2>2. CASE ~ (flags[t] # "ABORT" /\ ~ early[t])
    <3>1. /\ pc' = [pc EXCEPT ![t] = "handler"] /\ early' = [early EXCEPT ![t] = FALSE]
          /\ UNCHANGED <<flags, want, lock, stop, late, poll, released>>
          /\ pc[t] = "wait"
      BY <1>6, <2>2, Zenon DEF WaitCheck
    <3> QED BY <3>1
  <2> QED BY <2>1, <2>2
<1>7. ASSUME NEW t \in Tasks, WaitTimesOut(t) PROVE TaskInv'
  BY <1>7 DEF WaitTimesOut
<1>8. ASSUME NEW t \in Tasks, WaitReturns(t) PROVE TaskInv'
  BY <1>8 DEF WaitReturns
<1>9. ASSUME NEW t \in Tasks, NEW new \in {"PREP", "RUNNING"}, HandlerChange(t, new) PROVE TaskInv'
  BY <1>9 DEF HandlerChange
<1>10. ASSUME NEW t \in Tasks, HandlerWait(t) PROVE TaskInv'
  BY <1>10 DEF HandlerWait
<1>11. ASSUME NEW t \in Tasks, WakeupClear(t) PROVE TaskInv'
  BY <1>11 DEF WakeupClear
<1>12. ASSUME NEW t \in Tasks, HandlerReturn(t) PROVE TaskInv'
  BY <1>12 DEF HandlerReturn
<1>13. ASSUME NEW t \in Tasks, WaitSpurious(t) PROVE TaskInv'
  BY <1>13 DEF WaitSpurious
<1>14. ASSUME NEW t \in Tasks, Wakeup(t) PROVE TaskInv'
  BY <1>14 DEF Wakeup
<1>15. ASSUME NEW t \in Tasks, StopCall(t) PROVE TaskInv'
  BY <1>15 DEF StopCall
<1>16. ASSUME NEW t \in Tasks, StopLock(t) PROVE TaskInv'
  <2>1. lock' = [task |-> t, by |-> "stopper", write |-> TRUE]
    <3>1. MayWrite(t, StopState(t))
      BY <1>16 DEF StopLock
    <3> QED BY <3>1, <1>16 DEF StopLock
  <2>2. stop[t] \in {"abort", "quit"}
        /\ UNCHANGED <<flags, early, pc, want, stop, late, poll, released>>
    BY <1>16 DEF StopLock
  <2> QED BY <2>1, <2>2
<1>17. ASSUME NEW t \in Tasks, StopWrite(t) PROVE TaskInv'
  BY <1>17 DEF StopWrite
<1>18. ASSUME NEW t \in Tasks, StopJoin(t) PROVE TaskInv'
  BY <1>18 DEF StopJoin
<1>19. CASE Poll
  BY <1>19 DEF Poll
<1>20. CASE Release
  BY <1>20 DEF Release
<1>21. CASE Exited \/ UNCHANGED task_vars
  BY <1>21 DEF Exited, task_vars
<1> HIDE DEF TaskInv
<1> QED
  BY <1>1, <1>2, <1>3, <1>4, <1>5, <1>6, <1>7, <1>8, <1>9, <1>10, <1>11, <1>12, <1>13, <1>14,
     <1>15, <1>16, <1>17, <1>18, <1>19, <1>20, <1>21
  DEF TaskNext, Worker, Handler, Stopper

-----------------------------------------------------------------------------
\* States, flags and threads of the tasks agree at every step of the worker, its
\* handlers and the thread in task_stop (task.c).
THEOREM TasksAgree == TaskSpec => []TaskInv
  BY TaskInitInv, TaskNextInv, PTL DEF TaskSpec

\* The variables keep their types, for any number of tasks.
THEOREM TaskTypeCorrect == TaskSpec => []TaskTypeOK
  BY TasksAgree, PTL DEF TaskInv

\* An aborted task enters one handler more at most, whatever its handlers and
\* the thread in task_stop do.
THEOREM AbortIsSoon == TaskSpec => []OneHandlerAfterAbort
  BY TasksAgree, PTL DEF TaskInv

\* A task that has been woken is not asleep, however task_wakeup and task_wait
\* interleave.
THEOREM WakeupIsKept == TaskSpec => []NoLostWakeup
  BY TasksAgree, PTL DEF TaskInv

\* main releases the cluster only after the thread of every task has ended.
THEOREM ReleaseIsLast == TaskSpec => []ReleaseAfterExit
<1>1. TaskInv => ReleaseAfterExit
  BY TaskAssumption
  DEF TaskInv, PollInv, StopInv, TaskTypeOK, ReleaseAfterExit, Tasks
<1> QED BY <1>1, TasksAgree, PTL

-----------------------------------------------------------------------------
\* A step of the task library is a step of TaskLife, or none.  The state changes
\* where it is written: what was decided under the lock still holds then.
LEMMA LifeStep ==
    ASSUME TaskInv, [TaskNext]_task_vars
    PROVE  [Life!Next]_(Life!vars)
<1> USE TaskAssumption
    DEF TaskInv, TaskTypeOK, StopInv, LockInv, PollInv, ThreadInv, Tasks, Held, HeldBy, Alive
\* steps that touch neither state nor threads nor the cluster
<1>1. ASSUME UNCHANGED <<flags, released>>,
             \A t \in Tasks : pc'[t] \in {"none", "exited"} <=> pc[t] \in {"none", "exited"}
      PROVE  UNCHANGED Life!vars
  BY <1>1 DEF Life!vars
<1>2. ASSUME NEW t \in Tasks, Start(t) PROVE Life!Next
  <2>1. flags[t] = "IDLE" /\ t \notin Alive /\ Alive' = Alive \cup {t}
        /\ UNCHANGED <<flags, released>>
    BY <1>2 DEF Start
  <2> QED BY <2>1 DEF Life!Next, Life!Start
<1>3. ASSUME NEW t \in Tasks, WorkerWrite(t) PROVE [Life!Next]_(Life!vars)
  <2>1. /\ HeldBy(t, "worker") /\ pc[t] \in {"start", "change"} /\ t \in Alive
        /\ Alive' = Alive /\ released' = released
        /\ flags' = IF lock.write THEN [flags EXCEPT ![t] = want[t]] ELSE flags
    BY <1>3 DEF WorkerWrite, WriteFlags
  <2>2. CASE lock.write
    <3>1. flags[t] \in {"IDLE", "PREP", "RUNNING"}
      BY <2>1, <2>2
    <3>2. want[t] \in {"PREP", "RUNNING"}
      OBVIOUS
    <3>3. Life!Change(t)
      BY <2>1, <2>2, <3>1, <3>2 DEF Life!Change, Life!Working
    <3> QED BY <3>3 DEF Life!Next
  <2>3. CASE ~ lock.write
    BY <2>1, <2>3 DEF Life!vars
  <2> QED BY <2>2, <2>3
<1>4. ASSUME NEW t \in Tasks, Check(t) PROVE [Life!Next]_(Life!vars)
  <2>1. CASE flags[t] = "ABORT"
    <3>1. t \in Alive /\ Alive' = Alive \ {t} /\ UNCHANGED <<flags, released>>
      BY <1>4, <2>1 DEF Check
    <3>2. Life!Exit(t)
      BY <2>1, <3>1 DEF Life!Exit
    <3> QED BY <3>2 DEF Life!Next
  <2>2. CASE flags[t] # "ABORT"
    BY <1>1, <1>4, <2>2 DEF Check
  <2> QED BY <2>1, <2>2
<1>5. ASSUME NEW t \in Tasks, StopWrite(t) PROVE Life!Next
  <2>1. /\ HeldBy(t, "stopper") /\ stop[t] \in {"abort", "quit"} /\ lock.write
        /\ flags' = [flags EXCEPT ![t] = StopState(t)]
        /\ Alive' = Alive /\ released' = released
    BY <1>5 DEF StopWrite, WriteFlags
  <2>2. CASE stop[t] = "abort"
    <3>1. flags[t] \in {"IDLE", "PREP", "RUNNING"} /\ pc[t] \notin {"exited"}
      BY <2>2
    <3>2. StopState(t) = "ABORT"
      BY <2>2 DEF StopState
    <3>3. pc[t] # "none"
      BY <2>2
    <3>4. Life!Abort(t)
      BY <2>1, <3>1, <3>2, <3>3 DEF Life!Abort, Life!Working
    <3> QED BY <3>4 DEF Life!Next
  <2>3. CASE stop[t] = "quit"
    <3>1. flags[t] = "ABORT" /\ t \notin Alive /\ StopState(t) = "QUIT"
      BY <2>3 DEF StopState
    <3>2. Life!Quit(t)
      BY <2>1, <3>1 DEF Life!Quit
    <3> QED BY <3>2 DEF Life!Next
  <2> QED BY <2>1, <2>2, <2>3
<1>6. ASSUME Release PROVE Life!Next
  <2>1. \A t \in Tasks : flags[t] = "QUIT"
    BY <1>6 DEF Release
  <2>2. Alive' = Alive /\ flags' = flags /\ released' = TRUE
    BY <1>6 DEF Release
  <2> QED BY <2>1, <2>2 DEF Life!Next, Life!Release
<1>7. ASSUME NEW t \in Tasks,
             \/ WorkerLock(t) \/ Fetch(t) \/ WaitCheck(t) \/ WaitTimesOut(t) \/ WaitReturns(t)
             \/ Handler(t) \/ WaitSpurious(t) \/ Wakeup(t)
             \/ StopCall(t) \/ StopLock(t) \/ StopJoin(t)
      PROVE  UNCHANGED Life!vars
  BY <1>1, <1>7
  DEF WorkerLock, Fetch, WaitCheck, WaitTimesOut, WaitReturns, Handler, HandlerChange,
      HandlerWait, WakeupClear, HandlerReturn, WaitSpurious, Wakeup, StopCall, StopLock,
      StopJoin, Leave
<1>8. ASSUME Poll \/ Exited \/ UNCHANGED task_vars PROVE UNCHANGED Life!vars
  BY <1>1, <1>8 DEF Poll, Exited, task_vars
<1> HIDE DEF TaskInv
<1> QED
  BY <1>2, <1>3, <1>4, <1>5, <1>6, <1>7, <1>8 DEF TaskNext, Worker, Stopper

\* The task library, with its lock and its two steps for every change of state,
\* implements the tasks of TaskLife (task.c:21-36, 88-105, 258-268).
THEOREM TasksLive == TaskSpec => ImplementsTaskLife
<1>1. TaskInit => Life!Init
  BY DEF TaskInit, Life!Init, Alive
<1>2. TaskInv /\ [TaskNext]_task_vars => [Life!Next]_(Life!vars)
  BY LifeStep
<1> QED BY <1>1, <1>2, TasksAgree, PTL DEF TaskSpec, ImplementsTaskLife, Life!Spec
=============================================================================
