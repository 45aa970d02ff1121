------------------------------ MODULE CmdAgent ------------------------------
(***************************************************************************)
(* The registry of devices: agent/cmdagent.c and devcom_initialize.        *)
(*                                                                         *)
(* main starts the tasks of the cluster in a loop up to dev_num, which is  *)
(* the service task and what has been registered meanwhile, and then only  *)
(* polls.  The service thread registers the devices that clients name and  *)
(* hands commands to them.  A device gets the next entry of dev_info, a    *)
(* task in the cluster and a devcom_proc that knows its address; it counts *)
(* once its thread runs.  A registration may fail half way; a later one    *)
(* uses the same entry again.                                              *)
(*                                                                         *)
(* The cluster is created with one task, so the tasks of devices lie       *)
(* behind its array.  They are modelled as memory that is theirs alone.    *)
(***************************************************************************)
EXTENDS Naturals, Sequences

CONSTANTS
    Devices,   \* addresses, ip and port, that clients name
    None,
    MaxDevs,   \* CMDAGENT_MAX_DEV_NUM
    MaxProcs   \* bound: devcom_procs ever allocated

ASSUME CmdAgentAssumption ==
    None \notin Devices /\ MaxDevs \in Nat \ {0} /\ MaxProcs \in Nat

Slots == 0 .. MaxDevs - 1      \* of dev_info; its task is the slot's + 1
Procs == 1 .. MaxProcs

VARIABLES
    main,      \* where main is
    started,   \* the index in main's loops over the tasks
    again,     \* the entries whose task main has started a second time
    aborted,   \* the entries whose task main has told to end
    tasks_num, \* of the cluster
    svc,       \* where the service thread is
    dev_num,
    dev_info,  \* address and devproc of every entry
    task,      \* state and proc.priv of every device task
    dials,     \* dials[p]: the address in devcom_proc p, in order of allocation
    sent       \* the last command: the device named and the devcom_proc taken

startup == <<main, started, again, aborted>>
vars == <<main, started, again, aborted, tasks_num, svc, dev_num, dev_info, task, dials, sent>>

Registered == {i \in Slots : i < dev_num}
NoTask == [state |-> "none", priv |-> None]

Init ==
    /\ main = "create"
    /\ started = 0
    /\ again = {}
    /\ aborted = {}
    /\ tasks_num = 0
    /\ svc = "none"
    /\ dev_num = 0
    /\ dev_info = [i \in Slots |-> [dev |-> None, devproc |-> None]]
    /\ task = [i \in Slots |-> NoTask]
    /\ dials = <<>>
    /\ sent = None

-----------------------------------------------------------------------------
\* main

CreateCluster ==
    /\ main = "create"
    /\ tasks_num' = dev_num + 1
    /\ main' = "initialize"
    /\ UNCHANGED <<started, again, aborted, svc, dev_num, dev_info, task, dials, sent>>

\* cmdagent_tasks_initialize; dev_num is 0, the service task is the only one.
TasksInitialize ==
    /\ main = "initialize"
    /\ main' \in {"startup", "exited"}
    /\ UNCHANGED <<started, again, aborted, tasks_num, svc, dev_num, dev_info, task, dials, sent>>

\* The loop of cmdagent_tasks_startup, i < dev_num + 1, starts the service task ...
StartService ==
    /\ main = "startup" /\ started = 0
    /\ started' = 1
    /\ svc' = "idle"
    /\ UNCHANGED <<main, again, aborted, tasks_num, dev_num, dev_info, task, dials, sent>>

\* ... and finds more tasks if the service thread has registered devices by now:
\* their threads run already, and they get a second one.
StartAgain ==
    /\ main = "startup" /\ started \in 1 .. dev_num
    /\ started' = started + 1
    /\ again' = again \cup {started - 1}
    /\ UNCHANGED <<main, aborted, tasks_num, svc, dev_num, dev_info, task, dials, sent>>

TasksStarted ==
    /\ main = "startup" /\ started > dev_num
    /\ main' = "poll"
    /\ UNCHANGED <<started, again, aborted, tasks_num, svc, dev_num, dev_info, task, dials, sent>>

\* A thread cannot be created.  The tasks from this one down are stopped.
StartFails ==
    /\ main = "startup" /\ started <= dev_num
    /\ main' = "stop"
    /\ UNCHANGED <<started, again, aborted, tasks_num, svc, dev_num, dev_info, task, dials, sent>>

\* task_stop, which comes back if the device's loop ever ends.
StopTask ==
    /\ main = "stop" /\ started > 0
    /\ aborted' = aborted \cup {started - 1}
    /\ started' = started - 1
    /\ UNCHANGED <<main, again, tasks_num, svc, dev_num, dev_info, task, dials, sent>>

\* No task of the program ever quits, so main stays in "poll"; and it does not come
\* back from stopping the service task, whose thread is in its event loop or does
\* not exist.  If it did, i >= 0 would not end the loop, as i is unsigned.
Over ==
    /\ main = "exited" \/ (main = "stop" /\ started = 0)
    /\ UNCHANGED vars

-----------------------------------------------------------------------------
\* cmdagent_register_device, in the service thread

\* Mutant: the loop stops one entry too early.
FoundEarly(d) == {i \in Registered : i + 1 < dev_num /\ dev_info[i].dev = d}

\* The loop over dev_info
Found(d) == {i \in Registered : dev_info[i].dev = d}

\* A device that is there, or one too many, is left alone; otherwise the entry
\* is filled and its task instantiated, which clears it.
Register(d) ==
    /\ svc = "idle"
    /\ Found(d) = {}
    /\ dev_num < MaxDevs
    /\ dev_info' = [dev_info EXCEPT ![dev_num].dev = d]
    /\ task' = [task EXCEPT ![dev_num] = [state |-> "instantiated", priv |-> None]]
    /\ svc' = "initialize"
    /\ UNCHANGED <<startup, tasks_num, dev_num, dials, sent>>

\* Mutant: the devproc of an earlier attempt is kept.
InitializeKeepsProc ==
    /\ svc = "initialize"
    /\ Len(dials) < MaxProcs
    /\ dials' = Append(dials, dev_info[dev_num].dev)
    /\ dev_info' = [dev_info EXCEPT ![dev_num].devproc =
                        IF @ = None THEN Len(dials') ELSE @]
    /\ task' = [task EXCEPT ![dev_num] = [state |-> "initialized",
                                          priv |-> dev_info'[dev_num].devproc]]
    /\ svc' = "startup"
    /\ UNCHANGED <<startup, tasks_num, dev_num, sent>>

\* devcom_initialize: a new devcom_proc with the address of the entry
Initialize ==
    /\ svc = "initialize"
    /\ Len(dials) < MaxProcs
    /\ dials' = Append(dials, dev_info[dev_num].dev)
    /\ dev_info' = [dev_info EXCEPT ![dev_num].devproc = Len(dials')]
    /\ task' = [task EXCEPT ![dev_num] = [state |-> "initialized", priv |-> Len(dials')]]
    /\ svc' = "startup"
    /\ UNCHANGED <<startup, tasks_num, dev_num, sent>>

\* task_initialize fails before devcom_initialize, or that has no memory.
InitializeFails ==
    /\ svc = "initialize"
    /\ svc' = "idle"
    /\ UNCHANGED <<startup, tasks_num, dev_num, dev_info, task, dials, sent>>

\* devnet_initialize fails; the devcom_proc stays where it was stored.
InitializeFailsLate ==
    /\ svc = "initialize"
    /\ Len(dials) < MaxProcs
    /\ dials' = Append(dials, dev_info[dev_num].dev)
    /\ dev_info' = [dev_info EXCEPT ![dev_num].devproc = Len(dials')]
    /\ task' = [task EXCEPT ![dev_num].priv = Len(dials')]
    /\ svc' = "idle"
    /\ UNCHANGED <<startup, tasks_num, dev_num, sent>>

\* task_start: from here on the thread of the device runs.
Startup ==
    /\ svc = "startup"
    /\ task' = [task EXCEPT ![dev_num].state = "running"]
    /\ svc' = "publish"
    /\ UNCHANGED <<startup, tasks_num, dev_num, dev_info, dials, sent>>

StartupFails ==
    /\ svc = "startup"
    /\ svc' = "idle"
    /\ UNCHANGED <<startup, tasks_num, dev_num, dev_info, task, dials, sent>>

\* dev_num++
Publish ==
    /\ svc = "publish"
    /\ dev_num' = dev_num + 1
    /\ svc' = "idle"
    /\ UNCHANGED <<startup, tasks_num, dev_info, task, dials, sent>>

\* cmdagent_sendto_device: the devproc of the first entry with the address is
\* passed to devcom_write; without an entry nothing happens.
Send(d) ==
    /\ svc = "idle"
    /\ Found(d) # {}
    /\ LET idx == CHOOSE i \in Found(d) : \A j \in Found(d) : i <= j
       IN  sent' = [dev |-> d, proc |-> dev_info[idx].devproc]
    /\ UNCHANGED <<startup, tasks_num, svc, dev_num, dev_info, task, dials>>

-----------------------------------------------------------------------------
Next ==
    \/ CreateCluster \/ TasksInitialize
    \/ StartService \/ StartAgain \/ TasksStarted \/ StartFails \/ StopTask
    \/ Over
    \/ \E d \in Devices : Register(d) \/ Send(d)
    \/ Initialize \/ InitializeFails \/ InitializeFailsLate
    \/ Startup \/ StartupFails
    \/ Publish

Spec == Init /\ [][Next]_vars

-----------------------------------------------------------------------------
TypeOK ==
    /\ main \in {"create", "initialize", "startup", "poll", "exited", "stop"}
    /\ started \in 0 .. MaxDevs + 1
    /\ again \in SUBSET Slots
    /\ aborted \in SUBSET Slots
    /\ tasks_num \in {0, 1}
    /\ svc \in {"none", "idle", "initialize", "startup", "publish"}
    /\ dev_num \in 0 .. MaxDevs
    /\ dev_info \in [Slots -> [dev : Devices \cup {None}, devproc : Procs \cup {None}]]
    /\ task \in [Slots -> [state : {"none", "instantiated", "initialized", "running"},
                           priv : Procs \cup {None}]]
    /\ dials \in Seq(Devices)
    /\ Len(dials) <= MaxProcs
    /\ sent \in {None} \cup [dev : Devices, proc : Procs]

\* Whatever registrations failed before, a device is dialled by one task at most, and
\* by one if it is registered.  That task has one thread, unless main's loop came to
\* it too, which it does only if the device was registered before main polled.
OneThreadPerDevice ==
    /\ \A d \in Devices :
          LET tasks == {i \in Slots : task[i].state = "running" /\ dials[task[i].priv] = d}
          IN  /\ \A i, j \in tasks : i = j
              /\ Found(d) # {} => tasks # {}
    /\ again \subseteq Registered
    /\ main \in {"startup", "poll"} => \A i \in again : i + 1 < started

\* A command goes to the connection of the device it names, for which a thread has
\* been started that reads the answer, also after attempts with the same entry.
SendReachesDevice ==
    sent # None =>
        /\ dials[sent.proc] = sent.dev
        /\ \E i \in Slots : task[i] = [state |-> "running", priv |-> sent.proc]

Running(i) == task[i].state = "running"
Served == {[thread |-> i, dev |-> dials[task[i].priv], proc |-> task[i].priv] :
              i \in {j \in Slots : Running(j)}}

DevicesOf(entries) == {dev_info[i].dev : i \in entries}

Phase == CASE main = "poll" -> "running" [] main = "stop" -> "failed" [] OTHER -> "starting"

Agent == INSTANCE Registry
    WITH Threads <- Slots, phase <- Phase, serving <- Served, known <- DevicesOf(Registered),
         twice <- DevicesOf(again), ended <- DevicesOf(aborted)

\* Entries that are filled in steps, fail and are filled again, while main runs over
\* them too, look like a registry in which a device is there for good or not at all.
\* It gets a second thread only while the agent starts up, and loses its thread only
\* if that fails (cmdagent.c:91-112, 246-326).
ImplementsRegistry == Agent!Spec

\* A registration never clears or re-initializes the task of a running thread.
RunningTaskKept ==
    [][\A i \in Slots : task[i].state = "running" => task'[i] = task[i]]_vars

=============================================================================
