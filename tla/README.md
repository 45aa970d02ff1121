# CmdAgent in TLA+

CmdAgent is a relay written in C on top of libevent. Clients connect to a UNIX
socket, name a device by its address and send it commands; the agent keeps one
TCP connection per device, forwards the commands and passes what the devices
answer back to the clients. Below it lie small libraries: tasks (threads with a
state), a connection that sends commands and waits for acknowledgements, and
helpers.

This directory holds TLA+ modules translated from that code, TLC
configurations that check them on small instances, and TLAPS proofs of every
safety property the runs check and of the refinements of nine abstract
specifications. `PROJECT.json` lists the components, the runs, for every
definition the lines of source it stands for, and for every property a mutation
of the model that breaks it. Paths below are relative to
`src/src/`.

    tlc -workers 2 -config SerNet.cfg MCSerNet     # any run: <cfg>, MC<module>
    tlapm SerNetProofs.tla                         # any module of proofs

## 1. The system

### Components, their state and operations

| component | state | operations | used by |
|---|---|---|---|
| `agent/sernet.c` client side | listener, `serclt_list`, `rwlock` | accept, event and read callbacks; `sernet_write` | service thread; every device thread calls `sernet_write` |
| `agent/SimuList.c` linked list | dummy head, nodes keyed by a number, `nCount` | Create, Get, Add, Del, Destory | sernet, under the lock |
| `agent/serclient.c` client packets | `data_blob`, `rd_off`, `wr_off`, device named | `serclt_recvdata`, `serclt_writedata`, `serclt_release` | sernet callbacks |
| `agent/devnet.c` link to a device | `bev`, `flags`, `nserid` | connect, disconnect, event and read callbacks, `devnet_write` | its device thread; the service thread calls `devnet_write` |
| `agent/devcom.c` device task | `reconnect_count`, task state | prep, run, initialize, write | task library |
| `agent/sercom.c` service task | task state | prep, run, write | task library |
| `agent/cmdagent.c` registry, main | `dev_info`, `dev_num`, the cluster | main, `register_device`, `sendto_device` | service thread |
| `l0003-0/task.c` tasks | `flags`, `wakeup_early`, thread | chgstat, wait, wakeup, start, stop, the process loop | all tasks |
| `l0006-0/netcom.c` life of a connection | the object's parts, `bev`, flags, the timer | initialize, release, connect, disconnect, loop, breakloop, event and timer callbacks | the thread that owns the connection |
| `l0006-0/netcom.c` read buffer | the blob, `wr_off`, `rd1_off`, `rd2_off`, `rd1_end`, `rx` | read callback, find_header, start, stop | event loop; a consumer thread reads between `rd2_off` and `rd1_off` |
| `l0006-0/netcom.c`, `netcmd.c`, `cmdset.c` commands with acknowledgement | lists of write buffers, results on the callers' stacks | `l0006_netcom_write`, acknowledgement and timeout, general_command, the functions of cmdset | tasks that command a board |
| `l0001-0/misc.c` | none | differences of times | netcom, cmdset |
| `l0001-0/memcache.c`, `include/circ_buf.h` | free list; macros | alloc, free; room in a ring | nobody; the read buffer |
| `l0002-0` log, `signal.c`, checksums, consoles | none that matters | output | everything |

### How they interact

There is one service thread (the libevent loop of the UNIX socket), one thread
for each device (a libevent loop of its own), and main, which polls. They meet
in three places:

* `serclt_list`: the service thread adds and deletes clients, device threads
  look them up and append to their output. Guarded by `rwlock`.
* `devnet`: the service thread tests `bev` and `flags` and appends to the output
  of `bev`; the device thread makes, connects and frees `bev`. Guarded by
  nothing: `rwlock` of `devnet` is initialised and never taken.
* the task: state and wakeup flag, written under one lock for the cluster and
  read without it.

In `l0006-0` the thread that owns a connection runs its event loop. Tasks that
issue commands meet it in the lists of write buffers, in `nc->bev`, and in a
result variable on the task's stack; a consumer meets it in the offsets of the
read buffer. All take the list lock, except `l0006_netcom_disconnect`,
`l0006_netcom_release` and the first half of the read callback, the reset of the
offsets among it.

### What is hard, and what makes each part correct

The complete list is under `hazards` in `PROJECT.json`. In short:

* *Client side*: a client disappears while a device thread is about to write to
  it; the node is used after the lock has been given back; a descriptor is
  reused while a device still remembers it. Correct: the list behaves as an
  atomic table of live clients, no client is forgotten, all are reclaimed.
* *Linked list*: nodes in memory that was used before, unlinked anywhere. Correct:
  it is a table with one entry for a key, leaks nothing and has no loops.
* *Client packets*: a stream in arbitrary pieces, taken apart without framing.
  Correct: nothing is lost, doubled or reordered, and commands go to the device
  named last.
* *Device link*: check and use without a lock; reconnection through many exits.
  Correct: the flag implies a usable bufferevent, nothing leaks, the agent comes
  back to a device that comes back.
* *Relay*: one remembered socket number per device and no record of who asked.
  Correct: answers keep their order and go to whom they are for.
* *Registry*: a registration fails half way and its entry is used again; main's
  start-up loop looks at `dev_num` while the service thread changes it. Correct: a
  device has one task; commands reach the device they name.
* *Tasks*: a handler changes the state while the task is aborted; a wakeup comes
  before the wait; main releases what threads still use. Correct: ABORT sticks,
  no wakeup is lost, release follows the end of all threads.
* *Commands*: acknowledgement, timeout, loss and return of the caller race.
  Correct: buffers are never lost, results never go to a dead frame, success is
  never made up, calls return.
* *Read buffer*: framing over a ring whose length is not a power of two, with
  macros that want one; resynchronisation; the turn at its end, seen by another
  thread. Correct: order is kept, losses have causes, the consumer stays in step.
* *Life of a connection*: every allocation may fail; connecting, disconnecting and
  breaking the loop race with writers. Correct: nothing leaks, a write never
  follows a stale pointer, a break ends the loop.

Where the code falls short of this, the properties say how far it goes: each
exception in a formula is a behaviour of the code, and section 3 lists them.

## 2. The modules

Every action stands for a stretch of code between two points at which another
thread may step in; the comments name the function. Variables carry the names
of the source. Definitions called *Mutant* are not part of a specification:
they are the plausible mistakes that show what a property is worth.

**SerNet** (`sernet.c`, `SimuList.c`, parts of `serclient.c`). `svc_pc` and
`dev_pc` are the program counters; the steps between LOCK and UNLOCK are
separate, so that the lock has to earn its keep: `_sernet_eventcb` frees the
bufferevent (`EventRelease`) a step before it unlinks the node (`EventDel`). A
connection is a bufferevent; freeing it closes the descriptor, which `accept`
may then return again. Allocations may fail: `AcceptFails` and one outcome of
`ListAdd`. The history variable `unlisted` collects the connections that
happened to, `asker` and `dev_for` the connection an answer is meant for.

**ClientTable** is the abstract specification of SerNet: a table in which a client
leaves in the step that destroys it, and is not destroyed while somebody writes
to it. SerNet implements it with `alive` = the live bufferevents, `table` = the
list without the node that `_sernet_eventcb` is about to unlink, and `using` =
`dev_c`.

**SimuList** (`SimuList.c`), the list that SerNet takes for a set of nodes. Memory
is a number of cells (`1 .. Memory`, `Null` is 0) that malloc hands out (`heap`) and
free takes back with what is in them. Each pass of a loop is a step (`Walk`,
`WalkTail`); `p1`, `p2` and `pNewNode` are the pointers of the call that runs, of
which there is one, since sernet.c holds the lock. The history variable `order`
names the cells in the order of their links. `SimuList_Create` may fail, which
nobody looks at.

**KeyTable** is the abstract specification of SimuList: a table with one entry for a
key whose operations are single steps, the same that SerNet performs on
`serclt_list` (`NodesAt`, `ListAdd`, `ListDel`). SimuList implements it with the
fields of the cells in `order` behind the head as entries, and an answer given where
the call returns.

**DevLink** (`devcom.c`, `devnet.c`). `dev_pc` walks through `devcom_prep`,
`devnet_connect`, the loop, `devnet_disconnect`; `svc_pc` through `devnet_write`.
Each read or write of a shared field is a step. `heap` and `sock` are what libevent
and the kernel know of a bufferevent; an address may be reused after a free. An
attempt that fails at once (`ConnectDialErrorNow`) leaves events registered that
never come, on a socket that is `stuck`. `disturbed` records that the link was lost
during the current call, `retval` what the call returns (anything, if it used memory
that was freed).

**AtomicLink** is the abstract specification of DevLink: a link that goes up and
down in single steps, and a write that is let in while it is up and then is
accepted, refused, or cut off by a loss; one that was cut off may leave its
command to the next link (`stray`). DevLink implements it with `up` = the flag,
`output` = that of the bufferevent while it is up, and a write that is past both
tests of `devnet_isconnected` and undisturbed as the one let in.

**SerClient** (`serclt_recvdata`). The stream is a sequence of cells, each with its
packet, its index and device, and `byte`: whether it is the first or the second byte
of the magic 0xFCFA or another. The code sees only the last (`AtMagic`), so the
magic may stand anywhere in a packet (`at` of `SendInit` and `SendCmd`), and what is
taken for an init packet may begin in the middle of one: then it names any device
(`Named`). A read takes any number of cells. `ParseInit`, `ParseRefuse`,
`ParseForward`, `ParseEnd` are the branches of the loop; a device with port 0
(`Portless`) is registered, and commands for it are refused (`HasPort`). `rd_off`
and `wr_off` are unsigned; if `rd_off` passes `wr_off` the difference wraps. The
next step then registers what else looks like a magic, drops all, or leaves the
buffer (`ParseOverrun`).

**Relay** puts the client side and the device side together, one step per callback,
and follows single commands: `toDev` and `fromDev` are the two directions of a link,
`inbox` what a client has received, `log` the commands that got past the check of
`devnet_write`, with their socket number. The link is a stream and `_devnet_readcb`
passes on what has come: an answer comes in `Parts` pieces, each of which goes to
the number that the link remembers at that time.

**Exchange** is the abstract specification of Relay: a device takes the commands of
a client in the order they were sent, answers each once at most and in the order it
took them, over all clients together, in one piece or in several, and each piece
goes to the client served last or, if that one has left, to whoever came in its
place. Sockets, links and the remembered number are gone. It promises no more, since
the code does not: that the answer need not go to the client that asked is the
finding `relay_misroute`. Relay implements it with `taken` = the commands of the
log, `got` = the inboxes.

**CmdAgent** (`cmdagent.c`, `devcom_initialize`). The steps of
`cmdagent_register_device`: fill the entry, initialize the task (which allocates a
`devcom_proc`), start it, count it, each of which may fail and leave its traces. And
main's phases beside them: the loop of `cmdagent_tasks_startup` runs up to
`dev_num + 1`, which it reads again each time, while the service thread it has
started registers devices (`StartService`, `StartAgain`); the loop that undoes it
when a thread cannot be created (`StartFails`, `StopTask`). The tasks of devices lie
behind the end of the cluster's array; they are modelled as memory of their own.

**Registry** is the abstract specification of CmdAgent: a device gets a thread and
a connection of its own, for ever, before it is known, and commands for it go to
that connection. While the agent starts up, a device that is known already may get a
second thread; if that fails, devices are told to end. Entries, traces of failed
registrations and `dev_num` are gone; CmdAgent implements it with the tasks that run
as the threads.

**Task** (`task.c`, the polling loop of main). The state (`flags`) is written under
the cluster's lock (`lock`) and read without it; `Check` and `Fetch` are the two
reads of `task_process`. A handler is any sequence of chgstat, wait and wakeupclear,
and need not return. `late` counts handlers entered after ABORT. Its `TaskInit`,
`TaskNext`, `TaskSpec` are named so that one module can extend it beside CmdAgent.

**TaskLife** is the abstract specification of Task: states change in single steps
while the thread is alive, never after an ABORT, the thread ends for no other
reason, a task quits behind its thread, and all have quit before the cluster is
released. The lock, the sleep and the two reads of `task_process` are gone.

**NetCmd** (`netcom.c`, `netcmd.c`, `cmdset.c`, `TASK_WAIT_COND`). A call of a
function of cmdset goes through `Call`, `Write` or `WriteFails`, `CheckWait`,
`Return`; one that switches a mode then goes through all of it again for the
beep (`Beep`), in a second stack frame. `Acknowledge` and `Timeout` are the
callbacks; each runs the action callback of its write buffers, wakes their
tasks and moves the buffers back. Time is discrete: `Tick` advances the clock
while all tasks are idle or asleep, and ages what waits; `Expired` computes the
elapsed time with the code's unsigned division. `act[b].frame` is the frame the
buffer's callback will write to, 0 if it no longer exists; then the result may
land in a frame the task has by now (`hit`). `reply` follows the packet that
carries a version from the event loop's thread to the task that frees it.

**RemoteCall** is the abstract specification of NetCmd: a call with one command on
its way at a time, one outcome for it, and a return after that and in time.
Buffers, frames and the timer are gone. NetCmd implements it: a task whose command
is in a used buffer is `pending`, one whose command is not any more is `done`. A
task whose wait was interrupted is `wild`: it keeps the bound on its age only.

**ReadBuf** (`netcom_readcb`, `netcom_find_header`, start and stop, the packet
functions of `netcmd.c`, `circ_buf.h`). The peer sends packets of five kinds: good
acknowledgements, SAVECONF, stream packets, headers with a length of zero and with
one that is too long. They arrive in any pieces. `ReadReset`, `ReadFull` and `Read`
are the exits of the first half of the callback, the `Parse` actions the branches of
its loop, for which it takes the lock (`Lock`). `l0006_netcom_stop` reads `rd1_off`
(`Stop`) and writes `rd2_off` (`Stopped`); the exits come without the lock and so in
between too, the reset among them (`torn`). `Masked` is the `& (size - 1)` of the
macros, for the real length of three times a power of two; `MCReadBuf` checks it
against Bitwise. `broken`, `swallowed` and `skipped` record the only three ways in
which a packet is lost.

**LossyQueue** is the abstract specification of ReadBuf: a queue of packets that
may be hurt, or lost because others were. A packet is taken once, and only when
every one before it has been taken or is lost.

**NetLink** (`netcom.c`, `netcmd.c` without their packets). `Initialize` and
`InitializeFails(n)`, which undoes in the order of the code's labels what was done
before the n-th allocation; connecting, with the old bufferevent freed first;
`Disconnect` in three steps, since it takes no lock; the loop with its callbacks and
its break flag; `l0006_netcom_write` in five steps. The release takes no lock either
and does not look for writers. `event_add` may fail (`added`), and then there is no
timer; the read callback holds the list lock (`Read`, `ReadReturns`), for ever if a
header declares no bytes (`ReadSpins`).

**Connection** is the abstract specification of NetLink: an object has one
connection at a time, which comes up, ends and is exchanged in single steps, none of
them while a task's data is on its way into it, except by a disconnect or the
release, which wait for nobody. A task is let in by what was last heard of a
connection, maybe of the one before (`open`). NetLink implements it with `cur` = the
bufferevent until `l0006_netcom_disconnect` starts, and a writer between the test of
the flag and the end of the write as the one let in, as long as it has met neither.

The MC modules extend these with what TLC needs; `*Proofs` hold the proofs.
NetCmd, ReadBuf and NetLink are three views of one C file. What they share is
small: NetCmd needs of NetLink that the flag comes and goes, and that the loop keeps
running while commands wait, so that its timer is never late: a loop that a break or
the end of the connection has left, or a callback that spins, is outside of NetCmd. Of
ReadBuf it needs that acknowledgements come or do not. Neither needs NetCmd's buffers.

## 3. What the runs check

| run | instance | shows |
|---|---|---|
| `sernet` | 2 connections, 2 descriptors, 2 device threads | `ListSound`, `ReaderOwnsNode`, `NoOrphan`, `LateReplyExplained`; refinement of ClientTable; `Reclaimed`, `WriterReturns` |
| `devlink` | 3 addresses, 2 clients | `NoBevLeak`, `OnlyLossBreaksWrite`; refinement of AtomicLink; `Reconnects` |
| `devlink_write_race` | 2 addresses, 1 client | finding: `WriteOnLive` is violated |
| `serclient` | 2 addresses, one with port 0, 4 packets, headers of 2 and 3 cells, commands of 2 and 4, buffer of 7 | `InOrder`, `OverrunOnlyBySplitMagic`, `AddressedToLatestInit`; `CallbackReturns` |
| `relay` | 3 connections, 2 socket numbers, 1 device, 1 command each, answers in 2 pieces | `MisrouteExplained`; refinement of Exchange; `TakenIsAnswered` |
| `relay_misroute` | 2 connections, 1 device | finding: `AnswersToAsker` is violated |
| `cmdagent` | 3 devices, 2 entries, 4 allocations | `SendReachesDevice`; refinement of Registry |
| `task` | 2 tasks | `OneHandlerAfterAbort`, `NoLostWakeup`; refinement of TaskLife; `MainReturns` |
| `netcmd` | 2 tasks, 2 buffers, 2 ticks per second, timeouts of 1 s and 3 s, 1 interrupted task | `PoolWhole`, `NoDeadFrame`, `SuccessMeansAcked`, `NoReplyLeak`; refinement of RemoteCall |
| `netcmd_early` | 1 task, 1 buffer | finding: `TimeoutAfterPeriod` is violated |
| `readbuf` | 8 packets of 2 to 4 cells, buffer of 24, margin 4, 2 faults | `LossExplained`, `NothingLost`, `ConsumerInSync`, `RoomForLaggard`; refinement of LossyQueue; `CallbackReturns` |
| `netlink` | 2 writers, 3 bufferevents, 2 objects | `NothingLeaks`, `OnlyTearDownBreaksWrite`; refinement of Connection; `BreakEndsLoop`, `WriteReturns` |

The types of all modules that model code are proved and therefore not checked
again by the runs. Neither are the properties that a refinement has taken the place
of: `ConnectedMeansLive` of DevLink, `OneThreadPerDevice` and `RunningTaskKept` of
CmdAgent, `ReleaseAfterExit` of Task, `CallBounded` of NetCmd, `InOrder` of ReadBuf,
`AnswersInOrder` of Relay and `FlagExplained` of NetLink are proved as theorems (section 4).

The list runs by itself, without threads, and what it promises is proved for any
amount of memory, so `PROJECT.json` has no run for it. An instance with 4 cells and 3
keys, the head's key 0 among them, is there to try a change of the code on
(`tlc -workers 2 -config SimuList.cfg MCSimuList`): a list of three nodes has a first,
a middle and a last one to delete, and its cells come back in any order. It checks
`HeapIsLinked`, the refinement of KeyTable and `CallEnds`.

### Why the bounds are enough

* `sernet`: the second connection can get the first one's descriptor while a device
  remembers it, and two writers and a callback compete for one lock. The safety
  part is proved for all sizes, so the instance has to serve liveness only.
* `devlink`: the address in use, one that a slow writer still holds, and one more,
  so that malloc may or may not return a stale address. Safety is proved.
* `serclient`: the lengths keep `CmdHead < AgentHead < 2 * CmdHead` of the real 8
  and 9; the buffer fills up with two init packets; four packets make an init, a
  command, another init and a command possible, cut anywhere. A command of four
  cells has room for the magic behind its header. `Word` = 2^16 in
  place of 2^32 is far above every offset, as in the code.
* `relay`: two clients share the device while a third gets the number of one that
  has left. The properties compare answers of one device only, so one device is
  enough; `cmdagent` has several. That the commands of one client keep their order
  too is part of Exchange and proved for any `MaxCmds`; one each is enough for the
  answers, which three clients can ask for and overtake; two pieces let a command of
  another client come into the middle of an answer.
* `cmdagent`: one device more than entries, so that the list is full, and two
  allocations more than entries, so that two registrations fail after theirs.
* `task`: one lock, two tasks that contend for it, and main's round over both.
* `netcmd`: the order `2 * Period < CmdTimeout` of the real 3 s and 10 s is an
  assumption of the module; a second of two ticks is the least in which the
  difference of the nanoseconds can be negative. `MaxCuts` bounds how many tasks
  are interrupted: the promise to the others must hold beside one that is.
* `readbuf`: the lengths keep `HeadLen < ExLen <= StreamMax <= Margin` and
  `2 * Margin <= Half`. Eight packets of up to four cells turn a buffer of 24
  cells once, so that a consumer may stand before, on and behind the turn (the proofs
  cover any number of turns); what is lost needs one fault and what resynchronises
  wrongly, or a reset in the middle of a stop, a second one.
  `MaxArriving` lets a read end anywhere within a packet and span two.
* `netlink`: three bufferevents are the old one, the current one and one that a
  writer could still hold; with two objects something left behind by the first
  can be told from what belongs to the second.

Deadlock is checked except in `serclient`, `relay`, `relay_misroute`, `readbuf`
and `netlink`: clients and peers that have sent their packets leave nothing to do,
and a double free is the end of the NetLink model. `Over` in CmdAgent and `Exited`
in Task are the ends of the program.

### Fairness

* SerNet: the service and device threads run (weak); a thread that asks for the
  lock again and again gets it, and libevent hands out a pending EOF before it
  polls again, so it is not passed over for ever (strong).
* SimuList: a call that has started goes on (weak).
* DevLink: the device thread runs (weak); allocation and `connect()` do not fail
  for ever (strong), without which nobody could promise a reconnection. The
  device may come and go as it likes; `Reconnects` speaks of one that stays, and
  excepts a thread that an attempt which failed at once has left waiting for ever:
  nothing in the code bounds how often that happens.
* SerClient: the service thread runs its callbacks and bytes arrive (weak).
* Relay: devices answer, and the agent reads the answers (weak). Links and
  clients owe nothing.
* Task: threads run (weak); a thread that asks for the lock gets it (strong). A
  handler need not return: `sercom_run` does not, since nothing breaks its
  `event_base_dispatch`, so that main never returns in this program. `MainReturns`
  says that a handler that stays is the only reason.
* ReadBuf: the event loop's thread goes on with its callback (weak). Nothing is
  asked of the peer or the consumer.
* NetLink: the owner's thread goes on inside libevent, and the timer comes if there
  is one (weak); who waits for the list lock gets it in the end, if it is given back
  again and again (strong). `WriteReturns` and `BreakEndsLoop` except a read callback
  that keeps it. Nobody has to connect,
  disconnect or write.
* NetCmd states no fairness: "every call returns" is a bound on its age there
  (`Limit` of RemoteCall), which is stronger.

### Findings

* `devlink_write_race`: `devnet_write` may use a bufferevent that the device thread
  has freed. `OnlyLossBreaksWrite` shows that a loss of the link between the check
  and the use is the only way to get there.
* `relay_misroute`: with two clients of one device an answer goes to the one that
  wrote last. `MisrouteExplained` shows that only one thing else sends an answer
  astray: the client that wrote last has left, and another one has its number.
* `netcmd_early`: a negative difference of nanoseconds, divided as an unsigned
  number, makes a command look overdue that was just written.

Observations that no run is spent on; the models behave this way:

* `sernet_write` cannot tell a client from a later one with its descriptor
  (`LateReplyExplained` says exactly when it matters).
* An init packet read together with a command before it is forwarded as payload,
  since `ParseForward` takes all there is; and payload that has 0xFCFA where
  the agent looks, at the start of a read or behind an init packet, is taken for an
  init packet (`agent/serclient.c:127`): it registers a device nobody named, and the
  commands that follow go there. These are the two
  exceptions of `AddressedToLatestInit`. What is left of a read, if it is shorter
  than a header, stays in the buffer until the client sends more
  (`agent/serclient.c:123`).
* An init packet with port 0 is registered like any other, and the commands that
  follow are refused (`agent/serclient.c:143`).
* Init packets alone never reset the offsets. When `data_blob` is full a read has no
  room, each callback returns without effect, and the client is stuck: `Read` with
  no room in SerClient, which `CallbackReturns` does not exclude.
* The `serclt_info` of a client and its `data_blob` of 204800 bytes are never freed
  (`agent/sernet.c:97-98`, `agent/serclient.c:100-105`). `Reclaimed` is about the
  bufferevent and the descriptor.
* A connection whose `serclt_info` cannot be allocated stays open and in no list
  (`unlisted`, the exception of `NoOrphan`).
* When `connect()` fails at once, libevent calls back before the loop runs, which
  forgets the break of the callback and waits for events without a descriptor: the
  thread of that device waits for ever (`agent/devnet.c:135-143`, 190-193; `Stuck`,
  the exception of `Reconnects`).
* main's start-up loop reads `dev_num` again after it has started the service thread
  (`agent/cmdagent.c:97`): a device registered in between gets a second thread, on the
  same `devcom_proc` (`again`). DevLink and Task assume one thread for each, as there
  is when nobody connects before main polls. If a thread cannot be created, the loop
  that undoes it stops at the service task, whose thread does not end.
* `SimuList_Destory` frees the first node only (`agent/SimuList.c:128` has an `if`
  where a loop is due). `sernet_initialize` does not look at the result of
  `SimuList_Create` (`agent/sernet.c:137`); without a head, `SimuList_Add` and
  `SimuList_Destory` follow a null pointer (`Crash` of KeyTable).
* A command for a device whose link is not up is dropped and reported as sent
  (`CommandDropped`).
* The cluster is created with one task (`agent/cmdagent.c:200`) and device `i` uses
  task `i + 1`; `cmdagent_tasks_startup` counts down with `i >= 0` on an unsigned
  long, which would not end if the service task could be stopped.
* `l0006_netcom_stop` holds the lock while it reads `rd1_off` and writes `rd2_off`,
  but the reset of the read callback does not take it (`l0006-0/netcom.c:88-91`,
  171-183). In between, it leaves the consumer with the offset of cells that are gone
  (`torn`, the exception of `ConsumerInSync`).
* When a wait in cmdset is interrupted, the result may still be its initial value 0,
  which is ACK_SUCCESS; `SuccessMeansAcked` excludes this case by `cut`.
* `TASK_WAIT_COND` does not look at `wakeup_early`; an acknowledgement that comes
  before the wait delays the caller until it is noticed or times out.
* `l0006_cmdset_hardwareversion` returns 0 when the packet for the reply cannot be
  allocated; `l0006_cmdset_querymode` returns 0 whatever the answer was.
* The ring's length 0x300000 is no power of two, and the comment beside it says
  4 MB (`l0006-0/netcom.c:18`). `Masked` shows what the macros then compute: the
  callback sees no room when exactly one or two thirds are free, and room that is
  not there when less than a third is. `RoomForLaggard` is the region where all is
  well.
* `netcom_find_header` compares with a strict `<`, starts a header's length further
  on and keeps the last 8 bytes, where its comment says 7 (`l0006-0/netcom.c:57`):
  a header that begins right behind a refused one is missed (`skipped`).
* Connecting anew does not clear the read buffer, so half a packet of the old
  connection stands before the first one of the new. The body of a SAVECONF packet
  has no checksum and may then swallow another packet (`swallowed`).
* A stream header with length 0 makes the loop go round for ever with the list lock
  held (`ParseNothing`), and all writers wait; `CallbackReturns` and `WriteReturns`
  say that nothing else does, but for the end of the object in the latter.
* `l0006_netcom_connect` frees the bufferevent twice if the host cannot be looked up
  (511 and 518), `netcom_allocate_buffer` its first buffer if the second is missing
  (590 and 618); `dead` in NetLink. Failures of `pthread_rwlock_init` are never
  noticed, since they are positive.
* `l0006_netcom_release` never frees a bufferevent that was not disconnected
  (`left`), takes no lock and frees everything under the writers, the lock included
  (`OnlyTearDownBreaksWrite`), and frees the event base before it deletes the timer
  (627 and 632), which may go well or not (`dead`). The result of `event_add` is not
  looked at (677): without a timer neither timeouts nor breaks work (`added`). At
  an end of file the flag is cleared but the loop goes on (the break is commented
  out), so that nobody reconnects unless the operation `timeout` does or a break
  ends the loop.
* A break asked for before the loop is forgotten by `event_base_loop`.

## 4. What is proved

TLAPS checks these for every value of the constants that satisfies the named
assumption of the module: that the constants that stand for nobody are none of the
others, that bounds are numbers, for NetCmd, ReadBuf and SerClient the orders named
in section 3, and for SerClient that offsets do not wrap of themselves (`2 * BufSize
+ AgentHead < Word`; 2^32 in the code). The properties seldom are inductive; each
module states its `IInv`, proves that `Init` implies it and that every action keeps
it, with one lemma or step per action and one below it per conjunct the action can
disturb, and derives the properties.

**SerNetProofs.** `TypeCorrect`, `ListIsSound`, `WritersAreSafe`, `ReaderIsSafe`,
`AddIsNeverRefused`, `NoClientIsLost`, `LateRepliesExplained`,
`ListImplementsTable`. The properties say what holds when the lock is free or at one
program point. `IInv` adds who holds the lock where (`LockInv`), that open
descriptors are distinct and freed connections have none (`FdInv`), that every node
is live under its own descriptor but for the one about to be unlinked (`NodesInv`),
what the service thread knows of its connection between steps (`SvcInv`), and that a
device thread past its lookup has a listed client (`DevInv`). `LateRepliesExplained`
needs `HistInv` besides: a number that is remembered for a connection is its number,
or the connection has been freed. The refinement maps `EventRelease` to `Leave`,
since the node drops out of `table` there, and the later `EventDel` to a stutter.

For SimuList: `ListTypeCorrect`, `HeapIsSound`, `ListIsATable`. The pointers are read
off `order`: each of its cells points to the next, no cell and no key is in it twice
(`LinkInv`), nothing is allocated but its cells and a node about to be linked
(`CellInv`), and a walk stands between two neighbours, having passed no node with its
key (`CallInv`). `StepLink` and `StepUnlink` show that appending and taking out one
element (`WithoutOne`) keep this; `FoundIs` and `AbsentIs` turn what a walk has seen
into what the table has.

**DevLinkProofs.** `TypeCorrect`, `ConnectedIsLive`, `NothingLeaks`,
`OnlyLossIsDangerous`, `LinkIsAtomic`. `IInv` adds what the device thread's program
point says of the pointer and its socket (`PhaseInv`), that the heap is what the
pointer names except between a free and the assignment that follows (`HeapInv`), and
that the writer, undisturbed, works on the connected bufferevent (`WriterInv`). The
refinement needs `PassInv` too: a socket that is up, or broken with its event still
to come, has its flag set. The link comes up in `EventConnected` and is lost in
`EventLost`; a write is let in where the flag is read (`WriteConnected`), and
accepted in `WriteAdd`. Making, freeing and clearing bufferevents is not seen.

**CmdAgentProofs** hold the proofs of two modules. For Task: `TaskTypeCorrect`,
`AbortIsSoon`, `WakeupIsKept`, `ReleaseIsLast`, `TasksLive`. `StopInv` ties the
progress of `task_stop` to the state and the thread, `LockInv` says what the holder
of the lock may still write, `LateInv` that a thread about to read its next state
has entered no handler since the ABORT, `PollInv` that the tasks main has counted
have quit, `ThreadInv` in which state a task without a thread is. `TasksLive` maps
the step that writes `flags` under the lock to the change of state: it was decided
before the lock was taken, and only `LockInv` says that no ABORT has come between.

For CmdAgent: `TypeCorrect`, `OneThread`, `SendIsRight`, `TaskIsKept`,
`AgentIsARegistry`. `LoopInv` says how far main's two loops have come: what was
started again, or stopped, is registered, so that no device is hit while it is being
filled. `EntryInv` describes the registered entries (task, `devcom_proc`
and address belong together) and the one being filled; a failed registration only
leaves traces behind `dev_num`. `SentInv` says that the last command went to a
registered entry. In the refinement the thread starts in `Startup` and the device is
known from `Publish` on; the filling of an entry, however often, is not seen
(`Unseen`).

**SerClientProofs.** `OffsetsBounded`, `BytesStayInOrder`, `OnlySplitMagicOverruns`,
`CommandsGoToLatestInit`. `SentInv` describes the stream: the cells of a packet
follow each other and packets follow packets. `InStep` says that the buffer is a
window of the stream (`WindowInv`), that what was handled is the stream before it,
in order (`Handled`), and which init packet was the last unless payload was taken
for one (`LatestInv`). It holds after an overrun too, with nothing waiting (`Done`):
what is registered or dropped then has no cells. `OverrunInv` says that `rd_off` can
only pass `wr_off` at the two bytes of the magic, of `CmdHead` cells or more, but
not all `AgentHead`, that had been read.

**RelayProofs.** `TypeCorrect`, `Ordered`, `Misrouted`, `AgentIsAnExchange`. What a
link carries is compared through the positions at which the log accepted it:
`QueueInv` orders both queues and puts what comes back before what goes out,
`SeenInv` puts what a client has received before both. `LastInv` says that `nserid`
is the number of the last command of the log, which is why only a later one sends a
piece of an answer astray, or the number of an asker that has left. The refinement
needs `NumberInv` too: a number belongs to one client at a time and the log has for
each command the number its client got, so that a client reached by the remembered
number is the one served last, or that one has left. A command is taken in the step
that logs it (`TakeStep`) and a piece answered where the agent reads it
(`AnswerStep`); that neither it nor what comes behind it was answered before is
`SeenInv`. Links that come up and go down are not seen.

**NetCmdProofs.** `TypeCorrect`, `PoolIsWhole`, `FramesAreAlive`, `SuccessIsAcked`,
`RepliesAreFreed`, `CallsReturn`, `CommandsAreCalls`. The heart is `AgeInv`: the
used list is in the order of age, and an age plus what is left of the timer never
exceeds two periods, since `netcom_timeoutcb` stops at the first buffer that is
younger than one. A wait lasts longer (`LongWait`), so that no buffer outlasts it
(`OutlastsBuffers`). `WaitInv` says that a task whose waits were left alone has at
most one buffer, for the frame it waits in and as old as its wait, `ResultInv` that
a result is that of an acknowledgement once that buffer is gone, `ReplyInv` the same
of a packet with a version. That early timeouts happen (`netcmd_early`) disturbs
none of it. For the refinement `RunSeen` says what a round of callbacks does to all
tasks at once: the command of each that owns a buffer of the round, and was not
interrupted, is done with the result of that round, and nobody else notices. That a
call returns only from `done` is `WaitInv` again: a task past its wait owns no
buffer.

**ReadBufProofs.** `TypeCorrect`, `Ordered`, `ConsumerIsInSync`, `RoomIsThere`,
`LossIsExplained`, `NothingIsLost`, `BufferIsAQueue`. `StreamInv` describes the
cells between the peer and `rd1_off` as an ordered run of pieces of packets, younger
than all handled; `RingInv` puts the offsets whole packets apart, before and after
the turn, unless a reset has torn a stop; `SavedInv` says what `l0006_netcom_stop`
has read: `rd1_off`, or where the callback, which waits for the lock now, has
turned; `EndInv` says where turns happen and `PendInv` that less than a packet is
left over between callbacks. `RoomIsThere` is arithmetic with the macros: `MaskedIs`
gives their mask third by third. The losses need `FullInv`: a packet that has lost
nothing is in the stream as a whole (`WholeStream`), so that a search that starts at
a header which is not whole starts at a packet already lost. The refinement takes
`ParseStream`, `ParseStreamOff` and `ParseCmd` to `Take`, dropped cells to `Hurt`,
and a refused header with what is skipped behind it to `Lose`.

**NetLinkProofs.** `TypeCorrect`, `LeakFree`, `WriteIsSafe`, `FlagIsExplained`,
`ConnectionIsShared`. `LockInv` says who holds the lock, a writer or the read
callback, `LinkInv` where the object and its bufferevent are, `WriterInv` that a
writer that met neither a disconnect nor the release works with what `nc->bev`
points to. For the refinement `WhoIsIn` says that the one let in is the holder of
the lock, `NobodyMoves` that a step of another thread which leaves the writers alone
leaves `user` and `target` alone, and every step that exchanges or ends the
connection needs the lock, so that nobody is let in (`WritersApart`). The first step
of `l0006_netcom_disconnect`, and the release, which need no lock, make every writer
an outsider at once.

**Model-checked only.** All liveness (outside the prover's reach): `Reclaimed`,
`WriterReturns`, `Reconnects`, `CallEnds`, `CallbackReturns` twice,
`TakenIsAnswered`, `MainReturns`, `BreakEndsLoop`, `WriteReturns`. Every safety
property and every refinement of a run is proved.

## 5. What is not modelled

* Calls of SimuList that nobody makes (`nIgnoreKey` 1, a `pFreeFun`), and its Print.
* `sernet_release`, `devnet_release`, `devcom_release`: main never gets there.
* Memcache: nobody calls it, and `alloc_memcache` cannot return anything, since
  `create_memcache` leaves `unused_count` at 0. Signals: the handler is not
  installed. Log, consoles, checksums, files: output and input only. `include/` of
  `l0001-0` comes from the Linux kernel.
* Heartbeats, priorities and names of tasks; arguments, versions and formatting.
* libevent, the sockets, malloc, clients and devices are modelled by what the code
  relies on, and marked external in `PROJECT.json`.
* Two threads append to the output of one bufferevent that has no lock
  (`agent/devnet.c:172`): a data race inside of libevent.
* An event callback that libevent makes inside of
  `bufferevent_socket_connect_hostname`, under the list lock.
* Sequence numbers in NetCmd, which are counted modulo 256 (`l0006-0/netcom.c:105`):
  a command with the same number may be pending only if 256 are issued within two
  periods. Stream packets that declare fewer bytes than a header and its checksum.

Modelling assumptions to know of: threads in NetCmd run promptly in comparison with
a tick; the loop of NetCmd keeps running; a task is stopped at most once, by one
thread; the memory behind the
cluster's array is taken to be the devices' own; a consumer of the read buffer that
has been overtaken is not followed further, and its own update of `rd2_off`, which is
in no file of the repository, is a single step.

## 6. Plan

What is done is described above. What would come next:

1. Sequence numbers in NetCmd, modulo a small number, with the bound on commands
   that keeps them apart.
