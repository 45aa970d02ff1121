---------------------------- MODULE NetCmdProofs ----------------------------
(***************************************************************************)
(* Commands and acknowledgements for any number of tasks and of write      *)
(* buffers and any timeouts: the pool stays whole, no result is stored in  *)
(* a stack frame that is gone, success is never reported without its       *)
(* acknowledgement, and every call returns in time.                        *)
(*                                                                         *)
(* The heart is AgeInv: netcom_timeoutcb leaves no buffer older than a     *)
(* period, so none ever gets older than two, and a wait lasts longer.      *)
(***************************************************************************)
EXTENDS NetCmd, FiniteSetTheorems, WellFoundedInduction, TLAPS

-----------------------------------------------------------------------------
\* The two lists have the buffers between them.
PoolInv ==
    /\ IsInjective(unused) /\ IsInjective(used)
    /\ Range(unused) \cap Range(used) = {}
    /\ Range(unused) \cup Range(used) = Bufs
    /\ \A b \in Bufs : b \in Range(used) <=> act[b] # NoAct

\* The used buffers are in the order of their age, and older than two periods
\* never, with what is left of the timer counted in.
AgeInv ==
    \A i \in 1 .. Len(used) :
        /\ act[used[i]].age + timer <= 2 * (Period * Sec)
        /\ \A j \in 1 .. Len(used) : i < j => act[used[j]].age <= act[used[i]].age

\* Where a task is, and for how long.
CallInv ==
    \A w \in Tasks :
        /\ pc[w] # "idle" => depth[w] \in 1 .. 2 /\ fn[w] \in Functions
        /\ depth[w] = 2 => fn[w] = "mode"
        /\ pc[w] \in {"write", "wait"} => age[w] = 0
        /\ pc[w] = "asleep" => age[w] + left[w] <= (CmdTimeout + 2) * Sec
        /\ pc[w] = "return" => age[w] <= (CmdTimeout + 2) * Sec

Owned(w) == {b \in Bufs : act[b].who = w}

\* A buffer of a task is that of the command the task waits for.
WaitInv ==
    \A w \in Tasks : ~ cut[w] =>
        /\ \A b \in Owned(w) :
              /\ pc[w] \in {"wait", "asleep"}
              /\ act[b].frame = depth[w] /\ act[b].age = age[w]
              /\ act[b].fn = IF depth[w] = 2 THEN "command" ELSE fn[w]
        /\ \A b, c \in Owned(w) : b = c

\* The result is that of an acknowledgement once the buffer is gone.
ResultInv ==
    \A w \in Tasks : ~ cut[w] =>
        /\ pc[w] \in {"wait", "asleep", "return"} /\ outret[w][depth[w]] = "SUCCESS" =>
              depth[w] \in acked[w] \/ Owned(w) # {}
        /\ depth[w] = 2 /\ outret[w][1] = "SUCCESS" => 1 \in acked[w]

\* A packet that was allocated comes with a result that says so.
ReplyInv ==
    \A w \in Tasks : ~ cut[w] =>
        /\ reply[w] # "lost"
        /\ reply[w] = "held" =>
              /\ pc[w] \in {"wait", "asleep", "return"} /\ fn[w] = "version"
              /\ outret[w][1] = "SUCCESS" /\ Owned(w) = {}

IInv == TypeOK /\ PoolInv /\ AgeInv /\ CallInv /\ WaitInv /\ ResultInv /\ ReplyInv

-----------------------------------------------------------------------------
LEMMA Numbers ==
    /\ Sec \in Nat /\ Sec > 0 /\ Period \in Nat /\ CmdTimeout \in Nat
    /\ Period * Sec \in Nat /\ Period * Sec > 0 /\ 2 * (Period * Sec) \in Nat
    /\ (CmdTimeout + 2) * Sec \in Nat /\ (CmdTimeout + 1) * Sec \in Nat
    /\ (CmdTimeout + 2) * Sec = (CmdTimeout + 1) * Sec + Sec
    /\ 2 * (Period * Sec) < (CmdTimeout + 1) * Sec
<1>1. /\ Sec \in Nat /\ Sec > 0 /\ Period \in Nat /\ Period > 0 /\ CmdTimeout \in Nat
      /\ 2 * Period < CmdTimeout
  BY NetCmdAssumption
<1>2. Period * Sec \in Nat /\ Period * Sec > 0
  BY <1>1
<1>3. (CmdTimeout + 2) * Sec = (CmdTimeout + 1) * Sec + Sec /\ (CmdTimeout + 1) * Sec \in Nat
  BY <1>1
<1>4. 2 * (Period * Sec) < (CmdTimeout + 1) * Sec
  <2>1. PICK k \in Nat : CmdTimeout + 1 = 2 * Period + k + 1
    <3>1. CmdTimeout - 2 * Period \in Nat /\ CmdTimeout + 1 = 2 * Period + (CmdTimeout - 2 * Period) + 1
      BY <1>1
    <3> QED BY <3>1
  <2>2. (2 * Period + k + 1) * Sec = 2 * (Period * Sec) + k * Sec + Sec
    BY <1>1
  <2>3. k * Sec \in Nat
    BY <1>1
  <2> QED BY <1>1, <1>2, <2>1, <2>2, <2>3
<1> QED BY <1>1, <1>2, <1>3, <1>4

LEMMA FullSeconds ==
    ASSUME NEW n \in Nat, NEW s \in Nat, s > 0, NEW c \in Nat, n \div s > c
    PROVE  n >= (c + 1) * s
  OBVIOUS

LEMMA FewSeconds ==
    ASSUME NEW n \in Nat, NEW s \in Nat, s > 0, NEW c \in Nat, n \div s <= c
    PROVE  n < (c + 1) * s
  OBVIOUS

\* A wait that is over has taken longer than any buffer may be used.
LEMMA LongWait ==
    ASSUME NEW n \in Nat
    PROVE  /\ SecondElapsed(n) > CmdTimeout => n > 2 * (Period * Sec)
           /\ SecondElapsed(n) <= CmdTimeout => n + Sec <= (CmdTimeout + 2) * Sec
           /\ SecondElapsed(n) \in Int
<1>1. Sec \in Nat /\ Sec > 0 /\ CmdTimeout \in Nat /\ SecondElapsed(n) \in Int
  BY Numbers DEF SecondElapsed
<1>2. ASSUME SecondElapsed(n) > CmdTimeout PROVE n > 2 * (Period * Sec)
  <2>1. n >= (CmdTimeout + 1) * Sec
    BY <1>1, <1>2, FullSeconds DEF SecondElapsed
  <2> QED BY <2>1, Numbers
<1>3. ASSUME SecondElapsed(n) <= CmdTimeout PROVE n + Sec <= (CmdTimeout + 2) * Sec
  <2>1. n < (CmdTimeout + 1) * Sec
    BY <1>1, <1>3, FewSeconds DEF SecondElapsed
  <2> QED BY <2>1, Numbers
<1> QED BY <1>1, <1>2, <1>3

\* A buffer has an action, of a task, or it has none.
LEMMA ActIs ==
    ASSUME TypeOK, NEW b \in Bufs
    PROVE  \/ /\ act[b] # NoAct /\ act[b] \in Action /\ act[b].who \in Tasks
              /\ act[b].frame \in 0 .. 2 /\ act[b].fn \in Functions /\ act[b].age \in Nat
           \/ /\ act[b] = NoAct /\ act[b].who = None /\ act[b].who \notin Tasks
  BY NetCmdAssumption DEF TypeOK, Action, NoAct

LEMMA UsedAct ==
    ASSUME TypeOK, PoolInv, NEW i \in 1 .. Len(used)
    PROVE  /\ used[i] \in Bufs /\ used[i] \in Range(used) /\ act[used[i]] # NoAct
           /\ act[used[i]].age \in Nat /\ act[used[i]].who \in Tasks
<1>1. used[i] \in Bufs /\ used[i] \in Range(used)
  BY DEF TypeOK, Range
<1>2. act[used[i]] # NoAct
  BY <1>1 DEF PoolInv
<1> QED BY <1>1, <1>2, ActIs

LEMMA InitInv == Init => IInv
<1> SUFFICES ASSUME Init PROVE IInv
  OBVIOUS
<1> USE DEF Init
<1>1. <<>> \in Seq(Bufs) /\ Len(<<>>) = 0 /\ Range(<<>>) = {} /\ IsInjective(<<>>)
  BY DEF Range, IsInjective
<1>2. Cardinality(Bufs) \in Nat /\ IsFiniteSet(Bufs)
  BY NetCmdAssumption, FS_CardinalityType
<1>3. unused \in [1 .. Cardinality(Bufs) -> Bufs] /\ IsInjective(unused)
  OBVIOUS
<1>4. unused \in Seq(Bufs)
  BY <1>2, <1>3
<1>5. Range(unused) = Bufs
  <2>1. unused \in Injection(1 .. Cardinality(Bufs), Bufs)
    BY <1>3 DEF Injection
  <2>2. Cardinality(1 .. Cardinality(Bufs)) = Cardinality(Bufs)
    BY <1>2, FS_Interval
  <2>3. unused \in Surjection(1 .. Cardinality(Bufs), Bufs)
    BY <1>2, <2>1, <2>2, FS_Injection
  <2> QED BY <1>3, <2>3 DEF Surjection, Range
<1>6. TypeOK
  <2>1. aborted \in [Tasks -> BOOLEAN] /\ cut \in [Tasks -> BOOLEAN] /\ connected \in BOOLEAN
    BY Zenon
  <2>2. <<"UNSET", "UNSET">> \in [1 .. 2 -> Results]
    BY DEF Results
  <2>3. now \in 0 .. Sec - 1 /\ timer \in 0 .. Period * Sec
    BY Numbers
  <2>4. /\ act \in [Bufs -> Action \cup {NoAct}]
        /\ pc \in [Tasks -> {"idle", "write", "wait", "asleep", "return"}]
        /\ fn \in [Tasks -> Functions \cup {"none"}]
        /\ depth \in [Tasks -> 0 .. 2]
        /\ outret \in [Tasks -> [1 .. 2 -> Results]]
        /\ reply \in [Tasks -> {"none", "held", "lost"}]
        /\ age \in [Tasks -> Nat]
        /\ left \in [Tasks -> 0 .. Sec]
        /\ acked \in [Tasks -> SUBSET (1 .. 2)]
    BY <2>2, Numbers
  <2> QED BY <1>1, <1>4, <2>1, <2>3, <2>4 DEF TypeOK
<1>7. PoolInv
  BY <1>1, <1>3, <1>5 DEF PoolInv
<1>8. AgeInv
  BY <1>1 DEF AgeInv
<1>9. CallInv
  BY DEF CallInv
<1>10. \A w \in Tasks : Owned(w) = {}
  <2>1. \A b \in Bufs : act[b].who \notin Tasks
    BY <1>6, ActIs
  <2> QED BY <2>1 DEF Owned
<1>11. WaitInv /\ ResultInv /\ ReplyInv
  BY <1>10 DEF WaitInv, ResultInv, ReplyInv
<1> QED BY <1>6, <1>7, <1>8, <1>9, <1>11 DEF IInv

-----------------------------------------------------------------------------
\* Steps that leave the lists alone

LEMMA PoolKept ==
    ASSUME PoolInv, unused' = unused, used' = used,
           \A b \in Bufs : act'[b] # NoAct <=> act[b] # NoAct
    PROVE  PoolInv'
  BY DEF PoolInv, IsInjective, Range

LEMMA AgeKept ==
    ASSUME TypeOK, PoolInv, AgeInv, used' = used, timer' = timer,
           \A b \in Bufs : act[b] # NoAct => act'[b].age = act[b].age
    PROVE  AgeInv'
<1>1. \A i \in 1 .. Len(used) : act'[used[i]].age = act[used[i]].age
  BY UsedAct
<1> QED BY <1>1 DEF AgeInv

\* The tasks and the lists stay as they are.
LEMMA StillStep ==
    ASSUME IInv, UNCHANGED <<clock, lists, task>>, connected' \in BOOLEAN,
           aborted' \in [Tasks -> BOOLEAN]
    PROVE  IInv'
<1> USE DEF IInv, clock, lists, task, frames, waits
<1>1. cut' \in [Tasks -> BOOLEAN]
  BY Zenon DEF TypeOK
<1>2. TypeOK'
  BY <1>1 DEF TypeOK
<1>3. PoolInv'
  BY PoolKept
<1>4. AgeInv'
  BY AgeKept
<1>5. CallInv' /\ WaitInv' /\ ResultInv' /\ ReplyInv'
  BY DEF CallInv, WaitInv, ResultInv, ReplyInv, Owned
<1> QED BY <1>2, <1>3, <1>4, <1>5

LEMMA TickStep == IInv /\ Tick => IInv'
<1> SUFFICES ASSUME IInv, Tick PROVE IInv'
  OBVIOUS
<1>1. TypeOK /\ PoolInv /\ AgeInv /\ CallInv /\ WaitInv /\ ResultInv /\ ReplyInv
  BY DEF IInv
<1>2. /\ unused' = unused /\ used' = used /\ pc' = pc /\ fn' = fn /\ depth' = depth
      /\ outret' = outret /\ reply' = reply /\ aborted' = aborted /\ acked' = acked /\ cut' = cut
      /\ connected' = connected
      /\ timer > 0 /\ timer' = timer - 1 /\ now' = (now + 1) % Sec
      /\ \A w \in Tasks : pc[w] = "idle" \/ (pc[w] = "asleep" /\ left[w] > 0)
      /\ age' = [w \in Tasks |-> IF pc[w] = "idle" THEN 0 ELSE age[w] + 1]
      /\ left' = [w \in Tasks |-> IF pc[w] = "asleep" THEN left[w] - 1 ELSE 0]
  BY DEF Tick, frames
<1>3. \A b \in Bufs : act'[b] = IF act[b] = NoAct THEN NoAct
                                ELSE [act[b] EXCEPT !.age = act[b].age + 1]
  BY DEF Tick
<1>4. ASSUME NEW b \in Bufs, act[b] # NoAct
      PROVE  /\ act'[b] \in Action /\ act'[b] # NoAct /\ act'[b].who = act[b].who
             /\ act'[b].frame = act[b].frame /\ act'[b].fn = act[b].fn
             /\ act'[b].age = act[b].age + 1 /\ act[b].age \in Nat
  <2>1. act[b] \in Action /\ act[b].who \in Tasks
    BY <1>1, <1>4, ActIs
  <2>2. act'[b] = [act[b] EXCEPT !.age = act[b].age + 1]
    BY <1>3, <1>4
  <2>3. /\ act'[b] \in Action /\ act'[b].who = act[b].who /\ act'[b].frame = act[b].frame
        /\ act'[b].fn = act[b].fn /\ act'[b].age = act[b].age + 1 /\ act[b].age \in Nat
    BY <2>1, <2>2 DEF Action
  <2>4. NoAct.who \notin Tasks
    BY NetCmdAssumption DEF NoAct
  <2> QED BY <2>1, <2>3, <2>4
<1>5. \A b \in Bufs : act[b] = NoAct => act'[b] = NoAct
  BY <1>3
<1>6. \A w \in Tasks : Owned(w)' = Owned(w)
  <2>1. NoAct.who \notin Tasks
    BY NetCmdAssumption DEF NoAct
  <2>2. ASSUME NEW w \in Tasks, NEW b \in Bufs PROVE act'[b].who = w <=> act[b].who = w
    BY <1>4, <1>5
  <2> QED BY <2>2 DEF Owned
<1>7. TypeOK'
  <2>1. aborted' \in [Tasks -> BOOLEAN] /\ cut' \in [Tasks -> BOOLEAN] /\ connected' \in BOOLEAN
    BY <1>1, <1>2, Zenon DEF TypeOK
  <2>2. now' \in 0 .. Sec - 1
    <3>1. now + 1 \in Int /\ Sec \in Nat /\ Sec > 0
      BY <1>1, Numbers DEF TypeOK
    <3>2. (now + 1) % Sec \in 0 .. Sec - 1
      BY <3>1
    <3> QED BY <1>2, <3>2
  <2>3. timer' \in 0 .. Period * Sec
    <3>1. timer \in 0 .. Period * Sec /\ Period * Sec \in Nat
      BY <1>1, Numbers DEF TypeOK
    <3> QED BY <1>2, <3>1
  <2>4. age' \in [Tasks -> Nat]
    BY <1>1, <1>2 DEF TypeOK
  <2>5. left' \in [Tasks -> 0 .. Sec]
    <3>1. Sec \in Nat /\ \A w \in Tasks : left[w] \in 0 .. Sec
      BY <1>1, Numbers DEF TypeOK
    <3>2. \A w \in Tasks : (IF pc[w] = "asleep" THEN left[w] - 1 ELSE 0) \in 0 .. Sec
      BY <1>2, <3>1
    <3> QED BY <1>2, <3>2
  <2>6. act' \in [Bufs -> Action \cup {NoAct}]
    BY <1>4, <1>5 DEF Tick
  <2> QED BY <1>1, <1>2, <2>1, <2>2, <2>3, <2>4, <2>5, <2>6 DEF TypeOK
<1>8. PoolInv'
  BY <1>1, <1>2, <1>4, <1>5, PoolKept
<1>9. AgeInv'
  <2> SUFFICES ASSUME NEW i \in 1 .. Len(used)
               PROVE  /\ act'[used[i]].age + timer' <= 2 * (Period * Sec)
                      /\ \A j \in 1 .. Len(used) : i < j => act'[used[j]].age <= act'[used[i]].age
    BY <1>2 DEF AgeInv
  <2>1. \A k \in 1 .. Len(used) : /\ act'[used[k]].age = act[used[k]].age + 1
                                  /\ act[used[k]].age \in Nat
    BY <1>1, <1>4, UsedAct
  <2>2. act'[used[i]].age + timer' <= 2 * (Period * Sec)
    <3>1. act[used[i]].age + timer <= 2 * (Period * Sec) /\ timer \in Int
      BY <1>1 DEF AgeInv, TypeOK
    <3> QED BY <1>2, <2>1, <3>1, Numbers
  <2>3. ASSUME NEW j \in 1 .. Len(used), i < j PROVE act'[used[j]].age <= act'[used[i]].age
    <3>1. act[used[j]].age <= act[used[i]].age
      BY <1>1, <2>3 DEF AgeInv
    <3> QED BY <2>1, <3>1
  <2> QED BY <2>2, <2>3
<1>10. CallInv'
  <2> SUFFICES ASSUME NEW w \in Tasks
               PROVE  /\ pc[w] # "idle" => depth[w] \in 1 .. 2 /\ fn[w] \in Functions
                      /\ depth[w] = 2 => fn[w] = "mode"
                      /\ pc[w] \in {"write", "wait"} => age'[w] = 0
                      /\ pc[w] = "asleep" => age'[w] + left'[w] <= (CmdTimeout + 2) * Sec
                      /\ pc[w] = "return" => age'[w] <= (CmdTimeout + 2) * Sec
    BY <1>2 DEF CallInv
  <2>1. age[w] \in Nat /\ left[w] \in Int
    BY <1>1 DEF TypeOK
  <2> QED BY <1>1, <1>2, <2>1, Numbers DEF CallInv
<1>11. WaitInv'
  <2> SUFFICES ASSUME NEW w \in Tasks, ~ cut[w]
               PROVE  /\ \A b \in Owned(w) :
                             /\ pc[w] \in {"wait", "asleep"}
                             /\ act'[b].frame = depth[w] /\ act'[b].age = age'[w]
                             /\ act'[b].fn = IF depth[w] = 2 THEN "command" ELSE fn[w]
                      /\ \A b, c \in Owned(w) : b = c
    BY <1>2, <1>6 DEF WaitInv
  <2>1. ASSUME NEW b \in Owned(w)
        PROVE  /\ pc[w] \in {"wait", "asleep"}
               /\ act'[b].frame = depth[w] /\ act'[b].age = age'[w]
               /\ act'[b].fn = IF depth[w] = 2 THEN "command" ELSE fn[w]
    <3>1. /\ pc[w] \in {"wait", "asleep"} /\ act[b].frame = depth[w] /\ act[b].age = age[w]
          /\ act[b].fn = IF depth[w] = 2 THEN "command" ELSE fn[w]
      BY <1>1 DEF WaitInv
    <3>2. b \in Bufs /\ act[b] # NoAct
      BY <1>1, ActIs DEF Owned
    <3>3. age'[w] = age[w] + 1
      BY <1>2, <3>1
    <3> QED BY <1>4, <3>1, <3>2, <3>3
  <2> QED BY <1>1, <2>1 DEF WaitInv
<1>12. ResultInv' /\ ReplyInv'
  BY <1>1, <1>2, <1>6 DEF ResultInv, ReplyInv
<1> QED BY <1>7, <1>8, <1>9, <1>10, <1>11, <1>12 DEF IInv

-----------------------------------------------------------------------------
\* The task

\* A command begins: in a function that is called or in the beep of a mode.
LEMMA CommandStep ==
    ASSUME IInv, NEW w \in Tasks, NEW f \in Functions, NEW d \in 1 .. 2, Command(w, f, d),
           UNCHANGED <<clock, connected, lists, reply, left, aborted, cut>>,
           pc[w] \in {"idle", "return"}, pc[w] = "return" => reply[w] # "held" \/ cut[w],
           d = 2 => f = "mode",
           d = 2 /\ ~ cut[w] /\ outret[w][1] = "SUCCESS" => 1 \in acked[w]
    PROVE  IInv'
<1>1. TypeOK /\ PoolInv /\ AgeInv /\ CallInv /\ WaitInv /\ ResultInv /\ ReplyInv
  BY DEF IInv
<1>2. /\ unused' = unused /\ used' = used /\ act' = act /\ now' = now /\ timer' = timer
      /\ connected' = connected /\ reply' = reply /\ left' = left /\ aborted' = aborted
      /\ cut' = cut
  BY DEF clock, lists
<1>3. /\ \A x \in Tasks : fn'[x] = IF x = w THEN f ELSE fn[x]
      /\ \A x \in Tasks : depth'[x] = IF x = w THEN d ELSE depth[x]
      /\ \A x \in Tasks : age'[x] = IF x = w THEN 0 ELSE age[x]
      /\ \A x \in Tasks : pc'[x] = IF x = w THEN "write" ELSE pc[x]
      /\ \A x \in Tasks : acked'[x] = IF x = w THEN acked[w] \ {d} ELSE acked[x]
  BY <1>1 DEF Command, TypeOK
<1>4. /\ \A x \in Tasks : x # w => outret'[x] = outret[x]
      /\ d = 2 => outret'[w][1] = outret[w][1]
  BY <1>1 DEF Command, TypeOK
<1>5. TypeOK'
  <2>1. aborted' \in [Tasks -> BOOLEAN] /\ cut' \in [Tasks -> BOOLEAN] /\ connected' \in BOOLEAN
    BY <1>1, <1>2, Zenon DEF TypeOK
  <2>2. /\ fn' \in [Tasks -> Functions \cup {"none"}] /\ depth' \in [Tasks -> 0 .. 2]
        /\ age' \in [Tasks -> Nat] /\ pc' \in [Tasks -> {"idle", "write", "wait", "asleep", "return"}]
        /\ acked' \in [Tasks -> SUBSET (1 .. 2)]
    BY <1>1 DEF Command, TypeOK
  <2>3. outret' \in [Tasks -> [1 .. 2 -> Results]]
    <3>1. (IF f = "version" THEN "UNSET" ELSE "SUCCESS") \in Results
      BY DEF Results
    <3> QED BY <1>1, <3>1 DEF Command, TypeOK
  <2> QED BY <1>1, <1>2, <2>1, <2>2, <2>3 DEF TypeOK
<1>6. PoolInv' /\ AgeInv'
  BY <1>1, <1>2, PoolKept, AgeKept
<1>7. CallInv'
  BY <1>1, <1>2, <1>3 DEF CallInv
<1>8. \A x \in Tasks : Owned(x)' = Owned(x)
  BY <1>2 DEF Owned
<1>9. WaitInv'
  <2>1. ~ cut[w] => Owned(w) = {}
    BY <1>1 DEF WaitInv
  <2> QED BY <1>1, <1>2, <1>3, <1>8, <2>1 DEF WaitInv
<1>10. ResultInv'
  <2> SUFFICES ASSUME NEW x \in Tasks, ~ cut[x]
               PROVE  /\ pc'[x] \in {"wait", "asleep", "return"} /\ outret'[x][depth'[x]] = "SUCCESS"
                            => depth'[x] \in acked'[x] \/ Owned(x) # {}
                      /\ depth'[x] = 2 /\ outret'[x][1] = "SUCCESS" => 1 \in acked'[x]
    BY <1>2, <1>8 DEF ResultInv
  <2>1. CASE x = w
    BY <1>3, <1>4, <2>1
  <2>2. CASE x # w
    BY <1>1, <1>3, <1>4, <2>2 DEF ResultInv
  <2> QED BY <2>1, <2>2
<1>11. ReplyInv'
  <2> SUFFICES ASSUME NEW x \in Tasks, ~ cut[x]
               PROVE  /\ reply[x] # "lost"
                      /\ reply[x] = "held" =>
                            /\ pc'[x] \in {"wait", "asleep", "return"} /\ fn'[x] = "version"
                            /\ outret'[x][1] = "SUCCESS" /\ Owned(x) = {}
    BY <1>2, <1>8 DEF ReplyInv
  <2>1. CASE x = w
    BY <1>1, <2>1 DEF ReplyInv
  <2>2. CASE x # w
    BY <1>1, <1>3, <1>4, <2>2 DEF ReplyInv
  <2> QED BY <2>1, <2>2
<1> QED BY <1>5, <1>6, <1>7, <1>9, <1>10, <1>11 DEF IInv

LEMMA CallStep == ASSUME NEW w \in Tasks, NEW f \in MayCall[w], IInv, Call(w, f) PROVE IInv'
<1>1. f \in Functions
  BY NetCmdAssumption
<1>2. /\ Command(w, f, 1) /\ pc[w] = "idle" /\ 1 \in 1 .. 2
      /\ UNCHANGED <<clock, connected, lists, reply, left, aborted, cut>>
  BY DEF Call
<1> QED BY <1>1, <1>2, CommandStep

LEMMA BeepStep == ASSUME NEW w \in Tasks, IInv, Beep(w) PROVE IInv'
<1>1. /\ Command(w, "mode", 2) /\ pc[w] = "return" /\ 2 \in 1 .. 2 /\ "mode" \in Functions
      /\ fn[w] = "mode" /\ depth[w] = 1
      /\ UNCHANGED <<clock, connected, lists, reply, left, aborted, cut>>
  BY DEF Beep, BeepDue, Functions
<1>2. reply[w] # "held" \/ cut[w]
  BY <1>1 DEF IInv, ReplyInv
<1>3. ~ cut[w] /\ outret[w][1] = "SUCCESS" => 1 \in acked[w]
  BY <1>1 DEF IInv, ResultInv, WaitInv
<1> QED BY <1>1, <1>2, <1>3, CommandStep

LEMMA WriteStep == ASSUME NEW w \in Tasks, IInv, Write(w) PROVE IInv'
<1>1. TypeOK /\ PoolInv /\ AgeInv /\ CallInv /\ WaitInv /\ ResultInv /\ ReplyInv
  BY DEF IInv
<1> DEFINE h == Head(unused)
           fr == Frame(w)
<1>2. /\ pc[w] = "write" /\ unused # <<>> /\ act' = [act EXCEPT ![h] = fr]
      /\ used' = Append(used, h) /\ unused' = Tail(unused)
      /\ pc' = [pc EXCEPT ![w] = "wait"]
      /\ now' = now /\ timer' = timer /\ connected' = connected /\ fn' = fn /\ depth' = depth
      /\ outret' = outret /\ reply' = reply /\ age' = age /\ left' = left /\ aborted' = aborted
      /\ acked' = acked /\ cut' = cut
  BY DEF Write, clock, frames, waits
<1>3. /\ unused \in Seq(Bufs) /\ used \in Seq(Bufs) /\ Len(unused) \in Nat /\ Len(unused) >= 1
      /\ Len(used) \in Nat /\ h = unused[1] /\ h \in Bufs /\ h \in Range(unused)
      /\ h \notin Range(used) /\ act[h] = NoAct
  <2>1. /\ unused \in Seq(Bufs) /\ used \in Seq(Bufs) /\ Len(used) \in Nat
    BY <1>1 DEF TypeOK
  <2>2. Len(unused) \in Nat /\ Len(unused) >= 1 /\ h = unused[1] /\ h \in Bufs
    BY <1>2, <2>1
  <2>3. h \in Range(unused)
    BY <2>1, <2>2 DEF Range
  <2>4. h \notin Range(used) /\ act[h] = NoAct
    BY <1>1, <2>2, <2>3 DEF PoolInv
  <2> QED BY <2>1, <2>2, <2>3, <2>4
<1>4. /\ fr \in Action /\ fr.who = w /\ fr.frame = depth[w] /\ fr.age = 0 /\ fr # NoAct
      /\ fr.fn = IF depth[w] = 2 THEN "command" ELSE fn[w]
  <2>1. depth[w] \in 1 .. 2 /\ fn[w] \in Functions
    BY <1>1, <1>2 DEF CallInv
  <2>2. "command" \in Functions /\ NoAct.who \notin Tasks
    BY NetCmdAssumption DEF Functions, NoAct
  <2>3. /\ fr.who = w /\ fr.frame = depth[w] /\ fr.age = 0
        /\ fr.fn = IF depth[w] = 2 THEN "command" ELSE fn[w]
    BY DEF Frame
  <2>4. fr \in Action
    BY <2>1, <2>2 DEF Frame, Action
  <2> QED BY <2>2, <2>3, <2>4
<1> HIDE DEF h, fr
<1>5. \A b \in Bufs : act'[b] = IF b = h THEN fr ELSE act[b]
  BY <1>1, <1>2 DEF TypeOK
<1>6. /\ used' \in Seq(Bufs) /\ Len(used') = Len(used) + 1
      /\ \A i \in 1 .. Len(used) : used'[i] = used[i]
      /\ used'[Len(used) + 1] = h
  BY <1>2, <1>3
<1>7. /\ unused' \in Seq(Bufs) /\ Len(unused') = Len(unused) - 1
      /\ \A i \in 1 .. Len(unused) - 1 : unused'[i] = unused[i + 1]
  BY <1>2, <1>3
<1>8. TypeOK'
  <2>1. aborted' \in [Tasks -> BOOLEAN] /\ cut' \in [Tasks -> BOOLEAN] /\ connected' \in BOOLEAN
    BY <1>1, <1>2, Zenon DEF TypeOK
  <2>2. act' \in [Bufs -> Action \cup {NoAct}]
    BY <1>1, <1>2, <1>4 DEF TypeOK
  <2> QED BY <1>1, <1>2, <1>6, <1>7, <2>1, <2>2 DEF TypeOK
<1>9. Range(used') = Range(used) \cup {h}
  <2>1. DOMAIN used = 1 .. Len(used) /\ DOMAIN used' = 1 .. Len(used) + 1
    BY <1>3, <1>6
  <2> QED BY <1>3, <1>6, <2>1 DEF Range
<1>10. Range(unused') = Range(unused) \ {h} /\ IsInjective(unused')
  <2>1. DOMAIN unused = 1 .. Len(unused) /\ DOMAIN unused' = 1 .. Len(unused) - 1
    BY <1>3, <1>7
  <2>2. \A i, j \in 1 .. Len(unused) : unused[i] = unused[j] => i = j
    BY <1>1, <2>1 DEF PoolInv, IsInjective
  <2>3. \A i \in 1 .. Len(unused) - 1 : i + 1 \in 1 .. Len(unused) /\ i + 1 # 1
    BY <1>3
  <2>4. IsInjective(unused')
    BY <1>3, <1>7, <2>1, <2>2, <2>3 DEF IsInjective
  <2>5. ASSUME NEW b \in Range(unused') PROVE b \in Range(unused) \ {h}
    BY <1>3, <1>7, <2>1, <2>2, <2>3, SMTT(30) DEF Range
  <2>6. ASSUME NEW b \in Range(unused), b # h PROVE b \in Range(unused')
    <3>1. PICK i \in 1 .. Len(unused) : unused[i] = b
      BY <2>1 DEF Range
    <3>2. i - 1 \in 1 .. Len(unused) - 1 /\ (i - 1) + 1 = i
      BY <1>3, <2>6, <3>1
    <3> QED BY <1>7, <2>1, <3>1, <3>2 DEF Range
  <2> QED BY <2>4, <2>5, <2>6
<1>11. IsInjective(used')
  <2>1. DOMAIN used = 1 .. Len(used) /\ DOMAIN used' = 1 .. Len(used) + 1
    BY <1>3, <1>6
  <2>2. \A i, j \in 1 .. Len(used) : used[i] = used[j] => i = j
    BY <1>1, <2>1 DEF PoolInv, IsInjective
  <2>3. \A i \in 1 .. Len(used) : used[i] # h
    BY <1>3, <2>1 DEF Range
  <2> QED BY <1>3, <1>6, <2>1, <2>2, <2>3 DEF IsInjective
<1>12. PoolInv'
  <2>1. Range(unused') \cap Range(used') = {} /\ Range(unused') \cup Range(used') = Bufs
    BY <1>1, <1>3, <1>9, <1>10 DEF PoolInv
  <2>2. \A b \in Bufs : b \in Range(used') <=> act'[b] # NoAct
    BY <1>1, <1>4, <1>5, <1>9 DEF PoolInv
  <2> QED BY <1>10, <1>11, <2>1, <2>2 DEF PoolInv
<1>13. AgeInv'
  <2>1. \A i \in 1 .. Len(used) : used[i] # h /\ used[i] \in Bufs /\ act[used[i]].age \in Nat
    <3>1. \A i \in 1 .. Len(used) : used[i] \in Range(used)
      BY <1>3 DEF Range
    <3> QED BY <1>1, <1>3, <3>1, UsedAct
  <2>2. \A i \in 1 .. Len(used) : act'[used'[i]] = act[used[i]]
    BY <1>5, <1>6, <2>1
  <2>3. act'[used'[Len(used) + 1]].age = 0
    BY <1>3, <1>4, <1>5, <1>6
  <2>4. timer \in Nat /\ timer <= 2 * (Period * Sec)
    BY <1>1, Numbers DEF TypeOK
  <2> SUFFICES ASSUME NEW i \in 1 .. Len(used')
               PROVE  /\ act'[used'[i]].age + timer <= 2 * (Period * Sec)
                      /\ \A j \in 1 .. Len(used') : i < j => act'[used'[j]].age <= act'[used'[i]].age
    BY <1>2 DEF AgeInv
  <2>5. CASE i \in 1 .. Len(used)
    <3>1. act[used[i]].age + timer <= 2 * (Period * Sec) /\ act[used[i]].age \in Nat
      BY <1>1, <2>1, <2>5 DEF AgeInv
    <3>2. ASSUME NEW j \in 1 .. Len(used'), i < j PROVE act'[used'[j]].age <= act'[used'[i]].age
      <4>1. CASE j \in 1 .. Len(used)
        <5>1. act[used[j]].age <= act[used[i]].age
          BY <1>1, <2>5, <3>2, <4>1 DEF AgeInv
        <5> QED BY <2>2, <2>5, <4>1, <5>1
      <4>2. CASE j = Len(used) + 1
        BY <2>2, <2>3, <2>5, <3>1, <4>2
      <4> QED BY <1>3, <1>6, <4>1, <4>2
    <3> QED BY <2>2, <2>5, <3>1, <3>2
  <2>6. CASE i = Len(used) + 1
    <3>1. \A j \in 1 .. Len(used') : ~ (i < j)
      BY <1>3, <1>6, <2>6
    <3> QED BY <2>3, <2>4, <2>6, <3>1
  <2> QED BY <1>3, <1>6, <2>5, <2>6
<1>14. \A x \in Tasks : Owned(x)' = IF x = w THEN Owned(w) \cup {h} ELSE Owned(x)
  <2>1. act[h].who \notin Tasks
    BY <1>3, NetCmdAssumption DEF NoAct
  <2> QED BY <1>3, <1>4, <1>5, <2>1 DEF Owned
<1>15. ~ cut[w] => Owned(w) = {}
  BY <1>1, <1>2 DEF WaitInv
<1>16. \A x \in Tasks : pc'[x] = IF x = w THEN "wait" ELSE pc[x]
  BY <1>1, <1>2 DEF TypeOK
<1>17. CallInv'
  BY <1>1, <1>2, <1>16 DEF CallInv
<1>18. WaitInv'
  <2> SUFFICES ASSUME NEW x \in Tasks, ~ cut[x]
               PROVE  /\ \A b \in Owned(x)' :
                             /\ pc'[x] \in {"wait", "asleep"}
                             /\ act'[b].frame = depth[x] /\ act'[b].age = age[x]
                             /\ act'[b].fn = IF depth[x] = 2 THEN "command" ELSE fn[x]
                      /\ \A b, c \in Owned(x)' : b = c
    BY <1>2 DEF WaitInv
  <2>1. CASE x = w
    <3>1. Owned(x)' = {h} /\ pc'[x] = "wait" /\ act'[h] = fr /\ age[x] = 0
      BY <1>1, <1>2, <1>3, <1>5, <1>14, <1>15, <1>16, <2>1 DEF CallInv
    <3> QED BY <1>4, <2>1, <3>1
  <2>2. CASE x # w
    <3>1. Owned(x)' = Owned(x) /\ pc'[x] = pc[x]
      BY <1>14, <1>16, <2>2
    <3>2. \A b \in Owned(x) : act'[b] = act[b]
      <4>1. act[h].who \notin Tasks
        BY <1>3, NetCmdAssumption DEF NoAct
      <4> QED BY <1>5, <4>1 DEF Owned
    <3> QED BY <1>1, <3>1, <3>2 DEF WaitInv
  <2> QED BY <2>1, <2>2
<1>19. ResultInv'
  <2> SUFFICES ASSUME NEW x \in Tasks, ~ cut[x]
               PROVE  /\ pc'[x] \in {"wait", "asleep", "return"} /\ outret[x][depth[x]] = "SUCCESS"
                            => depth[x] \in acked[x] \/ Owned(x)' # {}
                      /\ depth[x] = 2 /\ outret[x][1] = "SUCCESS" => 1 \in acked[x]
    BY <1>2 DEF ResultInv
  <2>1. CASE x = w
    BY <1>1, <1>14, <2>1 DEF ResultInv
  <2>2. CASE x # w
    BY <1>1, <1>14, <1>16, <2>2 DEF ResultInv
  <2> QED BY <2>1, <2>2
<1>20. ReplyInv'
  <2> SUFFICES ASSUME NEW x \in Tasks, ~ cut[x]
               PROVE  /\ reply[x] # "lost"
                      /\ reply[x] = "held" =>
                            /\ pc'[x] \in {"wait", "asleep", "return"} /\ fn[x] = "version"
                            /\ outret[x][1] = "SUCCESS" /\ Owned(x)' = {}
    BY <1>2 DEF ReplyInv
  <2>1. CASE x = w
    BY <1>1, <1>2, <2>1 DEF ReplyInv
  <2>2. CASE x # w
    BY <1>1, <1>14, <1>16, <2>2 DEF ReplyInv
  <2> QED BY <2>1, <2>2
<1> QED BY <1>8, <1>12, <1>13, <1>17, <1>18, <1>19, <1>20 DEF IInv

\* The task leaves its function before a buffer is taken, or with none left.
LEMMA LeaveStep ==
    ASSUME IInv, NEW w \in Tasks, Leave(w), pc[w] \in {"write", "return"},
           UNCHANGED <<clock, connected, unused, used, aborted, cut>>
    PROVE  IInv'
<1>1. TypeOK /\ PoolInv /\ AgeInv /\ CallInv /\ WaitInv /\ ResultInv /\ ReplyInv
  BY DEF IInv
<1>2. /\ \A x \in Tasks : /\ pc'[x] = IF x = w THEN "idle" ELSE pc[x]
                          /\ fn'[x] = IF x = w THEN "none" ELSE fn[x]
                          /\ depth'[x] = IF x = w THEN 0 ELSE depth[x]
                          /\ age'[x] = IF x = w THEN 0 ELSE age[x]
                          /\ left'[x] = IF x = w THEN 0 ELSE left[x]
      /\ \A x \in Tasks : x # w => /\ outret'[x] = outret[x] /\ acked'[x] = acked[x]
                                   /\ reply'[x] = reply[x]
      /\ reply'[w] = IF reply[w] = "held" /\ outret[w][1] = "SUCCESS" THEN "none"
                     ELSE IF reply[w] = "none" THEN "none" ELSE "lost"
  BY <1>1 DEF Leave, TypeOK
<1>3. \A b \in Bufs : act'[b] = IF act[b].who = w THEN [act[b] EXCEPT !.frame = 0] ELSE act[b]
  BY DEF Leave
<1>4. ASSUME NEW b \in Bufs
      PROVE  /\ act'[b] \in Action \cup {NoAct} /\ act'[b].who = act[b].who
             /\ (act'[b] # NoAct <=> act[b] # NoAct)
             /\ (act[b] # NoAct => act'[b].age = act[b].age)
  <2>1. CASE act[b].who = w
    <3>1. act[b] # NoAct /\ act[b] \in Action
      BY <1>1, <2>1, ActIs
    <3>2. act'[b] = [act[b] EXCEPT !.frame = 0]
      BY <1>3, <2>1
    <3>3. act'[b] \in Action /\ act'[b].who = w /\ act'[b].age = act[b].age
      BY <2>1, <3>1, <3>2 DEF Action
    <3>4. NoAct.who # w
      BY NetCmdAssumption DEF NoAct
    <3> QED BY <2>1, <3>1, <3>3, <3>4
  <2>2. CASE act[b].who # w
    BY <1>1, <1>3, <2>2 DEF TypeOK
  <2> QED BY <2>1, <2>2
<1>5. TypeOK'
  <2>1. aborted' \in [Tasks -> BOOLEAN] /\ cut' \in [Tasks -> BOOLEAN] /\ connected' \in BOOLEAN
    BY <1>1, Zenon DEF TypeOK
  <2>2. /\ pc' \in [Tasks -> {"idle", "write", "wait", "asleep", "return"}]
        /\ fn' \in [Tasks -> Functions \cup {"none"}] /\ depth' \in [Tasks -> 0 .. 2]
        /\ reply' \in [Tasks -> {"none", "held", "lost"}] /\ age' \in [Tasks -> Nat]
        /\ acked' \in [Tasks -> SUBSET (1 .. 2)]
    BY <1>1 DEF Leave, TypeOK
  <2>3. left' \in [Tasks -> 0 .. Sec]
    BY <1>1, Numbers DEF Leave, TypeOK
  <2>4. outret' \in [Tasks -> [1 .. 2 -> Results]]
    <3>1. <<"UNSET", "UNSET">> \in [1 .. 2 -> Results]
      BY DEF Results
    <3> QED BY <1>1, <3>1 DEF Leave, TypeOK
  <2>5. act' \in [Bufs -> Action \cup {NoAct}]
    BY <1>4 DEF Leave
  <2>6. now' = now /\ timer' = timer /\ used' = used /\ unused' = unused
    BY DEF clock
  <2> QED BY <1>1, <2>1, <2>2, <2>3, <2>4, <2>5, <2>6 DEF TypeOK
<1>6. PoolInv' /\ AgeInv'
  BY <1>1, <1>4, PoolKept, AgeKept DEF clock
<1>7. CallInv'
  BY <1>1, <1>2 DEF CallInv
<1>8. \A x \in Tasks : Owned(x)' = Owned(x)
  BY <1>4 DEF Owned
<1>9. \A x \in Tasks : x # w => \A b \in Owned(x) : act'[b] = act[b]
  BY <1>3 DEF Owned
<1>10. ~ cut[w] => Owned(w) = {} /\ reply'[w] = "none"
  BY <1>1, <1>2, ZenonT(40) DEF WaitInv, ReplyInv, TypeOK
<1>11. WaitInv'
  <2> SUFFICES ASSUME NEW x \in Tasks, ~ cut[x]
               PROVE  /\ \A b \in Owned(x) :
                             /\ pc'[x] \in {"wait", "asleep"}
                             /\ act'[b].frame = depth'[x] /\ act'[b].age = age'[x]
                             /\ act'[b].fn = IF depth'[x] = 2 THEN "command" ELSE fn'[x]
                      /\ \A b, c \in Owned(x) : b = c
    BY <1>8 DEF WaitInv
  <2>1. CASE x = w
    BY <1>10, <2>1
  <2>2. CASE x # w
    BY <1>1, <1>2, <1>9, <2>2 DEF WaitInv
  <2> QED BY <2>1, <2>2
<1>12. ResultInv'
  <2> SUFFICES ASSUME NEW x \in Tasks, ~ cut[x]
               PROVE  /\ pc'[x] \in {"wait", "asleep", "return"} /\ outret'[x][depth'[x]] = "SUCCESS"
                            => depth'[x] \in acked'[x] \/ Owned(x) # {}
                      /\ depth'[x] = 2 /\ outret'[x][1] = "SUCCESS" => 1 \in acked'[x]
    BY <1>8 DEF ResultInv
  <2>1. CASE x = w
    BY <1>2, <2>1
  <2>2. CASE x # w
    BY <1>1, <1>2, <2>2 DEF ResultInv
  <2> QED BY <2>1, <2>2
<1>13. ReplyInv'
  <2> SUFFICES ASSUME NEW x \in Tasks, ~ cut[x]
               PROVE  /\ reply'[x] # "lost"
                      /\ reply'[x] = "held" =>
                            /\ pc'[x] \in {"wait", "asleep", "return"} /\ fn'[x] = "version"
                            /\ outret'[x][1] = "SUCCESS" /\ Owned(x) = {}
    BY <1>8 DEF ReplyInv
  <2>1. CASE x = w
    BY <1>10, <2>1
  <2>2. CASE x # w
    BY <1>1, <1>2, <2>2 DEF ReplyInv
  <2> QED BY <2>1, <2>2
<1> QED BY <1>5, <1>6, <1>7, <1>11, <1>12, <1>13 DEF IInv

\* No buffer of a task outlasts its wait.
LEMMA OutlastsBuffers ==
    ASSUME IInv, NEW w \in Tasks, ~ cut[w], SecondElapsed(age[w]) > CmdTimeout
    PROVE  Owned(w) = {}
<1> SUFFICES ASSUME NEW b \in Owned(w) PROVE FALSE
  OBVIOUS
<1>1. TypeOK /\ PoolInv /\ AgeInv /\ WaitInv
  BY DEF IInv
<1>2. b \in Bufs /\ act[b] # NoAct /\ act[b].age = age[w] /\ age[w] \in Nat
  BY <1>1, ActIs DEF Owned, WaitInv, TypeOK
<1>3. PICK i \in 1 .. Len(used) : used[i] = b
  BY <1>1, <1>2 DEF PoolInv, TypeOK, Range
<1>4. act[b].age + timer <= 2 * (Period * Sec) /\ timer \in Nat
  BY <1>1, <1>3, Numbers DEF AgeInv, TypeOK
<1>5. age[w] > 2 * (Period * Sec)
  BY <1>2, LongWait
<1> QED BY <1>2, <1>4, <1>5, Numbers

\* The task goes to sleep, or its wait ends.
LEMMA WaitStep ==
    ASSUME IInv, NEW w \in Tasks, CheckWait(w) \/ SpuriousWakeup(w)
    PROVE  IInv'
<1>1. TypeOK /\ PoolInv /\ AgeInv /\ CallInv /\ WaitInv /\ ResultInv /\ ReplyInv
  BY DEF IInv
<1>2. /\ unused' = unused /\ used' = used /\ act' = act /\ now' = now /\ timer' = timer
      /\ connected' = connected /\ aborted' = aborted /\ fn' = fn /\ depth' = depth
      /\ outret' = outret /\ reply' = reply /\ age' = age /\ acked' = acked
  BY DEF CheckWait, SpuriousWakeup, clock, lists, frames
<1>3. /\ pc[w] = "wait" \/ pc[w] = "asleep"
      /\ \A x \in Tasks : x # w => pc'[x] = pc[x] /\ left'[x] = left[x] /\ (cut'[x] <=> cut[x])
      /\ pc'[w] = "asleep" \/ pc'[w] = "return"
      /\ cut[w] => cut'[w]
      /\ pc'[w] = "asleep" => /\ left'[w] = Sec /\ Waiting(w)
      /\ pc'[w] = "return" /\ ~ cut'[w] => ~ Waiting(w) /\ ~ aborted[w]
  <2>1. CASE CheckWait(w)
    <3>1. \A x \in Tasks : cut'[x] <=> IF x = w THEN cut[w] \/ aborted[w] ELSE cut[x]
      BY <1>1, <2>1, Zenon DEF CheckWait, TypeOK
    <3>2. IF Waiting(w)
          THEN /\ pc' = [pc EXCEPT ![w] = "asleep"]
               /\ left' = [left EXCEPT ![w] = Sec]
          ELSE /\ pc' = [pc EXCEPT ![w] = "return"]
               /\ left' = [left EXCEPT ![w] = 0]
      BY <2>1 DEF CheckWait
    <3>3. pc[w] = "wait" \/ pc[w] = "asleep"
      BY <2>1 DEF CheckWait
    <3>4. /\ \A x \in Tasks : x # w => pc'[x] = pc[x] /\ left'[x] = left[x]
          /\ Waiting(w) => pc'[w] = "asleep" /\ left'[w] = Sec
          /\ ~ Waiting(w) => pc'[w] = "return"
      BY <1>1, <3>2 DEF TypeOK
    <3> QED BY <3>1, <3>3, <3>4
  <2>2. CASE SpuriousWakeup(w)
    <3>1. \A x \in Tasks : cut'[x] <=> IF x = w THEN TRUE ELSE cut[x]
      BY <1>1, <2>2, Zenon DEF SpuriousWakeup, TypeOK
    <3>2. /\ pc[w] = "asleep" /\ pc' = [pc EXCEPT ![w] = "return"]
          /\ left' = [left EXCEPT ![w] = 0]
      BY <2>2 DEF SpuriousWakeup
    <3>3. /\ \A x \in Tasks : x # w => pc'[x] = pc[x] /\ left'[x] = left[x]
          /\ pc'[w] = "return"
      BY <1>1, <3>2 DEF TypeOK
    <3> QED BY <3>1, <3>2, <3>3
  <2> QED BY <2>1, <2>2
<1>4. TypeOK'
  <2>1. aborted' \in [Tasks -> BOOLEAN] /\ connected' \in BOOLEAN
    BY <1>1, <1>2, Zenon DEF TypeOK
  <2>2. cut' \in [Tasks -> BOOLEAN]
    BY <1>1, Zenon DEF CheckWait, SpuriousWakeup, TypeOK
  <2>3. pc' \in [Tasks -> {"idle", "write", "wait", "asleep", "return"}]
    BY <1>1, ZenonT(40) DEF CheckWait, SpuriousWakeup, TypeOK
  <2>4. left' \in [Tasks -> 0 .. Sec]
    <3>1. Sec \in 0 .. Sec /\ 0 \in 0 .. Sec
      BY Numbers
    <3> QED BY <1>1, <3>1 DEF CheckWait, SpuriousWakeup, TypeOK
  <2> QED BY <1>1, <1>2, <2>1, <2>2, <2>3, <2>4 DEF TypeOK
<1>5. PoolInv' /\ AgeInv'
  BY <1>1, <1>2, PoolKept, AgeKept
<1>6. CallInv'
  <2> SUFFICES ASSUME NEW x \in Tasks
               PROVE  /\ pc'[x] # "idle" => depth[x] \in 1 .. 2 /\ fn[x] \in Functions
                      /\ depth[x] = 2 => fn[x] = "mode"
                      /\ pc'[x] \in {"write", "wait"} => age[x] = 0
                      /\ pc'[x] = "asleep" => age[x] + left'[x] <= (CmdTimeout + 2) * Sec
                      /\ pc'[x] = "return" => age[x] <= (CmdTimeout + 2) * Sec
    BY <1>2 DEF CallInv
  <2>1. CASE x # w
    BY <1>1, <1>3, <2>1 DEF CallInv
  <2>2. CASE x = w
    <3>1. age[w] \in Nat /\ left[w] \in Nat
      BY <1>1, Numbers DEF TypeOK
    <3>2. age[w] <= (CmdTimeout + 2) * Sec
      BY <1>1, <1>3, <3>1, Numbers DEF CallInv
    <3>3. pc'[w] = "asleep" => age[w] + left'[w] <= (CmdTimeout + 2) * Sec
      BY <1>3, <3>1, LongWait DEF Waiting
    <3>4. pc[w] # "idle" /\ pc'[w] \notin {"write", "wait"}
      BY <1>3
    <3> QED BY <1>1, <2>2, <3>2, <3>3, <3>4 DEF CallInv
  <2> QED BY <2>1, <2>2
<1>7. \A x \in Tasks : Owned(x)' = Owned(x)
  BY <1>2 DEF Owned
<1>8. pc'[w] = "return" /\ ~ cut'[w] => Owned(w) = {}
  <2> SUFFICES ASSUME pc'[w] = "return", ~ cut'[w] PROVE Owned(w) = {}
    OBVIOUS
  <2>1. ~ cut[w] /\ ~ (SecondElapsed(age[w]) <= CmdTimeout)
    BY <1>3 DEF Waiting
  <2>2. SecondElapsed(age[w]) > CmdTimeout
    BY <1>1, <2>1, LongWait, Numbers DEF TypeOK
  <2> QED BY <2>1, <2>2, OutlastsBuffers
<1>9. WaitInv'
  <2> SUFFICES ASSUME NEW x \in Tasks, ~ cut'[x]
               PROVE  /\ \A b \in Owned(x) :
                             /\ pc'[x] \in {"wait", "asleep"}
                             /\ act[b].frame = depth[x] /\ act[b].age = age[x]
                             /\ act[b].fn = IF depth[x] = 2 THEN "command" ELSE fn[x]
                      /\ \A b, c \in Owned(x) : b = c
    BY <1>2, <1>7 DEF WaitInv
  <2>1. CASE x = w
    BY <1>1, <1>3, <1>8, <2>1 DEF WaitInv
  <2>2. CASE x # w
    BY <1>1, <1>3, <2>2 DEF WaitInv
  <2> QED BY <2>1, <2>2
<1>10. ResultInv' /\ ReplyInv'
  BY <1>1, <1>2, <1>3, <1>7 DEF ResultInv, ReplyInv
<1> QED BY <1>4, <1>5, <1>6, <1>9, <1>10 DEF IInv

-----------------------------------------------------------------------------
\* The event loop

\* The callbacks of the used buffers in B.
LEMMA RunStep ==
    ASSUME IInv, NEW B \in SUBSET Bufs, \A b \in B : act[b] # NoAct,
           NEW r \in Results \ {"UNSET"}, NEW wakes \in BOOLEAN, RunActions(B, r, wakes),
           UNCHANGED <<fn, depth, age, cut>>
    PROVE  /\ pc' \in [Tasks -> {"idle", "write", "wait", "asleep", "return"}]
           /\ outret' \in [Tasks -> [1 .. 2 -> Results]]
           /\ reply' \in [Tasks -> {"none", "held", "lost"}]
           /\ left' \in [Tasks -> 0 .. Sec] /\ acked' \in [Tasks -> SUBSET (1 .. 2)]
           /\ act' \in [Bufs -> Action \cup {NoAct}]
           /\ \A b \in Bufs : act'[b] = IF b \in B THEN NoAct ELSE act[b]
           /\ CallInv' /\ WaitInv' /\ ResultInv' /\ ReplyInv'
<1>1. TypeOK /\ PoolInv /\ AgeInv /\ CallInv /\ WaitInv /\ ResultInv /\ ReplyInv
  BY DEF IInv
<1>2. PICK hit \in SUBSET {f \in Tasks \X (1 .. 2) :
                              <<f[1], 0>> \in Targets(B) /\ f[2] <= depth[f[1]]} :
         outret' = [w \in Tasks |-> [d \in 1 .. 2 |->
                      IF <<w, d>> \in Targets(B) \cup hit THEN r ELSE outret[w][d]]]
  BY DEF RunActions
<1>3. /\ \A x \in Tasks : pc'[x] = IF wakes /\ x \in Owners(B) /\ pc[x] = "asleep"
                                   THEN "return" ELSE pc[x]
      /\ \A x \in Tasks : left'[x] = IF wakes /\ x \in Owners(B) THEN 0 ELSE left[x]
      /\ \A x \in Tasks : acked'[x] = acked[x]
                              \cup {d \in 1 .. 2 : <<x, d>> \in Targets(B) /\ r = "SUCCESS"}
      /\ \A b \in Bufs : act'[b] = IF b \in B THEN NoAct ELSE act[b]
  BY DEF RunActions
<1>4. /\ r = "SUCCESS" => RepliesTo(B)
      /\ r # "SUCCESS" => reply' = reply
  BY DEF RunActions
<1>5. \A b \in Bufs : act[b] # NoAct =>
         /\ act[b].who \in Tasks /\ act[b].frame \in 0 .. 2 /\ act[b].fn \in Functions
  BY <1>1, ActIs
<1>6. NoAct.who \notin Tasks
  BY NetCmdAssumption DEF NoAct
<1>7. /\ pc' \in [Tasks -> {"idle", "write", "wait", "asleep", "return"}]
      /\ left' \in [Tasks -> 0 .. Sec] /\ acked' \in [Tasks -> SUBSET (1 .. 2)]
      /\ act' \in [Bufs -> Action \cup {NoAct}]
  <2>1. pc' \in [Tasks -> {"idle", "write", "wait", "asleep", "return"}]
    BY <1>1 DEF RunActions, TypeOK
  <2>2. left' \in [Tasks -> 0 .. Sec]
    BY <1>1, Numbers DEF RunActions, TypeOK
  <2>3. acked' \in [Tasks -> SUBSET (1 .. 2)]
    BY <1>1 DEF RunActions, TypeOK
  <2>4. act' \in [Bufs -> Action \cup {NoAct}]
    BY <1>1 DEF RunActions, TypeOK
  <2> QED BY <2>1, <2>2, <2>3, <2>4
<1>8. outret' \in [Tasks -> [1 .. 2 -> Results]]
  BY <1>1, <1>2 DEF TypeOK
<1>9. reply' \in [Tasks -> {"none", "held", "lost"}]
  <2>1. CASE r = "SUCCESS"
    BY <1>1, <1>4, <2>1 DEF RepliesTo, TypeOK
  <2>2. CASE r # "SUCCESS"
    BY <1>1, <1>4, <2>2 DEF TypeOK
  <2> QED BY <2>1, <2>2
<1>10. CallInv'
  <2> SUFFICES ASSUME NEW x \in Tasks
               PROVE  /\ pc'[x] # "idle" => depth[x] \in 1 .. 2 /\ fn[x] \in Functions
                      /\ depth[x] = 2 => fn[x] = "mode"
                      /\ pc'[x] \in {"write", "wait"} => age[x] = 0
                      /\ pc'[x] = "asleep" => age[x] + left'[x] <= (CmdTimeout + 2) * Sec
                      /\ pc'[x] = "return" => age[x] <= (CmdTimeout + 2) * Sec
    BY DEF CallInv
  <2>1. age[x] \in Nat /\ left[x] \in Nat
    BY <1>1, Numbers DEF TypeOK
  <2>2. CASE wakes /\ x \in Owners(B) /\ pc[x] = "asleep"
    BY <1>1, <1>3, <2>1, <2>2, Numbers DEF CallInv
  <2>3. CASE ~ (wakes /\ x \in Owners(B) /\ pc[x] = "asleep")
    <3>1. pc'[x] = pc[x] /\ (pc[x] = "asleep" => left'[x] = left[x])
      BY <1>3, <2>3
    <3> QED BY <1>1, <3>1 DEF CallInv
  <2> QED BY <2>2, <2>3
<1>11. \A x \in Tasks : Owned(x)' = Owned(x) \ B
  BY <1>3, <1>6 DEF Owned
\* A task none of whose buffers are in B sees nothing of it.
<1>12. ASSUME NEW x \in Tasks, ~ cut[x], Owned(x) \cap B = {}
       PROVE  /\ pc'[x] = pc[x] /\ outret'[x] = outret[x] /\ acked'[x] = acked[x]
              /\ reply'[x] = reply[x] /\ Owned(x)' = Owned(x)
  <2>1. x \notin Owners(B) /\ \A d : <<x, d>> \notin Targets(B)
    BY <1>12 DEF Owners, Targets, Owned
  <2>2. pc'[x] = pc[x] /\ acked'[x] = acked[x]
    BY <1>3, <2>1
  <2>3. outret'[x] = outret[x]
    <3>1. \A d \in 1 .. 2 : <<x, d>> \notin Targets(B) \cup hit
      BY <2>1
    <3>2. outret[x] \in [1 .. 2 -> Results]
      BY <1>1 DEF TypeOK
    <3> QED BY <1>2, <3>1, <3>2
  <2>4. reply'[x] = reply[x]
    <3>1. CASE r # "SUCCESS"
      BY <1>4, <3>1
    <3>2. CASE r = "SUCCESS"
      <4>1. \A b \in B : act[b].who # x
        BY <2>1 DEF Owners
      <4> QED BY <1>4, <3>2, <4>1 DEF RepliesTo, Owners
    <3> QED BY <3>1, <3>2
  <2> QED BY <1>11, <1>12, <2>2, <2>3, <2>4
\* The buffer of a task is in B, and it was the only one.
<1>13. ASSUME NEW x \in Tasks, ~ cut[x], Owned(x) \cap B # {}
       PROVE  /\ pc'[x] \in {"wait", "asleep", "return"} /\ Owned(x)' = {}
              /\ outret'[x][depth[x]] = r
              /\ depth[x] = 2 => outret'[x][1] = outret[x][1]
              /\ acked[x] \subseteq acked'[x] /\ (r = "SUCCESS" => depth[x] \in acked'[x])
              /\ reply'[x] # "lost"
              /\ reply'[x] = "held" => fn[x] = "version" /\ depth[x] = 1 /\ r = "SUCCESS"
              /\ depth[x] \in 1 .. 2
  <2>1. PICK b \in Owned(x) : b \in B
    BY <1>13
  <2>2. /\ pc[x] \in {"wait", "asleep"} /\ act[b].who = x /\ act[b].frame = depth[x]
        /\ act[b].fn = IF depth[x] = 2 THEN "command" ELSE fn[x]
        /\ \A c \in Owned(x) : c = b
        /\ reply[x] # "held" /\ reply[x] # "lost"
    BY <1>1, <1>13 DEF WaitInv, Owned, ReplyInv
  <2>3. depth[x] \in 1 .. 2
    BY <1>1, <2>2 DEF CallInv
  <2>4. \A c \in B : act[c].who = x => c = b
    BY <2>2 DEF Owned
  <2>5. \A d : <<x, d>> \in Targets(B) <=> d = depth[x]
    <3>1. <<x, depth[x]>> \in Targets(B)
      BY <2>1, <2>2 DEF Targets
    <3>2. ASSUME NEW d, <<x, d>> \in Targets(B) PROVE d = depth[x]
      BY <2>2, <2>4, <3>2 DEF Targets
    <3> QED BY <3>1, <3>2
  <2>6. \A d \in 1 .. 2 : <<x, d>> \notin hit
    <3>1. <<x, 0>> \notin Targets(B)
      BY <2>3, <2>5
    <3> QED BY <3>1
  <2>7. \A d \in 1 .. 2 : outret'[x][d] = IF d = depth[x] THEN r ELSE outret[x][d]
    BY <1>2, <2>5, <2>6
  <2>8. pc'[x] \in {"wait", "asleep", "return"}
    BY <1>3, <2>2
  <2>9. acked[x] \subseteq acked'[x] /\ (r = "SUCCESS" => depth[x] \in acked'[x])
    BY <1>3, <2>3, <2>5
  <2>10. /\ reply'[x] # "lost"
         /\ reply'[x] = "held" => fn[x] = "version" /\ depth[x] = 1 /\ r = "SUCCESS"
    <3>1. CASE r # "SUCCESS"
      BY <1>4, <2>2, <3>1
    <3>2. CASE r = "SUCCESS" /\ reply' = reply
      BY <2>2, <3>2
    <3>3. CASE r = "SUCCESS" /\ reply' # reply
      <4> DEFINE asked == {c \in B : act[c].fn = "version"}
      <4>1. reply'[x] = IF \E c \in asked : act[c].who = x /\ act[c].frame = 0 THEN "lost"
                        ELSE IF x \in Owners(asked) THEN "held" ELSE reply[x]
        BY <1>4, <3>3 DEF RepliesTo
      <4>2. ~ \E c \in asked : act[c].who = x /\ act[c].frame = 0
        BY <2>2, <2>3, <2>4
      <4>3. x \in Owners(asked) => act[b].fn = "version"
        BY <2>4 DEF Owners
      <4> HIDE DEF asked
      <4>4. act[b].fn = "version" => fn[x] = "version" /\ depth[x] = 1
        BY <2>2, <2>3
      <4> QED BY <2>2, <3>3, <4>1, <4>2, <4>3, <4>4
    <3> QED BY <1>4, <3>1, <3>2, <3>3
  <2>11. Owned(x)' = {}
    BY <1>11, <2>1, <2>2
  <2> QED BY <2>3, <2>7, <2>8, <2>9, <2>10, <2>11
<1>14. WaitInv'
  <2> SUFFICES ASSUME NEW x \in Tasks, ~ cut[x]
               PROVE  /\ \A b \in Owned(x)' :
                             /\ pc'[x] \in {"wait", "asleep"}
                             /\ act'[b].frame = depth[x] /\ act'[b].age = age[x]
                             /\ act'[b].fn = IF depth[x] = 2 THEN "command" ELSE fn[x]
                      /\ \A b, c \in Owned(x)' : b = c
    BY DEF WaitInv
  <2>1. CASE Owned(x) \cap B = {}
    <3>1. pc'[x] = pc[x] /\ Owned(x)' = Owned(x)
      BY <1>12, <2>1
    <3>2. \A b \in Owned(x) : act'[b] = act[b]
      BY <1>3, <2>1 DEF Owned
    <3> QED BY <1>1, <3>1, <3>2 DEF WaitInv
  <2>2. CASE Owned(x) \cap B # {}
    BY <1>13, <2>2
  <2> QED BY <2>1, <2>2
<1>15. ResultInv'
  <2> SUFFICES ASSUME NEW x \in Tasks, ~ cut[x]
               PROVE  /\ pc'[x] \in {"wait", "asleep", "return"} /\ outret'[x][depth[x]] = "SUCCESS"
                            => depth[x] \in acked'[x] \/ Owned(x)' # {}
                      /\ depth[x] = 2 /\ outret'[x][1] = "SUCCESS" => 1 \in acked'[x]
    BY DEF ResultInv
  <2>1. CASE Owned(x) \cap B = {}
    BY <1>1, <1>12, <2>1 DEF ResultInv
  <2>2. CASE Owned(x) \cap B # {}
    BY <1>1, <1>13, <2>2 DEF ResultInv
  <2> QED BY <2>1, <2>2
<1>16. ReplyInv'
  <2> SUFFICES ASSUME NEW x \in Tasks, ~ cut[x]
               PROVE  /\ reply'[x] # "lost"
                      /\ reply'[x] = "held" =>
                            /\ pc'[x] \in {"wait", "asleep", "return"} /\ fn[x] = "version"
                            /\ outret'[x][1] = "SUCCESS" /\ Owned(x)' = {}
    BY DEF ReplyInv
  <2>1. CASE Owned(x) \cap B = {}
    BY <1>1, <1>12, <2>1 DEF ReplyInv
  <2>2. CASE Owned(x) \cap B # {}
    BY <1>13, <2>2
  <2> QED BY <2>1, <2>2
<1> QED BY <1>3, <1>7, <1>8, <1>9, <1>10, <1>14, <1>15, <1>16

\* Sequences that a buffer is taken from, or put to the end of.
LEMMA Joined ==
    ASSUME NEW S, NEW s \in Seq(S), NEW t \in Seq(S)
    PROVE  /\ s \o t \in Seq(S) /\ Len(s \o t) = Len(s) + Len(t)
           /\ Len(s) \in Nat /\ Len(t) \in Nat
           /\ \A k \in 1 .. Len(s) + Len(t) :
                 (s \o t)[k] = IF k <= Len(s) THEN s[k] ELSE t[k - Len(s)]
           /\ Range(s \o t) = Range(s) \cup Range(t)
           /\ IsInjective(s) /\ IsInjective(t) /\ Range(s) \cap Range(t) = {}
                 => IsInjective(s \o t)
<1>1. /\ s \o t \in Seq(S) /\ Len(s \o t) = Len(s) + Len(t)
      /\ Len(s) \in Nat /\ Len(t) \in Nat
      /\ DOMAIN s = 1 .. Len(s) /\ DOMAIN t = 1 .. Len(t)
      /\ DOMAIN (s \o t) = 1 .. Len(s) + Len(t)
  OBVIOUS
<1>2. \A k \in 1 .. Len(s) + Len(t) :
         (s \o t)[k] = IF k <= Len(s) THEN s[k] ELSE t[k - Len(s)]
  OBVIOUS
<1> DEFINE u == s \o t
<1>3. /\ DOMAIN u = 1 .. Len(s) + Len(t)
      /\ \A k \in 1 .. Len(s) : k \in DOMAIN u /\ u[k] = s[k]
      /\ \A k \in 1 .. Len(t) : /\ k + Len(s) \in DOMAIN u /\ u[k + Len(s)] = t[k]
      /\ \A k \in DOMAIN u : \/ k \in 1 .. Len(s) /\ u[k] = s[k]
                             \/ k - Len(s) \in 1 .. Len(t) /\ u[k] = t[k - Len(s)]
  BY <1>1, <1>2
<1> HIDE DEF u
<1>4. Range(u) = Range(s) \cup Range(t)
  <2>1. ASSUME NEW x \in Range(u) PROVE x \in Range(s) \cup Range(t)
    BY <1>1, <1>3 DEF Range
  <2>2. ASSUME NEW x \in Range(s) PROVE x \in Range(u)
    BY <1>1, <1>3 DEF Range
  <2>3. ASSUME NEW x \in Range(t) PROVE x \in Range(u)
    BY <1>1, <1>3 DEF Range
  <2> QED BY <2>1, <2>2, <2>3
<1>5. ASSUME IsInjective(s), IsInjective(t), Range(s) \cap Range(t) = {} PROVE IsInjective(u)
  <2> SUFFICES ASSUME NEW k \in DOMAIN u, NEW l \in DOMAIN u, u[k] = u[l] PROVE k = l
    BY DEF IsInjective
  <2>1. \A m \in 1 .. Len(s), n \in 1 .. Len(t) : s[m] # t[n]
    BY <1>1, <1>5 DEF Range
  <2>2. /\ \A m, n \in 1 .. Len(s) : s[m] = s[n] => m = n
        /\ \A m, n \in 1 .. Len(t) : t[m] = t[n] => m = n
    BY <1>1, <1>5 DEF IsInjective
  <2> QED BY <1>1, <1>3, <2>1, <2>2
<1> QED BY <1>1, <1>2, <1>4, <1>5 DEF u

\* The elements of a sequence after the n-th.
LEMMA Rest ==
    ASSUME NEW S, NEW s \in Seq(S), NEW n \in 0 .. Len(s)
    PROVE  /\ SubSeq(s, n + 1, Len(s)) \in Seq(S)
           /\ Len(SubSeq(s, n + 1, Len(s))) = Len(s) - n
           /\ \A k \in 1 .. Len(s) - n : SubSeq(s, n + 1, Len(s))[k] = s[k + n]
<1>1. Len(s) \in Nat /\ n \in Nat /\ n <= Len(s)
  OBVIOUS
<1>2. SubSeq(s, n + 1, Len(s)) \in Seq(S)
  BY <1>1
<1>3. Len(SubSeq(s, n + 1, Len(s))) = Len(s) - n
  BY <1>1
<1>4. \A k \in 1 .. Len(s) - n : SubSeq(s, n + 1, Len(s))[k] = s[k + n]
  BY <1>1
<1> QED BY <1>2, <1>3, <1>4

LEMMA Removed ==
    ASSUME NEW S, NEW s \in Seq(S), NEW i \in 1 .. Len(s)
    PROVE  /\ RemoveAt(s, i) \in Seq(S) /\ Len(RemoveAt(s, i)) = Len(s) - 1
           /\ \A k \in 1 .. Len(s) - 1 : RemoveAt(s, i)[k] = s[IF k < i THEN k ELSE k + 1]
<1>1. Len(s) \in Nat /\ i \in Nat /\ i >= 1 /\ i <= Len(s)
  OBVIOUS
<1>2. /\ SubSeq(s, 1, i - 1) \in Seq(S) /\ Len(SubSeq(s, 1, i - 1)) = i - 1
      /\ \A k \in 1 .. i - 1 : SubSeq(s, 1, i - 1)[k] = s[k]
  BY <1>1
<1>3. /\ SubSeq(s, i + 1, Len(s)) \in Seq(S) /\ Len(SubSeq(s, i + 1, Len(s))) = Len(s) - i
      /\ \A k \in 1 .. Len(s) - i : SubSeq(s, i + 1, Len(s))[k] = s[k + i]
  <2>1. i \in 0 .. Len(s)
    BY <1>1
  <2> QED BY <2>1, Rest
<1> DEFINE p == SubSeq(s, 1, i - 1)
           q == SubSeq(s, i + 1, Len(s))
<1> HIDE DEF p, q
<1>4. p \in Seq(S) /\ q \in Seq(S) /\ Len(p) = i - 1 /\ Len(q) = Len(s) - i
  BY <1>2, <1>3 DEF p, q
<1>5. /\ p \o q \in Seq(S) /\ Len(p \o q) = Len(s) - 1
      /\ \A k \in 1 .. Len(s) - 1 : (p \o q)[k] = IF k <= i - 1 THEN p[k] ELSE q[k - (i - 1)]
  <2>1. Len(p) + Len(q) = Len(s) - 1
    BY <1>1, <1>4
  <2>2. /\ p \o q \in Seq(S) /\ Len(p \o q) = Len(p) + Len(q)
        /\ \A k \in 1 .. Len(p) + Len(q) :
              (p \o q)[k] = IF k <= Len(p) THEN p[k] ELSE q[k - Len(p)]
    BY <1>4, Joined
  <2> QED BY <1>4, <2>1, <2>2
<1>6. ASSUME NEW k \in 1 .. Len(s) - 1 PROVE (p \o q)[k] = s[IF k < i THEN k ELSE k + 1]
  <2>1. ASSUME k < i PROVE (p \o q)[k] = s[k]
    BY <1>1, <1>2, <1>5, <2>1 DEF p
  <2>2. ASSUME ~ (k < i) PROVE (p \o q)[k] = s[k + 1]
    <3>1. k - (i - 1) \in 1 .. Len(s) - i /\ (k - (i - 1)) + i = k + 1
      BY <1>1, <2>2
    <3>2. q[k - (i - 1)] = s[k + 1]
      BY <1>3, <3>1 DEF q
    <3> QED BY <1>1, <1>5, <2>2, <3>2
  <2> QED BY <2>1, <2>2
<1>7. RemoveAt(s, i) = p \o q
  BY DEF RemoveAt, p, q
<1> QED BY <1>5, <1>6, <1>7

\* The buffers in B change lists.
LEMMA PoolMoved ==
    ASSUME TypeOK, PoolInv, NEW B, B \subseteq Range(used),
           IsInjective(used'), Range(used') = Range(used) \ B,
           IsInjective(unused'), Range(unused') = Range(unused) \cup B,
           \A b \in Bufs : act'[b] = IF b \in B THEN NoAct ELSE act[b]
    PROVE  PoolInv'
<1>1. Range(used) \subseteq Bufs /\ Range(unused) \cap Range(used) = {}
  BY DEF PoolInv
<1>2. \A b \in Bufs : b \in Range(used') <=> act'[b] # NoAct
  BY DEF PoolInv
<1>3. /\ Range(unused') \cap Range(used') = {}
      /\ Range(unused') \cup Range(used') = Bufs
  BY <1>1 DEF PoolInv
<1> QED BY <1>2, <1>3 DEF PoolInv, Range, IsInjective

LEMMA AcknowledgeStep ==
    ASSUME IInv, NEW i \in 1 .. Len(used), Acknowledge(i)
    PROVE  IInv'
<1>1. TypeOK /\ PoolInv /\ AgeInv /\ CallInv /\ WaitInv /\ ResultInv /\ ReplyInv
  BY DEF IInv
<1> DEFINE b == used[i]
<1>2. /\ used' = RemoveAt(used, i) /\ unused' = Append(unused, b)
      /\ now' = now /\ timer' = timer /\ connected' = connected /\ fn' = fn /\ depth' = depth
      /\ age' = age /\ aborted' = aborted /\ cut' = cut
  BY DEF Acknowledge, clock
<1>3. PICK o \in Outcome(act[b].fn) : RunActions({b}, o.ack, o.wakes)
  BY DEF Acknowledge
<1>4. o.ack \in Results \ {"UNSET"} /\ o.wakes \in BOOLEAN
  <2>1. \/ o = [ack |-> "SUCCESS", wakes |-> TRUE]
        \/ o = [ack |-> "FAIL", wakes |-> FALSE]
        \/ o = [ack |-> "FAIL", wakes |-> TRUE]
    <3>1. o \in {[ack |-> "SUCCESS", wakes |-> TRUE], [ack |-> "FAIL", wakes |-> FALSE]}
          \/ o \in IF act[b].fn = "conf" THEN {[ack |-> "FAIL", wakes |-> TRUE]} ELSE {}
      BY Zenon DEF Outcome
    <3> QED BY <3>1, Zenon
  <2>2. o.ack \in {"SUCCESS", "FAIL"}
    BY <2>1
  <2>3. o.wakes \in BOOLEAN
    <3>1. ASSUME NEW a, NEW c \in BOOLEAN, o = [ack |-> a, wakes |-> c] PROVE o.wakes \in BOOLEAN
      <4>1. [ack |-> a, wakes |-> c].wakes = c
        OBVIOUS
      <4> QED BY <3>1, <4>1, Zenon
    <3> QED BY <2>1, <3>1, Zenon
  <2> QED BY <2>2, <2>3 DEF Results
<1>5. b \in Bufs /\ b \in Range(used) /\ act[b] # NoAct
  BY <1>1, UsedAct
<1>6. {b} \in SUBSET Bufs /\ \A c \in {b} : act[c] # NoAct
  BY <1>5
<1>7. /\ pc' \in [Tasks -> {"idle", "write", "wait", "asleep", "return"}]
      /\ outret' \in [Tasks -> [1 .. 2 -> Results]]
      /\ reply' \in [Tasks -> {"none", "held", "lost"}]
      /\ left' \in [Tasks -> 0 .. Sec] /\ acked' \in [Tasks -> SUBSET (1 .. 2)]
      /\ act' \in [Bufs -> Action \cup {NoAct}]
      /\ \A c \in Bufs : act'[c] = IF c \in {b} THEN NoAct ELSE act[c]
      /\ CallInv' /\ WaitInv' /\ ResultInv' /\ ReplyInv'
  BY <1>2, <1>3, <1>4, <1>6, RunStep
<1>8. /\ used \in Seq(Bufs) /\ unused \in Seq(Bufs) /\ Len(used) \in Nat /\ i \in Nat
      /\ DOMAIN used = 1 .. Len(used) /\ DOMAIN unused = 1 .. Len(unused)
  BY <1>1 DEF TypeOK
<1>9. /\ used' \in Seq(Bufs) /\ Len(used') = Len(used) - 1
      /\ \A k \in 1 .. Len(used') : used'[k] = used[IF k < i THEN k ELSE k + 1]
  <2>1. /\ RemoveAt(used, i) \in Seq(Bufs) /\ Len(RemoveAt(used, i)) = Len(used) - 1
        /\ \A k \in 1 .. Len(used) - 1 : RemoveAt(used, i)[k] = used[IF k < i THEN k ELSE k + 1]
    BY <1>8, Removed
  <2> QED BY <1>2, <2>1
<1> DEFINE At(k) == IF k < i THEN k ELSE k + 1
<1>10. /\ \A k \in 1 .. Len(used') :
            used'[k] = used[At(k)] /\ At(k) \in 1 .. Len(used) /\ At(k) # i
       /\ \A k, l \in 1 .. Len(used') : (At(k) = At(l) => k = l) /\ (k < l => At(k) < At(l))
       /\ \A j \in 1 .. Len(used) : j # i => \E k \in 1 .. Len(used') : At(k) = j
  <2>1. \A k \in 1 .. Len(used') : used'[k] = used[At(k)]
    BY <1>9
  <2>2. \A k \in 1 .. Len(used') : At(k) \in 1 .. Len(used) /\ At(k) # i
    BY <1>8, <1>9
  <2>3. \A k, l \in 1 .. Len(used') : (At(k) = At(l) => k = l) /\ (k < l => At(k) < At(l))
    BY <1>8, <1>9
  <2>4. ASSUME NEW j \in 1 .. Len(used), j # i PROVE \E k \in 1 .. Len(used') : At(k) = j
    <3>1. CASE j < i
      <4>1. j \in 1 .. Len(used') /\ At(j) = j
        BY <1>8, <1>9, <3>1
      <4> QED BY <4>1
    <3>2. CASE j > i
      <4>1. j - 1 \in 1 .. Len(used') /\ At(j - 1) = j
        BY <1>8, <1>9, <3>2
      <4> QED BY <4>1
    <3> QED BY <1>8, <2>4, <3>1, <3>2
  <2> QED BY <2>1, <2>2, <2>3, <2>4
<1>11. DOMAIN used' = 1 .. Len(used')
  BY <1>9
<1>12. \A j, k \in 1 .. Len(used) : used[j] = used[k] => j = k
  BY <1>1, <1>8 DEF PoolInv, IsInjective
<1> HIDE DEF At
<1>13. IsInjective(used') /\ Range(used') = Range(used) \ {b}
  <2>1. IsInjective(used')
    BY <1>10, <1>11, <1>12 DEF IsInjective
  <2>2. ASSUME NEW x \in Range(used') PROVE x \in Range(used) \ {b}
    BY <1>8, <1>10, <1>11, <1>12 DEF Range
  <2>3. ASSUME NEW x \in Range(used) \ {b} PROVE x \in Range(used')
    <3>1. PICK j \in 1 .. Len(used) : used[j] = x
      BY <1>8 DEF Range
    <3>2. j # i
      BY <3>1
    <3> QED BY <1>10, <1>11, <3>1, <3>2 DEF Range
  <2> QED BY <2>1, <2>2, <2>3
<1>14. unused' \in Seq(Bufs) /\ IsInjective(unused') /\ Range(unused') = Range(unused) \cup {b}
  <2>1. <<b>> \in Seq(Bufs) /\ IsInjective(<<b>>) /\ Range(<<b>>) = {b}
    BY <1>5 DEF IsInjective, Range
  <2>2. unused' = unused \o <<b>>
    BY <1>2, <1>5, <1>8
  <2>3. IsInjective(unused) /\ Range(unused) \cap {b} = {}
    BY <1>1, <1>5 DEF PoolInv
  <2>4. /\ unused \o <<b>> \in Seq(Bufs) /\ IsInjective(unused \o <<b>>)
        /\ Range(unused \o <<b>>) = Range(unused) \cup Range(<<b>>)
    <3> DEFINE t == <<b>>
    <3>1. t \in Seq(Bufs) /\ IsInjective(t) /\ unused \in Seq(Bufs) /\ Range(unused) \cap Range(t) = {}
      BY <1>8, <2>1, <2>3
    <3>2. /\ unused \o t \in Seq(Bufs) /\ IsInjective(unused \o t)
          /\ Range(unused \o t) = Range(unused) \cup Range(t)
      <4> HIDE DEF t, b
      <4> QED BY <2>3, <3>1, Joined
    <3> QED BY <3>2
  <2> QED BY <2>1, <2>2, <2>4
<1>15. PoolInv'
  <2>1. {b} \subseteq Range(used)
    BY <1>5
  <2> QED BY <1>1, <1>7, <1>13, <1>14, <2>1, PoolMoved
<1>16. AgeInv'
  <2>1. ASSUME NEW k \in 1 .. Len(used') PROVE act'[used'[k]] = act[used[At(k)]]
    <3>1. used[At(k)] \in Bufs /\ used[At(k)] # b
      BY <1>8, <1>10, <1>12
    <3> QED BY <1>7, <1>10, <3>1
  <2> QED BY <1>1, <1>2, <1>10, <2>1, ZenonT(40) DEF AgeInv
<1>17. TypeOK'
  <2>1. aborted' \in [Tasks -> BOOLEAN] /\ cut' \in [Tasks -> BOOLEAN] /\ connected' \in BOOLEAN
    BY <1>1, <1>2, Zenon DEF TypeOK
  <2> HIDE DEF b
  <2> QED BY <1>1, <1>2, <1>7, <1>9, <1>14, <2>1 DEF TypeOK
<1> QED BY <1>7, <1>15, <1>16, <1>17 DEF IInv

\* What netcom_timeoutcb takes: the buffers before the first that is not due.
LEMMA OverdueIs ==
    ASSUME TypeOK
    PROVE  /\ Overdue \in 0 .. Len(used)
           /\ Overdue < Len(used) => ~ Expired(act[used[Overdue + 1]].age)
<1> DEFINE Due(n) == /\ \A i \in 1 .. n : Expired(act[used[i]].age)
                     /\ n < Len(used) => ~ Expired(act[used[n + 1]].age)
           T == {n \in 0 .. Len(used) : n < Len(used) => ~ Expired(act[used[n + 1]].age)}
           R == OpToRel(<, Nat)
<1>1. Len(used) \in Nat
  BY DEF TypeOK
<1>2. T \subseteq Nat /\ Len(used) \in T
  BY <1>1
<1>3. IsWellFoundedOn(R, Nat)
  BY NatLessThanWellFounded
<1>4. \A x, y \in Nat : x < y => <<x, y>> \in R
  BY DEF OpToRel
<1> HIDE DEF R
<1>5. PICK n \in T : \A m \in T : ~ (<<m, n>> \in R)
  <2> HIDE DEF T
  <2> QED BY <1>2, <1>3, WFMin
<1>6. \A m \in T : ~ (m < n)
  BY <1>2, <1>4, <1>5
<1>7. ASSUME NEW i \in 1 .. n PROVE Expired(act[used[i]].age)
  <2>1. i - 1 \in 0 .. Len(used) /\ i - 1 < n /\ i - 1 < Len(used) /\ (i - 1) + 1 = i
    BY <1>1, <1>5
  <2>2. i - 1 \notin T
    BY <1>6, <2>1
  <2> QED BY <2>1, <2>2
<1>8. \E m \in 0 .. Len(used) : Due(m)
  BY <1>5, <1>7
<1>9. Overdue = CHOOSE m \in 0 .. Len(used) : Due(m)
  BY DEF Overdue
<1>10. Overdue \in 0 .. Len(used) /\ Due(Overdue)
  <2> HIDE DEF Due
  <2> QED BY <1>8, <1>9
<1> QED BY <1>10

LEMMA TimeoutStep == IInv /\ Timeout => IInv'
<1> SUFFICES ASSUME IInv, Timeout PROVE IInv'
  OBVIOUS
<1>1. TypeOK /\ PoolInv /\ AgeInv /\ CallInv /\ WaitInv /\ ResultInv /\ ReplyInv
  BY DEF IInv
<1>2. PICK n \in 0 .. Len(used) :
         /\ n = Overdue
         /\ n < Len(used) => ~ Expired(act[used[n + 1]].age)
  BY <1>1, OverdueIs
<1> DEFINE gone == SubSeq(used, 1, n)
           rest == SubSeq(used, n + 1, Len(used))
           B == Range(gone)
<1>3. /\ RunActions(B, "TIMEOUT", TRUE) /\ used' = rest /\ unused' = unused \o gone
      /\ timer' = Period * Sec /\ now' = now /\ connected' = connected /\ fn' = fn
      /\ depth' = depth /\ age' = age /\ aborted' = aborted /\ cut' = cut
  BY <1>2 DEF Timeout
<1>4. /\ used \in Seq(Bufs) /\ unused \in Seq(Bufs) /\ Len(used) \in Nat /\ n \in Nat
      /\ DOMAIN used = 1 .. Len(used) /\ DOMAIN unused = 1 .. Len(unused)
  BY <1>1 DEF TypeOK
<1>5. /\ gone \in Seq(Bufs) /\ Len(gone) = n /\ DOMAIN gone = 1 .. n
      /\ \A k \in 1 .. n : gone[k] = used[k]
  BY <1>4
<1>6. /\ rest \in Seq(Bufs) /\ Len(rest) = Len(used) - n /\ DOMAIN rest = 1 .. Len(used) - n
      /\ \A k \in 1 .. Len(used) - n : rest[k] = used[k + n]
  <2>1. /\ rest \in Seq(Bufs) /\ Len(rest) = Len(used) - n
        /\ \A k \in 1 .. Len(used) - n : rest[k] = used[k + n]
    BY <1>4, Rest
  <2>2. DOMAIN rest = 1 .. Len(used) - n
    BY <2>1
  <2> QED BY <2>1, <2>2
<1> HIDE DEF gone, rest, B
<1>7. \A j, k \in 1 .. Len(used) : used[j] = used[k] => j = k
  BY <1>1, <1>4 DEF PoolInv, IsInjective
<1>8. IsInjective(gone) /\ IsInjective(rest) /\ B \subseteq Range(used)
  <2>1. IsInjective(gone)
    BY <1>4, <1>5, <1>7 DEF IsInjective
  <2>2. \A j, k \in 1 .. Len(used) - n : rest[j] = rest[k] => j + n = k + n
    BY <1>4, <1>6, <1>7
  <2>3. IsInjective(rest)
    BY <1>4, <1>6, <2>2 DEF IsInjective
  <2>4. B \subseteq Range(used)
    BY <1>4, <1>5 DEF B, Range
  <2> QED BY <2>1, <2>3, <2>4
<1>9. Range(rest) = Range(used) \ B
  <2>1. ASSUME NEW x \in Range(rest) PROVE x \in Range(used) \ B
    <3>1. PICK k \in 1 .. Len(used) - n : rest[k] = x
      BY <1>6 DEF Range
    <3>2. k + n \in 1 .. Len(used) /\ k + n > n /\ used[k + n] = x
      BY <1>4, <1>6, <3>1
    <3>3. \A j \in 1 .. n : gone[j] # x
      BY <1>4, <1>5, <1>7, <3>2
    <3> QED BY <1>4, <1>5, <3>2, <3>3 DEF B, Range
  <2>2. ASSUME NEW x \in Range(used) \ B PROVE x \in Range(rest)
    <3>1. PICK k \in 1 .. Len(used) : used[k] = x
      BY <1>4 DEF Range
    <3>2. k > n
      BY <1>4, <1>5, <2>2, <3>1 DEF B, Range
    <3>3. k - n \in 1 .. Len(used) - n /\ (k - n) + n = k
      BY <1>4, <3>2
    <3> QED BY <1>6, <3>1, <3>3 DEF Range
  <2> QED BY <2>1, <2>2
<1>10. /\ unused \o gone \in Seq(Bufs) /\ IsInjective(unused \o gone)
       /\ Range(unused \o gone) = Range(unused) \cup B
  <2>1. IsInjective(unused) /\ Range(unused) \cap Range(gone) = {}
    BY <1>1, <1>8 DEF PoolInv, B
  <2> QED BY <1>4, <1>5, <1>8, <2>1, Joined DEF B
<1>11. /\ pc' \in [Tasks -> {"idle", "write", "wait", "asleep", "return"}]
       /\ outret' \in [Tasks -> [1 .. 2 -> Results]]
       /\ reply' \in [Tasks -> {"none", "held", "lost"}]
       /\ left' \in [Tasks -> 0 .. Sec] /\ acked' \in [Tasks -> SUBSET (1 .. 2)]
       /\ act' \in [Bufs -> Action \cup {NoAct}]
       /\ \A c \in Bufs : act'[c] = IF c \in B THEN NoAct ELSE act[c]
       /\ CallInv' /\ WaitInv' /\ ResultInv' /\ ReplyInv'
  <2>1. B \in SUBSET Bufs /\ \A c \in B : act[c] # NoAct
    BY <1>1, <1>8 DEF PoolInv
  <2>2. "TIMEOUT" \in Results \ {"UNSET"} /\ TRUE \in BOOLEAN
    BY DEF Results
  <2> QED BY <1>3, <2>1, <2>2, RunStep
<1>12. PoolInv'
  BY <1>1, <1>3, <1>8, <1>9, <1>10, <1>11, PoolMoved
<1>13. AgeInv'
  <2> SUFFICES ASSUME NEW k \in 1 .. Len(rest)
               PROVE  /\ act'[rest[k]].age + Period * Sec <= 2 * (Period * Sec)
                      /\ \A j \in 1 .. Len(rest) : k < j => act'[rest[j]].age <= act'[rest[k]].age
    BY <1>3 DEF AgeInv
  <2>1. ASSUME NEW j \in 1 .. Len(rest)
        PROVE  /\ j + n \in 1 .. Len(used) /\ act'[rest[j]] = act[used[j + n]]
               /\ act[used[j + n]].age \in Nat
    <3>1. j + n \in 1 .. Len(used) /\ rest[j] = used[j + n]
      BY <1>4, <1>6
    <3>2. rest[j] \in Bufs /\ rest[j] \notin B
      BY <1>4, <1>6, <1>9 DEF Range
    <3> QED BY <1>1, <1>11, <3>1, <3>2, UsedAct
  <2>2. \A j \in 1 .. Len(rest) : k < j => act'[rest[j]].age <= act'[rest[k]].age
    <3>1. \A j \in 1 .. Len(rest) : k < j => k + n < j + n
      BY <1>4, <1>6
    <3> QED BY <1>1, <2>1, <3>1 DEF AgeInv
  <2>3. act[used[n + 1]].age <= Period * Sec /\ n + 1 \in 1 .. Len(used) /\ act[used[n + 1]].age \in Nat
    <3>1. n < Len(used) /\ n + 1 \in 1 .. Len(used)
      BY <1>4, <1>6
    <3>2. act[used[n + 1]].age \in Nat
      BY <1>1, <3>1, UsedAct
    <3>3. ~ (act[used[n + 1]].age > Period * Sec)
      BY <1>2, <3>1, Zenon DEF Expired
    <3> QED BY <3>1, <3>2, <3>3, Numbers
  <2>4. act[used[k + n]].age <= act[used[n + 1]].age
    <3>1. k = 1 \/ n + 1 < k + n
      BY <1>4, <1>6
    <3>2. CASE k = 1
      BY <1>4, <2>3, <3>2
    <3>3. CASE n + 1 < k + n
      BY <1>1, <2>1, <2>3, <3>3 DEF AgeInv
    <3> QED BY <3>1, <3>2, <3>3
  <2>5. act'[rest[k]].age + Period * Sec <= 2 * (Period * Sec)
    <3>1. act'[rest[k]].age \in Nat /\ Period * Sec \in Nat
      BY <2>1, Numbers
    <3>2. act'[rest[k]].age <= Period * Sec
      BY <2>1, <2>3, <2>4, <3>1, SMTT(30)
    <3>3. \A a, p \in Nat : a <= p => a + p <= 2 * p
      OBVIOUS
    <3> QED BY <3>1, <3>2, <3>3
  <2> QED BY <2>2, <2>5
<1>14. TypeOK'
  <2>1. aborted' \in [Tasks -> BOOLEAN] /\ cut' \in [Tasks -> BOOLEAN] /\ connected' \in BOOLEAN
    BY <1>1, <1>3, Zenon DEF TypeOK
  <2>2. timer' \in 0 .. Period * Sec
    BY <1>3, Numbers
  <2> QED BY <1>1, <1>3, <1>6, <1>10, <1>11, <2>1, <2>2 DEF TypeOK
<1> QED BY <1>11, <1>12, <1>13, <1>14 DEF IInv

-----------------------------------------------------------------------------
LEMMA TaskInv == ASSUME IInv, NEW w \in Tasks, TaskStep(w) PROVE IInv'
<1>1. CASE \E f \in MayCall[w] : Call(w, f)
  BY <1>1, CallStep
<1>2. CASE Write(w)
  BY <1>2, WriteStep
<1>3. CASE WriteFails(w)
  BY <1>3, LeaveStep DEF WriteFails
<1>4. CASE CheckWait(w)
  BY <1>4, WaitStep
<1>5. CASE SpuriousWakeup(w)
  BY <1>5, WaitStep
<1>6. CASE Beep(w)
  BY <1>6, BeepStep
<1>7. CASE Return(w)
  BY <1>7, LeaveStep DEF Return
<1>8. CASE Abort(w)
  <2>1. UNCHANGED <<clock, connected, lists, task>>
    BY <1>8 DEF Abort
  <2>2. aborted' = [aborted EXCEPT ![w] = TRUE] /\ TypeOK
    BY <1>8 DEF Abort, IInv
  <2>3. aborted' \in [Tasks -> BOOLEAN]
    BY <2>2, Zenon DEF TypeOK
  <2>4. connected' \in BOOLEAN
    BY <2>1, <2>2, Zenon DEF TypeOK
  <2> QED BY <2>1, <2>3, <2>4, StillStep
<1> QED BY <1>1, <1>2, <1>3, <1>4, <1>5, <1>6, <1>7, <1>8 DEF TaskStep

LEMMA NextInv == IInv /\ [Next]_vars => IInv'
<1> SUFFICES ASSUME IInv, [Next]_vars PROVE IInv'
  OBVIOUS
<1>1. CASE Tick
  BY <1>1, TickStep
<1>2. CASE Connected \/ Lost \/ UNCHANGED vars
  <2>1. UNCHANGED <<clock, lists, task, aborted>>
    BY <1>2 DEF Connected, Lost, vars
  <2>2. connected' = TRUE \/ connected' = FALSE \/ connected' = connected
    BY <1>2 DEF Connected, Lost, vars
  <2>3. TypeOK
    BY DEF IInv
  <2>4. connected' \in BOOLEAN
    BY <2>2, <2>3, Zenon DEF TypeOK
  <2>5. aborted' \in [Tasks -> BOOLEAN]
    BY <2>1, <2>3, Zenon DEF TypeOK
  <2> QED BY <2>1, <2>4, <2>5, StillStep
<1>3. CASE \E w \in Tasks : TaskStep(w)
  BY <1>3, TaskInv
<1>4. CASE \E i \in 1 .. Len(used) : Acknowledge(i)
  BY <1>4, AcknowledgeStep
<1>5. CASE Timeout
  BY <1>5, TimeoutStep
<1> QED BY <1>1, <1>2, <1>3, <1>4, <1>5 DEF Next

\* The pool, the ages of the used buffers and what each task may rely on are as
\* IInv says in every state that the event loop and the tasks can reach.
THEOREM Invariant == Spec => []IInv
<1> QED BY InitInv, NextInv, PTL DEF Spec

\* Every variable of the model keeps to its type.
THEOREM TypeCorrect == Spec => []TypeOK
<1>1. IInv => TypeOK
  BY DEF IInv
<1> QED BY <1>1, Invariant, PTL

\* l0006_netcom_write, netcom_readcb and netcom_timeoutcb never lose a write
\* buffer, nor have one in both lists.
THEOREM PoolIsWhole == Spec => []PoolWhole
<1>1. ASSUME IInv PROVE PoolWhole
  <2>1. unused \in Seq(Bufs) /\ used \in Seq(Bufs) /\ PoolInv
    BY <1>1 DEF IInv, TypeOK
  <2>2. /\ IsInjective(unused) /\ IsInjective(used) /\ Range(unused) \cap Range(used) = {}
        /\ Range(unused) \cup Range(used) = Bufs
        /\ \A b \in Bufs : b \in Range(used) <=> act[b] # NoAct
    BY <2>1 DEF PoolInv
  <2>3. Range(unused \o used) = Range(unused) \cup Range(used) /\ IsInjective(unused \o used)
    BY <2>1, <2>2, Joined
  <2> QED BY <2>2, <2>3, Zenon DEF PoolWhole
<1> QED BY <1>1, Invariant, PTL

\* No callback stores a result in a stack frame that is gone: every buffer is
\* taken from the used list before the wait of l0006_netcmd_general_command ends.
THEOREM FramesAreAlive == Spec => []NoDeadFrame
<1>1. ASSUME IInv PROVE NoDeadFrame
  <2> SUFFICES ASSUME NEW b \in Range(used), ~ cut[act[b].who] PROVE act[b].frame # 0
    BY DEF NoDeadFrame
  <2>1. TypeOK /\ PoolInv /\ CallInv /\ WaitInv
    BY <1>1 DEF IInv
  <2>2. b \in Bufs /\ act[b] # NoAct
    BY <2>1 DEF PoolInv
  <2>3. act[b].who \in Tasks /\ b \in Owned(act[b].who)
    BY <2>1, <2>2, ActIs DEF Owned
  <2>4. /\ pc[act[b].who] \in {"wait", "asleep"} /\ act[b].frame = depth[act[b].who]
    BY <2>1, <2>3 DEF WaitInv
  <2> QED BY <2>1, <2>3, <2>4 DEF CallInv
<1> QED BY <1>1, Invariant, PTL

\* A function of cmdset.c only reports success for commands that have been
\* acknowledged, though their result starts as ACK_SUCCESS.
THEOREM SuccessIsAcked == Spec => []SuccessMeansAcked
<1>1. ASSUME IInv PROVE SuccessMeansAcked
  <2> SUFFICES ASSUME NEW w \in Tasks, pc[w] = "return", ~ cut[w],
                      NEW d \in 1 .. depth[w], outret[w][d] = "SUCCESS"
               PROVE  d \in acked[w]
    BY DEF SuccessMeansAcked
  <2>1. TypeOK /\ CallInv /\ WaitInv /\ ResultInv
    BY <1>1 DEF IInv
  <2>2. depth[w] \in 1 .. 2
    BY <2>1 DEF CallInv
  <2>3. Owned(w) = {}
    BY <2>1 DEF WaitInv
  <2>4. CASE d = depth[w]
    BY <2>1, <2>3, <2>4 DEF ResultInv
  <2>5. CASE d = 1 /\ depth[w] = 2
    BY <2>1, <2>5 DEF ResultInv
  <2> QED BY <2>2, <2>4, <2>5
<1> QED BY <1>1, Invariant, PTL

\* The packet of a version is never lost by a task whose waits are left alone.
THEOREM RepliesAreFreed == Spec => []NoReplyLeak
<1>1. IInv => NoReplyLeak
  BY DEF IInv, ReplyInv, NoReplyLeak
<1> QED BY <1>1, Invariant, PTL

\* No task stays in a command for longer than its timeout and two seconds.
THEOREM CallsReturn == Spec => []CallBounded
<1>1. ASSUME IInv PROVE CallBounded
  <2> SUFFICES ASSUME NEW w \in Tasks, pc[w] # "idle" PROVE age[w] <= (CmdTimeout + 2) * Sec
    BY DEF CallBounded
  <2>1. TypeOK /\ CallInv
    BY <1>1 DEF IInv
  <2>2. age[w] \in Nat /\ left[w] \in Nat /\ pc[w] \in {"write", "wait", "asleep", "return"}
    BY <2>1, Numbers DEF TypeOK
  <2> QED BY <2>1, <2>2, Numbers DEF CallInv
<1> QED BY <1>1, Invariant, PTL
-----------------------------------------------------------------------------
\* What a task sees of all this is a RemoteCall.

LEMMA StageIs ==
    ASSUME NEW w \in Tasks
    PROVE  /\ cut[w] => Stage(w) = "wild" /\ Result(w) = None
           /\ ~ cut[w] /\ pc[w] = "idle" => Stage(w) = "idle" /\ Result(w) = None
           /\ ~ cut[w] /\ pc[w] = "write" => Stage(w) = "sending" /\ Result(w) = None
           /\ ~ cut[w] /\ pc[w] \notin {"idle", "write"} /\ Owned(w) # {}
                 => Stage(w) = "pending" /\ Result(w) = None
           /\ ~ cut[w] /\ pc[w] \notin {"idle", "write"} /\ Owned(w) = {}
                 => Stage(w) = "done" /\ Result(w) = outret[w][depth[w]]
  BY DEF Stage, Result, Owned

LEMMA StageWillBe ==
    ASSUME NEW w \in Tasks
    PROVE  /\ cut'[w] => Stage(w)' = "wild" /\ Result(w)' = None
           /\ ~ cut'[w] /\ pc'[w] = "idle" => Stage(w)' = "idle" /\ Result(w)' = None
           /\ ~ cut'[w] /\ pc'[w] = "write" => Stage(w)' = "sending" /\ Result(w)' = None
           /\ ~ cut'[w] /\ pc'[w] \notin {"idle", "write"} /\ Owned(w)' # {}
                 => Stage(w)' = "pending" /\ Result(w)' = None
           /\ ~ cut'[w] /\ pc'[w] \notin {"idle", "write"} /\ Owned(w)' = {}
                 => Stage(w)' = "done" /\ Result(w)' = outret'[w][depth'[w]]
  BY DEF Stage, Result, Owned

LEMMA SameStage ==
    ASSUME NEW x \in Tasks, cut'[x] <=> cut[x], pc'[x] = pc[x], outret'[x] = outret[x],
           depth'[x] = depth[x], Owned(x)' = {} <=> Owned(x) = {}
    PROVE  Stage(x)' = Stage(x) /\ Result(x)' = Result(x)
<1>1. (\E b \in Bufs : act'[b].who = x) <=> (\E b \in Bufs : act[b].who = x)
  BY DEF Owned
<1>2. Stage(x)' = Stage(x)
  BY <1>1 DEF Stage
<1> QED BY <1>2 DEF Result

\* A step that all tasks see alike, and one of a single task
LEMMA NothingSeen ==
    ASSUME age' = age, connected' = connected,
           \A x \in Tasks : Stage(x)' = Stage(x) /\ Result(x)' = Result(x)
    PROVE  UNCHANGED Remote!vars
  BY DEF Remote!vars

LEMMA OneSeen ==
    ASSUME NEW w \in Tasks, NEW s, NEW r, NEW n, Stage(w)' = s, Result(w)' = r,
           age' = [age EXCEPT ![w] = n], connected' = connected,
           \A x \in Tasks : x # w => Stage(x)' = Stage(x) /\ Result(x)' = Result(x)
    PROVE  Remote!Become(w, s, r, n)
<1>1. [x \in Tasks |-> Stage(x)]' = [[x \in Tasks |-> Stage(x)] EXCEPT ![w] = s]
  OBVIOUS
<1>2. [x \in Tasks |-> Result(x)]' = [[x \in Tasks |-> Result(x)] EXCEPT ![w] = r]
  OBVIOUS
<1> QED BY <1>1, <1>2 DEF Remote!Become

LEMMA StepSeen ==
    ASSUME NEW w \in Tasks,
           \/ Remote!Call(w) \/ Remote!Refuse(w) \/ Remote!Send(w) \/ Remote!Answer(w, "SUCCESS")
           \/ Remote!Answer(w, "FAIL") \/ Remote!GoOn(w) \/ Remote!Return(w)
           \/ Remote!Interrupt(w) \/ Remote!Wild(w)
    PROVE  Remote!Next
<1>1. Remote!Step(w)
  BY DEF Remote!Step
<1> QED BY <1>1 DEF Remote!Next

LEMMA RemoteInit == Init => Remote!Init
<1> SUFFICES ASSUME Init PROVE Remote!Init
  OBVIOUS
<1>1. connected = FALSE /\ age = [w \in Tasks |-> 0]
  BY DEF Init
<1>2. ASSUME NEW w \in Tasks PROVE Stage(w) = "idle" /\ Result(w) = None
  <2>1. ~ cut[w] /\ pc[w] = "idle"
    BY DEF Init
  <2> QED BY <2>1, StageIs
<1> QED BY <1>1, <1>2 DEF Remote!Init

LEMMA TickSeen == ASSUME IInv, IInv', Tick PROVE Remote!Tick
<1>1. TypeOK /\ TypeOK' /\ CallInv'
  BY DEF IInv
<1>2. /\ connected' = connected /\ pc' = pc /\ depth' = depth /\ outret' = outret /\ cut' = cut
      /\ \A w \in Tasks : age'[w] = IF pc[w] = "idle" THEN 0 ELSE age[w] + 1
      /\ \A w \in Tasks : pc[w] = "idle" \/ pc[w] = "asleep"
  BY DEF Tick, frames
<1>3. \A b \in Bufs : act'[b].who = act[b].who
  <2>1. \A b \in Bufs : act'[b] = IF act[b] = NoAct THEN NoAct ELSE [act[b] EXCEPT !.age = @ + 1]
    BY DEF Tick
  <2>2. ASSUME NEW b \in Bufs, act[b] # NoAct PROVE act'[b].who = act[b].who
    BY <1>1, <2>1, <2>2, ActIs DEF Action
  <2> QED BY <2>1, <2>2
<1>4. \A w \in Tasks : Stage(w)' = Stage(w) /\ Result(w)' = Result(w)
  BY <1>2, <1>3, SameStage DEF Owned
<1>5. age' \in [Tasks -> 0 .. (CmdTimeout + 2) * Sec]
  <2> SUFFICES ASSUME NEW w \in Tasks PROVE age'[w] \in 0 .. (CmdTimeout + 2) * Sec
    BY <1>1 DEF TypeOK
  <2>1. age'[w] \in Nat /\ left'[w] \in Nat
    BY <1>1, Numbers DEF TypeOK
  <2>2. CASE pc[w] = "idle"
    BY <1>2, <2>2, Numbers
  <2>3. CASE pc[w] = "asleep"
    <3>1. age'[w] + left'[w] <= (CmdTimeout + 2) * Sec
      BY <1>1, <1>2, <2>3 DEF CallInv
    <3> QED BY <2>1, <3>1, Numbers
  <2> QED BY <1>2, <2>2, <2>3
<1>6. \A w \in Tasks : \/ Stage(w) # "idle" /\ age'[w] = age[w] + 1
                       \/ Stage(w) \in {"idle", "wild"} /\ age'[w] = 0
  BY <1>2, StageIs
<1> QED BY <1>2, <1>4, <1>5, <1>6 DEF Remote!Tick

LEMMA ConnectionSeen == ASSUME IInv, Connected \/ Lost PROVE Remote!Connection
<1>1. UNCHANGED <<clock, lists, task, aborted>>
  BY DEF Connected, Lost
<1>2. connected' = ~ connected
  BY Zenon DEF Connected, Lost
<1>3. age' = age /\ \A x \in Tasks : Stage(x)' = Stage(x) /\ Result(x)' = Result(x)
  BY <1>1, SameStage DEF lists, task, frames, waits, Owned
<1> QED BY <1>2, <1>3 DEF Remote!Connection

\* A command begins.
LEMMA CommandSeen ==
    ASSUME IInv, NEW w \in Tasks, NEW f, NEW d, Command(w, f, d),
           UNCHANGED <<connected, act, cut>>
    PROVE  IF cut[w] THEN Remote!Wild(w) ELSE Remote!Become(w, "sending", None, 0)
<1>1. age' = [age EXCEPT ![w] = 0] /\ pc'[w] = "write"
  BY DEF Command, IInv, TypeOK
<1>2. ASSUME NEW x \in Tasks, x # w PROVE Stage(x)' = Stage(x) /\ Result(x)' = Result(x)
  <2>1. pc'[x] = pc[x] /\ outret'[x] = outret[x] /\ depth'[x] = depth[x]
    BY <1>2 DEF Command, IInv, TypeOK
  <2> QED BY <2>1, SameStage DEF Owned
<1>3. CASE cut[w]
  <2>1. Stage(w) = "wild" /\ Stage(w)' = "wild" /\ Result(w)' = None
    BY <1>3, StageIs, StageWillBe
  <2>2. Remote!Become(w, "wild", None, 0)
    BY <1>1, <1>2, <2>1, OneSeen
  <2> QED BY <1>3, <2>1, <2>2 DEF Remote!Wild
<1>4. CASE ~ cut[w]
  <2>1. Stage(w)' = "sending" /\ Result(w)' = None
    BY <1>1, <1>4, StageWillBe
  <2>2. Remote!Become(w, "sending", None, 0)
    BY <1>1, <1>2, <2>1, OneSeen
  <2> QED BY <1>4, <2>2
<1> QED BY <1>3, <1>4

LEMMA CallSeen == ASSUME IInv, NEW w \in Tasks, NEW f, Call(w, f) PROVE Remote!Next
<1>1. IF cut[w] THEN Remote!Wild(w) ELSE Remote!Become(w, "sending", None, 0)
  BY CommandSeen DEF Call, lists
<1>2. ~ cut[w] => Stage(w) = "idle"
  BY StageIs DEF Call
<1>3. Remote!Wild(w) \/ Remote!Call(w)
  BY <1>1, <1>2 DEF Remote!Call
<1> QED BY <1>3, StepSeen

LEMMA BeepSeen == ASSUME IInv, NEW w \in Tasks, Beep(w) PROVE Remote!Next
<1>1. IF cut[w] THEN Remote!Wild(w) ELSE Remote!Become(w, "sending", None, 0)
  BY CommandSeen DEF Beep, lists
<1>2. ~ cut[w] => Stage(w) = "done" /\ Result(w) = "SUCCESS"
  <2>1. pc[w] = "return" /\ depth[w] = 1 /\ outret[w][1] = "SUCCESS"
    BY DEF Beep, BeepDue
  <2>2. ~ cut[w] => Owned(w) = {}
    BY <2>1 DEF IInv, WaitInv
  <2> QED BY <2>1, <2>2, StageIs
<1>3. Remote!Wild(w) \/ Remote!GoOn(w)
  BY <1>1, <1>2 DEF Remote!GoOn
<1> QED BY <1>3, StepSeen

LEMMA WriteSeen ==
    ASSUME IInv, NEW w \in Tasks, Write(w)
    PROVE  Remote!Next \/ UNCHANGED Remote!vars
<1>1. TypeOK /\ PoolInv
  BY DEF IInv
<1> DEFINE b == Head(unused)
<1>2. /\ pc[w] = "write" /\ connected /\ connected' = connected /\ age' = age
      /\ depth' = depth /\ outret' = outret /\ cut' = cut
      /\ \A x \in Tasks : pc'[x] = IF x = w THEN "wait" ELSE pc[x]
  BY <1>1 DEF Write, frames, waits, TypeOK
<1>3. b \in Bufs /\ act[b].who = None
  <2>1. unused \in Seq(Bufs) /\ unused # <<>>
    BY <1>1 DEF Write, TypeOK
  <2>2. Len(unused) \in Nat \ {0} /\ b = unused[1] /\ DOMAIN unused = 1 .. Len(unused)
    BY <2>1
  <2>3. b \in Bufs /\ b \in Range(unused)
    BY <2>1, <2>2 DEF Range
  <2>4. act[b] = NoAct
    BY <1>1, <2>3 DEF PoolInv
  <2> QED BY <2>3, <2>4 DEF NoAct
<1>4. act' = [act EXCEPT ![b] = Frame(w)] /\ Frame(w).who = w
  BY DEF Write, Frame
<1>5. ASSUME NEW x \in Tasks PROVE Owned(x)' = IF x = w THEN Owned(w) \cup {b} ELSE Owned(x)
  <2>1. \A c \in Bufs : act'[c].who = IF c = b THEN w ELSE act[c].who
    BY <1>1, <1>3, <1>4 DEF TypeOK
  <2> HIDE DEF b
  <2> QED BY <1>3, <2>1, NetCmdAssumption DEF Owned
<1>6. ASSUME NEW x \in Tasks, x # w PROVE Stage(x)' = Stage(x) /\ Result(x)' = Result(x)
  BY <1>2, <1>5, <1>6, SameStage
<1>7. CASE cut[w]
  <2>1. \A x \in Tasks : Stage(x)' = Stage(x) /\ Result(x)' = Result(x)
    BY <1>2, <1>6, <1>7, StageIs, StageWillBe
  <2> QED BY <1>2, <2>1, NothingSeen
<1>8. CASE ~ cut[w]
  <2>1. Stage(w) = "sending" /\ Stage(w)' = "pending" /\ Result(w)' = None
    BY <1>2, <1>5, <1>8, StageIs, StageWillBe
  <2>2. age' = [age EXCEPT ![w] = age[w]]
    BY <1>1, <1>2 DEF TypeOK
  <2>3. Remote!Become(w, "pending", None, age[w])
    BY <1>2, <1>6, <2>1, <2>2, OneSeen
  <2>4. Remote!Send(w)
    BY <1>2, <2>1, <2>3 DEF Remote!Send
  <2> QED BY <2>4, StepSeen
<1> QED BY <1>7, <1>8

\* The call returns, with its outcome or because the command was not sent.
LEMMA LeaveSeen ==
    ASSUME IInv, NEW w \in Tasks, Leave(w), pc[w] \in {"write", "return"},
           UNCHANGED <<connected, cut>>
    PROVE  Remote!Next
<1>1. TypeOK /\ WaitInv
  BY DEF IInv
<1>2. /\ age' = [age EXCEPT ![w] = 0]
      /\ \A x \in Tasks : pc'[x] = IF x = w THEN "idle" ELSE pc[x]
      /\ \A x \in Tasks : x # w => depth'[x] = depth[x] /\ outret'[x] = outret[x]
  BY <1>1 DEF Leave, TypeOK
<1>3. \A b \in Bufs : act'[b].who = act[b].who
  <2>1. \A b \in Bufs : act'[b] = IF act[b].who = w THEN [act[b] EXCEPT !.frame = 0] ELSE act[b]
    BY DEF Leave
  <2>2. ASSUME NEW b \in Bufs, act[b].who = w PROVE act'[b].who = w
    <3>1. act[b] \in Action
      BY <1>1, <2>2, ActIs
    <3> QED BY <2>1, <2>2, <3>1 DEF Action
  <2> QED BY <2>1, <2>2
<1>4. ASSUME NEW x \in Tasks, x # w PROVE Stage(x)' = Stage(x) /\ Result(x)' = Result(x)
  BY <1>2, <1>3, <1>4, SameStage DEF Owned
<1>5. CASE cut[w]
  <2>1. Stage(w) = "wild" /\ Stage(w)' = "wild" /\ Result(w)' = None
    BY <1>5, StageIs, StageWillBe
  <2>2. Remote!Become(w, "wild", None, 0)
    BY <1>2, <1>4, <2>1, OneSeen
  <2>3. Remote!Wild(w)
    BY <2>1, <2>2 DEF Remote!Wild
  <2> QED BY <2>3, StepSeen
<1>6. CASE ~ cut[w]
  <2>1. Stage(w)' = "idle" /\ Result(w)' = None
    BY <1>2, <1>6, StageWillBe
  <2>2. Remote!Become(w, "idle", None, 0)
    BY <1>2, <1>4, <2>1, OneSeen
  <2>3. Stage(w) = "sending" \/ Stage(w) = "done"
    <3>1. pc[w] = "return" => Owned(w) = {}
      BY <1>1, <1>6 DEF WaitInv
    <3> QED BY <1>6, <3>1, StageIs
  <2>4. Remote!Refuse(w) \/ Remote!Return(w)
    BY <2>2, <2>3 DEF Remote!Refuse, Remote!Return
  <2> QED BY <2>4, StepSeen
<1> QED BY <1>5, <1>6

LEMMA WaitSeen ==
    ASSUME IInv, NEW w \in Tasks, CheckWait(w) \/ SpuriousWakeup(w)
    PROVE  Remote!Next \/ UNCHANGED Remote!vars
<1>1. TypeOK
  BY DEF IInv
<1>2. /\ act' = act /\ connected' = connected /\ depth' = depth /\ outret' = outret /\ age' = age
      /\ pc[w] = "wait" \/ pc[w] = "asleep"
  BY DEF CheckWait, SpuriousWakeup, lists, frames
<1>3. /\ \A x \in Tasks : x # w => pc'[x] = pc[x]
      /\ pc'[w] = "asleep" \/ pc'[w] = "return"
  BY <1>1 DEF CheckWait, SpuriousWakeup, TypeOK
<1>4. /\ \A x \in Tasks : x # w => (cut'[x] <=> cut[x])
      /\ cut[w] => cut'[w]
  BY <1>1, Zenon DEF CheckWait, SpuriousWakeup, TypeOK
<1>5. ASSUME NEW x \in Tasks, x # w PROVE Stage(x)' = Stage(x) /\ Result(x)' = Result(x)
  BY <1>2, <1>3, <1>4, <1>5, SameStage DEF Owned
<1>6. Owned(w)' = Owned(w)
  BY <1>2 DEF Owned
<1>7. CASE cut[w] <=> cut'[w]
  <2>1. Stage(w)' = Stage(w) /\ Result(w)' = Result(w)
    BY <1>2, <1>3, <1>6, <1>7, StageIs, StageWillBe
  <2> QED BY <1>2, <1>5, <2>1, NothingSeen
<1>8. CASE ~ cut[w] /\ cut'[w]
  <2>1. Stage(w) \in {"pending", "done"} /\ Stage(w)' = "wild" /\ Result(w)' = None
    BY <1>2, <1>8, StageIs, StageWillBe
  <2>2. age' = [age EXCEPT ![w] = age[w]]
    BY <1>1, <1>2 DEF TypeOK
  <2>3. Remote!Become(w, "wild", None, age[w])
    BY <1>2, <1>5, <2>1, <2>2, OneSeen
  <2>4. Remote!Interrupt(w)
    BY <2>1, <2>3 DEF Remote!Interrupt
  <2> QED BY <2>4, StepSeen
<1> QED BY <1>4, <1>7, <1>8

\* The callbacks of write buffers end the pending commands of their tasks, with
\* the result they carry, and change nothing for others.
LEMMA RunSeen ==
    ASSUME IInv, NEW B \in SUBSET Bufs, \A b \in B : act[b] # NoAct,
           NEW r, NEW wakes, RunActions(B, r, wakes), UNCHANGED <<depth, cut>>
    PROVE  \A x \in Tasks :
              IF x \in Owners(B) /\ ~ cut[x]
              THEN Stage(x) = "pending" /\ Stage(x)' = "done" /\ Result(x)' = r
              ELSE Stage(x)' = Stage(x) /\ Result(x)' = Result(x)
<1>1. TypeOK /\ CallInv /\ WaitInv
  BY DEF IInv
<1>2. /\ \A x \in Tasks : pc'[x] = IF wakes /\ x \in Owners(B) /\ pc[x] = "asleep"
                                   THEN "return" ELSE pc[x]
      /\ \A b \in Bufs : act'[b] = IF b \in B THEN NoAct ELSE act[b]
  BY DEF RunActions
<1>3. PICK hit \in SUBSET {f \in Tasks \X (1 .. 2) :
                              <<f[1], 0>> \in Targets(B) /\ f[2] <= depth[f[1]]} :
         outret' = [x \in Tasks |-> [d \in 1 .. 2 |->
                      IF <<x, d>> \in Targets(B) \cup hit THEN r ELSE outret[x][d]]]
  BY DEF RunActions
<1> SUFFICES ASSUME NEW x \in Tasks
             PROVE  IF x \in Owners(B) /\ ~ cut[x]
                    THEN Stage(x) = "pending" /\ Stage(x)' = "done" /\ Result(x)' = r
                    ELSE Stage(x)' = Stage(x) /\ Result(x)' = Result(x)
  OBVIOUS
<1>4. Owned(x)' = Owned(x) \ B
  <2>1. NoAct.who # x
    BY NetCmdAssumption DEF NoAct
  <2> QED BY <1>2, <2>1 DEF Owned
<1>5. CASE cut[x]
  BY <1>5, StageIs, StageWillBe
<1>6. CASE ~ cut[x] /\ x \notin Owners(B)
  <2>1. pc'[x] = pc[x] /\ Owned(x)' = Owned(x)
    BY <1>2, <1>4, <1>6 DEF Owned, Owners
  <2>2. outret'[x] = outret[x]
    <3>1. \A d \in 0 .. 2 : <<x, d>> \notin Targets(B)
      BY <1>6 DEF Targets, Owners
    <3>2. \A d \in 1 .. 2 : <<x, d>> \notin hit
      BY <3>1
    <3>3. outret'[x] = [d \in 1 .. 2 |-> outret[x][d]]
      BY <1>3, <3>1, <3>2
    <3> QED BY <1>1, <3>3 DEF TypeOK
  <2> QED BY <1>6, <2>1, <2>2, SameStage
<1>7. CASE ~ cut[x] /\ x \in Owners(B)
  <2>1. PICK b \in B : act[b].who = x
    BY <1>7 DEF Owners
  <2>2. b \in Owned(x) /\ \A c \in Owned(x) : c = b
    BY <1>1, <1>7, <2>1 DEF Owned, WaitInv
  <2>3. pc[x] \in {"wait", "asleep"} /\ act[b].frame = depth[x]
    BY <1>1, <1>7, <2>2 DEF WaitInv
  <2>4. depth[x] \in 1 .. 2 /\ <<x, depth[x]>> \in Targets(B)
    BY <1>1, <2>1, <2>3 DEF CallInv, Targets
  <2>5. Stage(x) = "pending"
    BY <1>7, <2>2, <2>3, StageIs
  <2>6. Owned(x)' = {} /\ pc'[x] \in {"wait", "asleep", "return"}
    BY <1>2, <1>4, <2>2, <2>3
  <2>7. outret'[x][depth[x]] = r
    BY <1>3, <2>4
  <2>8. Stage(x)' = "done" /\ Result(x)' = r
    BY <1>7, <2>6, <2>7, StageWillBe
  <2> QED BY <1>7, <2>5, <2>8
<1> QED BY <1>5, <1>6, <1>7

LEMMA AcknowledgeSeen ==
    ASSUME IInv, NEW i \in 1 .. Len(used), Acknowledge(i)
    PROVE  Remote!Next \/ UNCHANGED Remote!vars
<1>1. TypeOK /\ PoolInv
  BY DEF IInv
<1> DEFINE b == used[i]
           w == act[b].who
<1>2. /\ connected /\ connected' = connected /\ depth' = depth /\ age' = age /\ cut' = cut
  BY DEF Acknowledge
<1>3. PICK o \in Outcome(act[b].fn) : RunActions({b}, o.ack, o.wakes)
  BY DEF Acknowledge
<1>4. o.ack \in {"SUCCESS", "FAIL"}
  <2>1. \/ o = [ack |-> "SUCCESS", wakes |-> TRUE]
        \/ o = [ack |-> "FAIL", wakes |-> FALSE]
        \/ o = [ack |-> "FAIL", wakes |-> TRUE]
    <3>1. o \in {[ack |-> "SUCCESS", wakes |-> TRUE], [ack |-> "FAIL", wakes |-> FALSE]}
          \/ o \in IF act[b].fn = "conf" THEN {[ack |-> "FAIL", wakes |-> TRUE]} ELSE {}
      BY Zenon DEF Outcome
    <3> QED BY <3>1, Zenon
  <2> QED BY <2>1
<1>5. b \in Bufs /\ act[b] # NoAct /\ w \in Tasks
  BY <1>1, UsedAct
<1>6. \A x \in Tasks :
         IF x = w /\ ~ cut[x]
         THEN Stage(x) = "pending" /\ Stage(x)' = "done" /\ Result(x)' = o.ack
         ELSE Stage(x)' = Stage(x) /\ Result(x)' = Result(x)
  <2>1. {b} \in SUBSET Bufs /\ \A c \in {b} : act[c] # NoAct
    BY <1>5
  <2>2. Owners({b}) = {w}
    BY DEF Owners
  <2> QED BY <1>2, <1>3, <2>1, <2>2, RunSeen
<1> HIDE DEF b, w
<1>7. CASE cut[w]
  <2>1. \A x \in Tasks : Stage(x)' = Stage(x) /\ Result(x)' = Result(x)
    BY <1>6, <1>7
  <2> QED BY <1>2, <2>1, NothingSeen
<1>8. CASE ~ cut[w]
  <2>1. PICK v \in Tasks : v = w
    BY <1>5
  <2>2. Stage(v) = "pending" /\ Stage(v)' = "done" /\ Result(v)' = o.ack
    BY <1>6, <1>8, <2>1
  <2>3. \A x \in Tasks : x # v => Stage(x)' = Stage(x) /\ Result(x)' = Result(x)
    BY <1>6, <2>1
  <2>4. age' = [age EXCEPT ![v] = age[v]]
    BY <1>1, <1>2 DEF TypeOK
  <2>5. Remote!Become(v, "done", o.ack, age[v])
    BY <1>2, <2>2, <2>3, <2>4, OneSeen
  <2>6. Remote!Answer(v, "SUCCESS") \/ Remote!Answer(v, "FAIL")
    BY <1>2, <1>4, <2>2, <2>5 DEF Remote!Answer
  <2> QED BY <2>6, StepSeen
<1> QED BY <1>7, <1>8

LEMMA TimeoutSeen == ASSUME IInv, Timeout PROVE Remote!Next
<1>1. TypeOK /\ PoolInv
  BY DEF IInv
<1> DEFINE B == Range(SubSeq(used, 1, Overdue))
           W == {x \in Tasks : x \in Owners(B) /\ ~ cut[x]}
<1>2. /\ RunActions(B, "TIMEOUT", TRUE)
      /\ connected' = connected /\ depth' = depth /\ age' = age /\ cut' = cut
  BY DEF Timeout
<1>3. B \in SUBSET Bufs /\ \A b \in B : act[b] # NoAct
  <2>1. Overdue \in 0 .. Len(used) /\ used \in Seq(Bufs) /\ Len(used) \in Nat
    BY <1>1, OverdueIs DEF TypeOK
  <2>2. ASSUME NEW b \in B PROVE \E k \in 1 .. Len(used) : b = used[k]
    <3>1. Len(SubSeq(used, 1, Overdue)) = Overdue
          /\ DOMAIN SubSeq(used, 1, Overdue) = 1 .. Overdue
          /\ \A k \in 1 .. Overdue : SubSeq(used, 1, Overdue)[k] = used[k]
      BY <2>1
    <3> QED BY <2>1, <3>1 DEF Range
  <2> QED BY <1>1, <2>2, UsedAct
<1> HIDE DEF B
<1>4. \A x \in Tasks :
         IF x \in W
         THEN Stage(x) = "pending" /\ Stage(x)' = "done" /\ Result(x)' = "TIMEOUT"
         ELSE Stage(x)' = Stage(x) /\ Result(x)' = Result(x)
  BY <1>2, <1>3, RunSeen
<1> HIDE DEF W
<1>5. PICK V \in SUBSET Tasks : V = W
  BY DEF W
<1>6. Remote!TimeOut(V)
  BY <1>2, <1>4, <1>5 DEF Remote!TimeOut
<1> QED BY <1>6 DEF Remote!Next

LEMMA RemoteStep == IInv /\ IInv' /\ [Next]_vars => [Remote!Next]_(Remote!vars)
<1> SUFFICES ASSUME IInv, IInv', [Next]_vars PROVE [Remote!Next]_(Remote!vars)
  OBVIOUS
<1>1. CASE Tick
  BY <1>1, TickSeen DEF Remote!Next
<1>2. CASE Connected \/ Lost
  BY <1>2, ConnectionSeen DEF Remote!Next
<1>3. ASSUME NEW w \in Tasks, TaskStep(w) PROVE [Remote!Next]_(Remote!vars)
  <2>1. CASE \E f \in MayCall[w] : Call(w, f)
    BY <2>1, CallSeen
  <2>2. CASE Write(w)
    BY <2>2, WriteSeen
  <2>3. CASE WriteFails(w)
    BY <2>3, LeaveSeen DEF WriteFails
  <2>4. CASE CheckWait(w) \/ SpuriousWakeup(w)
    BY <2>4, WaitSeen
  <2>5. CASE Beep(w)
    BY <2>5, BeepSeen
  <2>6. CASE Return(w)
    BY <2>6, LeaveSeen DEF Return
  <2>7. CASE Abort(w)
    <3>1. UNCHANGED <<connected, act, pc, depth, outret, age, cut>>
      BY <2>7 DEF Abort, lists, task, frames, waits
    <3>2. \A x \in Tasks : Stage(x)' = Stage(x) /\ Result(x)' = Result(x)
      BY <3>1, SameStage DEF Owned
    <3> QED BY <3>1, <3>2, NothingSeen
  <2> QED BY <1>3, <2>1, <2>2, <2>3, <2>4, <2>5, <2>6, <2>7 DEF TaskStep
<1>4. ASSUME NEW i \in 1 .. Len(used), Acknowledge(i) PROVE [Remote!Next]_(Remote!vars)
  BY <1>4, AcknowledgeSeen
<1>5. CASE Timeout
  BY <1>5, TimeoutSeen
<1>6. CASE UNCHANGED vars
  <2>1. UNCHANGED <<connected, act, pc, depth, outret, age, cut>>
    BY <1>6 DEF vars, lists, task, frames, waits
  <2>2. \A x \in Tasks : Stage(x)' = Stage(x) /\ Result(x)' = Result(x)
    BY <2>1, SameStage DEF Owned
  <2> QED BY <2>1, <2>2, NothingSeen
<1> QED BY <1>1, <1>2, <1>3, <1>4, <1>5, <1>6 DEF Next

\* To a task that is not interrupted, write buffers, frames and the timer are a
\* call that gets one outcome for each command and returns after it, in time
\* (netcmd.c:221-400, netcom.c:339-447).
THEOREM CommandsAreCalls == Spec => ImplementsRemoteCall
<1>1. Spec => Remote!Spec
  BY Invariant, RemoteInit, RemoteStep, PTL DEF Spec, Remote!Spec
<1> QED BY <1>1 DEF ImplementsRemoteCall
=============================================================================
