---------------------------- MODULE RunLoop_proofs ----------------------------
(***************************************************************************)
(* Proofs about RunLoop, for any tasks, runners, callers and number of     *)
(* starts.                                                                 *)
(*                                                                         *)
(* The inductive invariant is Inv.  That the pointers represent the queue  *)
(* rests on where a task can be: one that is linked must not be linked     *)
(* already, so the tasks of the queue are distinct and none of them is on  *)
(* its way in (Placed), and completing a task must not make one that is    *)
(* queued reusable, so a runner's task has left the queue (Held).  That    *)
(* finish() leaves no runner asleep rests on the mutex: a runner tests the *)
(* flag and goes to sleep in one critical section.                         *)
(***************************************************************************)
EXTENDS RunLoop, SequenceTheorems, TLAPS

HoldsMutex(p) ==
  pc[p] \in {"push_link", "push_notify", "finish", "finish_notify", "pop_test"}

MutexInv == \A p \in Threads : HoldsMutex(p) <=> mutex = p

InQueue(t) == \E i \in 1..Len(queue) : queue[i] = t

\* The queue holds distinct tasks that were started.
Distinct ==
  /\ \A i, j \in 1..Len(queue) : queue[i] = queue[j] => i = j
  /\ \A i \in 1..Len(queue) : life[queue[i]] = "started"

Pushes(c) == pc[c] \in {"push", "push_link"}

\* A task on its way into the queue is there once.
Placed ==
  /\ \A c \in Callers : Pushes(c) =>
       task[c] \in Tasks /\ life[task[c]] = "started" /\ ~InQueue(task[c])
  /\ \A c, d \in Callers : Pushes(c) /\ Pushes(d) /\ task[c] = task[d] => c = d

\* A task about to be executed was popped, by that runner only.
Held ==
  /\ \A r \in Runners : pc[r] = "exec" => task[r] \in Tasks /\ life[task[r]] = "popped"
  /\ \A r, s \in Runners : pc[r] = "exec" /\ pc[s] = "exec" /\ task[r] = task[s] => r = s

\* An operation in progress has not completed.
Fresh == \A t \in Tasks : life[t] # "idle" => completions[t] = <<>>

Inv ==
  /\ TypeOK
  /\ MutexInv
  /\ Distinct
  /\ Placed
  /\ Held
  /\ Fresh
  /\ CompletesOnce
  /\ QueueShape
  /\ FinishWakesAll
  /\ NoLostWakeup

-----------------------------------------------------------------------------

\* A loop as constructed is empty, and every thread is outside it.
LEMMA InitInv == Init => Inv
<1> SUFFICES ASSUME Init PROVE Inv
  OBVIOUS
<1> USE RunLoopAssumption DEF Init
<1>1. TypeOK
  <2>1. next \in [Tasks \cup {Sentinel} -> Tasks \cup {Sentinel}]
    OBVIOUS
  <2>2. stop \in BOOLEAN /\ stopToken \in BOOLEAN
    OBVIOUS
  <2>3. pc \in [Threads -> {"idle", "push", "push_link", "push_notify", "finish",
                         "finish_notify", "pop", "pop_test", "waiting", "exec",
                         "body", "returned"}]
    BY DEF Threads
  <2>4. completions \in [Tasks -> Seq({"value", "error", "stopped"})]
    OBVIOUS
  <2>5. queue \in Seq(Tasks)
    OBVIOUS
  <2> QED
    BY <2>1, <2>2, <2>3, <2>4, <2>5 DEF TypeOK
<1>2. MutexInv
  BY DEF MutexInv, HoldsMutex, Threads
<1>3. Len(queue) = 0 /\ 1..Len(queue) = {}
  OBVIOUS
<1>4. Distinct /\ QueueShape
  BY <1>3 DEF Distinct, QueueShape
<1>5. \A p \in Threads : pc[p] \in {"pop", "idle"}
  OBVIOUS
<1>6. Placed /\ Held
  BY <1>5 DEF Placed, Held, Pushes, Threads
<1>7. Fresh /\ CompletesOnce
  BY DEF Fresh, CompletesOnce
<1>8. FinishWakesAll /\ NoLostWakeup
  BY DEF FinishWakesAll, NoLostWakeup
<1> QED
  BY <1>1, <1>2, <1>4, <1>6, <1>7, <1>8 DEF Inv

-----------------------------------------------------------------------------
(* The mutex, and finish()                                                  *)

\* Who takes the mutex finds it free, and who releases it held it.
LEMMA NextMutexInv == TypeOK /\ MutexInv /\ [Next]_vars => MutexInv'
<1> SUFFICES ASSUME TypeOK, MutexInv, [Next]_vars PROVE MutexInv'
  OBVIOUS
<1> USE RunLoopAssumption DEF TypeOK, MutexInv, HoldsMutex, Threads
<1>1. CASE RequestStop \/ UNCHANGED vars
  BY <1>1 DEF RequestStop, vars, threadVars
<1>2. ASSUME NEW c \in Callers, NEW t \in Tasks, Start(c, t) PROVE MutexInv'
  BY <1>2 DEF Start, Go
<1>3. ASSUME NEW c \in Callers, PushLock(c) \/ FinishLock(c) PROVE MutexInv'
  BY <1>3 DEF PushLock, FinishLock, Go, Acquire
<1>4. ASSUME NEW c \in Callers, PushThrows(c) PROVE MutexInv'
  BY <1>4 DEF PushThrows, PushMayThrow
<1>5. ASSUME NEW c \in Callers, PushLink(c) \/ FinishStop(c) PROVE MutexInv'
  BY <1>5 DEF PushLink, FinishStop, Go
<1>6. ASSUME NEW c \in Callers, PushNotify(c) PROVE MutexInv'
  BY <1>6 DEF PushNotify, NotifyOne, Waiting, Release
<1>7. ASSUME NEW c \in Callers, FinishNotify(c) PROVE MutexInv'
  BY <1>7 DEF FinishNotify, NotifyAll, Waiting, Release
<1>8. ASSUME NEW r \in Runners, PopLock(r) PROVE MutexInv'
  BY <1>8 DEF PopLock, Go, Acquire
<1>9. ASSUME NEW r \in Runners, PopWait(r) PROVE MutexInv'
  BY <1>9 DEF PopWait, Go, Release
<1>10. ASSUME NEW r \in Runners, PopTake(r) PROVE MutexInv'
  BY <1>10 DEF PopTake, Go, Release
<1>11. ASSUME NEW r \in Runners, SpuriousWakeup(r) \/ Execute(r) \/ BodyReturn(r)
       PROVE MutexInv'
  BY <1>11 DEF SpuriousWakeup, Execute, BodyReturn, Go
<1> QED
  BY <1>1, <1>2, <1>3, <1>4, <1>5, <1>6, <1>7, <1>8, <1>9, <1>10, <1>11
     DEF Next, Caller, Runner

\* A runner goes to sleep only while the flag is clear, and who set the flag is
\* in its critical section until every sleeper is awake.
LEMMA NextFinishWakesAll ==
  TypeOK /\ MutexInv /\ FinishWakesAll /\ [Next]_vars => FinishWakesAll'
<1> SUFFICES ASSUME TypeOK, MutexInv, FinishWakesAll, [Next]_vars PROVE FinishWakesAll'
  OBVIOUS
<1> USE RunLoopAssumption DEF TypeOK, FinishWakesAll, Waiting, Threads
<1>1. CASE RequestStop \/ UNCHANGED vars
  BY <1>1 DEF RequestStop, vars, loopVars, threadVars
<1>2. ASSUME NEW c \in Callers, NEW t \in Tasks, Start(c, t) PROVE FinishWakesAll'
  BY <1>2 DEF Start, Go
<1>3. ASSUME NEW c \in Callers,
             PushLock(c) \/ PushThrows(c) \/ PushLink(c) \/ FinishLock(c)
      PROVE FinishWakesAll'
  BY <1>3 DEF PushLock, PushThrows, PushMayThrow, PushLink, FinishLock, Go, loopVars
<1>4. ASSUME NEW c \in Callers, PushNotify(c) PROVE FinishWakesAll'
  BY <1>4 DEF PushNotify, NotifyOne, loopVars
<1>5. ASSUME NEW c \in Callers, FinishStop(c) PROVE FinishWakesAll'
  BY <1>5 DEF FinishStop, Go
<1>6. ASSUME NEW c \in Callers, FinishNotify(c) PROVE FinishWakesAll'
  BY <1>6 DEF FinishNotify, NotifyAll, loopVars
<1>7. ASSUME NEW r \in Runners, PopLock(r) \/ SpuriousWakeup(r) \/ BodyReturn(r)
      PROVE FinishWakesAll'
  BY <1>7 DEF PopLock, SpuriousWakeup, BodyReturn, Go, loopVars
<1>8. ASSUME NEW r \in Runners, PopWait(r) PROVE FinishWakesAll'
  BY <1>8 DEF PopWait, Ready, Go, loopVars
<1>9. ASSUME NEW r \in Runners, PopTake(r) PROVE FinishWakesAll'
  BY <1>9 DEF PopTake, Go
<1>10. ASSUME NEW r \in Runners, Execute(r) PROVE FinishWakesAll'
  BY <1>10 DEF Execute, Go, loopVars
<1> QED
  BY <1>1, <1>2, <1>3, <1>4, <1>5, <1>6, <1>7, <1>8, <1>9, <1>10 DEF Next, Caller, Runner

\* A runner goes to sleep only while the queue is empty, a task is linked only by
\* a caller that will notify, and who takes a notification is awake.
LEMMA NextNoLostWakeup ==
  TypeOK /\ NoLostWakeup /\ [Next]_vars => NoLostWakeup'
<1> SUFFICES ASSUME TypeOK, NoLostWakeup, [Next]_vars PROVE NoLostWakeup'
  OBVIOUS
<1> USE RunLoopAssumption DEF TypeOK, NoLostWakeup, Waiting, Threads
<1>1. CASE RequestStop \/ UNCHANGED vars
  BY <1>1 DEF RequestStop, vars, loopVars, threadVars
<1>2. ASSUME NEW c \in Callers, NEW t \in Tasks, Start(c, t) PROVE NoLostWakeup'
  BY <1>2 DEF Start, Go
<1>3. ASSUME NEW c \in Callers,
             PushLock(c) \/ PushThrows(c) \/ FinishLock(c) \/ FinishStop(c)
      PROVE NoLostWakeup'
  BY <1>3 DEF PushLock, PushThrows, PushMayThrow, FinishLock, FinishStop, Go, loopVars
<1>4. ASSUME NEW c \in Callers, PushLink(c) PROVE NoLostWakeup'
  BY <1>4 DEF PushLink, Go
<1>5. ASSUME NEW c \in Callers, PushNotify(c) PROVE NoLostWakeup'
  BY <1>5 DEF PushNotify, NotifyOne, loopVars
<1>6. ASSUME NEW c \in Callers, FinishNotify(c) PROVE NoLostWakeup'
  BY <1>6 DEF FinishNotify, NotifyAll, loopVars
<1>7. ASSUME NEW r \in Runners,
             PopLock(r) \/ SpuriousWakeup(r) \/ Execute(r) \/ BodyReturn(r)
      PROVE NoLostWakeup'
  BY <1>7 DEF PopLock, SpuriousWakeup, Execute, BodyReturn, Go, loopVars
<1>8. ASSUME NEW r \in Runners, PopWait(r) PROVE NoLostWakeup'
  BY <1>8 DEF PopWait, Ready, loopVars
<1>9. ASSUME NEW r \in Runners, PopTake(r) PROVE NoLostWakeup'
  <2>1. CASE next[Sentinel] = Sentinel
    BY <1>9, <2>1 DEF PopTake
  <2>2. CASE next[Sentinel] # Sentinel
    BY <1>9, <2>2 DEF PopTake, Leaves, Go
  <2> QED
    BY <2>1, <2>2
<1> QED
  BY <1>1, <1>2, <1>3, <1>4, <1>5, <1>6, <1>7, <1>8, <1>9 DEF Next, Caller, Runner

-----------------------------------------------------------------------------
(* The queue                                                                *)

\* What taking the first task leaves.
LEMMA TailIndex ==
  ASSUME queue \in Seq(Tasks), queue # <<>>
  PROVE  /\ Tail(queue) \in Seq(Tasks)
         /\ Len(queue) \in Nat /\ Len(queue) >= 1
         /\ Len(Tail(queue)) = Len(queue) - 1
         /\ \A i \in 1..Len(Tail(queue)) : i + 1 \in 1..Len(queue) /\ Tail(queue)[i] = queue[i + 1]
OBVIOUS

\* What adding a task at the end gives.
LEMMA AppendIndex ==
  ASSUME queue \in Seq(Tasks), NEW t \in Tasks
  PROVE  /\ Append(queue, t) \in Seq(Tasks)
         /\ Len(queue) \in Nat
         /\ Len(Append(queue, t)) = Len(queue) + 1
         /\ \A i \in 1..Len(queue) : Append(queue, t)[i] = queue[i]
         /\ Append(queue, t)[Len(queue) + 1] = t
OBVIOUS

\* The queue is empty exactly when the sentinel is its own successor, and its
\* first and last tasks are where the pointers say.
LEMMA Ends ==
  ASSUME Inv
  PROVE  /\ next[Sentinel] = Sentinel <=> queue = <<>>
         /\ queue # <<>> => /\ Len(queue) \in Nat /\ Len(queue) >= 1
                           /\ next[Sentinel] = queue[1] /\ queue[1] \in Tasks
                           /\ tail = queue[Len(queue)] /\ tail \in Tasks
<1>1. queue # <<>> => Len(queue) \in Nat /\ Len(queue) >= 1
  BY DEF Inv, TypeOK
<1>2. queue # <<>> => queue[1] \in Tasks /\ queue[Len(queue)] \in Tasks
  BY <1>1 DEF Inv, TypeOK
<1> QED
  BY <1>1, <1>2, RunLoopAssumption DEF Inv, QueueShape

Queueing == <<next, tail, queue, life, completions>>

\* The part of Inv that is about tasks.
TaskInv == Distinct /\ Placed /\ Held /\ Fresh /\ CompletesOnce /\ QueueShape

\* A step that moves no task.
LEMMA IdleStep ==
  ASSUME Inv, UNCHANGED Queueing, UNCHANGED task,
         \A c \in Callers : Pushes(c)' => Pushes(c),
         \A r \in Runners : pc'[r] = "exec" => pc[r] = "exec"
  PROVE  TaskInv'
BY DEF Inv, TaskInv, Distinct, Placed, Held, Fresh, CompletesOnce, QueueShape, InQueue, Queueing

\* A new operation is in no queue, and no caller or runner has it.
LEMMA StartStep ==
  ASSUME Inv, NEW c \in Callers, NEW t \in Tasks, Start(c, t)
  PROVE  TaskInv'
<1> USE RunLoopAssumption DEF Inv, TypeOK, Threads
<1>1. /\ pc[c] = "idle" /\ pc' = [pc EXCEPT ![c] = "push"]
      /\ life[t] = "idle" /\ life' = [life EXCEPT ![t] = "started"]
      /\ task' = [task EXCEPT ![c] = t]
      /\ completions' = [completions EXCEPT ![t] = <<>>]
      /\ next' = [next EXCEPT ![t] = Sentinel]
      /\ UNCHANGED <<tail, queue>>
  BY DEF Start, Go, ConnectedNext
<1>2. \A i \in 1..Len(queue) : queue[i] \in Tasks /\ queue[i] # t
  BY <1>1 DEF Distinct
<1>3. Distinct'
  BY <1>1, <1>2 DEF Distinct
<1>4. Placed'
  BY <1>1, <1>2 DEF Placed, Pushes, InQueue
<1>5. Held'
  BY <1>1 DEF Held
<1>6. Fresh' /\ CompletesOnce'
  <2>1. Len(<<>>) <= 1
    OBVIOUS
  <2> QED
    BY <1>1, <2>1 DEF Fresh, CompletesOnce
<1>7. QueueShape'
  BY <1>1, <1>2 DEF QueueShape
<1> QED
  BY <1>3, <1>4, <1>5, <1>6, <1>7 DEF TaskInv

\* start() that throws: the operation completes and was not queued.
LEMMA ThrowsStep ==
  ASSUME Inv, NEW c \in Callers, PushThrows(c)
  PROVE  TaskInv'
<1> USE RunLoopAssumption DEF Inv, TypeOK, Threads
<1>1. /\ pc[c] = "push" /\ pc' = [pc EXCEPT ![c] = "idle"]
      /\ task[c] \in Tasks /\ life[task[c]] = "started" /\ ~InQueue(task[c])
      /\ completions[task[c]] = <<>>
      /\ life' = [life EXCEPT ![task[c]] = "idle"]
      /\ completions' = [completions EXCEPT ![task[c]] = @ \o <<"error">>]
      /\ UNCHANGED <<next, tail, queue, task>>
  BY DEF PushThrows, PushMayThrow, Complete, Placed, Pushes, Fresh, loopVars
<1>2. \A i \in 1..Len(queue) : queue[i] # task[c]
  BY <1>1 DEF InQueue
<1>3. Distinct'
  BY <1>1, <1>2 DEF Distinct
<1>4. Placed'
  BY <1>1 DEF Placed, Pushes, InQueue
<1>5. Held'
  BY <1>1 DEF Held
<1>6. Fresh' /\ CompletesOnce'
  <2>1. Len(<<>> \o <<"error">>) <= 1
    OBVIOUS
  <2> QED
    BY <1>1, <2>1 DEF Fresh, CompletesOnce
<1>7. QueueShape'
  BY <1>1 DEF QueueShape
<1> QED
  BY <1>3, <1>4, <1>5, <1>6, <1>7 DEF TaskInv

\* Linking a task makes it the last of the queue.
LEMMA LinkStep ==
  ASSUME Inv, NEW c \in Callers, PushLink(c)
  PROVE  TaskInv'
<1> DEFINE t == task[c]
           n == Len(queue)
           q == Append(queue, t)
<1>1. /\ pc \in [Threads -> {"idle", "push", "push_link", "push_notify", "finish",
                            "finish_notify", "pop", "pop_test", "waiting", "exec",
                            "body", "returned"}]
      /\ pc[c] = "push_link" /\ pc' = [pc EXCEPT ![c] = "push_notify"]
      /\ UNCHANGED <<life, completions, task>>
  BY DEF PushLink, Go, opVars, Inv, TypeOK
<1>2. t \in Tasks /\ life[t] = "started" /\ ~InQueue(t)
  BY <1>1 DEF Inv, Placed, Pushes
<1>3. /\ next \in [Tasks \cup {Sentinel} -> Tasks \cup {Sentinel}]
      /\ next' = [next EXCEPT ![t] = Sentinel, ![tail] = t]
      /\ tail' = t /\ queue' = q
      /\ tail \in Tasks \cup {Sentinel}
      /\ Sentinel \notin Tasks
  BY RunLoopAssumption DEF PushLink, NextAfterPush, Inv, TypeOK
<1>4. /\ q \in Seq(Tasks)
      /\ n \in Nat /\ Len(q) = n + 1
      /\ \A i \in 1..n : q[i] = queue[i] /\ queue[i] \in Tasks
      /\ q[n + 1] = t
  BY <1>2, AppendIndex DEF Inv, TypeOK
<1>5. \A i \in 1..n : queue[i] # t
  BY <1>2 DEF InQueue
<1>6. \A i \in 1..Len(q) : i \in 1..n \/ i = n + 1
  BY <1>4
<1>7. \A i, j \in 1..n : queue[i] = queue[j] => i = j
  BY DEF Inv, Distinct
<1>8. \A i \in 1..n : life[queue[i]] = "started"
  BY DEF Inv, Distinct
<1> HIDE DEF t, n, q
<1>9. Distinct'
  <2>1. \A i, j \in 1..Len(q) : q[i] = q[j] => i = j
    BY <1>4, <1>5, <1>6, <1>7
  <2>2. \A i \in 1..Len(q) : life[q[i]] = "started"
    BY <1>2, <1>4, <1>6, <1>8
  <2> QED
    BY <1>1, <1>3, <2>1, <2>2 DEF Distinct
<1>10. Placed'
  <2>1. \A d \in Callers : Pushes(d)' => Pushes(d) /\ d # c
    BY <1>1 DEF Pushes, Threads
  <2>2. \A d \in Callers : Pushes(d) /\ d # c => task[d] # t
    BY <1>1 DEF Inv, Placed, Pushes, t
  <2>3. \A d \in Callers : Pushes(d) => \A i \in 1..n : queue[i] # task[d]
    BY DEF Inv, Placed, InQueue, n
  <2>4. \A d \in Callers : Pushes(d)' => \A i \in 1..Len(q) : q[i] # task[d]
    BY <2>1, <2>2, <2>3, <1>4, <1>6
  <2>5. \A d \in Callers : Pushes(d)' => ~InQueue(task[d])'
    BY <2>4, <1>1, <1>3 DEF InQueue
  <2> QED
    BY <1>1, <2>1, <2>5 DEF Inv, Placed
<1>11. Held' /\ Fresh' /\ CompletesOnce'
  BY <1>1 DEF Inv, Held, Fresh, CompletesOnce, Threads
<1>12. QueueShape'
  <2>1. q # <<>>
    BY <1>4
  <2>2. ASSUME next'[Sentinel] = q[1], next'[t] = Sentinel,
               \A i \in 1..n : next'[q[i]] = q[i + 1]
        PROVE  QueueShape'
    <3>1. \A i \in 1..Len(q) : next'[q[i]] = IF i = Len(q) THEN Sentinel ELSE q[i + 1]
      BY <2>2, <1>4, <1>6
    <3> QED
      BY <2>1, <2>2, <3>1, <1>3, <1>4 DEF QueueShape
  <2>3. CASE queue = <<>>
    <3>1. n = 0 /\ tail = Sentinel
      BY <2>3 DEF Inv, QueueShape, n
    <3>2. q[1] = t /\ 1..n = {}
      BY <3>1, <1>4
    <3>3. next'[Sentinel] = t /\ next'[t] = Sentinel
      BY <3>1, <1>2, <1>3
    <3> QED
      BY <3>2, <3>3, <2>2
  <2>4. CASE queue # <<>>
    <3>1. /\ n >= 1 /\ next[Sentinel] = queue[1]
          /\ tail = queue[n] /\ tail \in Tasks
      BY <2>4, Ends DEF n
    <3>2. 1 \in 1..n /\ n \in 1..n
      BY <3>1, <1>4
    <3>3. tail # t /\ q[1] = queue[1]
      BY <3>1, <3>2, <1>4, <1>5
    <3>4. next'[Sentinel] = q[1] /\ next'[t] = Sentinel /\ next'[tail] = t
      BY <3>1, <3>3, <1>2, <1>3
    <3>5. ASSUME NEW i \in 1..n PROVE next'[q[i]] = q[i + 1]
      <4>1. CASE i = n
        BY <4>1, <3>1, <3>4, <1>4
      <4>2. CASE i # n
        <5>1. i + 1 \in 1..n
          BY <4>2, <1>4
        <5>2. queue[i] # tail
          BY <4>2, <3>1, <3>2, <1>7
        <5>3. next[queue[i]] = queue[i + 1]
          BY <4>2 DEF Inv, QueueShape, n
        <5>4. next'[queue[i]] = next[queue[i]]
          BY <5>2, <1>3, <1>4, <1>5
        <5> QED
          BY <5>1, <5>3, <5>4, <1>4
      <4> QED
        BY <4>1, <4>2
    <3> QED
      BY <3>4, <3>5, <2>2
  <2> QED
    BY <2>3, <2>4
<1> QED
  BY <1>9, <1>10, <1>11, <1>12 DEF TaskInv

\* Taking from the queue: the sentinel if it is empty, else its first task.
LEMMA TakeStep ==
  ASSUME Inv, NEW r \in Runners, PopTake(r)
  PROVE  TaskInv'
<1> DEFINE first == next[Sentinel]
           n == Len(queue)
           q == Tail(queue)
<1>1. /\ pc \in [Threads -> {"idle", "push", "push_link", "push_notify", "finish",
                            "finish_notify", "pop", "pop_test", "waiting", "exec",
                            "body", "returned"}]
      /\ task \in [Threads -> Tasks \cup {Sentinel}]
      /\ life \in [Tasks -> {"idle", "started", "popped"}]
      /\ next \in [Tasks \cup {Sentinel} -> Tasks \cup {Sentinel}]
      /\ queue \in Seq(Tasks)
      /\ Sentinel \notin Tasks /\ Runners \cap Callers = {}
  BY RunLoopAssumption DEF Inv, TypeOK
<1>2. /\ pc' = [pc EXCEPT ![r] = IF first = Sentinel THEN "returned" ELSE "exec"]
      /\ task' = [task EXCEPT ![r] = first]
      /\ next' = [next EXCEPT ![Sentinel] = next[first]]
      /\ tail' = IF tail = first THEN Sentinel ELSE tail
      /\ UNCHANGED completions
  BY DEF PopTake, Go, Leaves, TailAfterPop
<1>3. pc[r] = "pop_test"
  BY DEF PopTake, Go
<1>4. \A d \in Callers : Pushes(d)' <=> Pushes(d)
  BY <1>1, <1>2 DEF Pushes, Threads
<1>5. \A d \in Callers : task'[d] = task[d]
  BY <1>1, <1>2 DEF Threads
<1>6. CASE queue = <<>>
  <2>1. first = Sentinel /\ tail = Sentinel
    BY <1>6 DEF Inv, QueueShape
  <2>2. UNCHANGED Queueing
    BY <2>1, <1>1, <1>2 DEF PopTake, Queueing
  <2>3. \A s \in Runners : pc'[s] = "exec" => pc[s] = "exec" /\ s # r
    BY <2>1, <1>1, <1>2 DEF Threads
  <2>4. Held'
    BY <2>2, <2>3, <1>1, <1>2 DEF Inv, Held, Queueing, Threads
  <2>5. Placed'
    BY <2>2, <1>4, <1>5 DEF Inv, Placed, InQueue, Queueing
  <2>6. Distinct' /\ Fresh' /\ CompletesOnce' /\ QueueShape'
    BY <2>2 DEF Inv, Distinct, Fresh, CompletesOnce, QueueShape, Queueing
  <2> QED
    BY <2>4, <2>5, <2>6 DEF TaskInv
<1>7. CASE queue # <<>>
  <2>1. /\ n \in Nat /\ n >= 1
        /\ first = queue[1] /\ first \in Tasks /\ first # Sentinel
        /\ tail = queue[n]
    BY <1>1, <1>7, Ends
  <2>2. life' = [life EXCEPT ![first] = "popped"] /\ queue' = q
    BY <2>1 DEF PopTake
  <2>3. /\ q \in Seq(Tasks) /\ Len(q) = n - 1
        /\ \A i \in 1..Len(q) : i + 1 \in 1..n /\ q[i] = queue[i + 1]
    BY <1>1, <1>7, TailIndex
  <2>4. 1 \in 1..n /\ n \in 1..n
    BY <2>1
  <2>5. /\ \A i, j \in 1..n : queue[i] = queue[j] => i = j
        /\ \A i \in 1..n : life[queue[i]] = "started" /\ queue[i] \in Tasks
    BY <1>1 DEF Inv, Distinct
  <2>6. \A i \in 1..n : next[queue[i]] = IF i = n THEN Sentinel ELSE queue[i + 1]
    BY DEF Inv, QueueShape
  <2>7. life[first] = "started"
    BY <2>1, <2>4, <2>5
  <2> HIDE DEF first, n, q
  <2>8. \A i \in 1..Len(q) : q[i] # first /\ q[i] \in Tasks
    BY <2>1, <2>3, <2>4, <2>5
  <2>9. Distinct'
    <3>1. \A i, j \in 1..Len(q) : q[i] = q[j] => i = j
      BY <2>1, <2>3, <2>5
    <3>2. \A i \in 1..Len(q) : life'[q[i]] = "started"
      BY <2>2, <2>3, <2>5, <2>8, <1>1
    <3> QED
      BY <2>2, <3>1, <3>2 DEF Distinct
  <2>10. Placed'
    <3>1. \A d \in Callers : Pushes(d) =>
            task[d] \in Tasks /\ life[task[d]] = "started" /\ \A i \in 1..n : queue[i] # task[d]
      BY DEF Inv, Placed, InQueue, n
    <3>2. \A d \in Callers : Pushes(d) =>
            life'[task[d]] = "started" /\ \A i \in 1..Len(q) : q[i] # task[d]
      BY <3>1, <2>1, <2>2, <2>3, <2>4, <1>1
    <3>3. \A d \in Callers : Pushes(d) => ~InQueue(task[d])'
      BY <3>2, <2>2, <1>5 DEF InQueue
    <3> QED
      BY <3>1, <3>2, <3>3, <1>4, <1>5 DEF Inv, Placed
  <2>11. Held'
    <3>1. \A s \in Runners : pc'[s] = "exec" => s = r \/ pc[s] = "exec"
      BY <1>1, <1>2 DEF Threads
    <3>2. \A s \in Runners : s # r => task'[s] = task[s]
      BY <1>1, <1>2 DEF Threads
    <3>3. task'[r] = first
      BY <1>1, <1>2 DEF Threads, first
    <3>4. \A s \in Runners : pc[s] = "exec" =>
            task[s] # first /\ task[s] \in Tasks /\ life'[task[s]] = "popped"
      BY <2>2, <2>7, <1>1 DEF Inv, Held
    <3>5. life'[first] = "popped"
      BY <2>1, <2>2, <1>1
    <3>6. \A s \in Runners : pc[s] = "exec" => s # r
      BY <1>3
    <3>7. \A s, u \in Runners : pc[s] = "exec" /\ pc[u] = "exec" /\ task[s] = task[u] => s = u
      BY DEF Inv, Held
    <3> QED
      BY <3>1, <3>2, <3>3, <3>4, <3>5, <3>6, <3>7, <2>1 DEF Held
  <2>12. Fresh' /\ CompletesOnce'
    BY <2>2, <2>7, <1>1, <1>2 DEF Inv, Fresh, CompletesOnce
  <2>13. QueueShape'
    <3>1. \A i \in 1..Len(q) : next'[q[i]] = next[q[i]]
      BY <2>8, <1>1, <1>2
    <3>2. \A i \in 1..Len(q) : next'[q[i]] = IF i = Len(q) THEN Sentinel ELSE q[i + 1]
      BY <3>1, <2>1, <2>3, <2>6
    <3>3. next[first] = IF n = 1 THEN Sentinel ELSE queue[2]
      BY <2>1, <2>4, <2>6
    <3>4. next'[Sentinel] = IF n = 1 THEN Sentinel ELSE queue[2]
      BY <3>3, <1>1, <1>2 DEF first
    <3>5. n = 1 <=> tail = first
      BY <2>1, <2>4, <2>5
    <3>6. CASE n = 1
      <4>1. q = <<>>
        BY <3>6, <2>3
      <4>2. tail' = Sentinel /\ next'[Sentinel] = Sentinel
        BY <3>4, <3>5, <3>6, <1>2 DEF first
      <4> QED
        BY <4>1, <4>2, <3>2, <2>2 DEF QueueShape
    <3>7. CASE n # 1
      <4>1. q # <<>> /\ q[1] = queue[2] /\ q[Len(q)] = queue[n]
        BY <3>7, <2>1, <2>3
      <4>2. tail' = queue[n] /\ next'[Sentinel] = queue[2]
        BY <3>4, <3>5, <3>7, <2>1, <1>2 DEF first
      <4> QED
        BY <4>1, <4>2, <3>2, <2>2 DEF QueueShape
    <3> QED
      BY <3>6, <3>7
  <2> QED
    BY <2>9, <2>10, <2>11, <2>12, <2>13 DEF TaskInv
<1> QED
  BY <1>6, <1>7

\* Executing a task completes it; it was popped, so it is in no queue.
LEMMA ExecuteStep ==
  ASSUME Inv, NEW r \in Runners, Execute(r)
  PROVE  TaskInv'
<1> DEFINE t == task[r]
<1>1. /\ pc[r] = "exec" /\ pc' = [pc EXCEPT ![r] = "body"]
      /\ life' = [life EXCEPT ![t] = "idle"]
      /\ UNCHANGED <<next, tail, queue, task>>
  BY DEF Execute, Go, loopVars
<1>2. /\ pc \in [Threads -> {"idle", "push", "push_link", "push_notify", "finish",
                            "finish_notify", "pop", "pop_test", "waiting", "exec",
                            "body", "returned"}]
      /\ life \in [Tasks -> {"idle", "started", "popped"}]
      /\ completions \in [Tasks -> Seq({"value", "error", "stopped"})]
      /\ Runners \cap Callers = {}
  BY RunLoopAssumption DEF Inv, TypeOK
<1>3. t \in Tasks /\ life[t] = "popped" /\ completions[t] = <<>>
  BY <1>1 DEF Inv, Held, Fresh
<1>4. PICK x \in {"value", "error", "stopped"} :
        completions' = [completions EXCEPT ![t] = <<>> \o <<x>>]
  BY <1>3 DEF Execute, Outcomes, Complete
<1>5. Len(<<>> \o <<x>>) <= 1
  OBVIOUS
<1>6. \A c \in Callers : Pushes(c)' <=> Pushes(c)
  BY <1>1, <1>2 DEF Pushes, Threads
<1> HIDE DEF t
<1>7. Distinct'
  BY <1>1, <1>2, <1>3 DEF Inv, Distinct
<1>8. Placed'
  BY <1>1, <1>2, <1>3, <1>6 DEF Inv, Placed, InQueue
<1>9. Held'
  <2>1. \A s \in Runners : pc'[s] = "exec" => pc[s] = "exec" /\ s # r
    BY <1>1, <1>2 DEF Threads
  <2>2. \A s \in Runners : pc[s] = "exec" /\ s # r => task[s] # t
    BY <1>1 DEF Inv, Held, t
  <2> QED
    BY <2>1, <2>2, <1>1, <1>2 DEF Inv, Held
<1>10. Fresh' /\ CompletesOnce'
  BY <1>1, <1>2, <1>3, <1>4, <1>5 DEF Inv, Fresh, CompletesOnce
<1>11. QueueShape'
  BY <1>1 DEF Inv, QueueShape
<1> QED
  BY <1>7, <1>8, <1>9, <1>10, <1>11 DEF TaskInv

\* The other steps move no task.
LEMMA NextTaskInv == Inv /\ [Next]_vars => TaskInv'
<1> SUFFICES ASSUME Inv, [Next]_vars PROVE TaskInv'
  OBVIOUS
<1>1. /\ pc \in [Threads -> {"idle", "push", "push_link", "push_notify", "finish",
                            "finish_notify", "pop", "pop_test", "waiting", "exec",
                            "body", "returned"}]
      /\ Runners \cap Callers = {} /\ Threads = Runners \cup Callers
  BY RunLoopAssumption DEF Inv, TypeOK, Threads
<1>2. CASE RequestStop \/ UNCHANGED vars
  <2>1. UNCHANGED Queueing /\ UNCHANGED <<pc, task>>
    BY <1>2 DEF RequestStop, vars, loopVars, threadVars, opVars, Queueing
  <2> QED
    BY <2>1, IdleStep DEF Pushes
<1>3. ASSUME NEW c \in Callers,
             PushLock(c) \/ PushNotify(c) \/ FinishLock(c) \/ FinishStop(c) \/ FinishNotify(c)
      PROVE  TaskInv'
  <2>1. UNCHANGED Queueing /\ UNCHANGED task
    BY <1>3 DEF PushLock, PushNotify, FinishLock, FinishStop, FinishNotify, loopVars, opVars,
                Queueing
  <2>2. \A p \in Threads : \/ pc'[p] = pc[p]
                           \/ pc'[p] \in {"idle", "pop", "push_notify", "finish", "finish_notify"}
                           \/ pc[p] = "push"
    BY <1>1, <1>3 DEF PushLock, PushNotify, FinishLock, FinishStop, FinishNotify, Go,
                      NotifyOne, NotifyAll, Waiting
  <2>3. \A p \in Threads : pc[p] = "push" => pc'[p] \in {"push", "push_link", "idle", "pop"}
    BY <1>1, <1>3 DEF PushLock, PushNotify, FinishLock, FinishStop, FinishNotify, Go,
                      NotifyOne, NotifyAll, Waiting
  <2>4. \A d \in Callers : Pushes(d)' => Pushes(d)
    BY <1>1, <2>2 DEF Pushes
  <2>5. \A r \in Runners : pc'[r] = "exec" => pc[r] = "exec"
    BY <1>1, <2>2, <2>3
  <2> QED
    BY <2>1, <2>4, <2>5, IdleStep
<1>4. ASSUME NEW r \in Runners,
             PopLock(r) \/ PopWait(r) \/ SpuriousWakeup(r) \/ BodyReturn(r)
      PROVE  TaskInv'
  <2>1. UNCHANGED Queueing /\ UNCHANGED task
    BY <1>4 DEF PopLock, PopWait, SpuriousWakeup, BodyReturn, loopVars, opVars, Queueing
  <2>2. \A p \in Threads : pc'[p] = pc[p] \/ pc'[p] \in {"pop", "pop_test", "waiting"}
    BY <1>1, <1>4 DEF PopLock, PopWait, SpuriousWakeup, BodyReturn, Go
  <2>3. /\ \A d \in Callers : Pushes(d)' => Pushes(d)
        /\ \A s \in Runners : pc'[s] = "exec" => pc[s] = "exec"
    BY <1>1, <2>2 DEF Pushes
  <2> QED
    BY <2>1, <2>3, IdleStep
<1> QED
  BY <1>2, <1>3, <1>4, StartStep, ThrowsStep, LinkStep, TakeStep, ExecuteStep
     DEF Next, Caller, Runner

-----------------------------------------------------------------------------
(* Types                                                                    *)

\* Every step gives the variables values of their types.
LEMMA NextTypeOK == Inv /\ [Next]_vars => TypeOK'
<1> SUFFICES ASSUME Inv, [Next]_vars PROVE TypeOK'
  OBVIOUS
<1> USE RunLoopAssumption DEF TypeOK, Threads
<1>1. TypeOK
  BY DEF Inv
<1>2. CASE RequestStop \/ UNCHANGED vars
  BY <1>1, <1>2 DEF RequestStop, vars, loopVars, threadVars, opVars
<1>3. ASSUME NEW c \in Callers, NEW t \in Tasks, Start(c, t) PROVE TypeOK'
  <2>1. <<>> \in Seq({"value", "error", "stopped"})
    OBVIOUS
  <2> QED
    BY <1>1, <1>3, <2>1 DEF Start, Go, ConnectedNext
<1>4. ASSUME NEW c \in Callers, PushLock(c) \/ FinishLock(c) PROVE TypeOK'
  BY <1>1, <1>4 DEF PushLock, FinishLock, Go, Acquire, loopVars, opVars
<1>5. ASSUME NEW c \in Callers, PushThrows(c) PROVE TypeOK'
  <2>1. task[c] \in Tasks /\ completions[task[c]] = <<>>
    BY <1>5 DEF PushThrows, PushMayThrow, Inv, Placed, Pushes, Fresh
  <2>2. <<>> \o <<"error">> \in Seq({"value", "error", "stopped"})
    OBVIOUS
  <2>3. completions' \in [Tasks -> Seq({"value", "error", "stopped"})]
    BY <1>1, <1>5, <2>1, <2>2 DEF PushThrows, Complete
  <2> QED
    BY <1>1, <1>5, <2>1, <2>3 DEF PushThrows, loopVars
<1>6. ASSUME NEW c \in Callers, PushLink(c) PROVE TypeOK'
  <2>1. task[c] \in Tasks
    BY <1>6 DEF PushLink, Go, Inv, Placed, Pushes
  <2>2. queue' \in Seq(Tasks)
    BY <1>1, <1>6, <2>1, AppendIndex DEF PushLink
  <2>3. next' \in [Tasks \cup {Sentinel} -> Tasks \cup {Sentinel}]
    BY <1>1, <1>6, <2>1 DEF PushLink, NextAfterPush
  <2> QED
    BY <1>1, <1>6, <2>1, <2>2, <2>3 DEF PushLink, Go, opVars
<1>7. ASSUME NEW c \in Callers, PushNotify(c) PROVE TypeOK'
  BY <1>1, <1>7 DEF PushNotify, NotifyOne, Waiting, Release, loopVars, opVars
<1>8. ASSUME NEW c \in Callers, FinishStop(c) PROVE TypeOK'
  BY <1>1, <1>8 DEF FinishStop, Go, opVars
<1>9. ASSUME NEW c \in Callers, FinishNotify(c) PROVE TypeOK'
  BY <1>1, <1>9 DEF FinishNotify, NotifyAll, Waiting, Release, loopVars, opVars
<1>10. ASSUME NEW r \in Runners, PopLock(r) \/ PopWait(r) \/ SpuriousWakeup(r) \/ BodyReturn(r)
       PROVE  TypeOK'
  BY <1>1, <1>10 DEF PopLock, PopWait, SpuriousWakeup, BodyReturn, Go, Acquire, Release,
                     loopVars, opVars
<1>11. ASSUME NEW r \in Runners, PopTake(r) PROVE TypeOK'
  <2>1. queue' \in Seq(Tasks)
    <3>1. queue # <<>> => Tail(queue) \in Seq(Tasks)
      BY <1>1, TailIndex
    <3> QED
      BY <1>1, <1>11, <3>1, Ends DEF PopTake
  <2>2. life' \in [Tasks -> {"idle", "started", "popped"}]
    BY <1>1, <1>11 DEF PopTake
  <2>3. pc' \in [Threads -> {"idle", "push", "push_link", "push_notify", "finish",
                             "finish_notify", "pop", "pop_test", "waiting", "exec",
                             "body", "returned"}]
    BY <1>1, <1>11 DEF PopTake, Go
  <2> QED
    BY <1>1, <1>11, <2>1, <2>2, <2>3 DEF PopTake, TailAfterPop, Release
<1>12. ASSUME NEW r \in Runners, Execute(r) PROVE TypeOK'
  <2>1. task[r] \in Tasks /\ completions[task[r]] = <<>>
    BY <1>12 DEF Execute, Go, Inv, Held, Fresh
  <2>2. PICK x \in {"value", "error", "stopped"} :
          completions' = [completions EXCEPT ![task[r]] = <<>> \o <<x>>]
    BY <1>12, <2>1 DEF Execute, Outcomes, Complete
  <2>3. <<>> \o <<x>> \in Seq({"value", "error", "stopped"})
    OBVIOUS
  <2>4. completions' \in [Tasks -> Seq({"value", "error", "stopped"})]
    BY <1>1, <2>1, <2>2, <2>3
  <2> QED
    BY <1>1, <1>12, <2>4 DEF Execute, Go, loopVars
<1> QED
  BY <1>2, <1>3, <1>4, <1>5, <1>6, <1>7, <1>8, <1>9, <1>10, <1>11, <1>12
     DEF Next, Caller, Runner

-----------------------------------------------------------------------------
(* What holds in every behaviour                                            *)

\* Every step of a loop preserves Inv; so do the steps of what is built on one.
LEMMA Inductive == Inv /\ [Next]_vars => Inv'
<1> SUFFICES ASSUME Inv, [Next]_vars PROVE Inv'
  OBVIOUS
<1>1. TypeOK'
  BY NextTypeOK
<1>2. MutexInv' /\ FinishWakesAll' /\ NoLostWakeup'
  BY NextMutexInv, NextFinishWakesAll, NextNoLostWakeup DEF Inv
<1>3. TaskInv'
  BY NextTaskInv
<1> QED
  BY <1>1, <1>2, <1>3 DEF Inv, TaskInv

\* Inv holds in every behaviour.
THEOREM Invariance == Spec => []Inv
  BY InitInv, Inductive, PTL DEF Spec

\* The variables have their types; a caller's and a runner's task is one, when
\* the code of start() and run() follows its pointer.
THEOREM TypeCorrect == Spec => []TypeOK
<1>1. Inv => TypeOK
  BY DEF Inv
<1> QED
  BY <1>1, Invariance, PTL

\* _next_ and _tail_ represent the queue at every step, whatever the number of
\* tasks, callers and runners.
THEOREM QueueCorrect == Spec => []QueueShape
<1>1. Inv => QueueShape
  BY DEF Inv
<1> QED
  BY <1>1, Invariance, PTL

\* An operation in progress is on its way in, queued once, or with one runner.
THEOREM OnePlaceCorrect == Spec => []OnePlace
<1>1. Inv => OnePlace
  BY DEF Inv, OnePlace, Distinct, Placed, Pushes, InQueue, Held, Fresh
<1> QED
  BY <1>1, Invariance, PTL

\* No operation completes its receiver twice.
THEOREM CompletesOnceCorrect == Spec => []CompletesOnce
<1>1. Inv => CompletesOnce
  BY DEF Inv
<1> QED
  BY <1>1, Invariance, PTL

\* After finish() no runner is asleep or will go to sleep.
THEOREM FinishWakes == Spec => []FinishWakesAll
<1>1. Inv => FinishWakesAll
  BY DEF Inv
<1> QED
  BY <1>1, Invariance, PTL

\* No wakeup is lost: while a task is queued and a runner sleeps, a notification
\* is on its way or another runner is awake.
THEOREM WakeupsArrive == Spec => []NoLostWakeup
<1>1. Inv => NoLostWakeup
  BY DEF Inv
<1> QED
  BY <1>1, Invariance, PTL

-----------------------------------------------------------------------------
(* The queue that the loop promises                                         *)

\* What a runner holds and which runners are there, at a state.
HeldPairs == {<<r, task[r]>> : r \in {s \in Runners : pc[s] = "exec"}}
There == {r \in Runners : pc[r] # "returned"}

\* A loop as constructed is an empty queue with every worker there.
LEMMA InitPromise == Init => Promise!Init
<1> SUFFICES ASSUME Init PROVE Promise!Init
  OBVIOUS
<1>1. \A r \in Runners : pc[r] = "pop"
  BY DEF Init, Threads
<1>2. HeldPairs = {} /\ There = Runners
  BY <1>1 DEF HeldPairs, There
<1>3. queue = <<>> /\ stop = FALSE
  BY DEF Init
<1> QED
  BY <1>2, <1>3 DEF Promise!Init, HeldPairs, There

\* A step that takes, completes and queues nothing, and leaves no loop.
LEMMA StutterPromise ==
  ASSUME UNCHANGED <<queue, stop>>,
         \A r \in Runners : /\ pc'[r] = "exec" <=> pc[r] = "exec"
                            /\ pc'[r] = "returned" <=> pc[r] = "returned"
                            /\ pc[r] = "exec" => task'[r] = task[r]
  PROVE  UNCHANGED Promise!vars
<1>1. HeldPairs' = HeldPairs /\ There' = There
  BY DEF HeldPairs, There
<1> QED
  BY <1>1 DEF Promise!vars, HeldPairs, There

\* Linking a task puts it; finish() closes.
LEMMA CallerPromise ==
  ASSUME Inv, NEW c \in Callers, Caller(c)
  PROVE  [Promise!Next]_(Promise!vars)
<1>1. /\ pc \in [Threads -> {"idle", "push", "push_link", "push_notify", "finish",
                            "finish_notify", "pop", "pop_test", "waiting", "exec",
                            "body", "returned"}]
      /\ task \in [Threads -> Tasks \cup {Sentinel}]
      /\ Threads = Runners \cup Callers
      /\ \A r \in Runners : r # c
  BY RunLoopAssumption DEF Inv, TypeOK, Threads
<1>2. \A r \in Runners : \/ pc'[r] = pc[r]
                         \/ pc[r] = "waiting" /\ pc'[r] = "pop"
  BY <1>1 DEF Caller, PushLock, PushThrows, PushMayThrow, PushLink, PushNotify, FinishLock,
              FinishStop, FinishNotify, Start, Go, NotifyOne, NotifyAll, Waiting
<1>3. \A r \in Runners : task'[r] = task[r]
  BY <1>1 DEF Caller, PushLock, PushThrows, PushLink, PushNotify, FinishLock, FinishStop,
              FinishNotify, Start
<1>4. HeldPairs' = HeldPairs /\ There' = There
  BY <1>2, <1>3 DEF HeldPairs, There
<1>5. CASE UNCHANGED <<queue, stop>>
  BY <1>4, <1>5 DEF Promise!vars, HeldPairs, There
<1>6. CASE FinishStop(c)
  <2>1. stop' = TRUE /\ UNCHANGED queue
    BY <1>6 DEF FinishStop
  <2>2. Promise!Close
    BY <1>4, <2>1 DEF Promise!Close, HeldPairs, There
  <2> QED
    BY <2>2 DEF Promise!Next
<1>7. CASE PushLink(c)
  <2> DEFINE t == task[c]
  <2>1. /\ pc[c] = "push_link" /\ queue' = Append(queue, t) /\ UNCHANGED stop
    BY <1>7 DEF PushLink, Go
  <2>2. t \in Tasks /\ life[t] = "started" /\ ~InQueue(t)
    BY <2>1 DEF Inv, Placed, Pushes
  <2>3. \A w \in Runners : <<w, t>> \notin HeldPairs
    BY <2>2 DEF HeldPairs, Inv, Held
  <2>4. ~Promise!Queued(t)
    BY <2>2 DEF InQueue, Promise!Queued
  <2> HIDE DEF t
  <2>5. Promise!Put(t)
    BY <1>4, <2>1, <2>3, <2>4 DEF Promise!Put, HeldPairs, There
  <2> QED
    BY <2>2, <2>5 DEF Promise!Next
<1> QED
  BY <1>5, <1>6, <1>7 DEF Caller, PushLock, PushThrows, PushNotify, FinishLock, FinishNotify,
                          Start, loopVars

\* Popping a task takes the oldest one, popping the sentinel leaves, executing a
\* task finishes it.
LEMMA RunnerPromise ==
  ASSUME Inv, NEW r \in Runners, Runner(r)
  PROVE  [Promise!Next]_(Promise!vars)
<1>1. /\ pc \in [Threads -> {"idle", "push", "push_link", "push_notify", "finish",
                            "finish_notify", "pop", "pop_test", "waiting", "exec",
                            "body", "returned"}]
      /\ task \in [Threads -> Tasks \cup {Sentinel}]
      /\ Threads = Runners \cup Callers
  BY DEF Inv, TypeOK, Threads
<1>2. CASE PopLock(r) \/ PopWait(r) \/ SpuriousWakeup(r) \/ BodyReturn(r)
  <2>1. UNCHANGED <<queue, stop, task>>
    BY <1>2 DEF PopLock, PopWait, SpuriousWakeup, BodyReturn, loopVars
  <2>2. \A s \in Runners : \/ pc'[s] = pc[s]
                           \/ /\ pc[s] \in {"pop", "pop_test", "waiting", "body"}
                              /\ pc'[s] \in {"pop", "pop_test", "waiting"}
    BY <1>1, <1>2 DEF PopLock, PopWait, SpuriousWakeup, BodyReturn, Go
  <2>3. UNCHANGED Promise!vars
    BY <2>1, <2>2, StutterPromise
  <2> QED
    BY <2>3
<1>3. CASE PopTake(r) /\ next[Sentinel] = Sentinel
  <2>1. /\ pc[r] = "pop_test" /\ pc' = [pc EXCEPT ![r] = "returned"]
        /\ task' = [task EXCEPT ![r] = Sentinel]
        /\ stop /\ UNCHANGED <<queue, stop>>
    BY <1>3 DEF PopTake, Ready, Go, Leaves
  <2>2. queue = <<>>
    BY <1>3, Ends
  <2>3. \A s \in Runners : s # r => pc'[s] = pc[s] /\ task'[s] = task[s]
    BY <1>1, <2>1
  <2>4. pc'[r] = "returned"
    BY <1>1, <2>1
  <2>5. HeldPairs' = HeldPairs
    BY <2>1, <2>3, <2>4 DEF HeldPairs
  <2>6. There' = There \ {r} /\ r \in There
    BY <2>1, <2>3, <2>4 DEF There
  <2>7. Promise!Leave(r)
    BY <2>1, <2>2, <2>5, <2>6 DEF Promise!Leave, HeldPairs, There
  <2> QED
    BY <2>7 DEF Promise!Next
<1>4. CASE PopTake(r) /\ next[Sentinel] # Sentinel
  <2> DEFINE t == queue[1]
  <2>1. queue # <<>> /\ next[Sentinel] = t /\ t \in Tasks
    BY <1>4, Ends
  <2>2. /\ pc[r] = "pop_test" /\ pc' = [pc EXCEPT ![r] = "exec"]
        /\ task' = [task EXCEPT ![r] = t]
        /\ queue' = Tail(queue) /\ UNCHANGED stop
    BY <1>4, <2>1 DEF PopTake, Go, Leaves
  <2>3. Head(queue) = t
    BY <2>1 DEF Inv, TypeOK
  <2> HIDE DEF t
  <2>4. \A s \in Runners : s # r => pc'[s] = pc[s] /\ task'[s] = task[s]
    BY <1>1, <2>2
  <2>5. pc'[r] = "exec" /\ task'[r] = t
    BY <1>1, <2>2
  <2>6. \A u \in Tasks : <<r, u>> \notin HeldPairs
    BY <2>2 DEF HeldPairs
  <2>7. HeldPairs' = HeldPairs \cup {<<r, t>>}
    BY <2>2, <2>4, <2>5 DEF HeldPairs
  <2>8. There' = There /\ r \in There
    BY <2>2, <2>4, <2>5 DEF There
  <2>9. Promise!Take(r)
    BY <2>1, <2>2, <2>3, <2>6, <2>7, <2>8 DEF Promise!Take, HeldPairs, There
  <2> QED
    BY <2>9 DEF Promise!Next
<1>5. CASE Execute(r)
  <2>1. /\ pc[r] = "exec" /\ pc' = [pc EXCEPT ![r] = "body"]
        /\ UNCHANGED <<queue, stop, task>>
    BY <1>5 DEF Execute, Go, loopVars
  <2>2. PICK t \in Tasks : t = task[r]
    BY <2>1 DEF Inv, Held
  <2>3. \A s \in Runners : s # r => pc'[s] = pc[s]
    BY <1>1, <2>1
  <2>4. pc'[r] = "body"
    BY <1>1, <2>1
  <2>5. <<r, t>> \in HeldPairs /\ HeldPairs' = HeldPairs \ {<<r, t>>}
    BY <2>1, <2>2, <2>3, <2>4 DEF HeldPairs
  <2>6. There' = There
    BY <2>1, <2>3, <2>4 DEF There
  <2>7. Promise!Finish(r, t)
    BY <2>1, <2>5, <2>6 DEF Promise!Finish, HeldPairs, There
  <2> QED
    BY <2>7 DEF Promise!Next
<1> QED
  BY <1>2, <1>3, <1>4, <1>5 DEF Runner

\* run_loop is the queue it promises: tasks are taken in the order they were put,
\* each by one worker, and a worker leaves only a queue that is closed and empty
\* (the safety part of ImplementsTaskQueue).
THEOREM ImplementsQueue == Spec => Promise!Spec
<1>1. Inv /\ [Next]_vars => [Promise!Next]_(Promise!vars)
  <2> SUFFICES ASSUME Inv, [Next]_vars PROVE [Promise!Next]_(Promise!vars)
    OBVIOUS
  <2>1. CASE RequestStop \/ UNCHANGED vars
    <3>1. UNCHANGED <<queue, stop, pc, task>>
      BY <2>1 DEF RequestStop, vars, loopVars, threadVars
    <3> QED
      BY <3>1, StutterPromise
  <2> QED
    BY <2>1, CallerPromise, RunnerPromise DEF Next
<1> QED
  BY <1>1, InitPromise, Invariance, PTL DEF Spec, Promise!Spec

=============================================================================
