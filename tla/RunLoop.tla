------------------------------- MODULE RunLoop -------------------------------
(***************************************************************************)
(* run_loop and its _operation (include/ustdex/detail/run_loop.hpp).       *)
(*                                                                         *)
(* An intrusive circular singly linked queue whose sentinel is the member  *)
(* _head (its _tail_ names the last task), a mutex, a condition variable   *)
(* and the flag _stop.  Callers start operations (_push_back) and call     *)
(* finish(); runners call run().  Every access to the queue is under the   *)
(* mutex, so a critical section is cut only where the code lets others     *)
(* see the difference: at taking the lock, before notifying, at waiting.   *)
(*                                                                         *)
(* The body of a task runs client code that may start operations and call  *)
(* finish() as well: callers are processes of their own, so one of them    *)
(* may act while a runner is in a body.                                    *)
(***************************************************************************)
EXTENDS Naturals, Sequences

CONSTANTS
  Tasks,      \* the memory cells of operation states
  Runners,    \* the threads that call run()
  Callers,    \* the threads that start operations and call finish()
  Sentinel,       \* the address &_head
  NoOne,      \* the mutex is free
  MaxStarts   \* bound: how many operations are started

ASSUME RunLoopAssumption ==
  /\ Sentinel \notin Tasks
  /\ Runners \cap Callers = {}
  /\ NoOne \notin Runners \cup Callers
  /\ MaxStarts \in Nat

VARIABLES
  \* run_loop
  next,        \* _next_ of the sentinel and of each task
  tail,        \* _head._tail_
  stop,        \* _stop
  mutex,       \* who holds _mutex
  \* the threads
  pc,
  task,        \* the task a caller pushes or a runner has popped
  \* the operation states
  life,        \* idle (not started, or completed), started, popped
  completions, \* the signals sent to the receiver since the last start
  stopToken,   \* the receivers' stop token reports a request
  \* history
  queue,       \* what the pointers are meant to represent
  starts       \* how many operations were started

loopVars   == <<next, tail, stop, queue>>
threadVars == <<mutex, pc, task>>
opVars     == <<life, completions, stopToken, starts>>
vars       == <<loopVars, threadVars, opVars>>

Threads == Runners \cup Callers

Init ==
  /\ next = [n \in Tasks \cup {Sentinel} |-> n]
  /\ tail = Sentinel
  /\ stop = FALSE
  /\ mutex = NoOne
  /\ pc = [p \in Threads |-> IF p \in Runners THEN "pop" ELSE "idle"]
  /\ task = [p \in Threads |-> Sentinel]
  /\ life = [t \in Tasks |-> "idle"]
  /\ completions = [t \in Tasks |-> <<>>]
  /\ stopToken = FALSE
  /\ queue = <<>>
  /\ starts = 0

Go(p, from, to) ==
  /\ pc[p] = from
  /\ pc' = [pc EXCEPT ![p] = to]

Acquire(p) == mutex = NoOne /\ mutex' = p
Release    == mutex' = NoOne

Waiting == {r \in Runners : pc[r] = "waiting"}

Complete(t, signals) ==
  completions' = [completions EXCEPT ![t] = @ \o signals]

-----------------------------------------------------------------------------
(* _operation::start, run_loop::_push_back                                  *)

\* The _next_ of an operation that was connected and not started.
ConnectedNext == Sentinel

\* A new operation in the cell t is started.
Start(c, t) ==
  /\ Go(c, "idle", "push")
  /\ life[t] = "idle"
  /\ starts < MaxStarts
  /\ starts' = starts + 1
  /\ task' = [task EXCEPT ![c] = t]
  /\ life' = [life EXCEPT ![t] = "started"]
  /\ completions' = [completions EXCEPT ![t] = <<>>]
  /\ next' = [next EXCEPT ![t] = ConnectedNext]
  /\ UNCHANGED <<tail, stop, queue, mutex, stopToken>>

PushLock(c) ==
  /\ Go(c, "push", "push_link")
  /\ Acquire(c)
  /\ UNCHANGED <<loopVars, task, opVars>>

PushMayThrow_too_late(c) == pc[c] \in {"push", "push_notify"}
PushMayThrow(c) == pc[c] = "push"

\* Locking the mutex throws: start() completes the operation with set_error.
PushThrows(c) ==
  /\ PushMayThrow(c)
  /\ pc' = [pc EXCEPT ![c] = "idle"]
  /\ Complete(task[c], <<"error">>)
  /\ life' = [life EXCEPT ![task[c]] = "idle"]
  /\ UNCHANGED <<loopVars, mutex, task, stopToken, starts>>

NextAfterPush_in_front(t) == [next EXCEPT ![t] = next[Sentinel], ![Sentinel] = t]
NextAfterPush(t) == [next EXCEPT ![t] = Sentinel, ![tail] = t]

PushLink(c) ==
  /\ Go(c, "push_link", "push_notify")
  /\ next' = NextAfterPush(task[c])
  /\ tail' = task[c]
  /\ queue' = Append(queue, task[c])
  /\ UNCHANGED <<stop, mutex, task, opVars>>

NotifyOne_missing(c) == pc' = [pc EXCEPT ![c] = "idle"]
NotifyOne(c) ==
  IF Waiting = {}
    THEN pc' = [pc EXCEPT ![c] = "idle"]
    ELSE \E r \in Waiting : pc' = [pc EXCEPT ![c] = "idle", ![r] = "pop"]

\* notify_one, then unlock.
PushNotify(c) ==
  /\ pc[c] = "push_notify"
  /\ NotifyOne(c)
  /\ Release
  /\ UNCHANGED <<loopVars, task, opVars>>

-----------------------------------------------------------------------------
(* run_loop::finish                                                         *)

FinishLock(c) ==
  /\ Go(c, "idle", "finish")
  /\ Acquire(c)
  /\ UNCHANGED <<loopVars, task, opVars>>

FinishStop_unlocks_early(c) ==
  /\ Go(c, "finish", "finish_notify")
  /\ stop' = TRUE
  /\ Release
  /\ UNCHANGED <<next, tail, queue, task, opVars>>

FinishStop(c) ==
  /\ Go(c, "finish", "finish_notify")
  /\ stop' = TRUE
  /\ UNCHANGED <<next, tail, queue, mutex, task, opVars>>

NotifyAll_one(c) == NotifyOne(c)
NotifyAll(c) ==
  pc' = [p \in Threads |-> CASE p = c -> "idle"
                             [] p \in Waiting -> "pop"
                             [] OTHER -> pc[p]]

\* notify_all, then unlock.
FinishNotify(c) ==
  /\ pc[c] = "finish_notify"
  /\ NotifyAll(c)
  /\ Release
  /\ UNCHANGED <<loopVars, task, opVars>>

-----------------------------------------------------------------------------
(* run_loop::run, run_loop::_pop_front                                      *)

PopLock(r) ==
  /\ Go(r, "pop", "pop_test")
  /\ Acquire(r)
  /\ UNCHANGED <<loopVars, task, opVars>>

\* The predicate of the wait: there is a task, or finish() was called.
Ready_ignores_stop == next[Sentinel] # Sentinel
Ready == next[Sentinel] # Sentinel \/ stop

PopWait(r) ==
  /\ ~Ready
  /\ Go(r, "pop_test", "waiting")
  /\ Release
  /\ UNCHANGED <<loopVars, task, opVars>>

SpuriousWakeup(r) ==
  /\ Go(r, "waiting", "pop")
  /\ UNCHANGED <<loopVars, mutex, task, opVars>>

\* run() leaves its loop when it is handed the sentinel.
Leaves_when_stopped(first) == first = Sentinel \/ stop
Leaves(first) == first = Sentinel

TailAfterPop_stale(first) == tail
TailAfterPop(first) == IF tail = first THEN Sentinel ELSE tail

\* Unlink the first node; it is the sentinel itself when the queue is empty.
PopTake(r) ==
  LET first == next[Sentinel] IN
  /\ Ready
  /\ Go(r, "pop_test", IF Leaves(first) THEN "returned" ELSE "exec")
  /\ tail' = TailAfterPop(first)
  /\ next' = [next EXCEPT ![Sentinel] = next[first]]
  /\ task' = [task EXCEPT ![r] = first]
  /\ IF first = Sentinel
       THEN UNCHANGED <<life, queue>>
       ELSE life' = [life EXCEPT ![first] = "popped"] /\ queue' = Tail(queue)
  /\ Release
  /\ UNCHANGED <<stop, completions, stopToken, starts>>

Outcomes_fall_through ==
  IF stopToken THEN {<<"stopped", "value">>} ELSE {<<"value">>, <<"error">>}
Outcomes ==
  IF stopToken THEN {<<"stopped">>} ELSE {<<"value">>, <<"error">>}

\* _execute_impl: complete the receiver, which may throw from set_value and
\* may end the life of the operation state (run() touches it no more).
Execute(r) ==
  /\ Go(r, "exec", "body")
  /\ LET t == task[r] IN
       /\ \E signals \in Outcomes : Complete(t, signals)
       /\ life' = [life EXCEPT ![t] = "idle"]
  /\ UNCHANGED <<loopVars, mutex, task, stopToken, starts>>

BodyReturn(r) ==
  /\ Go(r, "body", "pop")
  /\ UNCHANGED <<loopVars, mutex, task, opVars>>

-----------------------------------------------------------------------------

\* Somebody requests stop from the source behind the receivers' token.
RequestStop ==
  /\ ~stopToken
  /\ stopToken' = TRUE
  /\ UNCHANGED <<loopVars, threadVars, life, completions, starts>>

Caller(c) ==
  \/ PushLock(c) \/ PushThrows(c) \/ PushLink(c) \/ PushNotify(c)
  \/ FinishLock(c) \/ FinishStop(c) \/ FinishNotify(c)
  \/ \E t \in Tasks : Start(c, t)

Runner(r) ==
  \/ PopLock(r) \/ PopWait(r) \/ SpuriousWakeup(r) \/ PopTake(r)
  \/ Execute(r) \/ BodyReturn(r)

Next ==
  \/ RequestStop
  \/ \E c \in Callers : Caller(c)
  \/ \E r \in Runners : Runner(r)

Spec == Init /\ [][Next]_vars

(***************************************************************************)
(* Fairness.  A thread that can take its next step does (WF), bodies of    *)
(* tasks return (they are noexcept client code), and the mutex does not    *)
(* starve a thread that asks for it again and again (SF on the two locks). *)
(* No fairness on calling finish() or on starting operations, nor on       *)
(* spurious wakeups.                                                       *)
(***************************************************************************)
Fairness ==
  /\ \A c \in Callers :
       /\ SF_vars(PushLock(c))
       /\ WF_vars(PushLink(c) \/ PushNotify(c) \/ FinishStop(c) \/ FinishNotify(c))
  /\ \A r \in Runners :
       /\ SF_vars(PopLock(r))
       /\ WF_vars(PopWait(r) \/ PopTake(r) \/ Execute(r) \/ BodyReturn(r))

FairSpec == Spec /\ Fairness

-----------------------------------------------------------------------------
(* Properties *)

\* The ranges of the variables.
TypeOK ==
  /\ next \in [Tasks \cup {Sentinel} -> Tasks \cup {Sentinel}]
  /\ tail \in Tasks \cup {Sentinel}
  /\ stop \in BOOLEAN
  /\ mutex \in Threads \cup {NoOne}
  /\ pc \in [Threads -> {"idle", "push", "push_link", "push_notify", "finish",
                         "finish_notify", "pop", "pop_test", "waiting", "exec",
                         "body", "returned"}]
  /\ task \in [Threads -> Tasks \cup {Sentinel}]
  /\ life \in [Tasks -> {"idle", "started", "popped"}]
  /\ completions \in [Tasks -> Seq({"value", "error", "stopped"})]
  /\ stopToken \in BOOLEAN
  /\ queue \in Seq(Tasks)
  /\ starts \in Nat

\* The pointers represent the queue: the chain that starts at the sentinel
\* visits the queued tasks in order and comes back to it, and _tail_ is its
\* last node.
QueueShape ==
  /\ next[Sentinel] = IF queue = <<>> THEN Sentinel ELSE queue[1]
  /\ \A i \in 1..Len(queue) :
       next[queue[i]] = IF i = Len(queue) THEN Sentinel ELSE queue[i + 1]
  /\ tail = IF queue = <<>> THEN Sentinel ELSE queue[Len(queue)]

\* An operation that was started is in one place only: on its way into the
\* queue, in the queue once, or with one runner.  None of them was completed.
OnePlace ==
  /\ \A i, j \in 1..Len(queue) : queue[i] = queue[j] => i = j
  /\ \A i \in 1..Len(queue) : life[queue[i]] = "started"
  /\ \A c \in Callers : pc[c] \in {"push", "push_link"} =>
       life[task[c]] = "started" /\ \A i \in 1..Len(queue) : queue[i] # task[c]
  /\ \A r, s \in Runners : pc[r] = "exec" /\ pc[s] = "exec" /\ task[r] = task[s] => r = s
  /\ \A t \in Tasks : life[t] # "idle" => completions[t] = <<>>

\* Every operation started sends its receiver one signal, never two.
CompletesOnce == \A t \in Tasks : Len(completions[t]) <= 1

\* No wakeup is lost: while a task is queued, not all the runners sleep or have
\* left, unless a notification is about to be sent.
NoLostWakeup ==
  next[Sentinel] # Sentinel /\ Waiting # {} =>
    \/ \E c \in Callers : pc[c] \in {"push_notify", "finish_notify"}
    \/ \E r \in Runners : pc[r] \in {"pop", "pop_test", "exec", "body"}

\* Once finish() was called no runner sleeps: all of them were notified, and
\* none of them can have tested the flag before and wait after.
FinishWakesAll ==
  stop /\ (\A c \in Callers : pc[c] # "finish_notify") => Waiting = {}

\* The loop implements the queue it promises, liveness included.
Promise == INSTANCE TaskQueue WITH
  Workers <- Runners,
  held <- {<<r, task[r]>> : r \in {s \in Runners : pc[s] = "exec"}},
  active <- {r \in Runners : pc[r] # "returned"},
  closed <- stop

ImplementsTaskQueue == Promise!LiveSpec

=============================================================================
