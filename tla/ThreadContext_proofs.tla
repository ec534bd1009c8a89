------------------------- MODULE ThreadContext_proofs -------------------------
(***************************************************************************)
(* Proofs about ThreadContext, for any tasks, callers and number of starts *)
(* (and any number of threads in the loop), on the invariant of the loop:  *)
(* a step of the context is a step of its loop or leaves the loop alone.   *)
(*                                                                         *)
(* The loop's own invariant says where a task can be, not that it is       *)
(* somewhere; Kept does: an operation in progress is on its way in, queued *)
(* or with a runner.  An operation that join() must wait for is past its   *)
(* start() for good (Past), so it is queued or with a runner; and a runner *)
(* returns only when the flag is set, which only join() does, and nothing  *)
(* is queued (Drained).                                                    *)
(***************************************************************************)
EXTENDS ThreadContext, RunLoop_proofs

\* An operation in progress is somewhere.
Kept ==
  \A t \in Tasks :
    /\ life[t] = "started" => InQueue(t) \/ \E c \in Callers : Pushes(c) /\ task[c] = t
    /\ life[t] = "popped" => \E r \in Runners : pc[r] = "exec" /\ task[r] = t

\* What join() waits for is in progress and past its start().
Past ==
  /\ \A t \in early : t \in Tasks /\ life[t] # "idle"
  /\ \A c \in Callers : Pushes(c) => task[c] \notin early
  /\ join = "not_called" => early = {}

\* Only join() calls finish().
OnlyJoin ==
  /\ \A c \in Callers :
       pc[c] \in {"finish", "finish_notify"} => c = Owner /\ join = "finishing"
  /\ stop => join # "not_called"

\* A runner that left the loop found nothing that join() waits for.
Drained ==
  \A r \in Runners : pc[r] = "returned" => stop /\ \A t \in early : ~InQueue(t)

\* When join() has returned, so have the runners.
Joined == join \in {"joined", "gone"} => \A r \in Runners : pc[r] = "returned"

TCInv ==
  /\ Inv
  /\ TCTypeOK
  /\ Kept
  /\ Past
  /\ OnlyJoin
  /\ Drained
  /\ Joined

-----------------------------------------------------------------------------

\* A context as constructed has nothing to do.
LEMMA TCInitInv == TCInit => TCInv
<1> SUFFICES ASSUME TCInit PROVE TCInv
  OBVIOUS
<1> USE DEF TCInit
<1>1. Inv
  BY InitInv
<1>2. TCTypeOK
  BY <1>1 DEF TCTypeOK, Inv
<1>3. /\ \A p \in Threads : pc[p] \in {"pop", "idle"}
      /\ \A t \in Tasks : life[t] = "idle"
      /\ stop = FALSE
  BY DEF Init
<1>4. Kept /\ Past /\ OnlyJoin /\ Drained /\ Joined
  BY <1>3 DEF Kept, Past, OnlyJoin, Drained, Joined, Pushes, Threads
<1> QED
  BY <1>1, <1>2, <1>4 DEF TCInv

\* A step of the context is a step of its loop, or leaves the loop alone.
LEMMA LoopStep == [TCNext]_<<vars, tcVars>> => [Next]_vars
<1> SUFFICES ASSUME [TCNext]_<<vars, tcVars>> PROVE [Next]_vars
  OBVIOUS
<1>1. ASSUME NEW c \in Callers, ClientStart(c) \/ PushSteps(c) PROVE Next
  BY <1>1 DEF ClientStart, PushSteps, Next, Caller
<1>2. ASSUME NEW r \in Runners, RunSteps(r) PROVE Next
  BY <1>2 DEF RunSteps, Next
<1>3. JoinFinish => Next
  BY ContextAssumption DEF JoinFinish, Next, Caller
<1>4. Join \/ JoinThread \/ Destroy \/ Gone => UNCHANGED vars
  BY DEF Join, JoinThread, Destroy, Gone
<1> QED
  BY <1>1, <1>2, <1>3, <1>4 DEF TCNext, Next

\* What the steps need of the types.
LEMMA TCTypes ==
  ASSUME TCInv
  PROVE  /\ pc \in [Threads -> {"idle", "push", "push_link", "push_notify", "finish",
                               "finish_notify", "pop", "pop_test", "waiting", "exec",
                               "body", "returned"}]
         /\ task \in [Threads -> Tasks \cup {Sentinel}]
         /\ life \in [Tasks -> {"idle", "started", "popped"}]
         /\ Threads = Runners \cup Callers
         /\ \A p \in Runners : p \notin Callers
BY RunLoopAssumption DEF TCInv, Inv, TypeOK, Threads

-----------------------------------------------------------------------------
(* Where an operation in progress is                                        *)

\* A step of the loop loses no operation.
LEMMA NextKept == Inv /\ Kept /\ [Next]_vars => Kept'
<1> SUFFICES ASSUME Inv, Kept, [Next]_vars PROVE Kept'
  OBVIOUS
<1>1. /\ pc \in [Threads -> {"idle", "push", "push_link", "push_notify", "finish",
                            "finish_notify", "pop", "pop_test", "waiting", "exec",
                            "body", "returned"}]
      /\ task \in [Threads -> Tasks \cup {Sentinel}]
      /\ life \in [Tasks -> {"idle", "started", "popped"}]
      /\ queue \in Seq(Tasks)
      /\ Threads = Runners \cup Callers
      /\ \A p \in Runners : p \notin Callers
  BY RunLoopAssumption DEF Inv, TypeOK, Threads
<1>2. CASE /\ UNCHANGED <<life, queue, task>>
           /\ \A c \in Callers : Pushes(c) => Pushes(c)'
           /\ \A r \in Runners : pc[r] = "exec" => pc'[r] = "exec"
  BY <1>2 DEF Kept, InQueue
<1>3. CASE RequestStop \/ UNCHANGED vars
  <2>1. UNCHANGED <<life, queue, task, pc>>
    BY <1>3 DEF RequestStop, vars, loopVars, threadVars, opVars
  <2> QED
    BY <1>2, <2>1 DEF Pushes
<1>4. ASSUME NEW c \in Callers,
             PushLock(c) \/ PushNotify(c) \/ FinishLock(c) \/ FinishStop(c) \/ FinishNotify(c)
      PROVE  Kept'
  <2>1. UNCHANGED <<life, queue, task>>
    BY <1>4 DEF PushLock, PushNotify, FinishLock, FinishStop, FinishNotify, loopVars, opVars
  <2>2. \A p \in Threads : \/ pc'[p] = pc[p]
                           \/ pc[p] = "push" /\ pc'[p] = "push_link"
                           \/ pc[p] \in {"idle", "waiting", "push_notify", "finish",
                                         "finish_notify"}
    BY <1>1, <1>4 DEF PushLock, PushNotify, FinishLock, FinishStop, FinishNotify, Go,
                      NotifyOne, NotifyAll, Waiting
  <2>3. /\ \A d \in Callers : Pushes(d) => Pushes(d)'
        /\ \A r \in Runners : pc[r] = "exec" => pc'[r] = "exec"
    BY <1>1, <2>2 DEF Pushes
  <2> QED
    BY <1>2, <2>1, <2>3
<1>5. ASSUME NEW r \in Runners,
             PopLock(r) \/ PopWait(r) \/ SpuriousWakeup(r) \/ BodyReturn(r)
      PROVE  Kept'
  <2>1. UNCHANGED <<life, queue, task>>
    BY <1>5 DEF PopLock, PopWait, SpuriousWakeup, BodyReturn, loopVars, opVars
  <2>2. \A p \in Threads : p # r => pc'[p] = pc[p]
    BY <1>1, <1>5 DEF PopLock, PopWait, SpuriousWakeup, BodyReturn, Go
  <2>3. pc[r] # "exec"
    BY <1>5 DEF PopLock, PopWait, SpuriousWakeup, BodyReturn, Go
  <2>4. /\ \A d \in Callers : Pushes(d) => Pushes(d)'
        /\ \A s \in Runners : pc[s] = "exec" => pc'[s] = "exec"
    BY <1>1, <2>2, <2>3 DEF Pushes
  <2> QED
    BY <1>2, <2>1, <2>4
<1>6. ASSUME NEW c \in Callers, NEW t \in Tasks, Start(c, t) PROVE Kept'
  <2>1. /\ pc[c] = "idle" /\ pc' = [pc EXCEPT ![c] = "push"]
        /\ task' = [task EXCEPT ![c] = t]
        /\ life[t] = "idle" /\ life' = [life EXCEPT ![t] = "started"]
        /\ UNCHANGED queue
    BY <1>6 DEF Start, Go
  <2>2. Pushes(c)' /\ task'[c] = t
    BY <1>1, <2>1 DEF Pushes
  <2>3. \A d \in Callers : Pushes(d) => Pushes(d)' /\ task'[d] = task[d]
    BY <1>1, <2>1 DEF Pushes
  <2>4. \A r \in Runners : pc'[r] = pc[r] /\ task'[r] = task[r]
    BY <1>1, <2>1
  <2> QED
    BY <1>1, <2>1, <2>2, <2>3, <2>4 DEF Kept, InQueue
<1>7. ASSUME NEW c \in Callers, PushThrows(c) PROVE Kept'
  <2>1. /\ pc[c] = "push" /\ pc' = [pc EXCEPT ![c] = "idle"]
        /\ life' = [life EXCEPT ![task[c]] = "idle"]
        /\ UNCHANGED <<queue, task>>
    BY <1>7 DEF PushThrows, PushMayThrow, loopVars
  <2>2. \A d \in Callers : Pushes(d) /\ task[d] # task[c] => Pushes(d)'
    BY <1>1, <2>1 DEF Pushes
  <2>3. \A r \in Runners : pc'[r] = pc[r]
    BY <1>1, <2>1
  <2> QED
    BY <1>1, <2>1, <2>2, <2>3 DEF Kept, InQueue
<1>8. ASSUME NEW c \in Callers, PushLink(c) PROVE Kept'
  <2>1. /\ pc[c] = "push_link" /\ pc' = [pc EXCEPT ![c] = "push_notify"]
        /\ queue' = Append(queue, task[c])
        /\ UNCHANGED <<life, task>>
    BY <1>8 DEF PushLink, Go, opVars
  <2>2. task[c] \in Tasks
    BY <2>1 DEF Inv, Placed, Pushes
  <2>3. /\ Len(queue) \in Nat /\ Len(queue') = Len(queue) + 1
        /\ \A i \in 1..Len(queue) : queue'[i] = queue[i]
        /\ queue'[Len(queue) + 1] = task[c]
    BY <1>1, <2>1, <2>2, AppendIndex
  <2>4. InQueue(task[c])'
    BY <2>1, <2>3 DEF InQueue
  <2>5. \A t \in Tasks : InQueue(t) => InQueue(t)'
    BY <2>3 DEF InQueue
  <2>6. \A d \in Callers : Pushes(d) /\ task[d] # task[c] => Pushes(d)'
    BY <1>1, <2>1 DEF Pushes
  <2>7. \A r \in Runners : pc'[r] = pc[r]
    BY <1>1, <2>1
  <2> QED
    BY <1>1, <2>1, <2>4, <2>5, <2>6, <2>7 DEF Kept
<1>9. ASSUME NEW r \in Runners, PopTake(r) PROVE Kept'
  <2>1. /\ pc[r] = "pop_test"
        /\ pc' = [pc EXCEPT ![r] = IF next[Sentinel] = Sentinel THEN "returned" ELSE "exec"]
        /\ task' = [task EXCEPT ![r] = next[Sentinel]]
    BY <1>9 DEF PopTake, Go, Leaves
  <2>2. \A c \in Callers : (Pushes(c)' <=> Pushes(c)) /\ task'[c] = task[c]
    BY <1>1, <2>1 DEF Pushes
  <2>3. \A s \in Runners : pc[s] = "exec" => pc'[s] = "exec" /\ task'[s] = task[s]
    BY <1>1, <2>1
  <2>4. CASE next[Sentinel] = Sentinel
    <3>1. UNCHANGED <<life, queue>>
      BY <1>9, <2>4 DEF PopTake
    <3> QED
      BY <3>1, <2>2, <2>3 DEF Kept, InQueue
  <2>5. CASE next[Sentinel] # Sentinel
    <3> DEFINE first == queue[1]
    <3>1. /\ queue # <<>> /\ next[Sentinel] = first /\ first \in Tasks
          /\ Len(queue) \in Nat /\ Len(queue) >= 1
      BY <2>5, Ends
    <3>2. life' = [life EXCEPT ![first] = "popped"] /\ queue' = Tail(queue)
      BY <1>9, <2>5, <3>1 DEF PopTake
    <3>3. pc'[r] = "exec" /\ task'[r] = first
      BY <1>1, <2>1, <2>5, <3>1
    <3>4. /\ Len(queue') = Len(queue) - 1
          /\ \A i \in 1..Len(queue') : queue'[i] = queue[i + 1]
      BY <1>1, <3>1, <3>2, TailIndex
    <3>5. ASSUME NEW t \in Tasks, t # first, InQueue(t) PROVE InQueue(t)'
      <4>1. PICK i \in 1..Len(queue) : queue[i] = t
        BY <3>5 DEF InQueue
      <4>2. i - 1 \in 1..Len(queue') /\ queue'[i - 1] = t
        BY <3>1, <3>4, <3>5, <4>1
      <4> QED
        BY <4>2 DEF InQueue
    <3> HIDE DEF first
    <3> QED
      BY <1>1, <2>2, <2>3, <3>1, <3>2, <3>3, <3>5 DEF Kept
  <2> QED
    BY <2>4, <2>5
<1>10. ASSUME NEW r \in Runners, Execute(r) PROVE Kept'
  <2>1. /\ pc[r] = "exec" /\ pc' = [pc EXCEPT ![r] = "body"]
        /\ life' = [life EXCEPT ![task[r]] = "idle"]
        /\ UNCHANGED <<queue, task>>
    BY <1>10 DEF Execute, Go, loopVars
  <2>2. \A c \in Callers : Pushes(c)' <=> Pushes(c)
    BY <1>1, <2>1 DEF Pushes
  <2>3. \A s \in Runners : pc[s] = "exec" /\ task[s] # task[r] => pc'[s] = "exec"
    BY <1>1, <2>1
  <2> QED
    BY <1>1, <2>1, <2>2, <2>3 DEF Kept, InQueue
<1> QED
  BY <1>3, <1>4, <1>5, <1>6, <1>7, <1>8, <1>9, <1>10 DEF Next, Caller, Runner

-----------------------------------------------------------------------------
(* What join() waits for                                                    *)

\* The steps of join() and of the destructor that leave the loop alone.
LEMMA OutsideStep ==
  ASSUME TCInv, Join \/ JoinThread \/ Destroy \/ Gone \/ UNCHANGED <<vars, tcVars>>
  PROVE  (Past /\ OnlyJoin /\ Drained /\ Joined)'
<1> USE DEF TCInv
<1>1. UNCHANGED <<pc, task, stop, life, queue>>
  BY DEF Join, JoinThread, Destroy, Gone, vars, loopVars, threadVars, opVars
<1>2. CASE Join
  <2>1. /\ join = "not_called" /\ join' = "finishing"
        /\ early' = {t \in Tasks : life[t] # "idle" /\ ~InStart(t)}
    BY <1>2 DEF Join
  <2>2. \A c \in Callers : Pushes(c) => task[c] \notin early'
    BY <2>1 DEF InStart, Pushes
  <2>3. \A r \in Runners : pc[r] # "returned"
    BY <2>1 DEF Drained, OnlyJoin
  <2>4. \A c \in Callers : pc[c] \notin {"finish", "finish_notify"}
    BY <2>1 DEF OnlyJoin
  <2> QED
    BY <1>1, <2>1, <2>2, <2>3, <2>4 DEF Past, OnlyJoin, Drained, Joined, Pushes
<1>3. CASE ~Join
  <2>1. /\ UNCHANGED early
        /\ (join' = "not_called") <=> (join = "not_called")
        /\ (join' = "finishing") <=> (join = "finishing")
        /\ \/ UNCHANGED join
           \/ join \in {"joined", "gone"}
           \/ \A r \in Runners : pc[r] = "returned"
    BY <1>3 DEF JoinThread, Destroy, Gone, tcVars
  <2> QED
    BY <1>1, <2>1 DEF Past, OnlyJoin, Drained, Joined, Pushes, InQueue
<1> QED
  BY <1>2, <1>3

\* finish(), called by join().
LEMMA JoinFinishStep ==
  ASSUME TCInv, JoinFinish
  PROVE  (Past /\ OnlyJoin /\ Drained /\ Joined)'
<1> USE DEF TCInv
<1> USE TCTypes
<1>1. /\ join = "finishing" /\ join' \in {"finishing", "waiting"}
      /\ UNCHANGED <<early, task, life, queue>>
      /\ stop => stop'
  BY DEF JoinFinish, FinishLock, FinishStop, FinishNotify, loopVars, opVars
<1>2. /\ \A p \in Threads \ {Owner} : pc'[p] = pc[p] \/ (pc[p] = "waiting" /\ pc'[p] = "pop")
      /\ pc'[Owner] \in {"finish", "finish_notify", "idle"}
      /\ pc'[Owner] # "idle" => join' = "finishing"
  <2>1. Owner \in Threads /\ Owner \in Callers
    BY ContextAssumption
  <2>2. CASE FinishLock(Owner) \/ FinishStop(Owner)
    <3>1. join' = "finishing"
      BY <1>1, <2>2 DEF JoinFinish, FinishLock, FinishStop, FinishNotify, Go
    <3>2. /\ \A p \in Threads \ {Owner} : pc'[p] = pc[p]
          /\ pc'[Owner] \in {"finish", "finish_notify"}
      BY <2>1, <2>2 DEF FinishLock, FinishStop, Go
    <3> QED
      BY <3>1, <3>2
  <2>3. CASE FinishNotify(Owner)
    <3>1. Owner \notin Waiting
      BY <2>1 DEF Waiting
    <3>2. \A p \in Threads \ {Owner} : pc'[p] = IF p \in Waiting THEN "pop" ELSE pc[p]
      BY <2>3 DEF FinishNotify, NotifyAll
    <3>3. pc'[Owner] = "idle"
      BY <2>1, <2>3, <3>1 DEF FinishNotify, NotifyAll
    <3> QED
      BY <3>2, <3>3 DEF Waiting
  <2> QED
    BY <2>2, <2>3 DEF JoinFinish
<1>3. \A c \in Callers : Pushes(c)' => Pushes(c)
  BY <1>2 DEF Pushes
<1>4. \A r \in Runners : pc'[r] = "returned" => pc[r] = "returned"
  BY <1>2, ContextAssumption
<1>5. Past'
  BY <1>1, <1>3 DEF Past
<1>6. OnlyJoin'
  BY <1>1, <1>2 DEF OnlyJoin
<1>7. Drained' /\ Joined'
  BY <1>1, <1>4 DEF Drained, Joined, InQueue
<1> QED
  BY <1>5, <1>6, <1>7

\* start() makes no task idle that join() waits for, and queues none of them.
LEMMA ClientStep ==
  ASSUME TCInv, NEW c \in Callers, ClientStart(c) \/ PushSteps(c)
  PROVE  (Past /\ OnlyJoin /\ Drained /\ Joined)'
<1> USE DEF TCInv
<1> USE TCTypes
<1>1. UNCHANGED <<join, early, stop>>
  BY DEF ClientStart, PushSteps, tcVars, Start, PushLock, PushThrows, PushLink, PushNotify,
         loopVars
<1>2. \A p \in Threads :
        \/ pc'[p] = pc[p]
        \/ p = c /\ pc'[p] \in {"push", "push_link", "push_notify", "idle"}
        \/ pc[p] = "waiting" /\ pc'[p] = "pop"
  BY DEF ClientStart, PushSteps, Start, PushLock, PushThrows, PushMayThrow, PushLink, PushNotify,
         Go, NotifyOne, Waiting
<1>3. /\ \A d \in Callers : pc'[d] \in {"finish", "finish_notify"} => pc[d] = pc'[d]
      /\ \A r \in Runners : pc'[r] = "returned" <=> pc[r] = "returned"
  BY <1>2
<1>4. OnlyJoin' /\ Joined'
  BY <1>1, <1>3 DEF OnlyJoin, Joined
<1>5. CASE ClientStart(c)
  <2>1. PICK t \in Tasks : Start(c, t)
    BY <1>5 DEF ClientStart
  <2>2. /\ life[t] = "idle" /\ life' = [life EXCEPT ![t] = "started"]
        /\ task' = [task EXCEPT ![c] = t]
        /\ UNCHANGED queue
    BY <2>1 DEF Start
  <2>3. t \notin early
    BY <2>2 DEF Past
  <2>4. \A d \in Callers : Pushes(d)' => (d = c /\ task'[d] = t) \/ (Pushes(d) /\ task'[d] = task[d])
    BY <1>2, <2>2 DEF Pushes
  <2>5. Past'
    BY <1>1, <2>2, <2>3, <2>4 DEF Past
  <2>6. Drained'
    BY <1>1, <1>3, <2>2 DEF Drained, InQueue
  <2> QED
    BY <1>4, <2>5, <2>6
<1>6. CASE PushSteps(c)
  <2>1. /\ UNCHANGED task
        /\ pc[c] \in {"push", "push_link", "push_notify"}
    BY <1>6 DEF PushSteps, PushLock, PushThrows, PushMayThrow, PushLink, PushNotify, Go
  <2>2. \A d \in Callers : Pushes(d)' => Pushes(d)
    BY <1>6 DEF PushSteps, PushLock, PushThrows, PushMayThrow, PushLink, PushNotify, Go,
                NotifyOne, Waiting, Pushes
  <2>3. \/ UNCHANGED life
        \/ pc[c] = "push" /\ life' = [life EXCEPT ![task[c]] = "idle"]
    BY <1>6 DEF PushSteps, PushLock, PushThrows, PushMayThrow, PushLink, PushNotify, opVars
  <2>4. \A t \in early : life'[t] = life[t]
    BY <2>3 DEF Past, Pushes
  <2>5. Past'
    BY <1>1, <2>1, <2>2, <2>4 DEF Past
  <2>6. \/ UNCHANGED queue
        \/ pc[c] = "push_link" /\ queue' = Append(queue, task[c])
    BY <1>6 DEF PushSteps, PushLock, PushThrows, PushLink, PushNotify, Go, loopVars
  <2>7. ASSUME NEW t \in early, InQueue(t)' PROVE InQueue(t)
    <3>1. CASE UNCHANGED queue
      BY <2>7, <3>1 DEF InQueue
    <3>2. CASE pc[c] = "push_link" /\ queue' = Append(queue, task[c])
      <4>1. task[c] \in Tasks /\ task[c] # t
        BY <3>2 DEF Past, Pushes, Inv, Placed
      <4>2. /\ Len(queue) \in Nat /\ Len(queue') = Len(queue) + 1
            /\ \A i \in 1..Len(queue) : queue'[i] = queue[i]
            /\ queue'[Len(queue) + 1] = task[c]
        BY <3>2, <4>1, AppendIndex DEF Inv, TypeOK
      <4>3. PICK i \in 1..Len(queue') : queue'[i] = t
        BY <2>7 DEF InQueue
      <4>4. i \in 1..Len(queue)
        BY <4>1, <4>2, <4>3
      <4> QED
        BY <4>2, <4>3, <4>4 DEF InQueue
    <3> QED
      BY <2>6, <3>1, <3>2
  <2>8. Drained'
    BY <1>1, <1>3, <2>7 DEF Drained
  <2> QED
    BY <1>4, <2>5, <2>8
<1> QED
  BY <1>5, <1>6

\* A runner that leaves was handed the sentinel: the flag is set and nothing is
\* queued.  Its other steps queue nothing and start nothing.
LEMMA RunnerStep ==
  ASSUME TCInv, (RequestStop /\ UNCHANGED tcVars) \/ \E r \in Runners : RunSteps(r)
  PROVE  (Past /\ OnlyJoin /\ Drained /\ Joined)'
<1> USE DEF TCInv
<1> USE TCTypes
<1>1. UNCHANGED <<join, stop>> /\ early' \subseteq early
      /\ \A t \in early' : life'[t] # "idle"
  BY DEF RunSteps, Runner, RequestStop, tcVars, PopLock, PopWait, SpuriousWakeup, PopTake,
         Execute, BodyReturn, loopVars, Past
<1>2. \A c \in Callers : pc'[c] = pc[c] /\ task'[c] = task[c]
  BY DEF RunSteps, Runner, RequestStop, PopLock, PopWait, SpuriousWakeup, PopTake, Execute,
         BodyReturn, Go, threadVars
<1>3. \A r \in Runners : pc[r] = "returned" => pc'[r] = "returned"
  BY DEF RunSteps, Runner, RequestStop, PopLock, PopWait, SpuriousWakeup, PopTake, Execute,
         BodyReturn, Go, threadVars
<1>4. Past' /\ OnlyJoin' /\ Joined'
  BY <1>1, <1>2, <1>3 DEF Past, OnlyJoin, Joined, Pushes
<1>5. ASSUME NEW t \in Tasks, InQueue(t)' PROVE InQueue(t)
  <2>1. \/ UNCHANGED queue
        \/ next[Sentinel] # Sentinel /\ queue' = Tail(queue)
    BY DEF RunSteps, Runner, RequestStop, PopLock, PopWait, SpuriousWakeup, PopTake, Execute,
           BodyReturn, loopVars
  <2>2. CASE UNCHANGED queue
    BY <1>5, <2>2 DEF InQueue
  <2>3. CASE next[Sentinel] # Sentinel /\ queue' = Tail(queue)
    <3>1. queue # <<>>
      BY <2>3, Ends
    <3>2. \A i \in 1..Len(queue') : i + 1 \in 1..Len(queue) /\ queue'[i] = queue[i + 1]
      BY <2>3, <3>1, TailIndex DEF Inv, TypeOK
    <3> QED
      BY <1>5, <3>2 DEF InQueue
  <2> QED
    BY <2>1, <2>2, <2>3
<1>6. ASSUME NEW r \in Runners, pc[r] # "returned", pc'[r] = "returned"
      PROVE  stop /\ queue' = <<>>
  <2>1. PopTake(r)
    BY <1>6 DEF RunSteps, Runner, RequestStop, PopLock, PopWait, SpuriousWakeup, PopTake,
                Execute, BodyReturn, Go, threadVars
  <2>2. next[Sentinel] = Sentinel /\ stop /\ UNCHANGED queue
    BY <1>6, <2>1 DEF PopTake, Ready, Go, Leaves
  <2> QED
    BY <2>2, Ends
<1>7. Drained'
  <2> SUFFICES ASSUME NEW r \in Runners, pc'[r] = "returned"
               PROVE  stop /\ \A t \in early' : ~InQueue(t)'
    BY <1>1 DEF Drained
  <2>1. CASE pc[r] = "returned"
    BY <1>1, <1>5, <2>1 DEF Drained, Past
  <2>2. CASE pc[r] # "returned"
    <3>1. stop /\ queue' = <<>>
      BY <1>6, <2>2
    <3>2. \A t \in early' : ~InQueue(t)'
      BY <3>1 DEF InQueue
    <3> QED
      BY <3>1, <3>2
  <2> QED
    BY <2>1, <2>2
<1> QED
  BY <1>4, <1>7

\* The types of the context's variables.
LEMMA TCNextTypeOK == TCInv /\ [TCNext]_<<vars, tcVars>> => TCTypeOK'
<1> SUFFICES ASSUME TCInv, [TCNext]_<<vars, tcVars>> PROVE TCTypeOK'
  OBVIOUS
<1>1. TypeOK'
  BY LoopStep, Inductive DEF TCInv, Inv
<1>2. /\ join \in {"not_called", "finishing", "waiting", "joined", "gone"}
      /\ early \subseteq Tasks
  BY DEF TCInv, TCTypeOK
<1>3. UNCHANGED tcVars \/ TCNext => /\ join' \in {"not_called", "finishing", "waiting", "joined", "gone"}
                                    /\ early' \subseteq Tasks
  BY <1>2 DEF TCNext, Join, JoinFinish, JoinThread, Destroy, Gone, ClientStart, PushSteps,
              RunSteps, tcVars
<1> QED
  BY <1>1, <1>3 DEF TCTypeOK

-----------------------------------------------------------------------------
(* What holds in every behaviour                                            *)

\* TCInv is inductive.
THEOREM TCInvariance == TCSpec => []TCInv
<1>1. TCInv /\ [TCNext]_<<vars, tcVars>> => TCInv'
  <2> SUFFICES ASSUME TCInv, [TCNext]_<<vars, tcVars>> PROVE TCInv'
    OBVIOUS
  <2>1. Inv' /\ Kept'
    BY LoopStep, Inductive, NextKept DEF TCInv
  <2>2. TCTypeOK'
    BY TCNextTypeOK
  <2>3. (Past /\ OnlyJoin /\ Drained /\ Joined)'
    BY OutsideStep, JoinFinishStep, ClientStep, RunnerStep DEF TCNext
  <2> QED
    BY <2>1, <2>2, <2>3 DEF TCInv
<1> QED
  BY <1>1, TCInitInv, PTL DEF TCSpec

\* When join() has returned, every operation whose start() had returned before it
\* was called has been completed.
THEOREM JoinDrainsTheLoop == TCSpec => []JoinDrains
<1>1. TCInv => JoinDrains
  <2> SUFFICES ASSUME TCInv, join \in {"joined", "gone"}, NEW t \in early PROVE FALSE
    BY DEF JoinDrains
  <2>1. \A r \in Runners : pc[r] = "returned"
    BY DEF TCInv, Joined
  <2>2. ~InQueue(t)
    BY <2>1, ContextAssumption DEF TCInv, Drained
  <2>3. t \in Tasks /\ life[t] \in {"started", "popped"}
    BY TCTypes DEF TCInv, Past
  <2>4. \A c \in Callers : Pushes(c) => task[c] # t
    BY DEF TCInv, Past
  <2> QED
    BY <2>1, <2>2, <2>3, <2>4 DEF TCInv, Kept
<1> QED
  BY <1>1, TCInvariance, PTL

\* The thread, the clients and join() use the loop as RunLoop lets its callers
\* and runners, so that every theorem about RunLoop holds of the loop in thread_context:
\* it is a FIFO queue, and completes each operation once.
THEOREM ContextUsesItsLoop == TCSpec => Spec /\ Promise!Spec
<1>1. TCInit => Init
  BY DEF TCInit
<1>2. TCSpec => Spec
  BY <1>1, LoopStep, PTL DEF TCSpec, Spec
<1> QED
  BY <1>2, ImplementsQueue, PTL

=============================================================================
