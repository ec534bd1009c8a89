---------------------------- MODULE SyncWait_proofs ----------------------------
(***************************************************************************)
(* Proofs about SyncWait, for any tasks, callers and number of starts, on  *)
(* the invariant of the loop: a step of sync_wait is a step of its loop or *)
(* leaves the loop alone (LoopStep), so Inv is kept (Inductive).           *)
(*                                                                         *)
(* What SWInv adds follows the waiter's way out.  A sender that completed  *)
(* has nothing left in the loop (Quiet).  Whoever sets the flag holds the  *)
(* mutex, so at that moment the other callers are outside the loop, and    *)
(* nobody enters it any more (Finishing).  The waiter leaves the loop with *)
(* the mutex in its hands, so then the reporter is outside as well (Left). *)
(***************************************************************************)
EXTENDS SyncWait, RunLoop_proofs

\* The loop's callers do what callers do.
CallersCall ==
  \A c \in Callers :
    pc[c] \in {"idle", "push", "push_link", "push_notify", "finish", "finish_notify"}

\* The receiver's state is what its one completion has left in it.
Received ==
  CASE reported = "value" -> values = "engaged" /\ eptr = "null"
    [] reported = "value_throws" -> values = "empty" /\ eptr = "thrown"
    [] reported = "error" -> values = "empty" /\ eptr = "error"
    [] OTHER -> values = "empty" /\ eptr = "null"

\* A sender that completed has no operation in progress on the loop.
Quiet == reported # "no" => \A t \in Tasks : life[t] = "idle"

\* Only the reporter calls finish(), and the flag is set by a completion.
Finishing ==
  /\ \A c \in Callers : pc[c] \in {"finish", "finish_notify"} => reporter = c
  /\ reporter # NoOne => reported # "no"
  /\ stop => /\ reported # "no"
             /\ \A c \in Callers : pc[c] \in {"idle", "finish_notify"}
             /\ reporter # NoOne => pc[reporter] = "finish_notify"

\* When run() has returned, every caller is outside the loop.
Left == \A r \in Runners : pc[r] = "returned" => stop /\ \A c \in Callers : pc[c] = "idle"

\* The result is what the receiver's state says, and run() has returned.
Handed ==
  result # "none" =>
    /\ \E r \in Runners : pc[r] = "returned"
    /\ result = IF eptr # "null" THEN eptr ELSE values

SWInv ==
  /\ Inv
  /\ SWTypeOK
  /\ CallersCall
  /\ Received
  /\ Quiet
  /\ Finishing
  /\ Left
  /\ Handed

-----------------------------------------------------------------------------

\* Before the sender is started nothing is reported.
LEMMA SWInitInv == SWInit => SWInv
<1> SUFFICES ASSUME SWInit PROVE SWInv
  OBVIOUS
<1> USE DEF SWInit
<1>1. Inv
  BY InitInv
<1>2. SWTypeOK
  BY <1>1 DEF SWTypeOK, Inv
<1>3. /\ \A p \in Threads : pc[p] \in {"pop", "idle"}
      /\ \A c \in Callers : pc[c] = "idle"
      /\ stop = FALSE
  BY RunLoopAssumption DEF Init, Threads
<1>4. CallersCall /\ Finishing
  BY <1>3 DEF CallersCall, Finishing
<1>5. Left
  BY <1>3 DEF Left, Threads
<1>6. Received /\ Quiet /\ Handed
  BY DEF Received, Quiet, Handed
<1> QED
  BY <1>1, <1>2, <1>4, <1>5, <1>6 DEF SWInv

\* A step of sync_wait is a step of its loop, or leaves the loop alone.
LEMMA LoopStep == [SWNext]_<<vars, swVars>> => [Next]_vars
<1> SUFFICES ASSUME [SWNext]_<<vars, swVars>> PROVE [Next]_vars
  OBVIOUS
<1>1. ASSUME NEW c \in Callers, Delegate(c) \/ PushSteps(c) \/ ReportFinish(c) PROVE Next
  BY <1>1 DEF Delegate, PushSteps, ReportFinish, Next, Caller
<1>2. ASSUME NEW r \in Runners, RunSteps(r) PROVE Next
  BY <1>2 DEF RunSteps, Next
<1>3. ASSUME NEW c \in Callers, NEW kind \in Kinds, Report(c, kind) PROVE UNCHANGED vars
  BY <1>3 DEF Report
<1>4. ASSUME NEW r \in Runners, Return(r) PROVE UNCHANGED vars
  BY <1>4 DEF Return
<1>5. Returned => UNCHANGED vars
  BY DEF Returned
<1> QED
  BY <1>1, <1>2, <1>3, <1>4, <1>5 DEF SWNext, Next

\* What the steps need of the types.
LEMMA SWTypes ==
  ASSUME SWInv
  PROVE  /\ pc \in [Threads -> {"idle", "push", "push_link", "push_notify", "finish",
                               "finish_notify", "pop", "pop_test", "waiting", "exec",
                               "body", "returned"}]
         /\ Threads = Runners \cup Callers
         /\ \A p \in Runners : p \notin Callers
         /\ \A p \in Threads : p # NoOne
         /\ \A p \in Threads : HoldsMutex(p) <=> mutex = p
         /\ life \in [Tasks -> {"idle", "started", "popped"}]
BY RunLoopAssumption DEF SWInv, Inv, TypeOK, MutexInv, Threads

\* The steps that leave the loop alone.
LEMMA OutsideStep ==
  ASSUME SWInv,
         \/ UNCHANGED <<vars, swVars>> \/ Returned
         \/ \E r \in Runners : Return(r)
         \/ \E c \in Callers : \E kind \in Kinds : Report(c, kind)
  PROVE  (CallersCall /\ Received /\ Quiet /\ Finishing /\ Left /\ Handed)'
<1> USE DEF SWInv
<1>1. UNCHANGED <<pc, stop, life>>
  BY DEF vars, loopVars, threadVars, opVars, Returned, Return, Report
<1>2. CallersCall' /\ Left'
  BY <1>1 DEF CallersCall, Left
<1>3. CASE UNCHANGED <<vars, swVars>> \/ Returned
  <2>1. UNCHANGED <<values, eptr, reported, reporter, result>>
    BY <1>3 DEF Returned, swVars
  <2> QED
    BY <1>1, <1>2, <2>1 DEF Received, Quiet, Finishing, Handed
<1>4. ASSUME NEW r \in Runners, Return(r) PROVE (Received /\ Quiet /\ Finishing /\ Handed)'
  <2>1. /\ UNCHANGED <<values, eptr, reported, reporter>>
        /\ pc[r] = "returned"
        /\ result' = IF eptr # "null" THEN eptr ELSE values
    BY <1>4 DEF Return
  <2> QED
    BY <1>1, <2>1 DEF Received, Quiet, Finishing, Handed
<1>5. ASSUME NEW c \in Callers, NEW kind \in Kinds, Report(c, kind)
      PROVE  (Received /\ Quiet /\ Finishing /\ Handed)'
  <2>1. /\ pc[c] = "idle" /\ reported = "no" /\ \A t \in Tasks : life[t] = "idle"
        /\ values' = IF kind = "value" THEN "engaged" ELSE values
        /\ eptr' = EptrAfter(kind)
        /\ reported' = kind /\ reporter' = c /\ UNCHANGED result
        /\ kind \in Kinds /\ kind # "no"
    BY <1>5 DEF Report, Kinds
  <2>2. values = "empty" /\ eptr = "null" /\ ~stop /\ reporter = NoOne
    BY <2>1 DEF Received, Finishing
  <2>3. Received'
    BY <2>1, <2>2 DEF Received, EptrAfter, Kinds
  <2>4. \A d \in Callers : pc[d] \notin {"finish", "finish_notify"}
    BY <2>2, SWTypes DEF Finishing, Threads
  <2>5. result = "none"
    BY <2>2 DEF Handed, Left
  <2> QED
    BY <1>1, <2>1, <2>2, <2>3, <2>4, <2>5 DEF Quiet, Finishing, Handed
<1> QED
  BY <1>2, <1>3, <1>4, <1>5

\* The steps of the sender's threads in the loop.
LEMMA CallerStep ==
  ASSUME SWInv, NEW c \in Callers, Delegate(c) \/ PushSteps(c) \/ ReportFinish(c)
  PROVE  (CallersCall /\ Received /\ Quiet /\ Finishing /\ Left /\ Handed)'
<1> USE DEF SWInv
<1> USE SWTypes
<1>1. UNCHANGED <<values, eptr, reported, result>>
  BY DEF Delegate, PushSteps, ReportFinish, swVars
<1>2. Received'
  BY <1>1 DEF Received
<1>3. stop => pc[c] = "finish_notify" \/ pc[c] = "idle"
  BY DEF Finishing
<1>4. \A r \in Runners : pc[r] = "returned" => stop /\ pc[c] = "idle" /\ reporter # c
  BY DEF Left, Finishing
<1>5. CASE Delegate(c)
  <2>1. /\ reported = "no" /\ pc[c] = "idle" /\ pc' = [pc EXCEPT ![c] = "push"]
        /\ UNCHANGED <<stop, reporter>>
    BY <1>5 DEF Delegate, Start, Go, swVars
  <2>2. ~stop
    BY <2>1 DEF Finishing
  <2>3. \A p \in Threads : pc'[p] = IF p = c THEN "push" ELSE pc[p]
    BY <2>1
  <2> QED
    BY <1>1, <1>2, <2>1, <2>2, <2>3 DEF CallersCall, Quiet, Finishing, Left, Handed
<1>6. CASE PushSteps(c)
  <2>1. /\ pc[c] \in {"push", "push_link", "push_notify"}
        /\ UNCHANGED <<stop, reporter>>
        /\ \A t \in Tasks : life'[t] \in {life[t], "idle"}
    BY <1>6 DEF PushSteps, PushLock, PushThrows, PushMayThrow, PushLink, PushNotify, Go,
                swVars, loopVars, opVars
  <2>2. ~stop
    BY <1>3, <2>1
  <2>3. \A r \in Runners : pc[r] # "returned"
    BY <2>2 DEF Left
  <2>4. /\ pc'[c] \in {"push_link", "idle", "push_notify"}
        /\ \A d \in Callers : d # c => pc'[d] = pc[d]
        /\ \A r \in Runners : pc'[r] = pc[r] \/ pc'[r] = "pop"
    BY <1>6 DEF PushSteps, PushLock, PushThrows, PushMayThrow, PushLink, PushNotify, Go,
                NotifyOne, Waiting
  <2>5. CallersCall'
    BY <2>4 DEF CallersCall
  <2>6. Finishing'
    BY <1>1, <2>1, <2>2, <2>4 DEF Finishing
  <2> QED
    BY <1>1, <1>2, <2>1, <2>2, <2>3, <2>4, <2>5, <2>6 DEF Quiet, Left, Handed
<1>7. CASE ReportFinish(c)
  <2>1. reporter = c /\ reported # "no" /\ UNCHANGED life
    BY <1>7 DEF ReportFinish, FinishLock, FinishStop, FinishNotify, opVars, Finishing
  <2>2. \A r \in Runners : pc[r] # "returned"
    BY <1>4, <2>1
  <2>3. result = "none"
    BY <2>2 DEF Handed
  <2>4. \A d \in Callers : pc[d] \notin {"push", "push_link"}
    BY <2>1 DEF Inv, Placed, Pushes, Quiet
  <2>5. \A d \in Callers : d # c => pc[d] \notin {"finish", "finish_notify"}
    BY <2>1 DEF Finishing
  <2>6. CASE FinishLock(c)
    <3>1. /\ pc[c] = "idle" /\ pc' = [pc EXCEPT ![c] = "finish"] /\ UNCHANGED <<stop, reporter>>
      BY <1>7, <2>6 DEF ReportFinish, FinishLock, FinishNotify, Go, loopVars
    <3>2. ~stop
      BY <2>1, <3>1 DEF Finishing
    <3>3. \A p \in Threads : pc'[p] = IF p = c THEN "finish" ELSE pc[p]
      BY <3>1
    <3> QED
      BY <1>1, <1>2, <2>1, <2>2, <2>3, <3>1, <3>2, <3>3
         DEF CallersCall, Quiet, Finishing, Left, Handed
  <2>7. CASE FinishStop(c)
    <3>1. /\ pc[c] = "finish" /\ pc' = [pc EXCEPT ![c] = "finish_notify"] /\ UNCHANGED reporter
      BY <1>7, <2>7 DEF ReportFinish, FinishStop, FinishNotify, Go
    <3>2. mutex = c
      BY <3>1 DEF HoldsMutex
    <3>3. \A d \in Callers : d # c => pc[d] = "idle"
      BY <2>4, <2>5, <3>2 DEF HoldsMutex, CallersCall
    <3>4. \A p \in Threads : pc'[p] = IF p = c THEN "finish_notify" ELSE pc[p]
      BY <3>1
    <3> QED
      BY <1>1, <1>2, <2>1, <2>2, <2>3, <3>1, <3>3, <3>4
         DEF CallersCall, Quiet, Finishing, Left, Handed
  <2>8. CASE FinishNotify(c)
    <3>1. /\ pc[c] = "finish_notify" /\ UNCHANGED stop /\ reporter' = NoOne
      BY <1>7, <2>8 DEF ReportFinish, FinishLock, FinishStop, FinishNotify, Go, loopVars
    <3>2. \A p \in Threads : pc'[p] = CASE p = c -> "idle"
                                         [] p \in Waiting -> "pop"
                                         [] OTHER -> pc[p]
      BY <2>8 DEF FinishNotify, NotifyAll
    <3>3. \A d \in Callers : pc'[d] = IF d = c THEN "idle" ELSE pc[d]
      BY <3>2, SMT DEF Waiting
    <3>4. \A r \in Runners : pc'[r] # "returned"
      BY <2>2, <3>2
    <3>5. \A d \in Callers : d # c => pc'[d] \notin {"finish", "finish_notify"}
      BY <2>5, <3>3
    <3>6. stop => \A d \in Callers : pc'[d] \in {"idle", "finish_notify"}
      BY <3>3 DEF Finishing
    <3>7. CallersCall'
      BY <3>3 DEF CallersCall
    <3>8. Finishing'
      BY <1>1, <2>1, <3>1, <3>3, <3>5, <3>6 DEF Finishing
    <3> QED
      BY <1>1, <1>2, <2>1, <2>3, <3>4, <3>7, <3>8 DEF Quiet, Left, Handed
  <2> QED
    BY <1>7, <2>6, <2>7, <2>8 DEF ReportFinish
<1> QED
  BY <1>5, <1>6, <1>7

\* The steps of the waiter in run(), and a stop request.
LEMMA WaiterStep ==
  ASSUME SWInv,
         (RequestStop /\ UNCHANGED swVars) \/ \E r \in Runners : RunSteps(r)
  PROVE  (CallersCall /\ Received /\ Quiet /\ Finishing /\ Left /\ Handed)'
<1> USE DEF SWInv
<1> USE SWTypes
<1>1. UNCHANGED <<values, eptr, reported, reporter, result>>
  BY DEF RunSteps, swVars
<1>2. UNCHANGED stop
  BY DEF RunSteps, Runner, RequestStop, PopLock, PopWait, SpuriousWakeup, PopTake, Execute,
         BodyReturn, loopVars
<1>3. \A c \in Callers : pc'[c] = pc[c]
  BY DEF RunSteps, Runner, RequestStop, PopLock, PopWait, SpuriousWakeup, PopTake, Execute,
         BodyReturn, Go, threadVars
<1>4. \A r \in Runners : pc[r] = "returned" => pc'[r] = "returned"
  BY DEF RunSteps, Runner, RequestStop, PopLock, PopWait, SpuriousWakeup, PopTake, Execute,
         BodyReturn, Go, threadVars
<1>5. Quiet'
  <2> SUFFICES ASSUME reported # "no" PROVE \A t \in Tasks : life'[t] = "idle"
    BY <1>1 DEF Quiet
  <2>1. \A t \in Tasks : life[t] = "idle"
    BY DEF Quiet
  <2>2. queue = <<>>
    <3>1. queue # <<>> => 1 \in 1..Len(queue) /\ queue[1] \in Tasks
      BY Ends
    <3> QED
      BY <2>1, <3>1 DEF Inv, Distinct
  <2>3. next[Sentinel] = Sentinel
    BY <2>2, Ends
  <2>4. UNCHANGED life \/ \E r \in Runners : Execute(r)
    BY <2>3 DEF RunSteps, Runner, RequestStop, PopLock, PopWait, SpuriousWakeup, PopTake,
                BodyReturn, opVars
  <2>5. ASSUME NEW r \in Runners, Execute(r) PROVE FALSE
    BY <2>1, <2>5 DEF Execute, Go, Inv, Held
  <2> QED
    BY <2>1, <2>4, <2>5
<1>6. Left'
  <2> SUFFICES ASSUME NEW r \in Runners, pc[r] # "returned", pc'[r] = "returned"
               PROVE  stop /\ \A c \in Callers : pc[c] = "idle"
    BY <1>2, <1>3 DEF Left
  <2>1. ~(RequestStop /\ UNCHANGED swVars)
    BY DEF RequestStop, threadVars
  <2>2. RunSteps(r)
    BY <2>1, WaiterAssumption
  <2>3. PopTake(r)
    BY <2>2 DEF RunSteps, Runner, PopLock, PopWait, SpuriousWakeup, Execute, BodyReturn, Go
  <2>4. next[Sentinel] = Sentinel
    BY <2>3 DEF PopTake, Go, Leaves
  <2>5. stop /\ pc[r] = "pop_test"
    BY <2>3, <2>4 DEF PopTake, Ready, Go
  <2>6. \A c \in Callers : pc[c] # "finish_notify"
    BY <2>5 DEF HoldsMutex
  <2> QED
    BY <2>5, <2>6 DEF Finishing
<1>7. CallersCall' /\ Finishing'
  BY <1>1, <1>2, <1>3 DEF CallersCall, Finishing, SWTypeOK
<1>8. Received' /\ Handed'
  BY <1>1, <1>4 DEF Received, Handed
<1> QED
  BY <1>5, <1>6, <1>7, <1>8

\* The types of the receiver's variables.
LEMMA SWNextTypeOK == SWInv /\ [SWNext]_<<vars, swVars>> => SWTypeOK'
<1> SUFFICES ASSUME SWInv, [SWNext]_<<vars, swVars>> PROVE SWTypeOK'
  OBVIOUS
<1>1. TypeOK'
  BY LoopStep, Inductive DEF SWInv, Inv
<1>2. /\ values \in {"empty", "engaged"}
      /\ eptr \in {"null", "thrown", "error"}
      /\ reported \in Kinds \cup {"no"}
      /\ reporter \in Callers \cup {NoOne}
      /\ result \in {"none", "empty", "engaged", "thrown", "error"}
  BY DEF SWInv, SWTypeOK
<1> DEFINE T == /\ values' \in {"empty", "engaged"}
                /\ eptr' \in {"null", "thrown", "error"}
                /\ reported' \in Kinds \cup {"no"}
                /\ reporter' \in Callers \cup {NoOne}
                /\ result' \in {"none", "empty", "engaged", "thrown", "error"}
<1>3. ASSUME UNCHANGED swVars PROVE T
  BY <1>2, <1>3 DEF swVars
<1>4. ASSUME NEW c \in Callers, NEW kind \in Kinds, Report(c, kind) PROVE T
  <2>1. EptrAfter(kind) \in {"null", "thrown", "error"}
    BY <1>2 DEF EptrAfter
  <2> QED
    BY <1>2, <1>4, <2>1 DEF Report
<1>5. ASSUME NEW c \in Callers, ReportFinish(c) PROVE T
  BY <1>2, <1>5 DEF ReportFinish
<1>6. ASSUME NEW r \in Runners, Return(r) PROVE T
  BY <1>2, <1>6 DEF Return
<1> HIDE DEF T
<1>7. SWNext => T
  BY <1>3, <1>4, <1>5, <1>6 DEF SWNext, RunSteps, Delegate, PushSteps, Returned
<1>8. T
  BY <1>3, <1>7
<1> QED
  BY <1>1, <1>8 DEF SWTypeOK, T

-----------------------------------------------------------------------------
(* What holds in every behaviour                                            *)

\* SWInv is inductive.
THEOREM SWInvariance == SWSpec => []SWInv
<1>1. SWInv /\ [SWNext]_<<vars, swVars>> => SWInv'
  <2> SUFFICES ASSUME SWInv, [SWNext]_<<vars, swVars>> PROVE SWInv'
    OBVIOUS
  <2>1. Inv'
    BY LoopStep, Inductive DEF SWInv
  <2>2. SWTypeOK'
    BY SWNextTypeOK
  <2>3. (CallersCall /\ Received /\ Quiet /\ Finishing /\ Left /\ Handed)'
    BY OutsideStep, CallerStep, WaiterStep DEF SWNext
  <2> QED
    BY <2>1, <2>2, <2>3 DEF SWInv
<1> QED
  BY <1>1, SWInitInv, PTL DEF SWSpec

\* What sync_wait returns or throws is what the sender completed with, and the
\* sender completed before.
THEOREM SyncWaitReturnsTheResult == SWSpec => []ResultIsCompletion
<1>1. SWInv => ResultIsCompletion
  <2> SUFFICES ASSUME SWInv, result # "none"
               PROVE  /\ reported \in Kinds
                      /\ reported = "value" => result = "engaged"
                      /\ reported = "value_throws" => result = "thrown"
                      /\ reported = "error" => result = "error"
                      /\ reported = "stopped" => result = "empty"
    BY DEF ResultIsCompletion, Kinds
  <2>1. result = IF eptr # "null" THEN eptr ELSE values
    BY DEF SWInv, Handed
  <2>2. reported # "no"
    BY DEF SWInv, Handed, Left, Finishing
  <2>3. reported \in Kinds
    BY <2>2 DEF SWInv, SWTypeOK
  <2> QED
    BY <2>1, <2>3 DEF SWInv, Received
<1> QED
  BY <1>1, SWInvariance, PTL

\* When sync_wait returns, and the loop's mutex and condition variable end with
\* it, no thread is inside an operation of the loop.
THEOREM LoopOutlives == SWSpec => []LoopOutlivesItsUsers
<1>1. SWInv => LoopOutlivesItsUsers
  <2> SUFFICES ASSUME SWInv, result # "none"
               PROVE  /\ mutex = NoOne /\ reporter = NoOne
                      /\ \A c \in Callers : pc[c] = "idle"
                      /\ queue = <<>>
    BY DEF LoopOutlivesItsUsers
  <2>1. PICK r \in Runners : pc[r] = "returned"
    BY DEF SWInv, Handed
  <2>2. stop /\ \A c \in Callers : pc[c] = "idle"
    BY <2>1 DEF SWInv, Left
  <2>3. \A p \in Threads : ~HoldsMutex(p)
    <3>1. \A s \in Runners : pc[s] = "returned"
      BY <2>1, WaiterAssumption
    <3> QED
      BY <2>2, <3>1 DEF HoldsMutex, Threads
  <2>4. mutex = NoOne
    BY <2>3 DEF SWInv, Inv, MutexInv, TypeOK
  <2>5. reporter = NoOne
    BY <2>2 DEF SWInv, SWTypeOK, Finishing
  <2>6. \A t \in Tasks : life[t] = "idle"
    BY <2>2 DEF SWInv, Finishing, Quiet
  <2>7. queue # <<>> => 1 \in 1..Len(queue) /\ queue[1] \in Tasks
    BY Ends DEF SWInv
  <2>8. queue = <<>>
    BY <2>6, <2>7 DEF SWInv, Inv, Distinct
  <2> QED
    BY <2>2, <2>4, <2>5, <2>8
<1> QED
  BY <1>1, SWInvariance, PTL

\* The sender, its scheduler and the waiter use the loop as RunLoop lets its callers
\* and runners, so that every theorem about RunLoop holds of the loop in sync_wait:
\* it is a FIFO queue, and completes each operation once.
THEOREM SyncWaitUsesItsLoop == SWSpec => Spec /\ Promise!Spec
<1>1. SWInit => Init
  BY DEF SWInit
<1>2. SWSpec => Spec
  BY <1>1, LoopStep, PTL DEF SWSpec, Spec
<1> QED
  BY <1>2, ImplementsQueue, PTL

=============================================================================
