------------------------------- MODULE SyncWait -------------------------------
(***************************************************************************)
(* sync_wait (include/ustdex/detail/sync_wait.hpp) over its run_loop.      *)
(*                                                                         *)
(* The waiting thread, the only runner, connects and starts a sender, runs *)
(* the loop until it returns and then hands out the result; the receiver's *)
(* state and the loop are local variables of that call and end with it.    *)
(* The sender completes once, on any thread (a caller): on another one, on *)
(* the waiting thread inside start() or inside a task of the loop.  The    *)
(* work that is delegated to the loop belongs to the sender, so it has     *)
(* completed when the sender completes.                                    *)
(***************************************************************************)
EXTENDS RunLoop

\* The loop is a local variable of sync_wait: nobody else runs it.
ASSUME WaiterAssumption == \A r, s \in Runners : r = s

VARIABLES
  values,    \* _result: the optional that set_value engages
  eptr,      \* _eptr_
  reported,  \* how the sender completed (history)
  reporter,  \* the thread that completed it, until finish() has returned
  result     \* what sync_wait returned or threw

swVars == <<values, eptr, reported, reporter, result>>

Kinds == {"value", "value_throws", "error", "stopped"}

SWInit ==
  /\ Init
  /\ values = "empty"
  /\ eptr = "null"
  /\ reported = "no"
  /\ reporter = NoOne
  /\ result = "none"

\* What the receiver's functions leave in _eptr_: set_error its error, set_value
\* what storing the values threw.
EptrAfter_not_caught(kind) == IF kind = "error" THEN "error" ELSE eptr
EptrAfter(kind) ==
  CASE kind = "value_throws" -> "thrown"
    [] kind = "error" -> "error"
    [] OTHER -> eptr

\* _rcvr_t: set_value, set_error and set_stopped up to their call of finish().
Report(c, kind) ==
  /\ pc[c] = "idle"
  /\ reported = "no"
  /\ \A t \in Tasks : life[t] = "idle"
  /\ values' = IF kind = "value" THEN "engaged" ELSE values
  /\ eptr' = EptrAfter(kind)
  /\ reported' = kind
  /\ reporter' = c
  /\ UNCHANGED <<vars, result>>

\* The sender starts an operation on the loop (it has not completed).
Delegate(c) ==
  /\ reported = "no"
  /\ \E t \in Tasks : Start(c, t)
  /\ UNCHANGED swVars

PushSteps(c) ==
  /\ PushLock(c) \/ PushThrows(c) \/ PushLink(c) \/ PushNotify(c)
  /\ UNCHANGED swVars

\* finish() at the end of the receiver's functions.
ReportFinish(c) ==
  /\ reporter = c
  /\ \/ FinishLock(c) /\ UNCHANGED reporter
     \/ FinishStop(c) /\ UNCHANGED reporter
     \/ FinishNotify(c) /\ reporter' = NoOne
  /\ UNCHANGED <<values, eptr, reported, result>>

RunSteps(r) ==
  /\ Runner(r)
  /\ UNCHANGED swVars

\* run() has returned: rethrow or return, and end the life of the locals.
Return(r) ==
  /\ pc[r] = "returned"
  /\ result = "none"
  /\ result' = IF eptr # "null" THEN eptr ELSE values
  /\ UNCHANGED <<vars, values, eptr, reported, reporter>>

\* sync_wait has returned.
Returned == result # "none" /\ UNCHANGED <<vars, swVars>>

SWNext ==
  \/ RequestStop /\ UNCHANGED swVars
  \/ Returned
  \/ \E r \in Runners : RunSteps(r) \/ Return(r)
  \/ \E c \in Callers :
       \/ Delegate(c) \/ PushSteps(c) \/ ReportFinish(c)
       \/ \E kind \in Kinds : Report(c, kind)

SWSpec == SWInit /\ [][SWNext]_<<vars, swVars>>

(***************************************************************************)
(* Fairness: that of the loop; a receiver function that was called runs to *)
(* its end; sync_wait goes on when run() has returned.  The sender need    *)
(* not complete.                                                           *)
(***************************************************************************)
SWFairness ==
  /\ \A c \in Callers :
       /\ SF_<<vars, swVars>>(PushSteps(c))
       /\ SF_<<vars, swVars>>(ReportFinish(c))
  /\ \A r \in Runners :
       /\ SF_<<vars, swVars>>(PopLock(r) /\ UNCHANGED swVars)
       /\ WF_<<vars, swVars>>((PopWait(r) \/ PopTake(r) \/ Execute(r) \/ BodyReturn(r))
                                 /\ UNCHANGED swVars)
       /\ WF_<<vars, swVars>>(Return(r))

FairSWSpec == SWSpec /\ SWFairness

-----------------------------------------------------------------------------
(* Properties *)

SWTypeOK ==
  /\ TypeOK
  /\ values \in {"empty", "engaged"}
  /\ eptr \in {"null", "thrown", "error"}
  /\ reported \in Kinds \cup {"no"}
  /\ reporter \in Callers \cup {NoOne}
  /\ result \in {"none", "empty", "engaged", "thrown", "error"}

\* What the caller of sync_wait gets is what the sender sent (the \retval and
\* \throws lines of its documentation), and it gets it after the sender did.
ResultIsCompletion ==
  result # "none" =>
    CASE reported = "value" -> result = "engaged"
      [] reported = "value_throws" -> result = "thrown"
      [] reported = "error" -> result = "error"
      [] reported = "stopped" -> result = "empty"
      [] OTHER -> FALSE

\* sync_wait does not return, and with it end the life of the loop's mutex and
\* condition variable, while any thread is inside an operation of the loop.
LoopOutlivesItsUsers ==
  result # "none" =>
    /\ mutex = NoOne
    /\ reporter = NoOne
    /\ \A c \in Callers : pc[c] = "idle"
    /\ queue = <<>>

\* A sender that completes wakes its waiter: sync_wait returns.
SyncWaitReturns == reported # "no" ~> result # "none"

=============================================================================
