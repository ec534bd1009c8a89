----------------------------- MODULE ThreadContext -----------------------------
(***************************************************************************)
(* thread_context (include/ustdex/detail/thread_context.hpp) over its      *)
(* run_loop: one thread, the only runner, runs the loop; clients start     *)
(* operations on its scheduler from any thread; the owner calls join() or  *)
(* destroys the context, which joins: finish() the loop, then wait for the *)
(* thread.  Clients may start operations until join() has returned; one    *)
(* that races with join() may or may not be executed.                      *)
(***************************************************************************)
EXTENDS RunLoop

CONSTANT Owner   \* the caller that joins

\* The constructor of the context starts its thread.
ASSUME ContextAssumption == Owner \in Callers /\ Runners # {}

VARIABLES
  join,    \* the owner: not_called, finishing, waiting, joined, gone
  early    \* the operations whose start() had returned when join() was called,
           \* and that have not been completed (history)

tcVars == <<join, early>>

TCInit ==
  /\ Init
  /\ join = "not_called"
  /\ early = {}

InStart(t) == \E c \in Callers : task[c] = t /\ pc[c] \in {"push", "push_link", "push_notify"}

\* Operations are started by any thread but the owner inside join().
ClientStart(c) ==
  /\ join \notin {"joined", "gone"}
  /\ c = Owner => join = "not_called"
  /\ \E t \in Tasks : Start(c, t)
  /\ UNCHANGED tcVars

PushSteps(c) ==
  /\ PushLock(c) \/ PushThrows(c) \/ PushLink(c) \/ PushNotify(c)
  /\ UNCHANGED tcVars

\* The thread of the context, in run().
RunSteps(r) ==
  /\ Runner(r)
  /\ early' = {t \in early : life'[t] # "idle"}
  /\ UNCHANGED join

\* join() is called; the thread is joinable.
Join ==
  /\ pc[Owner] = "idle"
  /\ join = "not_called"
  /\ join' = "finishing"
  /\ early' = {t \in Tasks : life[t] # "idle" /\ ~InStart(t)}
  /\ UNCHANGED vars

JoinFinish ==
  /\ join = "finishing"
  /\ \/ FinishLock(Owner) /\ UNCHANGED join
     \/ FinishStop(Owner) /\ UNCHANGED join
     \/ FinishNotify(Owner) /\ join' = "waiting"
  /\ UNCHANGED early

\* _thrd_.join() returns when the thread has returned from run().
JoinThread ==
  /\ join = "waiting"
  /\ \A r \in Runners : pc[r] = "returned"
  /\ join' = "joined"
  /\ UNCHANGED <<vars, early>>

\* The destructor: its join() finds the thread not joinable any more.
Destroy ==
  /\ join = "joined"
  /\ \A c \in Callers : pc[c] = "idle"
  /\ join' = "gone"
  /\ UNCHANGED <<vars, early>>

Gone == join = "gone" /\ UNCHANGED <<vars, tcVars>>

TCNext ==
  \/ RequestStop /\ UNCHANGED tcVars
  \/ Join \/ JoinFinish \/ JoinThread \/ Destroy \/ Gone
  \/ \E c \in Callers : ClientStart(c) \/ PushSteps(c)
  \/ \E r \in Runners : RunSteps(r)

TCSpec == TCInit /\ [][TCNext]_<<vars, tcVars>>

(***************************************************************************)
(* Fairness: threads that can go on do, and the mutex starves none of them.*)
(* Clients need not start anything, the owner need not join.               *)
(***************************************************************************)
TCFairness ==
  /\ SF_<<vars, tcVars>>(JoinFinish)
  /\ WF_<<vars, tcVars>>(JoinThread)
  /\ \A c \in Callers : SF_<<vars, tcVars>>(PushSteps(c))
  /\ \A r \in Runners :
       /\ SF_<<vars, tcVars>>(PopLock(r) /\ RunSteps(r))
       /\ WF_<<vars, tcVars>>((PopWait(r) \/ PopTake(r) \/ Execute(r) \/ BodyReturn(r))
                                 /\ RunSteps(r))

FairTCSpec == TCSpec /\ TCFairness

-----------------------------------------------------------------------------
(* Properties *)

TCTypeOK ==
  /\ TypeOK
  /\ join \in {"not_called", "finishing", "waiting", "joined", "gone"}
  /\ early \subseteq Tasks

\* join() drains the loop: when it has returned, every operation whose start()
\* had returned before it was called has been completed.
JoinDrains == join \in {"joined", "gone"} => early = {}

\* join() returns if clients stop starting operations: while they go on, the loop
\* need not run empty, and its thread returns from run() only then.
JoinReturns ==
  <>[](\A t \in Tasks : ~InStart(t)) => (join = "finishing" ~> join \in {"joined", "gone"})

\* An operation whose start() returned before anybody called join() completes,
\* whether or not anybody does.
StartedCompletes ==
  \A t \in Tasks :
    (life[t] = "started" /\ ~InStart(t) /\ join = "not_called") ~> completions[t] # <<>>

=============================================================================
