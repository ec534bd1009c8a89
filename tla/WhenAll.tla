------------------------------- MODULE WhenAll -------------------------------
(***************************************************************************)
(* The operation state of when_all (include/ustdex/detail/when_all.hpp),   *)
(* with the stop callback it registers with the receiver's stop token and  *)
(* the storage of that callback (_lazy of lazy.hpp).                       *)
(*                                                                         *)
(* start() starts the children one after the other; each child completes   *)
(* on a thread of its own, at any time after it was started, inside the    *)
(* start of the loop as well.  The children share an atomic _state_, an    *)
(* atomic _count_ of those that have not arrived, a stop source, a variant *)
(* for the error and a tuple for the values.  The child that takes _count_ *)
(* to 0 completes the receiver, which may destroy the operation state.     *)
(*                                                                         *)
(* There are two stop sources, both StopToken's: the outer one, whose      *)
(* token the receiver has, and when_all's own, whose token its children    *)
(* have.  Here request_stop of the inner one is the step that sets the     *)
(* flag; children whose stop callbacks complete them do so while the       *)
(* caller is still at the step that follows.  request_stop of the outer    *)
(* one is followed through the callback of when_all, which may complete    *)
(* children, and so the receiver, before it returns.                       *)
(*                                                                         *)
(* _lazy::construct declares a local variable with the name of the member, *)
(* so the callback is created in construct()'s own frame, and destroy()    *)
(* runs the destructor on the member's raw storage.  LazyInMember = FALSE  *)
(* is this code, TRUE is what the rest of when_all relies on.              *)
(***************************************************************************)
EXTENDS Naturals, Sequences, FiniteSets

CONSTANTS
  MaxChildren,        \* bound: the number of child senders is 0..MaxChildren
  ChildCompletions,   \* the completion signatures that a child may have
  LazyInMember        \* _lazy keeps its object in its member

Signals == {"value", "error", "stopped"}

ASSUME MaxChildrenAssumption == MaxChildren \in Nat
ASSUME ChildCompletionsAssumption == ChildCompletions \subseteq (SUBSET Signals) \ {{}}
ASSUME LazyInMemberAssumption == LazyInMember \in BOOLEAN

Index   == 1..MaxChildren
None    == [by |-> 0, as |-> "none"]

VARIABLES
  n,          \* the number of children
  can,        \* the signals in the completion signatures of each child
  \* _state_t
  state,      \* _state_: started, error or stopped
  count,      \* _count_
  stopSource, \* _stop_source_.stop_requested()
  errors,     \* _errors_: whose error it holds, and whether as an exception_ptr
  values,     \* the children whose slots of _values_ are engaged
  \* _on_stop_ and the outer stop source
  token,      \* the receiver's stop token: never, inplace
  onStop,     \* where the outer source's list has the callback: none, member, frame
  outer,      \* request_stop of the outer source: idle, body, asking, returned
  listed,     \* the children whose callbacks the inner source had when outer asked it
  nested,     \* the child that last completed inside it, 0 if none
  undefined,  \* something undefined may have been executed
  \* the threads
  stage,      \* start(): construct, check, loop, abandoned
  starter,    \* the next child start() starts; n + 1 when it has returned
  pc,         \* the step of each child
  signals     \* what was sent to the receiver

opState == <<state, count, stopSource, errors, values>>
outside == <<token, onStop, outer, listed, nested, undefined>>
vars    == <<n, can, opState, outside, stage, starter, pc, signals>>

Child == 1..n

\* Some child never sends values: when_all has no value completion, its
\* _values_t is _nil and no values are stored.
SendsValues(i) == "value" \in can[i]
NoValues == \E i \in Child : ~SendsValues(i)

Init ==
  /\ n \in 0..MaxChildren
  /\ can \in [Index -> ChildCompletions]
  /\ \A i \in Index : i > n => can[i] = CHOOSE c \in ChildCompletions : TRUE
  /\ state = "started"
  /\ count = n
  /\ stopSource = FALSE
  /\ errors = None
  /\ values = {}
  /\ token \in {"never", "inplace"}
  /\ onStop = "none"
  /\ outer = "idle"
  /\ listed = {}
  /\ nested = 0
  /\ undefined = FALSE
  /\ stage = "construct"
  /\ starter = 1
  /\ pc = [i \in Index |-> "unstarted"]
  /\ signals = <<>>

Go(i, from, to) ==
  /\ pc[i] = from
  /\ pc' = [pc EXCEPT ![i] = to]

-----------------------------------------------------------------------------
(* _complete: what it sends follows from _state_; "by" is the child whose   *)
(* error is sent, or the number of value slots the receiver is handed.      *)

Signal ==
  CASE state = "error"   -> <<[sig |-> "error", by |-> errors.by, as |-> errors.as]>>
    [] state = "stopped" -> <<[sig |-> "stopped", by |-> 0, as |-> "none"]>>
    [] state = "started" /\ NoValues -> <<>>
    [] OTHER -> <<[sig |-> "value", by |-> Cardinality(values), as |-> "none"]>>

-----------------------------------------------------------------------------
(* The stop callback                                                        *)

\* The destructor of the callback takes it off the list; while its body runs on
\* another thread, the destructor waits.  by: the child on whose thread, 0 for
\* start().
CanDestroy(by) ==
  LazyInMember => outer \notin {"body", "asking"} \/ (by = nested /\ by # 0)

\* What the destructor does with raw storage is anything: it may see a null
\* _source_ and do nothing.
DestroyOnStop ==
  /\ onStop' = IF onStop = "member" THEN "none" ELSE onStop
  /\ undefined' \in IF token = "inplace" /\ ~LazyInMember THEN {undefined, TRUE} ELSE {undefined}
  /\ UNCHANGED <<token, outer, listed, nested>>

\* Somebody asks the outer source to stop; it takes the callback off its list and
\* runs it.
OuterStop ==
  /\ token = "inplace" /\ outer = "idle"
  /\ outer' = IF onStop = "none" THEN "returned" ELSE "body"
  /\ onStop' = "none"
  /\ undefined' \in IF onStop = "frame" THEN {undefined, TRUE} ELSE {undefined}
  /\ UNCHANGED <<n, can, opState, token, listed, nested, stage, starter, pc, signals>>

\* _on_stop_request: _source_.request_stop(), which returns at once if stop was
\* requested before, and else runs the callbacks of the children.
OuterAsk ==
  /\ outer = "body"
  /\ outer' = IF stopSource THEN "returned" ELSE "asking"
  /\ listed' = IF stopSource THEN {} ELSE {i \in Child : pc[i] = "running"}
  /\ stopSource' = TRUE
  /\ UNCHANGED <<n, can, state, count, errors, values, token, onStop, nested, undefined, stage,
                 starter, pc, signals>>

\* The thread is in no child's callback.
OuterIsFree == nested # 0 => pc[nested] = "done"

\* Both request_stop return, the inner one to its source's lock.  If the receiver
\* was completed in a callback, that source may be gone.
OuterReturn ==
  /\ outer = "asking"
  /\ OuterIsFree
  /\ outer' = "returned"
  /\ undefined' \in IF signals # <<>> THEN {undefined, TRUE} ELSE {undefined}
  /\ UNCHANGED <<n, can, opState, token, onStop, listed, nested, stage, starter, pc, signals>>

-----------------------------------------------------------------------------
(* start                                                                    *)

\* Stop was requested before: the callback's constructor runs it and does not register it.
RunsHere_not_at_all == FALSE
RunsHere == outer # "idle"

\* _on_stop_.construct: registers the callback, or runs it here.
Construct ==
  /\ stage = "construct"
  /\ stage' = "check"
  /\ onStop' = IF token = "inplace" /\ ~RunsHere
                 THEN IF LazyInMember THEN "member" ELSE "frame"
                 ELSE "none"
  /\ stopSource' = RunsHere
  /\ UNCHANGED <<n, can, state, count, errors, values, token, outer, listed, nested, undefined,
                 starter, pc, signals>>

\* stop_requested(): the children are not started.
StartStopped ==
  /\ stage = "check"
  /\ stopSource
  /\ CanDestroy(0)
  /\ stage' = "abandoned"
  /\ DestroyOnStop
  /\ signals' = signals \o <<[sig |-> "stopped", by |-> 0, as |-> "none"]>>
  /\ UNCHANGED <<n, can, opState, starter, pc>>

EnterLoop ==
  /\ stage = "check"
  /\ ~stopSource
  /\ stage' = "loop"
  /\ UNCHANGED <<n, can, opState, outside, starter, pc, signals>>

StartChild ==
  /\ stage = "loop"
  /\ starter \in Child
  /\ pc' = [pc EXCEPT ![starter] = "running"]
  /\ starter' = starter + 1
  /\ UNCHANGED <<n, can, opState, outside, stage, signals>>

StartNone ==
  /\ stage = "loop"
  /\ n = 0
  /\ starter = 1
  /\ CanDestroy(0)
  /\ starter' = 2
  /\ DestroyOnStop
  /\ signals' = signals \o Signal
  /\ UNCHANGED <<n, can, opState, stage, pc>>

-----------------------------------------------------------------------------
(* The receiver of child i                                                  *)

\* set_value: every value is stored in its slot.
SetValue(i) ==
  /\ SendsValues(i)
  /\ Go(i, "running", "arrive")
  /\ values' = IF NoValues THEN values ELSE values \cup {i}
  /\ UNCHANGED <<n, can, state, count, stopSource, errors, stage, starter, signals>>

\* set_value: copying a value throws; what was thrown is handled as an error.
SetValueThrows(i) ==
  /\ SendsValues(i)
  /\ ~NoValues
  /\ Go(i, "running", "exchange_eptr")
  /\ UNCHANGED <<n, can, opState, stage, starter, signals>>

SetError(i) ==
  /\ "error" \in can[i]
  /\ Go(i, "running", "exchange")
  /\ UNCHANGED <<n, can, opState, stage, starter, signals>>

\* The exchange returned error: somebody else is writing the error.
AfterExchange_returns(step) ==
  CASE state = "error" -> "done"
    [] state # "error" /\ step = "exchange" -> "ask"
    [] OTHER -> "ask_eptr"
AfterExchange_ignored(step) == IF step = "exchange" THEN "ask" ELSE "ask_eptr"
AfterExchange(step) ==
  CASE state = "error" -> "arrive"
    [] state # "error" /\ step = "exchange" -> "ask"
    [] OTHER -> "ask_eptr"

\* _set_error: _error != _state_.exchange(_error)
Exchange(i) ==
  /\ pc[i] \in {"exchange", "exchange_eptr"}
  /\ state' = "error"
  /\ pc' = [pc EXCEPT ![i] = AfterExchange(@)]
  /\ UNCHANGED <<n, can, count, stopSource, errors, values, outside, stage, starter, signals>>

AfterAsk_error_dropped(step) == "arrive"
AfterAsk(step) ==
  CASE step = "ask" -> "emplace"
    [] step = "ask_eptr" -> "emplace_eptr"
    [] OTHER -> "arrive"

AskStop(i) ==
  /\ pc[i] \in {"ask", "ask_eptr", "ask_stopped"}
  /\ stopSource' = TRUE
  /\ pc' = [pc EXCEPT ![i] = AfterAsk(@)]
  /\ UNCHANGED <<n, can, state, count, errors, values, outside, stage, starter, signals>>

\* The winner stores the error, or the exception that copying it threw.
Emplace(i) ==
  /\ pc[i] \in {"emplace", "emplace_eptr"}
  /\ errors' \in {[by |-> i, as |-> a] :
                    a \in IF pc[i] = "emplace" THEN {"error", "eptr"} ELSE {"eptr"}}
  /\ pc' = [pc EXCEPT ![i] = "arrive"]
  /\ UNCHANGED <<n, can, state, count, stopSource, values, outside, stage, starter, signals>>

StateAfterStopped_exchanged == "stopped"
StateAfterStopped == IF state = "started" THEN "stopped" ELSE state

\* set_stopped: _state_ goes from started to stopped, or stays as it is.
SetStopped(i) ==
  /\ "stopped" \in can[i]
  /\ Go(i, "running", IF state = "started" THEN "ask_stopped" ELSE "arrive")
  /\ state' = StateAfterStopped
  /\ UNCHANGED <<n, can, count, stopSource, errors, values, stage, starter, signals>>

LastArrival_off_by_one == count = 2
LastArrival_tested_before == count = 0
LastArrival == count = 1

CountAfterArrival == count - 1

\* _arrive: 0 == --_count_
Arrive(i) ==
  /\ Go(i, "arrive", IF LastArrival THEN "complete" ELSE "done")
  /\ count' = CountAfterArrival
  /\ UNCHANGED <<n, can, state, stopSource, errors, values, outside, stage, starter, signals>>

Complete(i) ==
  /\ CanDestroy(i)
  /\ Go(i, "complete", "done")
  /\ DestroyOnStop
  /\ signals' = signals \o Signal
  /\ UNCHANGED <<n, can, opState, stage, starter>>

-----------------------------------------------------------------------------

\* The child decides how it completes, and on which thread: one of its own, or,
\* from its stop callback, the one that asked the outer source to stop.
SetAny(i) == SetValue(i) \/ SetValueThrows(i) \/ SetError(i) \/ SetStopped(i)
Elsewhere(i) == SetAny(i) /\ UNCHANGED outside
InCallback(i) ==
  /\ outer = "asking"
  /\ i \in listed
  /\ OuterIsFree
  /\ SetAny(i)
  /\ nested' = i
  /\ UNCHANGED <<token, onStop, outer, listed, undefined>>
Decide(i) == Elsewhere(i) \/ InCallback(i)

\* The rest is the code of when_all.
Proceed(i) == Exchange(i) \/ AskStop(i) \/ Emplace(i) \/ Arrive(i) \/ Complete(i)

Start == Construct \/ StartStopped \/ EnterLoop \/ StartChild \/ StartNone
Outer == OuterAsk \/ OuterReturn

\* Everything has returned.
Terminated ==
  /\ \/ stage = "abandoned"
     \/ starter > n /\ (n = 0 => starter = 2) /\ \A i \in Child : pc[i] = "done"
  /\ outer \in {"idle", "returned"}
  /\ UNCHANGED vars

Next ==
  \/ Start \/ OuterStop \/ Outer \/ Terminated
  \/ \E i \in Child : Decide(i) \/ Proceed(i)

Spec == Init /\ [][Next]_vars

\* What the stop token in the environment of a child says.
ToldToStop == stopSource

(***************************************************************************)
(* Fairness.  start(), request_stop and the code of when_all run to their  *)
(* end.  A child may take for ever, but not once it was asked to stop:     *)
(* then it completes somehow (that is what a stop request is for).  Nobody *)
(* has to ask the outer source to stop.                                    *)
(***************************************************************************)
Fairness ==
  /\ WF_vars(Start)
  /\ WF_vars(Outer)
  /\ \A i \in Index :
       /\ WF_vars(i \in Child /\ Proceed(i))
       /\ WF_vars(i \in Child /\ ToldToStop /\ Elsewhere(i))

FairSpec == Spec /\ Fairness

-----------------------------------------------------------------------------
(* Properties *)

OutsideTypeOK ==
  /\ token \in {"never", "inplace"}
  /\ onStop \in {"none", "member", "frame"}
  /\ outer \in {"idle", "body", "asking", "returned"}
  /\ listed \subseteq Index
  /\ nested \in 0..MaxChildren
  /\ undefined \in BOOLEAN

TypeOK ==
  /\ n \in 0..MaxChildren
  /\ can \in [Index -> SUBSET Signals]
  /\ state \in {"started", "error", "stopped"}
  /\ count \in 0..MaxChildren
  /\ stopSource \in BOOLEAN
  /\ errors \in [by : 0..MaxChildren, as : {"none", "error", "eptr"}]
  /\ values \subseteq Index
  /\ OutsideTypeOK
  /\ stage \in {"construct", "check", "loop", "abandoned"}
  /\ starter \in 1..(MaxChildren + 2)
  /\ pc \in [Index -> {"unstarted", "running", "exchange", "exchange_eptr", "ask",
                       "ask_eptr", "ask_stopped", "emplace", "emplace_eptr",
                       "arrive", "complete", "done"}]
  /\ signals \in Seq([sig : Signals, by : 0..MaxChildren, as : {"none", "error", "eptr"}])

NotArrived == {i \in Child : pc[i] \notin {"complete", "done"}}

\* _count_ counts the children that have not arrived, started or not, so the
\* barrier cannot open before start() has started the last of them.
CountIsNotArrived == count = Cardinality(NotArrived)

\* One child at most writes _errors_, whatever the order of the exchanges, and
\* from its exchange to its write it has not arrived.
OneErrorWriter ==
  \A i, j \in Child :
    /\ pc[i] \in {"ask", "ask_eptr", "emplace", "emplace_eptr"}
    /\ pc[j] \in {"ask", "ask_eptr", "emplace", "emplace_eptr"} \/ errors.by = j
    => i = j

\* When the receiver is about to be completed, what _complete reads is there:
\* an error that was written if it reads error, every value if it reads started.
CompleteReadsWhatWasWritten ==
  \A i \in Child : pc[i] = "complete" =>
    /\ state = "error" => errors # None
    /\ state = "started" => ~NoValues /\ values = Child

\* The receiver is completed once, and then neither start() nor any child will
\* touch the operation state, which the receiver may have destroyed: all children
\* are through, or none was started because stop had been requested.
NoAccessAfterCompletion ==
  /\ Len(signals) <= 1
  /\ signals # <<>> =>
       \/ stage = "loop" /\ starter > n /\ \A i \in Child : pc[i] = "done"
       \/ stage = "abandoned" /\ \A i \in Child : pc[i] = "unstarted"

\* "Stop callback is no longer needed. Destroy it." (_complete): once when_all
\* has completed its receiver, the outer source holds no callback of it.
CallbackGoneWhenCompleted == signals # <<>> => onStop = "none"

\* No stop request is lost between request_stop of the receiver's source and
\* start(): when that call has run the callback, or found that it is start() that
\* does, the children's source is asked to stop, until the receiver is completed.
\* One that was made before start() keeps start() from starting any child.
RequestNotLost ==
  ~undefined /\ outer \in {"asking", "returned"} /\ stage # "construct" /\ signals = <<>>
    => stopSource

\* A child that failed or stopped ends the operation, and so does a request to
\* stop that the receiver's token has made: it reaches the children.
StopEndsOperation ==
  \/ stopSource \/ state # "started"
  \/ token = "inplace" /\ stage = "loop" /\ outer # "idle"
  ~> signals # <<>>

\* when_all keeps the promise of Join.
\* winner: the child whose exchange replaced another state by error.
winner == {i \in Child : \/ pc[i] \in {"ask", "ask_eptr", "emplace", "emplace_eptr"}
                         \/ errors.by = i}
Verdict(sig, by) == [sig |-> sig, by |-> by]
ErrorOf(i) == Verdict("error", i)

verdictBar ==
  CASE state = "started" -> Verdict("value", 0)
    [] state = "stopped" -> Verdict("stopped", 0)
    [] OTHER -> ErrorOf(CHOOSE i \in winner : TRUE)

deliveredBar ==
  {Verdict(signals[k].sig, IF signals[k].sig = "error" THEN signals[k].by ELSE 0) :
     k \in 1..Len(signals)}

Promise == INSTANCE Join WITH
  Child <- Index, NoVerdict <- Verdict("value", 0),
  Stopped <- Verdict("stopped", 0), Error <- ErrorOf,
  stoppable <- token = "inplace", begun <- stage = "loop",
  pending <- IF stage = "abandoned" THEN {} ELSE NotArrived, verdict <- verdictBar, asked <- stopSource,
  delivered <- deliveredBar

ImplementsJoin == Promise!Spec

=============================================================================
