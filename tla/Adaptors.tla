------------------------------- MODULE Adaptors -------------------------------
(***************************************************************************)
(* A pipeline of sender adaptors around a leaf sender: continues_on,       *)
(* starts_on, sequence, let_value/let_error/let_stopped, then/upon_error/  *)
(* upon_stopped, conditional and write_env, ended by a receiver or by      *)
(* start_detached (continues_on.hpp, starts_on.hpp, sequence.hpp,          *)
(* let_value.hpp, then.hpp, conditional.hpp, write_env.hpp,                *)
(* start_detached.hpp; leaves: just.hpp, just_from.hpp, read_env.hpp).     *)
(*                                                                         *)
(* Stage i is an adaptor around the stages below it; stage 0 is the leaf,  *)
(* stage Depth + 1 is the receiver.  A call goes down when an operation is *)
(* started and comes up when it completes; between the two the pipeline    *)
(* waits for an operation that completes on some thread: the leaf, or a    *)
(* stage's other operation (the one of its scheduler, of the second sender *)
(* or of the sender that a function returned).  The contexts are numbers:  *)
(* 0 is the thread of start(), i the context of the scheduler of stage i.  *)
(* A scheduler sends its value there; its errors and stopped it may send   *)
(* from anywhere, inside start() as well, as run_loop does when it cannot  *)
(* lock its mutex (run_loop.hpp).                                          *)
(***************************************************************************)
EXTENDS Naturals, Sequences

CONSTANTS
  Depth,          \* the number of adaptors
  Kinds,          \* the adaptors the pipelines are made of
  Leaves,         \* the leaf senders the pipelines are made of
  Sends           \* the sets of signals other operations may declare

AllKinds == {"continues_on", "starts_on", "sequence", "conditional", "let_value",
             "let_error", "let_stopped", "then", "upon_error", "upon_stopped",
             "write_env"}

\* An error is "eptr" when it is an exception_ptr and "error" when it is not.
Signals == {"value", "error", "eptr", "stopped"}

\* The completion signatures of read_env, for a query that may throw, and of the
\* schedule sender of run_loop.
ReadEnvSends  == {"value", "eptr"}
ScheduleSends == {"value", "eptr", "stopped"}

\* Those of all leaf senders; "any" is a sender of the client's.
LeafSends ==
  [just |-> {"value"}, just_error |-> {"error"}, just_stopped |-> {"stopped"},
   read_env |-> ReadEnvSends, schedule |-> ScheduleSends, any |-> Signals]

\* Those that complete inside start(); the others may complete anywhere.
InlineLeaves == {"just", "just_error", "just_stopped", "read_env"}

ASSUME AdaptorsAssumption ==
  /\ Depth \in Nat
  /\ Kinds \subseteq AllKinds
  /\ Leaves \subseteq DOMAIN LeafSends
  /\ Sends \subseteq (SUBSET Signals) \ {{}}

Stage    == 1..Depth
Contexts == 0..Depth

VARIABLES
  kind,       \* the adaptor of each stage
  leafKind,   \* the leaf sender
  nothrow,    \* the stages whose function, or whose copies, are noexcept
  sends,      \* the signals that the other operation of each stage declares,
              \* and at 0 those of the leaf
  detached,   \* the pipeline ends in start_detached
  call,       \* the call in progress, or Idle
  other,      \* the stages whose other operation is started and has not completed
  leaf,       \* the leaf: idle, running or completed
  leafAt,     \* the context it was started on
  stored,     \* continues_on: the result it keeps, or "none"
  answer,     \* continues_on: what its scheduler completed with, or "none" (history)
  thrown,     \* continues_on: copying the result threw (history)
  signals,    \* what the receiver got, and on which context
  deletes     \* start_detached: how often the operation state was deleted

pipeline == <<kind, leafKind, nothrow, sends, detached>>
vars == <<pipeline, call, other, leaf, leafAt, stored, answer, thrown, signals, deletes>>

Idle == [dir |-> "idle", to |-> 0, sig |-> "none", ctx |-> 0]
Down(i, c)   == [dir |-> "start", to |-> i, sig |-> "none", ctx |-> c]
Up(i, s, c)  == [dir |-> "complete", to |-> i, sig |-> s, ctx |-> c]

Lets  == {"let_value", "let_error", "let_stopped"}
Upons == {"then", "upon_error", "upon_stopped"}

\* The adaptors that start another operation, and those that look at noexcept.
HasOther == {"continues_on", "starts_on", "sequence", "conditional"} \cup Lets
MayThrow == Upons \cup {"continues_on"}

Init ==
  /\ kind \in [Stage -> Kinds]
  /\ nothrow \in SUBSET {i \in Stage : kind[i] \in MayThrow}
  /\ leafKind \in Leaves
  /\ \E other_ \in [{i \in Stage : kind[i] \in HasOther} -> Sends] :
       sends = [i \in 0..Depth |-> IF i = 0 THEN LeafSends[leafKind]
                                   ELSE IF kind[i] \in HasOther THEN other_[i] ELSE {}]
  /\ detached \in BOOLEAN
  /\ call = Down(Depth, 0)
  /\ other = {}
  /\ leaf = "idle"
  /\ leafAt = 0
  /\ stored = [i \in Stage |-> "none"]
  /\ answer = [i \in Stage |-> "none"]
  /\ thrown = FALSE
  /\ signals = <<>>
  /\ deletes = 0

Calls(dir, i) == call.dir = dir /\ call.to = i

\* Start the other operation of stage i; the call that led here returns.
StartOther_missing(i) == call' = Idle /\ UNCHANGED other
StartOther_and_forward(i) == other' = other \cup {i} /\ call' = Up(i + 1, call.sig, call.ctx)
StartOther(i) ==
  /\ other' = other \cup {i}
  /\ call' = Idle

Forward(i, s) == call' = Up(i + 1, s, call.ctx)

-----------------------------------------------------------------------------
(* start                                                                    *)

StartsElsewhere_never(i) == FALSE
StartsElsewhere(i) == kind[i] = "starts_on"

\* starts_on: start the scheduler's operation; the others start the stage below.
Start(i) ==
  /\ Calls("start", i)
  /\ IF StartsElsewhere(i)
       THEN StartOther(i)
       ELSE call' = Down(i - 1, call.ctx) /\ UNCHANGED other
  /\ UNCHANGED <<pipeline, leaf, leafAt, stored, answer, thrown, signals, deletes>>

StartLeaf ==
  /\ Calls("start", 0)
  /\ leaf' = "running"
  /\ leafAt' = call.ctx
  /\ call' = Idle
  /\ UNCHANGED <<pipeline, other, stored, answer, thrown, signals, deletes>>

-----------------------------------------------------------------------------
(* An operation completes, on some context                                  *)

LeafCompletes(s, c) ==
  /\ call = Idle
  /\ s \in sends[0]
  /\ leaf = "running"
  /\ leafKind \in InlineLeaves => c = leafAt
  /\ leaf' = "completed"
  /\ call' = Up(1, s, c)
  /\ UNCHANGED <<pipeline, other, leafAt, stored, answer, thrown, signals, deletes>>

\* A scheduler runs what it accepted on its context.
ScheduledOn(i, s, c) == s = "value" => c = i

\* The scheduler of starts_on: with value, start the stages below.
ScheduledStart(i, s, c) ==
  /\ call = Idle
  /\ i \in other
  /\ s \in sends[i]
  /\ kind[i] = "starts_on"
  /\ ScheduledOn(i, s, c)
  /\ call' = IF s = "value" THEN Down(i - 1, c) ELSE Up(i + 1, s, c)
  /\ other' = other \ {i}
  /\ UNCHANGED <<pipeline, leaf, leafAt, stored, answer, thrown, signals, deletes>>

\* What continues_on sends when its scheduler completes with s: with value, the
\* result that was kept.
Delivered_always_kept(i, s) == stored[i]
Delivered(i, s) == IF s = "value" THEN stored[i] ELSE s

ScheduledComplete(i, s, c) ==
  /\ call = Idle
  /\ i \in other
  /\ s \in sends[i]
  /\ kind[i] = "continues_on"
  /\ ScheduledOn(i, s, c)
  /\ answer' = [answer EXCEPT ![i] = s]
  /\ call' = Up(i + 1, Delivered(i, s), c)
  /\ other' = other \ {i}
  /\ UNCHANGED <<pipeline, leaf, leafAt, stored, thrown, signals, deletes>>

\* The second sender of sequence, let or conditional, on any context.
SecondCompletes(i, s, c) ==
  /\ call = Idle
  /\ i \in other
  /\ s \in sends[i]
  /\ kind[i] \notin {"starts_on", "continues_on"}
  /\ call' = Up(i + 1, s, c)
  /\ other' = other \ {i}
  /\ UNCHANGED <<pipeline, leaf, leafAt, stored, answer, thrown, signals, deletes>>

-----------------------------------------------------------------------------
(* The receivers of the stages                                              *)

\* The signals a let or upon adaptor acts on.
Disposition ==
  [let_value |-> {"value"}, let_error |-> {"error", "eptr"}, let_stopped |-> {"stopped"},
   then |-> {"value"}, upon_error |-> {"error", "eptr"}, upon_stopped |-> {"stopped"}]

\* continues_on::_set_result: keep the result, whatever it is, start the
\* scheduler's operation.
KeepResult(i) ==
  /\ Calls("complete", i)
  /\ kind[i] = "continues_on"
  /\ stored' = [stored EXCEPT ![i] = call.sig]
  /\ StartOther(i)
  /\ UNCHANGED <<pipeline, leaf, leafAt, answer, thrown, signals, deletes>>

\* continues_on::_set_result: the copy throws (the variant is left valueless).
\* The receiver is sent the exception; then _complete_ is set for the signal
\* and the scheduler's operation is started all the same.
KeepResultThrows(i) ==
  /\ Calls("complete", i)
  /\ kind[i] = "continues_on"
  /\ i \notin nothrow
  /\ call.sig \in {"value", "error"}
  /\ Forward(i, "eptr")
  /\ other' = other \cup {i}
  /\ stored' = [stored EXCEPT ![i] = call.sig]
  /\ thrown' = TRUE
  /\ UNCHANGED <<pipeline, leaf, leafAt, answer, signals, deletes>>

\* starts_on and write_env connect the stages below to a reference to their own
\* receiver, with an environment added.
ToReferredReceiver(i) ==
  /\ Calls("complete", i)
  /\ kind[i] \in {"starts_on", "write_env"}
  /\ Forward(i, call.sig)
  /\ UNCHANGED <<pipeline, other, leaf, leafAt, stored, answer, thrown, signals, deletes>>

\* The others pass on what they do not act on.
PassThrough(i) ==
  /\ Calls("complete", i)
  /\ \/ kind[i] \in {"sequence", "conditional"} /\ call.sig # "value"
     \/ kind[i] \in Lets \cup Upons /\ call.sig \notin Disposition[kind[i]]
  /\ Forward(i, call.sig)
  /\ UNCHANGED <<pipeline, other, leaf, leafAt, stored, answer, thrown, signals, deletes>>

\* The first sender of a sequence sent values: start the second.  A let or a
\* conditional calls its function, connects what it returns and starts it.
StartSecond(i) ==
  /\ Calls("complete", i)
  /\ \/ kind[i] \in {"sequence", "conditional"} /\ call.sig = "value"
     \/ kind[i] \in Lets /\ call.sig \in Disposition[kind[i]]
  /\ StartOther(i)
  /\ UNCHANGED <<pipeline, leaf, leafAt, stored, answer, thrown, signals, deletes>>

\* ... or one of these throws, before anything was started.
SecondThrows(i) ==
  /\ Calls("complete", i)
  /\ \/ kind[i] = "conditional" /\ call.sig = "value"
     \/ kind[i] \in Lets /\ call.sig \in Disposition[kind[i]]
  /\ Forward(i, "eptr")
  /\ UNCHANGED <<pipeline, other, leaf, leafAt, stored, answer, thrown, signals, deletes>>

\* then, upon_error, upon_stopped: call the function, which may throw.
Upon(i) ==
  /\ Calls("complete", i)
  /\ kind[i] \in Upons
  /\ call.sig \in Disposition[kind[i]]
  /\ \/ Forward(i, "value")
     \/ i \notin nothrow /\ Forward(i, "eptr")
  /\ UNCHANGED <<pipeline, other, leaf, leafAt, stored, answer, thrown, signals, deletes>>

Deletes_always == detached
Deletes == detached /\ call.sig \notin {"error", "eptr"}

\* The end of the pipeline.  start_detached deletes the operation state, except
\* for an error, which terminates the program.
Receive ==
  /\ Calls("complete", Depth + 1)
  /\ signals' = Append(signals, [sig |-> call.sig, ctx |-> call.ctx])
  /\ deletes' = IF Deletes THEN deletes + 1 ELSE deletes
  /\ call' = Idle
  /\ UNCHANGED <<pipeline, other, leaf, leafAt, stored, answer, thrown>>

-----------------------------------------------------------------------------

Move(i) ==
  \/ Start(i) \/ KeepResult(i) \/ KeepResultThrows(i) \/ ToReferredReceiver(i)
  \/ PassThrough(i) \/ StartSecond(i) \/ SecondThrows(i) \/ Upon(i)

Completion ==
  \E s \in Signals, c \in Contexts :
    \/ LeafCompletes(s, c)
    \/ \E i \in Stage :
         \/ ScheduledStart(i, s, c) \/ ScheduledComplete(i, s, c) \/ SecondCompletes(i, s, c)

\* Nothing is in progress.
Quiet == call = Idle /\ other = {} /\ leaf # "running"
Ended == Quiet /\ UNCHANGED vars

Next ==
  \/ StartLeaf \/ Receive \/ Completion \/ Ended
  \/ \E i \in Stage : Move(i)

Spec == Init /\ [][Next]_vars

\* Calls return, and an operation that was started completes.
FairSpec ==
  /\ Spec
  /\ WF_vars(StartLeaf \/ Receive \/ \E i \in Stage : Move(i))
  /\ WF_vars(Completion)

-----------------------------------------------------------------------------
(* Properties *)

TypeOK ==
  /\ kind \in [Stage -> Kinds]
  /\ leafKind \in Leaves
  /\ nothrow \subseteq Stage
  /\ sends \in [0..Depth -> SUBSET Signals]
  /\ detached \in BOOLEAN
  /\ call \in [dir : {"idle", "start", "complete"}, to : 0..(Depth + 1),
               sig : Signals \cup {"none"}, ctx : Contexts]
  /\ other \subseteq Stage
  /\ leaf \in {"idle", "running", "completed"}
  /\ leafAt \in Contexts
  /\ stored \in [Stage -> Signals \cup {"none"}]
  /\ answer \in [Stage -> Signals \cup {"none"}]
  /\ thrown \in BOOLEAN
  /\ signals \in Seq([sig : Signals \cup {"none"}, ctx : Contexts])
  /\ deletes \in Nat

\* One thing at a time: a call, the leaf or one other operation is in progress,
\* never two of them, and nothing once the receiver was completed and may have
\* destroyed the operation states; unless continues_on failed to copy a result
\* (CopyFailureIsTheCompletion).
Busy == other \cup (IF leaf = "running" THEN {0} ELSE {})
OneInProgress ==
  ~thrown =>
    /\ \A i, j \in Busy : i = j
    /\ call # Idle => Busy = {}
    /\ signals # <<>> => Quiet

\* The receiver is completed once; start_detached deletes once or terminates.
CompletesOnce ==
  ~thrown =>
    /\ Len(signals) <= 1
    /\ detached /\ signals # <<>> => deletes = IF signals[1].sig \in {"error", "eptr"} THEN 0 ELSE 1

\* The stages after i are of these kinds only.
FollowedBy(i, kinds) == \A j \in Stage : j > i => kind[j] \in kinds

\* A result that continues_on kept is completed as its scheduler decides, however
\* the operations below it ended: after its value the receiver gets the result
\* that was kept, of whichever kind, on the scheduler's context; otherwise it
\* gets the scheduler's error or stopped, on any context, and not the result.
\* The stages after it may change nothing, or only the signal (then, upon_*).
ArrivesOnScheduler ==
  signals # <<>> /\ ~thrown =>
    \A i \in Stage : kind[i] = "continues_on" /\ stored[i] # "none" =>
      /\ FollowedBy(i, {"starts_on", "write_env"}) =>
           /\ answer[i] \in sends[i]
           /\ signals[1].sig = IF answer[i] = "value" THEN stored[i] ELSE answer[i]
      /\ FollowedBy(i, {"starts_on", "write_env"} \cup Upons) /\ answer[i] = "value" =>
           signals[1].ctx = i

\* The leaf of a pipeline is started on the scheduler of the innermost starts_on.
StartsOnScheduler ==
  leaf = "running" =>
    \A i \in Stage :
      kind[i] = "starts_on" /\ (\A j \in Stage : j < i => kind[j] # "starts_on")
      => leafAt = i

\* A pipeline that was started completes its receiver.
PipelineCompletes == <>(signals # <<>>)

\* If copying a result throws in continues_on, the exception is the completion.
CopyFailureIsTheCompletion ==
  thrown /\ Quiet => Len(signals) = 1 /\ signals[1].sig = "eptr"

=============================================================================
