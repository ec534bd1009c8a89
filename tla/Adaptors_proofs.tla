--------------------------- MODULE Adaptors_proofs ---------------------------
(***************************************************************************)
(* Proofs about Adaptors, for pipelines of any length, with any adaptors   *)
(* and signals.                                                            *)
(*                                                                         *)
(* Once is inductive by itself: every step but KeepResultThrows hands the  *)
(* one thing in progress on to the next one.  Where a signal arrives needs *)
(* more: from the moment that continues_on keeps a result, its scheduler's *)
(* operation is in progress, or the signal that the scheduler decided on   *)
(* is on its way up, or the receiver got it (Kept).  Where the leaf is     *)
(* started needs that a start that is on its way down runs on the context  *)
(* of the last starts_on it passed (Descends).                             *)
(*                                                                         *)
(* The completion signatures of Completions: a signal on its way up from a *)
(* stage is one of those that the stage declares.  The other operation of  *)
(* a stage was started because of a declared signal from below, or keeps   *)
(* one (Carries).  Declared is a recursive function; that it satisfies its *)
(* equation is proved by the least length for which no function would.     *)
(***************************************************************************)
EXTENDS Completions, WellFoundedInduction, TLAPS

\* What is in progress, and what the receiver got.
OneThing ==
  /\ other \subseteq Stage
  /\ \A i, j \in Busy : i = j
  /\ call # Idle => Busy = {}
  /\ signals # <<>> => Quiet

Received ==
  \/ signals = <<>> /\ deletes = 0
  \/ /\ signals # <<>> /\ Len(signals) = 1
     /\ detached => deletes = IF signals[1].sig \in {"error", "eptr"} THEN 0 ELSE 1

Once == thrown \/ (OneThing /\ Received)

\* A signal that passed through the continues_on of stage i, and then only
\* through stages that stay on its context.
Quietly == {"starts_on", "write_env"}
Keeps(i) ==
  /\ kind[i] = "continues_on" /\ stored[i] # "none"
  /\ FollowedBy(i, Quietly \cup Upons)

\* The signal sig on the context c is what the scheduler of stage i decided.
Right(i, sig, c) ==
  /\ answer[i] = "value" => c = i
  /\ FollowedBy(i, Quietly) =>
       /\ answer[i] \in sends[i]
       /\ sig = IF answer[i] = "value" THEN stored[i] ELSE answer[i]

OnItsWay(i) ==
  \/ i \in other
  \/ call.dir = "complete" /\ call.to > i /\ Right(i, call.sig, call.ctx)
  \/ signals # <<>> /\ Right(i, signals[1].sig, signals[1].ctx)

Kept ==
  /\ answer \in [Stage -> Signals \cup {"none"}]
  /\ thrown \/ \A i \in Stage : Keeps(i) => OnItsWay(i)

\* The stage i is the last starts_on above stage k.
LastAbove(i, k) ==
  /\ i > k
  /\ kind[i] = "starts_on"
  /\ \A j \in Stage : k < j /\ j < i => kind[j] # "starts_on"

Descends ==
  /\ call.dir = "start" => \A i \in Stage : LastAbove(i, call.to) => call.ctx = i
  /\ leaf = "running" => \A i \in Stage : LastAbove(i, 0) => leafAt = i

-----------------------------------------------------------------------------

\* A call in progress excludes everything else.
LEMMA CallAlone ==
  ASSUME Once, ~thrown, call.dir # "idle"
  PROVE  other = {} /\ leaf # "running" /\ signals = <<>> /\ deletes = 0
<1>1. call # Idle
  BY DEF Idle
<1> QED
  BY <1>1 DEF Once, OneThing, Received, Busy, Quiet

\* So does the other operation of a stage.
LEMMA OtherAlone ==
  ASSUME Once, ~thrown, NEW i \in Stage, i \in other
  PROVE  other = {i} /\ leaf # "running" /\ signals = <<>> /\ call = Idle /\ deletes = 0
<1>1. i # 0
  BY AdaptorsAssumption DEF Stage
<1> QED
  BY <1>1 DEF Once, OneThing, Received, Busy, Quiet

\* And the leaf.
LEMMA LeafAlone ==
  ASSUME Once, ~thrown, leaf = "running"
  PROVE  other = {} /\ signals = <<>> /\ call = Idle /\ deletes = 0
<1>1. 0 \in Busy /\ 0 \notin Stage
  BY AdaptorsAssumption DEF Busy, Stage
<1>2. other = {}
  BY <1>1 DEF Once, OneThing, Busy
<1> QED
  BY <1>1, <1>2 DEF Once, OneThing, Received, Quiet

-----------------------------------------------------------------------------
(* One thing in progress *)

\* The steps that start another operation, or pass a call on.
LEMMA HandOn ==
  ASSUME Once, ~thrown, call.dir # "idle", UNCHANGED <<leaf, thrown, signals, deletes>>,
         \/ UNCHANGED other
         \/ \E i \in Stage : other' = other \cup {i} /\ call' = Idle
  PROVE  Once'
<1>1. other = {} /\ leaf # "running" /\ signals = <<>> /\ deletes = 0
  BY CallAlone
<1>2. CASE UNCHANGED other
  BY <1>1, <1>2 DEF Once, OneThing, Received, Busy, Quiet
<1>3. ASSUME NEW i \in Stage, other' = other \cup {i}, call' = Idle PROVE Once'
  BY <1>1, <1>3 DEF Once, OneThing, Received, Busy, Quiet
<1> QED
  BY <1>2, <1>3

\* The steps that complete an operation.
LEMMA ComesUp ==
  ASSUME Once, ~thrown, UNCHANGED <<thrown, signals, deletes>>,
         \/ leaf = "running" /\ leaf' = "completed" /\ UNCHANGED other
         \/ UNCHANGED leaf /\ \E i \in Stage : i \in other /\ other' = other \ {i}
  PROVE  Once'
<1>1. CASE leaf = "running" /\ leaf' = "completed" /\ UNCHANGED other
  <2>1. other = {} /\ signals = <<>> /\ call = Idle /\ deletes = 0
    BY <1>1, LeafAlone
  <2> QED
    BY <1>1, <2>1 DEF Once, OneThing, Received, Busy, Quiet
<1>2. ASSUME UNCHANGED leaf, NEW i \in Stage, i \in other, other' = other \ {i} PROVE Once'
  <2>1. other = {i} /\ leaf # "running" /\ signals = <<>> /\ deletes = 0
    BY <1>2, OtherAlone
  <2>2. Busy' = {}
    BY <1>2, <2>1 DEF Busy
  <2> QED
    BY <1>2, <2>1, <2>2 DEF Once, OneThing, Received
<1> QED
  BY <1>1, <1>2

\* Every step preserves Once.
LEMMA NextOnce == Once /\ [Next]_vars => Once'
<1> SUFFICES ASSUME Once, [Next]_vars PROVE Once'
  OBVIOUS
<1>1. CASE thrown
  <2>1. thrown'
    BY <1>1 DEF Next, vars, Ended, StartLeaf, Receive, Completion, Move, LeafCompletes,
      ScheduledStart, ScheduledComplete, SecondCompletes, Start, KeepResult,
      KeepResultThrows, ToReferredReceiver, PassThrough, StartSecond, SecondThrows, Upon
  <2> QED
    BY <2>1 DEF Once
<1> SUFFICES ASSUME ~thrown PROVE Once'
  BY <1>1
<1>2. CASE UNCHANGED vars \/ Ended
  BY <1>2 DEF Once, OneThing, Received, Busy, Quiet, Ended, vars, pipeline
<1>3. CASE StartLeaf
  <2>1. other = {} /\ signals = <<>> /\ deletes = 0
    BY <1>3, CallAlone DEF StartLeaf, Calls
  <2> QED
    BY <1>3, <2>1 DEF StartLeaf, Once, OneThing, Received, Busy
<1>4. CASE Receive
  <2>1. other = {} /\ leaf # "running" /\ signals = <<>> /\ deletes = 0
    BY <1>4, CallAlone DEF Receive, Calls
  <2>2. signals' = <<[sig |-> call.sig, ctx |-> call.ctx]>>
    BY <1>4, <2>1 DEF Receive
  <2>3. signals' # <<>> /\ Len(signals') = 1 /\ signals'[1].sig = call.sig
    BY <2>2
  <2>4. detached' => deletes' = IF signals'[1].sig \in {"error", "eptr"} THEN 0 ELSE 1
    BY <1>4, <2>1, <2>3 DEF Receive, Deletes, pipeline
  <2> QED
    BY <1>4, <2>1, <2>3, <2>4 DEF Receive, Once, OneThing, Received, Busy, Quiet
<1>5. ASSUME NEW s \in Signals, NEW c \in Contexts, LeafCompletes(s, c) PROVE Once'
  BY <1>5, ComesUp DEF LeafCompletes
<1>6. ASSUME NEW s \in Signals, NEW i \in Stage,
             NEW c \in Contexts,
             ScheduledStart(i, s, c) \/ ScheduledComplete(i, s, c) \/ SecondCompletes(i, s, c)
      PROVE Once'
  BY <1>6, ComesUp DEF ScheduledStart, ScheduledComplete, SecondCompletes
<1>7. ASSUME NEW i \in Stage, Start(i) PROVE Once'
  BY <1>7, HandOn DEF Start, StartOther, Calls
<1>8. ASSUME NEW i \in Stage, KeepResult(i) \/ StartSecond(i) PROVE Once'
  BY <1>8, HandOn DEF KeepResult, StartSecond, StartOther, Calls
<1>9. ASSUME NEW i \in Stage, KeepResultThrows(i) PROVE Once'
  BY <1>9 DEF KeepResultThrows, Once
<1>10. ASSUME NEW i \in Stage,
              ToReferredReceiver(i) \/ PassThrough(i) \/ SecondThrows(i) \/ Upon(i)
       PROVE Once'
  BY <1>10, HandOn DEF ToReferredReceiver, PassThrough, SecondThrows, Upon, Calls
<1> QED
  BY <1>2, <1>3, <1>4, <1>5, <1>6, <1>7, <1>8, <1>9, <1>10 DEF Next, Completion, Move

-----------------------------------------------------------------------------
(* The context of the leaf *)

\* Every step preserves Descends.
LEMMA NextDescends == Descends /\ [Next]_vars => Descends'
<1> SUFFICES ASSUME Descends, [Next]_vars PROVE Descends'
  OBVIOUS
<1> USE AdaptorsAssumption DEF Descends, LastAbove, Stage
<1>1. CASE UNCHANGED vars \/ Ended
  BY <1>1 DEF Ended, vars, pipeline
<1>2. CASE StartLeaf
  BY <1>2 DEF StartLeaf, Calls, Idle, pipeline
<1>3. CASE Receive
  BY <1>3 DEF Receive, Idle, pipeline
<1>4. ASSUME NEW s \in Signals, NEW c \in Contexts, LeafCompletes(s, c) PROVE Descends'
  BY <1>4 DEF LeafCompletes, Up, pipeline
<1>5. ASSUME NEW s \in Signals, NEW i \in Stage, NEW c \in Contexts,
             ScheduledStart(i, s, c)
      PROVE Descends'
  <2>1. UNCHANGED <<kind, leaf, leafAt>> /\ kind[i] = "starts_on"
    BY <1>5 DEF ScheduledStart, pipeline
  <2>2. CASE s = "value" /\ call' = Down(i - 1, i)
    BY <2>1, <2>2 DEF Down
  <2>3. CASE call' = Up(i + 1, s, c)
    BY <2>1, <2>3 DEF Up
  <2> QED
    BY <1>5, <2>2, <2>3 DEF ScheduledStart, ScheduledOn
<1>6. ASSUME NEW s \in Signals, NEW i \in Stage,
             NEW c \in Contexts, ScheduledComplete(i, s, c) \/ SecondCompletes(i, s, c)
      PROVE Descends'
  BY <1>6 DEF ScheduledComplete, SecondCompletes, Up, pipeline
<1>7. ASSUME NEW i \in Stage, Start(i) PROVE Descends'
  <2>1. UNCHANGED <<kind, leaf, leafAt>> /\ call.dir = "start" /\ call.to = i
    BY <1>7 DEF Start, Calls, pipeline
  <2>2. CASE kind[i] = "starts_on"
    BY <1>7, <2>1, <2>2 DEF Start, StartsElsewhere, StartOther, Idle
  <2>3. CASE kind[i] # "starts_on"
    BY <1>7, <2>1, <2>3 DEF Start, StartsElsewhere, Down
  <2> QED
    BY <2>2, <2>3
<1>8. ASSUME NEW i \in Stage, KeepResult(i) \/ StartSecond(i) PROVE Descends'
  BY <1>8 DEF KeepResult, StartSecond, StartOther, Idle, pipeline
<1>9. ASSUME NEW i \in Stage,
             \/ KeepResultThrows(i) \/ ToReferredReceiver(i) \/ PassThrough(i)
             \/ SecondThrows(i) \/ Upon(i)
      PROVE Descends'
  BY <1>9 DEF KeepResultThrows, ToReferredReceiver, PassThrough, SecondThrows, Upon,
    Forward, Up, pipeline
<1> QED
  BY <1>1, <1>2, <1>3, <1>4, <1>5, <1>6, <1>7, <1>8, <1>9 DEF Next, Completion, Move

\* A call is made to some stage.
CallInRange == call.to \in 0..(Depth + 1)

\* Every step preserves CallInRange.
LEMMA NextCallInRange == CallInRange /\ [Next]_vars => CallInRange'
<1> SUFFICES ASSUME CallInRange, [Next]_vars PROVE CallInRange'
  OBVIOUS
<1> USE AdaptorsAssumption DEF CallInRange, Stage
<1>1. CASE UNCHANGED vars \/ Ended
  BY <1>1 DEF Ended, vars
<1>2. CASE StartLeaf \/ Receive
  BY <1>2 DEF StartLeaf, Receive, Idle
<1>3. ASSUME NEW s \in Signals, NEW c \in Contexts, LeafCompletes(s, c) PROVE CallInRange'
  BY <1>3 DEF LeafCompletes, Up
<1>4. ASSUME NEW s \in Signals, NEW i \in Stage,
             NEW c \in Contexts,
             ScheduledStart(i, s, c) \/ ScheduledComplete(i, s, c) \/ SecondCompletes(i, s, c)
      PROVE CallInRange'
  BY <1>4 DEF ScheduledStart, ScheduledComplete, SecondCompletes, Up, Down
<1>5. ASSUME NEW i \in Stage, Move(i) PROVE CallInRange'
  BY <1>5 DEF Move, Start, KeepResult, KeepResultThrows, ToReferredReceiver, PassThrough,
    StartSecond, SecondThrows, Upon, StartOther, Forward, Up, Down, Idle
<1> QED
  BY <1>1, <1>2, <1>3, <1>4, <1>5 DEF Next, Completion

-----------------------------------------------------------------------------
(* What the receiver gets, and on which context *)

\* Every step preserves the type of answer.
LEMMA NextAnswer ==
  ASSUME answer \in [Stage -> Signals \cup {"none"}], [Next]_vars
  PROVE  answer' \in [Stage -> Signals \cup {"none"}]
<1>1. ASSUME NEW s \in Signals, NEW i \in Stage, NEW c \in Contexts, ScheduledComplete(i, s, c)
      PROVE  answer' \in [Stage -> Signals \cup {"none"}]
  BY <1>1 DEF ScheduledComplete
<1>2. CASE UNCHANGED answer
  BY <1>2
<1> QED
  BY <1>1, <1>2 DEF Next, vars, Ended, StartLeaf, Receive, Completion, Move, LeafCompletes,
    ScheduledStart, SecondCompletes, Start, KeepResult, KeepResultThrows,
    ToReferredReceiver, PassThrough, StartSecond, SecondThrows, Upon

\* Every step preserves Kept.
LEMMA NextKept == Once /\ CallInRange /\ Kept /\ [Next]_vars => Kept'
<1> SUFFICES ASSUME Once, CallInRange, Kept, [Next]_vars PROVE Kept'
  OBVIOUS
<1>a. answer \in [Stage -> Signals \cup {"none"}] /\ answer' \in [Stage -> Signals \cup {"none"}]
  BY NextAnswer DEF Kept
<1>t. thrown => thrown'
  BY DEF Next, vars, Ended, StartLeaf, Receive, Completion, Move, LeafCompletes,
    ScheduledStart, ScheduledComplete, SecondCompletes, Start, KeepResult,
    KeepResultThrows, ToReferredReceiver, PassThrough, StartSecond, SecondThrows, Upon
<1> SUFFICES ASSUME ~thrown, ~thrown', NEW k \in Stage, Keeps(k)'
             PROVE  OnItsWay(k)'
  BY <1>a, <1>t DEF Kept, Stage
<1> USE AdaptorsAssumption DEF Stage
<1>0. Keeps(k) => OnItsWay(k)
  BY DEF Kept
\* The decision of the scheduler is not changed after it was made.
<1>r. ASSUME UNCHANGED <<pipeline, stored, answer>>, NEW sig, NEW c
      PROVE  /\ Keeps(k)
             /\ Right(k, sig, c) => Right(k, sig, c)'
  BY <1>r DEF pipeline, Keeps, Right, FollowedBy
<1>1. CASE UNCHANGED vars \/ Ended
  BY <1>0, <1>1 DEF Ended, vars, pipeline, Keeps, OnItsWay, Right, FollowedBy
<1>2. CASE StartLeaf
  <2>1. other = {} /\ signals = <<>> /\ Keeps(k)
    BY <1>2, <1>r, CallAlone DEF StartLeaf, Calls
  <2> QED
    BY <1>0, <1>2, <2>1 DEF StartLeaf, Calls, OnItsWay
<1>3. CASE Receive
  <2>1. other = {} /\ signals = <<>> /\ Keeps(k)
    BY <1>3, <1>r, CallAlone DEF Receive, Calls
  <2>2. Right(k, call.sig, call.ctx)
    BY <1>0, <2>1 DEF OnItsWay
  <2>3. signals' = <<[sig |-> call.sig, ctx |-> call.ctx]>>
    BY <1>3, <2>1 DEF Receive
  <2>4. signals' # <<>> /\ signals'[1].sig = call.sig /\ signals'[1].ctx = call.ctx
    BY <2>3
  <2>5. Right(k, signals[1].sig, signals[1].ctx)'
    BY <1>3, <2>2, <2>4 DEF Receive, pipeline, Right, FollowedBy
  <2> QED
    BY <2>4, <2>5 DEF OnItsWay
<1>4. ASSUME NEW s \in Signals, NEW c \in Contexts, LeafCompletes(s, c) PROVE OnItsWay(k)'
  <2>1. other = {} /\ signals = <<>> /\ call = Idle /\ Keeps(k)
    BY <1>4, <1>r, LeafAlone DEF LeafCompletes
  <2> QED
    BY <1>0, <2>1 DEF OnItsWay, Idle
<1>5. ASSUME NEW s \in Signals, NEW i \in Stage, i \in other, call = Idle,
             kind[i] # "continues_on", UNCHANGED <<pipeline, stored, answer>>
      PROVE OnItsWay(k)'
  <2>1. other = {i} /\ signals = <<>>
    BY <1>5, OtherAlone
  <2>2. Keeps(k)
    BY <1>5, <1>r
  <2> QED
    BY <1>0, <1>5, <2>1, <2>2 DEF OnItsWay, Idle, Keeps
<1>6. ASSUME NEW s \in Signals, NEW i \in Stage, NEW c \in Contexts, ScheduledComplete(i, s, c)
      PROVE OnItsWay(k)'
  <2>1. other = {i} /\ signals = <<>> /\ call = Idle
    BY <1>6, OtherAlone DEF ScheduledComplete
  <2>2. Keeps(k)
    BY <1>6 DEF ScheduledComplete, Keeps, FollowedBy, pipeline
  <2>3. k = i
    BY <1>0, <2>1, <2>2 DEF OnItsWay, Idle
  <2>4. /\ answer'[k] = s /\ s \in sends'[k] /\ (s = "value" => c = k)
        /\ UNCHANGED stored
        /\ call' = Up(k + 1, Delivered(k, s), c)
    BY <1>6, <1>a, <2>3 DEF ScheduledComplete, ScheduledOn, pipeline
  <2>5. /\ call'.dir = "complete" /\ call'.to > k /\ call'.ctx = c
        /\ call'.sig = IF s = "value" THEN stored[k] ELSE s
    BY <2>4 DEF Up, Delivered
  <2>6. Right(k, call.sig, call.ctx)'
    BY <2>4, <2>5 DEF Right
  <2> QED
    BY <2>5, <2>6 DEF OnItsWay
<1>7. ASSUME NEW i \in Stage, Start(i) PROVE OnItsWay(k)'
  <2>1. other = {} /\ signals = <<>> /\ Keeps(k)
    BY <1>7, <1>r, CallAlone DEF Start, Calls
  <2> QED
    BY <1>0, <1>7, <2>1 DEF OnItsWay, Start, Calls
<1>8. ASSUME NEW i \in Stage, KeepResult(i) PROVE OnItsWay(k)'
  <2>1. other = {} /\ signals = <<>> /\ call.to = i /\ kind[i] = "continues_on"
    BY <1>8, CallAlone DEF KeepResult, Calls
  <2>2. CASE k = i
    BY <1>8, <2>2 DEF KeepResult, StartOther, OnItsWay
  <2>3. CASE k # i
    <3>1. Keeps(k)
      BY <1>8, <2>3 DEF KeepResult, Keeps, FollowedBy, pipeline
    <3>2. ~(i > k)
      BY <2>1, <3>1 DEF Keeps, FollowedBy, Quietly, Upons
    <3> QED
      BY <1>0, <2>1, <3>1, <3>2 DEF OnItsWay
  <2> QED
    BY <2>2, <2>3
<1>9. ASSUME NEW i \in Stage, Calls("complete", i), UNCHANGED <<pipeline, stored, answer>>,
             \/ ~(kind[i] \in Quietly \cup Upons)
             \/ Forward(i, call.sig)
             \/ kind[i] \in Upons /\ \E s : Forward(i, s)
      PROVE OnItsWay(k)'
  <2>1. other = {} /\ signals = <<>> /\ call.to = i
    BY <1>9, CallAlone DEF Calls
  <2>2. Keeps(k)
    BY <1>9, <1>r
  <2>3. i > k /\ Right(k, call.sig, call.ctx)
    BY <1>0, <2>1, <2>2 DEF OnItsWay
  <2>4. kind[i] \in Quietly \cup Upons
    BY <2>2, <2>3 DEF Keeps, FollowedBy
  <2>5. PICK s : Forward(i, s) /\ (s = call.sig \/ kind[i] \in Upons)
    BY <1>9, <2>4
  <2>6. Right(k, s, call.ctx)
    BY <2>3, <2>5 DEF Right, FollowedBy, Quietly, Upons
  <2>7. call'.dir = "complete" /\ call'.to > k /\ call'.sig = s /\ call'.ctx = call.ctx
    BY <2>3, <2>5 DEF Forward, Up
  <2>8. Right(k, call.sig, call.ctx)'
    BY <1>9, <2>6, <2>7 DEF Right, FollowedBy, pipeline
  <2> QED
    BY <2>7, <2>8 DEF OnItsWay
<1>10. ASSUME NEW i \in Stage,
              \/ ToReferredReceiver(i) \/ PassThrough(i) \/ StartSecond(i)
              \/ SecondThrows(i) \/ Upon(i)
       PROVE OnItsWay(k)'
  <2>1. Calls("complete", i) /\ UNCHANGED <<pipeline, stored, answer>>
    BY <1>10 DEF ToReferredReceiver, PassThrough, StartSecond, SecondThrows, Upon
  <2>2. CASE ToReferredReceiver(i) \/ PassThrough(i) \/ Upon(i)
    BY <1>9, <2>1, <2>2 DEF ToReferredReceiver, PassThrough, Upon
  <2>3. CASE StartSecond(i) \/ SecondThrows(i)
    BY <1>9, <2>1, <2>3 DEF StartSecond, SecondThrows, Lets, Upons, Quietly
  <2> QED
    BY <1>10, <2>2, <2>3
<1>11. ASSUME NEW s \in Signals, NEW i \in Stage, NEW c \in Contexts,
              ScheduledStart(i, s, c) \/ SecondCompletes(i, s, c)
       PROVE OnItsWay(k)'
  BY <1>5, <1>11 DEF ScheduledStart, SecondCompletes
<1>12. ASSUME NEW i \in Stage, KeepResultThrows(i) PROVE OnItsWay(k)'
  BY <1>12 DEF KeepResultThrows
<1> QED
  BY <1>1, <1>2, <1>3, <1>4, <1>6, <1>7, <1>8, <1>10, <1>11, <1>12
     DEF Next, Completion, Move

-----------------------------------------------------------------------------

IInv == Once /\ CallInRange /\ Descends /\ Kept

\* IInv is inductive.
THEOREM Invariance == Spec => []IInv
<1>1. Init => IInv
  <2> SUFFICES ASSUME Init PROVE IInv
    OBVIOUS
  <2> USE AdaptorsAssumption DEF Init
  <2>1. Once
    BY DEF Once, OneThing, Received, Busy, Down, Idle
  <2>2. CallInRange /\ Descends
    BY DEF CallInRange, Descends, LastAbove, Down, Stage
  <2>3. Kept
    <3>1. answer \in [Stage -> Signals \cup {"none"}]
      OBVIOUS
    <3> QED
      BY <3>1 DEF Kept, Keeps
  <2> QED
    BY <2>1, <2>2, <2>3 DEF IInv
<1>2. IInv /\ [Next]_vars => IInv'
  BY NextOnce, NextCallInRange, NextDescends, NextKept DEF IInv
<1> QED
  BY <1>1, <1>2, PTL DEF Spec

\* One call, leaf or other operation is in progress at a time, and none once the
\* receiver was completed, in every pipeline whose copies do not throw.
THEOREM OneAtATime == Spec => []OneInProgress
<1>1. IInv => OneInProgress
  BY DEF IInv, Once, OneThing, OneInProgress
<1> QED
  BY <1>1, Invariance, PTL

\* The receiver is completed once, and start_detached deletes once or terminates.
THEOREM CompletedOnce == Spec => []CompletesOnce
<1>1. IInv => CompletesOnce
  <2> SUFFICES ASSUME IInv, ~thrown
               PROVE  /\ Len(signals) <= 1
                      /\ detached /\ signals # <<>> =>
                           deletes = IF signals[1].sig \in {"error", "eptr"} THEN 0 ELSE 1
    BY DEF CompletesOnce
  <2>1. CASE signals = <<>>
    BY <2>1
  <2>2. CASE signals # <<>>
    <3>1. /\ Len(signals) = 1
          /\ detached => deletes = IF signals[1].sig \in {"error", "eptr"} THEN 0 ELSE 1
      BY <2>2 DEF IInv, Once, Received
    <3>2. Len(signals) \in 0..1
      BY <3>1
    <3> QED
      BY <3>1, <3>2
  <2> QED
    BY <2>1, <2>2
<1> QED
  BY <1>1, Invariance, PTL

\* What passed through continues_on arrives as its scheduler decided.
THEOREM Arrives == Spec => []ArrivesOnScheduler
<1>1. IInv => ArrivesOnScheduler
  <2> SUFFICES ASSUME IInv, signals # <<>>, ~thrown, NEW i \in Stage,
                      kind[i] = "continues_on", stored[i] # "none",
                      FollowedBy(i, Quietly \cup Upons)
               PROVE  Right(i, signals[1].sig, signals[1].ctx)
    BY DEF ArrivesOnScheduler, Right, FollowedBy, Quietly
  <2>1. call = Idle /\ other = {}
    BY DEF IInv, Once, OneThing, Quiet
  <2>2. OnItsWay(i)
    BY DEF IInv, Kept, Keeps
  <2> QED
    BY <2>1, <2>2 DEF OnItsWay, Idle
<1> QED
  BY <1>1, Invariance, PTL

\* The leaf runs where the innermost starts_on says.
THEOREM StartsThere == Spec => []StartsOnScheduler
<1>1. IInv => StartsOnScheduler
  BY AdaptorsAssumption DEF IInv, Descends, LastAbove, StartsOnScheduler, Stage
<1> QED
  BY <1>1, Invariance, PTL

-----------------------------------------------------------------------------
(* The completion signatures *)

\* A set of natural numbers has a least one.
LEMMA LeastNumber ==
  ASSUME NEW T, T \subseteq Nat, T # {}
  PROVE  \E m \in T : \A k \in T : ~(k < m)
<1> DEFINE R == {ss \in Nat \X Nat : ss[1] < ss[2]}
<1>1. IsWellFoundedOn(R, Nat)
  BY NatLessThanWellFounded DEF OpToRel
<1>2. PICK m \in T : \A k \in T : ~(<<k, m>> \in R)
  <2> HIDE DEF R
  <2> QED
    BY <1>1, WFMin
<1> QED
  BY <1>2

\* What the sender of stage i declares, when the one below it declares `below`,
\* in a pipeline of the kinds k whose other operations declare o.
Declares(i, below, k, o, noThrow) ==
  CASE k[i] = "continues_on" -> ContinuesOn(below, o[i], i \in noThrow)
    [] k[i] = "starts_on"    -> StartsOn(below, o[i])
    [] k[i] = "sequence"     -> Sequence(below, o[i])
    [] k[i] = "conditional"  -> Conditional(below, o[i])
    [] k[i] \in Lets         -> Let(below, Disposition[k[i]], o[i])
    [] k[i] \in Upons        -> UponSends(below, Disposition[k[i]], i \in noThrow)
    [] k[i] = "write_env"    -> WriteEnv(below)

\* All the senders of such a pipeline.
DeclaredIn(k, o, noThrow) ==
  CHOOSE f : f = [i \in 0..Depth |-> IF i = 0 THEN o[0] ELSE Declares(i, f[i - 1], k, o, noThrow)]

\* Declared depends on the pipeline only,
LEMMA DeclaredOfPipeline ==
  /\ Declared = DeclaredIn(kind, sends, nothrow)
  /\ Declared' = DeclaredIn(kind', sends', nothrow')
BY DEF Declared, DeclaredIn, Declares

\* Each stage declares what follows from the stage below.
LEMMA DeclaredStep ==
  ASSUME NEW k, NEW o, NEW noThrow
  PROVE  LET D == DeclaredIn(k, o, noThrow) IN
         /\ D[0] = o[0]
         /\ \A i \in Stage : D[i] = Declares(i, D[i - 1], k, o, noThrow)
<1> DEFINE Upto(f, m) == \A i \in 0..m : f[i] = IF i = 0 THEN o[0]
                                                ELSE Declares(i, f[i - 1], k, o, noThrow)
           Body(f) == [i \in 0..Depth |-> IF i = 0 THEN o[0]
                                          ELSE Declares(i, f[i - 1], k, o, noThrow)]
           D == DeclaredIn(k, o, noThrow)
           T == {m \in Nat : ~ \E f : Upto(f, m)}
<1>1. T = {}
  <2> SUFFICES ASSUME T # {} PROVE FALSE
    OBVIOUS
  <2>1. PICK m \in T : \A j \in T : ~(j < m)
    <3> HIDE DEF T
    <3>1. T \subseteq Nat
      BY DEF T
    <3> QED
      BY <3>1, LeastNumber
  <2>2. CASE m = 0
    <3> DEFINE f == [i \in {0} |-> o[0]]
    <3>1. Upto(f, m)
      BY <2>2
    <3> QED
      BY <3>1
  <2>3. CASE m # 0
    <3>1. m \in Nat /\ m - 1 \in Nat /\ m - 1 < m
      BY <2>3
    <3>2. PICK f : Upto(f, m - 1)
      BY <2>1, <3>1
    <3> DEFINE g == [i \in 0..m |-> IF i = m THEN Declares(m, f[m - 1], k, o, noThrow) ELSE f[i]]
    <3>3. \A i \in 0..m : i # m => i \in 0..(m - 1)
      BY <3>1
    <3>4. \A i \in 0..m : i # 0 => i - 1 \in 0..m /\ i - 1 # m
      BY <3>1
    <3>5. ASSUME NEW i \in 0..m
          PROVE  g[i] = IF i = 0 THEN o[0] ELSE Declares(i, g[i - 1], k, o, noThrow)
      <4>1. CASE i = m
        BY <2>3, <3>4, <4>1
      <4>2. CASE i # m
        BY <3>2, <3>3, <3>4, <4>2
      <4> QED
        BY <4>1, <4>2
    <3>6. Upto(g, m)
      BY <3>5
    <3> QED
      BY <3>6
  <2> QED
    BY <2>2, <2>3
<1>2. PICK f : Upto(f, Depth)
  BY <1>1, AdaptorsAssumption
<1> DEFINE g == [i \in 0..Depth |-> f[i]]
<1>3. \A i \in 0..Depth : i # 0 => i - 1 \in 0..Depth
  BY AdaptorsAssumption
<1>4. g = Body(g)
  BY <1>2, <1>3
<1>5. D = Body(D)
  <2>1. \E h : h = Body(h)
    <3> HIDE DEF g
    <3> QED
      BY <1>4
  <2> QED
    BY <2>1 DEF DeclaredIn
<1> HIDE DEF D
<1>6. D[0] = o[0]
  BY <1>5, AdaptorsAssumption
<1>7. \A i \in Stage : D[i] = Declares(i, D[i - 1], k, o, noThrow)
  BY <1>5, AdaptorsAssumption DEF Stage
<1> QED
  BY <1>6, <1>7 DEF D

\* The CASE, one kind at a time.
LEMMA DeclaresIs ==
  ASSUME NEW i, NEW below, NEW k, NEW o, NEW noThrow
  PROVE  LET d == Declares(i, below, k, o, noThrow) IN
         /\ k[i] = "continues_on" => d = ContinuesOn(below, o[i], i \in noThrow)
         /\ k[i] = "starts_on" => d = StartsOn(below, o[i])
         /\ k[i] = "sequence" => d = Sequence(below, o[i])
         /\ k[i] = "conditional" => d = Conditional(below, o[i])
         /\ k[i] \in Lets => d = Let(below, Disposition[k[i]], o[i])
         /\ k[i] \in Upons => d = UponSends(below, Disposition[k[i]], i \in noThrow)
         /\ k[i] = "write_env" => d = WriteEnv(below)
BY DEF Declares, Lets, Upons

\* A transformation adds what the function gives for each signature.
LEMMA Transforms ==
  ASSUME NEW sigs, NEW fn, NEW extra
  PROVE  \A s \in sigs : fn[s] \subseteq Transform(sigs, fn, extra)
BY DEF Transform, Concat

\* A replacement, signal by signal.
LEMMA Replaces ==
  ASSUME NEW acts, NEW by, NEW s \in Signals
  PROVE  Replace(acts, by)[s] = IF s \in acts THEN by ELSE {s}
BY DEF Replace

\* Everything but the values is kept.
LEMMA Swallows ==
  ASSUME NEW sigs, NEW s \in Signals, s \in sigs, s # "value"
  PROVE  s \in SwallowValues(sigs)
<1> DEFINE fn == Replace({"value"}, {})
<1>1. fn[s] = {s}
  BY DEF Replace
<1>2. fn[s] \subseteq Transform(sigs, fn, {})
  BY Transforms
<1> QED
  BY <1>1, <1>2 DEF SwallowValues

\* What a stage declares because of a signal from below.
LEMMA FromBelow ==
  ASSUME NEW i, NEW below, NEW k, NEW o, NEW noThrow, NEW s \in Signals, s \in below
  PROVE  LET d == Declares(i, below, k, o, noThrow) IN
         /\ k[i] = "continues_on" =>
              s \in d /\ (i \notin noThrow /\ s \in {"value", "error"} => "eptr" \in d)
         /\ k[i] \in {"starts_on", "write_env"} => s \in d
         /\ k[i] \in {"sequence", "conditional"} /\ s # "value" => s \in d
         /\ k[i] \in Lets \cup Upons /\ s \notin Disposition[k[i]] => s \in d
         /\ k[i] = "conditional" /\ s = "value" => "eptr" \in d /\ o[i] \subseteq d
         /\ k[i] \in Lets /\ s \in Disposition[k[i]] => "eptr" \in d /\ o[i] \subseteq d
         /\ k[i] \in Upons /\ s \in Disposition[k[i]] =>
              "value" \in d /\ (i \notin noThrow => "eptr" \in d)
<1> DEFINE d == Declares(i, below, k, o, noThrow)
<1>1. ASSUME k[i] = "continues_on"
      PROVE  s \in d /\ (i \notin noThrow /\ s \in {"value", "error"} => "eptr" \in d)
  <2> DEFINE fn == DecayArgs(i \in noThrow)
  <2>1. s \in fn[s] /\ (i \notin noThrow /\ s \in {"value", "error"} => "eptr" \in fn[s])
    BY DEF DecayArgs, EptrIf, Eptr
  <2>2. fn[s] \subseteq Transform(below, fn, {})
    BY Transforms
  <2>3. Transform(below, fn, {}) \subseteq d
    BY <1>1, DeclaresIs DEF ContinuesOn, Concat
  <2> QED
    BY <2>1, <2>2, <2>3
<1>2. k[i] \in {"starts_on", "write_env"} => s \in d
  BY DeclaresIs DEF StartsOn, WriteEnv, Concat
<1>3. k[i] = "sequence" /\ s # "value" => s \in d
  BY DeclaresIs, Swallows DEF Sequence, Concat
<1>4. ASSUME k[i] = "conditional"
      PROVE  /\ s # "value" => s \in d
             /\ s = "value" => "eptr" \in d /\ o[i] \subseteq d
  <2> DEFINE fn == EitherSigs(o[i])
  <2>1. fn[s] = IF s = "value" THEN o[i] ELSE {s}
    BY Replaces DEF EitherSigs
  <2>2. fn[s] \subseteq Transform(below, fn, {})
    BY Transforms
  <2>3. Transform(below, fn, {}) \subseteq d /\ "eptr" \in d
    BY <1>4, DeclaresIs DEF Conditional, Concat, Eptr
  <2> QED
    BY <2>1, <2>2, <2>3
<1>5. ASSUME k[i] \in Lets
      PROVE  /\ s \notin Disposition[k[i]] => s \in d
             /\ s \in Disposition[k[i]] => "eptr" \in d /\ o[i] \subseteq d
  <2> DEFINE fn == LetArgs(Disposition[k[i]], o[i])
  <2>1. fn[s] = IF s \in Disposition[k[i]] THEN o[i] \cup Eptr ELSE {s}
    BY Replaces DEF LetArgs, Concat
  <2>2. fn[s] \subseteq Transform(below, fn, {})
    BY Transforms
  <2>3. Transform(below, fn, {}) = d
    BY <1>5, DeclaresIs DEF Let
  <2> QED
    BY <2>1, <2>2, <2>3 DEF Eptr
<1>6. ASSUME k[i] \in Upons
      PROVE  /\ s \notin Disposition[k[i]] => s \in d
             /\ s \in Disposition[k[i]] =>
                  "value" \in d /\ (i \notin noThrow => "eptr" \in d)
  <2> DEFINE fn == Replace(Disposition[k[i]], UponArgs(i \in noThrow))
  <2>1. fn[s] = IF s \in Disposition[k[i]] THEN UponArgs(i \in noThrow) ELSE {s}
    BY Replaces
  <2>2. fn[s] \subseteq Transform(below, fn, {})
    BY Transforms
  <2>3. Transform(below, fn, {}) = d
    BY <1>6, DeclaresIs DEF UponSends
  <2>4. /\ "value" \in UponArgs(i \in noThrow)
        /\ i \notin noThrow => "eptr" \in UponArgs(i \in noThrow)
    BY DEF UponArgs, EptrIf, Eptr
  <2> QED
    BY <2>1, <2>2, <2>3, <2>4
<1> HIDE DEF d
<1> QED
  BY <1>1, <1>2, <1>3, <1>4, <1>5, <1>6 DEF d

\* What a stage declares because its other operation may send it.
LEMMA FromOther ==
  ASSUME NEW i, NEW below, NEW k, NEW o, NEW noThrow, NEW s \in Signals, s \in o[i]
  PROVE  LET d == Declares(i, below, k, o, noThrow) IN
         /\ k[i] = "sequence" => s \in d
         /\ k[i] \in {"continues_on", "starts_on"} /\ s # "value" => s \in d
<1>1. k[i] = "sequence" => s \in Declares(i, below, k, o, noThrow)
  BY DeclaresIs DEF Sequence, Concat
<1>2. k[i] = "continues_on" /\ s # "value" => s \in Declares(i, below, k, o, noThrow)
  BY DeclaresIs, Swallows DEF ContinuesOn, Concat
<1>3. k[i] = "starts_on" /\ s # "value" => s \in Declares(i, below, k, o, noThrow)
  BY DeclaresIs, Swallows DEF StartsOn, Concat
<1> QED
  BY <1>1, <1>2, <1>3

\* The signatures of a pipeline.
LEMMA DeclaredFollows ==
  /\ Declared[0] = sends[0]
  /\ \A i \in Stage : Declared[i] = Declares(i, Declared[i - 1], kind, sends, nothrow)
BY DeclaredStep, DeclaredOfPipeline

\* which no step changes.
LEMMA DeclaredStays == UNCHANGED pipeline => Declared' = Declared
BY DeclaredOfPipeline DEF pipeline

\* A signal on its way up is declared by the stage it comes from; an other operation
\* was started because of a declared signal, or keeps one.
Expects(i) ==
  /\ i \in Stage /\ kind[i] \in HasOther
  /\ kind[i] = "continues_on" => stored[i] \in Signals /\ stored[i] \in Declared[i - 1]
  /\ kind[i] = "conditional" => "value" \in Declared[i - 1]
  /\ kind[i] \in Lets => \E s \in Disposition[kind[i]] : s \in Declared[i - 1]

Carries ==
  /\ kind \in [Stage -> AllKinds]
  /\ stored \in [Stage -> Signals \cup {"none"}]
  /\ call.dir = "complete" =>
       call.to \in 1..(Depth + 1) /\ call.sig \in Signals /\ call.sig \in Declared[call.to - 1]
  /\ \A i \in other : Expects(i)

\* A call that carries a signal up from stage i.
LEMMA GoesUp ==
  ASSUME NEW i \in 0..Depth, NEW s \in Signals, NEW c,
         call' = Up(i + 1, s, c), s \in Declared'[i]
  PROVE  call'.to \in 1..(Depth + 1) /\ call'.sig \in Signals
         /\ call'.sig \in Declared'[call'.to - 1]
<1>1. call'.to = i + 1 /\ call'.sig = s /\ (i + 1) - 1 = i
  BY AdaptorsAssumption DEF Up
<1> QED
  BY <1>1, AdaptorsAssumption

\* Every step preserves Carries.
LEMMA NextCarries == Carries /\ [Next]_vars => Carries'
<1> SUFFICES ASSUME Carries, [Next]_vars PROVE Carries'
  OBVIOUS
<1>1. /\ kind \in [Stage -> AllKinds] /\ stored \in [Stage -> Signals \cup {"none"}]
      /\ \A i \in Stage : i \in 0..Depth /\ i # 0 /\ i \in Nat
      /\ Depth \in Nat
  BY AdaptorsAssumption DEF Carries, Stage
<1>2. UNCHANGED pipeline
  BY DEF Next, vars, Ended, StartLeaf, Receive, Completion, Move, LeafCompletes,
    ScheduledStart, ScheduledComplete, SecondCompletes, Start, KeepResult,
    KeepResultThrows, ToReferredReceiver, PassThrough, StartSecond, SecondThrows, Upon
<1>3. Declared' = Declared /\ UNCHANGED <<kind, nothrow, sends>>
  BY <1>2, DeclaredStays DEF pipeline
<1>4. ASSUME NEW i \in Stage, stored'[i] = stored[i], Expects(i) PROVE Expects(i)'
  BY <1>3, <1>4 DEF Expects
<1>5. CASE /\ UNCHANGED stored
           /\ \A i \in other' : i \in other \/ Expects(i)
           /\ \/ UNCHANGED call \/ call'.dir # "complete"
              \/ \E i \in 0..Depth, s \in Signals :
                   s \in Declared[i] /\ \E c : call' = Up(i + 1, s, c)
  <2>1. \A i \in other' : Expects(i)'
    <3> SUFFICES ASSUME NEW i \in other' PROVE Expects(i)'
      OBVIOUS
    <3>1. Expects(i) /\ i \in Stage
      BY <1>5 DEF Carries, Expects
    <3> QED
      BY <1>4, <1>5, <3>1
  <2>2. call'.dir = "complete" =>
          call'.to \in 1..(Depth + 1) /\ call'.sig \in Signals
            /\ call'.sig \in Declared'[call'.to - 1]
    BY <1>3, <1>5, GoesUp DEF Carries
  <2> QED
    BY <1>1, <1>3, <1>5, <2>1, <2>2 DEF Carries
<1>6. CASE UNCHANGED vars \/ Ended
  BY <1>5, <1>6 DEF Ended, vars
<1>7. CASE StartLeaf \/ Receive
  BY <1>5, <1>7 DEF StartLeaf, Receive, Idle
<1>8. ASSUME NEW s \in Signals, NEW c \in Contexts, LeafCompletes(s, c) PROVE Carries'
  <2>1. s \in Declared[0] /\ 0 + 1 = 1 /\ 0 \in 0..Depth
    BY <1>1, <1>8, DeclaredFollows DEF LeafCompletes
  <2> QED
    BY <1>5, <1>8, <2>1 DEF LeafCompletes
<1>9. ASSUME NEW i \in Stage, NEW s \in Signals, s \in sends[i]
      PROVE  /\ kind[i] = "sequence" => s \in Declared[i]
             /\ kind[i] \in {"continues_on", "starts_on"} /\ s # "value" => s \in Declared[i]
  BY <1>9, FromOther, DeclaredFollows
<1>10. ASSUME NEW i \in Stage, NEW s \in Signals, s \in Declared[i - 1]
       PROVE  LET d == Declared[i] IN
              /\ kind[i] = "continues_on" =>
                   s \in d /\ (i \notin nothrow /\ s \in {"value", "error"} => "eptr" \in d)
              /\ kind[i] \in {"starts_on", "write_env"} => s \in d
              /\ kind[i] \in {"sequence", "conditional"} /\ s # "value" => s \in d
              /\ kind[i] \in Lets \cup Upons /\ s \notin Disposition[kind[i]] => s \in d
              /\ kind[i] = "conditional" /\ s = "value" => "eptr" \in d /\ sends[i] \subseteq d
              /\ kind[i] \in Lets /\ s \in Disposition[kind[i]] =>
                   "eptr" \in d /\ sends[i] \subseteq d
              /\ kind[i] \in Upons /\ s \in Disposition[kind[i]] =>
                   "value" \in d /\ (i \notin nothrow => "eptr" \in d)
  BY <1>10, FromBelow, DeclaredFollows
<1>11. ASSUME NEW s \in Signals, NEW i \in Stage, NEW c \in Contexts,
             ScheduledStart(i, s, c)
      PROVE Carries'
  <2>1. /\ kind[i] = "starts_on" /\ s \in sends[i] /\ other' = other \ {i} /\ UNCHANGED stored
        /\ call' = IF s = "value" THEN Down(i - 1, c) ELSE Up(i + 1, s, c)
    BY <1>11 DEF ScheduledStart
  <2>2. CASE s = "value"
    BY <1>5, <2>1, <2>2 DEF Down
  <2>3. CASE s # "value"
    <3>1. s \in Declared[i]
      BY <1>9, <2>1, <2>3
    <3> QED
      BY <1>1, <1>5, <2>1, <2>3, <3>1
  <2> QED
    BY <2>2, <2>3
<1>12. ASSUME NEW s \in Signals, NEW i \in Stage, NEW c \in Contexts,
              ScheduledComplete(i, s, c)
       PROVE  Carries'
  <2> DEFINE x == IF s = "value" THEN stored[i] ELSE s
  <2>1. /\ kind[i] = "continues_on" /\ s \in sends[i] /\ i \in other
        /\ other' = other \ {i} /\ UNCHANGED stored /\ call' = Up(i + 1, x, c)
    BY <1>12 DEF ScheduledComplete, Delivered
  <2>2. stored[i] \in Signals /\ stored[i] \in Declared[i - 1]
    BY <2>1 DEF Carries, Expects
  <2>3. x \in Signals /\ x \in Declared[i]
    <3>1. CASE s = "value"
      BY <1>10, <2>1, <2>2, <3>1
    <3>2. CASE s # "value"
      BY <1>9, <2>1, <3>2
    <3> QED
      BY <3>1, <3>2
  <2> HIDE DEF x
  <2> QED
    BY <1>1, <1>5, <2>1, <2>3
<1>13. ASSUME NEW s \in Signals, NEW i \in Stage, NEW c \in Contexts, SecondCompletes(i, s, c)
       PROVE  Carries'
  <2>1. /\ kind[i] \notin {"starts_on", "continues_on"} /\ s \in sends[i] /\ i \in other
        /\ other' = other \ {i} /\ UNCHANGED stored /\ call' = Up(i + 1, s, c)
    BY <1>13 DEF SecondCompletes
  <2>2. kind[i] \in {"sequence", "conditional"} \cup Lets /\ Expects(i)
    BY <2>1 DEF Carries, Expects, HasOther
  <2>3. s \in Declared[i]
    <3>1. CASE kind[i] = "sequence"
      BY <1>9, <2>1, <3>1
    <3>2. CASE kind[i] = "conditional"
      <4>1. "value" \in Signals /\ "value" \in Declared[i - 1]
        BY <2>2, <3>2 DEF Expects, Signals
      <4> QED
        BY <1>10, <2>1, <3>2, <4>1
    <3>3. CASE kind[i] \in Lets
      <4>1. PICK y \in Disposition[kind[i]] : y \in Declared[i - 1]
        BY <2>2, <3>3 DEF Expects
      <4>2. y \in Signals
        BY <3>3 DEF Lets, Disposition, Signals
      <4> QED
        BY <1>10, <2>1, <3>3, <4>1, <4>2
    <3> QED
      BY <2>2, <3>1, <3>2, <3>3
  <2> QED
    BY <1>1, <1>5, <2>1, <2>3
<1>14. ASSUME NEW i \in Stage, Start(i) PROVE Carries'
  <2>1. CASE kind[i] = "starts_on"
    <3>1. Expects(i)
      BY <2>1 DEF Expects, HasOther, Lets
    <3> QED
      BY <1>5, <1>14, <2>1, <3>1 DEF Start, StartsElsewhere, StartOther, Idle
  <2>2. CASE kind[i] # "starts_on"
    BY <1>5, <1>14, <2>2 DEF Start, StartsElsewhere, Down
  <2> QED
    BY <2>1, <2>2
<1>15. ASSUME NEW i \in Stage, Calls("complete", i)
       PROVE  call.sig \in Signals /\ call.sig \in Declared[i - 1]
  BY <1>15 DEF Calls, Carries
<1>16. ASSUME NEW i \in Stage, KeepResult(i) \/ KeepResultThrows(i) PROVE Carries'
  <2>1. /\ kind[i] = "continues_on" /\ other' = other \cup {i}
        /\ stored' = [stored EXCEPT ![i] = call.sig]
        /\ Calls("complete", i)
    BY <1>16 DEF KeepResult, KeepResultThrows, StartOther
  <2>2. call.sig \in Signals /\ call.sig \in Declared[i - 1]
    BY <1>15, <2>1
  <2>3. \A j \in other' : Expects(j)'
    <3> SUFFICES ASSUME NEW j \in other' PROVE Expects(j)'
      OBVIOUS
    <3>1. CASE j = i
      BY <1>1, <1>3, <2>1, <2>2, <3>1 DEF Expects, HasOther, Lets
    <3>2. CASE j # i
      <4>1. j \in Stage /\ Expects(j)
        BY <2>1, <3>2 DEF Carries, Expects
      <4>2. stored'[j] = stored[j]
        BY <1>1, <2>1, <3>2, <4>1
      <4> QED
        BY <1>4, <4>1, <4>2
    <3> QED
      BY <3>1, <3>2
  <2>4. call'.dir = "complete" =>
          call'.to \in 1..(Depth + 1) /\ call'.sig \in Signals
            /\ call'.sig \in Declared'[call'.to - 1]
    <3>1. CASE KeepResult(i)
      BY <3>1 DEF KeepResult, StartOther, Idle
    <3>2. CASE KeepResultThrows(i)
      <4>1. /\ i \notin nothrow /\ call.sig \in {"value", "error"}
            /\ call' = Up(i + 1, "eptr", call.ctx)
        BY <3>2 DEF KeepResultThrows, Forward
      <4>2. "eptr" \in Signals /\ "eptr" \in Declared[i]
        BY <1>10, <2>1, <2>2, <4>1 DEF Signals
      <4> QED
        BY <1>1, <1>3, <4>1, <4>2, GoesUp
    <3> QED
      BY <1>16, <3>1, <3>2
  <2>5. stored' \in [Stage -> Signals \cup {"none"}]
    BY <1>1, <2>1, <2>2
  <2> QED
    BY <1>1, <1>3, <2>3, <2>4, <2>5 DEF Carries
<1>17. ASSUME NEW i \in Stage, NEW s \in Signals, s \in Declared[i],
              UNCHANGED <<other, stored>>, Forward(i, s)
       PROVE  Carries'
  <2>1. \E c : call' = Up(i + 1, s, c)
    BY <1>17 DEF Forward
  <2> QED
    BY <1>1, <1>5, <1>17, <2>1
<1>18. ASSUME NEW i \in Stage, ToReferredReceiver(i) \/ PassThrough(i) PROVE Carries'
  <2>1. /\ Calls("complete", i) /\ UNCHANGED <<other, stored>> /\ Forward(i, call.sig)
        /\ \/ kind[i] \in {"starts_on", "write_env"}
           \/ kind[i] \in {"sequence", "conditional"} /\ call.sig # "value"
           \/ kind[i] \in Lets \cup Upons /\ call.sig \notin Disposition[kind[i]]
    BY <1>18 DEF ToReferredReceiver, PassThrough
  <2>2. call.sig \in Signals /\ call.sig \in Declared[i]
    BY <1>10, <1>15, <2>1
  <2> QED
    BY <1>17, <2>1, <2>2
<1>19. ASSUME NEW i \in Stage, StartSecond(i) PROVE Carries'
  <2>1. /\ Calls("complete", i) /\ other' = other \cup {i} /\ call' = Idle /\ UNCHANGED stored
        /\ \/ kind[i] \in {"sequence", "conditional"} /\ call.sig = "value"
           \/ kind[i] \in Lets /\ call.sig \in Disposition[kind[i]]
    BY <1>19 DEF StartSecond, StartOther
  <2>2. call.sig \in Declared[i - 1]
    BY <1>15, <2>1
  <2>3. Expects(i)
    BY <2>1, <2>2 DEF Expects, HasOther, Lets
  <2> QED
    BY <1>5, <2>1, <2>3 DEF Idle
<1>20. ASSUME NEW i \in Stage, SecondThrows(i) PROVE Carries'
  <2>1. /\ Calls("complete", i) /\ UNCHANGED <<other, stored>> /\ Forward(i, "eptr")
        /\ \/ kind[i] = "conditional" /\ call.sig = "value"
           \/ kind[i] \in Lets /\ call.sig \in Disposition[kind[i]]
    BY <1>20 DEF SecondThrows
  <2>2. "eptr" \in Signals /\ "eptr" \in Declared[i]
    BY <1>10, <1>15, <2>1 DEF Signals
  <2> QED
    BY <1>17, <2>1, <2>2
<1>21. ASSUME NEW i \in Stage, Upon(i) PROVE Carries'
  <2>1. /\ Calls("complete", i) /\ UNCHANGED <<other, stored>>
        /\ kind[i] \in Upons /\ call.sig \in Disposition[kind[i]]
        /\ Forward(i, "value") \/ (i \notin nothrow /\ Forward(i, "eptr"))
    BY <1>21 DEF Upon
  <2>2. /\ "value" \in Declared[i] /\ (i \notin nothrow => "eptr" \in Declared[i])
        /\ "value" \in Signals /\ "eptr" \in Signals
    BY <1>10, <1>15, <2>1 DEF Signals
  <2> QED
    BY <1>17, <2>1, <2>2
<1> QED
  BY <1>6, <1>7, <1>8, <1>11, <1>12, <1>13, <1>14, <1>16, <1>18, <1>19, <1>20, <1>21
     DEF Next, Completion, Move

\* No operation completes with a signal that its sender's completion signatures
\* lack, in any pipeline, whatever throws.
THEOREM DeclaredSignals == Spec => []SentIsDeclared
<1>1. Init => Carries
  BY AdaptorsAssumption DEF Init, Carries, Down
<1>2. Carries /\ [Next]_vars => Carries'
  BY NextCarries
<1>3. Carries => SentIsDeclared
  BY DEF Carries, SentIsDeclared
<1> QED
  BY <1>1, <1>2, <1>3, PTL DEF Spec

=============================================================================
