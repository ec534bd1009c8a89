---------------------------- MODULE WhenAll_proofs ----------------------------
(***************************************************************************)
(* Proofs about WhenAll, for any bound on the number of children.          *)
(*                                                                         *)
(* The inductive invariant is Inv.  The barrier: _count_ is the number of  *)
(* children that have not arrived, so the child that finds it 1 is the     *)
(* last, and start() is through its loop (StartInv, BarrierInv).  The      *)
(* error: the exchanges let one child write, and it has not arrived until  *)
(* it wrote (ErrorInv).  The values: as long as nobody failed or stopped,  *)
(* whoever is past its set_value has stored its values (ValueInv).  The    *)
(* stop request: from its registration to the completion the callback is   *)
(* in the outer source's list until a request takes it off (RequestInv).   *)
(*                                                                         *)
(* For the promise of Join it takes one thing more, who asked the children *)
(* to stop: a stop request comes from the receiver's token or after a      *)
(* report, and the child that reported has not arrived before (AskInv).    *)
(***************************************************************************)
EXTENDS WhenAll, FiniteSetTheorems, TLAPS

Steps == {"unstarted", "running", "exchange", "exchange_eptr", "ask", "ask_eptr",
          "ask_stopped", "emplace", "emplace_eptr", "arrive", "complete", "done"}
Writing == {"ask", "ask_eptr", "emplace", "emplace_eptr"}
Through == {"arrive", "complete", "done"}

\* start() starts the children in order.
StartInv ==
  /\ \A i \in Index : pc[i] = "unstarted" <=> i >= starter \/ i > n
  /\ starter <= n + 1 \/ (n = 0 /\ starter = 2)
  /\ stage # "loop" => starter = 1
  /\ stage \in {"construct", "check"} => signals = <<>>
  /\ n = 0 /\ starter = 1 /\ stage = "loop" => signals = <<>>

BarrierInv ==
  /\ Len(signals) <= 1
  /\ \A i \in Child : pc[i] = "complete" =>
       signals = <<>> /\ \A j \in Child : j # i => pc[j] = "done"
  /\ signals # <<>> => stage = "abandoned" \/ \A i \in Child : pc[i] = "done"

ErrorInv ==
  /\ \A i, j \in Child : pc[i] \in Writing /\ pc[j] \in Writing => i = j
  /\ \A i \in Child : pc[i] \in Writing => state = "error" /\ errors = None
  /\ state # "error" => errors = None
  /\ state = "error" => errors # None \/ \E i \in Child : pc[i] \in Writing

ValueInv ==
  /\ values \subseteq Child
  /\ \A i \in Child : pc[i] = "ask_stopped" => state # "started"
  /\ state = "started" =>
       \A i \in Child : pc[i] \in Through => "value" \in can[i] /\ (NoValues \/ i \in values)

\* A request finds the callback, wherever it was constructed.
RequestInv ==
  /\ RequestNotLost
  /\ stage # "construct" /\ signals = <<>> /\ token = "inplace" /\ outer = "idle"
       => onStop # "none"

Inv ==
  /\ TypeOK
  /\ CountIsNotArrived
  /\ StartInv
  /\ BarrierInv
  /\ ErrorInv
  /\ ValueInv
  /\ RequestInv

-----------------------------------------------------------------------------

\* The children and their subsets are finite, and counted by natural numbers.
LEMMA Counting ==
  ASSUME n \in 0..MaxChildren, NEW S \in SUBSET Child
  PROVE  IsFiniteSet(S) /\ Cardinality(S) \in 0..MaxChildren
<1>1. IsFiniteSet(1..n) /\ Cardinality(1..n) = n
  BY MaxChildrenAssumption, FS_Interval
<1>2. IsFiniteSet(S) /\ Cardinality(S) <= n
  BY <1>1, FS_Subset DEF Child
<1> QED
  BY <1>2, FS_CardinalityType, MaxChildrenAssumption

\* No step changes the children.
LEMMA ChildrenStay == [Next]_vars => UNCHANGED <<n, can, Child, NoValues>>
<1> SUFFICES ASSUME [Next]_vars PROVE UNCHANGED <<n, can>>
  BY DEF Child, NoValues, SendsValues
<1>1. CASE Terminated \/ UNCHANGED vars
  BY <1>1 DEF Terminated, vars
<1>2. CASE Start \/ OuterStop \/ Outer
  BY <1>2 DEF Start, Construct, StartStopped, EnterLoop, StartChild, StartNone, OuterStop, Outer,
              OuterAsk, OuterReturn
<1>3. ASSUME NEW i \in Child, Decide(i) \/ Proceed(i) PROVE UNCHANGED <<n, can>>
  BY <1>3 DEF Decide, Elsewhere, InCallback, SetAny, SetValue, SetValueThrows, SetError, SetStopped,
              Proceed, Exchange, AskStop, Emplace, Arrive, Complete
<1> QED
  BY <1>1, <1>2, <1>3 DEF Next

\* The outer source, and start() before and after it registered the callback, leave
\* the children and the receiver alone.
Aside == Construct \/ EnterLoop \/ OuterStop \/ OuterAsk \/ OuterReturn

LEMMA AsideOnly == Aside => UNCHANGED <<n, can, state, count, errors, values, starter, pc, signals>>
BY DEF Aside, Construct, EnterLoop, OuterStop, OuterAsk, OuterReturn, opState

\* What _complete sends has the type of a signal, and is one signal at most.
LEMMA SignalType ==
  ASSUME TypeOK, ValueInv
  PROVE  /\ Signal \in Seq([sig : Signals, by : 0..MaxChildren, as : {"none", "error", "eptr"}])
         /\ Len(Signal) <= 1
<1>1. Cardinality(values) \in 0..MaxChildren
  BY Counting DEF TypeOK, ValueInv
<1> DEFINE T == [sig : Signals, by : 0..MaxChildren, as : {"none", "error", "eptr"}]
<1>2. \A x : x \in T => <<x>> \in Seq(T) /\ Len(<<x>>) <= 1
  OBVIOUS
<1>3. <<>> \in Seq(T) /\ Len(<<>>) <= 1
  OBVIOUS
<1>4. /\ [sig |-> "error", by |-> errors.by, as |-> errors.as] \in T
      /\ [sig |-> "stopped", by |-> 0, as |-> "none"] \in T
      /\ [sig |-> "value", by |-> Cardinality(values), as |-> "none"] \in T
  BY <1>1, MaxChildrenAssumption DEF Signals, TypeOK
<1> HIDE DEF T
<1>5. Signal \in Seq(T) /\ Len(Signal) <= 1
  BY <1>2, <1>3, <1>4 DEF Signal
<1> QED
  BY <1>5 DEF T

\* Nothing has happened when the operation state is constructed.
LEMMA InitInv == Init => Inv
<1> SUFFICES ASSUME Init PROVE Inv
  OBVIOUS
<1> USE MaxChildrenAssumption, ChildCompletionsAssumption DEF Init
<1>1. TypeOK
  <2>1. pc \in [Index -> Steps]
    BY DEF Steps
  <2>2. errors \in [by : 0..MaxChildren, as : {"none", "error", "eptr"}]
    BY DEF None
  <2>3. signals \in Seq([sig : Signals, by : 0..MaxChildren, as : {"none", "error", "eptr"}])
    OBVIOUS
  <2>4. can \in [Index -> SUBSET Signals]
    OBVIOUS
  <2>5. /\ n \in 0..MaxChildren /\ count \in 0..MaxChildren
        /\ starter \in 1..(MaxChildren + 2)
    OBVIOUS
  <2>6. /\ state \in {"started", "error", "stopped"} /\ stopSource \in BOOLEAN
        /\ values \subseteq Index
    OBVIOUS
  <2>7. OutsideTypeOK
    <3>1. nested \in 0..MaxChildren
      OBVIOUS
    <3>2. /\ listed = {} /\ undefined = FALSE /\ onStop = "none" /\ outer = "idle"
          /\ token \in {"never", "inplace"}
      OBVIOUS
    <3> HIDE DEF Init
    <3> QED
      BY <3>1, <3>2 DEF OutsideTypeOK
  <2>8. stage \in {"construct", "check", "loop", "abandoned"}
    OBVIOUS
  <2> HIDE DEF Init
  <2> QED
    BY <2>1, <2>2, <2>3, <2>4, <2>5, <2>6, <2>7, <2>8 DEF TypeOK, Steps
<1>2. \A i \in Child : i \in Index
  BY DEF Child, Index
<1>3. CountIsNotArrived
  <2>1. NotArrived = 1..n
    BY <1>2 DEF NotArrived, Child
  <2> QED
    BY <2>1, FS_Interval DEF CountIsNotArrived
<1>4. StartInv
  BY DEF StartInv, Index
<1>5. BarrierInv /\ ErrorInv /\ ValueInv /\ RequestInv
  <2>1. Len(signals) = 0
    OBVIOUS
  <2> QED
    BY <1>2, <2>1 DEF BarrierInv, ErrorInv, ValueInv, RequestInv, RequestNotLost, Writing, Through
<1> QED
  BY <1>1, <1>3, <1>4, <1>5 DEF Inv

-----------------------------------------------------------------------------
(* Types                                                                    *)

\* The destructor gives the variables of the stop callback values of their types.
LEMMA DestroyTypeOK == OutsideTypeOK /\ DestroyOnStop => OutsideTypeOK'
BY DEF OutsideTypeOK, DestroyOnStop

\* Every step gives the variables values of their types.
LEMMA NextTypeOK == Inv /\ [Next]_vars => TypeOK'
<1> SUFFICES ASSUME Inv, [Next]_vars PROVE TypeOK'
  OBVIOUS
<1> USE MaxChildrenAssumption DEF opState
<1>1. TypeOK /\ OutsideTypeOK
  BY DEF Inv, TypeOK
<1>2. \A i \in Child : i \in Index
  BY <1>1 DEF TypeOK, Child, Index
<1>3. UNCHANGED outside => OutsideTypeOK'
  BY <1>1 DEF outside, OutsideTypeOK
<1> DEFINE T == [sig : Signals, by : 0..MaxChildren, as : {"none", "error", "eptr"}]
<1>4. CASE Terminated \/ UNCHANGED vars
  BY <1>1, <1>3, <1>4 DEF Terminated, vars, TypeOK
<1>5. CASE StartChild \/ EnterLoop
  <2>1. CASE EnterLoop
    BY <1>1, <1>3, <2>1 DEF EnterLoop, TypeOK
  <2>2. CASE StartChild
    <3>1. UNCHANGED <<n, can, opState, outside, stage, signals>> /\ starter' = starter + 1
      BY <2>2 DEF StartChild
    <3>2. starter' \in 1..(MaxChildren + 2)
      BY <1>1, <2>2 DEF StartChild, TypeOK, Child
    <3>3. pc' \in [Index -> {"unstarted", "running", "exchange", "exchange_eptr", "ask",
                             "ask_eptr", "ask_stopped", "emplace", "emplace_eptr",
                             "arrive", "complete", "done"}]
      BY <1>1, <2>2 DEF StartChild, TypeOK
    <3> QED
      BY <1>1, <1>3, <3>1, <3>2, <3>3 DEF TypeOK
  <2> QED
    BY <1>5, <2>1, <2>2
<1>6. CASE StartStopped
  <2>1. signals' \in Seq(T)
    BY <1>1, <1>6 DEF StartStopped, TypeOK, Signals
  <2> QED
    BY <1>1, <1>6, <2>1, DestroyTypeOK DEF StartStopped, TypeOK
<1>7. CASE StartNone
  <2>1. signals' \in Seq(T)
    BY <1>1, <1>7, SignalType DEF StartNone, Inv, TypeOK
  <2> QED
    BY <1>1, <1>7, <2>1, DestroyTypeOK DEF StartNone, TypeOK
<1>8. CASE Construct
  <2>1. OutsideTypeOK'
    BY <1>1, <1>8 DEF Construct, OutsideTypeOK
  <2> QED
    BY <1>1, <1>8, <2>1 DEF Construct, RunsHere, TypeOK
<1>9. CASE OuterStop \/ OuterAsk \/ OuterReturn
  <2>1. OutsideTypeOK'
    <3>1. CASE OuterStop \/ OuterReturn
      BY <1>1, <3>1 DEF OuterStop, OuterReturn, OutsideTypeOK
    <3>2. CASE OuterAsk
      <4>1. listed' \subseteq Index
        BY <1>2, <3>2 DEF OuterAsk
      <4> QED
        BY <1>1, <3>2, <4>1 DEF OuterAsk, OutsideTypeOK
    <3> QED
      BY <1>9, <3>1, <3>2
  <2> QED
    BY <1>1, <1>9, <2>1 DEF OuterStop, OuterAsk, OuterReturn, TypeOK
<1>10. ASSUME NEW i \in Child, Decide(i) PROVE TypeOK'
  <2>1. OutsideTypeOK'
    <3>1. CASE Elsewhere(i)
      BY <1>3, <3>1 DEF Elsewhere
    <3>2. CASE InCallback(i)
      <4>1. i \in 0..MaxChildren
        BY <1>2 DEF Index
      <4> QED
        BY <1>1, <3>2, <4>1 DEF InCallback, OutsideTypeOK
    <3> QED
      BY <1>10, <3>1, <3>2 DEF Decide
  <2>2. SetAny(i)
    BY <1>10 DEF Decide, Elsewhere, InCallback
  <2> QED
    BY <1>1, <1>2, <2>1, <2>2
       DEF SetAny, SetValue, SetValueThrows, SetError, SetStopped, StateAfterStopped, Go, TypeOK
<1>11. ASSUME NEW i \in Child, Exchange(i) \/ AskStop(i) PROVE TypeOK'
  BY <1>1, <1>2, <1>3, <1>11 DEF Exchange, AfterExchange, AskStop, AfterAsk, TypeOK
<1>12. ASSUME NEW i \in Child, Emplace(i) PROVE TypeOK'
  BY <1>1, <1>2, <1>3, <1>12 DEF Emplace, TypeOK, Index
<1>13. ASSUME NEW i \in Child, Arrive(i) PROVE TypeOK'
  <2>1. i \in NotArrived
    BY <1>13 DEF Arrive, Go, NotArrived
  <2>2. count # 0
    BY <1>1, <2>1, Counting, FS_EmptySet DEF Inv, CountIsNotArrived, NotArrived, TypeOK
  <2> QED
    BY <1>1, <1>2, <1>3, <1>13, <2>2 DEF Arrive, Go, CountAfterArrival, TypeOK
<1>14. ASSUME NEW i \in Child, Complete(i) PROVE TypeOK'
  <2>1. signals' \in Seq(T)
    BY <1>1, <1>14, SignalType DEF Complete, Inv, TypeOK
  <2> QED
    BY <1>1, <1>2, <1>14, <2>1, DestroyTypeOK DEF Complete, Go, TypeOK
<1> QED
  BY <1>4, <1>5, <1>6, <1>7, <1>8, <1>9, <1>10, <1>11, <1>12, <1>13, <1>14
     DEF Next, Proceed, Start, Outer

-----------------------------------------------------------------------------
(* start(), the barrier                                                     *)

\* A child starts when its turn comes.
LEMMA NextStartInv == Inv /\ [Next]_vars => StartInv'
<1> SUFFICES ASSUME Inv, [Next]_vars PROVE StartInv'
  OBVIOUS
<1>1. /\ n \in Nat /\ starter \in Nat /\ MaxChildren \in Nat
      /\ pc \in [Index -> Steps]
      /\ \A i \in Child : i \in Index /\ i <= n
  BY MaxChildrenAssumption DEF Inv, TypeOK, Steps, Child, Index
<1>2. CASE Terminated \/ UNCHANGED vars
  BY <1>2 DEF Terminated, vars, opState, Inv, StartInv
<1>3. CASE StartChild
  BY <1>1, <1>3 DEF StartChild, Inv, StartInv, Child, Index, Steps
<1>4. CASE StartNone
  BY <1>1, <1>4 DEF StartNone, Inv, StartInv, Index, opState
<1>6. CASE Aside
  <2>1. UNCHANGED <<n, starter, pc, signals>>
    BY <1>6, AsideOnly
  <2>2. \/ stage' = stage
        \/ stage = "construct" /\ stage' = "check"
        \/ stage = "check" /\ stage' = "loop"
    BY <1>6 DEF Aside, Construct, EnterLoop, OuterStop, OuterAsk, OuterReturn
  <2> QED
    BY <2>1, <2>2 DEF Inv, StartInv
<1>7. CASE StartStopped
  BY <1>1, <1>7 DEF StartStopped, Inv, StartInv
<1>5. ASSUME NEW i \in Child, Decide(i) \/ Proceed(i) PROVE StartInv'
  <2>1. UNCHANGED <<n, starter, stage>> /\ n # 0
    BY <1>1, <1>5 DEF Decide, Elsewhere, InCallback, SetAny, Proceed, SetValue, SetValueThrows, SetError, SetStopped, Exchange,
                      AskStop, Emplace, Arrive, Complete, Child
  <2>2. \A j \in Index : pc'[j] = "unstarted" <=> pc[j] = "unstarted"
    BY <1>1, <1>5 DEF Decide, Elsewhere, InCallback, SetAny, Proceed, SetValue, SetValueThrows, SetError, SetStopped, Exchange,
                      AskStop, Emplace, Arrive, Complete, Go, AfterExchange, AfterAsk
  <2>3. stage = "loop"
    <3>1. pc[i] # "unstarted"
      BY <1>5 DEF Decide, Elsewhere, InCallback, SetAny, Proceed, SetValue, SetValueThrows, SetError,
                  SetStopped, Exchange, AskStop, Emplace, Arrive, Complete, Go
    <3> QED
      BY <1>1, <3>1 DEF Inv, StartInv, Index, Child
  <2> QED
    BY <2>1, <2>2, <2>3 DEF Inv, StartInv
<1> QED
  BY <1>2, <1>3, <1>4, <1>5, <1>6, <1>7 DEF Next, Start, Outer, Aside

\* Only an arrival changes the number of those that have not arrived.
LEMMA NextCount == Inv /\ [Next]_vars => CountIsNotArrived'
<1> SUFFICES ASSUME Inv, [Next]_vars PROVE CountIsNotArrived'
  OBVIOUS
<1>1. /\ pc \in [Index -> Steps]
      /\ Child \subseteq Index
  BY MaxChildrenAssumption DEF Inv, TypeOK, Steps, Child, Index
<1>2. UNCHANGED Child
  BY ChildrenStay
<1>3. CASE UNCHANGED count /\ \A i \in Child :
             pc'[i] \in {"complete", "done"} <=> pc[i] \in {"complete", "done"}
  BY <1>2, <1>3 DEF Inv, CountIsNotArrived, NotArrived
<1>4. ASSUME NEW i \in Child, Arrive(i) PROVE CountIsNotArrived'
  <2>1. i \in NotArrived /\ NotArrived' = NotArrived \ {i}
    BY <1>1, <1>2, <1>4 DEF Arrive, Go, NotArrived
  <2>2. IsFiniteSet(NotArrived)
    BY Counting DEF NotArrived, Inv, TypeOK
  <2>3. Cardinality(NotArrived \ {i}) = Cardinality(NotArrived) - 1
    BY <2>1, <2>2, FS_RemoveElement
  <2> QED
    BY <1>4, <2>1, <2>3 DEF Arrive, CountAfterArrival, Inv, CountIsNotArrived
<1>5. CASE Terminated \/ UNCHANGED vars \/ StartNone \/ StartStopped \/ Aside
  BY <1>3, <1>5, AsideOnly DEF Terminated, vars, opState, StartNone, StartStopped
<1>6. CASE StartChild
  <2>1. pc[starter] = "unstarted" /\ starter \in Index
    BY <1>1, <1>6 DEF StartChild, Inv, StartInv, TypeOK, Child, Index
  <2> QED
    BY <1>1, <1>3, <1>6, <2>1 DEF StartChild, opState
<1>7. ASSUME NEW i \in Child, Decide(i) PROVE CountIsNotArrived'
  BY <1>1, <1>3, <1>7 DEF Decide, Elsewhere, InCallback, SetAny, SetValue, SetValueThrows, SetError, SetStopped, Go, opState
<1>8. ASSUME NEW i \in Child, Exchange(i) \/ AskStop(i) \/ Emplace(i) \/ Complete(i)
      PROVE  CountIsNotArrived'
  BY <1>1, <1>3, <1>8 DEF Exchange, AskStop, Emplace, Complete, Go, AfterExchange, AfterAsk, opState
<1> QED
  BY <1>4, <1>5, <1>6, <1>7, <1>8 DEF Next, Proceed, Start, Outer, Aside

\* Who finds _count_ at 1 is the only one that has not arrived.
LEMMA LastIsAlone ==
  ASSUME Inv, NEW i \in Child, pc[i] \notin {"complete", "done"}, LastArrival
  PROVE  \A j \in Child : j # i => pc[j] \in {"complete", "done"}
<1>1. IsFiniteSet(NotArrived) /\ Cardinality(NotArrived) = 1
  BY Counting DEF NotArrived, Inv, TypeOK, CountIsNotArrived, LastArrival
<1>2. PICK x : NotArrived = {x}
  BY <1>1, FS_Singleton
<1> QED
  BY <1>2 DEF NotArrived

\* The barrier opens once: when it does, everybody else is out.
LEMMA NextBarrierInv == Inv /\ [Next]_vars => BarrierInv'
<1> SUFFICES ASSUME Inv, [Next]_vars PROVE BarrierInv'
  OBVIOUS
<1>1. /\ pc \in [Index -> Steps]
      /\ Child \subseteq Index
  BY MaxChildrenAssumption DEF Inv, TypeOK, Steps, Child, Index
<1>2. UNCHANGED Child
  BY ChildrenStay
<1>3. ASSUME UNCHANGED <<signals, stage>>, NEW i \in Child, pc[i] # "done", pc'[i] # "complete",
             \A j \in Child : j # i => pc'[j] = pc[j]
      PROVE  BarrierInv'
  BY <1>2, <1>3 DEF Inv, BarrierInv
<1>4. CASE Terminated \/ UNCHANGED vars
  BY <1>4 DEF Terminated, vars, opState, Inv, BarrierInv, Child
<1>11. CASE Aside
  <2>1. UNCHANGED <<pc, signals>> /\ (stage = "abandoned" => stage' = "abandoned")
    BY <1>11, AsideOnly DEF Aside, Construct, EnterLoop, OuterStop, OuterAsk, OuterReturn
  <2> QED
    BY <1>2, <2>1 DEF Inv, BarrierInv
<1>12. CASE StartStopped
  <2>1. /\ signals = <<>> /\ stage' = "abandoned" /\ UNCHANGED pc
        /\ signals' = signals \o <<[sig |-> "stopped", by |-> 0, as |-> "none"]>>
    BY <1>12 DEF StartStopped, Inv, StartInv
  <2>2. Len(signals') <= 1
    BY <2>1
  <2>3. \A i \in Child : pc[i] = "unstarted"
    BY <1>1, <1>12 DEF StartStopped, Inv, StartInv, TypeOK, Child, Index
  <2> QED
    BY <1>2, <2>1, <2>2, <2>3 DEF BarrierInv
<1>5. CASE StartChild
  <2>1. pc[starter] = "unstarted" /\ starter \in Child
    BY <1>1, <1>5 DEF StartChild, Inv, StartInv, TypeOK, Child, Index
  <2> QED
    BY <1>1, <1>3, <1>5, <2>1 DEF StartChild, opState
<1>6. CASE StartNone
  <2>1. signals = <<>> /\ Child = {}
    BY <1>6 DEF StartNone, Inv, StartInv, Child
  <2>2. Len(Signal) <= 1 /\ \E S : Signal \in Seq(S)
    BY SignalType DEF Inv
  <2>3. Len(signals') <= 1
    BY <1>6, <2>1, <2>2 DEF StartNone
  <2> QED
    BY <1>2, <2>1, <2>3 DEF BarrierInv
<1>7. ASSUME NEW i \in Child, Decide(i) PROVE BarrierInv'
  BY <1>1, <1>3, <1>7 DEF Decide, Elsewhere, InCallback, SetAny, SetValue, SetValueThrows, SetError, SetStopped, Go, opState
<1>8. ASSUME NEW i \in Child, Exchange(i) \/ AskStop(i) \/ Emplace(i) PROVE BarrierInv'
  BY <1>1, <1>3, <1>8 DEF Exchange, AskStop, Emplace, AfterExchange, AfterAsk
<1>9. ASSUME NEW i \in Child, Arrive(i) PROVE BarrierInv'
  <2>1. /\ pc[i] = "arrive" /\ UNCHANGED <<signals, stage>>
        /\ pc' = [pc EXCEPT ![i] = IF LastArrival THEN "complete" ELSE "done"]
    BY <1>9 DEF Arrive, Go
  <2>2. CASE ~LastArrival
    BY <1>1, <1>3, <2>1, <2>2
  <2>3. CASE LastArrival
    <3>1. \A j \in Child : j # i => pc[j] = "done"
      BY <2>1, <2>3, LastIsAlone DEF Inv, BarrierInv
    <3>2. signals = <<>>
      <4>1. stage = "loop"
        BY <1>1, <2>1 DEF Inv, StartInv, Child, Index, TypeOK
      <4> QED
        BY <2>1, <4>1 DEF Inv, BarrierInv
    <3>3. pc' = [pc EXCEPT ![i] = "complete"]
      BY <2>1, <2>3
    <3> QED
      BY <1>1, <1>2, <2>1, <3>1, <3>2, <3>3 DEF Inv, BarrierInv
  <2> QED
    BY <2>2, <2>3
<1>10. ASSUME NEW i \in Child, Complete(i) PROVE BarrierInv'
  <2>1. /\ pc[i] = "complete" /\ pc' = [pc EXCEPT ![i] = "done"]
        /\ signals' = signals \o Signal
    BY <1>10 DEF Complete, Go
  <2>2. signals = <<>> /\ \A j \in Child : j # i => pc[j] = "done"
    BY <2>1 DEF Inv, BarrierInv
  <2>3. Len(Signal) <= 1 /\ \E S : Signal \in Seq(S)
    BY SignalType DEF Inv
  <2>4. Len(signals') <= 1
    BY <2>1, <2>2, <2>3
  <2>5. \A j \in Child : pc'[j] = "done"
    BY <1>1, <2>1, <2>2
  <2> QED
    BY <1>2, <2>4, <2>5 DEF BarrierInv
<1> QED
  BY <1>4, <1>5, <1>6, <1>7, <1>8, <1>9, <1>10, <1>11, <1>12 DEF Next, Proceed, Start, Outer, Aside

-----------------------------------------------------------------------------
(* The error, the values                                                    *)

\* The exchange that replaces another state makes the writer; what it writes
\* is not None.
LEMMA NextErrorInv == Inv /\ [Next]_vars => ErrorInv'
<1> SUFFICES ASSUME Inv, [Next]_vars PROVE ErrorInv'
  OBVIOUS
<1>1. /\ pc \in [Index -> Steps]
      /\ Child \subseteq Index
      /\ state \in {"started", "error", "stopped"}
  BY MaxChildrenAssumption DEF Inv, TypeOK, Steps, Child, Index
<1>2. UNCHANGED Child
  BY ChildrenStay
<1>3. CASE /\ UNCHANGED errors
           /\ \A i \in Child : pc'[i] \in Writing <=> pc[i] \in Writing
           /\ state' = "error" <=> state = "error"
  BY <1>2, <1>3 DEF Inv, ErrorInv
<1>4. CASE Terminated \/ UNCHANGED vars \/ StartNone \/ StartStopped \/ Aside
  BY <1>3, <1>4, AsideOnly DEF Terminated, vars, opState, StartNone, StartStopped
<1>5. CASE StartChild
  <2>1. pc[starter] = "unstarted" /\ starter \in Index
    BY <1>1, <1>5 DEF StartChild, Inv, StartInv, TypeOK, Child, Index
  <2> QED
    BY <1>1, <1>3, <1>5, <2>1 DEF StartChild, opState, Writing
<1>6. ASSUME NEW i \in Child, Decide(i) PROVE ErrorInv'
  BY <1>1, <1>3, <1>6
     DEF Decide, Elsewhere, InCallback, SetAny, SetValue, SetValueThrows, SetError, SetStopped, StateAfterStopped, Go, opState, Writing
<1>7. ASSUME NEW i \in Child, AskStop(i) \/ Arrive(i) \/ Complete(i) PROVE ErrorInv'
  BY <1>1, <1>3, <1>7 DEF AskStop, AfterAsk, Arrive, Complete, Go, opState, Writing
<1>8. ASSUME NEW i \in Child, Exchange(i) PROVE ErrorInv'
  <2>1. /\ pc[i] \notin Writing /\ state' = "error" /\ UNCHANGED errors
        /\ pc' = [pc EXCEPT ![i] = AfterExchange(@)]
    BY <1>8 DEF Exchange, Writing
  <2>2. CASE state = "error"
    BY <1>1, <1>3, <2>1, <2>2 DEF AfterExchange, Writing
  <2>3. CASE state # "error"
    <3>1. \A j \in Child : pc[j] \notin Writing
      BY <2>3 DEF Inv, ErrorInv
    <3>2. pc'[i] \in Writing /\ \A j \in Child : j # i => pc'[j] = pc[j]
      BY <1>1, <1>8, <2>1, <2>3 DEF AfterExchange, Exchange, Writing
    <3>3. errors = None
      BY <2>3 DEF Inv, ErrorInv
    <3> QED
      BY <1>2, <2>1, <3>1, <3>2, <3>3 DEF ErrorInv
  <2> QED
    BY <2>2, <2>3
<1>9. ASSUME NEW i \in Child, Emplace(i) PROVE ErrorInv'
  <2>1. /\ pc[i] \in Writing /\ UNCHANGED state
        /\ pc' = [pc EXCEPT ![i] = "arrive"]
    BY <1>9 DEF Emplace, Writing
  <2>2. state = "error" /\ \A j \in Child : j # i => pc[j] \notin Writing
    BY <2>1 DEF Inv, ErrorInv
  <2>3. \A j \in Child : pc'[j] \notin Writing
    BY <1>1, <2>1, <2>2 DEF Writing
  <2>4. errors' # None
    BY <1>9 DEF Emplace, None
  <2> QED
    BY <1>2, <2>1, <2>2, <2>3, <2>4 DEF ErrorInv
<1> QED
  BY <1>4, <1>5, <1>6, <1>7, <1>8, <1>9 DEF Next, Proceed, Start, Outer, Aside

\* While _state_ is started every child came through its set_value.
LEMMA NextValueInv == Inv /\ [Next]_vars => ValueInv'
<1> SUFFICES ASSUME Inv, [Next]_vars PROVE ValueInv'
  OBVIOUS
<1>1. /\ pc \in [Index -> Steps]
      /\ Child \subseteq Index
      /\ state \in {"started", "error", "stopped"}
  BY MaxChildrenAssumption DEF Inv, TypeOK, Steps, Child, Index
<1>2. UNCHANGED <<n, can, Child, NoValues>>
  BY ChildrenStay
<1>3. CASE /\ UNCHANGED values
           /\ state' = "started" => state = "started"
           /\ \A i \in Child : pc'[i] = "ask_stopped" =>
                pc[i] = "ask_stopped" \/ state' # "started"
           /\ \A i \in Child : state' = "started" /\ pc'[i] \in Through => pc[i] \in Through
           /\ state # "started" => state' # "started"
  BY <1>2, <1>3 DEF Inv, ValueInv
<1>4. CASE Terminated \/ UNCHANGED vars \/ StartNone \/ StartStopped \/ Aside
  BY <1>3, <1>4, AsideOnly DEF Terminated, vars, opState, StartNone, StartStopped
<1>5. CASE StartChild
  <2>1. pc' = [pc EXCEPT ![starter] = "running"] /\ starter \in Index /\ UNCHANGED opState
    BY <1>1, <1>5 DEF StartChild, Child, Index
  <2> QED
    BY <1>1, <1>3, <2>1 DEF opState, Through
<1>6. ASSUME NEW i \in Child, SetValue(i) PROVE ValueInv'
  <2>1. /\ "value" \in can[i] /\ pc[i] = "running"
        /\ pc' = [pc EXCEPT ![i] = "arrive"] /\ UNCHANGED state
        /\ values' = IF NoValues THEN values ELSE values \cup {i}
    BY <1>6 DEF SetValue, SendsValues, Go
  <2> QED
    BY <1>1, <1>2, <2>1 DEF Inv, ValueInv, Through
<1>7. ASSUME NEW i \in Child, SetValueThrows(i) \/ SetError(i) PROVE ValueInv'
  BY <1>1, <1>3, <1>7 DEF SetValueThrows, SetError, Go, opState, Through
<1>8. ASSUME NEW i \in Child, SetStopped(i) PROVE ValueInv'
  BY <1>1, <1>3, <1>8 DEF SetStopped, StateAfterStopped, Go, Through
<1>9. ASSUME NEW i \in Child, Exchange(i) PROVE ValueInv'
  BY <1>1, <1>3, <1>9 DEF Exchange, AfterExchange
<1>10. ASSUME NEW i \in Child, AskStop(i) \/ Emplace(i) PROVE ValueInv'
  <2>1. state # "started" /\ UNCHANGED <<state, values>>
    BY <1>10 DEF AskStop, Emplace, Inv, ErrorInv, ValueInv, Writing
  <2> QED
    BY <1>3, <2>1
<1>11. ASSUME NEW i \in Child, Arrive(i) \/ Complete(i) PROVE ValueInv'
  BY <1>1, <1>3, <1>11 DEF Arrive, Complete, Go, opState, Through
<1> QED
  BY <1>4, <1>5, <1>6, <1>7, <1>8, <1>9, <1>10, <1>11 DEF Next, Decide, Elsewhere, InCallback, SetAny, Proceed, Start, Outer, Aside

-----------------------------------------------------------------------------
(* The stop request                                                         *)

\* Who destroys the callback completes the receiver.
LEMMA SignalSent == Inv => /\ \A i \in Child : pc[i] = "complete" => Signal # <<>>
                           /\ n = 0 => Signal # <<>>
<1> SUFFICES ASSUME Inv PROVE /\ \A i \in Child : pc[i] = "complete" => Signal # <<>>
                              /\ n = 0 => Signal # <<>>
  OBVIOUS
<1>1. state \in {"started", "error", "stopped"}
  BY DEF Inv, TypeOK
<1>2. ASSUME NEW i \in Child, pc[i] = "complete", state = "started" PROVE ~NoValues
  <2>1. \A j \in Child : pc[j] \in Through
    BY <1>2 DEF Inv, BarrierInv, Through
  <2> QED
    BY <1>2, <2>1 DEF Inv, ValueInv, NoValues, SendsValues
<1>3. n = 0 => ~NoValues
  BY DEF NoValues, Child
<1> QED
  BY <1>1, <1>2, <1>3 DEF Signal

LEMMA NextRequestInv == Inv /\ [Next]_vars => RequestInv'
<1> SUFFICES ASSUME Inv, [Next]_vars PROVE RequestInv'
  OBVIOUS
<1>1. RequestInv /\ signals \in Seq([sig : Signals, by : 0..MaxChildren, as : {"none", "error", "eptr"}])
  BY DEF Inv, TypeOK
<1>2. ASSUME UNCHANGED <<token, onStop, outer, undefined, signals>>,
             stage # "construct" \/ stage' = stage, stopSource => stopSource'
      PROVE  RequestInv'
  BY <1>1, <1>2 DEF RequestInv, RequestNotLost
<1>3. CASE Terminated \/ UNCHANGED vars \/ EnterLoop \/ StartChild
  BY <1>2, <1>3 DEF Terminated, vars, opState, outside, EnterLoop, StartChild
<1>4. CASE Construct
  BY <1>4 DEF Construct, RunsHere, RequestInv, RequestNotLost
<1>5. ASSUME NEW s, s # <<>>, s \in Seq([sig : Signals, by : 0..MaxChildren, as : {"none", "error", "eptr"}]),
             signals' = signals \o s
      PROVE  RequestInv'
  <2>1. Len(s) > 0
    BY <1>5
  <2>2. signals' # <<>>
    BY <1>1, <1>5, <2>1
  <2> QED
    BY <2>2 DEF RequestInv, RequestNotLost
<1>6. CASE StartStopped
  <2> DEFINE s == <<[sig |-> "stopped", by |-> 0, as |-> "none"]>>
  <2>1. signals' = signals \o s /\ signals \o s # <<>>
    BY <1>1, <1>6 DEF StartStopped
  <2> QED
    BY <2>1 DEF RequestInv, RequestNotLost
<1>7. CASE StartNone
  <2>1. n = 0 /\ signals' = signals \o Signal
    BY <1>7 DEF StartNone
  <2>2. Signal # <<>> /\ Signal \in Seq([sig : Signals, by : 0..MaxChildren, as : {"none", "error", "eptr"}])
    BY <2>1, SignalSent, SignalType DEF Inv
  <2> QED
    BY <1>5, <2>1, <2>2
<1>8. ASSUME NEW i \in Child, Complete(i) PROVE RequestInv'
  <2>1. pc[i] = "complete" /\ signals' = signals \o Signal
    BY <1>8 DEF Complete, Go
  <2>2. Signal # <<>> /\ Signal \in Seq([sig : Signals, by : 0..MaxChildren, as : {"none", "error", "eptr"}])
    BY <2>1, SignalSent, SignalType DEF Inv
  <2> QED
    BY <1>5, <2>1, <2>2
<1>9. CASE OuterStop
  BY <1>1, <1>9 DEF OuterStop, opState, RequestInv, RequestNotLost
<1>10. CASE OuterAsk
  BY <1>10 DEF OuterAsk, RequestInv, RequestNotLost
<1>11. CASE OuterReturn
  BY <1>1, <1>11 DEF OuterReturn, opState, RequestInv, RequestNotLost
<1>12. ASSUME NEW i \in Child, Decide(i) PROVE RequestInv'
  BY <1>2, <1>12 DEF Decide, Elsewhere, InCallback, outside, opState, SetAny, SetValue, SetValueThrows,
                     SetError, SetStopped
<1>13. ASSUME NEW i \in Child, Exchange(i) \/ AskStop(i) \/ Emplace(i) \/ Arrive(i)
       PROVE  RequestInv'
  BY <1>2, <1>13 DEF Exchange, AskStop, Emplace, Arrive, outside
<1> QED
  BY <1>3, <1>4, <1>6, <1>7, <1>8, <1>9, <1>10, <1>11, <1>12, <1>13 DEF Next, Start, Outer, Proceed

-----------------------------------------------------------------------------
(* What holds in every behaviour                                            *)

\* Inv is inductive.
THEOREM Invariance == Spec => []Inv
<1>1. Inv /\ [Next]_vars => Inv'
  BY NextTypeOK, NextStartInv, NextCount, NextBarrierInv, NextErrorInv, NextValueInv,
     NextRequestInv DEF Inv
<1> QED
  BY <1>1, InitInv, PTL DEF Spec

\* The variables have their types: _count_ does not go below zero.
THEOREM TypeCorrect == Spec => []TypeOK
<1>1. Inv => TypeOK
  BY DEF Inv
<1> QED
  BY <1>1, Invariance, PTL

\* The barrier counts the children that have not arrived.
THEOREM CountCorrect == Spec => []CountIsNotArrived
<1>1. Inv => CountIsNotArrived
  BY DEF Inv
<1> QED
  BY <1>1, Invariance, PTL

\* However many children fail at once, one writes the error.
THEOREM OneWriter == Spec => []OneErrorWriter
<1>1. Inv => OneErrorWriter
  BY DEF Inv, ErrorInv, OneErrorWriter, Writing, Child, None
<1> QED
  BY <1>1, Invariance, PTL

\* The child that completes the receiver finds what it sends.
THEOREM CompleteReads == Spec => []CompleteReadsWhatWasWritten
<1>1. ASSUME Inv PROVE CompleteReadsWhatWasWritten
  <2> SUFFICES ASSUME NEW i \in Child, pc[i] = "complete"
               PROVE  /\ state = "error" => errors # None
                      /\ state = "started" => ~NoValues /\ values = Child
    BY DEF CompleteReadsWhatWasWritten
  <2>1. \A j \in Child : pc[j] \in {"complete", "done"}
    BY <1>1 DEF Inv, BarrierInv
  <2>2. state = "error" => errors # None
    BY <1>1, <2>1 DEF Inv, ErrorInv, Writing
  <2>3. state = "started" => ~NoValues /\ values = Child
    BY <1>1, <2>1 DEF Inv, ValueInv, NoValues, SendsValues, Through
  <2> QED
    BY <2>2, <2>3
<1> QED
  BY <1>1, Invariance, PTL

\* The receiver is completed once, by the last that touches the operation state.
THEOREM NoAccess == Spec => []NoAccessAfterCompletion
<1>1. ASSUME Inv PROVE NoAccessAfterCompletion
  <2>1. n \in Nat /\ starter \in Nat /\ Child \subseteq Index
    BY <1>1, MaxChildrenAssumption DEF Inv, TypeOK, Child, Index
  <2>2. CASE signals = <<>>
    BY <1>1, <2>2 DEF Inv, BarrierInv, NoAccessAfterCompletion
  <2>3. CASE stage = "abandoned"
    <3>1. \A i \in Child : pc[i] = "unstarted"
      BY <1>1, <2>1, <2>3 DEF Inv, StartInv, Child, Index
    <3> QED
      BY <1>1, <2>3, <3>1 DEF Inv, BarrierInv, NoAccessAfterCompletion
  <2>4. CASE signals # <<>> /\ stage # "abandoned"
    <3>1. stage = "loop"
      BY <1>1, <2>4 DEF Inv, StartInv, TypeOK
    <3>2. \A i \in Child : pc[i] = "done"
      BY <1>1, <2>4 DEF Inv, BarrierInv
    <3>3. starter > n
      <4>1. CASE n = 0
        BY <1>1, <2>1, <4>1 DEF Inv, TypeOK
      <4>2. CASE n # 0
        <5>1. n \in Child /\ n \in Index
          BY <2>1, <4>2 DEF Child
        <5> QED
          BY <1>1, <2>1, <3>2, <5>1 DEF Inv, StartInv
      <4> QED
        BY <4>1, <4>2
    <3> QED
      BY <1>1, <3>1, <3>2, <3>3 DEF Inv, BarrierInv, NoAccessAfterCompletion
  <2> QED
    BY <2>2, <2>3, <2>4
<1> QED
  BY <1>1, Invariance, PTL

\* Whether the receiver's source is asked to stop before, during or after start(), the
\* children's source is, for any number of children and wherever _lazy puts the callback.
THEOREM NoRequestLost == Spec => []RequestNotLost
<1>1. Inv => RequestNotLost
  BY DEF Inv, RequestInv
<1> QED
  BY <1>1, Invariance, PTL

-----------------------------------------------------------------------------
(* The promise of Join                                                      *)

\* Who asked the children to stop, and whose error is kept.
AskInv ==
  /\ outer # "idle" => token = "inplace"
  /\ stage = "construct" => ~stopSource /\ onStop = "none" /\ outer \in {"idle", "returned"}
  /\ stopSource => token = "inplace" \/ state # "started"
  /\ state # "started" =>
       stopSource \/ \E i \in Child : pc[i] \in {"ask", "ask_eptr", "ask_stopped"}
  /\ errors # None => errors.by \in Child
  /\ n = 0 => state = "started"

\* Nobody was asked before.
LEMMA InitAskInv == Init => AskInv
BY DEF Init, AskInv, None

\* A child asks the others after it reported, the receiver's token whenever it likes.
LEMMA NextAskInv == Inv /\ AskInv /\ [Next]_vars => AskInv'
<1> SUFFICES ASSUME Inv, AskInv, [Next]_vars PROVE AskInv'
  OBVIOUS
<1>1. /\ pc \in [Index -> Steps]
      /\ Child \subseteq Index
      /\ state \in {"started", "error", "stopped"}
      /\ stopSource \in BOOLEAN
      /\ n = 0 => Child = {}
  BY MaxChildrenAssumption DEF Inv, TypeOK, Steps, Child, Index
<1>2. UNCHANGED <<n, Child>>
  BY ChildrenStay
<1> DEFINE Asking == {"ask", "ask_eptr", "ask_stopped"}
<1>3. CASE Terminated \/ UNCHANGED vars
  BY <1>3 DEF Terminated, vars, opState, outside, AskInv, Child
<1>4. CASE StartStopped \/ EnterLoop \/ StartNone
  <2>1. /\ UNCHANGED <<token, outer, state, stopSource, errors, pc>>
        /\ stage' # "construct"
    BY <1>4 DEF StartStopped, EnterLoop, StartNone, DestroyOnStop, opState, outside
  <2> QED
    BY <1>2, <2>1 DEF AskInv
<1>5. CASE StartChild
  <2>1. /\ UNCHANGED <<token, outer, state, stopSource, errors>>
        /\ stage' # "construct"
        /\ starter \in Child /\ pc' = [pc EXCEPT ![starter] = "running"]
    BY <1>5 DEF StartChild, opState, outside
  <2>2. pc[starter] = "unstarted"
    BY <1>1, <2>1 DEF Inv, StartInv, Child, Index, TypeOK
  <2>3. \A i \in Child : pc[i] \in Asking => pc'[i] \in Asking
    BY <1>1, <2>1, <2>2
  <2> QED
    BY <1>2, <2>1, <2>3 DEF AskInv
<1>6. CASE Construct
  <2>1. /\ UNCHANGED <<token, outer, state, errors, pc>>
        /\ stage = "construct" /\ stage' = "check"
        /\ stopSource' = (outer # "idle")
    BY <1>6 DEF Construct, RunsHere
  <2> QED
    BY <1>2, <2>1 DEF AskInv
<1>7. CASE OuterStop
  <2>1. /\ UNCHANGED <<token, state, stopSource, errors, pc, stage>>
        /\ token = "inplace" /\ onStop' = "none"
        /\ outer' = IF onStop = "none" THEN "returned" ELSE "body"
    BY <1>7 DEF OuterStop, opState
  <2> QED
    BY <1>2, <2>1 DEF AskInv
<1>8. CASE OuterAsk
  <2>1. /\ UNCHANGED <<token, state, errors, pc, stage>>
        /\ outer = "body" /\ stopSource'
    BY <1>8 DEF OuterAsk
  <2> QED
    BY <1>2, <2>1 DEF AskInv
<1>9. CASE OuterReturn
  <2>1. /\ UNCHANGED <<token, onStop, state, stopSource, errors, pc, stage>>
        /\ outer = "asking" /\ outer' = "returned"
    BY <1>9 DEF OuterReturn, opState
  <2> QED
    BY <1>2, <2>1 DEF AskInv
<1>10. ASSUME NEW i \in Child, Decide(i) \/ Proceed(i),
              state # "started" => state' # "started",
              state' # "started" => state # "started" \/ pc'[i] \in Asking,
              pc[i] \in Asking => stopSource',
              stopSource => stopSource',
              stopSource' => stopSource \/ state' # "started",
              errors' = errors \/ errors'.by = i
       PROVE  AskInv'
  <2>1. UNCHANGED <<token, outer, stage>> /\ (onStop' = onStop \/ stage # "construct")
    <3>1. stage = "loop"
      <4>1. pc[i] # "unstarted"
        BY <1>10 DEF Decide, Elsewhere, InCallback, SetAny, Proceed, SetValue, SetValueThrows,
                     SetError, SetStopped, Exchange, AskStop, Emplace, Arrive, Complete, Go
      <4> QED
        BY <1>1, <4>1 DEF Inv, StartInv, Index, Child, TypeOK
    <3>2. UNCHANGED <<token, outer, stage>>
      BY <1>10 DEF Decide, Elsewhere, InCallback, SetAny, Proceed, SetValue, SetValueThrows,
                   SetError, SetStopped, Exchange, AskStop, Emplace, Arrive, Complete,
                   DestroyOnStop, outside
    <3> QED
      BY <3>1, <3>2
  <2>2. \A j \in Child : j # i => pc'[j] = pc[j]
    BY <1>1, <1>10 DEF Decide, Elsewhere, InCallback, SetAny, Proceed, SetValue, SetValueThrows,
                       SetError, SetStopped, Exchange, AskStop, Emplace, Arrive, Complete, Go
  <2>3. stage # "construct"
    BY <2>1, <1>10, <1>1 DEF Inv, StartInv, Index, Child, TypeOK, Decide, Elsewhere, InCallback,
                       SetAny, Proceed, SetValue, SetValueThrows, SetError, SetStopped, Exchange,
                       AskStop, Emplace, Arrive, Complete, Go
  <2>4. n # 0
    BY <1>1
  <2>5. state' # "started" => stopSource' \/ \E j \in Child : pc'[j] \in Asking
    <3>1. CASE state # "started"
      <4>1. CASE stopSource
        BY <1>10, <4>1
      <4>2. CASE ~stopSource
        <5>1. PICK j \in Child : pc[j] \in Asking
          BY <3>1, <4>2 DEF AskInv
        <5> QED
          BY <1>10, <2>2, <5>1
      <4> QED
        BY <4>1, <4>2
    <3>2. CASE state = "started"
      BY <1>10, <3>2
    <3> QED
      BY <3>1, <3>2
  <2>6. errors' # None => errors'.by \in Child
    BY <1>10 DEF AskInv
  <2>7. stopSource' => token = "inplace" \/ state' # "started"
    BY <1>10 DEF AskInv
  <2>8. outer # "idle" => token = "inplace"
    BY DEF AskInv
  <2> QED
    BY <1>2, <2>1, <2>3, <2>4, <2>5, <2>6, <2>7, <2>8 DEF AskInv
<1>11. ASSUME NEW i \in Child, Decide(i) PROVE AskInv'
  <2>1. pc[i] = "running" /\ UNCHANGED <<errors, stopSource>>
    BY <1>11 DEF Decide, Elsewhere, InCallback, SetAny, SetValue, SetValueThrows, SetError,
                 SetStopped, Go, opState
  <2>2. state' = state \/ (state = "started" /\ state' = "stopped" /\ pc'[i] = "ask_stopped")
    BY <1>1, <1>11 DEF Decide, Elsewhere, InCallback, SetAny, SetValue, SetValueThrows, SetError,
                       SetStopped, StateAfterStopped, Go, opState
  <2> QED
    BY <1>10, <1>11, <2>1, <2>2
<1>12. ASSUME NEW i \in Child, Exchange(i) PROVE AskInv'
  <2>1. /\ pc[i] \notin Asking /\ state' = "error" /\ UNCHANGED <<errors, stopSource>>
        /\ pc' = [pc EXCEPT ![i] = AfterExchange(@)]
    BY <1>12 DEF Exchange
  <2>2. state # "error" => pc'[i] \in Asking
    BY <1>1, <2>1 DEF AfterExchange
  <2> QED
    BY <1>10, <1>12, <2>1, <2>2 DEF Proceed
<1>13. ASSUME NEW i \in Child, AskStop(i) PROVE AskInv'
  <2>1. state # "started" /\ UNCHANGED <<state, errors>> /\ stopSource'
    BY <1>13 DEF AskStop, Inv, ErrorInv, ValueInv, Writing
  <2> QED
    BY <1>10, <1>13, <2>1 DEF Proceed
<1>14. ASSUME NEW i \in Child, Emplace(i) PROVE AskInv'
  <2>1. UNCHANGED <<state, stopSource>> /\ pc[i] \notin Asking /\ errors'.by = i
    BY <1>14 DEF Emplace
  <2> QED
    BY <1>10, <1>14, <2>1 DEF Proceed
<1>15. ASSUME NEW i \in Child, Arrive(i) \/ Complete(i) PROVE AskInv'
  <2>1. UNCHANGED <<state, stopSource, errors>> /\ pc[i] \notin Asking
    BY <1>15 DEF Arrive, Complete, Go, opState
  <2> QED
    BY <1>10, <1>15, <2>1 DEF Proceed
<1> QED
  BY <1>3, <1>4, <1>5, <1>6, <1>7, <1>8, <1>9, <1>11, <1>12, <1>13, <1>14, <1>15
     DEF Next, Start, Outer, Proceed

\* What the bars are, as functions of the values they depend on.
VerdictOf(s, w) ==
  CASE s = "started" -> Verdict("value", 0)
    [] s = "stopped" -> Verdict("stopped", 0)
    [] OTHER -> ErrorOf(CHOOSE i \in w : TRUE)
SignalOf(x) == Verdict(x.sig, IF x.sig = "error" THEN x.by ELSE 0)
DeliveredOf(s) ==
  {Verdict(s[k].sig, IF s[k].sig = "error" THEN s[k].by ELSE 0) : k \in 1..Len(s)}

\* The bars depend on nothing else.
LEMMA Bars ==
  /\ verdictBar = VerdictOf(state, winner) /\ verdictBar' = VerdictOf(state', winner')
  /\ deliveredBar = DeliveredOf(signals) /\ deliveredBar' = DeliveredOf(signals')
BY DEF verdictBar, deliveredBar, VerdictOf, DeliveredOf

\* The verdicts, which are different signals.
LEMMA Verdicts ==
  /\ \A w : VerdictOf("started", w) = Verdict("value", 0)
  /\ \A w : VerdictOf("stopped", w) = Verdict("stopped", 0)
  /\ \A i : VerdictOf("error", {i}) = ErrorOf(i)
  /\ Verdict("stopped", 0) # Verdict("value", 0)
  /\ \A i : ErrorOf(i) # Verdict("value", 0) /\ ErrorOf(i) # Verdict("stopped", 0)
<1>1. \A i : (CHOOSE j \in {i} : TRUE) = i
  OBVIOUS
<1> QED
  BY <1>1 DEF VerdictOf, Verdict, ErrorOf

\* A signal delivered is one of Join's.
LEMMA DeliveredIs ==
  /\ DeliveredOf(<<>>) = {}
  /\ \A x : DeliveredOf(<<x>>) = {SignalOf(x)}
<1>1. DeliveredOf(<<>>) = {}
  BY DEF DeliveredOf
<1>2. ASSUME NEW x PROVE DeliveredOf(<<x>>) = {SignalOf(x)}
  <2>1. Len(<<x>>) = 1 /\ <<x>>[1] = x /\ 1..1 = {1}
    OBVIOUS
  <2> QED
    BY <2>1 DEF DeliveredOf, SignalOf
<1> QED
  BY <1>1, <1>2

\* The child whose error is kept.
LEMMA WinnerIs ==
  ASSUME Inv, AskInv
  PROVE  /\ \A i \in Child : pc[i] \in Writing => winner = {i} /\ state = "error"
         /\ errors # None => winner = {errors.by}
         /\ state = "error" => verdictBar # Verdict("value", 0)
<1>1. winner = {i \in Child : pc[i] \in Writing \/ errors.by = i}
  BY DEF winner, Writing
<1>2. ASSUME NEW i \in Child, pc[i] \in Writing PROVE winner = {i} /\ state = "error"
  <2>1. /\ state = "error" /\ errors = None
        /\ \A j \in Child : pc[j] \in Writing => j = i
    BY <1>2 DEF Inv, ErrorInv
  <2>2. \A j \in Child : errors.by # j
    BY <2>1, MaxChildrenAssumption DEF None, Child, Inv, TypeOK
  <2> QED
    BY <1>1, <1>2, <2>1, <2>2
<1>3. ASSUME errors # None PROVE winner = {errors.by}
  <2>1. errors.by \in Child /\ \A j \in Child : pc[j] \notin Writing
    BY <1>3 DEF Inv, ErrorInv, AskInv
  <2> QED
    BY <1>1, <2>1
<1>4. state = "error" => verdictBar # Verdict("value", 0)
  <2> SUFFICES ASSUME state = "error" PROVE \E i : winner = {i}
    BY Bars, Verdicts
  <2> QED
    BY <1>2, <1>3 DEF Inv, ErrorInv
<1> QED
  BY <1>2, <1>3, <1>4

\* A step that leaves the bars alone.
LEMMA StutterPromise ==
  ASSUME UNCHANGED <<token, stage, NotArrived, stopSource, signals>>,
         VerdictOf(state', winner') = VerdictOf(state, winner)
  PROVE  UNCHANGED Promise!vars
<1>1. verdictBar' = verdictBar /\ deliveredBar' = deliveredBar
  BY Bars
<1> QED
  BY <1>1 DEF Promise!vars

\* A new operation has delivered nothing.
LEMMA InitPromise == Init => Promise!Init
<1> SUFFICES ASSUME Init PROVE Promise!Init
  OBVIOUS
<1>1. verdictBar = Verdict("value", 0) /\ deliveredBar = {}
  BY Bars, Verdicts, DeliveredIs DEF Init
<1>2. NotArrived \in SUBSET Index
  BY MaxChildrenAssumption DEF Init, NotArrived, Child, Index
<1>3. stage = "construct" /\ stopSource = FALSE
  BY DEF Init
<1> QED
  BY <1>1, <1>2, <1>3 DEF Promise!Init

\* The steps of start() and of the outer source.
LEMMA StartPromise ==
  ASSUME Inv, AskInv, Start \/ OuterStop \/ Outer \/ Terminated \/ UNCHANGED vars
  PROVE  [Promise!Next]_(Promise!vars)
<1>1. /\ pc \in [Index -> Steps]
      /\ Child \subseteq Index
      /\ stopSource \in BOOLEAN
  BY MaxChildrenAssumption DEF Inv, TypeOK, Steps, Child, Index
<1>2. CASE Terminated \/ UNCHANGED vars \/ OuterStop \/ OuterReturn
  <2>1. UNCHANGED <<n, token, stage, pc, stopSource, signals, state, errors>>
    BY <1>2 DEF Terminated, vars, OuterStop, OuterReturn, opState, outside
  <2>2. UNCHANGED <<NotArrived, winner>>
    BY <2>1 DEF NotArrived, winner, Child
  <2> QED
    BY <2>1, <2>2, StutterPromise
<1>3. CASE StartChild
  <2>1. /\ UNCHANGED <<n, token, stage, stopSource, signals, state, errors>>
        /\ starter \in Child /\ pc' = [pc EXCEPT ![starter] = "running"]
    BY <1>3 DEF StartChild, opState, outside
  <2>2. pc[starter] = "unstarted"
    BY <1>1, <2>1 DEF Inv, StartInv, Child, Index, TypeOK
  <2>3. UNCHANGED <<NotArrived, winner>>
    BY <1>1, <2>1, <2>2 DEF NotArrived, winner, Child
  <2> QED
    BY <2>1, <2>3, StutterPromise
<1>4. CASE OuterAsk \/ Construct
  <2>1. /\ UNCHANGED <<n, token, pc, signals, state, errors>>
        /\ (stage = "loop")' = (stage = "loop")
        /\ (stage = "abandoned")' = (stage = "abandoned")
    BY <1>4 DEF OuterAsk, Construct
  <2>2. UNCHANGED <<NotArrived, winner, verdictBar, deliveredBar>>
    <3>1. UNCHANGED <<NotArrived, winner>>
      BY <2>1 DEF NotArrived, winner, Child
    <3> QED
      BY <2>1, <3>1, Bars
  <2>3. stopSource' = stopSource \/ (token = "inplace" /\ stopSource' = TRUE)
    BY <1>1, <1>4 DEF OuterAsk, Construct, RunsHere, AskInv
  <2>4. CASE stopSource' = stopSource
    BY <2>1, <2>2, <2>4 DEF Promise!vars
  <2>5. CASE token = "inplace" /\ stopSource' = TRUE
    <3>1. Promise!Ask
      BY <2>1, <2>2, <2>5 DEF Promise!Ask
    <3> QED
      BY <3>1 DEF Promise!Next
  <2> QED
    BY <2>3, <2>4, <2>5
<1>5. CASE EnterLoop
  <2>1. /\ UNCHANGED <<n, token, pc, stopSource, signals, state, errors>>
        /\ stage = "check" /\ stage' = "loop" /\ signals = <<>>
    BY <1>5 DEF EnterLoop, opState, outside, Inv, StartInv
  <2>2. UNCHANGED <<NotArrived, winner, verdictBar, deliveredBar>> /\ deliveredBar = {}
    <3>1. UNCHANGED <<NotArrived, winner>>
      BY <2>1 DEF NotArrived, winner, Child
    <3> QED
      BY <2>1, <3>1, Bars, DeliveredIs
  <2>3. Promise!Begin
    BY <2>1, <2>2 DEF Promise!Begin
  <2> QED
    BY <2>3 DEF Promise!Next
<1>6. CASE StartStopped
  <2>1. /\ UNCHANGED <<n, token, pc, stopSource, state, errors>>
        /\ stage = "check" /\ stage' = "abandoned" /\ stopSource
        /\ signals = <<>>
        /\ signals' = signals \o <<[sig |-> "stopped", by |-> 0, as |-> "none"]>>
    BY <1>6 DEF StartStopped, DestroyOnStop, opState, Inv, StartInv
  <2>2. UNCHANGED verdictBar
    <3>1. UNCHANGED winner
      BY <2>1 DEF winner, Child
    <3> QED
      BY <2>1, <3>1, Bars
  <2>3. deliveredBar = {} /\ deliveredBar' = {Verdict("stopped", 0)}
    <3>1. signals' = <<[sig |-> "stopped", by |-> 0, as |-> "none"]>>
      BY <2>1
    <3> QED
      BY <2>1, <3>1, Bars, DeliveredIs DEF SignalOf
  <2>4. Promise!Abandon
    BY <2>1, <2>2, <2>3 DEF Promise!Abandon
  <2> QED
    BY <2>4 DEF Promise!Next
<1>7. CASE StartNone
  <2>1. /\ UNCHANGED <<n, token, stage, pc, stopSource, state, errors>>
        /\ stage = "loop" /\ n = 0 /\ state = "started" /\ signals = <<>>
        /\ signals' = signals \o Signal
    BY <1>7 DEF StartNone, DestroyOnStop, opState, Inv, StartInv, AskInv
  <2>2. Child = {}
    BY <2>1 DEF Child
  <2>3. Signal = <<[sig |-> "value", by |-> Cardinality(values), as |-> "none"]>>
    BY <2>1, <2>2 DEF Signal, NoValues
  <2>4. deliveredBar = {} /\ deliveredBar' = {Verdict("value", 0)}
    <3>1. signals' = <<[sig |-> "value", by |-> Cardinality(values), as |-> "none"]>>
      BY <2>1, <2>3
    <3> QED
      BY <2>1, <3>1, Bars, DeliveredIs DEF SignalOf
  <2>5. verdictBar = Verdict("value", 0) /\ UNCHANGED verdictBar
    BY <2>1, Bars, Verdicts
  <2>6. NotArrived = {} /\ NotArrived' = {}
    BY <2>1, <2>2 DEF NotArrived, Child
  <2>7. Promise!Deliver
    BY <2>1, <2>4, <2>5, <2>6 DEF Promise!Deliver
  <2> QED
    BY <2>7 DEF Promise!Next
<1> QED
  BY <1>2, <1>3, <1>4, <1>5, <1>6, <1>7 DEF Start, Outer

\* A child that is in its receiver has been started.
LEMMA InLoop ==
  ASSUME Inv, NEW i \in Child, pc[i] # "unstarted"
  PROVE  stage = "loop"
BY MaxChildrenAssumption DEF Inv, StartInv, TypeOK, Child, Index

\* The steps of a child up to its arrival.
LEMMA ReportPromise ==
  ASSUME Inv, AskInv, NEW i \in Child,
         Decide(i) \/ Exchange(i) \/ AskStop(i) \/ Emplace(i)
  PROVE  [Promise!Next]_(Promise!vars)
<1>1. /\ pc \in [Index -> Steps]
      /\ Child \subseteq Index
      /\ state \in {"started", "error", "stopped"}
  BY MaxChildrenAssumption DEF Inv, TypeOK, Steps, Child, Index
<1>2. /\ UNCHANGED <<n, token, stage, signals>>
      /\ pc[i] \notin {"unstarted", "complete", "done"}
      /\ pc'[i] \notin {"complete", "done"}
      /\ \A j \in Child : j # i => pc'[j] = pc[j]
  BY <1>1 DEF Decide, Elsewhere, InCallback, SetAny, SetValue, SetValueThrows, SetError,
              SetStopped, Exchange, AskStop, Emplace, Go, AfterExchange, AfterAsk, outside
<1>3. stage = "loop" /\ i \in NotArrived
  BY <1>2, InLoop DEF NotArrived
<1>4. UNCHANGED <<NotArrived, deliveredBar>>
  <2>1. UNCHANGED NotArrived
    BY <1>2 DEF NotArrived, Child
  <2> QED
    BY <1>2, <2>1, Bars
<1>5. winner = {j \in Child : pc[j] \in Writing \/ errors.by = j}
  BY DEF winner, Writing
<1>6. winner' = {j \in Child : pc'[j] \in Writing \/ errors'.by = j}
  BY <1>2 DEF winner, Writing, Child
<1>7. ASSUME UNCHANGED stopSource, UNCHANGED verdictBar PROVE UNCHANGED Promise!vars
  BY <1>2, <1>4, <1>7, Bars, StutterPromise
<1>8. ASSUME NEW v \in {Verdict("stopped", 0), ErrorOf(i)}, UNCHANGED stopSource,
             verdictBar' = v,
             \/ verdictBar = Verdict("value", 0)
             \/ verdictBar = Verdict("stopped", 0) /\ v # Verdict("stopped", 0)
      PROVE  Promise!Report(v)
  BY <1>2, <1>3, <1>4, <1>8 DEF Promise!Report
<1>9. CASE Decide(i)
  <2>1. /\ UNCHANGED <<stopSource, errors>> /\ pc[i] \notin Writing /\ pc'[i] \notin Writing
        /\ \/ UNCHANGED state
           \/ state = "started" /\ state' = "stopped"
    BY <1>1, <1>9 DEF Decide, Elsewhere, InCallback, SetAny, SetValue, SetValueThrows, SetError,
                      SetStopped, StateAfterStopped, Go, opState, Writing
  <2>2. UNCHANGED winner
    BY <1>2, <1>5, <1>6, <2>1
  <2>3. CASE UNCHANGED state
    BY <1>7, <2>1, <2>2, <2>3, Bars
  <2>4. CASE state = "started" /\ state' = "stopped"
    <3>1. verdictBar = Verdict("value", 0) /\ verdictBar' = Verdict("stopped", 0)
      BY <2>4, Bars, Verdicts
    <3>2. Promise!Report(Verdict("stopped", 0))
      BY <1>8, <2>1, <3>1
    <3> QED
      BY <3>2 DEF Promise!Next
  <2> QED
    BY <2>1, <2>3, <2>4
<1>10. CASE Exchange(i)
  <2>1. /\ UNCHANGED <<stopSource, errors>> /\ state' = "error" /\ pc[i] \notin Writing
        /\ pc' = [pc EXCEPT ![i] = AfterExchange(@)]
        /\ pc[i] \in {"exchange", "exchange_eptr"}
    BY <1>10 DEF Exchange, Writing
  <2>2. CASE state = "error"
    <3>1. UNCHANGED winner
      BY <1>1, <1>2, <1>5, <1>6, <2>1, <2>2 DEF AfterExchange, Writing
    <3> QED
      BY <1>7, <2>1, <2>2, <3>1, Bars
  <2>3. CASE state # "error"
    <3>1. pc'[i] \in Writing
      BY <1>1, <2>1, <2>3 DEF AfterExchange, Writing
    <3>2. /\ \A j \in Child : pc[j] \notin Writing
          /\ errors = None
      BY <2>3 DEF Inv, ErrorInv
    <3>3. \A j \in Child : errors.by # j
      BY <3>2, MaxChildrenAssumption DEF None, Child, Inv, TypeOK
    <3>4. winner' = {i}
      BY <1>2, <1>6, <2>1, <3>1, <3>2, <3>3
    <3>5. verdictBar' = ErrorOf(i)
      BY <2>1, <3>4, Bars, Verdicts
    <3>6. verdictBar \in {Verdict("value", 0), Verdict("stopped", 0)}
      BY <1>1, <2>3, Bars, Verdicts
    <3>7. Promise!Report(ErrorOf(i))
      BY <1>8, <2>1, <3>5, <3>6, Verdicts
    <3> QED
      BY <1>1, <3>7 DEF Promise!Next
  <2> QED
    BY <2>2, <2>3
<1>11. CASE AskStop(i)
  <2>1. /\ UNCHANGED <<state, errors>> /\ stopSource' = TRUE /\ state # "started"
        /\ pc'[i] \in Writing <=> pc[i] \in Writing
    BY <1>1, <1>11 DEF AskStop, AfterAsk, Writing, Inv, ErrorInv, ValueInv
  <2>2. UNCHANGED <<winner, verdictBar>>
    <3>1. UNCHANGED winner
      BY <1>2, <1>5, <1>6, <2>1
    <3> QED
      BY <2>1, <3>1, Bars
  <2>3. verdictBar # Verdict("value", 0)
    BY <1>1, <2>1, WinnerIs, Bars, Verdicts
  <2>4. Promise!Ask
    BY <1>2, <1>3, <1>4, <2>1, <2>2, <2>3 DEF Promise!Ask
  <2> QED
    BY <2>4 DEF Promise!Next
<1>12. CASE Emplace(i)
  <2>1. /\ UNCHANGED <<state, stopSource>> /\ errors'.by = i
        /\ pc[i] \in Writing /\ pc'[i] = "arrive"
    BY <1>1, <1>12 DEF Emplace, Writing
  <2>2. winner = {i} /\ \A j \in Child : pc[j] \in Writing => j = i
    BY <2>1, WinnerIs DEF Inv, ErrorInv
  <2>3. winner' = {i}
    BY <1>2, <1>6, <2>1, <2>2 DEF Writing
  <2> QED
    BY <1>7, <2>1, <2>2, <2>3, Bars
<1> QED
  BY <1>9, <1>10, <1>11, <1>12

\* The last child arrives after the others were asked; it completes the receiver.
LEMMA ArrivePromise ==
  ASSUME Inv, AskInv, NEW i \in Child, Arrive(i) \/ Complete(i)
  PROVE  Promise!Next
<1>1. /\ pc \in [Index -> Steps]
      /\ Child \subseteq Index
      /\ state \in {"started", "error", "stopped"}
      /\ stopSource \in BOOLEAN
  BY MaxChildrenAssumption DEF Inv, TypeOK, Steps, Child, Index
<1>2. /\ UNCHANGED <<n, token, stage, stopSource, state, errors>>
      /\ pc[i] \in {"arrive", "complete"} /\ pc'[i] \in {"complete", "done"}
      /\ \A j \in Child : j # i => pc'[j] = pc[j]
  BY <1>1 DEF Arrive, Complete, Go, DestroyOnStop, opState, outside
<1>3. stage = "loop"
  BY <1>2, InLoop
<1>4. UNCHANGED <<winner, verdictBar>>
  <2>1. UNCHANGED winner
    BY <1>2 DEF winner, Child
  <2> QED
    BY <1>2, <2>1, Bars
<1>5. CASE Arrive(i)
  <2>1. pc[i] = "arrive" /\ UNCHANGED signals
    BY <1>5 DEF Arrive, Go
  <2>2. i \in NotArrived /\ NotArrived' = NotArrived \ {i}
    BY <1>2, <2>1 DEF NotArrived, Child
  <2>3. UNCHANGED deliveredBar
    BY <2>1, Bars
  <2>4. verdictBar = Verdict("value", 0) <=> state = "started"
    BY <1>1, WinnerIs, Bars, Verdicts
  <2>5. NotArrived = {i} /\ state # "started" => stopSource
    BY <2>1 DEF AskInv, NotArrived
  <2>6. token # "inplace" /\ stopSource => state # "started"
    BY DEF AskInv
  <2>7. NotArrived = {i} /\ verdictBar # Verdict("value", 0) => stopSource
    BY <2>4, <2>5
  <2>8. NotArrived = {i} /\ ~(token = "inplace")
          => stopSource = (verdictBar # Verdict("value", 0))
    BY <1>1, <2>4, <2>5, <2>6
  <2>9. Promise!Arrive(i)
    BY <1>2, <1>3, <1>4, <2>2, <2>3, <2>7, <2>8 DEF Promise!Arrive
  <2> QED
    BY <1>1, <2>9 DEF Promise!Next
<1>6. CASE Complete(i)
  <2>1. pc[i] = "complete" /\ signals' = signals \o Signal
    BY <1>6 DEF Complete, Go
  <2>2. signals = <<>> /\ \A j \in Child : pc[j] \in {"complete", "done"}
    BY <2>1 DEF Inv, BarrierInv
  <2>3. NotArrived = {} /\ NotArrived' = {}
    BY <1>2, <2>2 DEF NotArrived, Child
  <2>4. \E x : Signal = <<x>> /\ SignalOf(x) = verdictBar
    <3>1. CASE state = "error"
      <4>1. errors # None
        BY <2>2, <3>1 DEF Inv, ErrorInv, Writing
      <4>2. verdictBar = ErrorOf(errors.by)
        BY <3>1, <4>1, WinnerIs, Bars, Verdicts
      <4>3. Signal = <<[sig |-> "error", by |-> errors.by, as |-> errors.as]>>
        BY <3>1 DEF Signal
      <4> QED
        BY <4>2, <4>3 DEF SignalOf, ErrorOf
    <3>2. CASE state = "stopped"
      <4>1. Signal = <<[sig |-> "stopped", by |-> 0, as |-> "none"]>>
        BY <3>2 DEF Signal
      <4> QED
        BY <3>2, <4>1, Bars, Verdicts DEF SignalOf
    <3>3. CASE state = "started"
      <4>1. ~NoValues
        BY <2>2, <3>3 DEF Inv, ValueInv, NoValues, SendsValues, Through
      <4>2. Signal = <<[sig |-> "value", by |-> Cardinality(values), as |-> "none"]>>
        BY <3>3, <4>1 DEF Signal
      <4> QED
        BY <3>3, <4>2, Bars, Verdicts DEF SignalOf
    <3> QED
      BY <1>1, <3>1, <3>2, <3>3
  <2>5. deliveredBar = {} /\ deliveredBar' = {verdictBar}
    <3>1. PICK x : Signal = <<x>> /\ SignalOf(x) = verdictBar
      BY <2>4
    <3>2. signals' = <<x>>
      BY <2>1, <2>2, <3>1
    <3> QED
      BY <2>2, <3>1, <3>2, Bars, DeliveredIs
  <2>6. Promise!Deliver
    BY <1>2, <1>3, <1>4, <2>3, <2>5 DEF Promise!Deliver
  <2> QED
    BY <2>6 DEF Promise!Next
<1> QED
  BY <1>5, <1>6

\* when_all keeps the promise of Join: it waits for all its children, has the others
\* asked to stop once one failed or was stopped, and sends one signal, the one that
\* the first error, else a stop, else the values of all of them call for.
THEOREM ImplementsTheJoin == Spec => ImplementsJoin
<1>1. Spec => []AskInv
  <2>1. Inv /\ AskInv /\ [Next]_vars => AskInv'
    BY NextAskInv
  <2> QED
    BY <2>1, InitAskInv, Invariance, PTL DEF Spec
<1>2. Inv /\ AskInv /\ [Next]_vars => [Promise!Next]_(Promise!vars)
  <2> SUFFICES ASSUME Inv, AskInv, [Next]_vars PROVE [Promise!Next]_(Promise!vars)
    OBVIOUS
  <2> QED
    BY StartPromise, ReportPromise, ArrivePromise DEF Next, Proceed
<1> QED
  BY <1>1, <1>2, InitPromise, Invariance, PTL DEF Spec, ImplementsJoin, Promise!Spec

=============================================================================
