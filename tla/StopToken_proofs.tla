--------------------------- MODULE StopToken_proofs ---------------------------
(***************************************************************************)
(* Proofs about StopToken, for any threads and callbacks: the types, the   *)
(* discipline of the lock that shares a byte with the stop flag, the list, *)
(* the life of the callbacks, and that the source implements, step by      *)
(* step, what StopCallbacks promises.                                      *)
(*                                                                         *)
(* The inductive invariant is built in two layers.  Inv is about the lock. *)
(* The types alone are not inductive: an unlock subtracts the lock bit, so *)
(* it must be set, and a destructor follows the links of its argument, so  *)
(* that must be a callback.  The lock alone is not either: a constructor   *)
(* unlocks by storing 0, so the flag must be clear for as long as it holds *)
(* the lock.                                                               *)
(*                                                                         *)
(* FullInv adds the callbacks: who constructs or destroys each             *)
(* (OperationInv), where it is in its life (CallbackInv), that the one     *)
(* request_stop has in hand exists (RequestInv), and that the links are a  *)
(* list without a ring beside it (ListInv).  None of the four is inductive *)
(* without the others: a destructor may only return if its callback is out *)
(* of the list and not in hand, and a callback is out of hand or in the    *)
(* list for as long as the thread in its destructor is the only one.       *)
(***************************************************************************)
EXTENDS StopToken, TLAPS

\* The thread's operation has an argument.
HasArgument == \A t \in Threads : pc[t] # "client" => arg[t] \in Callbacks

InCriticalSection(t) == pc[t] \in {"reg_link", "dtor_cs"}

\* LockDiscipline, thread by thread.
LockInv ==
  /\ Locked <=> rs = "loop" \/ \E t \in Threads : InCriticalSection(t)
  /\ rs = "loop" => \A t \in Threads : ~InCriticalSection(t)
  /\ \A t, u \in Threads : InCriticalSection(t) /\ InCriticalSection(u) => t = u

\* The flag is set exactly when a request_stop call has set it; a constructor in
\* its critical section excludes that.
FlagInv ==
  /\ StopRequested <=> rs # "none"
  /\ \A t \in Threads : pc[t] = "reg_link" => ~StopRequested

Inv == TypeOK /\ HasArgument /\ LockInv /\ FlagInv

-----------------------------------------------------------------------------

\* A source as constructed: unlocked, no request, no operation under way.
LEMMA InitInv == Init => Inv
<1> SUFFICES ASSUME Init PROVE Inv
  OBVIOUS
<1>1. TypeOK
  <2>1. state \in 0..3
    BY DEF Init
  <2>2. removed \in BOOLEAN
    BY DEF Init
  <2>3. rs \in {"none", "loop", "exec", "body", "after", "relock", "done"}
    BY DEF Init
  <2>4. /\ source \in [Callbacks -> BOOLEAN]
        /\ removedPtr \in [Callbacks -> BOOLEAN]
        /\ completed \in [Callbacks -> BOOLEAN]
    BY DEF Init
  <2>5. /\ next \in [Callbacks -> Callbacks \cup {Null}]
        /\ prev \in [Callbacks -> Callbacks \cup {Head, Null}]
        /\ arg \in [Threads -> Callbacks \cup {Null}]
        /\ maker \in [Callbacks -> Threads \cup {NoThread}]
    BY DEF Init
  <2>6. /\ pc \in [Threads -> {"client", "reg_try", "reg_link", "dtor_lock",
                               "dtor_cs", "dtor_self", "dtor_wait"}]
        /\ life \in [Callbacks -> {"dead", "constructing", "inline", "live", "dying"}]
        /\ runs \in [Callbacks -> Nat]
    BY DEF Init
  <2> QED
    BY <2>1, <2>2, <2>3, <2>4, <2>5, <2>6 DEF Init, TypeOK
<1>2. HasArgument
  BY DEF Init, HasArgument
<1>3. ~Locked /\ ~StopRequested /\ rs = "none"
  BY DEF Init, Locked, StopRequested, StopFlag, LockFlag
<1>4. \A t \in Threads : pc[t] = "client"
  BY DEF Init
<1>5. LockInv
  BY <1>3, <1>4 DEF LockInv, InCriticalSection
<1>6. FlagInv
  BY <1>3 DEF FlagInv
<1> QED
  BY <1>1, <1>2, <1>5, <1>6 DEF Inv

\* What every step keeps of the types.
LEMMA NextTypeOK == Inv /\ [Next]_vars => TypeOK'
<1> SUFFICES ASSUME Inv, [Next]_vars PROVE TypeOK'
  OBVIOUS
<1> USE ConstantsAssumption DEF Inv, TypeOK, HasArgument
<1>1. ASSUME NEW t \in Threads, NEW c \in Callbacks, Construct(t, c) PROVE TypeOK'
  BY <1>1 DEF Construct, sourceVars, rsVars
<1>2. ASSUME NEW t \in Threads, RegisterLock(t) PROVE TypeOK'
  BY <1>2 DEF RegisterLock, cbVars, rsVars, LockFlag
<1>3. ASSUME NEW t \in Threads, RegisterLink(t) PROVE TypeOK'
  BY <1>3 DEF RegisterLink, PrevAfterPush, rsVars
<1>4. ASSUME NEW t \in Threads, RegisterFail(t) PROVE TypeOK'
  BY <1>4 DEF RegisterFail, sourceVars, rsVars
<1>5. ASSUME NEW t \in Threads, NEW c \in Callbacks, InlineReturn(t, c) PROVE TypeOK'
  BY <1>5 DEF InlineReturn, sourceVars, cbVars, rsVars
<1>6. ASSUME NEW t \in Threads, RequestStop(t) PROVE TypeOK'
  BY <1>6 DEF RequestStop, cbVars, clientVars, StopFlag, LockFlag
<1>7. ASSUME StopPop PROVE TypeOK'
  BY <1>7 DEF StopPop, HeadAfterPop, clientVars, StopFlag
<1>8. ASSUME StopExecute PROVE TypeOK'
  <2>1. removedPtr' \in [Callbacks -> BOOLEAN] /\ removed' \in BOOLEAN
    BY <1>8 DEF StopExecute
  <2>2. \A c \in Callbacks : runs[c] \in Nat /\ runs[c] + 1 \in Nat
    OBVIOUS
  <2>3. runs' = [c \in Callbacks |-> IF c = running THEN runs[c] + 1 ELSE runs[c]]
    BY <1>8 DEF StopExecute
  <2>4. runs' \in [Callbacks -> Nat]
    BY <2>2, <2>3
  <2> QED
    BY <2>1, <2>4, <1>8 DEF StopExecute, sourceVars
<1>9. ASSUME BodyReturn PROVE TypeOK'
  BY <1>9 DEF BodyReturn, sourceVars, cbVars, clientVars
<1>10. ASSUME StopAfter PROVE TypeOK'
  BY <1>10 DEF StopAfter, MarkCompleted, sourceVars, clientVars
<1>11. ASSUME StopRelock PROVE TypeOK'
  BY <1>11 DEF StopRelock, CanLock, Locked, cbVars, clientVars, StopFlag, LockFlag
<1>12. ASSUME StopFinish PROVE TypeOK'
  BY <1>12 DEF StopFinish, cbVars, clientVars, StopFlag
<1>13. ASSUME NEW t \in Threads, NEW c \in Callbacks, Destroy(t, c) PROVE TypeOK'
  BY <1>13 DEF Destroy, Destroyed, sourceVars, cbVars, rsVars
<1>14. ASSUME NEW t \in Threads, DestroyLock(t) PROVE TypeOK'
  BY <1>14 DEF DestroyLock, CanLock, Locked, cbVars, rsVars, StopFlag, LockFlag
<1>15. ASSUME NEW t \in Threads, DestroyUnlink(t) PROVE TypeOK'
  <2>1. state \in {LockFlag, StopFlag + LockFlag}
    BY <1>15 DEF DestroyUnlink, LockInv, InCriticalSection, Locked
  <2>2. state' \in 0..3
    BY <2>1, <1>15 DEF DestroyUnlink, StopFlag, LockFlag
  <2>3. arg[t] \in Callbacks
    BY <1>15 DEF DestroyUnlink
  <2>4. head' \in Callbacks \cup {Null} /\ next' \in [Callbacks -> Callbacks \cup {Null}]
    BY <2>3, <1>15 DEF DestroyUnlink, Bypass
  <2>5. prev' \in [Callbacks -> Callbacks \cup {Head, Null}]
    BY <2>3, <1>15 DEF DestroyUnlink
  <2> QED
    BY <2>2, <2>4, <2>5, <1>15 DEF DestroyUnlink, Destroyed, rsVars
<1>16. ASSUME NEW t \in Threads, DestroyPopped(t) PROVE TypeOK'
  <2>1. state \in {LockFlag, StopFlag + LockFlag}
    BY <1>16 DEF DestroyPopped, LockInv, InCriticalSection, Locked
  <2>2. state' \in 0..3
    BY <2>1, <1>16 DEF DestroyPopped, StopFlag, LockFlag
  <2> QED
    BY <2>2, <1>16 DEF DestroyPopped, cbVars, rsVars
<1>17. ASSUME NEW t \in Threads, DestroySelf(t) PROVE TypeOK'
  BY <1>17 DEF DestroySelf, Destroyed, sourceVars, cbVars
<1>18. ASSUME NEW t \in Threads, DestroyWait(t) PROVE TypeOK'
  BY <1>18 DEF DestroyWait, Destroyed, sourceVars, cbVars, rsVars
<1>19. CASE UNCHANGED vars
  BY <1>19 DEF vars, sourceVars, cbVars, rsVars, clientVars
<1> QED
  BY <1>1, <1>2, <1>3, <1>4, <1>5, <1>6, <1>7, <1>8, <1>9, <1>10, <1>11, <1>12,
     <1>13, <1>14, <1>15, <1>16, <1>17, <1>18, <1>19 DEF Next, Stopper, Thread

\* An operation that has steps was given a callback when it was called.
LEMMA NextHasArgument == Inv /\ [Next]_vars => HasArgument'
<1> SUFFICES ASSUME Inv, [Next]_vars PROVE HasArgument'
  OBVIOUS
<1> USE DEF Inv, TypeOK, HasArgument
<1>1. CASE UNCHANGED <<pc, arg>>
  BY <1>1
<1>2. CASE Stopper
  BY <1>1, <1>2 DEF Stopper, StopPop, StopExecute, BodyReturn, StopAfter,
                    StopRelock, StopFinish, clientVars
<1>3. ASSUME NEW t \in Threads, Thread(t) PROVE HasArgument'
  <2>1. CASE RequestStop(t) \/ \E c \in Callbacks : InlineReturn(t, c)
    BY <1>1, <2>1 DEF RequestStop, InlineReturn, clientVars
  <2>2. CASE \E c \in Callbacks : Construct(t, c) \/ Destroy(t, c)
    BY <2>2 DEF Construct, Destroy, Destroyed
  <2>3. CASE RegisterLock(t) \/ RegisterLink(t) \/ RegisterFail(t)
    BY <2>3 DEF RegisterLock, RegisterLink, RegisterFail
  <2>4. CASE DestroyLock(t) \/ DestroyUnlink(t) \/ DestroyPopped(t)
               \/ DestroySelf(t) \/ DestroyWait(t)
    BY <2>4 DEF DestroyLock, DestroyUnlink, DestroyPopped, DestroySelf, DestroyWait, Destroyed
  <2> QED
    BY <1>3, <2>1, <2>2, <2>3, <2>4 DEF Thread
<1>4. CASE UNCHANGED vars
  BY <1>1, <1>4 DEF vars, clientVars
<1> QED
  BY <1>2, <1>3, <1>4 DEF Next

-----------------------------------------------------------------------------
(* The lock *)

Quiet ==
  /\ UNCHANGED state
  /\ rs' = "loop" <=> rs = "loop"
  /\ rs' = "none" <=> rs = "none"
  /\ \A t \in Threads : /\ pc'[t] = "reg_link" <=> pc[t] = "reg_link"
                        /\ pc'[t] = "dtor_cs" <=> pc[t] = "dtor_cs"

\* A step that neither stores to _state_ nor enters or leaves a critical section.
LEMMA QuietStep == LockInv /\ FlagInv /\ Quiet => LockInv' /\ FlagInv'
BY DEF LockInv, FlagInv, Quiet, Locked, StopRequested, InCriticalSection

\* The steps that are.
LEMMA QuietSteps ==
  ASSUME Inv,
         \/ StopExecute \/ BodyReturn \/ StopAfter
         \/ \E t \in Threads :
              \/ RegisterFail(t) \/ DestroySelf(t) \/ DestroyWait(t)
              \/ \E c \in Callbacks : Construct(t, c) \/ InlineReturn(t, c) \/ Destroy(t, c)
         \/ UNCHANGED vars
  PROVE  Quiet
<1> USE DEF Quiet, Inv, TypeOK
<1>1. CASE StopExecute \/ BodyReturn \/ StopAfter
  BY <1>1 DEF StopExecute, BodyReturn, StopAfter, sourceVars, clientVars
<1>2. ASSUME NEW t \in Threads, RegisterFail(t) PROVE Quiet
  BY <1>2 DEF RegisterFail, sourceVars, rsVars
<1>3. ASSUME NEW t \in Threads, DestroySelf(t) \/ DestroyWait(t) PROVE Quiet
  BY <1>3 DEF DestroySelf, DestroyWait, Destroyed, sourceVars, rsVars
<1>4. ASSUME NEW t \in Threads, NEW c \in Callbacks, Construct(t, c) PROVE Quiet
  BY <1>4 DEF Construct, InClient, sourceVars, rsVars
<1>5. ASSUME NEW t \in Threads, NEW c \in Callbacks, InlineReturn(t, c) PROVE Quiet
  BY <1>5 DEF InlineReturn, sourceVars, rsVars
<1>6. ASSUME NEW t \in Threads, NEW c \in Callbacks, Destroy(t, c) PROVE Quiet
  BY <1>6 DEF Destroy, Destroyed, InClient, sourceVars, rsVars
<1>7. CASE UNCHANGED vars
  BY <1>7 DEF vars, sourceVars, rsVars, clientVars
<1> QED
  BY <1>1, <1>2, <1>3, <1>4, <1>5, <1>6, <1>7

\* What the values of _state_ mean.
LEMMA StateValues ==
  /\ Locked <=> state = 2 \/ state = 3
  /\ StopRequested <=> state = 1 \/ state = 3
  /\ CanLock <=> ~Locked
  /\ CanLockUnlessStopped <=> state = 0
  /\ Locked' <=> state' = 2 \/ state' = 3
  /\ StopRequested' <=> state' = 1 \/ state' = 3
BY DEF Locked, StopRequested, CanLock, CanLockUnlessStopped, StopFlag, LockFlag

\* The lock is taken, by a constructor, a destructor or request_stop, only when
\* nobody is in a critical section, and released by who is in one.
LEMMA NextLockInv == Inv /\ [Next]_vars => LockInv' /\ FlagInv'
<1> SUFFICES ASSUME Inv, [Next]_vars PROVE LockInv' /\ FlagInv'
  OBVIOUS
<1> USE DEF Inv, TypeOK, LockInv, FlagInv, InCriticalSection
<1>1. ASSUME NEW t \in Threads, RegisterLock(t) PROVE LockInv' /\ FlagInv'
  BY <1>1, StateValues DEF RegisterLock, rsVars, LockFlag
<1>2. ASSUME NEW t \in Threads, RegisterLink(t) PROVE LockInv' /\ FlagInv'
  BY <1>2, StateValues DEF RegisterLink, rsVars
<1>3. ASSUME NEW t \in Threads, RequestStop(t) PROVE LockInv' /\ FlagInv'
  BY <1>3, StateValues DEF RequestStop, clientVars, StopFlag, LockFlag
<1>4. ASSUME StopPop PROVE LockInv' /\ FlagInv'
  BY <1>4, StateValues DEF StopPop, clientVars, StopFlag
<1>5. ASSUME StopRelock PROVE LockInv' /\ FlagInv'
  BY <1>5, StateValues DEF StopRelock, clientVars, LockFlag
<1>6. ASSUME StopFinish PROVE LockInv' /\ FlagInv'
  BY <1>6, StateValues DEF StopFinish, clientVars, StopFlag
<1>7. ASSUME NEW t \in Threads, DestroyLock(t) PROVE LockInv' /\ FlagInv'
  BY <1>7, StateValues DEF DestroyLock, rsVars, LockFlag
<1>8. ASSUME NEW t \in Threads, DestroyUnlink(t) PROVE LockInv' /\ FlagInv'
  BY <1>8, StateValues DEF DestroyUnlink, Destroyed, rsVars, LockFlag
<1>9. ASSUME NEW t \in Threads, DestroyPopped(t) PROVE LockInv' /\ FlagInv'
  BY <1>9, StateValues DEF DestroyPopped, rsVars, LockFlag
<1> QED
  BY <1>1, <1>2, <1>3, <1>4, <1>5, <1>6, <1>7, <1>8, <1>9, QuietStep, QuietSteps
     DEF Next, Stopper, Thread

\* The parts together.
LEMMA Inductive == Inv /\ [Next]_vars => Inv'
BY NextTypeOK, NextHasArgument, NextLockInv DEF Inv

-----------------------------------------------------------------------------
(* The callbacks                                                            *)

Constructing(t) == pc[t] \in {"reg_try", "reg_link"}
Destroying(t)   == pc[t] \in {"dtor_lock", "dtor_cs", "dtor_self", "dtor_wait"}
Exists(c)       == life[c] \in {"live", "dying"}

\* A callback is constructed or destroyed by one thread at a time, and a
\* destructor that found its callback popped has left the list alone.
OperationInv ==
  /\ \A t \in Threads : Constructing(t) => life[arg[t]] = "constructing" /\ maker[arg[t]] = t
  /\ \A t \in Threads : Destroying(t) => life[arg[t]] = "dying"
  /\ \A t, u \in Threads :
       pc[t] # "client" /\ pc[u] # "client" /\ arg[t] = arg[u] => t = u
  /\ \A t \in Threads : pc[t] \in {"dtor_self", "dtor_wait"} => prev[arg[t]] = Null
  /\ \A t \in Threads : pc[t] = "dtor_self" => t = owner

\* request_stop will mark c as completed, unless its body destroys it.
AwaitsMark(c) == rs \in {"body", "after"} /\ running = c /\ ~removed

\* A callback is in the list and was not started, or it was popped and has been
\* or will be.  The one that request_stop has in hand is not marked, and it is
\* the only one whose destructor would raise the flag.
CallbackInv ==
  \A c \in Callbacks :
    /\ runs[c] <= 1
    /\ life[c] = "constructing" =>
         source[c] /\ prev[c] = Null /\ runs[c] = 0 /\ ~completed[c]
    /\ life[c] = "inline" => ~source[c] /\ runs[c] = 1 /\ maker[c] \in Threads
    /\ life[c] = "dying" => source[c]
    /\ Exists(c) /\ ~source[c] => runs[c] = 1
    /\ Linked(c) => runs[c] = 0 /\ ~completed[c]
    /\ Exists(c) /\ source[c] /\ prev[c] = Null =>
         runs[c] = 1 \/ (rs = "exec" /\ running = c)
    /\ life[c] # "dead" /\ removedPtr[c] => AwaitsMark(c)

\* The callback that request_stop has popped waits for it: no destructor returns
\* before the mark, but that of the body's own thread, which raises the flag.
RequestInv ==
  /\ notifying = owner
  /\ rs # "none" <=> owner \in Threads
  /\ rs \in {"loop", "exec", "after", "relock"} => pc[owner] = "client"
  /\ rs \in {"exec", "body", "after"} => running \in Callbacks
  /\ rs = "exec" =>
       /\ Exists(running) /\ source[running] /\ prev[running] = Null
       /\ runs[running] = 0 /\ ~completed[running]
  /\ rs \in {"body", "after"} /\ ~removed =>
       /\ Exists(running) /\ source[running] /\ prev[running] = Null
       /\ runs[running] = 1 /\ ~completed[running] /\ removedPtr[running]
  /\ rs = "done" => head = Null

\* L is a doubly linked list with the head h, the links n and the back links p.
\* The back links lead to the head: no set of linked callbacks is closed under
\* them.  (Links and back links that agree would allow a ring beside the list.)
WellLinked(L, h, n, p) ==
  /\ h # Null => h \in L /\ p[h] = Head
  /\ \A c \in L :
       /\ p[c] \in L \cup {Head}
       /\ p[c] = Head => h = c
       /\ p[c] # Head => n[p[c]] = c
       /\ n[c] # Null => n[c] \in L /\ p[n[c]] = c
  /\ \A S \in SUBSET L : S # {} => \E c \in S : p[c] \notin S

List == {c \in Callbacks : Linked(c)}

ListInv == WellLinked(List, head, next, prev)

FullInv == Inv /\ OperationInv /\ CallbackInv /\ RequestInv /\ ListInv

\* A source as constructed has no callbacks.
LEMMA InitFullInv == Init => FullInv
<1> SUFFICES ASSUME Init PROVE FullInv
  OBVIOUS
<1>1. Inv
  BY InitInv
<1>2. OperationInv
  BY DEF Init, OperationInv, Constructing, Destroying
<1>3. CallbackInv
  BY DEF Init, CallbackInv, Exists, Linked
<1>4. RequestInv
  BY ConstantsAssumption DEF Init, RequestInv
<1>5. ListInv
  BY DEF Init, ListInv, WellLinked, List, Linked
<1> QED
  BY <1>1, <1>2, <1>3, <1>4, <1>5 DEF FullInv

-----------------------------------------------------------------------------
(* The list                                                                 *)

\* _try_add_callback: linking c in front of the list.
LEMMA PushFront ==
  ASSUME NEW L \in SUBSET Callbacks, NEW h, NEW n, NEW p, WellLinked(L, h, n, p),
         NEW c \in Callbacks, c \notin L, h \in Callbacks \cup {Null},
         NEW n2, n2[c] = h, \A d \in L : n2[d] = n[d],
         NEW p2, p2[c] = Head, \A d \in L : p2[d] = IF d = h THEN c ELSE p[d]
  PROVE  WellLinked(L \cup {c}, c, n2, p2)
<1> USE ConstantsAssumption
<1>1. h # Null => h \in L /\ p[h] = Head /\ p2[h] = c
  BY DEF WellLinked
<1>2. ASSUME NEW d \in L
      PROVE  /\ p2[d] \in L \cup {c}
             /\ n2[p2[d]] = d
             /\ n2[d] # Null => n2[d] \in L /\ p2[n2[d]] = d
  <2>1. CASE d = h
    BY <2>1, <1>1, <1>2 DEF WellLinked
  <2>2. CASE d # h
    BY <2>2, <1>1, <1>2 DEF WellLinked
  <2> QED
    BY <2>1, <2>2
<1>3. ASSUME NEW S \in SUBSET (L \cup {c}), S # {}
      PROVE  \E d \in S : p2[d] \notin S
  <2>1. CASE c \in S
    BY <2>1
  <2>2. CASE c \notin S
    <3>1. S \in SUBSET L
      BY <2>2
    <3>2. PICK d \in S : p[d] \notin S
      BY <3>1, <1>3 DEF WellLinked
    <3> QED
      BY <3>1, <3>2, <2>2
  <2> QED
    BY <2>1, <2>2
<1>4. \A d \in L : p2[d] # Head
  BY <1>2
<1> QED
  BY <1>1, <1>2, <1>3, <1>4 DEF WellLinked

\* *_prev_ptr_ = _next_ and its back link, in _remove_callback and for the first
\* callback in request_stop: taking c out of the list.
LEMMA TakeOut ==
  ASSUME NEW L \in SUBSET Callbacks, NEW h, NEW n, NEW p, WellLinked(L, h, n, p),
         NEW c \in L,
         NEW h2, h2 = IF p[c] = Head THEN n[c] ELSE h,
         NEW n2, \A d \in L : n2[d] = IF d = p[c] THEN n[c] ELSE n[d],
         NEW p2, \A d \in L \ {c} : p2[d] = IF d = n[c] THEN p[c] ELSE p[d]
  PROVE  WellLinked(L \ {c}, h2, n2, p2)
<1> USE ConstantsAssumption
<1>1. p[c] # c /\ n[c] # c
  <2>1. p[c] # c
    <3>1. {c} \in SUBSET L /\ {c} # {}
      OBVIOUS
    <3>2. \E d \in {c} : p[d] \notin {c}
      BY <3>1 DEF WellLinked
    <3> QED
      BY <3>2
  <2> QED
    BY <2>1 DEF WellLinked
<1>2. h2 # Null => h2 \in L \ {c} /\ p2[h2] = Head
  BY <1>1 DEF WellLinked
<1>3. ASSUME NEW d \in L \ {c}
      PROVE  /\ p2[d] \in (L \ {c}) \cup {Head}
             /\ p2[d] = Head => h2 = d
             /\ p2[d] # Head => n2[p2[d]] = d
             /\ n2[d] # Null => n2[d] \in L \ {c} /\ p2[n2[d]] = d
  BY <1>1, <1>3 DEF WellLinked
<1>4. ASSUME NEW S \in SUBSET (L \ {c}), S # {}
      PROVE  \E d \in S : p2[d] \notin S
  <2>1. CASE n[c] \notin S
    <3>1. PICK d \in S : p[d] \notin S
      BY <1>4 DEF WellLinked
    <3> QED
      BY <3>1, <2>1
  <2>2. CASE n[c] \in S
    <3>0. S \cup {c} \in SUBSET L /\ S \cup {c} # {}
      BY <1>4
    <3>1. PICK d \in S \cup {c} : p[d] \notin S \cup {c}
      BY <3>0 DEF WellLinked
    <3>2. CASE d = c
      BY <3>1, <3>2, <2>2
    <3>3. CASE d # c
      <4>1. p[n[c]] = c
        BY <2>2, <1>4 DEF WellLinked
      <4> QED
        BY <3>1, <3>3, <4>1
    <3> QED
      BY <3>2, <3>3
  <2> QED
    BY <2>1, <2>2
<1> QED
  BY <1>2, <1>3, <1>4 DEF WellLinked

\* What does not concern the callbacks of the list.
LEMMA Beside ==
  ASSUME NEW L \in SUBSET Callbacks, NEW h, NEW n, NEW p, WellLinked(L, h, n, p),
         NEW n2, NEW p2, \A d \in L : n2[d] = n[d] /\ p2[d] = p[d]
  PROVE  WellLinked(L, h, n2, p2)
<1>1. h # Null => h \in L /\ p2[h] = Head
  BY DEF WellLinked
<1>2. \A d \in L :
        /\ p2[d] \in L \cup {Head}
        /\ p2[d] = Head => h = d
        /\ p2[d] # Head => n2[p2[d]] = d
        /\ n2[d] # Null => n2[d] \in L /\ p2[n2[d]] = d
  BY DEF WellLinked
<1>3. \A S \in SUBSET L : S # {} => \E d \in S : p2[d] \notin S
  BY DEF WellLinked
<1> QED
  BY <1>1, <1>2, <1>3 DEF WellLinked

\* A step that does not touch the list.
LEMMA ListKept ==
  ASSUME ListInv, UNCHANGED head,
         \A c \in Callbacks :
           /\ Linked(c)' <=> Linked(c)
           /\ Linked(c) => next'[c] = next[c] /\ prev'[c] = prev[c]
  PROVE  ListInv'
<1>1. List' = List
  BY DEF List
<1>2. List \in SUBSET Callbacks
  BY DEF List
<1>3. \A d \in List : next'[d] = next[d] /\ prev'[d] = prev[d]
  BY DEF List
<1> QED
  BY <1>1, <1>2, <1>3, Beside DEF ListInv

\* What the types say of the list and of a step's argument.
LEMMA Types ==
  ASSUME FullInv
  PROVE  /\ head \in Callbacks \cup {Null}
         /\ source \in [Callbacks -> BOOLEAN]
         /\ next \in [Callbacks -> Callbacks \cup {Null}]
         /\ prev \in [Callbacks -> Callbacks \cup {Head, Null}]
         /\ removedPtr \in [Callbacks -> BOOLEAN]
         /\ completed \in [Callbacks -> BOOLEAN]
         /\ pc \in [Threads -> {"client", "reg_try", "reg_link", "dtor_lock",
                                "dtor_cs", "dtor_self", "dtor_wait"}]
         /\ arg \in [Threads -> Callbacks \cup {Null}]
         /\ life \in [Callbacks -> {"dead", "constructing", "inline", "live", "dying"}]
         /\ maker \in [Callbacks -> Threads \cup {NoThread}]
         /\ runs \in [Callbacks -> Nat]
         /\ \A t \in Threads : pc[t] # "client" => arg[t] \in Callbacks
         /\ Head \notin Callbacks /\ Null \notin Callbacks /\ Head # Null /\ NoThread \notin Threads
BY ConstantsAssumption DEF FullInv, Inv, TypeOK, HasArgument

\* The constructor's critical section puts its callback in front of the list.
LEMMA ListAfterLink ==
  ASSUME FullInv, NEW t \in Threads, RegisterLink(t)
  PROVE  ListInv'
<1>1. PICK c \in Callbacks : c = arg[t]
  BY Types DEF RegisterLink
<1>2. /\ life[c] = "constructing" /\ source[c]
      /\ next' = [next EXCEPT ![c] = head]
      /\ prev' = [p \in Callbacks |-> CASE p = c -> Head
                                        [] p = head /\ p # c -> c
                                        [] OTHER -> prev[p]]
      /\ head' = c
      /\ life' = [life EXCEPT ![c] = "live"]
      /\ UNCHANGED source
  BY <1>1 DEF RegisterLink, PrevAfterPush, FullInv, OperationInv, Constructing, CallbackInv
<1>3. c \notin List
  BY <1>2 DEF List, Linked
<1>4. head # Null => Linked(head)
  BY DEF FullInv, ListInv, WellLinked, List
<1>5. List' = List \cup {c}
  BY <1>2, <1>4, Types DEF List, Linked
<1>6. /\ next'[c] = head
      /\ \A d \in List : next'[d] = next[d]
      /\ prev'[c] = Head
      /\ \A d \in List : prev'[d] = IF d = head THEN c ELSE prev[d]
  BY <1>2, <1>3, Types DEF List
<1>7. List \in SUBSET Callbacks
  BY DEF List
<1>8. WellLinked(List \cup {c}, c, next', prev')
  BY <1>3, <1>6, <1>7, Types, PushFront DEF FullInv, ListInv
<1> QED
  BY <1>2, <1>5, <1>8 DEF ListInv

\* request_stop takes the first callback out of the list.
LEMMA ListAfterPop ==
  ASSUME FullInv, StopPop
  PROVE  ListInv'
<1>1. /\ head \in List /\ prev[head] = Head
      /\ head' = next[head]
      /\ prev' = [p \in Callbacks |-> CASE p = head -> Null
                                        [] p = next[head] /\ p # head -> Head
                                        [] OTHER -> prev[p]]
      /\ UNCHANGED <<next, life, source>>
  BY DEF StopPop, HeadAfterPop, FullInv, ListInv, WellLinked, clientVars
<1>2. next[head] # Null => next[head] \in List
  BY <1>1 DEF FullInv, ListInv, WellLinked
<1>3. List' = List \ {head}
  BY <1>1, <1>2, Types DEF List, Linked
<1>4. /\ \A d \in List : next'[d] = IF d = prev[head] THEN next[head] ELSE next[d]
      /\ \A d \in List \ {head} : prev'[d] = IF d = next[head] THEN prev[head] ELSE prev[d]
  BY <1>1, Types DEF List
<1>5. List \in SUBSET Callbacks
  BY DEF List
<1>6. WellLinked(List \ {head}, next[head], next', prev')
  BY <1>1, <1>4, <1>5, TakeOut DEF FullInv, ListInv
<1> QED
  BY <1>1, <1>3, <1>6 DEF ListInv

\* A destructor takes its callback out of the list, wherever it is.
LEMMA ListAfterUnlink ==
  ASSUME FullInv, NEW t \in Threads, DestroyUnlink(t)
  PROVE  ListInv'
<1>1. PICK c \in Callbacks : c = arg[t]
  BY Types DEF DestroyUnlink
<1>2. /\ life[c] = "dying" /\ source[c] /\ prev[c] # Null
      /\ Bypass(c)
      /\ prev' = [p \in Callbacks |-> IF p = next[c] THEN prev[c] ELSE prev[p]]
      /\ life' = [life EXCEPT ![c] = "dead"]
      /\ UNCHANGED source
  BY <1>1 DEF DestroyUnlink, Destroyed, FullInv, OperationInv, Destroying, CallbackInv
<1>3. c \in List
  BY <1>2 DEF List, Linked
<1>4. /\ next[c] # Null => next[c] \in List
      /\ prev[c] # Head => prev[c] \in List
  BY <1>3 DEF FullInv, ListInv, WellLinked
<1>5. List' = List \ {c}
  BY <1>2, <1>4, Types DEF List, Linked
<1>6. /\ head' = IF prev[c] = Head THEN next[c] ELSE head
      /\ \A d \in List : next'[d] = IF d = prev[c] THEN next[c] ELSE next[d]
      /\ \A d \in List \ {c} : prev'[d] = IF d = next[c] THEN prev[c] ELSE prev[d]
  BY <1>2, <1>4, Types DEF Bypass, List
<1>7. List \in SUBSET Callbacks
  BY DEF List
<1>8. WellLinked(List, head, next, prev)
  BY DEF FullInv, ListInv
<1>9. WellLinked(List \ {c}, IF prev[c] = Head THEN next[c] ELSE head, next', prev')
  BY <1>3, <1>6, <1>7, <1>8, TakeOut
<1> QED
  BY <1>5, <1>6, <1>9 DEF ListInv

\* Nothing else touches the callbacks of the list.
LEMMA NextListInv == FullInv /\ [Next]_vars => ListInv'
<1> SUFFICES ASSUME FullInv, [Next]_vars PROVE ListInv'
  OBVIOUS
<1>1. ListInv
  BY DEF FullInv
<1>2. ASSUME UNCHANGED <<head, next, prev, life, source>> PROVE ListInv'
  BY <1>1, <1>2, ListKept DEF Linked
<1>3. ASSUME NEW t \in Threads, NEW c \in Callbacks, Construct(t, c) PROVE ListInv'
  <2>1. UNCHANGED head
    BY <1>3 DEF Construct, sourceVars
  <2>2. \A d \in Callbacks :
          /\ Linked(d)' <=> Linked(d)
          /\ Linked(d) => next'[d] = next[d] /\ prev'[d] = prev[d]
    BY <1>3, Types DEF Construct, Linked
  <2> QED
    BY <1>1, <2>1, <2>2, ListKept
<1>4. ASSUME NEW t \in Threads, RegisterFail(t) PROVE ListInv'
  <2>1. UNCHANGED <<head, next, prev>>
    BY <1>4 DEF RegisterFail, sourceVars
  <2>2. arg[t] \in Callbacks /\ life[arg[t]] = "constructing"
    BY <1>4, Types DEF RegisterFail, FullInv, OperationInv, Constructing
  <2>3. \A d \in Callbacks : Linked(d)' <=> Linked(d)
    BY <1>4, <2>1, <2>2, Types DEF RegisterFail, Linked
  <2> QED
    BY <1>1, <2>1, <2>3, ListKept
<1>5. ASSUME NEW t \in Threads, NEW c \in Callbacks, InlineReturn(t, c) PROVE ListInv'
  <2>1. UNCHANGED <<head, next, prev, source>>
    BY <1>5 DEF InlineReturn, sourceVars, cbVars
  <2>2. ~source[c]
    BY <1>5 DEF InlineReturn, Inlines, FullInv, CallbackInv
  <2>3. \A d \in Callbacks : Linked(d)' <=> Linked(d)
    BY <1>5, <2>1, <2>2, Types DEF InlineReturn, Linked
  <2> QED
    BY <1>1, <2>1, <2>3, ListKept
<1>6. ASSUME NEW t \in Threads, NEW c \in Callbacks, Destroy(t, c) PROVE ListInv'
  <2>1. UNCHANGED <<head, next, prev, source>>
    BY <1>6 DEF Destroy, sourceVars, cbVars
  <2>2. \A d \in Callbacks : Linked(d)' <=> Linked(d)
    BY <1>6, <2>1, Types DEF Destroy, Destroyed, Linked
  <2> QED
    BY <1>1, <2>1, <2>2, ListKept
<1>7. ASSUME NEW t \in Threads, DestroySelf(t) \/ DestroyWait(t) PROVE ListInv'
  <2>1. UNCHANGED <<head, next, prev, source>>
    BY <1>7 DEF DestroySelf, DestroyWait, sourceVars, cbVars
  <2>2. prev[arg[t]] = Null
    BY <1>7 DEF DestroySelf, DestroyWait, FullInv, OperationInv
  <2>3. \A d \in Callbacks : Linked(d)' <=> Linked(d)
    BY <1>7, <2>1, <2>2, Types DEF DestroySelf, DestroyWait, Destroyed, Linked
  <2> QED
    BY <1>1, <2>1, <2>3, ListKept
<1>8. CASE StopExecute \/ BodyReturn \/ StopAfter \/ StopRelock \/ StopFinish \/ UNCHANGED vars
  BY <1>2, <1>8 DEF StopExecute, BodyReturn, StopAfter, StopRelock, StopFinish, vars,
                    sourceVars, cbVars, clientVars
<1>9. ASSUME NEW t \in Threads,
             RequestStop(t) \/ RegisterLock(t) \/ DestroyLock(t) \/ DestroyPopped(t)
      PROVE  ListInv'
  BY <1>2, <1>9 DEF RequestStop, RegisterLock, DestroyLock, DestroyPopped, cbVars, clientVars
<1> QED
  BY <1>3, <1>4, <1>5, <1>6, <1>7, <1>8, <1>9, ListAfterLink, ListAfterPop, ListAfterUnlink
     DEF Next, Stopper, Thread

\* Every linked callback can be reached: an empty list has none.
LEMMA NoOrphan ==
  ASSUME FullInv, NEW c \in Callbacks, Linked(c)
  PROVE  head # Null
<1>1. c \in List /\ List \in SUBSET List /\ List # {}
  BY DEF List
<1>2. PICK d \in List : prev[d] \notin List
  BY <1>1 DEF FullInv, ListInv, WellLinked
<1>3. prev[d] = Head /\ head = d
  BY <1>2 DEF FullInv, ListInv, WellLinked
<1> QED
  BY <1>3, Types DEF List

-----------------------------------------------------------------------------
(* Operations and callbacks                                                 *)

\* Two threads never construct or destroy the same callback, and nobody else
\* changes the life of one that somebody does.
LEMMA NextOperationInv == FullInv /\ [Next]_vars => OperationInv'
<1> SUFFICES ASSUME FullInv, [Next]_vars PROVE OperationInv'
  OBVIOUS
<1> USE Types DEF OperationInv, Constructing, Destroying
<1>1. OperationInv /\ (rs # "none" <=> owner \in Threads) /\ notifying = owner
  BY DEF FullInv, RequestInv
<1>2. ASSUME NEW t \in Threads, NEW c \in Callbacks, Construct(t, c) PROVE OperationInv'
  BY <1>1, <1>2 DEF Construct, InClient, rsVars
<1>3. ASSUME NEW t \in Threads, RegisterLock(t) PROVE OperationInv'
  BY <1>1, <1>3 DEF RegisterLock, cbVars, rsVars
<1>4. ASSUME NEW t \in Threads, RegisterLink(t) PROVE OperationInv'
  <2>1. PICK c \in Callbacks : c = arg[t]
    BY <1>4 DEF RegisterLink
  <2>2. \A u \in Threads : Destroying(u) /\ prev[arg[u]] = Null => prev'[arg[u]] = Null
    BY <1>1, <1>4, <2>1 DEF RegisterLink, PrevAfterPush, FullInv, ListInv, WellLinked, List, Linked
  <2> QED
    BY <1>1, <1>4, <2>1, <2>2 DEF RegisterLink, rsVars
<1>5. ASSUME NEW t \in Threads, RegisterFail(t) PROVE OperationInv'
  BY <1>1, <1>5 DEF RegisterFail, rsVars
<1>6. ASSUME NEW t \in Threads, NEW c \in Callbacks, InlineReturn(t, c) PROVE OperationInv'
  BY <1>1, <1>6 DEF InlineReturn, Inlines, cbVars, rsVars
<1>7. ASSUME NEW t \in Threads, RequestStop(t) PROVE OperationInv'
  <2>1. rs = "none"
    BY <1>7, StateValues DEF RequestStop, FullInv, Inv, FlagInv
  <2>2. \A u \in Threads : pc[u] = "dtor_self" => FALSE
    BY <1>1, <2>1 DEF FullInv, RequestInv
  <2> QED
    BY <1>1, <1>7, <2>2 DEF RequestStop, cbVars, clientVars
<1>8. CASE StopPop
  <2>1. \A u \in Threads : Destroying(u) /\ prev[arg[u]] = Null => prev'[arg[u]] = Null
    BY <1>1, <1>8 DEF StopPop, FullInv, ListInv, WellLinked, List, Linked
  <2> QED
    BY <1>1, <1>8, <2>1 DEF StopPop, clientVars
<1>9. CASE StopExecute
  BY <1>1, <1>9 DEF StopExecute
<1>10. CASE BodyReturn \/ StopAfter \/ StopRelock \/ StopFinish \/ UNCHANGED vars
  BY <1>1, <1>10 DEF BodyReturn, StopAfter, StopRelock, StopFinish, vars, cbVars, rsVars, clientVars
<1>11. ASSUME NEW t \in Threads, NEW c \in Callbacks, Destroy(t, c) PROVE OperationInv'
  BY <1>1, <1>11 DEF Destroy, Destroyed, InClient, cbVars, rsVars
<1>12. ASSUME NEW t \in Threads, DestroyLock(t) PROVE OperationInv'
  BY <1>1, <1>12 DEF DestroyLock, cbVars, rsVars
<1>13. ASSUME NEW t \in Threads, DestroyUnlink(t) PROVE OperationInv'
  <2>1. PICK c \in Callbacks : c = arg[t]
    BY <1>13 DEF DestroyUnlink
  <2>2. Linked(c)
    BY <1>13, <1>1, <2>1 DEF DestroyUnlink, FullInv, CallbackInv, Linked
  <2>3. next[c] # Null => prev[next[c]] = c
    BY <2>2 DEF FullInv, ListInv, WellLinked, List
  <2>4. prev' = [p \in Callbacks |-> IF p = next[c] THEN prev[c] ELSE prev[p]]
    BY <1>13, <2>1 DEF DestroyUnlink
  <2>5. \A d \in Callbacks : prev[d] = Null => prev'[d] = Null
    BY <2>3, <2>4
  <2> QED
    BY <1>1, <1>13, <2>1, <2>5 DEF DestroyUnlink, Destroyed, rsVars
<1>14. ASSUME NEW t \in Threads, DestroyPopped(t) PROVE OperationInv'
  BY <1>1, <1>14 DEF DestroyPopped, OnNotifyingThread, cbVars, rsVars
<1>15. ASSUME NEW t \in Threads, DestroySelf(t) PROVE OperationInv'
  BY <1>1, <1>15 DEF DestroySelf, Destroyed, cbVars
<1>16. ASSUME NEW t \in Threads, DestroyWait(t) PROVE OperationInv'
  BY <1>1, <1>16 DEF DestroyWait, Destroyed, cbVars, rsVars
<1> QED
  BY <1>2, <1>3, <1>4, <1>5, <1>6, <1>7, <1>8, <1>9, <1>10, <1>11, <1>12, <1>13, <1>14,
     <1>15, <1>16 DEF Next, Stopper, Thread

\* The callback in hand: what request_stop holds a pointer to exists until it is
\* marked, or until its own body destroys it and says so.
LEMMA NextRequestInv == FullInv /\ [Next]_vars => RequestInv'
<1> SUFFICES ASSUME FullInv, [Next]_vars PROVE RequestInv'
  OBVIOUS
<1> USE Types DEF RequestInv
<1>1. /\ RequestInv /\ OperationInv
      /\ owner \in Threads \cup {NoThread}
      /\ running \in Callbacks \cup {Null}
      /\ removed \in BOOLEAN
  BY DEF FullInv, Inv, TypeOK
<1>2. ASSUME NEW t \in Threads, NEW c \in Callbacks, Construct(t, c) PROVE RequestInv'
  BY <1>1, <1>2 DEF Construct, InClient, Exists, sourceVars, rsVars
<1>3. ASSUME NEW t \in Threads, RegisterLock(t) PROVE RequestInv'
  BY <1>1, <1>3 DEF RegisterLock, Exists, OperationInv, Constructing, cbVars, rsVars
<1>4. ASSUME NEW t \in Threads, RegisterLink(t) PROVE RequestInv'
  <2>1. rs = "none"
    BY <1>4 DEF RegisterLink, FullInv, Inv, FlagInv
  <2> QED
    BY <1>1, <1>4, <2>1 DEF RegisterLink, rsVars
<1>5. ASSUME NEW t \in Threads, RegisterFail(t) PROVE RequestInv'
  <2>1. arg[t] \in Callbacks /\ life[arg[t]] = "constructing" /\ pc[t] = "reg_try"
    BY <1>1, <1>5 DEF RegisterFail, OperationInv, Constructing
  <2> QED
    BY <1>1, <1>5, <2>1 DEF RegisterFail, Exists, sourceVars, rsVars
<1>6. ASSUME NEW t \in Threads, NEW c \in Callbacks, InlineReturn(t, c) PROVE RequestInv'
  BY <1>1, <1>6 DEF InlineReturn, Inlines, Exists, sourceVars, cbVars, rsVars
<1>7. ASSUME NEW t \in Threads, RequestStop(t) PROVE RequestInv'
  BY <1>1, <1>7 DEF RequestStop, InClient, clientVars
<1>8. CASE StopPop
  <2>1. head \in Callbacks /\ Linked(head)
    BY <1>8 DEF StopPop, FullInv, ListInv, WellLinked, List
  <2>2. runs[head] = 0 /\ ~completed[head]
    BY <2>1 DEF FullInv, CallbackInv
  <2> QED
    BY <1>1, <1>8, <2>1, <2>2 DEF StopPop, Exists, Linked, clientVars
<1>9. CASE StopExecute
  BY <1>1, <1>9 DEF StopExecute, Exists, sourceVars
<1>10. CASE BodyReturn
  BY <1>1, <1>10 DEF BodyReturn, InClient, Exists, sourceVars, cbVars, clientVars
<1>11. CASE StopAfter \/ StopRelock \/ StopFinish
  BY <1>1, <1>11 DEF StopAfter, StopRelock, StopFinish, cbVars, sourceVars, clientVars
<1>12. CASE UNCHANGED vars
  BY <1>1, <1>12 DEF vars, sourceVars, cbVars, rsVars, clientVars, Exists
<1>13. ASSUME NEW t \in Threads, NEW c \in Callbacks, Destroy(t, c) PROVE RequestInv'
  BY <1>1, <1>13 DEF Destroy, Destroyed, InClient, Exists, sourceVars, cbVars, rsVars
<1>14. ASSUME NEW t \in Threads, DestroyLock(t) PROVE RequestInv'
  BY <1>1, <1>14 DEF DestroyLock, Exists, cbVars, rsVars
<1>15. ASSUME NEW t \in Threads, DestroyUnlink(t) PROVE RequestInv'
  <2>1. PICK c \in Callbacks : c = arg[t]
    BY <1>15 DEF DestroyUnlink
  <2>2. Linked(c) /\ head # Null
    <3>1. Linked(c)
      BY <1>1, <1>15, <2>1 DEF DestroyUnlink, OperationInv, Destroying, FullInv, CallbackInv, Linked
    <3> QED
      BY <3>1, NoOrphan
  <2>3. next[c] # Null => prev[next[c]] = c
    BY <2>2 DEF FullInv, ListInv, WellLinked, List
  <2>4. prev' = [p \in Callbacks |-> IF p = next[c] THEN prev[c] ELSE prev[p]]
    BY <1>15, <2>1 DEF DestroyUnlink
  <2>5. \A d \in Callbacks : prev[d] = Null => prev'[d] = Null /\ d # c
    BY <2>2, <2>3, <2>4 DEF Linked
  <2> QED
    BY <1>1, <1>15, <2>1, <2>2, <2>5 DEF DestroyUnlink, Destroyed, Exists, rsVars
<1>16. ASSUME NEW t \in Threads, DestroyPopped(t) PROVE RequestInv'
  BY <1>1, <1>16 DEF DestroyPopped, OnNotifyingThread, Exists, cbVars, rsVars
<1>17. ASSUME NEW t \in Threads, DestroySelf(t) PROVE RequestInv'
  <2>1. PICK c \in Callbacks : c = arg[t]
    BY <1>17 DEF DestroySelf
  <2>2. t = owner /\ pc[t] = "dtor_self" /\ life[c] = "dying"
    BY <1>1, <1>17, <2>1 DEF DestroySelf, OperationInv, Destroying
  <2>3. rs \in {"body", "done"}
    BY <1>1, <2>2 DEF FullInv, Inv, TypeOK
  <2> QED
    BY <1>1, <1>17, <2>1, <2>2, <2>3 DEF DestroySelf, Destroyed, Exists, sourceVars, cbVars
<1>18. ASSUME NEW t \in Threads, DestroyWait(t) PROVE RequestInv'
  <2>1. PICK c \in Callbacks : c = arg[t]
    BY <1>18 DEF DestroyWait
  <2> QED
    BY <1>1, <1>18, <2>1 DEF DestroyWait, BodyCompleted, Destroyed, Exists, sourceVars, cbVars, rsVars
<1> QED
  BY <1>2, <1>3, <1>4, <1>5, <1>6, <1>7, <1>8, <1>9, <1>10, <1>11, <1>12, <1>13, <1>14,
     <1>15, <1>16, <1>17, <1>18 DEF Next, Stopper, Thread

\* The life of a callback, step by step.
LEMMA NextCallbackInv == FullInv /\ [Next]_vars => CallbackInv'
<1> SUFFICES ASSUME FullInv, [Next]_vars PROVE CallbackInv'
  OBVIOUS
<1> USE Types DEF CallbackInv
<1>1. /\ CallbackInv /\ OperationInv /\ RequestInv
      /\ running \in Callbacks \cup {Null}
      /\ removed \in BOOLEAN
  BY DEF FullInv, Inv, TypeOK
<1>2. ASSUME NEW t \in Threads, NEW c \in Callbacks, Construct(t, c) PROVE CallbackInv'
  BY <1>1, <1>2 DEF Construct, Exists, Linked, AwaitsMark, sourceVars, rsVars
<1>3. ASSUME NEW t \in Threads, RegisterLock(t) PROVE CallbackInv'
  BY <1>1, <1>3 DEF RegisterLock, Exists, Linked, AwaitsMark, cbVars, rsVars
<1>4. ASSUME NEW t \in Threads, RegisterLink(t) PROVE CallbackInv'
  <2>1. PICK c \in Callbacks : c = arg[t]
    BY <1>4 DEF RegisterLink
  <2>2. life[c] = "constructing"
    BY <1>1, <1>4, <2>1 DEF RegisterLink, OperationInv, Constructing
  <2>3. \A d \in Callbacks : d # c /\ prev'[d] # prev[d] => Linked(d) /\ prev'[d] # Null
    BY <1>4, <2>1 DEF RegisterLink, PrevAfterPush, FullInv, ListInv, WellLinked, List
  <2>4. prev'[c] # Null
    BY <1>4, <2>1 DEF RegisterLink, PrevAfterPush
  <2> QED
    BY <1>1, <1>4, <2>1, <2>2, <2>3, <2>4 DEF RegisterLink, Exists, Linked, AwaitsMark, rsVars
<1>5. ASSUME NEW t \in Threads, RegisterFail(t) PROVE CallbackInv'
  <2>1. PICK c \in Callbacks : c = arg[t]
    BY <1>5 DEF RegisterFail
  <2>2. life[c] = "constructing" /\ maker[c] = t
    BY <1>1, <1>5, <2>1 DEF RegisterFail, OperationInv, Constructing
  <2> QED
    BY <1>1, <1>5, <2>1, <2>2 DEF RegisterFail, Exists, Linked, AwaitsMark, sourceVars, rsVars
<1>6. ASSUME NEW t \in Threads, NEW c \in Callbacks, InlineReturn(t, c) PROVE CallbackInv'
  BY <1>1, <1>6 DEF InlineReturn, Inlines, Exists, Linked, AwaitsMark, sourceVars, cbVars, rsVars
<1>7. ASSUME NEW t \in Threads, RequestStop(t) PROVE CallbackInv'
  <2>1. rs = "none"
    BY <1>7, StateValues DEF RequestStop, FullInv, Inv, FlagInv
  <2> QED
    BY <1>1, <1>7, <2>1 DEF RequestStop, Exists, Linked, AwaitsMark, cbVars, clientVars
<1>8. CASE StopPop
  <2>1. head \in Callbacks /\ Linked(head)
    BY <1>8 DEF StopPop, FullInv, ListInv, WellLinked, List
  <2>2. next[head] # Null => Linked(next[head])
    BY <1>8 DEF StopPop, FullInv, ListInv, WellLinked, List
  <2> QED
    BY <1>1, <1>8, <2>1, <2>2 DEF StopPop, Exists, Linked, AwaitsMark, clientVars
<1>9. CASE StopExecute
  BY <1>1, <1>9 DEF StopExecute, RequestInv, Exists, Linked, AwaitsMark, sourceVars
<1>10. CASE BodyReturn
  BY <1>1, <1>10 DEF BodyReturn, Exists, Linked, AwaitsMark, sourceVars, cbVars, clientVars
<1>11. CASE StopAfter
  BY <1>1, <1>11 DEF StopAfter, MarkCompleted, RequestInv, Exists, Linked, AwaitsMark,
                     sourceVars, clientVars
<1>12. CASE StopRelock \/ StopFinish \/ UNCHANGED vars
  BY <1>1, <1>12 DEF StopRelock, StopFinish, vars, sourceVars, cbVars, rsVars, clientVars,
                     Exists, Linked, AwaitsMark
<1>13. ASSUME NEW t \in Threads, NEW c \in Callbacks, Destroy(t, c) PROVE CallbackInv'
  BY <1>1, <1>13 DEF Destroy, Destroyed, Exists, Linked, AwaitsMark, sourceVars, cbVars, rsVars
<1>14. ASSUME NEW t \in Threads, DestroyLock(t) \/ DestroyPopped(t) PROVE CallbackInv'
  BY <1>1, <1>14 DEF DestroyLock, DestroyPopped, Exists, Linked, AwaitsMark, cbVars, rsVars
<1>15. ASSUME NEW t \in Threads, DestroyUnlink(t) PROVE CallbackInv'
  <2>1. PICK c \in Callbacks : c = arg[t]
    BY <1>15 DEF DestroyUnlink
  <2>2. Linked(c)
    BY <1>1, <1>15, <2>1 DEF DestroyUnlink, OperationInv, Destroying, Linked
  <2>3. /\ prev' = [p \in Callbacks |-> IF p = next[c] THEN prev[c] ELSE prev[p]]
        /\ life' = [life EXCEPT ![c] = "dead"]
        /\ prev[c] # Null
    BY <1>15, <2>1 DEF DestroyUnlink, Destroyed
  <2>4. \A d \in Callbacks : prev'[d] # prev[d] => prev'[d] # Null /\ Linked(d)
    BY <2>2, <2>3 DEF FullInv, ListInv, WellLinked, List
  <2>5. \A d \in Callbacks : d # c => (Linked(d)' <=> Linked(d))
    BY <1>15, <2>3, <2>4 DEF DestroyUnlink, Linked
  <2> QED
    BY <1>1, <1>15, <2>3, <2>4, <2>5 DEF DestroyUnlink, Exists, Linked, AwaitsMark, rsVars
<1>16. ASSUME NEW t \in Threads, DestroySelf(t) PROVE CallbackInv'
  <2>1. PICK c \in Callbacks : c = arg[t]
    BY <1>16 DEF DestroySelf
  <2>2. /\ UNCHANGED <<source, prev, removedPtr, completed, runs, maker, rs, running>>
        /\ removed' = (removed \/ removedPtr[c])
        /\ life' = [life EXCEPT ![c] = "dead"]
    BY <1>16, <2>1 DEF DestroySelf, Destroyed, sourceVars, cbVars
  <2>3. life[c] = "dying"
    BY <1>1, <1>16, <2>1 DEF DestroySelf, OperationInv, Destroying
  <2> QED
    BY <1>1, <2>1, <2>2, <2>3 DEF Exists, Linked, AwaitsMark
<1>17. ASSUME NEW t \in Threads, DestroyWait(t) PROVE CallbackInv'
  BY <1>1, <1>17 DEF DestroyWait, Destroyed, Exists, Linked, AwaitsMark, sourceVars, cbVars, rsVars
<1> QED
  BY <1>2, <1>3, <1>4, <1>5, <1>6, <1>7, <1>8, <1>9, <1>10, <1>11, <1>12, <1>13, <1>14,
     <1>15, <1>16, <1>17 DEF Next, Stopper, Thread

\* The parts together.
LEMMA FullInductive == FullInv /\ [Next]_vars => FullInv'
BY Inductive, NextOperationInv, NextCallbackInv, NextRequestInv, NextListInv DEF FullInv

-----------------------------------------------------------------------------
(* What StopCallbacks promises                                              *)

\* A callback as StopCallbacks sees it.  Its runner exists because a body that
\* request_stop is in belongs to a callback that does; its killer because one
\* thread at most destroys it.
PhaseIs(c) ==
  /\ life[c] = "dead" => phaseBar[c] = "none"
  /\ life[c] # "dead" /\ runs[c] = 0 => phaseBar[c] = "armed"
  /\ life[c] # "dead" /\ runs[c] # 0 /\ (life[c] = "inline" \/ BodyRuns(c))
       => phaseBar[c] = "running"
  /\ life[c] # "dead" /\ runs[c] # 0 /\ life[c] # "inline" /\ ~BodyRuns(c)
       => phaseBar[c] = "ran"

RunnerIs(c) ==
  runnerBar[c] = IF life[c] = "inline" THEN maker[c]
                 ELSE IF BodyRuns(c) THEN owner ELSE NoThread

KillerIs(c) ==
  /\ \A t \in Threads : life[c] = "dying" /\ pc[t] # "client" /\ arg[t] = c => killerBar[c] = t
  /\ (life[c] # "dying" \/ \A t \in Threads : pc[t] = "client" \/ arg[t] # c)
       => killerBar[c] = NoThread

SeenAs(c) == PhaseIs(c) /\ RunnerIs(c) /\ KillerIs(c)

LEMMA Seen ==
  ASSUME FullInv, NEW c \in Callbacks
  PROVE  SeenAs(c)
<1>1. PhaseIs(c)
  <2>1. runs[c] \in Nat
    BY Types
  <2>2. runs[c] # 0 => runs[c] > 0
    BY <2>1
  <2> QED
    BY <2>1, <2>2 DEF PhaseIs, phaseBar
<1>2. RunnerIs(c)
  <2>1. BodyRuns(c) => life[c] # "dead"
    BY DEF BodyRuns, FullInv, RequestInv, Exists
  <2> QED
    BY <2>1 DEF RunnerIs, runnerBar
<1>3. KillerIs(c)
  <2>1. ASSUME NEW t \in Threads, pc[t] # "client", arg[t] = c, life[c] = "dying"
        PROVE  killerBar[c] = t
    <3>1. \A u \in Threads : arg[u] = c /\ pc[u] # "client" => u = t
      BY <2>1 DEF FullInv, OperationInv
    <3>2. (CHOOSE u \in Threads : arg[u] = c /\ pc[u] # "client") = t
      BY <2>1, <3>1
    <3> QED
      BY <2>1, <3>2 DEF killerBar
  <2> QED
    BY <2>1 DEF killerBar, KillerIs
<1> QED
  BY <1>1, <1>2, <1>3 DEF SeenAs

\* The same of the next state.
LEMMA SeenNext ==
  ASSUME FullInv', NEW c \in Callbacks
  PROVE  SeenAs(c)'
<1>1. PhaseIs(c)'
  <2>1. runs'[c] \in Nat
    BY DEF FullInv, Inv, TypeOK
  <2>2. runs'[c] # 0 => runs'[c] > 0
    BY <2>1
  <2> QED
    BY <2>1, <2>2 DEF PhaseIs, phaseBar
<1>2. RunnerIs(c)'
  <2>1. BodyRuns(c)' => life'[c] # "dead"
    BY DEF BodyRuns, FullInv, RequestInv, Exists
  <2> QED
    BY <2>1 DEF RunnerIs, runnerBar
<1>3. KillerIs(c)'
  <2>1. ASSUME NEW t \in Threads, pc'[t] # "client", arg'[t] = c, life'[c] = "dying"
        PROVE  killerBar'[c] = t
    <3>1. \A u \in Threads : arg'[u] = c /\ pc'[u] # "client" => u = t
      BY <2>1 DEF FullInv, OperationInv
    <3>2. (CHOOSE u \in Threads : arg'[u] = c /\ pc'[u] # "client") = t
      BY <2>1, <3>1
    <3> QED
      BY <2>1, <3>2 DEF killerBar
  <2> QED
    BY <2>1 DEF killerBar, KillerIs
<1> QED
  BY <1>1, <1>2, <1>3 DEF SeenAs

\* The three functions are determined by their values.
LEMMA Bars ==
  /\ phaseBar = [c \in Callbacks |-> phaseBar[c]]
  /\ runnerBar = [c \in Callbacks |-> runnerBar[c]]
  /\ killerBar = [c \in Callbacks |-> killerBar[c]]
  /\ phaseBar' = [c \in Callbacks |-> phaseBar'[c]]
  /\ runnerBar' = [c \in Callbacks |-> runnerBar'[c]]
  /\ killerBar' = [c \in Callbacks |-> killerBar'[c]]
BY DEF phaseBar, runnerBar, killerBar

\* A new source has no callbacks and was not asked to stop.
LEMMA InitPromise == Init => Promise!Init
<1> SUFFICES ASSUME Init PROVE Promise!Init
  OBVIOUS
<1>1. \A c \in Callbacks : SeenAs(c)
  BY InitFullInv, Seen
<1>2. \A c \in Callbacks : life[c] = "dead" /\ ~BodyRuns(c)
  BY DEF Init, BodyRuns
<1>3. \A c \in Callbacks :
        phaseBar[c] = "none" /\ runnerBar[c] = NoThread /\ killerBar[c] = NoThread
  BY <1>1, <1>2 DEF SeenAs, PhaseIs, RunnerIs, KillerIs
<1>4. StopRequested = FALSE
  BY DEF Init, StopRequested, StopFlag, LockFlag
<1> QED
  BY <1>3, <1>4, Bars DEF Promise!Init


\* A callback that a step does not concern looks the same after it.
LEMMA SeenKept ==
  ASSUME FullInv, FullInv', NEW c \in Callbacks,
         life'[c] = life[c], maker'[c] = maker[c], runs'[c] = 0 <=> runs[c] = 0,
         BodyRuns(c)' <=> BodyRuns(c), BodyRuns(c) => owner' = owner,
         \A t \in Threads : (pc'[t] # "client" /\ arg'[t] = c) <=> (pc[t] # "client" /\ arg[t] = c)
  PROVE  phaseBar'[c] = phaseBar[c] /\ runnerBar'[c] = runnerBar[c] /\ killerBar'[c] = killerBar[c]
<1>1. SeenAs(c) /\ SeenAs(c)'
  BY Seen, SeenNext
<1>2. phaseBar'[c] = phaseBar[c]
  BY <1>1 DEF SeenAs, PhaseIs
<1>3. runnerBar'[c] = runnerBar[c]
  BY <1>1 DEF SeenAs, RunnerIs
<1>4. killerBar'[c] = killerBar[c]
  BY <1>1 DEF SeenAs, KillerIs
<1> QED
  BY <1>2, <1>3, <1>4

\* A step that changes nothing of what the promise is about.
LEMMA Stutter ==
  ASSUME FullInv, FullInv', UNCHANGED <<maker, owner>>,
         StopRequested' <=> StopRequested,
         \A c \in Callbacks :
           /\ life'[c] = life[c]
           /\ runs'[c] = runs[c]
           /\ BodyRuns(c)' <=> BodyRuns(c)
           /\ \A t \in Threads :
                (pc'[t] # "client" /\ arg'[t] = c) <=> (pc[t] # "client" /\ arg[t] = c)
  PROVE  UNCHANGED Promise!vars
<1>1. \A c \in Callbacks :
        phaseBar'[c] = phaseBar[c] /\ runnerBar'[c] = runnerBar[c] /\ killerBar'[c] = killerBar[c]
  BY SeenKept
<1>2. StopRequested' = StopRequested
  BY DEF StopRequested
<1> QED
  BY <1>1, <1>2, Bars DEF Promise!vars

\* A constructor arms its callback when it is entered.
LEMMA ConstructArms ==
  ASSUME FullInv, FullInv', NEW t \in Threads, NEW c \in Callbacks, Construct(t, c)
  PROVE  Promise!Arm(c)
<1>1. /\ life[c] = "dead" /\ life' = [life EXCEPT ![c] = "constructing"]
      /\ runs' = [runs EXCEPT ![c] = 0]
      /\ pc[t] = "client" /\ pc' = [pc EXCEPT ![t] = "reg_try"]
      /\ arg' = [arg EXCEPT ![t] = c]
      /\ maker' = [maker EXCEPT ![c] = t]
      /\ UNCHANGED <<state, rs, owner, running, removed>>
  BY DEF Construct, InClient, sourceVars, rsVars
<1>2. \A d \in Callbacks : BodyRuns(d)' <=> BodyRuns(d)
  BY <1>1 DEF BodyRuns
<1>3. \A d \in Callbacks : d # c =>
        phaseBar'[d] = phaseBar[d] /\ runnerBar'[d] = runnerBar[d] /\ killerBar'[d] = killerBar[d]
  BY <1>1, <1>2, Types, SeenKept
<1>4. ~BodyRuns(c)
  BY <1>1 DEF BodyRuns, FullInv, RequestInv, Exists
<1>5. SeenAs(c) /\ SeenAs(c)'
  BY Seen, SeenNext
<1>6. phaseBar[c] = "none" /\ phaseBar'[c] = "armed"
  BY <1>1, <1>5, Types DEF SeenAs, PhaseIs
<1>7. runnerBar'[c] = runnerBar[c] /\ killerBar'[c] = killerBar[c]
  BY <1>1, <1>2, <1>4, <1>5, Types DEF SeenAs, RunnerIs, KillerIs
<1>8. UNCHANGED StopRequested
  BY <1>1 DEF StopRequested
<1> QED
  BY <1>3, <1>6, <1>7, <1>8, Bars DEF Promise!Arm

\* A constructor that finds the flag set begins the body itself.
LEMMA RegisterFailBegins ==
  ASSUME FullInv, FullInv', NEW t \in Threads, RegisterFail(t)
  PROVE  \E c \in Callbacks : Promise!Begin(t, c)
<1>1. PICK c \in Callbacks : c = arg[t]
  BY Types DEF RegisterFail
<1>2. /\ life[c] = "constructing" /\ life' = [life EXCEPT ![c] = "inline"]
      /\ runs[c] = 0 /\ runs' = [runs EXCEPT ![c] = @ + 1]
      /\ maker[c] = t
      /\ pc' = [pc EXCEPT ![t] = "client"]
      /\ StopRequested
      /\ UNCHANGED <<state, rs, owner, running, removed, arg, maker>>
  BY <1>1 DEF RegisterFail, FullInv, OperationInv, Constructing, CallbackInv, sourceVars, rsVars
<1>3. \A d \in Callbacks : BodyRuns(d)' <=> BodyRuns(d)
  BY <1>2 DEF BodyRuns
<1>4. \A d \in Callbacks : d # c =>
        phaseBar'[d] = phaseBar[d] /\ runnerBar'[d] = runnerBar[d] /\ killerBar'[d] = killerBar[d]
  BY <1>1, <1>2, <1>3, Types, SeenKept
<1>5. SeenAs(c) /\ SeenAs(c)'
  BY Seen, SeenNext
<1>6. phaseBar[c] = "armed" /\ phaseBar'[c] = "running"
  BY <1>2, <1>5, Types DEF SeenAs, PhaseIs
<1>7. runnerBar'[c] = t /\ killerBar'[c] = killerBar[c]
  BY <1>2, <1>5, Types DEF SeenAs, RunnerIs, KillerIs
<1>8. UNCHANGED StopRequested
  BY <1>2 DEF StopRequested
<1>9. Promise!Begin(t, c)
  BY <1>2, <1>4, <1>6, <1>7, <1>8, Bars DEF Promise!Begin
<1> QED
  BY <1>9

\* request_stop begins the body of the callback in hand.
LEMMA ExecuteBegins ==
  ASSUME FullInv, FullInv', StopExecute
  PROVE  Promise!Begin(owner, running)
<1>1. /\ rs = "exec" /\ rs' = "body" /\ removed' = FALSE
      /\ runs' = [runs EXCEPT ![running] = @ + 1]
      /\ UNCHANGED <<state, owner, running, pc, arg, life, maker>>
  BY DEF StopExecute, sourceVars
<1>2. /\ running \in Callbacks /\ owner \in Threads
      /\ Exists(running) /\ runs[running] = 0
      /\ StopRequested
  BY <1>1 DEF FullInv, RequestInv, Inv, FlagInv
<1>3. \A d \in Callbacks : ~BodyRuns(d) /\ (BodyRuns(d)' <=> d = running)
  BY <1>1 DEF BodyRuns
<1>4. \A d \in Callbacks : d # running =>
        phaseBar'[d] = phaseBar[d] /\ runnerBar'[d] = runnerBar[d] /\ killerBar'[d] = killerBar[d]
  BY <1>1, <1>2, <1>3, Types, SeenKept
<1>5. SeenAs(running) /\ SeenAs(running)'
  BY <1>1, <1>2, Seen, SeenNext
<1>6. phaseBar[running] = "armed" /\ phaseBar'[running] = "running"
  BY <1>1, <1>2, <1>3, <1>5, Types DEF SeenAs, PhaseIs, Exists
<1>7. runnerBar'[running] = owner /\ killerBar'[running] = killerBar[running]
  BY <1>1, <1>2, <1>3, <1>5, Types DEF SeenAs, RunnerIs, KillerIs, Exists
<1>8. UNCHANGED StopRequested
  BY <1>1 DEF StopRequested
<1> QED
  BY <1>2, <1>4, <1>6, <1>7, <1>8, Bars DEF Promise!Begin

\* The body in a constructor ends when it returns.
LEMMA InlineReturnEnds ==
  ASSUME FullInv, FullInv', NEW t \in Threads, NEW c \in Callbacks, InlineReturn(t, c)
  PROVE  Promise!End(c)
<1>1. /\ life[c] = "inline" /\ life' = [life EXCEPT ![c] = "live"]
      /\ UNCHANGED <<state, rs, owner, running, removed, pc, arg, maker, runs>>
  BY DEF InlineReturn, Inlines, sourceVars, rsVars
<1>2. runs[c] = 1 /\ ~BodyRuns(c)
  BY <1>1 DEF FullInv, CallbackInv, BodyRuns, RequestInv, Exists
<1>3. \A d \in Callbacks : BodyRuns(d)' <=> BodyRuns(d)
  BY <1>1 DEF BodyRuns
<1>4. \A d \in Callbacks : d # c =>
        phaseBar'[d] = phaseBar[d] /\ runnerBar'[d] = runnerBar[d] /\ killerBar'[d] = killerBar[d]
  BY <1>1, <1>3, Types, SeenKept
<1>5. SeenAs(c) /\ SeenAs(c)'
  BY Seen, SeenNext
<1>6. phaseBar[c] = "running" /\ phaseBar'[c] = "ran"
  BY <1>1, <1>2, <1>3, <1>5, Types DEF SeenAs, PhaseIs
<1>7. runnerBar'[c] = NoThread /\ killerBar'[c] = killerBar[c]
  BY <1>1, <1>2, <1>3, <1>5, Types DEF SeenAs, RunnerIs, KillerIs
<1>8. UNCHANGED StopRequested
  BY <1>1 DEF StopRequested
<1> QED
  BY <1>4, <1>6, <1>7, <1>8, Bars DEF Promise!End

\* The body that request_stop is in ends when it returns, unless it has destroyed
\* its callback: then there is nothing left to end.
LEMMA BodyReturnEnds ==
  ASSUME FullInv, FullInv', BodyReturn
  PROVE  Promise!End(running) \/ UNCHANGED Promise!vars
<1>1. /\ rs = "body" /\ rs' = "after"
      /\ UNCHANGED <<state, owner, running, removed, pc, arg, life, maker, runs>>
  BY DEF BodyReturn, sourceVars, clientVars
<1>2. \A d \in Callbacks : ~BodyRuns(d)'
  BY <1>1 DEF BodyRuns
<1>3. StopRequested' <=> StopRequested
  BY <1>1 DEF StopRequested
<1>4. CASE removed
  <2>1. \A d \in Callbacks : ~BodyRuns(d)
    BY <1>4 DEF BodyRuns
  <2> QED
    BY <1>1, <1>2, <1>3, <2>1, Stutter
<1>5. CASE ~removed
  <2>1. running \in Callbacks /\ Exists(running) /\ runs[running] = 1
    BY <1>1, <1>5 DEF FullInv, RequestInv
  <2>2. \A d \in Callbacks : BodyRuns(d) <=> d = running
    BY <1>1, <1>5 DEF BodyRuns
  <2>3. \A d \in Callbacks : d # running =>
          phaseBar'[d] = phaseBar[d] /\ runnerBar'[d] = runnerBar[d] /\ killerBar'[d] = killerBar[d]
    BY <1>1, <1>2, <2>2, SeenKept
  <2>4. SeenAs(running) /\ SeenAs(running)'
    BY <1>1, <2>1, Seen, SeenNext
  <2>5. phaseBar[running] = "running" /\ phaseBar'[running] = "ran"
    BY <1>1, <1>2, <2>1, <2>2, <2>4 DEF SeenAs, PhaseIs, Exists
  <2>6. runnerBar'[running] = NoThread /\ killerBar'[running] = killerBar[running]
    BY <1>1, <1>2, <2>1, <2>4 DEF SeenAs, RunnerIs, KillerIs, Exists
  <2>7. Promise!End(running)
    BY <1>3, <2>3, <2>5, <2>6, Bars DEF Promise!End, StopRequested
  <2> QED
    BY <2>7
<1> QED
  BY <1>4, <1>5

\* Setting the flag is the request.
LEMMA RequestStops ==
  ASSUME FullInv, FullInv', NEW t \in Threads, RequestStop(t)
  PROVE  Promise!Stop
<1>1. /\ state = 0 /\ state' = 3 /\ rs' = "loop"
      /\ UNCHANGED <<running, removed, pc, arg, life, maker, runs>>
  BY StateValues DEF RequestStop, StopFlag, LockFlag, clientVars
<1>2. StopRequested = FALSE /\ StopRequested' = TRUE
  BY <1>1 DEF StopRequested, StopFlag, LockFlag
<1>3. rs = "none"
  BY <1>2 DEF FullInv, Inv, FlagInv
<1>4. \A d \in Callbacks : ~BodyRuns(d) /\ ~BodyRuns(d)'
  BY <1>1, <1>3 DEF BodyRuns
<1>5. \A d \in Callbacks :
        phaseBar'[d] = phaseBar[d] /\ runnerBar'[d] = runnerBar[d] /\ killerBar'[d] = killerBar[d]
  BY <1>1, <1>4, SeenKept
<1> QED
  BY <1>2, <1>5, Bars DEF Promise!Stop

\* A destructor that is entered has begun to release its callback, or has done so
\* at once if the callback is not in the source.
LEMMA DestroyBegins ==
  ASSUME FullInv, FullInv', NEW t \in Threads, NEW c \in Callbacks, Destroy(t, c)
  PROVE  Promise!BeginRelease(t, c) \/ Promise!Release(c)
<1>1. /\ life[c] = "live"
      /\ pc[t] = "client"
      /\ arg' = [arg EXCEPT ![t] = c]
      /\ UNCHANGED <<state, rs, owner, running, removed, source, maker, runs>>
  BY DEF Destroy, InClient, sourceVars, cbVars, rsVars
<1>2. \A d \in Callbacks : BodyRuns(d)' <=> BodyRuns(d)
  BY <1>1 DEF BodyRuns
<1>3. UNCHANGED StopRequested
  BY <1>1 DEF StopRequested
<1>4. SeenAs(c) /\ SeenAs(c)'
  BY Seen, SeenNext
<1>5. CASE source[c]
  <2>1. life' = [life EXCEPT ![c] = "dying"] /\ pc' = [pc EXCEPT ![t] = "dtor_lock"]
    BY <1>5 DEF Destroy
  <2>2. \A d \in Callbacks : d # c =>
          phaseBar'[d] = phaseBar[d] /\ runnerBar'[d] = runnerBar[d] /\ killerBar'[d] = killerBar[d]
    BY <1>1, <1>2, <2>1, Types, SeenKept
  <2>3. phaseBar[c] # "none" /\ phaseBar'[c] = phaseBar[c]
    BY <1>1, <1>2, <1>4, <2>1, Types DEF SeenAs, PhaseIs
  <2>4. runnerBar'[c] = runnerBar[c]
    BY <1>1, <1>2, <1>4, <2>1, Types DEF SeenAs, RunnerIs
  <2>5. killerBar[c] = NoThread /\ killerBar'[c] = t
    BY <1>1, <1>4, <2>1, Types DEF SeenAs, KillerIs
  <2> QED
    BY <1>3, <2>2, <2>3, <2>4, <2>5, Bars DEF Promise!BeginRelease
<1>6. CASE ~source[c]
  <2>1. life' = [life EXCEPT ![c] = "dead"] /\ pc' = [pc EXCEPT ![t] = "client"]
    BY <1>6 DEF Destroy, Destroyed
  <2>2. \A d \in Callbacks : d # c =>
          phaseBar'[d] = phaseBar[d] /\ runnerBar'[d] = runnerBar[d] /\ killerBar'[d] = killerBar[d]
    BY <1>1, <1>2, <2>1, Types, SeenKept
  <2>3. runs[c] = 1 /\ ~BodyRuns(c)
    BY <1>1, <1>6 DEF FullInv, CallbackInv, RequestInv, BodyRuns, Exists
  <2>4. phaseBar[c] = "ran" /\ phaseBar'[c] = "none"
    BY <1>1, <1>4, <2>1, <2>3, Types DEF SeenAs, PhaseIs
  <2>5. runnerBar'[c] = runnerBar[c]
    BY <1>1, <1>2, <1>4, <2>1, <2>3, Types DEF SeenAs, RunnerIs
  <2>6. killerBar[c] = NoThread /\ killerBar'[c] = killerBar[c]
    BY <1>1, <1>4, <2>1, Types DEF SeenAs, KillerIs
  <2> QED
    BY <1>3, <2>2, <2>4, <2>5, <2>6, Bars DEF Promise!Release
<1> QED
  BY <1>5, <1>6

\* A destructor that returns has released its callback: the body is not running,
\* or it runs on the destructor's own thread.
LEMMA DestroyEnds ==
  ASSUME FullInv, FullInv', NEW t \in Threads,
         DestroyUnlink(t) \/ DestroySelf(t) \/ DestroyWait(t)
  PROVE  \E c \in Callbacks : Promise!EndRelease(c)
<1>1. PICK c \in Callbacks : c = arg[t]
  BY Types DEF DestroyUnlink, DestroySelf, DestroyWait
<1>2. /\ life[c] = "dying" /\ life' = [life EXCEPT ![c] = "dead"]
      /\ pc[t] # "client" /\ pc' = [pc EXCEPT ![t] = "client"]
      /\ UNCHANGED <<rs, owner, running, arg, maker, runs>>
  BY <1>1 DEF DestroyUnlink, DestroySelf, DestroyWait, Destroyed, FullInv, OperationInv,
              Destroying, rsVars
<1>3. BodyRuns(c) => t = owner
  <2>1. CASE DestroyUnlink(t)
    BY <1>1, <2>1 DEF DestroyUnlink, BodyRuns, FullInv, RequestInv
  <2>2. CASE DestroySelf(t)
    BY <2>2 DEF DestroySelf, FullInv, OperationInv
  <2>3. CASE DestroyWait(t)
    BY <1>1, <2>3 DEF DestroyWait, BodyCompleted, BodyRuns, FullInv, RequestInv
  <2> QED
    BY <2>1, <2>2, <2>3
<1>4. \A d \in Callbacks : d # c => (BodyRuns(d)' <=> BodyRuns(d))
  <2>1. CASE DestroyUnlink(t) \/ DestroyWait(t)
    BY <2>1 DEF DestroyUnlink, DestroyWait, BodyRuns, rsVars
  <2>2. CASE DestroySelf(t)
    <3>1. removed' = (removed \/ removedPtr[c])
      BY <1>1, <2>2 DEF DestroySelf
    <3>2. removedPtr[c] => running = c
      BY <1>2 DEF FullInv, CallbackInv, AwaitsMark
    <3> QED
      BY <1>2, <3>1, <3>2 DEF BodyRuns
  <2> QED
    BY <2>1, <2>2
<1>5. UNCHANGED StopRequested
  <2>1. CASE DestroyUnlink(t)
    <3>1. state \in {LockFlag, StopFlag + LockFlag}
      BY <2>1 DEF DestroyUnlink, FullInv, Inv, LockInv, InCriticalSection, Locked
    <3> QED
      BY <2>1, <3>1 DEF DestroyUnlink, StopRequested, StopFlag, LockFlag
  <2>2. CASE DestroySelf(t) \/ DestroyWait(t)
    BY <2>2 DEF DestroySelf, DestroyWait, sourceVars, StopRequested
  <2> QED
    BY <2>1, <2>2
<1>6. \A d \in Callbacks : d # c =>
        phaseBar'[d] = phaseBar[d] /\ runnerBar'[d] = runnerBar[d] /\ killerBar'[d] = killerBar[d]
  BY <1>1, <1>2, <1>4, Types, SeenKept
<1>7. SeenAs(c) /\ SeenAs(c)'
  BY Seen, SeenNext
<1>8. killerBar[c] = t /\ killerBar'[c] = NoThread
  BY <1>1, <1>2, <1>7, Types DEF SeenAs, KillerIs
<1>9. phaseBar[c] = "running" => runnerBar[c] = t
  BY <1>2, <1>3, <1>7 DEF SeenAs, PhaseIs, RunnerIs
<1>10. ~BodyRuns(c)'
  BY <1>2, Types DEF BodyRuns, FullInv, RequestInv, Exists
<1>11. phaseBar'[c] = "none" /\ runnerBar'[c] = NoThread
  BY <1>2, <1>7, <1>10, Types DEF SeenAs, PhaseIs, RunnerIs
<1>12. Promise!EndRelease(c)
  BY <1>5, <1>6, <1>8, <1>9, <1>11, Types, Bars DEF Promise!EndRelease
<1> QED
  BY <1>12

\* Every step of the source is a step of the promise, or changes nothing of it.
LEMMA NextPromise == FullInv /\ FullInv' /\ [Next]_vars => [Promise!Next]_(Promise!vars)
<1> SUFFICES ASSUME FullInv, FullInv', [Next]_vars PROVE [Promise!Next]_(Promise!vars)
  OBVIOUS
<1>1. CASE StopPop \/ StopAfter \/ StopRelock \/ StopFinish \/ UNCHANGED vars
  <2>1. /\ UNCHANGED <<maker, owner, life, runs, pc, arg>>
        /\ \A c \in Callbacks : BodyRuns(c)' <=> BodyRuns(c)
    BY <1>1 DEF StopPop, StopAfter, StopRelock, StopFinish, vars, cbVars, rsVars, clientVars,
                BodyRuns
  <2>2. StopRequested' <=> StopRequested
    <3>1. rs' = "none" <=> rs = "none"
      BY <1>1 DEF StopPop, StopAfter, StopRelock, StopFinish, vars, rsVars
    <3> QED
      BY <3>1 DEF FullInv, Inv, FlagInv
  <2> QED
    BY <2>1, <2>2, Stutter
<1>2. ASSUME NEW t \in Threads,
             RegisterLock(t) \/ RegisterLink(t) \/ DestroyLock(t) \/ DestroyPopped(t)
      PROVE  [Promise!Next]_(Promise!vars)
  <2>1. /\ UNCHANGED <<maker, owner, runs, arg, rs, running, removed>>
        /\ pc' = [pc EXCEPT ![t] = pc'[t]]
    BY <1>2 DEF RegisterLock, RegisterLink, DestroyLock, DestroyPopped, rsVars
  <2>2. \A c \in Callbacks : BodyRuns(c)' <=> BodyRuns(c)
    BY <2>1 DEF BodyRuns
  <2>3. StopRequested' <=> StopRequested
    BY <2>1 DEF FullInv, Inv, FlagInv
  <2>4. CASE ~RegisterLink(t)
    <3>1. UNCHANGED life /\ pc[t] # "client" /\ pc'[t] # "client"
      BY <1>2, <2>4, Types DEF RegisterLock, DestroyLock, DestroyPopped
    <3> QED
      BY <2>1, <2>2, <2>3, <3>1, Types, Stutter
  <2>5. CASE RegisterLink(t)
    <3>1. PICK c \in Callbacks : c = arg[t]
      BY <2>5, Types DEF RegisterLink
    <3>2. /\ life[c] = "constructing" /\ life' = [life EXCEPT ![c] = "live"]
          /\ runs[c] = 0
      BY <2>5, <3>1 DEF RegisterLink, FullInv, OperationInv, Constructing, CallbackInv
    <3>3. \A d \in Callbacks : d # c =>
            phaseBar'[d] = phaseBar[d] /\ runnerBar'[d] = runnerBar[d] /\ killerBar'[d] = killerBar[d]
      BY <2>1, <2>2, <3>1, <3>2, Types, SeenKept
    <3>4. SeenAs(c) /\ SeenAs(c)'
      BY Seen, SeenNext
    <3>5. phaseBar'[c] = phaseBar[c] /\ runnerBar'[c] = runnerBar[c] /\ killerBar'[c] = killerBar[c]
      BY <2>1, <2>2, <3>2, <3>4, Types DEF SeenAs, PhaseIs, RunnerIs, KillerIs
    <3>6. UNCHANGED Promise!vars
      BY <2>3, <3>3, <3>5, Bars DEF Promise!vars, StopRequested
    <3> QED
      BY <3>6
  <2> QED
    BY <2>4, <2>5
<1>3. ASSUME NEW t \in Threads, NEW c \in Callbacks,
             Construct(t, c) \/ InlineReturn(t, c) \/ Destroy(t, c)
      PROVE  Promise!Next
  BY <1>3, ConstructArms, InlineReturnEnds, DestroyBegins DEF Promise!Next
<1>4. ASSUME NEW t \in Threads, RegisterFail(t) PROVE Promise!Next
  BY <1>4, RegisterFailBegins DEF Promise!Next
<1>5. ASSUME NEW t \in Threads, RequestStop(t) PROVE Promise!Next
  BY <1>5, RequestStops DEF Promise!Next
<1>6. ASSUME NEW t \in Threads, DestroyUnlink(t) \/ DestroySelf(t) \/ DestroyWait(t)
      PROVE  Promise!Next
  BY <1>6, DestroyEnds DEF Promise!Next
<1>7. CASE StopExecute
  <2>1. owner \in Threads /\ running \in Callbacks
    BY <1>7 DEF StopExecute, FullInv, RequestInv
  <2> QED
    BY <1>7, <2>1, ExecuteBegins DEF Promise!Next
<1>8. CASE BodyReturn
  <2>1. running \in Callbacks
    BY <1>8 DEF BodyReturn, FullInv, RequestInv
  <2> QED
    BY <1>8, <2>1, BodyReturnEnds DEF Promise!Next
<1> QED
  BY <1>1, <1>2, <1>3, <1>4, <1>5, <1>6, <1>7, <1>8 DEF Next, Stopper, Thread

-----------------------------------------------------------------------------
(* The theorems *)

\* Inv holds in every state that can be reached.
THEOREM Invariance == Spec => []Inv
BY InitInv, Inductive, PTL DEF Spec

\* The variables keep their types, whatever threads and callbacks there are.
THEOREM TypeCorrect == Spec => []TypeOK
BY Invariance, PTL DEF Inv

\* The lock bit is set exactly while one operation is in a critical section.
THEOREM LockCorrect == Spec => []LockDiscipline
<1>1. Inv => LockDiscipline
  BY DEF Inv, LockInv, LockDiscipline, CriticalSections, InCriticalSection
<1> QED
  BY <1>1, Invariance, PTL

\* No store to _state_ clears the flag: a request is final.
THEOREM RequestStays == Spec => RequestIsFinal
<1>1. Inv /\ [Next]_vars => [StopRequested => StopRequested']_vars
  <2> SUFFICES ASSUME Inv, [Next]_vars, StopRequested PROVE StopRequested'
    OBVIOUS
  <2>1. rs # "none" => rs' # "none"
    BY QuietSteps
       DEF Next, Stopper, Thread, Quiet, StopPop, StopRelock, StopFinish, RequestStop,
           RegisterLock, RegisterLink, DestroyLock, DestroyUnlink, DestroyPopped, rsVars
  <2> QED
    BY <2>1, Inductive DEF Inv, FlagInv
<1> QED
  BY <1>1, Invariance, PTL DEF Spec, RequestIsFinal

\* FullInv holds in every state that can be reached.
THEOREM FullInvariance == Spec => []FullInv
BY InitFullInv, FullInductive, PTL DEF Spec

\* The callbacks that are reached from the head are those that are linked: a
\* callback missed by a set closed under next would have a predecessor missed.
LEMMA LinkedIsReached ==
  ASSUME FullInv, NEW c \in Callbacks
  PROVE  Linked(c) <=> Reached(c)
<1>1. WellLinked(List, head, next, prev) /\ List \in SUBSET Callbacks
  BY DEF FullInv, ListInv, List
<1>2. ASSUME Reached(c) PROVE Linked(c)
  <2>1. head \in List \cup {Null} /\ \A x \in List : next[x] \in List \cup {Null}
    BY <1>1 DEF WellLinked
  <2>2. c \in List
    BY <1>1, <1>2, <2>1 DEF Reached
  <2> QED
    BY <2>2 DEF List
<1>3. ASSUME Linked(c), NEW S \in SUBSET Callbacks, head \in S \cup {Null},
             \A x \in S : next[x] \in S \cup {Null}, c \notin S
      PROVE  FALSE
  <2>1. List \ S \in SUBSET List /\ List \ S # {}
    BY <1>3 DEF List
  <2>2. PICK d \in List \ S : prev[d] \notin List \ S
    BY <1>1, <2>1 DEF WellLinked
  <2>3. d \in Callbacks /\ d # Null
    BY <1>1, ConstantsAssumption
  <2>4. prev[d] # Head
    BY <1>1, <1>3, <2>2, <2>3 DEF WellLinked
  <2>5. prev[d] \in S /\ next[prev[d]] = d
    BY <1>1, <2>2, <2>4 DEF WellLinked
  <2> QED
    BY <1>3, <2>2, <2>3, <2>5
<1> QED
  BY <1>2, <1>3 DEF Reached

\* The list is doubly linked, what is reached from its head is what is linked,
\* and a living callback is linked until it is started.
THEOREM ListCorrect == Spec => []ListWellFormed
<1>1. FullInv => ListWellFormed
  <2> SUFFICES ASSUME FullInv PROVE ListWellFormed
    OBVIOUS
  <2>1. head # Null => prev[head] = Head
    BY DEF FullInv, ListInv, WellLinked
  <2>2. ASSUME NEW c \in Callbacks, Linked(c)
        PROVE  /\ prev[c] = Head => head = c
               /\ prev[c] \in Callbacks => next[prev[c]] = c
               /\ next[c] # Null => prev[next[c]] = c
               /\ runs[c] = 0
    BY <2>2, ConstantsAssumption DEF FullInv, CallbackInv, ListInv, WellLinked, List
  <2>3. ASSUME NEW c \in Callbacks, life[c] \in {"live", "dying"}, runs[c] = 0,
               ~(rs = "exec" /\ running = c)
        PROVE  Linked(c)
    BY <2>3, Types DEF FullInv, CallbackInv, Exists, Linked
  <2> QED
    BY <2>1, <2>2, <2>3, LinkedIsReached DEF ListWellFormed
<1> QED
  BY <1>1, FullInvariance, PTL

\* No body is started twice, by whichever of the constructor and request_stop.
THEOREM StartedOnce == Spec => []AtMostOnce
<1>1. FullInv => AtMostOnce
  BY DEF FullInv, CallbackInv, AtMostOnce
<1> QED
  BY <1>1, FullInvariance, PTL

\* request_stop accesses no callback whose destructor has returned.
THEOREM NoDanglingCallback == Spec => []NoUseAfterDestroy
<1>1. FullInv => NoUseAfterDestroy
  BY DEF FullInv, RequestInv, Exists, NoUseAfterDestroy
<1> QED
  BY <1>1, FullInvariance, PTL

\* A callback that exists when request_stop returns has been run: it is not in
\* the list, which is empty, and no ring lies beside it.
THEOREM EveryCallbackRun == Spec => []NoCallbackMissed
<1>1. FullInv => NoCallbackMissed
  <2> SUFFICES ASSUME FullInv, rs = "done", NEW c \in Callbacks, Exists(c) PROVE runs[c] = 1
    BY DEF NoCallbackMissed, Exists
  <2>1. ~Linked(c)
    BY NoOrphan DEF FullInv, RequestInv
  <2> QED
    BY <2>1 DEF FullInv, CallbackInv, Linked, Exists
<1> QED
  BY <1>1, FullInvariance, PTL

\* The assertion of the destructor of the source holds when no callback exists
\* and no operation is under way.
THEOREM SourceEnds == Spec => []SourceDestructible
<1>1. FullInv => SourceDestructible
  <2> SUFFICES ASSUME FullInv, \A c \in Callbacks : life[c] = "dead",
                      \A t \in Threads : pc[t] = "client", rs \in {"none", "done"}
               PROVE  ~Locked /\ head = Null
    BY DEF SourceDestructible
  <2>1. ~Locked
    BY DEF FullInv, Inv, LockInv, InCriticalSection
  <2>2. head = Null
    BY DEF FullInv, ListInv, WellLinked, List, Linked
  <2> QED
    BY <2>1, <2>2
<1> QED
  BY <1>1, FullInvariance, PTL

\* The source implements what StopCallbacks promises, step by step.  (Its liveness
\* part is checked on instances.)
THEOREM ImplementsCallbacks == Spec => Promise!Spec
<1>1. Init => Promise!Init
  BY InitPromise
<1>2. FullInv /\ FullInv' /\ [Next]_vars => [Promise!Next]_(Promise!vars)
  BY NextPromise
<1> QED
  BY <1>1, <1>2, FullInvariance, PTL DEF Spec, Promise!Spec

=============================================================================
