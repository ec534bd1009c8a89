------------------------------ MODULE StopToken ------------------------------
(***************************************************************************)
(* inplace_stop_source and inplace_stop_callback                           *)
(* (include/ustdex/detail/stop_token.hpp).                                 *)
(*                                                                         *)
(* One source, a set of callback objects and a set of threads.  The source *)
(* keeps an intrusive doubly linked list of callbacks guarded by a spin    *)
(* lock that shares one byte, _state_, with the "stop requested" flag.  A  *)
(* callback is linked by its constructor, unlinked by its destructor or by *)
(* request_stop, which pops the callbacks one by one and runs each of them *)
(* with the lock released.                                                 *)
(*                                                                         *)
(* A thread is in client code (InClient) or inside one of the three        *)
(* operations.  Client code includes the bodies of callbacks, so a body    *)
(* may construct callbacks, destroy others and destroy its own.  The one   *)
(* request_stop call that made the request keeps its frame in rs, running, *)
(* removed and owner: it is suspended while its thread is in a body.       *)
(*                                                                         *)
(* Callback objects are reused: a dead one may be constructed again, as    *)
(* the memory of an operation state is.                                    *)
(***************************************************************************)
EXTENDS Integers

CONSTANTS
  Threads,      \* the threads that use the source
  Callbacks,    \* the memory cells that hold inplace_stop_callback objects
  Head,         \* the address &_callbacks_ of the list head
  Null,         \* nullptr
  NoThread      \* a default constructed thread id

ASSUME ConstantsAssumption ==
  /\ Head \notin Callbacks
  /\ Null \notin Callbacks
  /\ Head # Null
  /\ NoThread \notin Threads

VARIABLES
  \* inplace_stop_source
  state,        \* _state_: stop flag (1) + lock flag (2)
  head,         \* _callbacks_
  notifying,    \* _notifying_thread_
  \* _inplace_stop_callback_base, one of each per callback
  source,       \* _source_ # nullptr
  next,         \* _next_
  prev,         \* _prev_ptr_: Head, the callback whose _next_ it points to, or Null
  removedPtr,   \* _removed_during_callback_ # nullptr
  completed,    \* _callback_completed_
  \* the frame of the request_stop call that made the request
  rs,           \* where it is
  owner,        \* the thread it runs on
  running,      \* its local _callbk
  removed,      \* its local _removed_during_callback_
  \* the threads and the life of the callback objects
  pc,           \* the constructor or destructor step a thread is at
  arg,          \* the callback it constructs or destroys
  life,         \* dead, constructing, inline (its constructor runs the body), live, dying
  maker,        \* the thread that constructed the callback
  runs          \* how often the body was started since construction (history)

sourceVars == <<state, head, notifying>>
cbVars     == <<source, next, prev, removedPtr, completed>>
rsVars     == <<rs, owner, running, removed>>
clientVars == <<pc, arg, life, maker, runs>>
vars       == <<sourceVars, cbVars, rsVars, clientVars>>

StopFlag == 1   \* _stop_requested_flag
LockFlag == 2   \* _locked_flag

StopRequested == state \in {StopFlag, StopFlag + LockFlag}
Locked        == state \in {LockFlag, StopFlag + LockFlag}

\* _lock() and _try_lock_unless_stop_requested() stop spinning with the lock.
CanLock == ~Locked

CanLockUnlessStopped_ignored_lock == ~StopRequested
CanLockUnlessStopped_ignored_stop == ~Locked
CanLockUnlessStopped == state = 0

Init ==
  /\ state = 0
  /\ head = Null
  /\ notifying = NoThread
  /\ source     = [c \in Callbacks |-> FALSE]
  /\ next       = [c \in Callbacks |-> Null]
  /\ prev       = [c \in Callbacks |-> Null]
  /\ removedPtr = [c \in Callbacks |-> FALSE]
  /\ completed  = [c \in Callbacks |-> FALSE]
  /\ rs = "none"
  /\ owner = NoThread
  /\ running = Null
  /\ removed = FALSE
  /\ pc    = [t \in Threads |-> "client"]
  /\ arg   = [t \in Threads |-> Null]
  /\ life  = [c \in Callbacks |-> "dead"]
  /\ maker = [c \in Callbacks |-> NoThread]
  /\ runs  = [c \in Callbacks |-> 0]

\* t executes client code: outside every operation, or in a callback's body.
InClient(t) ==
  /\ pc[t] = "client"
  /\ t = owner => rs \in {"body", "done"}

\* t executes the body of c inside the constructor of c.
Inlines(t, c) == life[c] = "inline" /\ maker[c] = t

-----------------------------------------------------------------------------
(* inplace_stop_callback(token, fun): _register_callback, _try_add_callback *)

Construct(t, c) ==
  /\ InClient(t)
  /\ life[c] = "dead"
  /\ pc' = [pc EXCEPT ![t] = "reg_try"]
  /\ arg' = [arg EXCEPT ![t] = c]
  /\ life' = [life EXCEPT ![c] = "constructing"]
  /\ maker' = [maker EXCEPT ![c] = t]
  /\ runs' = [runs EXCEPT ![c] = 0]
  /\ source' = [source EXCEPT ![c] = TRUE]
  /\ next' = [next EXCEPT ![c] = Null]
  /\ prev' = [prev EXCEPT ![c] = Null]
  /\ removedPtr' = [removedPtr EXCEPT ![c] = FALSE]
  /\ completed' = [completed EXCEPT ![c] = FALSE]
  /\ UNCHANGED <<sourceVars, rsVars>>

\* _try_lock_unless_stop_requested(false) took the lock.
RegisterLock(t) ==
  /\ pc[t] = "reg_try"
  /\ CanLockUnlessStopped
  /\ state' = LockFlag
  /\ pc' = [pc EXCEPT ![t] = "reg_link"]
  /\ UNCHANGED <<head, notifying, cbVars, rsVars, arg, life, maker, runs>>

\* The back links after c was pushed in front: c's own, and the old head's.
PrevAfterPush_head_only(c) == [prev EXCEPT ![c] = Head]
PrevAfterPush(c) ==
  [p \in Callbacks |-> CASE p = c -> Head
                         [] p = head /\ p # c -> c
                         [] OTHER -> prev[p]]

\* The lock is held: push c in front of the list, unlock, return.
RegisterLink(t) ==
  LET c == arg[t] IN
  /\ pc[t] = "reg_link"
  /\ next' = [next EXCEPT ![c] = head]
  /\ prev' = PrevAfterPush(c)
  /\ head' = c
  /\ state' = 0
  /\ pc' = [pc EXCEPT ![t] = "client"]
  /\ life' = [life EXCEPT ![c] = "live"]
  /\ UNCHANGED <<notifying, source, removedPtr, completed, rsVars, arg, maker, runs>>

\* Stop was requested before: forget the source and run the body here.
RegisterFail(t) ==
  LET c == arg[t] IN
  /\ pc[t] = "reg_try"
  /\ StopRequested
  /\ source' = [source EXCEPT ![c] = FALSE]
  /\ life' = [life EXCEPT ![c] = "inline"]
  /\ runs' = [runs EXCEPT ![c] = @ + 1]
  /\ pc' = [pc EXCEPT ![t] = "client"]
  /\ UNCHANGED <<sourceVars, next, prev, removedPtr, completed, rsVars, arg, maker>>

\* The body run by the constructor returns, and the constructor with it.
InlineReturn(t, c) ==
  /\ InClient(t)
  /\ Inlines(t, c)
  /\ life' = [life EXCEPT ![c] = "live"]
  /\ UNCHANGED <<sourceVars, cbVars, rsVars, pc, arg, maker, runs>>

-----------------------------------------------------------------------------
(* request_stop.  A call that finds the flag set returns at once and        *)
(* changes nothing, so only the call that makes the request has steps.      *)

\* _try_lock_unless_stop_requested(true) took the lock and set the flag.
RequestStop(t) ==
  /\ InClient(t)
  /\ CanLockUnlessStopped
  /\ state' = StopFlag + LockFlag
  /\ notifying' = t
  /\ owner' = t
  /\ rs' = "loop"
  /\ UNCHANGED <<head, cbVars, running, removed, clientVars>>

HeadAfterPop_unchanged == head
HeadAfterPop == next[head]

\* The lock is held: pop the first callback and unlock.
StopPop ==
  /\ rs = "loop"
  /\ head # Null
  /\ running' = head
  /\ head' = HeadAfterPop
  /\ prev' = [p \in Callbacks |-> CASE p = head -> Null
                                    [] p = next[head] /\ p # head -> Head
                                    [] OTHER -> prev[p]]
  /\ state' = StopFlag
  /\ rs' = "exec"
  /\ UNCHANGED <<notifying, source, next, removedPtr, completed, owner, removed, clientVars>>

\* The lock is not held: point the callback at the local flag, call its body.
StopExecute ==
  /\ rs = "exec"
  /\ removed' = FALSE
  /\ removedPtr' = [removedPtr EXCEPT ![running] = TRUE]
  /\ runs' = [runs EXCEPT ![running] = @ + 1]
  /\ rs' = "body"
  /\ UNCHANGED <<sourceVars, source, next, prev, completed, owner, running, pc, arg, life, maker>>

\* The body returns to request_stop.
BodyReturn ==
  /\ rs = "body"
  /\ InClient(owner)
  /\ \A c \in Callbacks : ~Inlines(owner, c)
  /\ rs' = "after"
  /\ UNCHANGED <<sourceVars, cbVars, owner, running, removed, clientVars>>

\* The last access to a callback whose body has returned.
MarkCompleted_missing(c) == UNCHANGED completed
MarkCompleted(c) == completed' = [completed EXCEPT ![c] = TRUE]

\* Unless the body destroyed its callback, publish that it has completed.
StopAfter ==
  /\ rs = "after"
  /\ IF removed
       THEN UNCHANGED <<removedPtr, completed>>
       ELSE /\ removedPtr' = [removedPtr EXCEPT ![running] = FALSE]
            /\ MarkCompleted(running)
  /\ rs' = "relock"
  /\ UNCHANGED <<sourceVars, source, next, prev, owner, running, removed, clientVars>>

\* _lock() at the end of the loop body.
StopRelock ==
  /\ rs = "relock"
  /\ CanLock
  /\ state' = state + LockFlag
  /\ rs' = "loop"
  /\ UNCHANGED <<head, notifying, cbVars, owner, running, removed, clientVars>>

\* The list is empty: unlock, return.
StopFinish ==
  /\ rs = "loop"
  /\ head = Null
  /\ state' = StopFlag
  /\ rs' = "done"
  /\ UNCHANGED <<head, notifying, cbVars, owner, running, removed, clientVars>>

-----------------------------------------------------------------------------
(* ~inplace_stop_callback: _remove_callback                                 *)

Destroyed(t, c) ==
  /\ life' = [life EXCEPT ![c] = "dead"]
  /\ pc' = [pc EXCEPT ![t] = "client"]

Destroy(t, c) ==
  /\ InClient(t)
  /\ life[c] = "live"
  /\ IF source[c]
       THEN /\ life' = [life EXCEPT ![c] = "dying"]
            /\ pc' = [pc EXCEPT ![t] = "dtor_lock"]
       ELSE Destroyed(t, c)
  /\ arg' = [arg EXCEPT ![t] = c]
  /\ UNCHANGED <<sourceVars, cbVars, rsVars, maker, runs>>

DestroyLock(t) ==
  /\ pc[t] = "dtor_lock"
  /\ CanLock
  /\ state' = state + LockFlag
  /\ pc' = [pc EXCEPT ![t] = "dtor_cs"]
  /\ UNCHANGED <<head, notifying, cbVars, rsVars, arg, life, maker, runs>>

\* *_prev_ptr_ = _next_
Bypass_missing(c) == UNCHANGED <<head, next>>
Bypass(c) ==
  IF prev[c] = Head
    THEN head' = next[c] /\ UNCHANGED next
    ELSE next' = [next EXCEPT ![prev[c]] = next[c]] /\ UNCHANGED head

\* Lock held, not yet popped: unlink and unlock.
DestroyUnlink(t) ==
  LET c == arg[t] IN
  /\ pc[t] = "dtor_cs"
  /\ prev[c] # Null
  /\ Bypass(c)
  /\ prev' = [p \in Callbacks |-> IF p = next[c] THEN prev[c] ELSE prev[p]]
  /\ state' = state - LockFlag
  /\ Destroyed(t, c)
  /\ UNCHANGED <<notifying, source, removedPtr, completed, rsVars, arg, maker, runs>>

OnNotifyingThread_never(t) == FALSE
OnNotifyingThread(t) == notifying = t

\* Lock held, already popped: unlock, then deal with the notifying thread.
DestroyPopped(t) ==
  LET c == arg[t] IN
  /\ pc[t] = "dtor_cs"
  /\ prev[c] = Null
  /\ state' = state - LockFlag
  /\ pc' = [pc EXCEPT ![t] = IF OnNotifyingThread(t) THEN "dtor_self" ELSE "dtor_wait"]
  /\ UNCHANGED <<head, notifying, cbVars, rsVars, arg, life, maker, runs>>

\* On the notifying thread: tell request_stop, if it is running this body.
DestroySelf(t) ==
  LET c == arg[t] IN
  /\ pc[t] = "dtor_self"
  /\ removed' = (removed \/ removedPtr[c])
  /\ Destroyed(t, c)
  /\ UNCHANGED <<sourceVars, cbVars, rs, owner, running, arg, maker, runs>>

BodyCompleted_unchecked(c) == TRUE
BodyCompleted(c) == completed[c]

\* On another thread: spin until the body has completed.
DestroyWait(t) ==
  LET c == arg[t] IN
  /\ pc[t] = "dtor_wait"
  /\ BodyCompleted(c)
  /\ Destroyed(t, c)
  /\ UNCHANGED <<sourceVars, cbVars, rsVars, arg, maker, runs>>

-----------------------------------------------------------------------------

Stopper ==
  \/ StopPop \/ StopExecute \/ BodyReturn
  \/ StopAfter \/ StopRelock \/ StopFinish

Thread(t) ==
  \/ RequestStop(t)
  \/ RegisterLock(t) \/ RegisterLink(t) \/ RegisterFail(t)
  \/ DestroyLock(t) \/ DestroyUnlink(t) \/ DestroyPopped(t)
  \/ DestroySelf(t) \/ DestroyWait(t)
  \/ \E c \in Callbacks : Construct(t, c) \/ InlineReturn(t, c) \/ Destroy(t, c)

Next == Stopper \/ \E t \in Threads : Thread(t)

Spec == Init /\ [][Next]_vars

(***************************************************************************)
(* Fairness.  A scheduled thread takes its next step.  The lock is a       *)
(* test-and-set spin lock, so nothing bounds how often a waiter loses the  *)
(* race, but once stop was requested constructors no longer take the lock  *)
(* and a linked callback can be unlinked once only, so weak fairness is    *)
(* enough there.  The bodies are the client's: a body that is not stuck in *)
(* an operation of the source, and gets to run client code for ever, must  *)
(* return, even if it constructs and destroys callbacks before it does.    *)
(***************************************************************************)
BodiesReturn ==
  /\ []<>(rs = "body" /\ InClient(owner)) => []<>(rs # "body")
  /\ \A c \in Callbacks :
       []<>(life[c] = "inline" /\ InClient(maker[c])) => []<>(life[c] # "inline")

Fairness ==
  /\ WF_vars(StopPop \/ StopExecute \/ StopAfter \/ StopRelock \/ StopFinish)
  /\ \A t \in Threads :
       /\ WF_vars(RegisterLock(t) \/ RegisterLink(t) \/ RegisterFail(t))
       /\ WF_vars(DestroyLock(t) \/ DestroyUnlink(t) \/ DestroyPopped(t)
                    \/ DestroySelf(t) \/ DestroyWait(t))
  /\ BodiesReturn

FairSpec == Spec /\ Fairness

-----------------------------------------------------------------------------
(* Properties *)

\* The ranges of the variables.
TypeOK ==
  /\ state \in 0..3
  /\ head \in Callbacks \cup {Null}
  /\ notifying \in Threads \cup {NoThread}
  /\ source \in [Callbacks -> BOOLEAN]
  /\ next \in [Callbacks -> Callbacks \cup {Null}]
  /\ prev \in [Callbacks -> Callbacks \cup {Head, Null}]
  /\ removedPtr \in [Callbacks -> BOOLEAN]
  /\ completed \in [Callbacks -> BOOLEAN]
  /\ rs \in {"none", "loop", "exec", "body", "after", "relock", "done"}
  /\ owner \in Threads \cup {NoThread}
  /\ running \in Callbacks \cup {Null}
  /\ removed \in BOOLEAN
  /\ pc \in [Threads -> {"client", "reg_try", "reg_link", "dtor_lock",
                         "dtor_cs", "dtor_self", "dtor_wait"}]
  /\ arg \in [Threads -> Callbacks \cup {Null}]
  /\ life \in [Callbacks -> {"dead", "constructing", "inline", "live", "dying"}]
  /\ maker \in [Callbacks -> Threads \cup {NoThread}]
  /\ runs \in [Callbacks -> Nat]

\* The critical sections in progress: by a constructor, by a destructor or by
\* the request_stop loop.
CriticalSections ==
  {<<t, pc[t]>> : t \in {u \in Threads : pc[u] \in {"reg_link", "dtor_cs"}}}
    \cup (IF rs = "loop" THEN {<<owner, "loop">>} ELSE {})

\* The lock bit of _state_ is set exactly while one operation is in a critical
\* section, and two never are: every store to _state_ (unlock with the old
\* value, unlock with 0, the loop's store of the stop flag) keeps it so.
LockDiscipline ==
  /\ Locked <=> CriticalSections # {}
  /\ \A x, y \in CriticalSections : x = y

\* The callbacks linked into the list: constructed, not popped, not unlinked.
Linked(c) == life[c] \in {"live", "dying"} /\ source[c] /\ prev[c] # Null

\* c is reached from the list head: it is in every set of callbacks that holds
\* the head and is closed under _next_.
Reached(c) ==
  \A S \in SUBSET Callbacks :
    head \in S \cup {Null} /\ (\A x \in S : next[x] \in S \cup {Null}) => c \in S

\* Every link has its back link; what is reached from the head is what is
\* linked, so the list holds living callbacks only (no dangling pointer) and no
\* callback is lost beside it; and a living callback is in it until it is
\* started, but for the one that request_stop has popped and is about to run.
ListWellFormed ==
  /\ head # Null => prev[head] = Head
  /\ \A c \in Callbacks :
       /\ Linked(c) <=> Reached(c)
       /\ Linked(c) =>
            /\ prev[c] = Head => head = c
            /\ prev[c] \in Callbacks => next[prev[c]] = c
            /\ next[c] # Null => prev[next[c]] = c
            /\ runs[c] = 0
       /\ life[c] \in {"live", "dying"} /\ runs[c] = 0 /\ ~(rs = "exec" /\ running = c)
            => Linked(c)

\* A body is started at most once in the life of its callback.
AtMostOnce == \A c \in Callbacks : runs[c] <= 1

\* Between popping a callback and the last access to it, request_stop never
\* holds a pointer to a callback whose destructor has returned, except when the
\* body itself destroyed it and request_stop will be told through the flag.
NoUseAfterDestroy ==
  /\ rs = "exec" => life[running] \in {"live", "dying"}
  /\ rs \in {"body", "after"} /\ ~removed => life[running] \in {"live", "dying"}

\* When request_stop has returned, every callback that exists has been run.
NoCallbackMissed ==
  rs = "done" => \A c \in Callbacks : life[c] \in {"live", "dying"} => runs[c] = 1

\* What ~inplace_stop_source asserts holds whenever a client may destroy it: no
\* callback exists and no operation is in progress.
SourceDestructible ==
  (/\ \A c \in Callbacks : life[c] = "dead"
   /\ \A t \in Threads : pc[t] = "client"
   /\ rs \in {"none", "done"})
  => ~Locked /\ head = Null

\* A stop request is never withdrawn: no unlock stores a state read before it.
RequestIsFinal == [][StopRequested => StopRequested']_vars

\* The request_stop call that made the request returns, having run everything.
RequestStopReturns == rs # "none" ~> rs = "done"

\* What the source promises, in the terms of StopCallbacks: a constructor arms
\* its callback, a destructor is named by the thread that is in it.
BodyRuns(c) == rs = "body" /\ running = c /\ ~removed

phaseBar == [c \in Callbacks |->
  CASE life[c] = "dead" -> "none"
    [] life[c] # "dead" /\ runs[c] = 0 -> "armed"
    [] life[c] # "dead" /\ runs[c] > 0 /\ (life[c] = "inline" \/ BodyRuns(c)) -> "running"
    [] OTHER -> "ran"]

runnerBar == [c \in Callbacks |->
  CASE life[c] = "inline" -> maker[c]
    [] life[c] # "inline" /\ life[c] # "dead" /\ BodyRuns(c) -> owner
    [] OTHER -> NoThread]

killerBar == [c \in Callbacks |->
  IF \E t \in Threads : life[c] = "dying" /\ arg[t] = c /\ pc[t] # "client"
    THEN CHOOSE t \in Threads : arg[t] = c /\ pc[t] # "client"
    ELSE NoThread]

Promise == INSTANCE StopCallbacks WITH
  stopped <- StopRequested, phase <- phaseBar, runner <- runnerBar, killer <- killerBar

\* The source implements what StopCallbacks promises, liveness included.
ImplementsPromise == Promise!LiveSpec

=============================================================================
