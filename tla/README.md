# ustdex in TLA+

ustdex is a C++ library of senders and receivers in the style of P2300: a
*sender* describes work, `connect` joins it with a *receiver* into an *operation
state*, `start` launches the operation, and the operation completes by calling
exactly one of `set_value`, `set_error` and `set_stopped` on the receiver, on
whatever thread it ends. This directory models the library's state machines in
TLA+, checks them with TLC on small instances and proves, with TLAPS, the
safety properties of all of them for instances of any size.

All source paths below are relative to `src/include/ustdex/detail/`.

## 1. Inventory

| component | state it keeps | operations | talks to |
|---|---|---|---|
| `inplace_stop_source`, `inplace_stop_callback` (`stop_token.hpp`) | one atomic byte with a lock bit and a stop bit, an intrusive doubly linked list of callbacks, the notifying thread's id; per callback two links, a flag pointer, an atomic "completed" | constructor and destructor of a callback, `request_stop`, `stop_requested` | callbacks run client code, which constructs and destroys callbacks |
| `run_loop` (`run_loop.hpp`) | an intrusive circular singly linked queue, a mutex, a condition variable, `_stop` | `start` of a scheduled operation, `run`, `finish` | completes receivers; reads their stop token |
| `sync_wait` (`sync_wait.hpp`) | a local `run_loop`, an exception pointer, an optional result | connect, start, `run`, return or rethrow; the receiver's three functions | `run_loop` |
| `thread_context` (`thread_context.hpp`) | a `run_loop` and a thread | constructor, `get_scheduler`, `join`, destructor | `run_loop` |
| `when_all` (`when_all.hpp`) | atomic `_state_`, atomic `_count_`, a stop source, a callback on the outer token, a variant of errors, a tuple of values, the children | `start`, the receivers of the children | its children, both stop sources |
| `_lazy`, `_lazy_tupl` (`lazy.hpp`), `exclusive_scan.hpp` | raw storage and marks of the slots that hold an object | `construct`, `destroy`, `_emplace`, destructor | `when_all` |
| `continues_on`, `starts_on`, `sequence`, `let_*`, `then`/`upon_*`, `conditional`, `write_env` | an inner operation state, a second one (a scheduler's, a second sender's, one made from a function's result), a stored result | `start`, three receiver functions | the operations below and above |
| `start_detached` (`start_detached.hpp`) | a heap allocated operation state | start, receiver that deletes it | the pipeline it ends |
| `just*`, `just_from*`, `read_env` | the values, a function, a query | `start` completes at once | their receiver |
| completion signatures (`completion_signatures.hpp`) | none: compile time | `transform_completion_signatures` and the functions that each adaptor gives it | every adaptor |
| `_variant`, `_tupl` (`variant.hpp`, `tuple.hpp`) | an index and storage | `_emplace`, `_visit`, destructor | adaptors |
| environments, queries, receiver references (`env.hpp`, `queries.hpp`, `rcvr_ref.hpp`, `rcvr_with_env.hpp`) | none of their own: answers are looked up through the receivers of a pipeline | `get_env`, `query`, the query objects and their defaults | every adaptor, the stop source a leaf's token belongs to |
| customization points, metaprogramming, configuration | none | | |

What is hard in this code, and what makes each part correct:

* **Stop source.** A spin lock and a flag in one byte, unlocked by storing an
  *old* value; bodies that run without the lock while other threads unlink; a
  destructor that must wait for the body on another thread and must not on its
  own; a body that destroys its own callback. Correct: mutual exclusion, a
  well-formed list, each body at most once and none forgotten, no access to a
  destroyed callback, everything returns.
* **run_loop.** Lost wakeups; the tail pointer at an empty queue; an exception
  from the mutex in `start`; memory of an operation reused as soon as it
  completes. Correct: FIFO, each operation completed once, `run` returns after
  `finish`.
* **sync_wait, thread_context.** The loop's lifetime against the threads that
  are still in `finish` or `start`.
* **when_all.** Children that fail, stop and succeed at once; a write after an
  exchange and before a decrement; children that complete inside the loop that
  starts them; copies that throw; a request from the receiver's side before,
  during or after `start`, whose callback runs on the requester's thread and may
  complete children there. Correct: one writer, one completion, nobody touches
  the operation state after it, no request is lost.
* **Adaptors.** Operations that complete inside `start`, contexts, exceptions
  between two operations. Correct: one completion, on the right context, with a
  declared signature.
* **Environments.** Two of each, one for signatures and one for the receiver,
  written in different places; a default that hides an environment that was not
  handed on. Correct: they agree, and a stop request reaches the leaf.

`PROJECT.json` lists these hazards at their lines with the properties that
watch each.

## 2. Modules

| module | models | abstract specification | proofs |
|---|---|---|---|
| `StopToken` | `stop_token.hpp` | `StopCallbacks` | `StopToken_proofs` |
| `RunLoop` | `run_loop.hpp` | `TaskQueue` | `RunLoop_proofs` |
| `SyncWait` (extends `RunLoop`) | `sync_wait.hpp` over its loop | | `SyncWait_proofs` |
| `ThreadContext` (extends `RunLoop`) | `thread_context.hpp` over its loop | | `ThreadContext_proofs` |
| `WhenAll` | the operation state of `when_all.hpp` with its stop callback, and the request of the outer source | `Join` | `WhenAll_proofs` |
| `Variant` | `variant.hpp` | | `ValueSlots_proofs` |
| `ValueSlots` (extends `Variant`) | what `when_all` stores: offsets, `_lazy_tupl`, the error in its `_variant` | | `ValueSlots_proofs` |
| `Adaptors` | pipelines of the adaptors, their leaves, `start_detached` | | `Adaptors_proofs` |
| `Completions` (extends `Adaptors`) | the completion signatures of such pipelines | | `Adaptors_proofs` |
| `Environments` | `env.hpp`, `queries.hpp`, receiver references, and the environments of all adaptors | | `Environments_proofs` |

`MCStopToken`, `MCSyncWait`, `MCThreadContext`, `MCWhenAll`, `MCAdaptors`,
`MCEnvironments` and `MCValueSlots` extend the module they are named after with
what TLC needs: symmetry sets, where the properties of the run allow them, and
nothing where the `.cfg` is enough.

An operator named `X_suffix`, next to an operator `X`, is `X` with a plausible
bug (`CanLockUnlessStopped_ignored_lock`, `NotifyOne_missing`, ...). No specification uses
it. Each is the evidence that some property depends on that line of the code:
with it in the place of `X` the property that `PROJECT.json` names beside it is
violated.

### StopToken

`state`, `head`, `notifying` are the members of the source; `source`, `next`,
`prev`, `removedPtr`, `completed` those of each callback; `rs`, `owner`,
`running`, `removed` the frame of the one `request_stop` call that makes the
request. A pointer to a pointer (`_prev_ptr_`) is `Head` or the callback whose
`_next_` it names. Each action is what a thread does between two points where
another one can see the difference: taking the lock, the critical section with
its unlock, reading `_callback_completed_`. Client code is a thread with
`InClient`; a thread inside a body of a callback is in client code as well, so
bodies construct callbacks, destroy others and destroy their own. Waiting in
`_spin_wait` is an action that is not enabled. All atomics are sequentially
consistent here; the code uses acquire and release, which for one byte and one
flag that guard everything else give the same behaviours. The `runs` counter is
history.

`StopCallbacks` is what a client relies on, without lock, list or flags.

### RunLoop

`next`, `tail`, `stop`, `mutex` are the members. Callers start operations and
call `finish`, runners call `run`. Critical sections are cut where the mutex is
taken, before `notify_*` (so that a runner may be between its test and its
wait in a mutated loop), and at the wait. `queue` is a history variable that
says what the pointers are supposed to represent; `QueueShape` relates the two.
The condition variable wakes spuriously too. Cells of operation states are
reused as soon as their receiver was completed, which is when the code may
destroy them. `PushThrows` is `_mutex.lock()` throwing, in `start`'s
`try` block.

`TaskQueue` is a FIFO queue from which workers take, which they leave once it
was closed and stays empty.

### SyncWait and ThreadContext

Both keep the actions of `RunLoop` and constrain who calls what. `Report` is the
body of a receiver function up to its call of `finish`; `LoopOutlivesItsUsers`
is about what follows that: `finish` notifies *before* it unlocks, so the waiter
cannot get the mutex back, return and destroy the loop before `finish` is done
with both. `SyncWait.Delegate` is the sender's use of the loop's scheduler. In
`ThreadContext` clients may start operations until `join` has returned; `early`
remembers those whose `start` had returned before `join` was called. As long as the
queue is never found empty `run` does not leave, so `JoinReturns` is about the
behaviours in which the clients stop starting operations at some time.

### WhenAll, ValueSlots

`WhenAll` is one operation: its children, `start`, and whoever requests stop from
the source behind the receiver's token. `can` is the completion signatures of each
child; the run has a child that may send anything and one that never sends values,
the only difference that `when_all` makes. The children complete at any time after they
were started, while `start` is still starting the others too. The exchange in
`_set_error`, the stop request, the write of the error and the decrement are
separate steps, and so is `_complete`. `errors.as` tells an error from the
exception that copying it threw.

`token` is the receiver's: one that never stops, or one of an `inplace_stop_source`.
`onStop` is what that source's list has of the operation's callback (nothing, the
object in the member, or one in a dead frame). `outer` is where its `request_stop`
stands: not called, in the callback's body, inside the inner source's
`request_stop`, or returned. `stage` is where `start` stands: before it constructs
the callback, testing whether stop was requested, in the loop that starts the
children, or out of it because stop was requested. The inner `request_stop` runs the
callbacks of the children on the same thread, and `nested` is the child that was
completed there last. `CanDestroy` is the destructor of `inplace_stop_callback`, as
`StopToken` has it in detail: on another thread it waits for the body, on the thread
of the body it does not.

`LazyInMember` says where `_lazy::construct` puts the callback. `TRUE` is in the
member that `destroy` looks at, which is what `when_all` is written for; `FALSE` is
the code as it stands (section 6). `undefined` marks the steps after which the model
says nothing; each of them may also turn out harmless. `WhenAll`'s run uses `TRUE`,
since as it stands a receiver with a stoppable token has little behaviour that is
defined beyond the first request. No property of the run depends on that choice: the
theorems of section 5 hold for both values.

`ValueSlots` computes the offsets as the loop of `exclusive_scan` does, in place
and one element per step, and then lets the children fill their slots in any
order, with any copy throwing, or fail; the first error goes into the variant,
where copying it may throw too. The operation then completes with the values or
the error, and tuple and variant are destroyed. With C++20 the code uses `std::exclusive_scan`, which the standard
specifies to allow the same aliasing.

`Variant` has `index` and `storage`, and in `emplacing` the object whose
constructor runs between `_destroy` and the assignment of the index; `visited` is
history. The module has no specification of its own: `ValueSlots` is its user,
and takes `Emplace`'s two ends, the throwing constructor, `Visit` and the destructor
as parts of its actions. Nobody else uses a variant while a constructor runs, which
for `when_all` is `WhenAll!OneErrorWriter`.

### Adaptors and Completions

Stage `i` of a pipeline is one adaptor around the stages below it, `0` is the
leaf sender, `Depth + 1` the receiver. `kind` gives the adaptors, chosen in the
initial state: a run covers every pipeline of its depth. `call` is the call in
progress, going down (`start`) or up (a completion with a signal and a context);
`other` holds the stages whose second operation was started. `leafKind` is the leaf:
`just*`, `just_from*` and `read_env` complete inside `start`, on the thread that called
it, a scheduler's operation or a sender of the client's anywhere. A scheduler sends its
value on its own context, `i` for that of stage `i`, and an error or stopped on any:
`run_loop`'s `start` sends `set_error` on the caller's thread when the mutex throws
(`run_loop.hpp:221`). `answer` is history, what the scheduler of a `continues_on`
completed with. Values are
abstracted to the signal that carries them; an error is `"eptr"` if it is an
`exception_ptr`. `nothrow` are the stages whose function, or whose copies, are
`noexcept`.

`Completions` computes, as `get_completion_signatures` of every adaptor does,
the signals that a pipeline *declares*, and `SentIsDeclared` compares that with
the calls the operation states *make*: the two are written in different places
of the code, and nothing else ties them together.

### Environments

A pipeline is connected from the outside in, as `connect` does: each step adds an
adaptor, which gives its child a receiver (`actual` is its environment) and computes
the child's signatures with an environment (`declared`). An environment is a function
from queries to answers, and an answer says who gives it. The last step is a leaf that
asks, `read_env` or a scheduler's operation, and then stop may be requested from the
outermost receiver's source or that of any `when_all` on the way. `Reached` follows
the stop callbacks from the source of the request inwards.

What does not compile is no step: `IllFormed` is the answer of a query whose function
would be instantiated and be rejected there, as each one through `_rcvr_with_env_t`
is; `NoAnswer` is that of a query no overload takes. A receiver is `opaque` if its
`get_env` itself is rejected, which is so for `continues_on` (section 6): nothing below
it may ask anything, up to the next adaptor whose receiver has an environment of its
own. The type of that environment is there all the same, so signatures are computed
and pipelines with leaves that never ask exist.

The predecessor of a `let_*` is a `Forward`, the sender that its function returns a
`LetSecond`: its signatures are computed without any environment
(`let_value.hpp:235-243`), which is `Ungiven`, while its receiver has one. So
`read_env` has no signatures there, and a scheduler's operation, whose signatures do
not look at an environment, still asks for its token.

## 3. Runs

Every passing run is exhaustive for its constants. Deadlock is checked in all
but `ValueSlots`, which ends when the storage has been destroyed, and the two of
`Environments`, where what does not compile has no next step; the others have
an explicit step for the end (`Terminated`, `Ended`, `Returned`, `Gone`) or never end.

| run | instance | shows |
|---|---|---|
| `StopToken_safety` | 2 threads, 3 callbacks, symmetry | lock, list, lifetimes, at most once, none missed, `~inplace_stop_source`'s assertions |
| `StopToken_live` | 2 threads, 2 callbacks | implements `StopCallbacks`, so that a destructor elsewhere outwaits the body; `request_stop` returns; a request is final |
| `RunLoop` | 2 cells, 2 starts, 2 callers, 2 runners | pointers represent the queue, one place, one completion, no lost wakeup; implements `TaskQueue`, from which everything is taken and which everybody leaves |
| `SyncWait` | 2 cells, 3 starts, 2 callers | result, lifetime of the loop, return |
| `ThreadContext_live` | 2 cells, 3 starts, owner and client | `join` drains and, if clients stop starting operations, returns; what was started completes |
| `WhenAll` | 0 to 3 children, with values or never, a token that never stops or one that may | barrier, error writer, completion, no request to stop is lost, implements `Join`, failure or a request ends the operation |
| `ValueSlots` | 3 children with 0 to 2 values | scan in place, ownership of slots, order of values; the first error is kept, delivered and destroyed |
| `Adaptors` | all pipelines of 2 of 11 adaptors, 6 leaves, 4 sets of signals for the others, anything may throw | one operation in progress, one completion and deletion, result and context of `continues_on`, context of `starts_on`, declared signals only, completion |
| `Adaptors_throwing_copy` | one `continues_on` whose copy throws | violated: finding 2 |
| `Environments` | up to 3 adaptors, 3 written environments | a stop request reaches the leaf; at every place the two environments agree |
| `Environments_forwarded` | up to 2 adaptors | violated: finding 3 |
| `WhenAllOnStop_gone` | 0 or 1 child, `LazyInMember = FALSE` | violated: finding 1 |

The type invariants of `StopToken`, `RunLoop` and `WhenAll` are proved, so no run
repeats them; those of the other modules say what their variables range over.

Why the bounds are enough:

* *Stop source.* Three callbacks give a list with an interior element, a head
  and a tail, and one more to register or unlink beside `request_stop`. With two
  threads one is in `request_stop` while the other constructs and destroys; the
  safety properties are proved for any number of both. Cells are reused, so the
  runs are not bounded in length.
* *Run loop.* Two starts fill the queue with a head that is not the tail, or use
  the same memory twice. Two runners can both be between test and wait, two callers
  can be in `push` and `finish`. Every safety property of the run is proved for any
  number of tasks, starts and threads, so the instance is chosen for the refinement
  and its liveness.
* *when_all.* Three children are a winner, a loser and one that is neither, or
  an error, a stop and a value. Its safety properties, the
  refinement of `Join` among them, are proved for any number.
* *Adaptors.* A stage knows only its neighbours, and in pipelines of two each
  adaptor is above and below each other one. The safety properties
  are proved for any length; that the pipeline completes is checked for two. `OneInProgress`,
  `CompletesOnce` and `ArrivesOnScheduler` exclude the executions in which a copy
  threw in `continues_on`, which is finding 2.
* *Environments.* Three adaptors are two that put an environment in with one
  between them, or two `when_all` with another adaptor around or between. The written
  environments have one part, two (which is a specialization in the code) and three,
  and answer the same query in more than one part.

## 4. Fairness

* `StopToken.Fairness`: weak fairness on the steps of each operation in
  progress: a scheduled thread takes its next step. The spin lock is a
  test-and-set lock and does not promise its waiters anything, so no strong
  fairness is assumed: the liveness properties speak of the time after a stop
  request, when constructors no longer take the lock and each callback can be
  unlinked once, and before it a destructor may lose the race for ever (that is
  a property of the code, not of the model). `BodiesReturn`: client code that
  gets to run returns.
* `RunLoop.Fairness`: weak fairness on the steps of a thread, strong fairness
  on taking the mutex: `std::mutex` as it is implemented on the supported
  platforms does not starve a thread for ever. Nothing is assumed of who starts
  operations, who calls `finish`, or of spurious wakeups.
* `SyncWait`, `ThreadContext`: that of the loop, and that the thread goes on
  after `run`. The sender need not complete; the owner need not join, and nothing
  makes clients stop (`JoinReturns` says for itself that they do). A call of
  `finish` that was begun goes on.
* `WhenAll.Fairness`: weak fairness on the code of `when_all`: on `start`, on the
  steps of a child that has begun to complete, on the outer request once it was made.
  Children need not complete unless stop was requested of them, which is what a stop
  request asks of an operation. Nobody needs to request stop.
* `Adaptors.FairSpec`: calls return and operations that were started complete.

## 5. Proofs

`tlapm` checks every theorem in the `*_proofs` modules, for all values of the
constants under the assumptions that the modules they extend state. The assumptions
say nothing about sizes, except that a pipeline, a `when_all` and a tuple are finite.
Three of them are about who there is: callers are not runners and the sentinel is no
task (`RunLoopAssumption`); `sync_wait` has one waiter (`WaiterAssumption`: no two
runners; its loop is a local variable and its own thread runs it); a context has a
thread, which its constructor starts, and the owner is one of the callers
(`ContextAssumption`). `PROJECT.json` lists the theorems with the property each states.
Every safety invariant that a passing run checks is a theorem, so is `RequestIsFinal`,
and so are the refinements without their liveness.

**Stop source.** Two layers. `Inv` is about the lock (`TypeCorrect`, `LockCorrect`,
`RequestStays`): `LockDiscipline` is not inductive, since an unlock is
`state - LockFlag`, or a store of a constant, and says what it should only if the lock
was held and, for the constant, if nobody requested stop meanwhile. `HasArgument` (a
thread inside a constructor or destructor has a callback), `LockInv` (the lock bit is
set iff there is a critical section, and only one) and `FlagInv` (a constructor's
critical section excludes the stop flag; `request_stop` has the flag set) make it so.

`FullInv` adds the callbacks (`ListCorrect`, `StartedOnce`, `NoDanglingCallback`,
`EveryCallbackRun`, `SourceEnds`). `OperationInv`: each callback is constructed or
destroyed by one thread at a time, and a destructor that found its callback popped has
left the list alone. `CallbackInv`: a living callback is in the list and not started, or
was popped and has been run or will be. `RequestInv`: the one `request_stop` has in hand
exists, unless its own body destroyed it and raised the flag. `ListInv`: the links are a
doubly linked list, and every back link leads to the head. Links and back links that
agree leave room for a ring beside the list, which `request_stop` would never empty, so
`ListWellFormed` also says that whatever is linked is `Reached` from the head along the
links, and that a living callback which was not started is linked. In the invariant
the same is stated without a path: no nonempty set of linked callbacks is closed under
the back links. `LinkedIsReached` derives the one from the other.
None of the four is inductive without the others, because a destructor may return only
if its callback is out of the list and not in hand.

`ImplementsCallbacks` takes each step of the source to one of `StopCallbacks` or to none.

**Run loop** (`TypeCorrect`, `QueueCorrect`, `OnePlaceCorrect`,
`CompletesOnceCorrect`, `FinishWakes`, `WakeupsArrive`). `QueueShape` alone is not inductive:
linking `t` behind the last task needs that `t` is not in the queue. `TaskInv`
adds `Distinct` (no task twice), `Placed` (a task on its way in is not in the
queue, and with one caller), `Held` (a popped task is with one runner and not in
the queue) and `Fresh` (a task in progress has no completion). `MutexInv` says
who holds the mutex in terms of where threads are. There is one lemma for each of
the steps that touch the queue (`StartStep`, `ThrowsStep`, `LinkStep`, `TakeStep`,
`ExecuteStep`), and one, `IdleStep`, for the others. `FinishWakes` needs that a
runner between its test and its wait holds the mutex, so that `finish` cannot set
the flag there. `WakeupsArrive` is inductive with the types alone: who links a task
is on its way to `notify_one`, and whoever it wakes looks at the queue again.
`ImplementsQueue`: each step is one of `TaskQueue`'s or none.

**sync_wait** (`SyncWaitUsesItsLoop`, `SyncWaitReturnsTheResult`, `LoopOutlives`). A step of
`sync_wait` is a step of its loop or leaves the loop alone, so a behaviour of it is one of
`RunLoop`, whose invariant and theorems hold here too. What
`SWInv` adds follows the waiter out. A sender that completed has nothing left in the loop
(`Quiet`); whoever sets the flag holds the mutex, so then the other callers are outside
(`Finishing`); the waiter leaves the loop with the mutex in its hands, so the reporter is
out of `finish` too (`Left`); and what it returns was written before (`Received`,
`Handed`). This is the argument for notifying *before* unlocking, which
`run_loop.hpp` makes in no comment.

**thread_context** (`ContextUsesItsLoop`, `JoinDrainsTheLoop`). As above. The loop's invariant says where a task can be,
not that it is somewhere: `Kept` does. An operation that `join` must wait for is past its
`start` for good (`Past`), so it is queued or with a runner, and a runner returns only
once `join` has set the flag (`OnlyJoin`) and nothing is queued (`Drained`). The proof
holds for any number of threads in the loop.

**when_all** (`TypeCorrect`, `CountCorrect`, `OneWriter`, `CompleteReads`,
`NoAccess`, `NoRequestLost`). `StartInv`: children not yet started are
`unstarted`, the others are not. `BarrierInv`: if a child is in `_complete` or the
receiver was completed, all the others have arrived. `ErrorInv`: `_state_` is error once
somebody won the exchange, there is one winner, and until it has arrived the error is on
its way. `ValueInv`: a child that arrived with `_state_` still started has stored its
values. The counting argument (`Counting`) is about cardinalities of the children
that have not arrived, one less for each arrival. `RequestInv`: from its construction to
the completion the callback is in the outer source's list, in the member or in the dead
frame, until a request takes it off and runs it, so no request finds the list empty and
leaves the children unasked.

`ImplementsTheJoin` states the run's property `ImplementsJoin` for any number of children,
with and without `LazyInMember`: the code as it stands keeps the promise too, up to the
step after which nothing is defined. It needs `AskInv`: a stop request comes from
the receiver's token or after a report, and the child that reported asks before it
arrives, so a verdict other than "values" never stands without the children having been
asked when the last one arrives.

**Values** (`ScansInPlace`, `TupleOwns`, `ValuesDeliveredInOrder`, `FirstErrorKept`).
`Scanned`: what has been written are consecutive offsets, the accumulators carry the
next, the rest is still input. So the children's ranges of slots are disjoint and inside
the tuple (`Ranges`), the marked slots are those of the values stored so far and hold
them (`Placed`), their number is `live` (`Counted`), and reading the slots one after the
other gives the values in the order of the children (`Sent`). `Kept`: between two of
its operations the variant holds the winner's error or is about to.

**Adaptors** (`OneAtATime`, `CompletedOnce`, `Arrives`, `StartsThere`). `Once` is
inductive by itself, and two lemmas (`HandOn`, `ComesUp`) carry most of its steps.
`Kept` follows a result from the moment `continues_on` keeps it, through its scheduler's
answer, to the receiver;
`Descends` follows a start down from the last `starts_on`. Each is one step per
action. `DeclaredSignals` ties the calls to `Completions`: a signal on its way up is
declared by the stage it comes from, and a second operation was started because of a
declared signal or keeps one (`Carries`). It then takes, for each adaptor, that what its
receiver sends is in what its signatures add to those from below.

**Environments** (`AgreeEverywhere`, `RequestArrives`). The first is nearly inductive: the
receiver's environment agrees with the declared one on the stop token, and without `when_all`
on everything, or does not compile; and it has no answer where the other has none. Below a
written environment every query that has an answer does not compile (section 6), so what
agrees there are the queries that have none, and with them their defaults. `ConnectInv`
reduces each adaptor to that for the environment it gives.
`Chain` says where the token at a place comes from: the nearest `when_all` above it,
without one the outermost receiver, or nobody. Each stop callback is thus a link to
the `when_all` next above, and a request at any of them is passed on to the one that the
leaf looks at (`Reaches`).

*Data of any size.* `Completions.Declared`, `Environments.Reached`, and the sums and
concatenations in `ValueSlots` are recursive functions, and the induction theorems of
the library take an operator for the statement, which the provers cannot instantiate. The
theorems above are proved without them: of the numbers (`LeastNumber`, from the
well-foundedness of `<`) or finite sets (`MinimalSet`) for which a statement fails there
would be a least one, and that one is refuted. That such a recursive function exists,
so that it satisfies its own equation, is shown in the same way (`DeclaredStep`,
`SaysExists`).

Only model-checked, since the prover does not do liveness or `ENABLED`:

* `RequestStopReturns`, `SyncWaitReturns`, `JoinReturns`, `StartedCompletes`,
  `StopEndsOperation`, `PipelineCompletes`;
* the liveness conjuncts of `ImplementsPromise` (`NoneForgotten`, `ReleaseReturns`) and of
  `ImplementsTaskQueue` (`EverythingTaken`, `EverybodyLeaves`): that every step maps to a step or a stutter is
  proved, that what is promised happens in the end is not.

## 6. Findings

1. **`_lazy::construct` builds the object in its own frame** (`lazy.hpp:41`, run
   `WhenAllOnStop_gone`). The local `Ty* _value_` hides the member, so
   `std::addressof(_value_)` in its initializer is the address of the local. For
   `when_all` with a stoppable receiver the outer source keeps a pointer to a
   frame that is gone, and `_complete`, whose comment says "Stop callback is no
   longer needed. Destroy it." (`when_all.hpp:238`), runs the destructor on raw
   storage.
2. **A copy that throws in `continues_on` completes the receiver twice**
   (`continues_on.hpp:75`, run `Adaptors_throwing_copy`). `_set_result` catches,
   sends `set_error`, and returns to a caller that starts the scheduler's
   operation all the same. `src/tests/test_continues_on.cpp:218` says "continues_on
   sends an exception_ptr if value types are potentially throwing when copied".

3. **`when_all` forwards no query but one** (`when_all.hpp:83`, run
   `Environments_forwarded`). The result of its environment's second `query` is
   `_query_result_t<Tag, env_of_t<_rcvr_t>>`, with the arguments in the wrong order,
   so that overload is never viable. The comment at `when_all.hpp:64-67` says "All other
   queries are forwarded to the outer receiver's environment."; a child that asks
   `get_allocator` gets `std::allocator<void>` whatever that environment answers, and
   one that asks `get_scheduler` does not compile.

Met while reading, with no run of their own:

* `request_stop` returns `true` when stop was requested before and `false` when
  this call made the request; P2300 has it the other way round.
* `continues_on.hpp:153`: `get_env` names `_rcvr_._rcvr`, a member that
  `_rcvr_t` does not have (it is `_rcvr_`); it is only instantiated if somebody below asks
  for the environment. In `Environments` nobody does (`opaque`).
* `let_value.hpp:235-243`: the signatures of the sender that a `let_*` function returns are
  computed without an environment, so one that depends on it (`read_env`) is refused,
  though its receiver has one.
* `rcvr_with_env.hpp:53`: the query of the combined environment returns the
  environment that has the query, where `env.hpp` returns the result of asking it.
  With the result type declared before it this does not compile, so no program
  queries below `write_env` or `starts_on` anything that has an answer there, although
  `write_env.hpp:61` says that it "modifies the execution environment by merging in
  the environment specified".
* `continues_on.hpp:229` has the arguments of `_query_result_t` in the wrong order as
  well, for the queries its attributes forward.
* A child that completes inside its own stop callback may be the last one. `_arrive`
  then completes the receiver on the thread of the outer request, where the destructor
  of the callback does not wait, and a receiver that destroys the operation state
  destroys the inner source whose `request_stop` is still on the stack and locks it
  again (`stop_token.hpp:352`). `WhenAll` marks it `undefined` (`OuterReturn`), and no
  property says that it cannot happen: P2300 leaves it to whoever implements the operations.
* `when_all.hpp`: the comment says "any of the values or errors" are checked for
  nothrow copies; the code checks the values.
* `conditional` hands its continuation references to the arguments of the
  predecessor, which are gone if the continuation resumes later.

## 7. Not modelled

* *Types.* Concepts, customization point dispatch, `meta.hpp`, the diagnostics
  of `completion_signatures.hpp`: no state, resolved by the compiler.
* *Weak memory.* Every atomic is sequentially consistent, see StopToken above.
* *Attributes.* The environments of senders (`get_completion_scheduler`, domains)
  are looked up at compile time by algorithms that this library does not have.
* *An operation started after every `run` has returned* (`run_loop.hpp:249`) stays in
  the queue. The code has no way to refuse it, so no property excludes it.
* *The arguments of `conditional`.* Values are abstracted, and with them how long they
  live.
* *`_tupl`* is an aggregate. *`stream_context.cuh`* is a placeholder.
* *Programs whose signatures nobody computes*: `start_detached` of a `let_*` whose second
  sender reads the environment.
* *Test schedulers.* What they do (complete later, or with an error or stopped, inline
  as well) is among what leaves and schedulers in `Adaptors` may do. One that sends its
  value inline has no context of its own to arrive on.

## 8. Plan

Done, in this order: stop source; run loop; `sync_wait`; `thread_context`;
`when_all` with `Join`; adaptors with `start_detached`; signatures; value slots and
the variant; `when_all` with the outer stop source; environments; the theorems of section 5: the
invariants of each module, then the refinements.

Left:

1. `WhenAll`'s outer source as an instance of `StopCallbacks`. The request, its pop of the
   callback, the constructor and the destructor are one step each in `WhenAll` and several
   in `StopCallbacks`, so they would have to be taken apart in `WhenAll` first.
2. Liveness is out of the prover's reach; larger instances of the runs with temporal
   properties are what can be done there.
