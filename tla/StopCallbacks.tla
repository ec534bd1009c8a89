---------------------------- MODULE StopCallbacks ----------------------------
(***************************************************************************)
(* What a stop source promises its callbacks, whatever the mechanism:      *)
(*   - a body is started at most once between construction and             *)
(*     destruction, and only after stop was requested;                     *)
(*   - a callback does not cease to exist while its body is running, unless*)
(*     it is that body, on its own thread, that destroys it;               *)
(*   - once stop was requested, no constructed callback is forgotten;      *)
(*   - once stop was requested, a destructor that was called returns.      *)
(***************************************************************************)
CONSTANTS Threads, Callbacks, NoThread

VARIABLES
  stopped,   \* stop was requested
  phase,     \* of a callback: none, armed, running, ran
  runner,    \* the thread its body runs on, while it runs
  killer     \* the thread in its destructor

vars == <<stopped, phase, runner, killer>>

TypeOK ==
  /\ stopped \in BOOLEAN
  /\ phase \in [Callbacks -> {"none", "armed", "running", "ran"}]
  /\ runner \in [Callbacks -> Threads \cup {NoThread}]
  /\ killer \in [Callbacks -> Threads \cup {NoThread}]

Init ==
  /\ stopped = FALSE
  /\ phase = [c \in Callbacks |-> "none"]
  /\ runner = [c \in Callbacks |-> NoThread]
  /\ killer = [c \in Callbacks |-> NoThread]

Stop ==
  /\ ~stopped
  /\ stopped' = TRUE
  /\ UNCHANGED <<phase, runner, killer>>

Arm(c) ==
  /\ phase[c] = "none"
  /\ phase' = [phase EXCEPT ![c] = "armed"]
  /\ UNCHANGED <<stopped, runner, killer>>

Begin(t, c) ==
  /\ stopped
  /\ phase[c] = "armed"
  /\ phase' = [phase EXCEPT ![c] = "running"]
  /\ runner' = [runner EXCEPT ![c] = t]
  /\ UNCHANGED <<stopped, killer>>

End(c) ==
  /\ phase[c] = "running"
  /\ phase' = [phase EXCEPT ![c] = "ran"]
  /\ runner' = [runner EXCEPT ![c] = NoThread]
  /\ UNCHANGED <<stopped, killer>>

BeginRelease(t, c) ==
  /\ phase[c] # "none"
  /\ killer[c] = NoThread
  /\ killer' = [killer EXCEPT ![c] = t]
  /\ UNCHANGED <<stopped, phase, runner>>

EndRelease(c) ==
  /\ killer[c] # NoThread
  /\ phase[c] = "running" => killer[c] = runner[c]
  /\ phase' = [phase EXCEPT ![c] = "none"]
  /\ runner' = [runner EXCEPT ![c] = NoThread]
  /\ killer' = [killer EXCEPT ![c] = NoThread]
  /\ UNCHANGED stopped

\* A callback whose body ran in its constructor takes no part in the source
\* any more: its destructor is a single step.
Release(c) ==
  /\ phase[c] = "ran"
  /\ killer[c] = NoThread
  /\ phase' = [phase EXCEPT ![c] = "none"]
  /\ UNCHANGED <<stopped, runner, killer>>

Next ==
  \/ Stop
  \/ \E c \in Callbacks :
       \/ Arm(c) \/ End(c) \/ EndRelease(c) \/ Release(c)
       \/ \E t \in Threads : Begin(t, c) \/ BeginRelease(t, c)

Spec == Init /\ [][Next]_vars

\* No constructed callback is forgotten by the request.
NoneForgotten ==
  \A c \in Callbacks : (stopped /\ phase[c] = "armed") ~> phase[c] # "armed"

\* Once stop was requested, a destructor that was called returns.  (Before the
\* request it competes for a spin lock with an unbounded number of others.)
ReleaseReturns ==
  \A c \in Callbacks : (stopped /\ killer[c] # NoThread) ~> killer[c] = NoThread

LiveSpec == Spec /\ NoneForgotten /\ ReleaseReturns

=============================================================================
