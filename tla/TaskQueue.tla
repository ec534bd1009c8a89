------------------------------ MODULE TaskQueue ------------------------------
(***************************************************************************)
(* What a run loop promises: tasks are taken in the order they were put,   *)
(* each by one worker, and a worker leaves only after the queue was closed *)
(* and when nothing is queued.                                             *)
(***************************************************************************)
EXTENDS Sequences, Naturals

CONSTANTS Tasks, Workers

VARIABLES
  queue,    \* the tasks put and not yet taken, oldest first
  held,     \* the task a worker has taken and not finished: a set of pairs
  active,   \* the workers that have not left
  closed    \* the queue was closed

vars == <<queue, held, active, closed>>

Queued(t) == \E i \in 1..Len(queue) : queue[i] = t

Init ==
  /\ queue = <<>>
  /\ held = {}
  /\ active = Workers
  /\ closed = FALSE

Put(t) ==
  /\ ~Queued(t)
  /\ \A w \in Workers : <<w, t>> \notin held
  /\ queue' = Append(queue, t)
  /\ UNCHANGED <<held, active, closed>>

Take(w) ==
  /\ queue # <<>>
  /\ w \in active
  /\ \A t \in Tasks : <<w, t>> \notin held
  /\ held' = held \cup {<<w, Head(queue)>>}
  /\ queue' = Tail(queue)
  /\ UNCHANGED <<active, closed>>

Finish(w, t) ==
  /\ <<w, t>> \in held
  /\ held' = held \ {<<w, t>>}
  /\ UNCHANGED <<queue, active, closed>>

Close ==
  /\ closed' = TRUE
  /\ UNCHANGED <<queue, held, active>>

Leave(w) ==
  /\ closed
  /\ queue = <<>>
  /\ w \in active
  /\ active' = active \ {w}
  /\ UNCHANGED <<queue, held, closed>>

Next ==
  \/ Close
  \/ \E t \in Tasks : Put(t)
  \/ \E w \in Workers : Take(w) \/ Leave(w) \/ \E t \in Tasks : Finish(w, t)

Spec == Init /\ [][Next]_vars

\* Nothing that is queued while a worker is there stays queued.
EverythingTaken ==
  \A t \in Tasks : (Queued(t) /\ active # {}) ~> ~Queued(t)

\* Everybody leaves a closed queue that stays empty.
EverybodyLeaves ==
  <>[](closed /\ queue = <<>>) => \A w \in Workers : <>(w \notin active)

LiveSpec == Spec /\ EverythingTaken /\ EverybodyLeaves

=============================================================================
