--------------------------------- MODULE Join ---------------------------------
(***************************************************************************)
(* What when_all promises: it waits for all its children and then sends    *)
(* one signal: the first error if a child failed, else stopped if a child  *)
(* stopped, else the values of every child.  A child that failed or was    *)
(* stopped has the others asked to stop; the receiver may ask them too,    *)
(* and if it does so before they are started, they never are.              *)
(***************************************************************************)
CONSTANTS Child, NoVerdict, Stopped, Error(_)

VARIABLES
  stoppable,  \* the receiver may ask to stop
  begun,      \* the children are being started
  pending,    \* the children that have not arrived
  verdict,    \* NoVerdict, Stopped, or Error(i) for the first that failed
  asked,      \* the children are asked to stop
  delivered   \* the signals sent to the receiver

vars == <<stoppable, begun, pending, verdict, asked, delivered>>

Init ==
  /\ stoppable \in BOOLEAN
  /\ begun = FALSE
  /\ pending \in SUBSET Child
  /\ verdict = NoVerdict
  /\ asked = FALSE
  /\ delivered = {}

Begin ==
  /\ ~begun
  /\ delivered = {}
  /\ begun' = TRUE
  /\ UNCHANGED <<stoppable, pending, verdict, asked, delivered>>

\* Asked to stop before they were started.
Abandon ==
  /\ ~begun
  /\ asked
  /\ delivered = {}
  /\ pending' = {}
  /\ delivered' = {Stopped}
  /\ UNCHANGED <<stoppable, begun, verdict, asked>>

\* A child reports other than with values; an error replaces Stopped.
Report(v) ==
  /\ begun
  /\ pending # {}
  /\ \/ verdict = NoVerdict
     \/ verdict = Stopped /\ v # Stopped
  /\ verdict' = v
  /\ UNCHANGED <<stoppable, begun, pending, asked, delivered>>

\* The receiver asks, or somebody after a report, before the reporter arrives.
Ask ==
  /\ stoppable \/ (verdict # NoVerdict /\ pending # {})
  /\ asked' = TRUE
  /\ UNCHANGED <<stoppable, begun, pending, verdict, delivered>>

\* The last child arrives only after the others were asked, if they had to be.
Arrive(i) ==
  /\ begun
  /\ i \in pending
  /\ pending = {i} /\ ~stoppable => asked = (verdict # NoVerdict)
  /\ pending = {i} /\ verdict # NoVerdict => asked
  /\ pending' = pending \ {i}
  /\ UNCHANGED <<stoppable, begun, verdict, asked, delivered>>

Deliver ==
  /\ begun
  /\ pending = {}
  /\ delivered = {}
  /\ delivered' = {verdict}
  /\ UNCHANGED <<stoppable, begun, pending, verdict, asked>>

Next ==
  \/ Begin \/ Abandon \/ Report(Stopped) \/ Ask \/ Deliver
  \/ \E i \in Child : Report(Error(i)) \/ Arrive(i)

Spec == Init /\ [][Next]_vars

=============================================================================
