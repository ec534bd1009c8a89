----------------------------- MODULE Completions -----------------------------
(***************************************************************************)
(* The completion signatures that the pipelines of Adaptors declare: what  *)
(* the get_completion_signatures of each adaptor computes from that of the *)
(* sender below it and of its other sender, with the functions of          *)
(* completion_signatures.hpp.  A set of signatures is a set of signals;    *)
(* "eptr" is set_error_t(exception_ptr).                                   *)
(***************************************************************************)
EXTENDS Adaptors

Eptr == {"eptr"}
EptrIf(potentiallyThrowing) == IF potentiallyThrowing THEN Eptr ELSE {}

\* concat_completion_signatures and operator+: what occurs twice is kept once.
Concat(sets) == UNION sets

\* transform_completion_signatures: each signature is replaced by those that fn
\* gives for it, the extra ones are added.
Transform(sigs, fn, extra) == Concat({fn[s] : s \in sigs} \cup {extra})

\* A transformation of the signatures in acts, the others staying as they are.
Replace(acts, by) == [s \in Signals |-> IF s \in acts THEN by ELSE {s}]

\* Everything but the values.
SwallowValues(sigs) == Transform(sigs, Replace({"value"}, {}), {})

\* continues_on: a result is decay-copied, which may throw.
DecayArgs(noThrow) ==
  [s \in Signals |-> {s} \cup EptrIf(~noThrow /\ s \in {"value", "error"})]
ContinuesOn(sigs, scheduler, noThrow) ==
  Concat({SwallowValues(scheduler), Transform(sigs, DecayArgs(noThrow), {})})

StartsOn(sigs, scheduler) == Concat({sigs, SwallowValues(scheduler)})

Sequence(sigs, second) == Concat({second, SwallowValues(sigs)})

\* conditional: the values are replaced by what the branches send.
EitherSigs(branches) == Replace({"value"}, branches)
Conditional(sigs, branches) == Concat({Transform(sigs, EitherSigs(branches), {}), Eptr})

\* A let: for a signature it acts on, those of the sender the function returns,
\* and an exception, since connecting that sender may throw.
LetArgs(acts, second) == Replace(acts, Concat({second, Eptr}))
Let(sigs, acts, second) == Transform(sigs, LetArgs(acts, second), {})

\* then, upon_error, upon_stopped: a value and, if the function may throw, an
\* exception.
UponArgs_always_nothrow(noThrow) == {"value"}
UponArgs(noThrow) == {"value"} \cup EptrIf(~noThrow)
UponSends(sigs, acts, noThrow) == Transform(sigs, Replace(acts, UponArgs(noThrow)), {})

\* write_env: those of the sender it wraps.
WriteEnv(sigs) == sigs

\* What the sender of stage i declares.
Declared[i \in 0..Depth] ==
  IF i = 0 THEN sends[0]
  ELSE LET below == Declared[i - 1] IN
    CASE kind[i] = "continues_on" -> ContinuesOn(below, sends[i], i \in nothrow)
      [] kind[i] = "starts_on"    -> StartsOn(below, sends[i])
      [] kind[i] = "sequence"     -> Sequence(below, sends[i])
      [] kind[i] = "conditional"  -> Conditional(below, sends[i])
      [] kind[i] \in Lets         -> Let(below, Disposition[kind[i]], sends[i])
      [] kind[i] \in Upons        -> UponSends(below, Disposition[kind[i]], i \in nothrow)
      [] kind[i] = "write_env"    -> WriteEnv(below)

-----------------------------------------------------------------------------

\* No operation completes with a signal that its sender's completion signatures
\* lack, whatever throws below it: a receiver written for the declared signals
\* is called with no other.
SentIsDeclared ==
  call.dir = "complete" => call.sig \in Declared[call.to - 1]

=============================================================================
