----------------------------- MODULE MCStopToken -----------------------------
(* StopToken for TLC.  Threads and callbacks are interchangeable. *)
EXTENDS StopToken, TLC

Symmetry == Permutations(Threads) \cup Permutations(Callbacks)

=============================================================================
