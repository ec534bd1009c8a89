------------------------------ MODULE MCWhenAll ------------------------------
(***************************************************************************)
(* WhenAll for TLC.  A child that can send all signals does what any child *)
(* with fewer signatures does; only a child that never sends values makes  *)
(* a difference, because then when_all stores none.                        *)
(***************************************************************************)
EXTENDS WhenAll

MCCompletions == {{"value", "error", "stopped"}, {"error", "stopped"}}
=============================================================================
