------------------------------ MODULE MCAdaptors ------------------------------
(* Adaptors for TLC: every pipeline of Depth adaptors of the given kinds, with  *)
(* the completion signatures it declares.                                       *)
EXTENDS Completions
=============================================================================
