---------------------------- MODULE MCThreadContext ----------------------------
(* ThreadContext for TLC: one thread in the loop, the owner and a client. *)
EXTENDS ThreadContext, TLC

Symmetry == Permutations(Tasks)

=============================================================================
