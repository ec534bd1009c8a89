----------------------------- MODULE MCValueSlots -----------------------------
(* ValueSlots for TLC: every choice of sizes for a few children. *)
EXTENDS ValueSlots
=============================================================================
