------------------------------ MODULE MCSyncWait ------------------------------
(* SyncWait for TLC: one waiting thread.  Liveness is checked in the same run,  *)
(* so nothing is taken as symmetric.                                            *)
EXTENDS SyncWait
=============================================================================
