---------------------------- MODULE MCEnvironments ----------------------------
(***************************************************************************)
(* Environments for TLC: programs write environments of one, two (the      *)
(* specialization) or three parts, some of which answer the same query.    *)
(***************************************************************************)
EXTENDS Environments

MCWritten ==
  { << {"get_stop_token", "get_allocator"} >>,
    << {"get_scheduler"}, {"get_scheduler", "get_allocator"} >>,
    << {}, {"get_stop_token"}, {"get_stop_token", "get_scheduler"} >> }
=============================================================================
