SPECIFICATION FairSpec
CONSTANTS
  Depth = 2
  Kinds = {"continues_on", "starts_on", "sequence", "conditional", "let_value", "let_error", "let_stopped", "then", "upon_error", "upon_stopped", "write_env"}
  Leaves = {"just", "just_error", "just_stopped", "read_env", "schedule", "any"}
  Sends = {{"value"}, {"value", "error"}, {"stopped"}, {"value", "error", "eptr", "stopped"}}
INVARIANTS
  OneInProgress
  CompletesOnce
  ArrivesOnScheduler
  StartsOnScheduler
  SentIsDeclared
PROPERTY
  PipelineCompletes
