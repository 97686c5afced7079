\* One feature under orchestration: checkpoints, provider backoff, budget, owner
\* pause and resume, in any order with the gates, pauses and restarts.
SPECIFICATION Spec
CONSTANTS
  f1 = f1
  f2 = f2
  Features = {f1}
  NoFeature = NoFeature
  DependsOn <- NoDependencies
  Packets = {1, 2}
  NoRow = NoRow
  MaxNonterminal = 1
  MaxPackets = 2
  MaxReviewCalls = 2
  OrchestrationEvidence = TRUE
  MaxLifecycle = 7
  MaxQueueRev = 0
  MaxPauseRev = 2
INVARIANTS
  MergeBackedByGates
