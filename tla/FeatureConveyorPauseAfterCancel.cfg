\* Owner pause of a feature that is already cancelled or quarantined.
SPECIFICATION Spec
CONSTANTS
  f1 = f1
  f2 = f2
  Features = {f1}
  NoFeature = NoFeature
  DependsOn <- NoDependencies
  Packets = {1}
  NoRow = NoRow
  MaxNonterminal = 1
  MaxPackets = 1
  MaxReviewCalls = 2
  OrchestrationEvidence = TRUE
  MaxLifecycle = 7
  MaxQueueRev = 0
  MaxPauseRev = 2
PROPERTIES
  ResolutionIsFinal
