\* Two features of which the second depends on the first, up to two packets, and
\* the publishing host under fairness.
SPECIFICATION FairSpec
CONSTANTS
  f1 = f1
  f2 = f2
  Features = {f1, f2}
  NoFeature = NoFeature
  DependsOn <- SecondNeedsFirst
  Packets = {1, 2}
  NoRow = NoRow
  MaxNonterminal = 2
  MaxPackets = 2
  MaxReviewCalls = 1
  OrchestrationEvidence = FALSE
  MaxLifecycle = 0
  MaxQueueRev = 0
  MaxPauseRev = 2
INVARIANTS
  DependentsWaitForSuccess
PROPERTIES
  ResolutionIsFinal
  PublicationSettles
