\* Two independent features, no orchestration: the queue, the lease, the gates,
\* publication, owner resolution, Emergency Pause, grants and restarts.
SPECIFICATION Spec
CONSTANTS
  f1 = f1
  f2 = f2
  Features = {f1, f2}
  NoFeature = NoFeature
  DependsOn <- NoDependencies
  Packets = {1}
  NoRow = NoRow
  MaxNonterminal = 2
  MaxPackets = 1
  MaxReviewCalls = 1
  OrchestrationEvidence = FALSE
  MaxLifecycle = 0
  MaxQueueRev = 4
  MaxPauseRev = 2
INVARIANTS
  TypeOK
  LeaseHeldUntilReleased
  QueueMatchesLease
  LedgerExplainsStatus
  EffectsOnceInOrder
  MergedThenAbandonedIsReconciled
