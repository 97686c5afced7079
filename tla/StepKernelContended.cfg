SPECIFICATION FairSpec
CONSTANTS
  d1 = d1
  d2 = d2
  a1 = a1
  a2 = a2
  NoDevice = NoDevice
  NoJob = NoJob
  Devices <- ContendedDevices
  DeviceCaps <- ContendedCaps
  Steps <- ContendedSteps
  StepCap <- ContendedStepCap
  Attempts <- TwoAttempts
  LeaseDuration = 1
  AckDeadline = 1
  MaxDevices = 2
  MaxSteps = 2
  MaxJobs = 1
  ClockMayStepBack = FALSE
  MaxTime = 1
  MaxEpoch = 2
  MaxSeq = 2
INVARIANTS
  TypeOK
  LiveAttemptsOnActiveConnection
  StepLeasedIffLiveAttempt
  WithinLimits
  NextMessageIsNeverAReplay
  JournalAgreesWithTables
PROPERTIES
  ImplementsLifecycle
  PendingCancellationResolves
