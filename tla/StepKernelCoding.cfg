SPECIFICATION Spec
CONSTANTS
  d1 = d1
  d2 = d2
  a1 = a1
  a2 = a2
  NoDevice = NoDevice
  NoJob = NoJob
  Devices <- CodingDevices
  DeviceCaps <- CodingCaps
  Steps <- CodingSteps
  StepCap <- CodingStepCap
  Attempts <- TwoAttempts
  LeaseDuration = 1
  AckDeadline = 1
  MaxDevices = 2
  MaxSteps = 2
  MaxJobs = 2
  ClockMayStepBack = TRUE
  MaxTime = 1
  MaxEpoch = 2
  MaxSeq = 3
SYMMETRY TwoAttemptSymmetry
INVARIANTS
  OneAttemptPerDevice
  PauseQuiescesRemoteWork
PROPERTIES
  TerminalStepsStay
  CodingOutcomeIsBoundAndBacked
