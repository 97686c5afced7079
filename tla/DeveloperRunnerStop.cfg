SPECIFICATION FairSpec
CONSTANTS
  f1 = f1
  f2 = f2
  Feature = {f1}
  Queue <- OneFeature
  Connected = {f1}
  Path = {p1}
  RepairLimit = 1
  ReviewLimit = 1
  Asks = {"start", "repair", "stop", "emergency", "clear", "reconcile", "shutdown", "remove"}
  None = None
  MaxVersion = 1
  MaxRestarts = 0
  MaxStops = 1
  MaxOutside = 0
INVARIANTS
  TypeOK
  StopIsNotLost
PROPERTIES
  NoEffectAfterStop
  RunEnds
