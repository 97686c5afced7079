SPECIFICATION Spec
CONSTANTS
  f1 = f1
  f2 = f2
  Feature = {f1, f2}
  Queue <- TwoFeatures
  Connected = {f1}
  Path = {p1}
  RepairLimit = 1
  ReviewLimit = 2
  Asks = {"start", "repair", "enqueue", "auto_run", "reconcile", "abandon", "refused_claim"}
  None = None
  MaxVersion = 3
  MaxRestarts = 1
  MaxStops = 0
  MaxOutside = 1
INVARIANTS
  ModelBudget
  BarrierHolds
  RunningIsAttended
  PendingIsReviewing
PROPERTIES
  SuccessIsReviewed
