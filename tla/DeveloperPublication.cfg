SPECIFICATION Spec
CONSTANTS
  None = None
  Other = Other
  EventLimit = 14
  MaxBase = 2
  MaxPulls = 2
INVARIANTS
  TypeOK
  EffectsAreIntended
PROPERTIES
  OnlyReviewedMerges
  KeepsPromise
CHECK_DEADLOCK FALSE
