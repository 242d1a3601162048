CONSTANTS
  kMaxStates = 2
  kMaxTriggers = 3
  kMaxTransitionsPerState = 2
  kMaxAlternatives = 2
  kMaxConditions = 3
  kMaxConditionsPerGuard = 2
  LongNames = {"long"}
  Readings <- MCReadings
  Nodes <- MCNodes
  Sources <- MCSources
  Formers <- MCFormers
SPECIFICATION Spec
INVARIANT TypeOK
INVARIANT NothingHalfLoaded
INVARIANT OkIffWellFormed
INVARIANT SaysTheDocument
CHECK_DEADLOCK FALSE
