CONSTANTS
  kMaxStates = 2
  kMaxTriggers = 2
  kMaxTransitionsPerState = 1
  kMaxAlternatives = 2
  kMaxConditions = 3
  LongNames = {"long"}
  NameSet = {"", "a", "b", "long"}
  Guards <- OfferedGuards
SPECIFICATION Spec
INVARIANT TypeOK
INVARIANT IndicesAgree
INVARIANT SaysWhatWasDescribed
INVARIANT PoolIsAccountedFor
INVARIANT BuiltIsValid
CHECK_DEADLOCK FALSE
