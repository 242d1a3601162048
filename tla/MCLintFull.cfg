CONSTANTS
  kMaxStates = 3
  kMaxTriggers = 2
  kMaxTransitionsPerState = 2
  kMaxAlternatives = 3
  kMaxConditions = 6
  LongNames = {}
  kMaxFindings = 2
  kMaxArguments = 2
  Spaced <- WithSpaces
  kIntMin <- Lowest
  kIntMax = 1
  Models <- WarnedModels
  Arguments <- AllArguments
SPECIFICATION Spec
INVARIANT ExitCodeTellsErrors
CHECK_DEADLOCK FALSE
