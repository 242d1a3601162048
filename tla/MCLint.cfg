CONSTANTS
  kMaxStates = 4
  kMaxTriggers = 2
  kMaxTransitionsPerState = 2
  kMaxAlternatives = 3
  kMaxConditions = 6
  LongNames = {}
  kMaxFindings = 4
  kMaxArguments = 2
  Spaced <- WithSpaces
  kIntMin <- Lowest
  kIntMax = 1
  Models <- AllModels
  Arguments <- AllArguments
SPECIFICATION Spec
INVARIANTS
  TypeOK
  SearchVisitsOnce
  ReachabilityIsExact
  ReportedGoesNowhere
  ReportedIsNeverTaken
  CleanVouches
CHECK_DEADLOCK FALSE
