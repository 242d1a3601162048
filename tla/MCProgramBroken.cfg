CONSTANTS
  Conduct      = {}
  Object       = {car}
  Null         = Null
  LoadedModels <- EveryModel
  LoadedSetups <- EverySetup
  Inputs       <- CarInputs
  Initial      = "standing"
  Moves        <- CarMoves
  Refused      = "refused"
  Names        = {}
  MaxInputs    = 3
  MaxFires     = 3
  InboxDepth   = 1
  MaxHooks     = 0
  kMaxStates   = 3
  kMaxTriggers = 2
  kMaxTransitionsPerState = 2
  kMaxAlternatives = 3
  kMaxConditions   = 6
  LongNames    = {}
  CommandLines <- OneCommandLine
  Disk         <- Files
  Faulty       <- Errors
  Endings      = {"end", "broken"}
  MaxLines     = 3
SPECIFICATION FairProgramSpec
PROPERTY FailureIsReported
\* The program exits.
CHECK_DEADLOCK FALSE
