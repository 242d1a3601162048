CONSTANTS
  kMaxStates = 3
  kMaxTriggers = 2
  kMaxTransitionsPerState = 2
  kMaxAlternatives = 2
  kMaxConditions = 2
  LongNames = {}
  Null = Null
  Inputs <- CarInputs
  Initial = "standing"
  Moves <- CarMoves
  Refused = "refused"
  Object = {o1}
  Conduct = {"hook"}
  LoadedModels <- OneModel
  LoadedSetups <- OneSetup
  Names = {}
  MaxInputs = 3
  MaxFires = 0
  InboxDepth = 2
  MaxHooks = 1
SPECIFICATION FairSpec
PROPERTY KeepsPromise
PROPERTY EveryInputAnswered
PROPERTY SessionEnds
CHECK_DEADLOCK FALSE
