CONSTANTS
  kMaxStates = 3
  kMaxTriggers = 2
  kMaxTransitionsPerState = 2
  kMaxAlternatives = 2
  kMaxConditions = 2
  LongNames = {}
  Null = Null
  Inputs <- CarInputs
  Initial = "standing"
  Moves <- CarMoves
  Refused = "refused"
  Object = {o1}
  Conduct = {}
  LoadedModels <- OneModel
  LoadedSetups <- OneSetup
  Names = {}
  MaxInputs = 1
  MaxFires = 0
  InboxDepth = 1
  MaxHooks = 0
SPECIFICATION Spec
INVARIANT LastArgumentsValid
CHECK_DEADLOCK FALSE
