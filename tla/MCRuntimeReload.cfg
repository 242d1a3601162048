CONSTANTS
  kMaxStates = 3
  kMaxTriggers = 2
  kMaxTransitionsPerState = 2
  kMaxAlternatives = 2
  kMaxConditions = 2
  LongNames = {}
  Null = Null
  Inputs <- CarInputs
  Initial = "standing"
  Moves <- CarMoves
  Refused = "refused"
  Object = {o1, o2}
  Conduct = {"reload", "rebind"}
  LoadedModels <- TwoModels
  LoadedSetups <- Racing
  Names = {}
  MaxInputs = 1
  MaxFires = 0
  InboxDepth = 1
  MaxHooks = 0
SPECIFICATION Spec
INVARIANT RunsOnStartedMachine
INVARIANT SilenceMeansMismatch
PROPERTY MovesStayInModel
CHECK_DEADLOCK FALSE
