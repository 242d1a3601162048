CONSTANTS
  kMaxStates = 3
  kMaxTriggers = 3
  kMaxTransitionsPerState = 2
  kMaxAlternatives = 2
  kMaxConditions = 2
  LongNames = {}
  Null = Null
  Inputs <- CarInputs
  Initial = "standing"
  Moves <- CarMoves
  Refused = "refused"
  Object = {o1}
  Conduct = {"direct", "fault", "hook"}
  LoadedModels <- OneModel
  LoadedSetups <- OneSetup
  Names = {"throttle", "spoiler"}
  MaxInputs = 2
  MaxFires = 2
  InboxDepth = 1
  MaxHooks = 1
SPECIFICATION Spec
INVARIANT TypeOK
INVARIANT InputsAccounted
INVARIANT ErrorsAccounted
INVARIANT StatesAccounted
INVARIANT PublishedStateIsCurrent
INVARIANT ArgsReadWhileLive
INVARIANT ChannelsAnnounced
CHECK_DEADLOCK FALSE
