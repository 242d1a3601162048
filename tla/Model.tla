-------------------------------- MODULE Model --------------------------------
(***************************************************************************)
(* The machine half of the configuration (fms::Model): states, triggers,   *)
(* the two name indices, the channel index, each state's alternatives, and *)
(* the pool that holds the conditions of every guard.  And the other half  *)
(* (fms::Setup), as far as the two must agree.                             *)
(*                                                                         *)
(* A model is a value here; ModelBuild is the state machine that changes   *)
(* one, and StateMachine and Runtime read it.  Ids are dense from 0, as    *)
(* declare_state and declare_trigger hand them out.                        *)
(***************************************************************************)
EXTENDS Condition, Sequences, FiniteSets, TLC

NoName == ""

CONSTANTS
  kMaxStates, kMaxTriggers,        \* limits.hpp: the capacity of each table
  kMaxTransitionsPerState,
  kMaxAlternatives, kMaxConditions,
  LongNames                        \* the names and channels that do not fit

\* alternatives_for inserts an empty list before add_transition appends to it,
\* so a capacity of zero would leave that list behind.
ASSUME CapacityAssumption ==
  /\ kMaxStates \in Nat /\ kMaxTriggers \in Nat /\ kMaxTransitionsPerState \in Nat
  /\ kMaxAlternatives \in Nat \ {0} /\ kMaxConditions \in Nat

\* Nothing is too short.
ASSUME LengthsAssumption == NoName \notin LongNames

kNoState   == 65535
kNoTrigger == 65535

\* An id is 16 bits wide, and the highest means none.
ASSUME IdAssumption == kMaxStates <= kNoState /\ kMaxTriggers <= kNoTrigger

EmptyFunction == <<>>

\* What Model::clear leaves, and what a Model is constructed as.
EmptyModel ==
  [states |-> EmptyFunction, stateIndex |-> EmptyFunction,
   triggers |-> EmptyFunction, triggerIndex |-> EmptyFunction,
   channelIndex |-> EmptyFunction, conditions |-> <<>>]

Put(f, key, value) == [k \in DOMAIN f \cup {key} |-> IF k = key THEN value ELSE f[k]]

Lookup(index, name, none) == IF name \in DOMAIN index THEN index[name] ELSE none

-----------------------------------------------------------------------------
(* The read-only interface. *)

HasState(m, s) == s \in DOMAIN m.states

FindState(m, name)                == Lookup(m.stateIndex, name, kNoState)
FindTrigger(m, name)              == Lookup(m.triggerIndex, name, kNoTrigger)
FindTriggerForChannel(m, channel) == Lookup(m.channelIndex, channel, kNoTrigger)

StateName(m, s)   == IF HasState(m, s) THEN m.states[s].name ELSE "<invalid>"

\* Whether `from` lists `trigger` at all, guards aside.
Accepts(m, from, trigger) ==
  HasState(m, from) /\ trigger \in DOMAIN m.states[from].transitions

\* The ANDed conditions of one alternative.  A slice that runs past the pool
\* does not hold.
AlternativeHolds(m, alternative, args) ==
  \A i \in 1 .. alternative.count :
    /\ alternative.first + i <= Len(m.conditions)
    /\ Holds(m.conditions[alternative.first + i], args)

\* A mistake FirstOf must not make: the file's order is not kept.
LastOf(holding)  == CHOOSE i \in holding : \A j \in holding : i >= j

\* In file order, the first alternative whose guard holds is taken.
FirstOf(holding) == CHOOSE i \in holding : \A j \in holding : i <= j

Evaluate(m, from, trigger, args) ==
  IF ~Accepts(m, from, trigger)
  THEN [decision |-> "NoTransition", target |-> kNoState]
  ELSE LET alternatives == m.states[from].transitions[trigger]
           holding == {i \in DOMAIN alternatives :
                         AlternativeHolds(m, alternatives[i], args)}
       IN  IF holding = {}
           THEN [decision |-> "GuardRejected", target |-> kNoState]
           ELSE [decision |-> "Accepted", target |-> alternatives[FirstOf(holding)].target]

-----------------------------------------------------------------------------
(* The build phase.  Each operation answers a status, and the model it      *)
(* leaves.                                                                  *)

Answers(status, m) == [status |-> status, model |-> m]

DeclareStateStatus(m, name) ==
  IF name = NoName THEN "InvalidArgument"
  ELSE IF Cardinality(DOMAIN m.states) >= kMaxStates THEN "CapacityExceeded"
  ELSE IF name \in LongNames THEN "NameTooLong"
  ELSE IF name \in DOMAIN m.stateIndex THEN "DuplicateName"
  ELSE "Ok"

WithState(m, name) ==
  LET id == Cardinality(DOMAIN m.states) IN
  [m EXCEPT !.states     = Put(@, id, [name |-> name, transitions |-> EmptyFunction]),
            !.stateIndex = Put(@, name, id)]

DeclareState(m, name) ==
  LET status == DeclareStateStatus(m, name) IN
  Answers(status, IF status = "Ok" THEN WithState(m, name) ELSE m)

\* A trigger with no channel of its own listens on its name.
ChannelOf(name, channel) == IF channel = NoName THEN name ELSE channel

\* A mistake DeclareTriggerStatus must not make: two triggers on one channel.
SharedChannelStatus(m, name, channel) ==
  IF name = NoName THEN "InvalidArgument"
  ELSE IF Cardinality(DOMAIN m.triggers) >= kMaxTriggers THEN "CapacityExceeded"
  ELSE IF name \in LongNames THEN "NameTooLong"
  ELSE IF ChannelOf(name, channel) \in LongNames THEN "ChannelTooLong"
  ELSE IF name \in DOMAIN m.triggerIndex THEN "DuplicateName"
  ELSE "Ok"

DeclareTriggerStatus(m, name, channel) ==
  IF name = NoName THEN "InvalidArgument"
  ELSE IF Cardinality(DOMAIN m.triggers) >= kMaxTriggers THEN "CapacityExceeded"
  ELSE IF name \in LongNames THEN "NameTooLong"
  ELSE IF ChannelOf(name, channel) \in LongNames THEN "ChannelTooLong"
  ELSE IF name \in DOMAIN m.triggerIndex THEN "DuplicateName"
  ELSE IF ChannelOf(name, channel) \in DOMAIN m.channelIndex THEN "DuplicateName"
  ELSE "Ok"

WithTrigger(m, name, channel) ==
  LET id == Cardinality(DOMAIN m.triggers) IN
  [m EXCEPT !.triggers     = Put(@, id, [name |-> name, channel |-> channel]),
            !.triggerIndex = Put(@, name, id),
            !.channelIndex = Put(@, channel, id)]

DeclareTrigger(m, name, channel) ==
  LET status == DeclareTriggerStatus(m, name, channel) IN
  Answers(status, IF status = "Ok" THEN WithTrigger(m, name, ChannelOf(name, channel)) ELSE m)

\* A mistake RoomFor must not make: the capacity is off by one.
OneTooMany(m, from, trigger) ==
  LET transitions == m.states[from].transitions IN
  trigger \in DOMAIN transitions \/ Cardinality(DOMAIN transitions) <= kMaxTransitionsPerState

\* alternatives_for: the list is made, empty, when the state does not list the
\* trigger and has room for one more.
RoomFor(m, from, trigger) ==
  LET transitions == m.states[from].transitions IN
  trigger \in DOMAIN transitions \/ Cardinality(DOMAIN transitions) < kMaxTransitionsPerState

WithList(m, from, trigger) ==
  IF Accepts(m, from, trigger) THEN m
  ELSE [m EXCEPT !.states[from].transitions = Put(@, trigger, <<>>)]

\* A mistake TransitionStatus must not make: the target is not looked at.
AnyTarget(m, from, trigger, target, conditions) ==
  IF ~HasState(m, from) THEN "UnknownState"
  ELSE IF trigger \notin DOMAIN m.triggers THEN "UnknownTrigger"
  ELSE IF Len(m.conditions) + Len(conditions) > kMaxConditions THEN "CapacityExceeded"
  ELSE IF ~RoomFor(m, from, trigger) THEN "CapacityExceeded"
  ELSE "Ok"

TransitionStatus(m, from, trigger, target, conditions) ==
  IF ~HasState(m, from) THEN "UnknownState"
  ELSE IF trigger \notin DOMAIN m.triggers THEN "UnknownTrigger"
  ELSE IF ~HasState(m, target) THEN "UnknownState"
  ELSE IF Len(m.conditions) + Len(conditions) > kMaxConditions THEN "CapacityExceeded"
  ELSE IF ~RoomFor(m, from, trigger) THEN "CapacityExceeded"
  ELSE "Ok"

\* A mistake WithAlternative must not make: the slice starts at the pool's start.
FromTheStart(m, from, trigger, target, conditions) ==
  LET alternative == [first |-> 0, count |-> Len(conditions), target |-> target]
  IN [m EXCEPT !.states[from].transitions[trigger] = Append(@, alternative),
               !.conditions = @ \o conditions]

\* The guard's conditions go to the end of the pool, and the alternative keeps
\* where they are.
WithAlternative(m, from, trigger, target, conditions) ==
  LET alternative == [first |-> Len(m.conditions), count |-> Len(conditions),
                      target |-> target]
  IN [m EXCEPT !.states[from].transitions[trigger] = Append(@, alternative),
               !.conditions = @ \o conditions]

\* A mistake AddTransition must not make: the pool is filled before the list is
\* known to have room.
WithPoolFirst(m, from, trigger, target, conditions) ==
  LET status == TransitionStatus(m, from, trigger, target, conditions) IN
  IF status # "Ok" THEN Answers(status, m)
  ELSE LET listed == WithList(m, from, trigger) IN
       IF Len(listed.states[from].transitions[trigger]) >= kMaxAlternatives
       THEN Answers("CapacityExceeded", [listed EXCEPT !.conditions = @ \o conditions])
       ELSE Answers("Ok", WithAlternative(listed, from, trigger, target, conditions))

AddTransition(m, from, trigger, target, conditions) ==
  LET status == TransitionStatus(m, from, trigger, target, conditions) IN
  IF status # "Ok" THEN Answers(status, m)
  ELSE LET listed == WithList(m, from, trigger) IN
       IF Len(listed.states[from].transitions[trigger]) >= kMaxAlternatives
       THEN Answers("CapacityExceeded", listed)
       ELSE Answers("Ok", WithAlternative(listed, from, trigger, target, conditions))

\* Model::validate, for one alternative of a listed trigger.
AlternativeValid(m, alternative) ==
  /\ HasState(m, alternative.target)
  /\ alternative.first + alternative.count <= Len(m.conditions)

\* Model::validate.  Which reference is found broken first decides the status;
\* only Ok and not-Ok are told apart by a caller, so the rest is one status.
Validate(m) ==
  IF /\ DOMAIN m.states # {}
     /\ \A s \in DOMAIN m.states : \A t \in DOMAIN m.states[s].transitions :
          LET alternatives == m.states[s].transitions[t] IN
          /\ t \in DOMAIN m.triggers
          /\ alternatives # <<>>
          /\ \A i \in DOMAIN alternatives : AlternativeValid(m, alternatives[i])
  THEN "Ok" ELSE "SchemaError"

\* What a list of alternatives is, in every model the build phase makes.
Alternative  == [first : Nat, count : Nat, target : Nat]
WellTyped(m) == \A s \in DOMAIN m.states : \A t \in DOMAIN m.states[s].transitions :
                  m.states[s].transitions[t] \in Seq(Alternative)

\* An index from keys to ids, and the key each id has, are inverses.
Inverts(index, keys) ==
  /\ \A k \in DOMAIN index : index[k] \in DOMAIN keys /\ keys[index[k]] = k
  /\ \A id \in DOMAIN keys : keys[id] \in DOMAIN index /\ index[keys[id]] = id

NamesOf(table)    == [id \in DOMAIN table |-> table[id].name]
ChannelsOf(table) == [id \in DOMAIN table |-> table[id].channel]

\* The three indices of a model, as its readers may count on them.
Indexed(m) ==
  /\ Inverts(m.stateIndex, NamesOf(m.states))
  /\ Inverts(m.triggerIndex, NamesOf(m.triggers))
  /\ Inverts(m.channelIndex, ChannelsOf(m.triggers))

\* The tables of a model as its readers may count on them: each within its
\* capacity, ids dense from 0.
WithinCapacities(m) ==
  /\ IsFiniteSet(DOMAIN m.states) /\ IsFiniteSet(DOMAIN m.triggers)
  /\ DOMAIN m.states = 0 .. Cardinality(DOMAIN m.states) - 1
  /\ DOMAIN m.triggers = 0 .. Cardinality(DOMAIN m.triggers) - 1
  /\ Cardinality(DOMAIN m.states) <= kMaxStates
  /\ Cardinality(DOMAIN m.triggers) <= kMaxTriggers
  /\ Len(m.conditions) \in 0 .. kMaxConditions
  /\ WellTyped(m)
  /\ \A s \in DOMAIN m.states :
       /\ Cardinality(DOMAIN m.states[s].transitions) <= kMaxTransitionsPerState
       /\ \A t \in DOMAIN m.states[s].transitions :
            Len(m.states[s].transitions[t]) \in 1 .. kMaxAlternatives

\* The guard an alternative reads out of the pool.
GuardOf(m, alternative) ==
  [i \in 1 .. alternative.count |-> m.conditions[alternative.first + i]]

\* The alternatives of a state for a trigger, read back through ids and slices.
Says(m, s, t) ==
  LET listed == Lookup(m.states[s].transitions, t, <<>>) IN
  [i \in DOMAIN listed |-> [target |-> StateName(m, listed[i].target),
                            guard  |-> GuardOf(m, listed[i])]]

-----------------------------------------------------------------------------
(* The setup half: only the name of the initial state refers to the model. *)

InitialIn(setup, m) == FindState(m, setup.initial)

ValidateAgainst(setup, m) ==
  IF setup.initial = NoName THEN "SchemaError"
  ELSE IF InitialIn(setup, m) = kNoState THEN "UnknownState"
  ELSE "Ok"
=============================================================================
