----------------------------- MODULE ModelBuild -----------------------------
(***************************************************************************)
(* The build phase of one Model: what a loader may do to it, in any order, *)
(* every call refused or not.  `described` is what an author of the file   *)
(* would say the machine is, kept by name and with each guard in full; the *)
(* model keeps ids, three indices, and slices of one shared pool.          *)
(***************************************************************************)
EXTENDS Model

CONSTANTS
  NameSet,        \* the names and channels offered, "" and LongNames among them
  Guards          \* the condition lists offered

Comparisons == UNION {{guard[i] : i \in DOMAIN guard} : guard \in Guards}

ASSUME GuardsAssumption == \A guard \in Guards : guard \in Seq(Comparisons)

VARIABLES
  model,          \* the Model
  described       \* [states, triggers, moves]: what the accepted calls added up to

vars == <<model, described>>

Nowhere == [states |-> {}, triggers |-> {}, moves |-> EmptyFunction]

Init == model = EmptyModel /\ described = Nowhere

\* One build operation answered; `then` is what it describes if accepted.
Leaves(answer, then) ==
  /\ model' = answer.model
  /\ described' = IF answer.status = "Ok" THEN then ELSE described

Clear == model' = EmptyModel /\ described' = Nowhere

AddState(name) ==
  Leaves(DeclareState(model, name),
         [described EXCEPT !.states = @ \cup {name}])

AddTrigger(name, channel) ==
  Leaves(DeclareTrigger(model, name, channel),
         [described EXCEPT !.triggers = @ \cup {<<name, ChannelOf(name, channel)>>}])

\* What a state does on a trigger, so far.
Moves(from, trigger) == Lookup(described.moves, <<from, trigger>>, <<>>)

AddMove(from, trigger, target, guard) ==
  LET key  == <<StateName(model, from), model.triggers[trigger].name>>
      move == [target |-> StateName(model, target), guard |-> guard]
  IN Leaves(AddTransition(model, from, trigger, target, guard),
            [described EXCEPT !.moves = Put(@, key, Append(Lookup(@, key, <<>>), move))])

\* Ids a loader can hold: those handed out, and the one that means none.
StateIds   == 0 .. kMaxStates - 1 \cup {kNoState}
TriggerIds == 0 .. kMaxTriggers - 1 \cup {kNoTrigger}

Next ==
  \/ Clear
  \/ \E name \in NameSet : AddState(name)
  \/ \E name, channel \in NameSet : AddTrigger(name, channel)
  \/ \E from, target \in StateIds, trigger \in TriggerIds, guard \in Guards :
       AddMove(from, trigger, target, guard)

Spec == Init /\ [][Next]_vars

-----------------------------------------------------------------------------

\* Every table within its capacity, ids dense from 0 in each.
TypeOK == WithinCapacities(model)

\* The three indices are the inverses of the tables they index: a name finds
\* the one state or trigger that has it, a channel the one trigger it raises.
IndicesAgree ==
  /\ \A name \in NameSet \cup DOMAIN model.stateIndex, s \in DOMAIN model.states :
       FindState(model, name) = s <=> model.states[s].name = name
  /\ \A name \in NameSet \cup DOMAIN model.triggerIndex, t \in DOMAIN model.triggers :
       /\ FindTrigger(model, name) = t <=> model.triggers[t].name = name
       /\ FindTriggerForChannel(model, name) = t <=> model.triggers[t].channel = name

\* What the model says, read back through its ids and slices, is what the
\* accepted calls described: no refused call left anything, no guard was moved,
\* shared or cut by one added later, alternatives are in the order added.
SaysWhatWasDescribed ==
  /\ {model.states[s].name : s \in DOMAIN model.states} = described.states
  /\ {<<model.triggers[t].name, model.triggers[t].channel>> : t \in DOMAIN model.triggers}
       = described.triggers
  /\ \A s \in DOMAIN model.states, t \in DOMAIN model.triggers :
       Says(model, s, t) = Moves(model.states[s].name, model.triggers[t].name)

\* Everything ever written to the pool belongs to some alternative: a refused
\* add does not use up conditions that a later one would need.
PoolIsAccountedFor ==
  LET slice(a)      == {a.first + i : i \in 1 .. a.count}
      slices(list)  == UNION {slice(list[i]) : i \in DOMAIN list}
      guards(lists) == UNION {slices(lists[t]) : t \in DOMAIN lists}
  IN 1 .. Len(model.conditions) =
       UNION {guards(model.states[s].transitions) : s \in DOMAIN model.states}

\* validate() finds nothing to refuse in a model that was built through these
\* calls and has a state, whichever of them were refused on the way.
BuiltIsValid == DOMAIN model.states # {} => Validate(model) = "Ok"
=============================================================================
