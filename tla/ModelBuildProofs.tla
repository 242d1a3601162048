-------------------------- MODULE ModelBuildProofs --------------------------
(***************************************************************************)
(* What holds of every model that is built by any calls in any order, for  *)
(* every capacity and whatever is offered.                                 *)
(***************************************************************************)
EXTENDS ModelBuild, ModelProofs

\* What was built is within its capacities, and each guard within the pool.
BuildInv == Built(model, Comparisons) /\ Sound(model, kMaxConditions)

\* Nothing is within every capacity.
LEMMA InitBuild == Init => BuildInv
BY EmptyIsBuilt, EmptyIsSound DEF Init, BuildInv

\* The guards that are offered are made of what Built counts on, and one that is
\* accepted is no longer than the pool.
LEMMA MoveKeeps ==
  ASSUME BuildInv, NEW from, NEW trigger, NEW target, NEW guard \in Guards,
         AddMove(from, trigger, target, guard)
  PROVE  BuildInv'
<1> DEFINE answer == AddTransition(model, from, trigger, target, guard)
<1>1. model' = answer.model /\ guard \in Seq(Comparisons)
  BY GuardsAssumption DEF AddMove, Leaves
<1>2. CASE answer.status = "Ok"
  <2>1. Len(guard) <= kMaxConditions
    <3>1. Len(model.conditions) + Len(guard) <= kMaxConditions
      BY <1>1, <1>2, TransitionIs DEF BuildInv
    <3>2. Len(model.conditions) \in Nat /\ Len(guard) \in Nat
      BY <1>1, LenProperties DEF BuildInv, Built
    <3> QED
      BY <3>1, <3>2, CapacityAssumption
  <2>2. Built(answer.model, Comparisons)
    BY <1>1, <1>2, TransitionAdded DEF BuildInv
  <2>3. Sound(answer.model, kMaxConditions)
    BY <1>1, <1>2, <2>1, TransitionKeepsSound DEF BuildInv
  <2> QED
    BY <1>1, <2>2, <2>3 DEF BuildInv
<1>3. CASE answer.status # "Ok"
  BY <1>1, <1>3, RefusedAddLeavesNothing DEF BuildInv
<1> QED
  BY <1>2, <1>3

\* A call that declares a state or a trigger.
LEMMA DeclarationsKeep ==
  ASSUME BuildInv, NEW name, NEW channel, AddState(name) \/ AddTrigger(name, channel)
  PROVE  BuildInv'
<1>1. CASE AddState(name) /\ DeclareState(model, name).status = "Ok"
  BY <1>1, StateDeclared, StateKeepsSound DEF BuildInv, AddState, Leaves
<1>2. CASE AddTrigger(name, channel) /\ DeclareTrigger(model, name, channel).status = "Ok"
  BY <1>2, TriggerDeclared, TriggerKeepsSound DEF BuildInv, AddTrigger, Leaves
<1>3. CASE AddState(name) /\ DeclareState(model, name).status # "Ok"
  BY <1>3 DEF BuildInv, AddState, Leaves, DeclareState, Answers
<1>4. CASE AddTrigger(name, channel) /\ DeclareTrigger(model, name, channel).status # "Ok"
  BY <1>4 DEF BuildInv, AddTrigger, Leaves, DeclareTrigger, Answers
<1> QED
  BY <1>1, <1>2, <1>3, <1>4

\* Every step keeps what is built within its capacities and sound.
LEMMA BuildStep == BuildInv /\ [Next]_vars => BuildInv'
<1> SUFFICES ASSUME BuildInv, [Next]_vars PROVE BuildInv'
  OBVIOUS
<1>1. CASE Clear
  BY <1>1, EmptyIsBuilt, EmptyIsSound DEF Clear, BuildInv
<1>2. CASE \E name \in NameSet : AddState(name)
  BY <1>2, DeclarationsKeep
<1>3. CASE \E name, channel \in NameSet : AddTrigger(name, channel)
  BY <1>3, DeclarationsKeep
<1>4. CASE \E from, target \in StateIds, trigger \in TriggerIds, guard \in Guards :
             AddMove(from, trigger, target, guard)
  BY <1>4, MoveKeeps
<1>5. CASE UNCHANGED vars
  BY <1>5 DEF vars, BuildInv
<1> QED
  BY <1>1, <1>2, <1>3, <1>4, <1>5 DEF Next

\* The inductive invariant of the build phase.
LEMMA BuildInvHolds == Spec => []BuildInv
BY InitBuild, BuildStep, PTL DEF Spec

\* Whatever is called, accepted or refused, every table stays within its capacity
\* and every id dense.
THEOREM WithinCapacity == Spec => []TypeOK
<1>1. BuildInv => TypeOK
  BY DEF BuildInv, Built, TypeOK
<1> QED
  BY <1>1, BuildInvHolds, PTL

\* validate() refuses nothing that the build operations made.
THEOREM NothingToRefuse == Spec => []BuiltIsValid
<1>1. BuildInv => BuiltIsValid
  BY SoundIsValid DEF BuildInv, BuiltIsValid
<1> QED
  BY <1>1, BuildInvHolds, PTL

-----------------------------------------------------------------------------
(* The indices. *)

\* A lookup that finds nothing answers an id that no table has.
LEMMA IndexedAgree == BuildInv => IndicesAgree
<1> SUFFICES ASSUME BuildInv PROVE IndicesAgree
  OBVIOUS
<1>1. kNoState \notin DOMAIN model.states /\ kNoTrigger \notin DOMAIN model.triggers
  <2>1. Cardinality(DOMAIN model.states) \in Nat /\ Cardinality(DOMAIN model.triggers) \in Nat
    BY FS_CardinalityType DEF BuildInv, Built
  <2>2. /\ DOMAIN model.states = 0 .. Cardinality(DOMAIN model.states) - 1
        /\ DOMAIN model.triggers = 0 .. Cardinality(DOMAIN model.triggers) - 1
        /\ Cardinality(DOMAIN model.states) <= kMaxStates
        /\ Cardinality(DOMAIN model.triggers) <= kMaxTriggers
    BY DEF BuildInv, Built, WithinCapacities
  <2> QED
    BY <2>1, <2>2, IdAssumption, CapacityAssumption DEF kNoState, kNoTrigger
<1>2. ASSUME NEW index, NEW keys, Inverts(index, keys), NEW k, NEW id \in DOMAIN keys,
             NEW none, none \notin DOMAIN keys
      PROVE  Lookup(index, k, none) = id <=> keys[id] = k
  BY <1>2 DEF Inverts, Lookup
<1>3. ASSUME NEW name, NEW s \in DOMAIN model.states
      PROVE  FindState(model, name) = s <=> model.states[s].name = name
  <2>1. DOMAIN NamesOf(model.states) = DOMAIN model.states
        /\ NamesOf(model.states)[s] = model.states[s].name
    BY DEF NamesOf
  <2> QED
    BY <1>1, <1>2, <2>1 DEF BuildInv, Built, Indexed, FindState
<1>4. ASSUME NEW name, NEW t \in DOMAIN model.triggers
      PROVE  /\ FindTrigger(model, name) = t <=> model.triggers[t].name = name
             /\ FindTriggerForChannel(model, name) = t <=> model.triggers[t].channel = name
  <2>1. /\ DOMAIN NamesOf(model.triggers) = DOMAIN model.triggers
        /\ DOMAIN ChannelsOf(model.triggers) = DOMAIN model.triggers
        /\ NamesOf(model.triggers)[t] = model.triggers[t].name
        /\ ChannelsOf(model.triggers)[t] = model.triggers[t].channel
    BY DEF NamesOf, ChannelsOf
  <2> QED
    BY <1>1, <1>2, <2>1 DEF BuildInv, Built, Indexed, FindTrigger, FindTriggerForChannel
<1> QED
  BY <1>3, <1>4 DEF IndicesAgree

\* Whatever is called, accepted or refused: a name finds the one state or trigger
\* that has it, and a channel the one trigger it raises.
THEOREM IndicesInvert == Spec => []IndicesAgree
BY BuildInvHolds, IndexedAgree, PTL

-----------------------------------------------------------------------------
(* What the model says of what was described. *)

Key(m, s, t) == <<m.states[s].name, m.triggers[t].name>>

\* A model m that says what was described, d, and nothing is described that m
\* has no names for.
Agrees(m, d) ==
  /\ DOMAIN d = {"states", "triggers", "moves"}
  /\ {m.states[s].name : s \in DOMAIN m.states} = d.states
  /\ {<<m.triggers[t].name, m.triggers[t].channel>> : t \in DOMAIN m.triggers} = d.triggers
  /\ \A key \in DOMAIN d.moves :
       \E s \in DOMAIN m.states, t \in DOMAIN m.triggers : key = Key(m, s, t)
  /\ \A s \in DOMAIN m.states, t \in DOMAIN m.triggers :
       Says(m, s, t) = Lookup(d.moves, Key(m, s, t), <<>>)

\* Nothing was described, and an empty model says nothing.
LEMMA EmptyAgrees == Agrees(EmptyModel, Nowhere)
BY DEF Agrees, EmptyModel, Nowhere, EmptyFunction

\* A state that is new says nothing, and nothing was described for its name.
LEMMA StateAgrees ==
  ASSUME BuildInv, Agrees(model, described), NEW name,
         DeclareState(model, name).status = "Ok"
  PROVE  Agrees(DeclareState(model, name).model,
                [described EXCEPT !.states = @ \cup {name}])
<1> DEFINE id    == Cardinality(DOMAIN model.states)
           entry == [name |-> name, transitions |-> EmptyFunction]
           a     == Put(model.states, id, entry)
           b     == Put(model.stateIndex, name, id)
           made  == [model EXCEPT !.states = a, !.stateIndex = b]
           d     == [described EXCEPT !.states = @ \cup {name}]
<1>1. DeclareState(model, name).model = made /\ name \notin DOMAIN model.stateIndex
  BY DEF DeclareState, DeclareStateStatus, Answers, WithState
<1>2. id \notin DOMAIN model.states /\ DOMAIN model = DOMAIN EmptyModel
  BY Grows DEF BuildInv, Built, WithinCapacities
<1>3. /\ DOMAIN a = DOMAIN model.states \cup {id} /\ a[id] = entry
      /\ \A s \in DOMAIN model.states : a[s] = model.states[s]
  BY <1>2 DEF Put
<1>4. entry.name = name /\ DOMAIN entry.transitions = {}
  BY DEF EmptyFunction
<1>5. ASSUME NEW s \in DOMAIN model.states PROVE model.states[s].name # name
  <2>1. s \in DOMAIN NamesOf(model.states) /\ NamesOf(model.states)[s] = model.states[s].name
    BY DEF NamesOf
  <2>2. NamesOf(model.states)[s] \in DOMAIN model.stateIndex
    BY <2>1 DEF BuildInv, Built, Indexed, Inverts
  <2> QED
    BY <1>1, <2>1, <2>2
<1>6. /\ d.states = described.states \cup {name} /\ d.triggers = described.triggers
      /\ d.moves = described.moves /\ DOMAIN d = {"states", "triggers", "moves"}
  BY DEF Agrees
<1> HIDE DEF a, b, id, entry, d
<1>7. /\ made.states = a /\ made.triggers = model.triggers /\ made.conditions = model.conditions
  BY <1>2 DEF EmptyModel
<1> HIDE DEF made
<1>8. Extends(made, model)
  BY <1>3, <1>7 DEF Extends
<1>9. {made.states[s].name : s \in DOMAIN made.states} = d.states
  <2>1. {made.states[s].name : s \in DOMAIN made.states} =
          {model.states[s].name : s \in DOMAIN model.states} \cup {name}
    BY <1>3, <1>4, <1>7
  <2> QED
    BY <1>6, <2>1 DEF Agrees
<1>10. ASSUME NEW key \in DOMAIN d.moves
       PROVE  \E s \in DOMAIN made.states, t \in DOMAIN made.triggers : key = Key(made, s, t)
  <2>1. PICK s \in DOMAIN model.states, t \in DOMAIN model.triggers : key = Key(model, s, t)
    BY <1>6 DEF Agrees
  <2>2. s \in DOMAIN made.states /\ t \in DOMAIN made.triggers /\ key = Key(made, s, t)
    BY <1>3, <1>7, <2>1 DEF Key
  <2> QED
    BY <2>2
<1>11. ASSUME NEW s \in DOMAIN made.states, NEW t \in DOMAIN made.triggers
       PROVE  Says(made, s, t) = Lookup(d.moves, Key(made, s, t), <<>>)
  <2>1. CASE s \in DOMAIN model.states
    <3>1. made.states[s] = model.states[s] /\ t \in DOMAIN model.triggers
      BY <1>3, <1>7, <2>1
    <3>2. Says(made, s, t) = Says(model, s, t)
      BY <1>8, <2>1, <3>1, SaysStays DEF BuildInv, ListedFor
    <3>3. Key(made, s, t) = Key(model, s, t)
      BY <1>7, <3>1 DEF Key
    <3> QED
      BY <1>6, <2>1, <3>1, <3>2, <3>3 DEF Agrees
  <2>2. CASE s \notin DOMAIN model.states
    <3>1. made.states[s].name = name /\ DOMAIN made.states[s].transitions = {}
      BY <1>3, <1>4, <1>7, <2>2
    <3>2. Says(made, s, t) = <<>>
      BY <3>1 DEF Says, Lookup
    <3>3. Key(made, s, t) \notin DOMAIN d.moves
      BY <1>5, <1>6, <3>1 DEF Agrees, Key
    <3> QED
      BY <3>2, <3>3 DEF Lookup
  <2> QED
    BY <2>1, <2>2
<1>12. {<<made.triggers[t].name, made.triggers[t].channel>> : t \in DOMAIN made.triggers} = d.triggers
  BY <1>6, <1>7 DEF Agrees
<1>13. Agrees(made, d)
  BY <1>6, <1>9, <1>10, <1>11, <1>12 DEF Agrees
<1> QED
  BY <1>1, <1>13 DEF made, d

\* No state lists a trigger that is new, and nothing was described for its name.
LEMMA TriggerAgrees ==
  ASSUME BuildInv, Agrees(model, described), NEW name, NEW channel,
         DeclareTrigger(model, name, channel).status = "Ok"
  PROVE  Agrees(DeclareTrigger(model, name, channel).model,
                [described EXCEPT !.triggers = @ \cup {<<name, ChannelOf(name, channel)>>}])
<1> DEFINE id    == Cardinality(DOMAIN model.triggers)
           said  == ChannelOf(name, channel)
           entry == [name |-> name, channel |-> said]
           a     == Put(model.triggers, id, entry)
           b     == Put(model.triggerIndex, name, id)
           c     == Put(model.channelIndex, said, id)
           made  == [model EXCEPT !.triggers = a, !.triggerIndex = b, !.channelIndex = c]
           d     == [described EXCEPT !.triggers = @ \cup {<<name, said>>}]
<1>1. DeclareTrigger(model, name, channel).model = made /\ name \notin DOMAIN model.triggerIndex
  BY DEF DeclareTrigger, DeclareTriggerStatus, Answers, WithTrigger
<1>2. id \notin DOMAIN model.triggers /\ DOMAIN model = DOMAIN EmptyModel
  BY Grows DEF BuildInv, Built, WithinCapacities
<1>3. /\ DOMAIN a = DOMAIN model.triggers \cup {id} /\ a[id] = entry
      /\ \A t \in DOMAIN model.triggers : a[t] = model.triggers[t]
  BY <1>2 DEF Put
<1>4. entry.name = name /\ entry.channel = said
  OBVIOUS
<1>5. ASSUME NEW t \in DOMAIN model.triggers PROVE model.triggers[t].name # name
  <2>1. t \in DOMAIN NamesOf(model.triggers) /\ NamesOf(model.triggers)[t] = model.triggers[t].name
    BY DEF NamesOf
  <2>2. NamesOf(model.triggers)[t] \in DOMAIN model.triggerIndex
    BY <2>1 DEF BuildInv, Built, Indexed, Inverts
  <2> QED
    BY <1>1, <2>1, <2>2
<1>6. /\ d.triggers = described.triggers \cup {<<name, said>>} /\ d.states = described.states
      /\ d.moves = described.moves /\ DOMAIN d = {"states", "triggers", "moves"}
  BY DEF Agrees
<1> HIDE DEF a, b, c, id, said, entry, d
<1>7. /\ made.triggers = a /\ made.states = model.states /\ made.conditions = model.conditions
  BY <1>2 DEF EmptyModel
<1> HIDE DEF made
<1>8. Extends(made, model)
  BY <1>7 DEF Extends
<1>9. {<<made.triggers[t].name, made.triggers[t].channel>> : t \in DOMAIN made.triggers} = d.triggers
  <2>1. {<<made.triggers[t].name, made.triggers[t].channel>> : t \in DOMAIN made.triggers} =
          {<<model.triggers[t].name, model.triggers[t].channel>> : t \in DOMAIN model.triggers}
            \cup {<<name, said>>}
    BY <1>3, <1>4, <1>7
  <2> QED
    BY <1>6, <2>1 DEF Agrees
<1>10. ASSUME NEW key \in DOMAIN d.moves
       PROVE  \E s \in DOMAIN made.states, t \in DOMAIN made.triggers : key = Key(made, s, t)
  <2>1. PICK s \in DOMAIN model.states, t \in DOMAIN model.triggers : key = Key(model, s, t)
    BY <1>6 DEF Agrees
  <2>2. s \in DOMAIN made.states /\ t \in DOMAIN made.triggers /\ key = Key(made, s, t)
    BY <1>3, <1>7, <2>1 DEF Key
  <2> QED
    BY <2>2
<1>11. ASSUME NEW s \in DOMAIN made.states, NEW t \in DOMAIN made.triggers
       PROVE  Says(made, s, t) = Lookup(d.moves, Key(made, s, t), <<>>)
  <2>1. s \in DOMAIN model.states
    BY <1>7
  <2>2. CASE t \in DOMAIN model.triggers
    <3>1. Says(made, s, t) = Says(model, s, t)
      BY <1>7, <1>8, <2>1, SaysStays DEF BuildInv, ListedFor
    <3>2. Key(made, s, t) = Key(model, s, t)
      BY <1>3, <1>7, <2>2 DEF Key
    <3> QED
      BY <1>6, <2>1, <2>2, <3>1, <3>2 DEF Agrees
  <2>3. CASE t \notin DOMAIN model.triggers
    <3>1. made.triggers[t].name = name
      BY <1>3, <1>4, <1>7, <2>3
    <3>2. t \notin DOMAIN made.states[s].transitions
      BY <1>7, <2>1, <2>3 DEF BuildInv, Sound
    <3>3. Says(made, s, t) = <<>>
      BY <3>2 DEF Says, Lookup
    <3>4. Key(made, s, t) \notin DOMAIN d.moves
      BY <1>5, <1>6, <3>1 DEF Agrees, Key
    <3> QED
      BY <3>3, <3>4 DEF Lookup
  <2> QED
    BY <2>2, <2>3
<1>12. {made.states[s].name : s \in DOMAIN made.states} = d.states
  BY <1>6, <1>7 DEF Agrees
<1>13. Agrees(made, d)
  BY <1>6, <1>9, <1>10, <1>11, <1>12 DEF Agrees
<1> QED
  BY <1>1, <1>13 DEF made, d, said

\* Names tell states apart, and triggers.
LEMMA KeysDiffer ==
  ASSUME BuildInv, NEW s \in DOMAIN model.states, NEW t \in DOMAIN model.triggers,
         NEW r \in DOMAIN model.states, NEW u \in DOMAIN model.triggers,
         Key(model, s, t) = Key(model, r, u)
  PROVE  s = r /\ t = u
<1>1. ASSUME NEW index, NEW keys, Inverts(index, keys), NEW x \in DOMAIN keys,
             NEW y \in DOMAIN keys, keys[x] = keys[y]
      PROVE  x = y
  BY <1>1 DEF Inverts
<1>2. /\ DOMAIN NamesOf(model.states) = DOMAIN model.states
      /\ NamesOf(model.states)[s] = model.states[s].name
      /\ NamesOf(model.states)[r] = model.states[r].name
      /\ DOMAIN NamesOf(model.triggers) = DOMAIN model.triggers
      /\ NamesOf(model.triggers)[t] = model.triggers[t].name
      /\ NamesOf(model.triggers)[u] = model.triggers[u].name
  BY DEF NamesOf
<1>3. model.states[s].name = model.states[r].name /\ model.triggers[t].name = model.triggers[u].name
  BY DEF Key
<1> QED
  BY <1>1, <1>2, <1>3 DEF BuildInv, Built, Indexed

\* The alternative that is added says, after those there were, what was asked for;
\* nothing else that the model says changes.
LEMMA TransitionAgrees ==
  ASSUME BuildInv, Agrees(model, described),
         NEW from, NEW trigger, NEW target, NEW guard \in Guards,
         AddTransition(model, from, trigger, target, guard).status = "Ok"
  PROVE  LET key  == <<StateName(model, from), model.triggers[trigger].name>>
             move == [target |-> StateName(model, target), guard |-> guard] IN
         Agrees(AddTransition(model, from, trigger, target, guard).model,
                [described EXCEPT !.moves = Put(@, key, Append(Lookup(@, key, <<>>), move))])
<1> DEFINE made  == AddTransition(model, from, trigger, target, guard).model
           key   == <<StateName(model, from), model.triggers[trigger].name>>
           move  == [target |-> StateName(model, target), guard |-> guard]
           moves == Put(described.moves, key, Append(Lookup(described.moves, key, <<>>), move))
           d     == [described EXCEPT !.moves = Put(@, key, Append(Lookup(@, key, <<>>), move))]
<1>1. guard \in Seq(Comparisons)
  BY GuardsAssumption
<1>2. /\ from \in DOMAIN model.states /\ target \in DOMAIN model.states
      /\ trigger \in DOMAIN model.triggers
      /\ made.triggers = model.triggers /\ DOMAIN made.states = DOMAIN model.states
      /\ \A s \in DOMAIN model.states : made.states[s].name = model.states[s].name
      /\ Says(made, from, trigger) = Append(Says(model, from, trigger), move)
      /\ \A s \in DOMAIN model.states, t \in DOMAIN model.triggers :
           s # from \/ t # trigger => Says(made, s, t) = Says(model, s, t)
  BY <1>1, TransitionSays DEF BuildInv, SaysMore
<1>3. /\ d.states = described.states /\ d.triggers = described.triggers
      /\ d.moves = moves /\ DOMAIN d = {"states", "triggers", "moves"}
  BY DEF Agrees
<1>5. key = Key(model, from, trigger)
  BY <1>2 DEF Key, StateName, HasState
<1> HIDE DEF made, d
<1>9. /\ DOMAIN moves = DOMAIN described.moves \cup {key}
      /\ moves[key] = Append(Lookup(described.moves, key, <<>>), move)
      /\ \A k \in DOMAIN described.moves : k # key => moves[k] = described.moves[k]
  BY DEF Put
<1> HIDE DEF key, move, moves
<1>10. /\ DOMAIN made.states = DOMAIN model.states /\ made.triggers = model.triggers
       /\ \A s \in DOMAIN model.states, t \in DOMAIN model.triggers :
            Key(made, s, t) = Key(model, s, t)
  BY <1>2 DEF Key
<1>11. {made.states[s].name : s \in DOMAIN made.states} = d.states
  BY <1>2, <1>3 DEF Agrees
<1>12. {<<made.triggers[t].name, made.triggers[t].channel>> : t \in DOMAIN made.triggers} = d.triggers
  BY <1>3, <1>10 DEF Agrees
<1>13. ASSUME NEW k \in DOMAIN d.moves
       PROVE  \E s \in DOMAIN made.states, t \in DOMAIN made.triggers : k = Key(made, s, t)
  <2>1. CASE k = key
    BY <1>2, <1>5, <1>10, <2>1
  <2>2. CASE k # key
    <3>1. PICK s \in DOMAIN model.states, t \in DOMAIN model.triggers : k = Key(model, s, t)
      BY <1>3, <1>9, <2>2 DEF Agrees
    <3> QED
      BY <1>10, <3>1
  <2> QED
    BY <2>1, <2>2
<1>14. ASSUME NEW s \in DOMAIN made.states, NEW t \in DOMAIN made.triggers
       PROVE  Says(made, s, t) = Lookup(d.moves, Key(made, s, t), <<>>)
  <2>1. /\ s \in DOMAIN model.states /\ t \in DOMAIN model.triggers
        /\ Key(made, s, t) = Key(model, s, t)
        /\ Says(model, s, t) = Lookup(described.moves, Key(model, s, t), <<>>)
    BY <1>10 DEF Agrees
  <2>2. CASE s = from /\ t = trigger
    <3>1. Says(made, s, t) = Append(Says(model, s, t), move)
      BY <1>2, <2>2
    <3>2. Lookup(d.moves, key, <<>>) = Append(Lookup(described.moves, key, <<>>), move)
      BY <1>3, <1>9 DEF Lookup
    <3> QED
      BY <1>5, <2>1, <2>2, <3>1, <3>2
  <2>3. CASE s # from \/ t # trigger
    <3>1. Says(made, s, t) = Says(model, s, t)
      BY <1>2, <2>1, <2>3
    <3>2. Key(model, s, t) # key
      BY <1>2, <1>5, <2>1, <2>3, KeysDiffer
    <3>3. Lookup(d.moves, Key(model, s, t), <<>>) =
            Lookup(described.moves, Key(model, s, t), <<>>)
      BY <1>3, <1>9, <3>2 DEF Lookup
    <3> QED
      BY <2>1, <3>1, <3>3
  <2> QED
    BY <2>2, <2>3
<1>15. Agrees(made, d)
  BY <1>3, <1>11, <1>12, <1>13, <1>14 DEF Agrees
<1> QED
  BY <1>15 DEF made, d, key, move

\* Refused calls describe nothing and leave nothing.
LEMMA SaysStep ==
  BuildInv /\ Agrees(model, described) /\ [Next]_vars
    => Agrees(model, described)'
<1> SUFFICES ASSUME BuildInv, Agrees(model, described), [Next]_vars
             PROVE  Agrees(model', described')
  OBVIOUS
<1>1. CASE Clear
  BY <1>1, EmptyAgrees DEF Clear
<1>2. ASSUME NEW name, AddState(name) PROVE Agrees(model', described')
  <2>1. CASE DeclareState(model, name).status = "Ok"
    BY <1>2, <2>1, StateAgrees DEF AddState, Leaves
  <2>2. CASE DeclareState(model, name).status # "Ok"
    BY <1>2, <2>2 DEF AddState, Leaves, DeclareState, Answers
  <2> QED
    BY <2>1, <2>2
<1>3. ASSUME NEW name, NEW channel, AddTrigger(name, channel) PROVE Agrees(model', described')
  <2>1. CASE DeclareTrigger(model, name, channel).status = "Ok"
    BY <1>3, <2>1, TriggerAgrees DEF AddTrigger, Leaves
  <2>2. CASE DeclareTrigger(model, name, channel).status # "Ok"
    BY <1>3, <2>2 DEF AddTrigger, Leaves, DeclareTrigger, Answers
  <2> QED
    BY <2>1, <2>2
<1>4. ASSUME NEW from, NEW trigger, NEW target, NEW guard \in Guards,
             AddMove(from, trigger, target, guard)
      PROVE  Agrees(model', described')
  <2>1. CASE AddTransition(model, from, trigger, target, guard).status = "Ok"
    BY <1>4, <2>1, TransitionAgrees DEF AddMove, Leaves
  <2>2. CASE AddTransition(model, from, trigger, target, guard).status # "Ok"
    BY <1>4, <2>2, RefusedAddLeavesNothing DEF BuildInv, AddMove, Leaves
  <2> QED
    BY <2>1, <2>2
<1>5. CASE UNCHANGED vars
  BY <1>5 DEF vars
<1> QED
  BY <1>1, <1>2, <1>3, <1>4, <1>5 DEF Next

\* The inductive invariant of what a model says.
LEMMA AgreesHolds == Spec => []Agrees(model, described)
<1>1. Init => Agrees(model, described)
  BY EmptyAgrees DEF Init
<1> QED
  BY <1>1, BuildInvHolds, SaysStep, PTL DEF Spec

\* Whatever is called, accepted or refused: the model says, read back through its
\* ids and slices, what the accepted calls described.
THEOREM SaysDescribed == Spec => []SaysWhatWasDescribed
<1>1. Agrees(model, described) => SaysWhatWasDescribed
  BY DEF Agrees, SaysWhatWasDescribed, Moves, Key
<1> QED
  BY <1>1, AgreesHolds, PTL

-----------------------------------------------------------------------------
(* The pool. *)

Slice(a) == {a.first + i : i \in 1 .. a.count}

\* Each condition in the pool belongs to an alternative.
Covered(m) ==
  \A p \in 1 .. Len(m.conditions) :
    \E s \in DOMAIN m.states : \E t \in DOMAIN m.states[s].transitions :
      \E i \in DOMAIN m.states[s].transitions[t] : p \in Slice(m.states[s].transitions[t][i])

\* What one list covered stays covered when another alternative is appended to it.
LEMMA AppendKeepsSlices ==
  ASSUME NEW list \in Seq(Alternative), NEW new \in Alternative
  PROVE  /\ \A i \in DOMAIN list : i \in DOMAIN Append(list, new) /\ Append(list, new)[i] = list[i]
         /\ Len(list) + 1 \in DOMAIN Append(list, new) /\ Append(list, new)[Len(list) + 1] = new
BY LenProperties, AppendProperties

\* An alternative that is added covers what it adds to the pool.
LEMMA TransitionKeepsCovered ==
  ASSUME BuildInv, Covered(model), NEW from, NEW trigger, NEW target, NEW guard \in Guards,
         AddTransition(model, from, trigger, target, guard).status = "Ok"
  PROVE  Covered(AddTransition(model, from, trigger, target, guard).model)
<1> DEFINE made  == AddTransition(model, from, trigger, target, guard).model
           had   == model.states[from].transitions
           list  == ListedFor(model, from, trigger)
           new   == [first |-> Len(model.conditions), count |-> Len(guard), target |-> target]
           lists == Put(had, trigger, Append(list, new))
           pool  == model.conditions \o guard
<1>1. guard \in Seq(Comparisons)
  BY GuardsAssumption
<1>2. /\ from \in DOMAIN model.states /\ target \in DOMAIN model.states
      /\ Differs(made, model, from, lists, pool)
  BY <1>1, TransitionIs DEF BuildInv
<1>3. /\ model.conditions \in Seq(Comparisons) /\ Len(model.conditions) \in Nat
      /\ Len(guard) \in Nat /\ Len(pool) = Len(model.conditions) + Len(guard)
  BY <1>1, LenProperties, ConcatProperties DEF BuildInv, Built
<1>4. list \in Seq(Alternative)
  BY <1>2, ListedIsSound DEF BuildInv
<1>5. new \in Alternative
  <2>1. target \in Nat
    <3>1. Cardinality(DOMAIN model.states) \in Nat
      BY FS_CardinalityType DEF BuildInv, Built
    <3> QED
      BY <1>2, <3>1 DEF BuildInv, Built, WithinCapacities
  <2> QED
    BY <1>3, <2>1 DEF Alternative
<1>6. /\ \A i \in DOMAIN list : i \in DOMAIN Append(list, new) /\ Append(list, new)[i] = list[i]
      /\ Len(list) + 1 \in DOMAIN Append(list, new) /\ Append(list, new)[Len(list) + 1] = new
  BY <1>4, <1>5, AppendKeepsSlices
<1>7. /\ DOMAIN lists = DOMAIN had \cup {trigger} /\ lists[trigger] = Append(list, new)
      /\ \A t \in DOMAIN had : t # trigger => lists[t] = had[t]
      /\ trigger \in DOMAIN had => list = had[trigger]
  BY DEF Put, ListedFor, Lookup
<1>8. new.first = Len(model.conditions) /\ new.count = Len(guard)
  OBVIOUS
<1> HIDE DEF made, lists, list, new, pool
<1> SUFFICES ASSUME NEW p \in 1 .. Len(made.conditions)
             PROVE  \E s \in DOMAIN made.states : \E t \in DOMAIN made.states[s].transitions :
                      \E i \in DOMAIN made.states[s].transitions[t] :
                        p \in Slice(made.states[s].transitions[t][i])
  BY DEF Covered, made
<1>9. CASE p <= Len(model.conditions)
  <2>1. p \in 1 .. Len(model.conditions)
    BY <1>3, <1>9
  <2>2. PICK s \in DOMAIN model.states : \E t \in DOMAIN model.states[s].transitions :
          \E i \in DOMAIN model.states[s].transitions[t] :
            p \in Slice(model.states[s].transitions[t][i])
    BY <2>1 DEF Covered
  <2>3. CASE s # from
    BY <1>2, <2>2, <2>3 DEF Differs
  <2>4. CASE s = from
    <3>1. PICK t \in DOMAIN had : \E i \in DOMAIN had[t] : p \in Slice(had[t][i])
      BY <2>2, <2>4
    <3>2. \E i \in DOMAIN lists[t] : p \in Slice(lists[t][i])
      BY <1>6, <1>7, <3>1
    <3> QED
      BY <1>2, <1>7, <3>1, <3>2 DEF Differs
  <2> QED
    BY <2>3, <2>4
<1>10. CASE p > Len(model.conditions)
  <2>1. p - Len(model.conditions) \in 1 .. new.count
        /\ p = new.first + (p - Len(model.conditions))
    BY <1>2, <1>3, <1>8, <1>10 DEF Differs
  <2>2. p \in Slice(new)
    BY <2>1 DEF Slice
  <2> QED
    BY <1>2, <1>6, <1>7, <2>2 DEF Differs
<1> QED
  BY <1>3, <1>9, <1>10

\* Calls that declare do not touch the pool, nor any list.
LEMMA DeclarationsKeepCovered ==
  ASSUME BuildInv, Covered(model), NEW name, NEW channel,
         AddState(name) \/ AddTrigger(name, channel)
  PROVE  Covered(model')
<1>1. CASE AddState(name) /\ DeclareState(model, name).status = "Ok"
  <2> DEFINE id  == Cardinality(DOMAIN model.states)
             a   == Put(model.states, id, [name |-> name, transitions |-> EmptyFunction])
             b   == Put(model.stateIndex, name, id)
  <2>1. model' = [model EXCEPT !.states = a, !.stateIndex = b]
    BY <1>1 DEF AddState, Leaves, DeclareState, Answers, WithState
  <2>2. id \notin DOMAIN model.states /\ DOMAIN model = DOMAIN EmptyModel
    BY Grows DEF BuildInv, Built, WithinCapacities
  <2>3. \A s \in DOMAIN model.states : s \in DOMAIN a /\ a[s] = model.states[s]
    BY <2>2 DEF Put
  <2> HIDE DEF a, b
  <2>4. model'.states = a /\ model'.conditions = model.conditions
    BY <2>1, <2>2 DEF EmptyModel
  <2> QED
    BY <2>3, <2>4 DEF Covered
<1>2. CASE AddTrigger(name, channel) /\ DeclareTrigger(model, name, channel).status = "Ok"
  <2>1. model'.states = model.states /\ model'.conditions = model.conditions
    BY <1>2 DEF AddTrigger, Leaves, DeclareTrigger, Answers, WithTrigger, BuildInv, Built, EmptyModel
  <2> QED
    BY <2>1 DEF Covered
<1>3. CASE AddState(name) /\ DeclareState(model, name).status # "Ok"
  BY <1>3 DEF AddState, Leaves, DeclareState, Answers
<1>4. CASE AddTrigger(name, channel) /\ DeclareTrigger(model, name, channel).status # "Ok"
  BY <1>4 DEF AddTrigger, Leaves, DeclareTrigger, Answers
<1> QED
  BY <1>1, <1>2, <1>3, <1>4

\* No call uses conditions up that it does not give to an alternative.
LEMMA CoveredStep == BuildInv /\ Covered(model) /\ [Next]_vars => Covered(model)'
<1> SUFFICES ASSUME BuildInv, Covered(model), [Next]_vars PROVE Covered(model')
  OBVIOUS
<1>1. CASE Clear
  BY <1>1 DEF Clear, Covered, EmptyModel
<1>2. CASE \/ \E name \in NameSet : AddState(name)
           \/ \E name, channel \in NameSet : AddTrigger(name, channel)
  BY <1>2, DeclarationsKeepCovered
<1>3. ASSUME NEW from, NEW trigger, NEW target, NEW guard \in Guards,
             AddMove(from, trigger, target, guard)
      PROVE  Covered(model')
  <2>1. CASE AddTransition(model, from, trigger, target, guard).status = "Ok"
    BY <1>3, <2>1, TransitionKeepsCovered DEF AddMove, Leaves
  <2>2. CASE AddTransition(model, from, trigger, target, guard).status # "Ok"
    BY <1>3, <2>2, RefusedAddLeavesNothing DEF BuildInv, AddMove, Leaves
  <2> QED
    BY <2>1, <2>2
<1>4. CASE UNCHANGED vars
  BY <1>4 DEF vars
<1> QED
  BY <1>1, <1>2, <1>3, <1>4 DEF Next

\* The inductive invariant of the pool.
LEMMA CoveredHolds == Spec => []Covered(model)
<1>1. Init => Covered(model)
  BY DEF Init, Covered, EmptyModel
<1> QED
  BY <1>1, BuildInvHolds, CoveredStep, PTL DEF Spec

\* Whatever is called, accepted or refused: the conditions in the pool are those of
\* the alternatives, no more and no others.
THEOREM NothingUsedUp == Spec => []PoolIsAccountedFor
<1>1. ASSUME BuildInv, NEW s \in DOMAIN model.states,
             NEW t \in DOMAIN model.states[s].transitions,
             NEW i \in DOMAIN model.states[s].transitions[t]
      PROVE  Slice(model.states[s].transitions[t][i]) \subseteq 1 .. Len(model.conditions)
  <2> DEFINE a == model.states[s].transitions[t][i]
  <2>1. AlternativeValid(model, a) /\ Len(model.conditions) \in Nat
    BY <1>1, LenProperties DEF BuildInv, Built, Sound
  <2>2. a.first \in Nat /\ a.count \in Nat
    <3>1. a \in Alternative
      BY <1>1 DEF BuildInv, Built, WithinCapacities, WellTyped
    <3> QED
      BY <3>1 DEF Alternative
  <2> HIDE DEF a
  <2>3. Slice(a) \subseteq 1 .. Len(model.conditions)
    BY <2>1, <2>2 DEF Slice, AlternativeValid
  <2> QED
    BY <2>3 DEF a
<1>2. BuildInv /\ Covered(model) => PoolIsAccountedFor
  BY <1>1 DEF Covered, PoolIsAccountedFor, Slice
<1> QED
  BY <1>2, BuildInvHolds, CoveredHolds, PTL
=============================================================================
