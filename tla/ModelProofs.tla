----------------------------- MODULE ModelProofs -----------------------------
(***************************************************************************)
(* What the build operations of Model keep, for every capacity: whoever    *)
(* builds a model through them has one that is typed, whose tables are     *)
(* within their capacities, whose ids are dense and whose indices are the  *)
(* inverses of its tables.                                                 *)
(***************************************************************************)
EXTENDS Model, FiniteSetTheorems, SequenceTheorems, WellFoundedInduction, TLAPS

-----------------------------------------------------------------------------
(* A set of numbers that has an element and a bound has a least or a       *)
(* greatest one.  The proofs about FirstOf, Max and Min rest on this.      *)

\* Every non-empty set of naturals has a least element.
LEMMA Least ==
  ASSUME NEW S \in SUBSET Nat, S # {}
  PROVE  \E i \in S : \A j \in S : i <= j
<1> DEFINE less == {p \in Nat \X Nat : p[1] < p[2]}
<1>1. IsWellFoundedOn(less, Nat)
  BY NatLessThanWellFounded DEF OpToRel
<1>2. PICK i \in S : \A j \in S : ~(<<j, i>> \in less)
  <2> HIDE DEF less
  <2> QED
    BY <1>1, WFMin
<1>3. ASSUME NEW j \in S PROVE i <= j
  <2>1. <<j, i>> \in Nat \X Nat /\ <<j, i>>[1] = j /\ <<j, i>>[2] = i
    OBVIOUS
  <2>2. ~(j < i)
    BY <1>2, <2>1
  <2> QED
    BY <2>2
<1> QED
  BY <1>3

\* Every non-empty set of integers with a lower bound has a least element.
LEMMA LeastInteger ==
  ASSUME NEW S \in SUBSET Int, S # {}, NEW b \in Int, \A x \in S : b <= x
  PROVE  \E i \in S : \A j \in S : i <= j
<1> DEFINE T == {n \in Nat : b + n \in S}
<1>1. T # {}
  <2>1. PICK x \in S : TRUE
    OBVIOUS
  <2>2. x - b \in Nat /\ b + (x - b) = x
    BY <2>1
  <2> QED
    BY <2>1, <2>2
<1>2. PICK n \in T : \A k \in T : n <= k
  <2> HIDE DEF T
  <2>1. T \in SUBSET Nat
    BY DEF T
  <2> QED
    BY <1>1, <2>1, Least
<1>3. ASSUME NEW j \in S PROVE b + n <= j
  <2>1. j - b \in Nat /\ b + (j - b) = j
    BY <1>3
  <2> QED
    BY <1>2, <2>1
<1> QED
  BY <1>2, <1>3

\* Every non-empty set of integers with an upper bound has a greatest element.
LEMMA GreatestInteger ==
  ASSUME NEW S \in SUBSET Int, S # {}, NEW b \in Int, \A x \in S : x <= b
  PROVE  \E i \in S : \A j \in S : j <= i
<1> DEFINE T == {n \in Nat : b - n \in S}
<1>1. T # {}
  <2>1. PICK x \in S : TRUE
    OBVIOUS
  <2>2. b - x \in Nat /\ b - (b - x) = x
    BY <2>1
  <2> QED
    BY <2>1, <2>2
<1>2. PICK n \in T : \A k \in T : n <= k
  <2> HIDE DEF T
  <2>1. T \in SUBSET Nat
    BY DEF T
  <2> QED
    BY <1>1, <2>1, Least
<1>3. ASSUME NEW j \in S PROVE j <= b - n
  <2>1. b - j \in Nat /\ b - (b - j) = j
    BY <1>3
  <2>2. b - j \in T
    BY <2>1
  <2>3. n <= b - j
    BY <1>2, <2>2
  <2>4. n \in Int /\ j \in Int
    BY <1>2
  <2> QED
    BY <2>3, <2>4
<1>4. b - n \in S
  BY <1>2
<1> QED
  BY <1>3, <1>4

-----------------------------------------------------------------------------
(* The build operations. *)

Index(f) == \A name \in DOMAIN f : f[name] \in Nat

\* A model under construction, its guards made of conditions in C.
Built(m, C) ==
  /\ DOMAIN m = DOMAIN EmptyModel
  /\ IsFiniteSet(DOMAIN m.states) /\ IsFiniteSet(DOMAIN m.triggers)
  /\ Index(m.stateIndex) /\ Index(m.triggerIndex)
  /\ \A s \in DOMAIN m.states :
       /\ DOMAIN m.states[s] = {"name", "transitions"}
       /\ IsFiniteSet(DOMAIN m.states[s].transitions)
  /\ m.conditions \in Seq(C)
  /\ WithinCapacities(m) /\ Indexed(m)

\* Put adds one key, or replaces its value.
LEMMA PutDomain ==
  ASSUME NEW f, NEW key, NEW value
  PROVE  DOMAIN Put(f, key, value) = DOMAIN f \cup {key}
BY DEF Put

\* The key has the value.
LEMMA PutValue ==
  ASSUME NEW f, NEW key, NEW value
  PROVE  Put(f, key, value)[key] = value
BY DEF Put

\* Other keys keep theirs.
LEMMA PutKeeps ==
  ASSUME NEW f, NEW key, NEW value, NEW k \in DOMAIN f, k # key
  PROVE  Put(f, key, value)[k] = f[k]
BY DEF Put

\* An index stays one.
LEMMA PutIndex ==
  ASSUME NEW f, Index(f), NEW key, NEW id \in Nat
  PROVE  Index(Put(f, key, id))
BY DEF Index, Put

\* What the fields of a model are once some of them are changed.
LEMMA TriggerFields ==
  ASSUME NEW m, DOMAIN m = DOMAIN EmptyModel, NEW a, NEW b, NEW c
  PROVE  LET r == [m EXCEPT !.triggers = a, !.triggerIndex = b, !.channelIndex = c] IN
         /\ DOMAIN r = DOMAIN m /\ r.states = m.states /\ r.conditions = m.conditions
         /\ r.stateIndex = m.stateIndex /\ r.triggers = a /\ r.triggerIndex = b
BY DEF EmptyModel

\* The same for a state.
LEMMA StateFields ==
  ASSUME NEW m, DOMAIN m = DOMAIN EmptyModel, NEW a, NEW b
  PROVE  LET r == [m EXCEPT !.states = a, !.stateIndex = b] IN
         /\ DOMAIN r = DOMAIN m /\ r.triggers = m.triggers /\ r.conditions = m.conditions
         /\ r.triggerIndex = m.triggerIndex /\ r.states = a /\ r.stateIndex = b
BY DEF EmptyModel

\* A new key for a new id keeps an index the inverse of its table.
LEMMA BothGrow ==
  ASSUME NEW index, NEW keys, Inverts(index, keys), NEW k, k \notin DOMAIN index,
         NEW id, id \notin DOMAIN keys
  PROVE  Inverts(Put(index, k, id), Put(keys, id, k))
BY DEF Inverts, Put

\* A table that grows by one entry has one name, and one channel, more.
LEMMA KeysGrow ==
  ASSUME NEW table, NEW id, NEW entry
  PROVE  /\ NamesOf(Put(table, id, entry)) = Put(NamesOf(table), id, entry.name)
         /\ ChannelsOf(Put(table, id, entry)) = Put(ChannelsOf(table), id, entry.channel)
BY DEF NamesOf, ChannelsOf, Put

\* Nothing is indexed in an empty model.
LEMMA EmptyIsIndexed == Indexed(EmptyModel)
BY DEF Indexed, Inverts, EmptyModel, EmptyFunction, NamesOf, ChannelsOf

\* Nothing is within every capacity.
LEMMA EmptyIsBuilt == ASSUME NEW C PROVE Built(EmptyModel, C)
<1>1. /\ DOMAIN EmptyModel.states = {} /\ DOMAIN EmptyModel.triggers = {}
      /\ DOMAIN EmptyModel.stateIndex = {} /\ DOMAIN EmptyModel.triggerIndex = {}
      /\ EmptyModel.conditions = <<>>
  BY DEF EmptyModel, EmptyFunction
<1>2. IsFiniteSet({}) /\ Cardinality({}) = 0
  BY FS_EmptySet
<1>3. WithinCapacities(EmptyModel)
  BY <1>1, <1>2, CapacityAssumption DEF WithinCapacities, WellTyped
<1> QED
  BY <1>1, <1>2, <1>3, EmptyIsIndexed DEF Built, Index

\* A dense table stays dense when it grows at its end.
LEMMA Grows ==
  ASSUME NEW S, IsFiniteSet(S), S = 0 .. Cardinality(S) - 1
  PROVE  /\ Cardinality(S) \in Nat /\ Cardinality(S) \notin S
         /\ IsFiniteSet(S \cup {Cardinality(S)})
         /\ Cardinality(S \cup {Cardinality(S)}) = Cardinality(S) + 1
         /\ S \cup {Cardinality(S)} = 0 .. Cardinality(S \cup {Cardinality(S)}) - 1
<1> DEFINE n == Cardinality(S)
<1>1. n \in Nat
  BY FS_CardinalityType
<1> HIDE DEF n
<1>2. S = 0 .. n - 1
  BY DEF n
<1>3. n \notin S
  BY <1>1, <1>2
<1>4. IsFiniteSet(S \cup {n}) /\ Cardinality(S \cup {n}) = n + 1
  BY <1>3, FS_AddElement DEF n
<1>5. S \cup {n} = 0 .. Cardinality(S \cup {n}) - 1
  BY <1>1, <1>2, <1>4
<1> QED
  BY <1>1, <1>3, <1>4, <1>5 DEF n

\* declare_state gives an unknown name the next id.
LEMMA StateKeepsIndexed ==
  ASSUME NEW C, NEW m, Built(m, C), NEW name, DeclareState(m, name).status = "Ok"
  PROVE  Indexed(DeclareState(m, name).model)
<1> DEFINE id    == Cardinality(DOMAIN m.states)
           entry == [name |-> name, transitions |-> EmptyFunction]
           a     == Put(m.states, id, entry)
           b     == Put(m.stateIndex, name, id)
           made  == [m EXCEPT !.states = a, !.stateIndex = b]
<1>1. DeclareState(m, name).model = made /\ name \notin DOMAIN m.stateIndex
  BY DEF DeclareState, DeclareStateStatus, Answers, WithState
<1>2. id \notin DOMAIN NamesOf(m.states) /\ DOMAIN m = DOMAIN EmptyModel
  BY Grows DEF Built, WithinCapacities, NamesOf
<1>3. NamesOf(a) = Put(NamesOf(m.states), id, name)
  BY KeysGrow
<1>4. made.states = a /\ made.stateIndex = b /\ made.triggers = m.triggers
      /\ made.triggerIndex = m.triggerIndex /\ made.channelIndex = m.channelIndex
  <2> HIDE DEF a, b
  <2> QED
    BY <1>2 DEF EmptyModel
<1>5. Inverts(b, NamesOf(a))
  BY <1>1, <1>2, <1>3, BothGrow DEF Built, Indexed
<1> QED
  BY <1>1, <1>4, <1>5 DEF Built, Indexed

\* declare_trigger gives an unknown name, and the channel it listens on, if that
\* is unknown too, the next id.
LEMMA TriggerKeepsIndexed ==
  ASSUME NEW C, NEW m, Built(m, C), NEW name, NEW channel,
         DeclareTrigger(m, name, channel).status = "Ok"
  PROVE  Indexed(DeclareTrigger(m, name, channel).model)
<1> DEFINE id    == Cardinality(DOMAIN m.triggers)
           said  == ChannelOf(name, channel)
           entry == [name |-> name, channel |-> said]
           a     == Put(m.triggers, id, entry)
           b     == Put(m.triggerIndex, name, id)
           c     == Put(m.channelIndex, said, id)
           made  == [m EXCEPT !.triggers = a, !.triggerIndex = b, !.channelIndex = c]
<1>1. /\ DeclareTrigger(m, name, channel).model = made
      /\ name \notin DOMAIN m.triggerIndex /\ said \notin DOMAIN m.channelIndex
  BY DEF DeclareTrigger, DeclareTriggerStatus, Answers, WithTrigger
<1>2. /\ id \notin DOMAIN m.triggers /\ DOMAIN m = DOMAIN EmptyModel
      /\ DOMAIN NamesOf(m.triggers) = DOMAIN m.triggers
      /\ DOMAIN ChannelsOf(m.triggers) = DOMAIN m.triggers
  BY Grows DEF Built, WithinCapacities, NamesOf, ChannelsOf
<1>3. /\ NamesOf(a) = Put(NamesOf(m.triggers), id, name)
      /\ ChannelsOf(a) = Put(ChannelsOf(m.triggers), id, said)
  BY KeysGrow
<1>4. made.triggers = a /\ made.triggerIndex = b /\ made.channelIndex = c
      /\ made.states = m.states /\ made.stateIndex = m.stateIndex
  <2> HIDE DEF a, b, c
  <2> QED
    BY <1>2 DEF EmptyModel
<1>5. Inverts(b, NamesOf(a)) /\ Inverts(c, ChannelsOf(a))
  <2> HIDE DEF id, said
  <2>1. Inverts(b, NamesOf(a))
    BY <1>1, <1>2, <1>3, BothGrow DEF Built, Indexed
  <2>2. Inverts(c, ChannelsOf(a))
    BY <1>1, <1>2, <1>3, BothGrow DEF Built, Indexed
  <2> QED
    BY <2>1, <2>2
<1> QED
  BY <1>1, <1>4, <1>5 DEF Built, Indexed

\* declare_trigger, when it accepts.
LEMMA TriggerDeclared ==
  ASSUME NEW C, NEW m, Built(m, C), NEW name, NEW channel,
         DeclareTrigger(m, name, channel).status = "Ok"
  PROVE  Built(DeclareTrigger(m, name, channel).model, C)
<1> DEFINE said == ChannelOf(name, channel)
           id   == Cardinality(DOMAIN m.triggers)
           made == WithTrigger(m, name, said)
<1>1. DeclareTrigger(m, name, channel).model = made
      /\ DeclareTriggerStatus(m, name, channel) = "Ok"
  BY DEF DeclareTrigger, Answers
<1>2. ~(id >= kMaxTriggers)
  BY <1>1 DEF DeclareTriggerStatus
<1>3. /\ id \in Nat /\ IsFiniteSet(DOMAIN m.triggers \cup {id})
      /\ Cardinality(DOMAIN m.triggers \cup {id}) = id + 1
      /\ DOMAIN m.triggers \cup {id} = 0 .. Cardinality(DOMAIN m.triggers \cup {id}) - 1
  BY Grows DEF Built, WithinCapacities
<1>4. /\ DOMAIN made = DOMAIN m /\ made.states = m.states /\ made.conditions = m.conditions
      /\ made.stateIndex = m.stateIndex
      /\ made.triggerIndex = Put(m.triggerIndex, name, id)
      /\ DOMAIN made.triggers = DOMAIN m.triggers \cup {id}
  <2> DEFINE a == Put(m.triggers, id, [name |-> name, channel |-> said])
             b == Put(m.triggerIndex, name, id)
             c == Put(m.channelIndex, said, id)
  <2>1. made = [m EXCEPT !.triggers = a, !.triggerIndex = b, !.channelIndex = c]
    BY DEF WithTrigger
  <2>2. DOMAIN a = DOMAIN m.triggers \cup {id}
    BY PutDomain
  <2>3. DOMAIN m = DOMAIN EmptyModel
    BY DEF Built
  <2>4. b = Put(m.triggerIndex, name, id)
    OBVIOUS
  <2> HIDE DEF a, b, c, made
  <2>5. /\ DOMAIN made = DOMAIN m /\ made.states = m.states /\ made.conditions = m.conditions
        /\ made.stateIndex = m.stateIndex /\ made.triggers = a /\ made.triggerIndex = b
    BY <2>1, <2>3, TriggerFields
  <2> QED
    BY <2>2, <2>4, <2>5
<1>5. Index(made.triggerIndex)
  BY <1>3, <1>4, PutIndex DEF Built
<1>6. id + 1 <= kMaxTriggers
  BY <1>2, <1>3, CapacityAssumption
<1> HIDE DEF made, id
<1>7. WithinCapacities(made)
  BY <1>3, <1>4, <1>6 DEF WithinCapacities, Built, WellTyped
<1>8. Indexed(made)
  BY <1>1, TriggerKeepsIndexed
<1> QED
  BY <1>1, <1>3, <1>4, <1>5, <1>7, <1>8 DEF Built

\* declare_state, when it accepts.
LEMMA StateDeclared ==
  ASSUME NEW C, NEW m, Built(m, C), NEW name, DeclareState(m, name).status = "Ok"
  PROVE  Built(DeclareState(m, name).model, C)
<1> DEFINE id   == Cardinality(DOMAIN m.states)
           new  == [name |-> name, transitions |-> EmptyFunction]
           made == WithState(m, name)
<1>1. DeclareState(m, name).model = made /\ DeclareStateStatus(m, name) = "Ok"
  BY DEF DeclareState, Answers
<1>2. ~(id >= kMaxStates)
  BY <1>1 DEF DeclareStateStatus
<1>3. /\ id \in Nat /\ id \notin DOMAIN m.states /\ IsFiniteSet(DOMAIN m.states \cup {id})
      /\ Cardinality(DOMAIN m.states \cup {id}) = id + 1
      /\ DOMAIN m.states \cup {id} = 0 .. Cardinality(DOMAIN m.states \cup {id}) - 1
  BY Grows DEF Built, WithinCapacities
<1>4. /\ DOMAIN made = DOMAIN m /\ made.triggers = m.triggers /\ made.conditions = m.conditions
      /\ made.triggerIndex = m.triggerIndex
      /\ made.stateIndex = Put(m.stateIndex, name, id)
      /\ made.states = Put(m.states, id, new)
  <2> DEFINE a == Put(m.states, id, new)
             b == Put(m.stateIndex, name, id)
  <2>1. made = [m EXCEPT !.states = a, !.stateIndex = b]
    BY DEF WithState
  <2>2. a = Put(m.states, id, new) /\ b = Put(m.stateIndex, name, id)
    OBVIOUS
  <2>3. DOMAIN m = DOMAIN EmptyModel
    BY DEF Built
  <2> HIDE DEF a, b, made
  <2>4. /\ DOMAIN made = DOMAIN m /\ made.triggers = m.triggers /\ made.conditions = m.conditions
        /\ made.triggerIndex = m.triggerIndex /\ made.states = a /\ made.stateIndex = b
    BY <2>1, <2>3, StateFields
  <2> QED
    BY <2>2, <2>4
<1>5. Index(made.stateIndex)
  BY <1>3, <1>4, PutIndex DEF Built
<1>6. id + 1 <= kMaxStates
  BY <1>2, <1>3, CapacityAssumption
<1>7. /\ new.transitions = EmptyFunction /\ DOMAIN EmptyFunction = {}
      /\ DOMAIN new = {"name", "transitions"}
      /\ IsFiniteSet({}) /\ Cardinality({}) = 0
  BY FS_EmptySet DEF EmptyFunction
<1> HIDE DEF made, id, new
<1>8. /\ DOMAIN made.states = DOMAIN m.states \cup {id} /\ made.states[id] = new
      /\ \A s \in DOMAIN m.states : made.states[s] = m.states[s]
  <2>1. id \notin DOMAIN m.states /\ made.states = Put(m.states, id, new)
    BY <1>3, <1>4
  <2>2. DOMAIN Put(m.states, id, new) = DOMAIN m.states \cup {id}
    BY PutDomain
  <2>3. Put(m.states, id, new)[id] = new
    BY PutValue
  <2>4. ASSUME NEW s \in DOMAIN m.states
        PROVE  Put(m.states, id, new)[s] = m.states[s]
    BY <2>1, PutKeeps
  <2> QED
    BY <2>1, <2>2, <2>3, <2>4
<1>9. WithinCapacities(made)
  <2>1. /\ WithinCapacities(m)
        /\ DOMAIN made.states = 0 .. Cardinality(DOMAIN made.states) - 1
        /\ Cardinality(DOMAIN made.states) <= kMaxStates
        /\ IsFiniteSet(DOMAIN made.states)
    <3>1. IsFiniteSet(DOMAIN m.states \cup {id})
      BY <1>2, FS_AddElement DEF Built, WithinCapacities
    <3> QED
      BY <3>1, <1>3, <1>6, <1>8 DEF Built
  <2>2. ASSUME NEW s \in DOMAIN made.states
        PROVE  /\ Cardinality(DOMAIN made.states[s].transitions) <= kMaxTransitionsPerState
               /\ \A t \in DOMAIN made.states[s].transitions :
                    /\ made.states[s].transitions[t] \in Seq(Alternative)
                    /\ Len(made.states[s].transitions[t]) \in 1 .. kMaxAlternatives
    <3>1. CASE s = id
      BY <3>1, <1>7, <1>8, CapacityAssumption
    <3>2. CASE s # id
      BY <3>2, <2>1, <1>8 DEF WithinCapacities, WellTyped
    <3> QED
      BY <3>1, <3>2
  <2> QED
    BY <1>4, <2>1, <2>2 DEF WithinCapacities, WellTyped
<1>10. \A s \in DOMAIN made.states :
         /\ DOMAIN made.states[s] = {"name", "transitions"}
         /\ IsFiniteSet(DOMAIN made.states[s].transitions)
  BY <1>7, <1>8 DEF Built
<1>11. Indexed(made)
  BY <1>1, StateKeepsIndexed
<1> QED
  BY <1>1, <1>3, <1>4, <1>5, <1>8, <1>9, <1>10, <1>11 DEF Built

-----------------------------------------------------------------------------
(* add_transition: one state's lists change, and the pool grows. *)

\* r is m but for the lists of one state, and the pool.
Differs(r, m, from, lists, pool) ==
  /\ DOMAIN r = DOMAIN m /\ r.triggers = m.triggers /\ r.conditions = pool
  /\ r.stateIndex = m.stateIndex /\ r.triggerIndex = m.triggerIndex
  /\ r.channelIndex = m.channelIndex
  /\ DOMAIN r.states = DOMAIN m.states
  /\ \A s \in DOMAIN m.states : s # from => r.states[s] = m.states[s]
  /\ DOMAIN r.states[from] = {"name", "transitions"}
  /\ r.states[from].name = m.states[from].name
  /\ r.states[from].transitions = lists

\* What is built stays so when one state is given other lists.
LEMMA OneStateChanges ==
  ASSUME NEW C, NEW m, Built(m, C), NEW from \in DOMAIN m.states,
         NEW r, NEW lists, NEW pool \in Seq(C), Differs(r, m, from, lists, pool),
         IsFiniteSet(DOMAIN lists), Cardinality(DOMAIN lists) <= kMaxTransitionsPerState,
         \A t \in DOMAIN lists :
           lists[t] \in Seq(Alternative) /\ Len(lists[t]) \in 1 .. kMaxAlternatives,
         Len(pool) <= kMaxConditions
  PROVE  Built(r, C)
<1>1. ASSUME NEW s \in DOMAIN r.states
      PROVE  /\ DOMAIN r.states[s] = {"name", "transitions"}
             /\ IsFiniteSet(DOMAIN r.states[s].transitions)
             /\ Cardinality(DOMAIN r.states[s].transitions) <= kMaxTransitionsPerState
             /\ \A t \in DOMAIN r.states[s].transitions :
                  /\ r.states[s].transitions[t] \in Seq(Alternative)
                  /\ Len(r.states[s].transitions[t]) \in 1 .. kMaxAlternatives
  <2>1. CASE s = from
    BY <2>1 DEF Differs
  <2>2. CASE s # from
    BY <2>2 DEF Differs, Built, WithinCapacities, WellTyped
  <2> QED
    BY <2>1, <2>2
<1>2. WithinCapacities(r)
  BY <1>1 DEF Differs, Built, WithinCapacities, WellTyped
<1>3. NamesOf(r.states) = NamesOf(m.states)
  <2>1. ASSUME NEW s \in DOMAIN m.states PROVE r.states[s].name = m.states[s].name
    BY DEF Differs
  <2> QED
    BY <2>1 DEF Differs, NamesOf
<1>4. Indexed(r)
  BY <1>3 DEF Differs, Built, Indexed
<1> QED
  BY <1>1, <1>2, <1>4 DEF Differs, Built

\* Once alternatives_for has answered, the state has a list for the trigger, and
\* room is kept.
LEMMA ListMade ==
  ASSUME NEW C, NEW m, Built(m, C), NEW from \in DOMAIN m.states, NEW trigger,
         RoomFor(m, from, trigger)
  PROVE  LET r     == WithList(m, from, trigger)
             old   == m.states[from].transitions
             lists == r.states[from].transitions IN
         /\ Differs(r, m, from, lists, m.conditions)
         /\ DOMAIN lists = DOMAIN old \cup {trigger}
         /\ \A t \in DOMAIN old : lists[t] = old[t]
         /\ trigger \notin DOMAIN old => lists[trigger] = <<>>
         /\ IsFiniteSet(DOMAIN lists) /\ Cardinality(DOMAIN lists) <= kMaxTransitionsPerState
<1> DEFINE r     == WithList(m, from, trigger)
           old   == m.states[from].transitions
           lists == r.states[from].transitions
<1>1. /\ DOMAIN m = DOMAIN EmptyModel /\ DOMAIN m.states[from] = {"name", "transitions"}
      /\ IsFiniteSet(DOMAIN old) /\ Cardinality(DOMAIN old) <= kMaxTransitionsPerState
      /\ Cardinality(DOMAIN old) \in Nat
  BY FS_CardinalityType DEF Built, WithinCapacities
<1>2. CASE trigger \in DOMAIN old
  <2>1. r = m
    BY <1>2 DEF WithList, Accepts, HasState
  <2> QED
    BY <1>1, <1>2, <2>1 DEF Differs
<1>3. CASE trigger \notin DOMAIN old
  <2> DEFINE new == Put(old, trigger, <<>>)
  <2>1. r = [m EXCEPT !.states[from].transitions = new]
    BY <1>3 DEF WithList, Accepts, HasState
  <2>2. /\ DOMAIN new = DOMAIN old \cup {trigger} /\ new[trigger] = <<>>
        /\ \A t \in DOMAIN old : new[t] = old[t]
    BY <1>3 DEF Put
  <2>3. ~(Cardinality(DOMAIN old) >= kMaxTransitionsPerState)
    BY <1>1, <1>3, CapacityAssumption DEF RoomFor
  <2>4. /\ IsFiniteSet(DOMAIN old \cup {trigger})
        /\ Cardinality(DOMAIN old \cup {trigger}) = Cardinality(DOMAIN old) + 1
    BY <1>1, <1>3, FS_AddElement
  <2> HIDE DEF new, r
  <2>5. Differs(r, m, from, lists, m.conditions) /\ lists = new
    BY <1>1, <2>1 DEF EmptyModel, Differs
  <2>6. Cardinality(DOMAIN old) + 1 <= kMaxTransitionsPerState
    BY <1>1, <2>3, CapacityAssumption
  <2> HIDE DEF lists, old
  <2>7. /\ DOMAIN lists = DOMAIN old \cup {trigger} /\ lists[trigger] = <<>>
        /\ \A t \in DOMAIN old : lists[t] = old[t]
        /\ IsFiniteSet(DOMAIN lists) /\ Cardinality(DOMAIN lists) <= kMaxTransitionsPerState
    BY <2>2, <2>4, <2>5, <2>6
  <2> QED
    BY <2>5, <2>7 DEF r, lists, old
<1> QED
  BY <1>2, <1>3

\* What appending to one list and to the pool changes.
LEMMA Appended ==
  ASSUME NEW m, DOMAIN m = DOMAIN EmptyModel, NEW from \in DOMAIN m.states, NEW trigger,
         DOMAIN m.states[from] = {"name", "transitions"},
         trigger \in DOMAIN m.states[from].transitions, NEW target, NEW conditions
  PROVE  LET old == m.states[from].transitions
             new == [first |-> Len(m.conditions), count |-> Len(conditions), target |-> target] IN
         Differs(WithAlternative(m, from, trigger, target, conditions), m, from,
                 [old EXCEPT ![trigger] = Append(old[trigger], new)], m.conditions \o conditions)
BY DEF WithAlternative, EmptyModel, Differs

\* What a state says for a trigger: nothing at first.
ListedFor(m, from, trigger) == Lookup(m.states[from].transitions, trigger, <<>>)

\* add_transition, when it accepts: one alternative more for one trigger of one
\* state, which exist, and a pool that ends with its guard.
LEMMA TransitionIs ==
  ASSUME NEW C, NEW m, Built(m, C), NEW from, NEW trigger, NEW target,
         NEW conditions \in Seq(C),
         AddTransition(m, from, trigger, target, conditions).status = "Ok"
  PROVE  LET new   == [first |-> Len(m.conditions), count |-> Len(conditions), target |-> target]
             lists == Put(m.states[from].transitions, trigger,
                          Append(ListedFor(m, from, trigger), new)) IN
         /\ from \in DOMAIN m.states /\ target \in DOMAIN m.states
         /\ trigger \in DOMAIN m.triggers
         /\ Len(m.conditions) + Len(conditions) <= kMaxConditions
         /\ Len(ListedFor(m, from, trigger)) < kMaxAlternatives
         /\ IsFiniteSet(DOMAIN lists) /\ Cardinality(DOMAIN lists) <= kMaxTransitionsPerState
         /\ Differs(AddTransition(m, from, trigger, target, conditions).model, m, from,
                    lists, m.conditions \o conditions)
<1> DEFINE listed == WithList(m, from, trigger)
           made   == WithAlternative(listed, from, trigger, target, conditions)
           old    == listed.states[from].transitions
           had    == m.states[from].transitions
           new    == [first |-> Len(m.conditions), count |-> Len(conditions), target |-> target]
           lists  == [old EXCEPT ![trigger] = Append(old[trigger], new)]
           after  == Put(had, trigger, Append(ListedFor(m, from, trigger), new))
<1>1. /\ TransitionStatus(m, from, trigger, target, conditions) = "Ok"
      /\ ~(Len(old[trigger]) >= kMaxAlternatives)
      /\ AddTransition(m, from, trigger, target, conditions).model = made
  BY DEF AddTransition, Answers
<1>2. /\ from \in DOMAIN m.states /\ target \in DOMAIN m.states /\ RoomFor(m, from, trigger)
      /\ trigger \in DOMAIN m.triggers
      /\ ~(Len(m.conditions) + Len(conditions) > kMaxConditions)
  BY <1>1 DEF TransitionStatus, HasState
<1>3. /\ Differs(listed, m, from, old, m.conditions)
      /\ DOMAIN old = DOMAIN had \cup {trigger}
      /\ \A t \in DOMAIN had : old[t] = had[t]
      /\ trigger \notin DOMAIN had => old[trigger] = <<>>
      /\ IsFiniteSet(DOMAIN old) /\ Cardinality(DOMAIN old) <= kMaxTransitionsPerState
  BY <1>2, ListMade
<1>4. old[trigger] = ListedFor(m, from, trigger)
  BY <1>3 DEF ListedFor, Lookup
<1>5. ListedFor(m, from, trigger) \in Seq(Alternative) /\ m.conditions \in Seq(C)
  <2>1. CASE trigger \in DOMAIN had
    BY <1>2, <2>1 DEF ListedFor, Lookup, Built, WithinCapacities, WellTyped
  <2>2. CASE trigger \notin DOMAIN had
    BY <2>2 DEF ListedFor, Lookup, Built
  <2> QED
    BY <2>1, <2>2 DEF Built
<1>6. /\ Len(m.conditions) + Len(conditions) <= kMaxConditions
      /\ Len(ListedFor(m, from, trigger)) < kMaxAlternatives
  <2>1. Len(m.conditions) \in Nat /\ Len(conditions) \in Nat /\ Len(ListedFor(m, from, trigger)) \in Nat
    BY <1>5, LenProperties
  <2> QED
    BY <1>1, <1>2, <1>4, <2>1, CapacityAssumption
<1>7. /\ DOMAIN m = DOMAIN EmptyModel /\ DOMAIN listed = DOMAIN EmptyModel
      /\ from \in DOMAIN listed.states /\ DOMAIN listed.states[from] = {"name", "transitions"}
      /\ listed.conditions = m.conditions /\ trigger \in DOMAIN old
  BY <1>2, <1>3 DEF Differs, Built
<1>8. Differs(made, listed, from, lists, m.conditions \o conditions)
  BY <1>7, Appended
<1> HIDE DEF listed, made, new, had
<1>9. lists = after
  BY <1>3, <1>4 DEF Put
<1> HIDE DEF lists, after, old
<1>10. Differs(made, m, from, after, m.conditions \o conditions)
  BY <1>2, <1>3, <1>8, <1>9 DEF Differs
<1>11. DOMAIN after = DOMAIN old
  BY <1>9 DEF lists
<1> QED
  BY <1>1, <1>2, <1>3, <1>6, <1>10, <1>11 DEF new, had, after

\* add_transition accepts what exists and has room.
LEMMA TransitionFits ==
  ASSUME NEW C, NEW m, Built(m, C), NEW from \in DOMAIN m.states, NEW trigger \in DOMAIN m.triggers,
         NEW target2 \in DOMAIN m.states, NEW conditions,
         ~(Len(m.conditions) + Len(conditions) > kMaxConditions), RoomFor(m, from, trigger),
         ~(Len(ListedFor(m, from, trigger)) >= kMaxAlternatives)
  PROVE  AddTransition(m, from, trigger, target2, conditions).status = "Ok"
<1>1. TransitionStatus(m, from, trigger, target2, conditions) = "Ok"
  BY DEF TransitionStatus, HasState
<1> DEFINE list == WithList(m, from, trigger).states[from].transitions[trigger]
<1>2. list = ListedFor(m, from, trigger)
  <2>1. CASE trigger \in DOMAIN m.states[from].transitions
    BY <2>1 DEF WithList, Accepts, HasState, ListedFor, Lookup
  <2>2. CASE trigger \notin DOMAIN m.states[from].transitions
    BY <2>2, ListMade DEF ListedFor, Lookup
  <2> QED
    BY <2>1, <2>2
<1> HIDE DEF list
<1> QED
  BY <1>1, <1>2 DEF AddTransition, Answers, list

\* So what was built stays within its capacities.
LEMMA TransitionAdded ==
  ASSUME NEW C, NEW m, Built(m, C), NEW from, NEW trigger, NEW target,
         NEW conditions \in Seq(C),
         AddTransition(m, from, trigger, target, conditions).status = "Ok"
  PROVE  Built(AddTransition(m, from, trigger, target, conditions).model, C)
<1> DEFINE made  == AddTransition(m, from, trigger, target, conditions).model
           had   == m.states[from].transitions
           list  == ListedFor(m, from, trigger)
           new   == [first |-> Len(m.conditions), count |-> Len(conditions), target |-> target]
           lists == Put(had, trigger, Append(list, new))
           pool  == m.conditions \o conditions
<1>1. /\ from \in DOMAIN m.states /\ target \in DOMAIN m.states
      /\ Len(m.conditions) + Len(conditions) <= kMaxConditions /\ Len(list) < kMaxAlternatives
      /\ IsFiniteSet(DOMAIN lists) /\ Cardinality(DOMAIN lists) <= kMaxTransitionsPerState
      /\ Differs(made, m, from, lists, pool)
  BY TransitionIs
<1>2. /\ m.conditions \in Seq(C) /\ target \in Nat
      /\ \A t \in DOMAIN had : had[t] \in Seq(Alternative) /\ Len(had[t]) \in 1 .. kMaxAlternatives
  <2>1. Cardinality(DOMAIN m.states) \in Nat /\ DOMAIN m.states = 0 .. Cardinality(DOMAIN m.states) - 1
    BY FS_CardinalityType DEF Built, WithinCapacities
  <2>2. target \in Nat
    BY <1>1, <2>1
  <2> QED
    BY <1>1, <2>2 DEF Built, WithinCapacities, WellTyped
<1>3. new \in Alternative
  BY <1>2 DEF Alternative
<1>4. list \in Seq(Alternative)
  BY <1>2 DEF ListedFor, Lookup
<1> HIDE DEF new, list, had
<1>5. Append(list, new) \in Seq(Alternative) /\ Len(Append(list, new)) \in 1 .. kMaxAlternatives
  BY <1>1, <1>3, <1>4, AppendProperties, CapacityAssumption
<1>6. \A t \in DOMAIN lists : lists[t] \in Seq(Alternative) /\ Len(lists[t]) \in 1 .. kMaxAlternatives
  BY <1>2, <1>5 DEF Put
<1>7. pool \in Seq(C) /\ Len(pool) <= kMaxConditions
  BY <1>1, <1>2, ConcatProperties
<1> HIDE DEF made, lists, pool
<1>8. Built(made, C)
  BY <1>1, <1>6, <1>7, OneStateChanges
<1> QED
  BY <1>8 DEF made

\* A refused call leaves nothing behind, not even the empty list that
\* alternatives_for makes before it is known whether the alternative fits.
LEMMA RefusedAddLeavesNothing ==
  ASSUME NEW C, NEW m, Built(m, C), NEW from, NEW trigger, NEW target, NEW conditions,
         AddTransition(m, from, trigger, target, conditions).status # "Ok"
  PROVE  AddTransition(m, from, trigger, target, conditions).model = m
<1> DEFINE listed == WithList(m, from, trigger)
           list   == listed.states[from].transitions[trigger]
<1>1. CASE TransitionStatus(m, from, trigger, target, conditions) # "Ok"
  BY <1>1 DEF AddTransition, Answers
<1>2. CASE TransitionStatus(m, from, trigger, target, conditions) = "Ok"
  <2>1. /\ Len(list) >= kMaxAlternatives
        /\ AddTransition(m, from, trigger, target, conditions).model = listed
    BY <1>2 DEF AddTransition, Answers
  <2>2. from \in DOMAIN m.states /\ RoomFor(m, from, trigger)
    BY <1>2 DEF TransitionStatus, HasState
  <2>3. trigger \notin DOMAIN m.states[from].transitions => list = <<>>
    BY <2>2, ListMade
  <2> HIDE DEF list
  <2>4. trigger \in DOMAIN m.states[from].transitions
    <3> SUFFICES ASSUME trigger \notin DOMAIN m.states[from].transitions PROVE FALSE
      OBVIOUS
    <3>1. Len(list) = 0
      BY <2>3
    <3> QED
      BY <2>1, <3>1, CapacityAssumption
  <2>5. listed = m
    BY <2>2, <2>4 DEF WithList, Accepts, HasState
  <2> QED
    BY <2>1, <2>5
<1> QED
  BY <1>1, <1>2

-----------------------------------------------------------------------------
(* What validate() asks of each alternative, and the room for its guard. *)

Sound(m, most) ==
  \A s \in DOMAIN m.states : \A t \in DOMAIN m.states[s].transitions :
    /\ t \in DOMAIN m.triggers
    /\ \A i \in DOMAIN m.states[s].transitions[t] :
         /\ AlternativeValid(m, m.states[s].transitions[t][i])
         /\ m.states[s].transitions[t][i].count <= most

\* A model with a state that was built has nothing for validate() to refuse.
LEMMA SoundIsValid ==
  ASSUME NEW C, NEW most, NEW m, Built(m, C), Sound(m, most), DOMAIN m.states # {}
  PROVE  Validate(m) = "Ok"
<1>1. ASSUME NEW s \in DOMAIN m.states, NEW t \in DOMAIN m.states[s].transitions
      PROVE  m.states[s].transitions[t] # <<>>
  <2>1. Len(m.states[s].transitions[t]) \in 1 .. kMaxAlternatives
    BY DEF Built, WithinCapacities
  <2> QED
    BY <2>1
<1> QED
  BY <1>1 DEF Validate, Sound

\* Nothing is sound.
LEMMA EmptyIsSound == ASSUME NEW most PROVE Sound(EmptyModel, most)
BY DEF Sound, EmptyModel, EmptyFunction

\* More triggers take nothing away.
LEMMA TriggerKeepsSound ==
  ASSUME NEW C, NEW most, NEW m, Built(m, C), Sound(m, most), NEW name, NEW channel,
         DeclareTrigger(m, name, channel).status = "Ok"
  PROVE  Sound(DeclareTrigger(m, name, channel).model, most)
<1> DEFINE said == ChannelOf(name, channel)
           id   == Cardinality(DOMAIN m.triggers)
           a    == Put(m.triggers, id, [name |-> name, channel |-> said])
           b    == Put(m.triggerIndex, name, id)
           c    == Put(m.channelIndex, said, id)
           made == DeclareTrigger(m, name, channel).model
<1>1. made = [m EXCEPT !.triggers = a, !.triggerIndex = b, !.channelIndex = c]
  BY DEF DeclareTrigger, Answers, WithTrigger
<1>2. DOMAIN a = DOMAIN m.triggers \cup {id}
  BY PutDomain
<1>3. DOMAIN m = DOMAIN EmptyModel
  BY DEF Built
<1> HIDE DEF a, b, c, made
<1>4. made.states = m.states /\ made.conditions = m.conditions /\ made.triggers = a
  BY <1>1, <1>3, TriggerFields
<1> QED
  BY <1>2, <1>4 DEF Sound, AlternativeValid, HasState, made

\* A new state leads nowhere.
LEMMA StateKeepsSound ==
  ASSUME NEW C, NEW most, NEW m, Built(m, C), Sound(m, most), NEW name,
         DeclareState(m, name).status = "Ok"
  PROVE  Sound(DeclareState(m, name).model, most)
<1> DEFINE id   == Cardinality(DOMAIN m.states)
           new  == [name |-> name, transitions |-> EmptyFunction]
           a    == Put(m.states, id, new)
           b    == Put(m.stateIndex, name, id)
           made == DeclareState(m, name).model
<1>1. made = [m EXCEPT !.states = a, !.stateIndex = b]
  BY DEF DeclareState, Answers, WithState
<1>2. /\ DOMAIN a = DOMAIN m.states \cup {id} /\ a[id] = new
      /\ \A s \in DOMAIN m.states : s # id => a[s] = m.states[s]
  BY DEF Put
<1>3. DOMAIN m = DOMAIN EmptyModel
  BY DEF Built
<1>4. DOMAIN new.transitions = {}
  BY DEF EmptyFunction
<1> HIDE DEF a, b, made, new, id
<1>5. made.triggers = m.triggers /\ made.conditions = m.conditions /\ made.states = a
  BY <1>1, <1>3, StateFields
<1> SUFFICES ASSUME NEW s \in DOMAIN made.states, NEW t \in DOMAIN made.states[s].transitions
             PROVE  /\ t \in DOMAIN made.triggers
                    /\ \A i \in DOMAIN made.states[s].transitions[t] :
                         /\ AlternativeValid(made, made.states[s].transitions[t][i])
                         /\ made.states[s].transitions[t][i].count <= most
  BY DEF Sound, made
<1>6. s # id
  BY <1>2, <1>4, <1>5
<1>7. s \in DOMAIN m.states /\ made.states[s] = m.states[s]
  BY <1>2, <1>5, <1>6
<1> QED
  BY <1>2, <1>5, <1>7 DEF Sound, AlternativeValid, HasState

\* A guard that is added lies at the end of the pool; those before stay where
\* they are.
LEMMA TransitionKeepsSound ==
  ASSUME NEW C, NEW most, NEW m, Built(m, C), Sound(m, most), NEW from, NEW trigger, NEW target,
         NEW conditions \in Seq(C), Len(conditions) <= most,
         AddTransition(m, from, trigger, target, conditions).status = "Ok"
  PROVE  Sound(AddTransition(m, from, trigger, target, conditions).model, most)
<1> DEFINE made  == AddTransition(m, from, trigger, target, conditions).model
           had   == m.states[from].transitions
           list  == ListedFor(m, from, trigger)
           new   == [first |-> Len(m.conditions), count |-> Len(conditions), target |-> target]
           lists == Put(had, trigger, Append(list, new))
           pool  == m.conditions \o conditions
           Fine(a) == AlternativeValid(made, a) /\ a.count <= most
<1>1. /\ from \in DOMAIN m.states /\ target \in DOMAIN m.states /\ trigger \in DOMAIN m.triggers
      /\ Differs(made, m, from, lists, pool)
  BY TransitionIs
<1>2. /\ m.conditions \in Seq(C) /\ Len(m.conditions) \in Nat /\ Len(conditions) \in Nat
      /\ Len(pool) = Len(m.conditions) + Len(conditions)
  BY LenProperties, ConcatProperties DEF Built
<1> HIDE DEF made, pool
<1>3. Fine(new)
  BY <1>1, <1>2 DEF AlternativeValid, HasState, Differs
<1>4. ASSUME NEW s \in DOMAIN m.states, NEW t \in DOMAIN m.states[s].transitions,
             NEW i \in DOMAIN m.states[s].transitions[t]
      PROVE  t \in DOMAIN m.triggers /\ Fine(m.states[s].transitions[t][i])
  <2> DEFINE a == m.states[s].transitions[t][i]
  <2>1. t \in DOMAIN m.triggers /\ AlternativeValid(m, a) /\ a.count <= most
    BY DEF Sound
  <2>2. m.states[s].transitions[t] \in Seq(Alternative)
    BY DEF Built, WithinCapacities, WellTyped
  <2>3. a.first \in Nat /\ a.count \in Nat
    <3>1. a \in Alternative
      BY <2>2
    <3> HIDE DEF a
    <3> QED
      BY <3>1 DEF Alternative
  <2> HIDE DEF a
  <2>4. AlternativeValid(made, a)
    BY <1>1, <1>2, <2>1, <2>3 DEF AlternativeValid, HasState, Differs
  <2> QED
    BY <2>1, <2>4 DEF a
<1>5. list \in Seq(Alternative) /\ \A i \in DOMAIN list : Fine(list[i])
  <2>1. CASE trigger \in DOMAIN had
    <3>1. list = had[trigger]
      BY <2>1 DEF ListedFor, Lookup
    <3>2. had[trigger] \in Seq(Alternative)
      BY <1>1, <2>1 DEF Built, WithinCapacities, WellTyped
    <3> QED
      BY <1>1, <1>4, <2>1, <3>1, <3>2
  <2>2. CASE trigger \notin DOMAIN had
    <3>1. list = <<>>
      BY <2>2 DEF ListedFor, Lookup
    <3> QED
      BY <3>1
  <2> QED
    BY <2>1, <2>2
<1> HIDE DEF Fine, list, new
<1>6. ASSUME NEW i \in DOMAIN Append(list, new) PROVE Fine(Append(list, new)[i])
  <2>1. /\ DOMAIN list = 1 .. Len(list) /\ Len(list) \in Nat
        /\ DOMAIN Append(list, new) = 1 .. Len(list) + 1
        /\ Append(list, new)[Len(list) + 1] = new
        /\ \A j \in 1 .. Len(list) : Append(list, new)[j] = list[j]
    BY <1>5, AppendProperties, LenProperties
  <2>2. CASE i = Len(list) + 1
    BY <1>3, <2>1, <2>2
  <2>3. CASE i # Len(list) + 1
    <3>1. i \in 1 .. Len(list)
      BY <2>1, <2>3
    <3> QED
      BY <1>5, <2>1, <3>1
  <2> QED
    BY <2>2, <2>3
<1>7. ASSUME NEW t \in DOMAIN lists
      PROVE  t \in DOMAIN m.triggers /\ \A i \in DOMAIN lists[t] : Fine(lists[t][i])
  <2>1. CASE t = trigger
    BY <1>1, <1>6, <2>1 DEF Put
  <2>2. CASE t # trigger
    <3>1. t \in DOMAIN had /\ lists[t] = had[t]
      BY <2>2 DEF Put
    <3>2. t \in DOMAIN m.triggers
      BY <1>1, <3>1 DEF Sound
    <3> QED
      BY <1>1, <1>4, <3>1, <3>2
  <2> QED
    BY <2>1, <2>2
<1> HIDE DEF lists, had
<1>8. ASSUME NEW s \in DOMAIN made.states, NEW t \in DOMAIN made.states[s].transitions
      PROVE  /\ t \in DOMAIN made.triggers
             /\ \A i \in DOMAIN made.states[s].transitions[t] :
                  Fine(made.states[s].transitions[t][i])
  <2>1. CASE s = from
    BY <1>1, <1>7, <2>1 DEF Differs
  <2>2. CASE s # from
    <3>1. s \in DOMAIN m.states /\ made.states[s] = m.states[s] /\ made.triggers = m.triggers
      BY <1>1, <2>2 DEF Differs
    <3>2. t \in DOMAIN m.triggers
      BY <3>1 DEF Sound
    <3> QED
      BY <1>4, <3>1, <3>2
  <2> QED
    BY <2>1, <2>2
<1> QED
  BY <1>8 DEF Sound, Fine, made

-----------------------------------------------------------------------------
(* What the model says, read back through ids and slices. *)

\* made has all that m has: what alternatives of m refer to.
Extends(made, m) ==
  /\ \A s \in DOMAIN m.states : s \in DOMAIN made.states /\ made.states[s].name = m.states[s].name
  /\ \A i \in 1 .. Len(m.conditions) : made.conditions[i] = m.conditions[i]

Written(m, a) == [target |-> StateName(m, a.target), guard |-> GuardOf(m, a)]

\* An alternative that is valid says the same when more is built.
LEMMA WrittenStays ==
  ASSUME NEW m, NEW made, Extends(made, m), NEW a \in Alternative, AlternativeValid(m, a)
  PROVE  Written(made, a) = Written(m, a)
<1>1. StateName(made, a.target) = StateName(m, a.target)
  BY DEF Extends, AlternativeValid, HasState, StateName
<1>2. GuardOf(made, a) = GuardOf(m, a)
  <2>1. a.first \in Nat /\ a.count \in Nat /\ a.first + a.count <= Len(m.conditions)
    BY DEF Alternative, AlternativeValid
  <2>2. ASSUME NEW i \in 1 .. a.count
        PROVE  made.conditions[a.first + i] = m.conditions[a.first + i]
    <3>1. a.first + i \in 1 .. Len(m.conditions)
      BY <2>1
    <3> QED
      BY <3>1 DEF Extends
  <2> QED
    BY <2>2 DEF GuardOf
<1> QED
  BY <1>1, <1>2 DEF Written

\* What is listed for a trigger: typed and valid.
LEMMA ListedIsSound ==
  ASSUME NEW C, NEW most, NEW m, Built(m, C), Sound(m, most), NEW s \in DOMAIN m.states, NEW t
  PROVE  /\ ListedFor(m, s, t) \in Seq(Alternative)
         /\ \A i \in DOMAIN ListedFor(m, s, t) : AlternativeValid(m, ListedFor(m, s, t)[i])
<1>1. CASE t \in DOMAIN m.states[s].transitions
  BY <1>1 DEF ListedFor, Lookup, Built, WithinCapacities, WellTyped, Sound
<1>2. CASE t \notin DOMAIN m.states[s].transitions
  <2>1. ListedFor(m, s, t) = <<>>
    BY <1>2 DEF ListedFor, Lookup
  <2> QED
    BY <2>1
<1> QED
  BY <1>1, <1>2

\* So a state says the same for a trigger it has the same list for.
LEMMA SaysStays ==
  ASSUME NEW C, NEW most, NEW m, Built(m, C), Sound(m, most), NEW made, Extends(made, m),
         NEW s \in DOMAIN m.states, NEW t, ListedFor(made, s, t) = ListedFor(m, s, t)
  PROVE  Says(made, s, t) = Says(m, s, t)
<1> DEFINE list == ListedFor(m, s, t)
<1>1. list \in Seq(Alternative) /\ \A i \in DOMAIN list : AlternativeValid(m, list[i])
  BY ListedIsSound
<1>2. /\ Says(m, s, t) = [i \in DOMAIN list |-> Written(m, list[i])]
      /\ Says(made, s, t) = [i \in DOMAIN list |-> Written(made, list[i])]
  BY DEF Says, Written, ListedFor
<1> HIDE DEF list
<1>3. \A i \in DOMAIN list : Written(made, list[i]) = Written(m, list[i])
  BY <1>1, WrittenStays
<1> QED
  BY <1>2, <1>3

\* What is appended to a list is said after what was said.
LEMMA SaysGrows ==
  ASSUME NEW C, NEW most, NEW m, Built(m, C), Sound(m, most), NEW made, Extends(made, m),
         NEW s \in DOMAIN m.states, NEW t, NEW a,
         ListedFor(made, s, t) = Append(ListedFor(m, s, t), a)
  PROVE  Says(made, s, t) = Append(Says(m, s, t), Written(made, a))
<1> DEFINE list == ListedFor(m, s, t)
           said == Says(m, s, t)
<1>1. list \in Seq(Alternative) /\ \A i \in DOMAIN list : AlternativeValid(m, list[i])
  BY ListedIsSound
<1>2. /\ said = [i \in DOMAIN list |-> Written(m, list[i])]
      /\ Says(made, s, t) = [i \in DOMAIN Append(list, a) |-> Written(made, Append(list, a)[i])]
  BY DEF Says, Written, ListedFor
<1> HIDE DEF list, said
<1>3. \A i \in DOMAIN list : Written(made, list[i]) = Written(m, list[i])
  BY <1>1, WrittenStays
<1>4. /\ DOMAIN list = 1 .. Len(list) /\ Len(list) \in Nat
      /\ DOMAIN Append(list, a) = 1 .. Len(list) + 1
      /\ Append(list, a)[Len(list) + 1] = a
      /\ \A i \in 1 .. Len(list) : Append(list, a)[i] = list[i]
  BY <1>1 
<1> DEFINE x     == Written(made, a)
           after == Says(made, s, t)
           W     == {said[i] : i \in 1 .. Len(list)} \cup {x}
<1>5. said \in Seq(W) /\ Len(said) = Len(list)
  <2>1. said \in [1 .. Len(list) -> W]
    BY <1>2, <1>4
  <2> HIDE DEF W
  <2> QED
    BY <1>4, <2>1
<1>6. \A i \in 1 .. Len(list) + 1 : after[i] = IF i = Len(list) + 1 THEN x ELSE said[i]
  <2> TAKE i \in 1 .. Len(list) + 1
  <2>1. CASE i = Len(list) + 1
    BY <1>2, <1>4, <2>1
  <2>2. CASE i # Len(list) + 1
    <3>1. i \in 1 .. Len(list)
      BY <1>4, <2>2
    <3> QED
      BY <1>2, <1>3, <1>4, <2>2, <3>1
  <2> QED
    BY <2>1, <2>2
<1>7. after \in Seq(W) /\ Len(after) = Len(list) + 1
  <2>1. \A i \in 1 .. Len(list) + 1 : after[i] \in W
    <3> TAKE i \in 1 .. Len(list) + 1
    <3>1. CASE i = Len(list) + 1
      BY <1>6, <3>1
    <3>2. CASE i # Len(list) + 1
      <4>1. i \in 1 .. Len(list)
        BY <1>4, <3>2
      <4> QED
        BY <1>6, <3>2, <4>1
    <3> QED
      BY <3>1, <3>2
  <2>2. after \in [1 .. Len(list) + 1 -> W]
    BY <1>2, <1>4, <2>1
  <2> HIDE DEF W, after
  <2> QED
    BY <1>4, <2>2
<1> HIDE DEF W, x, after
<1>8. /\ Append(said, x) \in Seq(W) /\ Len(Append(said, x)) = Len(list) + 1
      /\ \A i \in 1 .. Len(list) + 1 :
           Append(said, x)[i] = IF i = Len(list) + 1 THEN x ELSE said[i]
  <2>1. x \in W
    BY DEF W
  <2>2. /\ Append(said, x) \in Seq(W) /\ Len(Append(said, x)) = Len(said) + 1
        /\ \A i \in 1 .. Len(said) : Append(said, x)[i] = said[i]
        /\ Append(said, x)[Len(said) + 1] = x
    BY <1>5, <2>1, AppendProperties
  <2>3. ASSUME NEW i \in 1 .. Len(list) + 1, i # Len(list) + 1 PROVE i \in 1 .. Len(list)
    BY <1>4, <2>3
  <2> QED
    BY <1>5, <2>2, <2>3
<1>9. after = Append(said, x)
  BY <1>6, <1>7, <1>8, SeqEqual
<1> QED
  BY <1>9 DEF x, after, said

\* made says one alternative more than m, after what m said, and its pool ends with
\* the guard; everything else is as it was.
SaysMore(made, m, from, trigger, target, conditions) ==
  /\ made.triggers = m.triggers /\ made.triggerIndex = m.triggerIndex
  /\ made.stateIndex = m.stateIndex /\ made.conditions = m.conditions \o conditions
  /\ DOMAIN made.states = DOMAIN m.states
  /\ \A s \in DOMAIN m.states :
       /\ made.states[s].name = m.states[s].name
       /\ DOMAIN made.states[s].transitions =
            DOMAIN m.states[s].transitions \cup (IF s = from THEN {trigger} ELSE {})
  /\ Says(made, from, trigger)
       = Append(Says(m, from, trigger), [target |-> StateName(m, target), guard |-> conditions])
  /\ \A s \in DOMAIN m.states, t \in DOMAIN m.triggers :
       s # from \/ t # trigger => Says(made, s, t) = Says(m, s, t)

\* That is what an accepted transition does.
LEMMA TransitionSays ==
  ASSUME NEW C, NEW most, NEW m, Built(m, C), Sound(m, most), NEW from, NEW trigger, NEW target,
         NEW conditions \in Seq(C),
         AddTransition(m, from, trigger, target, conditions).status = "Ok"
  PROVE  /\ from \in DOMAIN m.states /\ target \in DOMAIN m.states
         /\ trigger \in DOMAIN m.triggers
         /\ SaysMore(AddTransition(m, from, trigger, target, conditions).model,
                     m, from, trigger, target, conditions)
<1> DEFINE made  == AddTransition(m, from, trigger, target, conditions).model
           had   == m.states[from].transitions
           list  == ListedFor(m, from, trigger)
           new   == [first |-> Len(m.conditions), count |-> Len(conditions), target |-> target]
           lists == Put(had, trigger, Append(list, new))
           pool  == m.conditions \o conditions
           said  == [target |-> StateName(m, target), guard |-> conditions]
<1>1. /\ from \in DOMAIN m.states /\ target \in DOMAIN m.states
      /\ trigger \in DOMAIN m.triggers
      /\ Differs(made, m, from, lists, pool)
  BY TransitionIs
<1>2. /\ m.conditions \in Seq(C) /\ Len(m.conditions) \in Nat
      /\ Len(conditions) \in Nat /\ conditions = [i \in 1 .. Len(conditions) |-> conditions[i]]
      /\ \A i \in 1 .. Len(m.conditions) + Len(conditions) :
           pool[i] = IF i <= Len(m.conditions) THEN m.conditions[i]
                     ELSE conditions[i - Len(m.conditions)]
  BY LenProperties, ConcatProperties DEF Built
<1> HIDE DEF made, pool
<1>3. Extends(made, m)
  <2>1. ASSUME NEW i \in 1 .. Len(m.conditions) PROVE made.conditions[i] = m.conditions[i]
    BY <1>1, <1>2 DEF Differs
  <2>2. ASSUME NEW s \in DOMAIN m.states
        PROVE  s \in DOMAIN made.states /\ made.states[s].name = m.states[s].name
    BY <1>1 DEF Differs
  <2> QED
    BY <2>1, <2>2 DEF Extends
<1>4. Written(made, new) = said
  <2>1. StateName(made, target) = StateName(m, target)
    BY <1>1, <1>3 DEF Extends, StateName, HasState
  <2>2. \A i \in 1 .. Len(conditions) : made.conditions[Len(m.conditions) + i] = conditions[i]
    BY <1>1, <1>2 DEF Differs
  <2>3. GuardOf(made, new) = conditions
    BY <1>2, <2>2 DEF GuardOf
  <2> QED
    BY <2>1, <2>3 DEF Written
<1>5. /\ ListedFor(made, from, trigger) = Append(list, new)
      /\ \A s \in DOMAIN m.states, t \in DOMAIN m.triggers :
           s # from \/ t # trigger => ListedFor(made, s, t) = ListedFor(m, s, t)
  <2>1. ListedFor(made, from, trigger) = Append(list, new)
    BY <1>1 DEF Differs, ListedFor, Lookup, Put
  <2>2. ASSUME NEW s \in DOMAIN m.states, NEW t, s # from
        PROVE  ListedFor(made, s, t) = ListedFor(m, s, t)
    BY <1>1, <2>2 DEF Differs, ListedFor
  <2>3. ASSUME NEW t, t # trigger PROVE ListedFor(made, from, t) = ListedFor(m, from, t)
    BY <1>1, <2>3 DEF Differs, ListedFor, Lookup, Put
  <2> QED
    BY <2>1, <2>2, <2>3
<1>6. \A s \in DOMAIN m.states :
        DOMAIN made.states[s].transitions =
          DOMAIN m.states[s].transitions \cup (IF s = from THEN {trigger} ELSE {})
  BY <1>1 DEF Differs, Put
<1> HIDE DEF list, new, lists, said
<1>7. Says(made, from, trigger) = Append(Says(m, from, trigger), said)
  BY <1>1, <1>3, <1>4, <1>5, SaysGrows DEF list
<1>8. \A s \in DOMAIN m.states, t \in DOMAIN m.triggers :
        s # from \/ t # trigger => Says(made, s, t) = Says(m, s, t)
  BY <1>3, <1>5, SaysStays
<1>9. /\ made.triggers = m.triggers /\ made.triggerIndex = m.triggerIndex
      /\ made.stateIndex = m.stateIndex /\ made.conditions = pool
      /\ DOMAIN made.states = DOMAIN m.states
      /\ \A s \in DOMAIN m.states : made.states[s].name = m.states[s].name
  BY <1>1, <1>3 DEF Differs, Extends
<1> QED
  BY <1>1, <1>6, <1>7, <1>8, <1>9 DEF made, said, pool, SaysMore
=============================================================================
