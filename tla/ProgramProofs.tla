---------------------------- MODULE ProgramProofs ----------------------------
(***************************************************************************)
(* What holds of the program for every command line, every pair of files   *)
(* and every stream of lines.  Its steps are steps of Runtime, so all that *)
(* RuntimeSessions proves of the runtime is there to build on.             *)
(***************************************************************************)
EXTENDS ProgramProperties, RuntimeSessions

-----------------------------------------------------------------------------
(* The program is one application of Runtime. *)

\* What is read of a stream and is an input is one that may arrive.
LEMMA UpcomingInput ==
  ASSUME NEW line \in Upcoming, line.kind = "input"
  PROVE  /\ ~console.eof /\ ~console.broken
         /\ \E input \in Inputs : line = [kind |-> "input", input |-> <<input>>]
<1>1. ~console.eof /\ ~console.broken
  BY DEF Upcoming, Line
<1>2. line \in Lines
  BY <1>1, StreamAssumption DEF Upcoming, Line
<1> QED
  BY <1>1, <1>2 DEF Lines, Line

\* What a file holds is what such a file may hold.
LEMMA HoldingIsLoaded ==
  ASSUME NEW path
  PROVE  Holding(path, "setup") \subseteq LoadedSetups /\ Holding(path, "machine") \subseteq LoadedModels
BY DiskAssumption DEF Holding

\* Every step of the program is one of the runtime and its application, or none.
LEMMA StepIsRuntimes == ProgramNext => [Next]_vars
<1> SUFFICES ASSUME ProgramNext PROVE [Next]_vars
  OBVIOUS
<1>1. CASE ReadWord \/ EndOfWords \/ Export \/ Check \/ Started \/ Served \/ Summary \/ Recover
  BY <1>1 DEF ReadWord, EndOfWords, Export, Check, Started, Served, Summary, Recover, runtimeVars
<1>2. CASE ReadSetup
  BY <1>2, HoldingIsLoaded DEF ReadSetup, runtimeVars, Next, ApplicationStep
<1>3. CASE ReadMachine
  BY <1>3, HoldingIsLoaded DEF ReadMachine, runtimeVars, Next, ApplicationStep
<1>4. CASE Bind
  BY <1>4 DEF Bind, Next, ApplicationStep
<1>5. CASE SetUpRuntime \/ StartRuntime \/ CallService \/ StopRuntime
  BY <1>5 DEF SetUpRuntime, StartRuntime, CallService, StopRuntime, Next, ApplicationStep
<1>6. CASE StepRuntime
  BY <1>6 DEF StepRuntime, Next
<1>7. CASE GetLine
  <2>1. PICK line \in Upcoming, last \in BOOLEAN :
          IF EndsSession(line, last) THEN EndInput
          ELSE IF line.kind = "input" THEN Deliver(line.input[1])
          ELSE UNCHANGED runtimeVars
    BY <1>7 DEF GetLine
  <2>2. line.kind = "input" => line.input[1] \in Inputs
    BY UpcomingInput
  <2> QED
    BY <2>1, <2>2 DEF Next, WorldStep, runtimeVars
<1> QED
  BY <1>1, <1>2, <1>3, <1>4, <1>5, <1>6, <1>7 DEF ProgramNext, MainStep

\* So what is proved of the runtime holds of it in this program.
THEOREM RunsTheRuntime == ProgramSpec => Spec
<1>1. ProgramInit => Init
  BY DEF ProgramInit
<1>2. [ProgramNext]_programVars => [Next]_vars
  BY StepIsRuntimes DEF programVars
<1> QED
  BY <1>1, <1>2, PTL DEF ProgramSpec, Spec

-----------------------------------------------------------------------------
(* What is proved of the runtime, as this program uses it. *)

\* It loads nothing twice and binds nothing again, and sets no hook that calls in.
LEMMA Behaved ==
  /\ "reload" \notin Conduct /\ "rebind" \notin Conduct /\ "direct" \notin Conduct
  /\ "hook" \notin Conduct /\ "fault" \notin Conduct /\ Names = {} /\ Behaves
  /\ PortAnswers = {"Ok"}
BY MainAssumption DEF Behaves, PortAnswers

Known ==
  /\ TypeOK /\ Bindings /\ Accounts /\ SilenceMeansMismatch /\ Paired /\ Fixed
  /\ Shown /\ StatesAccounted /\ Undisturbed

LEMMA KnownHolds == ProgramSpec => []Known
<1> DEFINE Base  == TypeOK /\ Bindings /\ SilenceMeansMismatch /\ Paired /\ Fixed
           Told  == Shown /\ StatesAccounted /\ Undisturbed
<1>1. Init => Told
  BY DEF Init, Shown, Saying, StatesAccounted, Publishing, At, NoCall, NewMachine, NewHistory,
     Undisturbed
<1>2. Base /\ Base' /\ Told /\ [Next]_vars => Told'
  BY Behaved, StepShown, StepStates, StepUndisturbed
<1>3. Spec => []Base
  BY Behaved, FixedHolds
<1>4. Base /\ Told /\ Accounts => Known
  BY DEF Known
<1> HIDE DEF Base, Told
<1> QED
  BY <1>1, <1>2, <1>3, <1>4, AccountsHold, RunsTheRuntime, PTL DEF Spec

\* The two files that are bound fit together, and the machine's initial state is
\* the one they name.
BoundFit ==
  machine.model # Null =>
    /\ machine.setup # Null
    /\ ValidateAgainst(setups[machine.setup], Bound) = "Ok"
    /\ machine.initial = InitialIn(setups[machine.setup], Bound)

\* A setup changes when it is loaded.
LEMMA WhoLoadsSetups ==
  ASSUME [Next]_vars
  PROVE  setups' = setups \/ \E s \in Object, setup \in LoadedSetups : LoadSetup(s, setup)
<1>1. CASE EnterInitial \/ StartMachine \/ Binds
  BY <1>1 DEF EnterInitial, StartMachine, Binds, InitMachine, MachineStart, MachineInit
<1>2. CASE Dispatch \/ \E trigger \in 0 .. kMaxTriggers - 1, text \in Texts :
                         FireMachine(trigger, text.args)
  BY <1>2, FireCases DEF Dispatch, FireMachine
<1>3. CASE \/ Configure \/ Open \/ Listen \/ ReceiveNothing \/ ReceiveUnrouted
           \/ ReceiveBadArguments \/ ReceiveTrigger \/ PublishState \/ PublishError
           \/ PublishNothing \/ Trace \/ Close \/ HookReturns \/ RuntimeInit \/ Start \/ Service
           \/ Stop \/ Loads \/ \E name \in Names, text \in Texts : FireByName(name, text)
           \/ WorldStep \/ UNCHANGED vars
  BY <1>3 DEF Configure, Open, Listen, ReceiveNothing, ReceiveUnrouted, ReceiveBadArguments,
     ReceiveTrigger, PublishState, PublishError, PublishNothing, Trace, Close, HookReturns,
     RuntimeInit, Start, Service, Stop, Loads, LoadMachine, FireByName, WorldStep, EndInput,
     Deliver, vars
<1> QED
  BY <1>1, <1>2, <1>3 DEF Next, RuntimeStep, ApplicationStep, Binds, Loads

\* Files that are bound stay what they are.
LEMMA BoundFilesStay ==
  ASSUME TypeOK, Fixed, BoundFit, [Next]_vars, machine.model # Null
  PROVE  setups'[machine.setup] = setups[machine.setup] /\ models'[machine.model] = Bound
<1>1. models'[machine.model] = Bound
  BY Behaved, BoundStays
<1>2. CASE setups' = setups
  BY <1>1, <1>2
<1>3. ASSUME NEW s \in Object, NEW setup \in LoadedSetups, LoadSetup(s, setup)
      PROVE  setups'[machine.setup] = setups[machine.setup]
  <2>1. setups[machine.setup].initial # NoName
    BY DEF BoundFit, ValidateAgainst
  <2>2. setups[s] = EmptySetup
    BY <1>3, Behaved DEF LoadSetup
  <2>3. s # machine.setup
    BY <2>1, <2>2 DEF EmptySetup
  <2> QED
    BY <1>3, <2>3 DEF LoadSetup, BoundFit, TypeOK, ApplicationTypeOK, MachineTypeOK
<1> QED
  BY <1>1, <1>2, <1>3, WhoLoadsSetups

\* Only init() binds, and only what fits.
LEMMA StepBoundFit ==
  ASSUME TypeOK, Fixed, BoundFit, [Next]_vars
  PROVE  BoundFit'
<1> USE DEF TypeOK
<1>1. CASE machine'.model = machine.model /\ machine'.setup = machine.setup
           /\ machine'.initial = machine.initial
  <2>1. machine.model # Null => Bound' = Bound /\ setups'[machine.setup] = setups[machine.setup]
    BY <1>1, BoundFilesStay DEF Bound
  <2> QED
    BY <1>1, <2>1 DEF BoundFit
<1>2. CASE EnterInitial
  <2>1. machine'.model = machine.model /\ machine'.setup = machine.setup
        /\ machine'.initial = machine.initial
    BY <1>2 DEF EnterInitial, MachineStart, MachineTypeOK, NewMachine
  <2> QED
    BY <1>1, <2>1
<1>3. CASE Dispatch
  <2>1. \/ machine' = machine \/ machine' = [machine EXCEPT !.rejections = @ + 1]
        \/ \E target : machine' = [machine EXCEPT !.current = target, !.transitions = @ + 1]
    BY <1>3, FireCases DEF Dispatch
  <2>2. machine'.model = machine.model /\ machine'.setup = machine.setup
        /\ machine'.initial = machine.initial
    BY <2>1 DEF MachineTypeOK, NewMachine
  <2> QED
    BY <1>1, <2>2
<1>4. CASE Binds
  <2>1. PICK m \in Object, s \in Object : MachineInit(m, s)
    BY <1>4 DEF Binds, InitMachine
  <2>2. CASE MachineInitStatus(m, s) = "Ok"
    <3>1. /\ machine' = [NewMachine EXCEPT !.model = m, !.setup = s,
                                           !.initial = InitialIn(setups[s], models[m])]
          /\ ValidateAgainst(setups[s], models[m]) = "Ok" /\ models' = models /\ setups' = setups
      BY <2>1, <2>2 DEF MachineInit, MachineInitStatus
    <3>2. /\ machine'.model = m /\ machine'.setup = s
          /\ machine'.initial = InitialIn(setups[s], models[m])
      BY <3>1 DEF NewMachine
    <3>3. Bound' = models[m] /\ setups'[machine'.setup] = setups[s]
      BY <3>1, <3>2 DEF Bound
    <3>4. BoundFit' <=> (machine'.model # Null =>
                          /\ machine'.setup # Null
                          /\ ValidateAgainst(setups'[machine'.setup], Bound') = "Ok"
                          /\ machine'.initial = InitialIn(setups'[machine'.setup], Bound'))
      BY DEF BoundFit
    <3> QED
      BY <3>1, <3>2, <3>3, <3>4, ReferenceAssumption
  <2>3. CASE MachineInitStatus(m, s) # "Ok"
    BY <1>1, <2>1, <2>3 DEF MachineInit
  <2> QED
    BY <2>2, <2>3
<1>5. CASE UNCHANGED machine
  BY <1>1, <1>5
<1>6. ~StartMachine /\ ~(\E trigger \in 0 .. kMaxTriggers - 1, text \in Texts :
                           FireMachine(trigger, text.args))
  BY Behaved DEF StartMachine, FireMachine
<1> QED
  BY <1>2, <1>3, <1>4, <1>5, <1>6, WhoMoves

LEMMA BoundFitHolds == ProgramSpec => [](Known /\ BoundFit)
<1>1. Init => BoundFit
  BY DEF Init, NewMachine, BoundFit
<1>2. Known /\ BoundFit /\ [Next]_vars => BoundFit'
  BY StepBoundFit DEF Known
<1> QED
  BY <1>1, <1>2, KnownHolds, RunsTheRuntime, PTL DEF Spec

\* The initial state is the one of that name.
LEMMA InitialIsNamed ==
  ASSUME TypeOK, BoundFit, machine.model # Null
  PROVE  /\ Bound \in LoadedModels \cup {EmptyModel} /\ HasState(Bound, machine.initial)
         /\ StateName(Bound, machine.initial) = setups[machine.setup].initial
<1> DEFINE initial == setups[machine.setup].initial
<1>1. Bound \in LoadedModels \cup {EmptyModel}
  BY DEF TypeOK, ApplicationTypeOK, MachineTypeOK, Bound
<1>2. /\ initial \in DOMAIN Bound.stateIndex
      /\ machine.initial = Bound.stateIndex[initial]
  BY DEF BoundFit, ValidateAgainst, InitialIn, FindState, Lookup
<1>3. Inverts(Bound.stateIndex, NamesOf(Bound.states))
  BY <1>1, LoadedAssumption, EmptyIsIndexed DEF Indexed
<1>4. machine.initial \in DOMAIN Bound.states /\ Bound.states[machine.initial].name = initial
  BY <1>2, <1>3 DEF Inverts, NamesOf
<1> QED
  BY <1>1, <1>4 DEF HasState, StateName

-----------------------------------------------------------------------------
(* A picture reads as its model. *)

\* What a model with indices, that validate() accepts, is for its readers.
Readable(m) == WellTyped(m) /\ Validate(m) = "Ok" /\ Indexed(m)

\* The alternatives of a state for a trigger, as validate() leaves them.
LEMMA ListsRead ==
  ASSUME NEW m, Readable(m), NEW s \in DOMAIN m.states, NEW t \in DOMAIN m.states[s].transitions
  PROVE  LET A == m.states[s].transitions[t] IN
         /\ A \in Seq(Alternative) /\ Len(A) \in Nat \ {0} /\ DOMAIN A = 1 .. Len(A)
         /\ t \in DOMAIN m.triggers
         /\ \A i \in DOMAIN A : /\ A[i].first \in Nat /\ A[i].count \in Nat
                                /\ A[i].first + A[i].count <= Len(m.conditions)
                                /\ HasState(m, A[i].target)
<1> DEFINE A == m.states[s].transitions[t]
<1>1. A \in Seq(Alternative)
  BY DEF Readable, WellTyped
<1>2. /\ t \in DOMAIN m.triggers /\ A # <<>>
      /\ \A i \in DOMAIN A : AlternativeValid(m, A[i])
  BY DEF Readable, Validate
<1> HIDE DEF A
<1>3. DOMAIN A = 1 .. Len(A) /\ Len(A) \in Nat \ {0}
  BY <1>1, <1>2, LenProperties, EmptySeq
<1>4. \A i \in DOMAIN A : A[i] \in Alternative
  BY <1>1, <1>3, ElementOfSeq
<1>5. \A i \in DOMAIN A : /\ A[i].first \in Nat /\ A[i].count \in Nat
                          /\ A[i].first + A[i].count <= Len(m.conditions)
                          /\ HasState(m, A[i].target)
  BY <1>2, <1>4 DEF AlternativeValid, Alternative
<1> QED
  BY <1>1, <1>2, <1>3, <1>5 DEF A

\* Two entries of a table with one name are one entry.
LEMMA OneOfAName ==
  ASSUME NEW table, NEW index, Inverts(index, NamesOf(table)),
         NEW a \in DOMAIN table, NEW b \in DOMAIN table, table[a].name = table[b].name
  PROVE  a = b
<1>1. NamesOf(table)[a] = table[a].name /\ NamesOf(table)[b] = table[b].name
      /\ a \in DOMAIN NamesOf(table) /\ b \in DOMAIN NamesOf(table)
  BY DEF NamesOf
<1>2. index[NamesOf(table)[a]] = a /\ index[NamesOf(table)[b]] = b
  BY <1>1 DEF Inverts
<1> QED
  BY <1>1, <1>2

\* The arrow that is drawn for one alternative.
ArrowOf(m, s, t, i) ==
  LET A == m.states[s].transitions[t] IN
  [from |-> StateName(m, s), to |-> StateName(m, A[i].target), trigger |-> m.triggers[t].name,
   label |-> Label(m, A[i], Len(A) > 1)]

\* From a state's name and a trigger's, the arrows lead back to one list.
LEMMA ArrowsLeaving ==
  ASSUME NEW m, Readable(m), NEW s \in DOMAIN m.states, NEW t \in DOMAIN m.states[s].transitions
  PROVE  {a \in Arrows(m) : a.from = m.states[s].name /\ a.trigger = m.triggers[t].name}
           = {ArrowOf(m, s, t, i) : i \in DOMAIN m.states[s].transitions[t]}
<1>1. \A a : a \in Arrows(m) <=>
               \E s2 \in DOMAIN m.states : \E t2 \in DOMAIN m.states[s2].transitions :
                 \E i \in DOMAIN m.states[s2].transitions[t2] : a = ArrowOf(m, s2, t2, i)
  BY DEF Arrows, ArrowOf
<1>2. ASSUME NEW i \in DOMAIN m.states[s].transitions[t]
      PROVE  /\ ArrowOf(m, s, t, i) \in Arrows(m)
             /\ ArrowOf(m, s, t, i).from = m.states[s].name
             /\ ArrowOf(m, s, t, i).trigger = m.triggers[t].name
  <2>1. ArrowOf(m, s, t, i) \in Arrows(m)
    BY <1>1
  <2> QED
    BY <2>1 DEF ArrowOf, StateName, HasState
<1>3. ASSUME NEW s2 \in DOMAIN m.states, NEW t2 \in DOMAIN m.states[s2].transitions,
             NEW i \in DOMAIN m.states[s2].transitions[t2],
             ArrowOf(m, s2, t2, i).from = m.states[s].name,
             ArrowOf(m, s2, t2, i).trigger = m.triggers[t].name
      PROVE  s2 = s /\ t2 = t
  <2>1. m.states[s2].name = m.states[s].name /\ m.triggers[t2].name = m.triggers[t].name
    BY <1>3 DEF ArrowOf, StateName, HasState
  <2>2. t \in DOMAIN m.triggers /\ t2 \in DOMAIN m.triggers
    BY ListsRead
  <2> QED
    BY <2>1, <2>2, OneOfAName DEF Readable, Indexed
<1> QED
  BY <1>1, <1>2, <1>3

\* A guard that is printed holds when its alternative does.
LEMMA GuardsRead ==
  ASSUME NEW m, NEW alternative, alternative.first \in Nat, alternative.count \in Nat,
         alternative.first + alternative.count <= Len(m.conditions), Len(m.conditions) \in Nat,
         NEW args
  PROVE  GuardHolds(GuardOf(m, alternative), args) <=> AlternativeHolds(m, alternative, args)
<1>1. DOMAIN GuardOf(m, alternative) = 1 .. alternative.count
  BY DEF GuardOf
<1>2. \A i \in 1 .. alternative.count :
        /\ GuardOf(m, alternative)[i] = m.conditions[alternative.first + i]
        /\ alternative.first + i <= Len(m.conditions)
  BY DEF GuardOf
<1> QED
  BY <1>1, <1>2 DEF GuardHolds, AlternativeHolds

\* A reader who follows the arrows of a picture goes where evaluate() goes,
\* wherever a picture can say what order says.
LEMMA PictureReads ==
  ASSUME NEW m, Readable(m), Len(m.conditions) \in Nat, NEW initial, NEW arguments
  PROVE  ReadsLike(Picture(m, initial), m, arguments)
<1> SUFFICES ASSUME NEW s \in DOMAIN m.states, NEW args \in arguments,
                    NEW t \in DOMAIN m.states[s].transitions, Drawable(m, s, t, args)
             PROVE  {a.to : a \in Followed(Picture(m, initial), m.states[s].name,
                                           m.triggers[t].name, args)}
                      = LET taken == Evaluate(m, s, t, args) IN
                        IF taken.decision = "Accepted" THEN {StateName(m, taken.target)} ELSE {}
  BY DEF ReadsLike
<1> DEFINE A == m.states[s].transitions[t]
           Arrow(i)   == ArrowOf(m, s, t, i)
           holding    == {i \in DOMAIN A : AlternativeHolds(m, A[i], args)}
           leaving    == {Arrow(i) : i \in DOMAIN A}
           guarded    == {a \in leaving : a.label.when = "guard" /\ GuardHolds(a.label.guard, args)}
           followed   == Followed(Picture(m, initial), m.states[s].name, m.triggers[t].name, args)
           taken      == Evaluate(m, s, t, args)
\* The list.
<1>1. /\ Len(A) \in Nat \ {0} /\ DOMAIN A = 1 .. Len(A)
      /\ \A i \in DOMAIN A : /\ A[i].first \in Nat /\ A[i].count \in Nat
                             /\ A[i].first + A[i].count <= Len(m.conditions)
  BY ListsRead
<1>2. /\ \A i \in DOMAIN A : A[i].count = 0 => i = Len(A)
      /\ \A i, j \in DOMAIN A :
           A[i].count > 0 /\ A[j].count > 0 /\ i # j => ~(i \in holding /\ j \in holding)
  BY DEF Drawable
<1>3. \A i \in DOMAIN A : A[i].count = 0 => i \in holding
  BY DEF AlternativeHolds
\* Its arrows.
<1>4. followed = {a \in leaving : a.label.when = "always"} \cup
                 IF guarded # {} THEN guarded ELSE {a \in leaving : a.label.when = "otherwise"}
  BY ArrowsLeaving DEF Followed, Picture
<1>5. \A i \in DOMAIN A :
        /\ Arrow(i).to = StateName(m, A[i].target)
        /\ A[i].count > 0 => Arrow(i).label.when = "guard"
        /\ A[i].count = 0 => Arrow(i).label.when = IF Len(A) > 1 THEN "otherwise" ELSE "always"
  BY <1>1 DEF ArrowOf, Label, Guarded, Otherwise, Always
<1>6. \A i \in DOMAIN A : A[i].count > 0 => (GuardHolds(Arrow(i).label.guard, args) <=> i \in holding)
  <2> SUFFICES ASSUME NEW i \in DOMAIN A, A[i].count > 0
               PROVE  GuardHolds(Arrow(i).label.guard, args) <=> i \in holding
    OBVIOUS
  <2>1. Arrow(i).label.guard = GuardOf(m, A[i])
    BY DEF ArrowOf, Label, Guarded
  <2> QED
    BY <1>1, <2>1, GuardsRead
<1>7. taken = IF holding = {} THEN [decision |-> "GuardRejected", target |-> kNoState]
              ELSE [decision |-> "Accepted", target |-> A[FirstOf(holding)].target]
  BY DEF Evaluate, Accepts, HasState
<1> HIDE DEF A, Arrow, holding, followed, taken
<1>8. guarded = {Arrow(i) : i \in {k \in holding : A[k].count > 0}}
  BY <1>1, <1>5, <1>6 DEF holding
<1> HIDE DEF guarded
\* One of its guards holds: nothing else is followed, and it comes first.
<1>9. CASE \E k \in holding : A[k].count > 0
  <2>1. PICK k \in holding : A[k].count > 0
    BY <1>9
  <2>2. k \in DOMAIN A /\ \A j \in holding : j \in DOMAIN A
    BY DEF holding
  <2>3. \A j \in holding : A[j].count > 0 => j = k
    BY <1>2, <2>1, <2>2
  <2>4. \A j \in holding : k <= j
    BY <1>1, <1>2, <2>1, <2>2, <2>3
  <2>5. FirstOf(holding) = k
    <3>1. \A i \in holding : (\A j \in holding : i <= j) => i = k
      BY <1>1, <2>1, <2>2, <2>4
    <3> QED
      BY <2>1, <2>4, <3>1 DEF FirstOf
  <2>6. guarded = {Arrow(k)}
    BY <1>8, <2>1, <2>3
  <2>7. ~\E a \in leaving : a.label.when = "always"
    <3>1. \A i \in DOMAIN A : A[i].count = 0 => Len(A) > 1
      BY <1>1, <1>2, <2>1, <2>2
    <3> QED
      BY <1>1, <1>5, <3>1
  <2>8. followed = {Arrow(k)}
    BY <1>4, <2>6, <2>7
  <2> QED
    BY <1>5, <1>7, <2>1, <2>2, <2>5, <2>8 DEF followed, taken, A
\* None does, and the last has no guard: it is all there is to follow.
<1>10. CASE (\A k \in holding : A[k].count = 0) /\ holding # {}
  <2>1. PICK k \in holding : A[k].count = 0
    BY <1>10
  <2>2. k \in DOMAIN A /\ k = Len(A)
    BY <1>2, <2>1 DEF holding
  <2>3. holding = {k} /\ \A i \in DOMAIN A : A[i].count = 0 <=> i = k
    BY <1>2, <1>10, <2>1, <2>2 DEF holding
  <2>4. FirstOf(holding) = k
    BY <1>1, <2>2, <2>3 DEF FirstOf
  <2>5. guarded = {}
    BY <1>1, <1>8, <2>1, <2>2, <2>3
  <2>6. {a \in leaving : a.label.when \in {"always", "otherwise"}} = {Arrow(k)}
    BY <1>1, <1>5, <2>2, <2>3
  <2>7. followed = {Arrow(k)}
    BY <1>1, <1>4, <1>5, <2>2, <2>3, <2>5, <2>6
  <2> QED
    BY <1>5, <1>7, <2>1, <2>2, <2>4, <2>7 DEF followed, taken, A
\* No alternative holds, so that none is without a guard.
<1>11. CASE holding = {}
  <2>1. \A i \in DOMAIN A : A[i].count > 0
    BY <1>1, <1>3, <1>11
  <2>2. guarded = {} /\ \A a \in leaving : a.label.when = "guard"
    BY <1>5, <1>8, <1>11, <2>1
  <2>3. followed = {}
    BY <1>4, <2>2
  <2> QED
    BY <1>7, <1>11, <2>3 DEF followed, taken
<1>12. \A k \in holding : A[k].count = 0 \/ A[k].count > 0
  BY <1>1 DEF holding
<1> QED
  BY <1>9, <1>10, <1>11, <1>12

-----------------------------------------------------------------------------
(* Where main() is, and what has been done by then. *)

Places == {"words", "setup", "machine", "bind", "mode", "start", "starting", "serve", "serving",
           "stop", "stopping", "exit"}

MainTypeOK ==
  /\ DOMAIN main = DOMAIN NewMain(<<>>, TRUE)
  /\ main.pc \in Places /\ main.argv \in CommandLines
  /\ main.pc # "exit" => main.drawn = {} /\ main.tally = {} /\ main.exit = 0

\* A call is under way only while main() waits for it.
InPlace ==
  /\ hooks = <<>>
  /\ \/ Idle
     \/ In("starting") /\ call.pc \in {"configure", "open", "listen", "publish"}
     \/ In("serving")  /\ call.pc \in {"receive", "dispatch", "publish", "trace"}
     \/ In("stopping") /\ At("close")

\* Until start(), nothing but files has been touched; until service(), nothing
\* has been read.
Preparing == {"words", "setup", "machine", "bind", "mode", "start"}
Clean     == [eof |-> FALSE, fail |-> FALSE, broken |-> FALSE]
Prepared ==
  /\ main.pc \in {"words", "setup", "machine", "bind"} => machine = NewMachine
  /\ In("mode") => machine.model # Null
  /\ In("start") => rt.model # Null
  /\ main.pc \in Preparing => /\ ~machine.started /\ ~rt.started
                              /\ port = NewPort /\ said = <<>>
  /\ main.pc \in Preparing \cup {"starting"} =>
       heard = <<>> /\ port.inbox = <<>> /\ ~port.ended /\ console = Clean

\* start() finds room for every channel and a machine that can be started.
Beginnings ==
  In("starting") =>
    /\ call.rest = <<>> /\ call.status = "Ok"
    /\ call.pc \in {"configure", "open", "listen"} => ~machine.started /\ ~rt.started /\ said = <<>>
    /\ call.pc \in {"configure", "open"} => port.listening = <<>>
    /\ At("listen") => /\ port.open /\ IsFiniteSet(call.todo)
                       /\ Len(port.listening) + Cardinality(call.todo) <= kMaxTriggers
    /\ At("publish") => machine.started /\ rt.started /\ port.open /\ said = <<>>
    /\ Idle => machine.started /\ rt.started /\ port.open /\ said # <<>> /\ result = "Ok"

InSession ==
  /\ main.pc \in {"serve", "serving", "stop", "stopping"} => machine.started /\ said # <<>>
  /\ main.pc \in {"serve", "serving"} => rt.started /\ port.open

\* What was read and not yet received is the line that was read last.
Buffered ==
  /\ heard \in Seq(Lines) /\ Len(heard) <= MaxLines
  /\ said \in Seq({said[i] : i \in DOMAIN said})
  /\ DOMAIN console = DOMAIN Clean /\ console.eof \in BOOLEAN
  /\ port.inbox # <<>> => /\ At("receive") /\ heard # <<>>
                          /\ heard[Len(heard)].kind = "input"
                          /\ heard[Len(heard)].input = port.inbox
  /\ console.fail => At("receive") /\ port.inbox = <<>> /\ ~port.ended
  /\ console.broken => /\ At("receive") /\ port.inbox = <<>> /\ ~port.ended /\ ~console.eof

Stages == MainTypeOK /\ InPlace /\ Prepared /\ Beginnings /\ InSession /\ Buffered

LEMMA InitStages == ProgramInit => Stages
<1> SUFFICES ASSUME ProgramInit PROVE Stages
  OBVIOUS
<1>1. PICK words \in CommandLines, inspect \in BOOLEAN : main = NewMain(words, inspect)
  BY DEF ProgramInit
<1>2. MainTypeOK /\ main.pc = "words"
  BY <1>1 DEF MainTypeOK, NewMain, Places
<1>3. InPlace /\ Prepared /\ Beginnings /\ InSession
  BY <1>2 DEF ProgramInit, Init, InPlace, Prepared, Beginnings, InSession, In, Idle, NoCall,
     NewMachine, NewRuntime, NewPort, Clean, Preparing
<1>4. <<>> \in Seq(Lines) /\ Len(<<>>) = 0 /\ <<>> \in Seq({<<>>[i] : i \in DOMAIN <<>>})
  BY EmptySeq
<1>5. Buffered
  BY <1>4, StreamAssumption DEF ProgramInit, Init, Buffered, NewPort, Clean
<1> QED
  BY <1>2, <1>3, <1>5 DEF Stages

\* The three ways main() goes on.
LEMMA WhereTo ==
  ASSUME MainTypeOK
  PROVE  /\ \A pc \in Places \ {"exit"} :
              /\ ~In("exit") /\ Goto(pc) => MainTypeOK'
              /\ Goto(pc) => /\ main'.pc = pc /\ main'.argv = main.argv
                             /\ main'.inspect = main.inspect /\ main'.options = main.options
                             /\ main'.setup = main.setup /\ main'.machine = main.machine
                             /\ main'.drawn = main.drawn /\ main'.tally = main.tally
                             /\ main'.exit = main.exit
         /\ \A n : Exit(n) =>
              /\ MainTypeOK' /\ main'.pc = "exit" /\ main'.exit = n
              /\ main'.argv = main.argv
              /\ main'.inspect = main.inspect /\ main'.options = main.options
              /\ main'.drawn = main.drawn /\ main'.tally = main.tally
<1> USE DEF MainTypeOK, NewMain, Places
<1>1. ASSUME NEW pc \in Places \ {"exit"}, Goto(pc)
      PROVE  /\ ~In("exit") => MainTypeOK'
             /\ main'.pc = pc /\ main'.argv = main.argv
             /\ main'.inspect = main.inspect /\ main'.options = main.options
             /\ main'.setup = main.setup /\ main'.machine = main.machine
             /\ main'.drawn = main.drawn /\ main'.tally = main.tally
             /\ main'.exit = main.exit
  BY <1>1 DEF Goto, In
<1>2. ASSUME NEW n, Exit(n)
      PROVE  /\ MainTypeOK' /\ main'.pc = "exit" /\ main'.exit = n
             /\ main'.argv = main.argv
             /\ main'.inspect = main.inspect /\ main'.options = main.options
             /\ main'.drawn = main.drawn /\ main'.tally = main.tally
  BY <1>2 DEF Exit
<1> QED
  BY <1>1, <1>2

\* main() while it reads its command line: to another word, to the files or out.
LEMMA WordsRead ==
  ASSUME MainTypeOK, ReadWord
  PROVE  /\ MainTypeOK' /\ main'.pc \in {"words", "exit"} /\ main'.argv = main.argv
         /\ main'.inspect = main.inspect
         /\ main'.drawn = {} /\ main'.tally = {}
<1>1. CASE Exit(0) \/ Exit(2)
  BY <1>1, WhereTo DEF ReadWord, In, MainTypeOK
<1>2. CASE main' = [main EXCEPT !.options = @ \cup {Argument}, !.next = @ + Consumed(Argument)]
  BY <1>2 DEF ReadWord, In, MainTypeOK, NewMain
<1>3. CASE main' = [main EXCEPT !.next = @ + 1, !.positional = @ + 1,
                      !.setup   = IF main.positional = 0 THEN Argument ELSE @,
                      !.machine = IF main.positional = 0 THEN @ ELSE Argument]
  BY <1>3 DEF ReadWord, In, MainTypeOK, NewMain
<1> QED
  BY <1>1, <1>2, <1>3 DEF ReadWord

\* main() keeps its place and its variables.
LEMMA StepMainTypeOK ==
  ASSUME MainTypeOK, [ProgramNext]_programVars
  PROVE  MainTypeOK'
<1>1. CASE ReadWord
  BY <1>1, WordsRead
<1>2. CASE Export
  BY <1>2 DEF Export, In, MainTypeOK, NewMain, Places
<1>3. CASE Summary
  BY <1>3 DEF Summary, In, MainTypeOK, NewMain, Places
<1>4. CASE \/ EndOfWords \/ ReadSetup \/ ReadMachine \/ Bind \/ SetUpRuntime \/ StartRuntime
           \/ Started \/ CallService \/ Served \/ StopRuntime
  <2>1. ~In("exit")
    BY <1>4 DEF In, EndOfWords, ReadSetup, ReadMachine, Bind, SetUpRuntime, StartRuntime, Started,
       CallService, Served, StopRuntime
  <2>2. \/ \E pc \in Places \ {"exit"} : Goto(pc)
        \/ \E n : Exit(n)
    BY <1>4 DEF EndOfWords, ReadSetup, ReadMachine, Bind, SetUpRuntime, StartRuntime, Started,
       CallService, Served, StopRuntime, Places
  <2> QED
    BY <2>1, <2>2, WhereTo
<1>5. CASE Check
  BY <1>5, WhereTo DEF Check
<1>6. CASE UNCHANGED main
  BY <1>6 DEF MainTypeOK
<1> QED
  BY <1>1, <1>2, <1>3, <1>4, <1>5, <1>6 DEF ProgramNext, MainStep, StepRuntime, Recover, GetLine,
     programVars

\* What a step of a call leaves to be done.
LEMMA CallFollows ==
  ASSUME TypeOK, RuntimeStep
  PROVE  /\ hooks' = hooks /\ ~Idle
         /\ \/ Idle'
            \/ call.pc \in {"configure", "open", "listen"} /\ call'.pc \in {"open", "listen"}
            \/ EnterInitial /\ call'.pc = "publish"
            \/ At("receive") /\ call'.pc \in {"publish", "dispatch"}
            \/ At("dispatch") /\ call'.pc \in {"publish", "trace"}
            \/ At("publish") /\ call.rest = <<"trace">> /\ call'.pc = "trace"
<1> USE DEF TypeOK
<1>1. CASE Configure \/ Open \/ Listen \/ ReceiveNothing \/ Close
  <2>1. hooks' = hooks /\ ~Idle
    BY <1>1 DEF Configure, Open, Listen, ReceiveNothing, Close, At, Idle
  <2> QED
    BY <1>1, <2>1, PortCallGoesOn DEF Idle
<1>2. CASE EnterInitial
  <2>1. call'.pc \in {"idle", "publish"}
    <3>1. CASE call' = NoCall
      BY <3>1 DEF NoCall
    <3>2. CASE call' = [call EXCEPT !.pc = "publish", !.say = SayState(machine.initial)]
      BY <3>2 DEF CallTypeOK, NoCall
    <3> QED
      BY <1>2, <3>1, <3>2 DEF EnterInitial
  <2>2. At("listen") /\ hooks' = hooks
    BY <1>2 DEF EnterInitial
  <2> QED
    BY <1>2, <2>1, <2>2 DEF At, Idle
<1>3. CASE ReceiveUnrouted \/ ReceiveBadArguments \/ ReceiveTrigger
  <2>1. At("receive") /\ hooks' = hooks
    BY <1>3 DEF ReceiveUnrouted, ReceiveBadArguments, ReceiveTrigger, Arrives
  <2>2. call'.pc \in {"publish", "dispatch"}
    BY <1>3 DEF ReceiveUnrouted, ReceiveBadArguments, ReceiveTrigger, CallTypeOK, NoCall
  <2> QED
    BY <2>1, <2>2 DEF At, Idle
<1>4. CASE Dispatch
  <2>1. call'.pc \in {"publish", "trace"}
    BY <1>4, Steps DEF Dispatch, Answer, CallTypeOK, NoCall
  <2> QED
    BY <1>4, <2>1 DEF Dispatch, At, Idle
<1>5. CASE PublishState \/ PublishError \/ PublishNothing
  <2>1. At("publish") /\ hooks' = hooks /\ call'.pc \in {"idle", "trace"}
    BY <1>5, PublishEnds DEF PublishState, PublishError, PublishNothing
  <2>2. call.rest = <<>> => call' = NoCall
    BY <1>5 DEF PublishState, PublishError, PublishNothing, Published, Proceed, Return, CallTypeOK,
       NoCall
  <2>3. call.rest \in {<<>>, <<"trace">>}
    BY DEF CallTypeOK
  <2> QED
    BY <2>1, <2>2, <2>3 DEF At, Idle, NoCall
<1>6. CASE Trace
  <2>1. hooks' = hooks /\ ~Idle
    BY <1>6, Behaved DEF Trace, At, Idle
  <2> QED
    BY <1>6, <2>1, TraceEnds DEF Idle
<1> QED
  BY <1>1, <1>2, <1>3, <1>4, <1>5, <1>6 DEF RuntimeStep

\* The console changes nothing but itself and the port.
LEMMA ConsoleOnly ==
  ASSUME GetLine \/ Recover
  PROVE  UNCHANGED <<models, setups, machine, result, rt, call, hooks, view, history, main>>
<1>1. CASE Recover
  BY <1>1 DEF Recover, runtimeVars, vars
<1>2. CASE GetLine
  <2>1. PICK line \in Upcoming, last \in BOOLEAN :
          IF EndsSession(line, last) THEN EndInput
          ELSE IF line.kind = "input" THEN Deliver(line.input[1])
          ELSE UNCHANGED runtimeVars
    BY <1>2 DEF GetLine
  <2>2. main' = main
    BY <1>2 DEF GetLine
  <2> QED
    BY <2>1, <2>2 DEF EndInput, Deliver, runtimeVars, vars
<1> QED
  BY <1>1, <1>2

\* What main() does by itself, between calls.
Alone == \/ ReadWord \/ EndOfWords \/ Export \/ Check \/ Started \/ Served \/ Summary
Files == ReadSetup \/ ReadMachine \/ Bind \/ SetUpRuntime

LEMMA AloneChanges == ASSUME Alone PROVE UNCHANGED <<vars, console, heard, said>>
BY DEF Alone, ReadWord, EndOfWords, Export, Check, Started, Served, Summary, Quietly, runtimeVars

LEMMA FilesChange ==
  ASSUME Files
  PROVE  UNCHANGED <<call, hooks, port, view, history, console, heard, said>>
<1>1. UNCHANGED <<console, heard, said>>
  BY DEF Files, ReadSetup, ReadMachine, Bind, SetUpRuntime, Quietly
<1>2. CASE ReadSetup
  BY <1>1, <1>2 DEF ReadSetup, LoadSetup, runtimeVars, vars
<1>3. CASE ReadMachine
  BY <1>1, <1>3 DEF ReadMachine, LoadMachine, runtimeVars, vars
<1>4. CASE Bind
  BY <1>1, <1>4 DEF Bind, InitMachine
<1>5. CASE SetUpRuntime
  BY <1>1, <1>5 DEF SetUpRuntime, RuntimeInit
<1> QED
  BY <1>2, <1>3, <1>4, <1>5 DEF Files

\* The steps of the program, by what they may touch.
LEMMA StepKinds ==
  ASSUME [ProgramNext]_programVars
  PROVE  \/ Alone \/ Files \/ StartRuntime \/ CallService \/ StopRuntime
         \/ StepRuntime \/ Recover \/ GetLine \/ UNCHANGED programVars
BY DEF ProgramNext, MainStep, Alone, Files

\* Where the three calls lead.
LEMMA CallsMade ==
  ASSUME MainTypeOK, StartRuntime \/ CallService \/ StopRuntime
  PROVE  /\ UNCHANGED <<models, setups, machine, hooks, port, view, history, console, heard, said>>
         /\ StartRuntime => /\ In("start") /\ main'.pc = "starting" /\ rt' = rt
                            /\ IF StartStatus = "Ok"
                               THEN call' = [NoCall EXCEPT !.pc = "configure"] ELSE Idle'
         /\ CallService => /\ In("serve") /\ main'.pc = "serving" /\ rt' = rt
                           /\ call'.pc \in {"idle", "receive"}
         /\ StopRuntime => /\ In("stop") /\ main'.pc = "stopping"
                           /\ call'.pc \in {"idle", "close"}
<1>1. ASSUME StartRuntime
      PROVE  /\ UNCHANGED <<models, setups, machine, hooks, port, view, history, console, heard, said>>
             /\ In("start") /\ main'.pc = "starting" /\ rt' = rt
             /\ IF StartStatus = "Ok"
                THEN call' = [NoCall EXCEPT !.pc = "configure"] ELSE Idle'
  <2>1. Start /\ Goto("starting") /\ Quietly /\ In("start")
    BY <1>1 DEF StartRuntime
  <2>2. main'.pc = "starting"
    BY <2>1, WhereTo DEF Places
  <2> QED
    BY <2>1, <2>2 DEF Start, Return, Idle, NoCall, Quietly
<1>2. ASSUME CallService
      PROVE  /\ UNCHANGED <<models, setups, machine, hooks, port, view, history, console, heard, said>>
             /\ In("serve") /\ main'.pc = "serving" /\ rt' = rt
             /\ call'.pc \in {"idle", "receive"}
  <2>1. Service /\ Goto("serving") /\ Quietly /\ In("serve")
    BY <1>2 DEF CallService
  <2>2. main'.pc = "serving"
    BY <2>1, WhereTo DEF Places
  <2> QED
    BY <2>1, <2>2 DEF Service, Return, NoCall, Quietly
<1>3. ASSUME StopRuntime
      PROVE  /\ UNCHANGED <<models, setups, machine, hooks, port, view, history, console, heard, said>>
             /\ In("stop") /\ main'.pc = "stopping"
             /\ call'.pc \in {"idle", "close"}
  <2>1. Stop /\ Goto("stopping") /\ Quietly /\ In("stop")
    BY <1>3 DEF StopRuntime
  <2>2. main'.pc = "stopping"
    BY <2>1, WhereTo DEF Places
  <2> QED
    BY <2>1, <2>2 DEF Stop, Return, NoCall, Quietly
<1> QED
  BY <1>1, <1>2, <1>3

LEMMA StepInPlace ==
  ASSUME TypeOK, Stages, [ProgramNext]_programVars
  PROVE  InPlace'
<1> USE DEF Stages
<1>1. CASE Alone \/ Files
  <2>1. Idle /\ UNCHANGED <<call, hooks>>
    BY <1>1, AloneChanges, FilesChange DEF Alone, Files, vars, InPlace, In, ReadWord, EndOfWords,
       Export, Check, Started, Served, Summary, ReadSetup, ReadMachine, Bind, SetUpRuntime
  <2> QED
    BY <2>1 DEF InPlace, Idle
<1>2. CASE StartRuntime \/ CallService \/ StopRuntime
  <2>1. hooks' = hooks
    BY <1>2, CallsMade
  <2>2. StartRuntime => In("starting")' /\ call'.pc \in {"idle", "configure"}
    <3>1. [NoCall EXCEPT !.pc = "configure"].pc = "configure"
      BY DEF NoCall
    <3> QED
      BY <3>1, CallsMade DEF In, Idle
  <2>3. CallService => In("serving")' /\ call'.pc \in {"idle", "receive"}
    BY CallsMade DEF In
  <2>4. StopRuntime => In("stopping")' /\ call'.pc \in {"idle", "close"}
    BY CallsMade DEF In
  <2> QED
    BY <1>2, <2>1, <2>2, <2>3, <2>4 DEF InPlace, Idle, At
<1>3. CASE StepRuntime
  <2>1. RuntimeStep /\ main' = main
    BY <1>3 DEF StepRuntime
  <2>2. hooks' = <<>>
    BY <2>1, CallFollows DEF InPlace
  <2>3. In("starting") => call.rest # <<"trace">>
    BY DEF Beginnings
  <2>4. EnterInitial => At("listen")
    BY DEF EnterInitial
  <2> QED
    BY <2>1, <2>2, <2>3, <2>4, CallFollows DEF InPlace, In, Idle, At
<1>4. CASE Recover \/ GetLine \/ UNCHANGED programVars
  <2>1. UNCHANGED <<call, hooks, main>>
    BY <1>4, ConsoleOnly DEF programVars, vars
  <2> QED
    BY <2>1 DEF InPlace, In, Idle, At
<1> QED
  BY <1>1, <1>2, <1>3, <1>4, StepKinds

\* Where main() gets to by itself.
LEMMA AloneGoes ==
  ASSUME MainTypeOK, Alone
  PROVE  \/ ReadWord /\ In("words") /\ main'.pc \in {"words", "exit"}
         \/ EndOfWords /\ In("words") /\ main'.pc = "setup"
         \/ (Export \/ Check) /\ In("mode") /\ main'.pc = "exit"
         \/ Started /\ In("starting") /\ Idle /\ main'.pc = IF result = "Ok" THEN "serve" ELSE "exit"
         \/ Served /\ In("serving") /\ Idle /\ main'.pc \in {"serve", "stop"}
         \/ Summary /\ In("stopping") /\ Idle /\ main'.pc = "exit"
<1>1. CASE ReadWord
  BY <1>1, WordsRead DEF ReadWord
<1>2. CASE EndOfWords
  BY <1>2, WhereTo DEF EndOfWords, Places
<1>3. CASE Export
  BY <1>3 DEF Export, MainTypeOK, NewMain
<1>4. CASE Check
  <2>1. In("mode") /\ \E n : Exit(n)
    BY <1>4 DEF Check
  <2> QED
    BY <1>4, <2>1, WhereTo
<1>5. CASE Started
  BY <1>5, WhereTo DEF Started, Places
<1>6. CASE Served
  <2>1. In("serving") /\ Idle /\ (Goto("serve") \/ Goto("stop"))
    BY <1>6 DEF Served
  <2> QED
    BY <1>6, <2>1, WhereTo DEF Places
<1>7. CASE Summary
  BY <1>7 DEF Summary, MainTypeOK, NewMain
<1> QED
  BY <1>1, <1>2, <1>3, <1>4, <1>5, <1>6, <1>7 DEF Alone

\* Where it gets to with its files.
LEMMA FilesGo ==
  ASSUME MainTypeOK, TypeOK, Files
  PROVE  \/ /\ ReadSetup /\ In("setup") /\ main'.pc \in {"machine", "exit"}
            /\ UNCHANGED <<machine, rt>>
         \/ /\ ReadMachine /\ In("machine") /\ main'.pc \in {"bind", "exit"}
            /\ UNCHANGED <<machine, rt>>
         \/ /\ Bind /\ In("bind") /\ UNCHANGED rt
            /\ \/ /\ result' = "Ok" /\ main'.pc = "mode"
                  /\ \E o \in Object : /\ machine'.model = o /\ machine'.setup = o
                                       /\ MachineInitStatus(o, o) = "Ok"
                  /\ ~machine'.started
               \/ result' # "Ok" /\ main'.pc = "exit" /\ machine' = machine
         \/ /\ SetUpRuntime /\ In("mode") /\ UNCHANGED machine /\ rt'.started = rt.started
            /\ IF RuntimeInitStatus = "Ok" THEN main'.pc = "start" /\ rt'.model = machine.model
               ELSE main'.pc = "exit"
<1>1. CASE ReadSetup
  <2>1. In("setup") /\ (Goto("machine") \/ Exit(1)) /\ UNCHANGED <<machine, rt>>
    BY <1>1 DEF ReadSetup, LoadSetup, runtimeVars, vars
  <2> QED
    BY <1>1, <2>1, WhereTo DEF Places
<1>2. CASE ReadMachine
  <2>1. In("machine") /\ (Goto("bind") \/ Exit(1)) /\ UNCHANGED <<machine, rt>>
    BY <1>2 DEF ReadMachine, LoadMachine, runtimeVars, vars
  <2> QED
    BY <1>2, <2>1, WhereTo DEF Places
<1>3. CASE Bind
  <2>1. PICK o \in Object : InitMachine(o, o)
    BY <1>3 DEF Bind
  <2>2. In("bind") /\ UNCHANGED rt /\ IF result' = "Ok" THEN Goto("mode") ELSE Exit(1)
    BY <1>3, <2>1 DEF Bind, InitMachine
  <2>3. result' = MachineInitStatus(o, o) /\
        machine' = IF MachineInitStatus(o, o) = "Ok"
                   THEN [NewMachine EXCEPT !.model = o, !.setup = o,
                                           !.initial = InitialIn(setups[o], models[o])]
                   ELSE machine
    BY <2>1 DEF InitMachine, MachineInit
  <2>4. CASE result' = "Ok"
    <3>1. machine'.model = o /\ machine'.setup = o /\ ~machine'.started
      BY <2>3, <2>4 DEF NewMachine
    <3>2. main'.pc = "mode"
      BY <2>2, <2>4, WhereTo DEF Places
    <3> QED
      BY <1>3, <2>2, <2>3, <2>4, <3>1, <3>2
  <2>5. CASE result' # "Ok"
    <3>1. main'.pc = "exit"
      BY <2>2, <2>5, WhereTo
    <3> QED
      BY <1>3, <2>2, <2>3, <2>5, <3>1
  <2> QED
    BY <2>4, <2>5
<1>4. CASE SetUpRuntime
  <2>1. /\ In("mode") /\ UNCHANGED machine /\ result' = RuntimeInitStatus
        /\ IF result' = "Ok" THEN Goto("start") ELSE Exit(1)
        /\ rt' = IF RuntimeInitStatus = "Ok"
                 THEN [rt EXCEPT !.model = machine.model, !.setup = machine.setup] ELSE rt
    BY <1>4 DEF SetUpRuntime, RuntimeInit
  <2>2. rt'.started = rt.started /\ (RuntimeInitStatus = "Ok" => rt'.model = machine.model)
    BY <2>1 DEF TypeOK, MembersTypeOK, NewRuntime
  <2>3. IF RuntimeInitStatus = "Ok" THEN main'.pc = "start" ELSE main'.pc = "exit"
    BY <2>1, WhereTo DEF Places
  <2> QED
    BY <1>4, <2>1, <2>2, <2>3
<1> QED
  BY <1>1, <1>2, <1>3, <1>4 DEF Files

\* Nothing is touched before its time.
LEMMA StepPrepared ==
  ASSUME TypeOK, Stages, [ProgramNext]_programVars
  PROVE  Prepared'
<1> USE DEF Stages
<1>1. CASE Alone
  <2>1. UNCHANGED <<machine, rt, port, said, heard, console>>
    BY <1>1, AloneChanges DEF vars
  <2> QED
    BY <1>1, <2>1, AloneGoes DEF Prepared, In, Preparing
<1>2. CASE Files
  <2>1. UNCHANGED <<port, said, heard, console>>
    BY <1>2, FilesChange
  <2>2. \A o \in Object : o # Null
    BY ReferenceAssumption
  <2> QED
    BY <1>2, <2>1, <2>2, FilesGo DEF Prepared, In, Preparing
<1>3. CASE StartRuntime \/ CallService \/ StopRuntime
  BY <1>3, CallsMade DEF Prepared, In, Preparing
<1>4. CASE StepRuntime
  <2>1. ~Idle /\ RuntimeStep /\ main' = main
    BY <1>4, CallFollows DEF StepRuntime
  <2>2. main.pc \notin Preparing
    BY <2>1 DEF InPlace, In, Preparing
  <2>3. CASE ~In("starting")
    BY <2>1, <2>2, <2>3 DEF Prepared, In, Preparing
  <2>4. CASE In("starting")
    <3>1. call.pc \in {"configure", "open", "listen", "publish"} /\ port.inbox = <<>> /\ ~port.ended
          /\ heard = <<>> /\ console = Clean
      BY <2>1, <2>4 DEF InPlace, In, Prepared
    <3>2. port'.inbox = port.inbox /\ port'.ended = port.ended
      <4>1. Configure \/ Open \/ Listen \/ EnterInitial \/ PublishState \/ PublishError \/ PublishNothing
        BY <2>1, <3>1 DEF RuntimeStep, At, ReceiveNothing, ReceiveUnrouted, ReceiveBadArguments,
           ReceiveTrigger, Arrives, Dispatch, Trace, Close
      <4> QED
        BY <4>1 DEF Configure, Open, Listen, EnterInitial, PublishState, PublishError,
           PublishNothing, TypeOK, PortTypeOK, NewPort
    <3>3. heard' = heard /\ console' = console
      BY <1>4 DEF StepRuntime
    <3> QED
      BY <2>1, <2>4, <3>1, <3>2, <3>3 DEF Prepared, In, Preparing
  <2> QED
    BY <2>3, <2>4
<1>5. CASE Recover \/ GetLine
  <2>1. At("receive") /\ main' = main
    BY <1>5, ConsoleOnly DEF Recover, GetLine, Reading
  <2>2. In("serving")
    BY <2>1 DEF InPlace, At, Idle
  <2> QED
    BY <2>1, <2>2 DEF Prepared, In, Preparing
<1>6. CASE UNCHANGED programVars
  BY <1>6 DEF Prepared, In, Preparing, programVars, vars
<1> QED
  BY <1>1, <1>2, <1>3, <1>4, <1>5, <1>6, StepKinds

\* A port has room for the channels of any one model.
LEMMA ChannelsFit ==
  ASSUME NEW m \in LoadedModels \cup {EmptyModel}
  PROVE  IsFiniteSet(ChannelsToAnnounce(m)) /\ Cardinality(ChannelsToAnnounce(m)) <= kMaxTriggers
<1> DEFINE keys == ChannelsOf(m.triggers)
           T    == DOMAIN m.channelIndex
<1>1. Inverts(m.channelIndex, keys)
  BY LoadedAssumption, EmptyIsIndexed DEF Indexed
<1>2. DOMAIN keys = DOMAIN m.triggers
  BY DEF ChannelsOf
<1>3. /\ IsFiniteSet(DOMAIN m.triggers) /\ Cardinality(DOMAIN m.triggers) <= kMaxTriggers
  <2>1. CASE m = EmptyModel
    <3>1. DOMAIN m.triggers = {}
      BY <2>1 DEF EmptyModel, EmptyFunction
    <3> QED
      BY <3>1, FS_EmptySet, CapacityAssumption
  <2>2. CASE m \in LoadedModels
    BY <2>2, LoadedAssumption DEF WithinCapacities
  <2> QED
    BY <2>1, <2>2
<1>4. keys = [t \in DOMAIN keys |-> keys[t]]
  BY DEF ChannelsOf
<1> HIDE DEF keys
<1>5. keys \in [DOMAIN keys -> T] /\ \A c \in T : \E t \in DOMAIN keys : keys[t] = c
  BY <1>1, <1>4 DEF Inverts
<1>6. keys \in Surjection(DOMAIN m.triggers, T)
  BY <1>2, <1>5 DEF Surjection
<1>7. IsFiniteSet(T) /\ Cardinality(T) <= Cardinality(DOMAIN m.triggers)
  BY <1>3, <1>6, FS_Surjection
<1>8. Cardinality(T) \in Nat /\ Cardinality(DOMAIN m.triggers) \in Nat /\ kMaxTriggers \in Nat
  BY <1>3, <1>7, FS_CardinalityType, CapacityAssumption
<1> HIDE DEF T
<1>9. Cardinality(T) <= kMaxTriggers
  BY <1>3, <1>7, <1>8
<1> QED
  BY <1>7, <1>9 DEF T, ChannelsToAnnounce

\* A step of start(), which nothing can refuse.
LEMMA StartGoesOn ==
  ASSUME Known, BoundFit, Stages, StepRuntime, In("starting")
  PROVE  Beginnings'
<1> USE DEF Stages
<1>1. /\ RuntimeStep /\ ~Idle /\ main' = main /\ call.rest = <<>> /\ call.status = "Ok"
      /\ call.pc \in {"configure", "open", "listen", "publish"}
      /\ TypeOK /\ Bindings /\ Paired
  BY CallFollows DEF StepRuntime, Known, InPlace, In, Beginnings
<1> SUFFICES /\ call'.rest = <<>> /\ call'.status = "Ok"
             /\ call'.pc \in {"configure", "open", "listen"} =>
                  ~machine'.started /\ ~rt'.started /\ said' = <<>>
             /\ call'.pc \in {"configure", "open"} => port'.listening = <<>>
             /\ call'.pc = "listen" =>
                  /\ port'.open /\ IsFiniteSet(call'.todo)
                  /\ Len(port'.listening) + Cardinality(call'.todo) <= kMaxTriggers
             /\ call'.pc = "publish" => machine'.started /\ rt'.started /\ port'.open /\ said' = <<>>
             /\ call'.pc = "idle" => /\ machine'.started /\ rt'.started /\ port'.open
                                     /\ said' # <<>> /\ result' = "Ok"
  BY DEF Beginnings, At, Idle
<1>2. said' = IF At("publish") /\ call.say.kind # "nothing"
              THEN Append(said, Spoken(call.say)) ELSE said
  BY DEF StepRuntime
<1>3. DOMAIN call = DOMAIN NoCall
  BY <1>1 DEF TypeOK, CallTypeOK
<1>4. CASE Configure
  <2>1. call' = [call EXCEPT !.pc = "open"] /\ UNCHANGED <<machine, rt, port>>
    BY <1>4, Behaved DEF Configure
  <2>2. At("configure")
    BY <1>4 DEF Configure
  <2> QED
    BY <1>1, <1>2, <1>3, <2>1, <2>2 DEF Beginnings, At, NoCall
<1>5. CASE Open
  <2>1. /\ call' = [call EXCEPT !.pc = "listen", !.todo = ChannelsToAnnounce(Routing)]
        /\ port' = [port EXCEPT !.open = TRUE] /\ UNCHANGED <<machine, rt>>
    BY <1>5, Behaved DEF Open
  <2>2. At("open")
    BY <1>5 DEF Open
  <2>3. call'.pc = "listen" /\ call'.todo = ChannelsToAnnounce(Routing)
        /\ call'.rest = <<>> /\ call'.status = "Ok"
    BY <1>1, <1>3, <2>1 DEF NoCall
  <2>4. port'.open /\ port'.listening = <<>>
    BY <1>1, <2>1, <2>2 DEF Beginnings, At, TypeOK, PortTypeOK, NewPort
  <2>5. Routing \in LoadedModels \cup {EmptyModel}
    BY <1>1 DEF Routing, TypeOK, ApplicationTypeOK, MembersTypeOK, Paired
  <2>6. IsFiniteSet(call'.todo) /\ Cardinality(call'.todo) <= kMaxTriggers
        /\ Cardinality(call'.todo) \in Nat
    BY <2>3, <2>5, ChannelsFit, FS_CardinalityType
  <2>7. Len(port'.listening) = 0
    BY <2>4, EmptySeq
  <2>8. Len(port'.listening) + Cardinality(call'.todo) <= kMaxTriggers
    BY <2>6, <2>7
  <2> QED
    BY <1>1, <1>2, <2>1, <2>2, <2>3, <2>4, <2>6, <2>8 DEF Beginnings, At
<1>6. CASE Listen
  <2>1. PICK channel \in call.todo, answer \in ListenAnswers :
          IF answer = "Ok"
          THEN /\ port' = [port EXCEPT !.listening = Append(@, channel)]
               /\ call' = [call EXCEPT !.todo = @ \ {channel}]
               /\ UNCHANGED result
          ELSE Return(answer) /\ UNCHANGED port
    BY <1>6 DEF Listen
  <2>2. At("listen") /\ UNCHANGED <<machine, rt>>
    BY <1>6 DEF Listen
  <2>3. /\ port.open /\ IsFiniteSet(call.todo) /\ Cardinality(call.todo) \in Nat
        /\ Len(port.listening) + Cardinality(call.todo) <= kMaxTriggers
        /\ port.listening \in Seq(Heard) /\ Len(port.listening) \in Nat /\ kMaxTriggers \in Nat
    BY <1>1, <2>2, FS_CardinalityType, LenProperties, CapacityAssumption
       DEF Beginnings, TypeOK, PortTypeOK
  <2>4. /\ IsFiniteSet(call.todo \ {channel})
        /\ Cardinality(call.todo \ {channel}) = Cardinality(call.todo) - 1
    BY <2>3, FS_RemoveElement
  <2>5. Cardinality(call.todo \ {channel}) \in Nat
    BY <2>4, FS_CardinalityType
  <2>6. answer = "Ok"
    <3>1. Len(port.listening) < kMaxTriggers
      BY <2>3, <2>4, <2>5
    <3> QED
      BY <2>3, <3>1, Behaved DEF ListenAnswers, OpenPortAnswers
  <2>7. /\ port'.open /\ port'.listening = Append(port.listening, channel)
        /\ call' = [call EXCEPT !.todo = @ \ {channel}]
    BY <1>1, <2>1, <2>3, <2>6 DEF TypeOK, PortTypeOK, NewPort
  <2>8. Len(port'.listening) = Len(port.listening) + 1
    BY <2>3, <2>7, OwnElements, LenProperties, AppendProperties DEF Heard
  <2>9. call'.pc = "listen" /\ call'.todo = call.todo \ {channel} /\ call'.rest = <<>>
        /\ call'.status = "Ok"
    BY <1>1, <1>3, <2>2, <2>7 DEF At, NoCall
  <2>10. Len(port'.listening) + Cardinality(call'.todo) <= kMaxTriggers
    BY <2>3, <2>4, <2>8, <2>9
  <2> QED
    BY <1>1, <1>2, <2>2, <2>4, <2>7, <2>9, <2>10 DEF Beginnings, At
<1>7. CASE EnterInitial
  <2>1. At("listen") /\ MachineStart /\ ~machine.started
    BY <1>1, <1>7 DEF EnterInitial, Beginnings, At
  <2>2. machine.model # Null
    BY <1>1, <2>1 DEF Bindings, Paired, PairMatches, At
  <2>3. MachineStartStatus = "Ok"
    BY <1>1, <2>1, <2>2, InitialIsNamed DEF MachineStartStatus, BoundFit
  <2>4. /\ machine' = [machine EXCEPT !.current = machine.initial, !.started = TRUE]
        /\ rt' = [rt EXCEPT !.started = TRUE]
        /\ call' = [call EXCEPT !.pc = "publish", !.say = SayState(machine.initial)]
    BY <1>7, <2>1, <2>3 DEF EnterInitial, MachineStart
  <2>5. machine'.started /\ rt'.started
    BY <1>1, <2>4 DEF TypeOK, MachineTypeOK, MembersTypeOK, NewMachine, NewRuntime
  <2>6. call'.pc = "publish" /\ call'.rest = <<>> /\ call'.status = "Ok"
    BY <1>1, <1>3, <2>4 DEF NoCall
  <2>7. said' = <<>> /\ port'.open
    BY <1>2, <1>7, <2>1 DEF Beginnings, At, EnterInitial
  <2> QED
    BY <2>5, <2>6, <2>7
<1>8. CASE PublishState \/ PublishError \/ PublishNothing
  <2>1. At("publish") /\ UNCHANGED <<machine, rt, port>> /\ Published
    BY <1>8 DEF PublishState, PublishError, PublishNothing
  <2>2. result' = "Ok" /\ call' = NoCall
    BY <1>1, <1>3, <2>1 DEF Published, Proceed, Return, NoCall
  <2>3. call.say.kind # "nothing"
    <3>1. rt.model = machine.model
      BY <1>1 DEF Paired, PairMatches
    <3> QED
      BY <2>1, <3>1 DEF Known, SilenceMeansMismatch
  <2>4. said' = <<Spoken(call.say)>>
    BY <1>2, <2>1, <2>3 DEF Beginnings
  <2>5. said' # <<>>
    BY <2>4
  <2> QED
    BY <2>1, <2>2, <2>5 DEF Beginnings, At, NoCall
<1> QED
  BY <1>1, <1>4, <1>5, <1>6, <1>7, <1>8 DEF RuntimeStep, At, ReceiveNothing, ReceiveUnrouted,
     ReceiveBadArguments, ReceiveTrigger, Arrives, Dispatch, Trace, Close

LEMMA StepBeginnings ==
  ASSUME Known, BoundFit, Stages, [ProgramNext]_programVars
  PROVE  Beginnings'
<1> USE DEF Stages
<1>0. TypeOK
  BY DEF Known
<1>1. CASE Alone
  BY <1>1, AloneGoes DEF Beginnings, In
<1>2. CASE Files
  BY <1>0, <1>2, FilesGo DEF Beginnings, In
<1>3. CASE CallService \/ StopRuntime
  BY <1>3, CallsMade DEF Beginnings, In
<1>4. CASE StartRuntime
  <2>1. /\ ~machine.started /\ ~rt.started /\ said = <<>> /\ port.listening = <<>>
        /\ rt.model # Null
    BY <1>4, CallsMade DEF Prepared, Preparing, In, NewPort
  <2>2. call' = [NoCall EXCEPT !.pc = "configure"] /\ rt' = rt /\ UNCHANGED <<machine, port, said>>
    BY <1>4, <2>1, CallsMade DEF StartStatus
  <2> QED
    BY <2>1, <2>2 DEF Beginnings, At, Idle, NoCall
<1>5. CASE StepRuntime
  <2>1. main' = main
    BY <1>5 DEF StepRuntime
  <2>2. CASE In("starting")
    BY <1>5, <2>2, StartGoesOn
  <2>3. CASE ~In("starting")
    BY <2>1, <2>3 DEF Beginnings, In
  <2> QED
    BY <2>2, <2>3
<1>6. CASE Recover \/ GetLine
  <2>1. At("receive") /\ main' = main
    BY <1>6, ConsoleOnly DEF Recover, GetLine, Reading
  <2>2. ~In("starting")
    BY <2>1 DEF InPlace, At, Idle, In
  <2> QED
    BY <2>1, <2>2 DEF Beginnings, In
<1>7. CASE UNCHANGED programVars
  BY <1>7 DEF Beginnings, In, At, Idle, programVars, vars
<1> QED
  BY <1>1, <1>2, <1>3, <1>4, <1>5, <1>6, <1>7, StepKinds

\* What is said is not taken back, and what is started stays so until stop().
LEMMA StaysStarted ==
  ASSUME TypeOK, Buffered, StepRuntime
  PROVE  /\ machine.started => machine'.started
         /\ rt.started => rt'.started
         /\ port.open => port'.open \/ At("close")
         /\ said # <<>> => said' # <<>>
<1>0. RuntimeStep /\ [Next]_vars
  BY DEF StepRuntime, Next
<1>1. machine.started => machine'.started
  <2>1. CASE UNCHANGED machine
    BY <2>1
  <2>2. CASE EnterInitial
    BY <2>2, StartFields DEF EnterInitial, TypeOK
  <2>3. CASE Dispatch
    BY <2>3, FireFields DEF Dispatch, TypeOK
  <2>4. CASE Configure \/ Open \/ Listen \/ ReceiveNothing \/ ReceiveUnrouted \/ ReceiveBadArguments
             \/ ReceiveTrigger \/ PublishState \/ PublishError \/ PublishNothing \/ Trace \/ Close
    BY <2>4 DEF Configure, Open, Listen, ReceiveNothing, ReceiveUnrouted, ReceiveBadArguments,
       ReceiveTrigger, PublishState, PublishError, PublishNothing, Trace, Close
  <2> QED
    BY <1>0, <2>1, <2>2, <2>3, <2>4 DEF RuntimeStep
<1>2. rt.started => rt'.started
  <2>1. ~Stop
    BY <1>0, CallFollows DEF Stop
  <2> QED
    BY <1>0, <2>1, WhoStops
<1>3. port.open => port'.open \/ At("close")
  <2>1. CASE Configure \/ Open \/ Listen \/ ReceiveNothing \/ Close
    BY <2>1 DEF Configure, Open, Listen, ReceiveNothing, Close, TypeOK, PortTypeOK, NewPort
  <2>2. CASE ReceiveUnrouted \/ ReceiveBadArguments \/ ReceiveTrigger
    BY <2>2 DEF ReceiveUnrouted, ReceiveBadArguments, ReceiveTrigger, Arrives, TypeOK, PortTypeOK,
       NewPort
  <2>3. CASE EnterInitial \/ Dispatch \/ PublishState \/ PublishError \/ PublishNothing \/ Trace
    BY <2>3 DEF EnterInitial, Dispatch, PublishState, PublishError, PublishNothing, Trace
  <2> QED
    BY <1>0, <2>1, <2>2, <2>3 DEF RuntimeStep
<1>4. said # <<>> => said' # <<>>
  <2>1. said' = said \/ \E say : said' = Append(said, say)
    BY DEF StepRuntime
  <2>2. \A say : Append(said, say) # <<>>
    <3>1. ASSUME NEW say PROVE Append(said, say) # <<>>
      <4>1. Len(Append(said, say)) = Len(said) + 1 /\ Len(said) \in Nat
        BY OwnElements, LenProperties DEF Buffered
      <4>2. Len(<<>>) = 0
        BY EmptySeq
      <4> QED
        BY <4>1, <4>2
    <3> QED
      BY <3>1
  <2> QED
    BY <2>1, <2>2
<1> QED
  BY <1>1, <1>2, <1>3, <1>4

LEMMA StepInSession ==
  ASSUME TypeOK, Stages, [ProgramNext]_programVars
  PROVE  InSession'
<1> USE DEF Stages
<1>1. CASE Alone
  <2>1. UNCHANGED <<machine, rt, port, said>>
    BY <1>1, AloneChanges DEF vars
  <2> QED
    BY <1>1, <2>1, AloneGoes DEF InSession, In, Beginnings
<1>2. CASE Files
  BY <1>2, FilesGo DEF InSession, In
<1>3. CASE StartRuntime \/ CallService \/ StopRuntime
  BY <1>3, CallsMade DEF InSession, In
<1>4. CASE StepRuntime
  <2>1. main' = main /\ ~Idle /\ (main.pc \in {"serve", "serving"} => ~At("close"))
    BY <1>4, CallFollows DEF StepRuntime, InPlace, At, In, Idle
  <2> QED
    BY <1>4, <2>1, StaysStarted DEF InSession, In
<1>5. CASE Recover
  <2>1. said # <<>> => said' # <<>>
    <3>1. Len(Append(said, TooLong)) = Len(said) + 1 /\ Len(said) \in Nat
      BY OwnElements, LenProperties DEF Buffered
    <3>2. Append(said, TooLong) # <<>>
      BY <3>1, EmptySeq
    <3> QED
      BY <1>5, <3>2 DEF Recover
  <2> QED
    BY <1>5, <2>1, ConsoleOnly DEF InSession, In, Recover, runtimeVars, vars
<1>6. CASE GetLine
  <2>1. UNCHANGED <<main, machine, rt, said>>
    BY <1>6, ConsoleOnly DEF GetLine
  <2>2. port'.open = port.open
    BY <1>6 DEF GetLine, EndInput, Deliver, runtimeVars, vars, TypeOK, PortTypeOK, NewPort
  <2> QED
    BY <2>1, <2>2 DEF InSession, In
<1>7. CASE UNCHANGED programVars
  BY <1>7 DEF InSession, In, programVars, vars
<1> QED
  BY <1>1, <1>2, <1>3, <1>4, <1>5, <1>6, <1>7, StepKinds

\* A line that is read.
LEMMA LineRead ==
  ASSUME NEW line \in Upcoming
  PROVE  /\ \/ line = Line("end")
            \/ line.kind = "broken" /\ ~console.eof
            \/ line \in Lines /\ Len(heard) < MaxLines /\ ~console.eof /\ ~console.broken
         /\ line \in Lines =>
              /\ line.kind \in {"blank", "help", "long", "quit", "input"}
              /\ line.kind = "input" => \E input \in Inputs : line.input = <<input>>
BY StreamAssumption DEF Upcoming, Lines, Line

\* What one line does: it ends the input, or waits in the port, or is passed over.
LEMMA GetLineEffects ==
  ASSUME TypeOK, Stages, GetLine
  PROVE  \E line \in Upcoming :
           /\ At("receive") /\ port.inbox = <<>> /\ ~port.ended /\ ~console.fail
           /\ said' = said /\ port'.open = port.open
           /\ DOMAIN console' = DOMAIN Clean /\ console'.eof \in BOOLEAN
           /\ console'.fail = (line.kind \in {"long", "broken"})
           /\ console'.broken = (line.kind = "broken")
           /\ line.kind = "broken" => ~console'.eof
           /\ heard' = IF line.kind \in {"end", "broken"} THEN heard ELSE Append(heard, line)
           /\ IF line.kind = "input"
              THEN port'.inbox = line.input /\ port'.ended = port.ended
              ELSE port'.inbox = <<>> /\ (port'.ended <=> line.kind \in {"quit", "end"})
<1>1. PICK line \in Upcoming, last \in BOOLEAN :
        /\ console' = [eof    |-> line.kind = "end" \/ (last /\ line.kind # "broken"),
                       fail   |-> Fails(line),
                       broken |-> line.kind = "broken"]
        /\ heard' = IF line.kind \in {"end", "broken"} THEN heard ELSE Append(heard, line)
        /\ IF EndsSession(line, last) THEN EndInput
           ELSE IF line.kind = "input" THEN Deliver(line.input[1])
           ELSE UNCHANGED runtimeVars
  BY DEF GetLine
<1>2. At("receive") /\ port.inbox = <<>> /\ ~port.ended /\ ~console.fail /\ said' = said
  BY DEF GetLine, Reading
<1>3. /\ console'.fail = (line.kind \in {"long", "broken"})
      /\ console'.broken = (line.kind = "broken") /\ DOMAIN console' = DOMAIN Clean
      /\ line.kind = "broken" => ~console'.eof
      /\ console'.eof \in BOOLEAN
  BY <1>1 DEF Fails, Clean
<1>4. DOMAIN port = DOMAIN NewPort
  BY DEF TypeOK, PortTypeOK
<1>5. /\ port'.open = port.open
      /\ IF line.kind = "input"
         THEN port'.inbox = line.input /\ port'.ended = port.ended
         ELSE port'.inbox = <<>> /\ (port'.ended <=> line.kind \in {"quit", "end"})
  <2>1. CASE line.kind \in {"quit", "end"}
    <3>1. port' = [port EXCEPT !.ended = TRUE]
      BY <1>1, <2>1 DEF EndsSession, EndInput
    <3> QED
      BY <1>2, <1>4, <2>1, <3>1 DEF NewPort
  <2>2. CASE line.kind = "input"
    <3>1. PICK input \in Inputs : line.input = <<input>>
      BY <2>2, LineRead DEF Line
    <3>2. port' = [port EXCEPT !.inbox = Append(@, input)]
      BY <1>1, <2>2, <3>1 DEF EndsSession, Deliver
    <3> QED
      BY <1>2, <1>4, <2>2, <3>1, <3>2 DEF NewPort
  <2>3. CASE line.kind \notin {"quit", "end", "input"}
    <3>1. port' = port
      BY <1>1, <2>3 DEF EndsSession, runtimeVars, vars
    <3> QED
      BY <1>2, <2>3, <3>1
  <2> QED
    BY <2>1, <2>2, <2>3
<1> QED
  BY <1>1, <1>2, <1>3, <1>5

\* What receive() was handed is one input, and the call goes on with it.
LEMMA ReceivedOne ==
  ASSUME TypeOK, Stages, StepRuntime, At("receive")
  PROVE  /\ ~console.fail /\ ~console.broken
         /\ \/ port.inbox = <<>> /\ port.ended /\ ReceiveNothing /\ port' = port
            \/ /\ ReceiveUnrouted \/ ReceiveBadArguments \/ ReceiveTrigger
               /\ \E input \in Inputs : port.inbox = <<input>>
               /\ port'.inbox = <<>> /\ port'.ended = port.ended /\ port'.open = port.open
<1>1. RuntimeStep /\ (port.inbox # <<>> \/ port.ended)
  BY DEF StepRuntime
<1>2. ~console.fail /\ ~console.broken
  BY <1>1 DEF Stages, Buffered
<1>3. ReceiveNothing \/ ReceiveUnrouted \/ ReceiveBadArguments \/ ReceiveTrigger
  BY <1>1 DEF RuntimeStep, At, Configure, Open, Listen, EnterInitial, Dispatch, PublishState,
     PublishError, PublishNothing, Trace, Close
<1>4. ASSUME port.inbox # <<>> PROVE \E input \in Inputs : port.inbox = <<input>>
  <2>1. Len(heard) \in DOMAIN heard /\ heard[Len(heard)] \in Lines
        /\ heard[Len(heard)].kind = "input" /\ heard[Len(heard)].input = port.inbox
    BY <1>4, LenProperties, ElementOfSeq, EmptySeq DEF Stages, Buffered
  <2> QED
    BY <2>1 DEF Lines, Line
<1>5. CASE ReceiveNothing
  <2>1. port.open
    <3>1. In("serving")
      BY DEF Stages, InPlace, At, Idle
    <3> QED
      BY <3>1 DEF Stages, InSession, In
  <2>2. port.inbox = <<>>
    BY <1>5, <2>1, Behaved DEF ReceiveNothing, NothingReceived
  <2> QED
    BY <1>1, <1>2, <1>5, <2>2 DEF ReceiveNothing
<1>6. CASE ReceiveUnrouted \/ ReceiveBadArguments \/ ReceiveTrigger
  <2>1. port.inbox # <<>> /\ port' = [port EXCEPT !.inbox = Tail(@)]
    BY <1>6 DEF ReceiveUnrouted, ReceiveBadArguments, ReceiveTrigger, Arrives
  <2>2. PICK input \in Inputs : port.inbox = <<input>>
    BY <1>4, <2>1
  <2>3. port'.inbox = <<>> /\ port'.ended = port.ended /\ port'.open = port.open
    BY <2>1, <2>2 DEF TypeOK, PortTypeOK, NewPort
  <2> QED
    BY <1>2, <1>6, <2>2, <2>3
<1> QED
  BY <1>3, <1>5, <1>6

\* Nothing else takes from the port, or hears that the input has ended.
LEMMA InboxOnlyRead ==
  ASSUME TypeOK, StepRuntime, ~At("receive")
  PROVE  port'.inbox = port.inbox /\ port'.ended = port.ended
<1>1. \/ Configure \/ Open \/ Listen \/ EnterInitial \/ Dispatch \/ PublishState \/ PublishError
      \/ PublishNothing \/ Trace \/ Close
  BY DEF StepRuntime, RuntimeStep, ReceiveNothing, ReceiveUnrouted, ReceiveBadArguments,
     ReceiveTrigger, Arrives
<1>2. CASE Configure \/ Open \/ Listen \/ Close
  BY <1>2 DEF Configure, Open, Listen, Close, TypeOK, PortTypeOK, NewPort
<1>3. CASE EnterInitial \/ Dispatch \/ PublishState \/ PublishError \/ PublishNothing \/ Trace
  BY <1>3 DEF EnterInitial, Dispatch, PublishState, PublishError, PublishNothing, Trace
<1> QED
  BY <1>1, <1>2, <1>3

LEMMA StepBuffered ==
  ASSUME TypeOK, Stages, [ProgramNext]_programVars
  PROVE  Buffered'
<1> USE DEF Stages
<1>1. CASE Alone \/ Files \/ StartRuntime \/ CallService \/ StopRuntime
  <2>1. UNCHANGED <<heard, said, console, port>>
    BY <1>1, AloneChanges, FilesChange, CallsMade DEF vars
  <2>2. Idle
    BY <1>1, AloneGoes, FilesGo, CallsMade DEF InPlace, In
  <2>3. ~At("receive")
    BY <2>2 DEF At, Idle
  <2> QED
    BY <2>1, <2>3 DEF Buffered
<1>2. CASE StepRuntime
  <2>1. heard' = heard /\ console' = console
        /\ (said' = said \/ said' = Append(said, Spoken(call.say)))
    BY <1>2 DEF StepRuntime
  <2>2. said' \in Seq({said'[i] : i \in DOMAIN said'})
    BY <2>1, OwnElements DEF Buffered
  <2>3. port'.inbox = <<>> /\ ~console.fail /\ ~console.broken
    BY <1>2, ReceivedOne, InboxOnlyRead DEF Buffered
  <2> QED
    BY <2>1, <2>2, <2>3 DEF Buffered
<1>3. CASE Recover
  <2>1. /\ UNCHANGED <<heard, port, call>> /\ (said' = said \/ said' = Append(said, TooLong))
        /\ console' = [console EXCEPT !.fail = FALSE]
    BY <1>3, ConsoleOnly DEF Recover, runtimeVars, vars
  <2>2. said' \in Seq({said'[i] : i \in DOMAIN said'})
    BY <2>1, OwnElements DEF Buffered
  <2>3. /\ DOMAIN console' = DOMAIN Clean /\ ~console'.fail /\ console'.eof = console.eof
        /\ console'.broken = console.broken
    BY <2>1 DEF Buffered, Clean
  <2> QED
    BY <2>1, <2>2, <2>3 DEF Buffered, At
<1>4. CASE GetLine
  <2>1. PICK line \in Upcoming :
          /\ At("receive") /\ port.inbox = <<>> /\ ~port.ended /\ ~console.fail
          /\ said' = said /\ port'.open = port.open
          /\ DOMAIN console' = DOMAIN Clean /\ console'.eof \in BOOLEAN
          /\ console'.fail = (line.kind \in {"long", "broken"})
          /\ console'.broken = (line.kind = "broken")
          /\ line.kind = "broken" => ~console'.eof
          /\ heard' = IF line.kind \in {"end", "broken"} THEN heard ELSE Append(heard, line)
          /\ IF line.kind = "input"
             THEN port'.inbox = line.input /\ port'.ended = port.ended
             ELSE port'.inbox = <<>> /\ (port'.ended <=> line.kind \in {"quit", "end"})
    BY <1>4, GetLineEffects
  <2>2. At("receive")'
    BY <1>4, <2>1, ConsoleOnly DEF At
  <2>3. CASE line.kind \in {"end", "broken"}
    <3>1. heard' = heard /\ said' = said /\ port'.inbox = <<>>
      BY <2>1, <2>3
    <3>2. console'.fail => ~port'.ended
      BY <2>1, <2>3
    <3>3. console'.broken => ~port'.ended /\ ~console'.eof
      BY <2>1, <2>3
    <3>4. DOMAIN console' = DOMAIN Clean /\ console'.eof \in BOOLEAN
      BY <2>1
    <3> QED
      BY <2>2, <3>1, <3>2, <3>3, <3>4 DEF Buffered
  <2>4. CASE line.kind \notin {"end", "broken"}
    <3>1. line \in Lines /\ Len(heard) < MaxLines
      BY <2>4, LineRead DEF Line
    <3>2. /\ heard' = Append(heard, line) /\ heard \in Seq(Lines)
          /\ Len(heard) \in Nat /\ MaxLines \in Nat
      BY <2>1, <2>4, LenProperties, StreamAssumption DEF Buffered
    <3>3. /\ heard' \in Seq(Lines) /\ Len(heard') = Len(heard) + 1 /\ heard' # <<>>
          /\ heard'[Len(heard')] = line
      BY <3>1, <3>2
    <3>4. Len(heard') <= MaxLines
      BY <3>1, <3>2, <3>3
    <3> QED
      BY <2>1, <2>2, <2>4, <3>3, <3>4 DEF Buffered
  <2> QED
    BY <2>3, <2>4
<1>5. CASE UNCHANGED programVars
  BY <1>5 DEF Buffered, At, programVars, vars
<1> QED
  BY <1>1, <1>2, <1>3, <1>4, <1>5, StepKinds

LEMMA StagesHold == ProgramSpec => [](Known /\ BoundFit /\ Stages)
<1>1. Known /\ BoundFit /\ Stages /\ [ProgramNext]_programVars => Stages'
  BY StepMainTypeOK, StepInPlace, StepPrepared, StepBeginnings, StepInSession, StepBuffered
     DEF Stages, Known
<1> QED
  BY <1>1, InitStages, BoundFitHolds, PTL DEF ProgramSpec

\* When the program is over, nothing happens any more.
LEMMA ExitIsFinal ==
  ASSUME TypeOK, Stages, In("exit"), [ProgramNext]_programVars
  PROVE  UNCHANGED programVars
<1> USE DEF Stages
<1>1. ~Alone /\ ~Files
  BY AloneGoes, FilesGo DEF In
<1>2. ~StartRuntime /\ ~CallService /\ ~StopRuntime
  BY DEF StartRuntime, CallService, StopRuntime, In
<1>3. Idle
  BY DEF InPlace, In
<1>4. ~StepRuntime /\ ~Recover /\ ~GetLine
  BY <1>3, CallFollows DEF StepRuntime, Recover, GetLine, Reading, At, Idle
<1> QED
  BY <1>1, <1>2, <1>4, StepKinds

-----------------------------------------------------------------------------
(* The diagram. *)

\* What is printed is printed by one step each.
LEMMA WhoShows ==
  ASSUME MainTypeOK, [ProgramNext]_programVars
  PROVE  /\ main'.drawn = main.drawn \/ Export
         /\ main'.tally = main.tally \/ Summary
<1>1. CASE ReadWord
  <2>1. main.drawn = {} /\ main.tally = {}
    BY <1>1 DEF ReadWord, In, MainTypeOK
  <2> QED
    BY <1>1, <2>1, WordsRead
<1>2. CASE Check \/ EndOfWords \/ ReadSetup \/ ReadMachine \/ Bind \/ SetUpRuntime
           \/ StartRuntime \/ Started \/ CallService \/ Served \/ StopRuntime
  <2>1. \/ \E pc \in Places \ {"exit"} : Goto(pc)
        \/ \E n : Exit(n)
    BY <1>2 DEF Check, EndOfWords, ReadSetup, ReadMachine, Bind, SetUpRuntime, StartRuntime,
       Started, CallService, Served, StopRuntime, Places
  <2> QED
    BY <2>1, WhereTo
<1>3. CASE Summary
  BY <1>3 DEF Summary, MainTypeOK, NewMain
<1>4. CASE Export
  BY <1>4 DEF Export, MainTypeOK, NewMain
<1>5. CASE UNCHANGED main
  BY <1>5
<1> QED
  BY <1>1, <1>2, <1>3, <1>4, <1>5 DEF ProgramNext, MainStep, StepRuntime, Recover, GetLine,
     programVars

\* If there is a picture, it is of the machine that was bound, and stays so.
Drawn ==
  main.drawn # {} => /\ In("exit") /\ machine.model # Null
                     /\ main.drawn = {Picture(Configured[1], Configured[2])}

LEMMA StepDrawn ==
  ASSUME TypeOK, Stages, Drawn, [ProgramNext]_programVars
  PROVE  Drawn'
<1> USE DEF Stages
<1>1. CASE In("exit")
  <2>1. UNCHANGED programVars
    BY <1>1, ExitIsFinal
  <2> QED
    BY <2>1 DEF Drawn, In, Configured, programVars, vars
<1>2. CASE Export
  <2>1. /\ UNCHANGED <<machine, models>> /\ In("mode")
        /\ main' = [main EXCEPT !.pc = "exit", !.drawn = {Picture(Configured[1], Configured[2])}]
    BY <1>2 DEF Export, runtimeVars, vars
  <2>2. /\ main'.pc = "exit" /\ main'.drawn = {Picture(Configured[1], Configured[2])}
        /\ Configured' = Configured
    BY <2>1 DEF MainTypeOK, NewMain, Configured
  <2>3. machine'.model # Null
    BY <2>1 DEF Prepared
  <2> QED
    BY <2>2, <2>3 DEF Drawn, In
<1>3. CASE ~In("exit") /\ ~Export
  <2>1. main.drawn = {}
    BY <1>3 DEF MainTypeOK, In
  <2>2. main'.drawn = main.drawn
    BY <1>3, WhoShows
  <2> QED
    BY <2>1, <2>2 DEF Drawn
<1> QED
  BY <1>1, <1>2, <1>3

\* A picture that was drawn is of a model that can be read.
LEMMA DrawnReads ==
  ASSUME TypeOK, BoundFit, Drawn
  PROVE  DrawsTheMachine
<1> SUFFICES ASSUME NEW picture \in main.drawn
             PROVE  /\ ReadsLike(picture, Configured[1], {text.args : text \in Texts})
                    /\ picture.entry = {setups[machine.setup].initial}
  BY DEF DrawsTheMachine
<1>1. picture = Picture(Bound, machine.initial) /\ machine.model # Null
  BY DEF Drawn, Configured, Bound
<1>2. /\ Bound \in LoadedModels \cup {EmptyModel} /\ HasState(Bound, machine.initial)
      /\ StateName(Bound, machine.initial) = setups[machine.setup].initial
  BY <1>1, InitialIsNamed
<1>3. Bound # EmptyModel
  BY <1>2 DEF HasState, EmptyModel, EmptyFunction
<1>4. Readable(Bound) /\ Len(Bound.conditions) \in Nat
  <2>1. WithinCapacities(Bound) /\ Indexed(Bound) /\ Validate(Bound) = "Ok"
    BY <1>2, <1>3, LoadedAssumption
  <2>2. kMaxConditions \in Nat
    BY CapacityAssumption
  <2> QED
    BY <2>1, <2>2 DEF Readable, WithinCapacities
<1>5. ReadsLike(picture, Bound, {text.args : text \in Texts})
  BY <1>1, <1>4, PictureReads
<1>6. picture.entry = {setups[machine.setup].initial}
  BY <1>1, <1>2 DEF Picture, HasState
<1>7. Configured[1] = Bound
  BY DEF Configured, Bound
<1> QED
  BY <1>5, <1>6, <1>7

\* Of every model there is, the diagram leads where the machine goes.
THEOREM DrawsAsItMoves == ProgramSpec => []DrawsTheMachine
<1>1. ProgramInit => Drawn
  BY DEF ProgramInit, NewMain, Drawn
<1>2. Known /\ Stages /\ Drawn /\ [ProgramNext]_programVars => Drawn'
  BY StepDrawn DEF Known
<1>3. Known /\ BoundFit /\ Drawn => DrawsTheMachine
  BY DrawnReads DEF Known
<1> QED
  BY <1>1, <1>2, <1>3, StagesHold, PTL DEF ProgramSpec

-----------------------------------------------------------------------------
(* Counting in a transcript that grows. *)

\* One more of the first n + 1 numbers.
LEMMA OneMore ==
  ASSUME NEW n \in Nat, NEW A \in SUBSET (1 .. n)
  PROVE  /\ IsFiniteSet(A) /\ Cardinality(A) \in Nat /\ Cardinality(A) <= n
         /\ IsFiniteSet(A \cup {n + 1}) /\ Cardinality(A \cup {n + 1}) = Cardinality(A) + 1
<1>1. IsFiniteSet(1 .. n) /\ Cardinality(1 .. n) = n
  <2>1. 1 \in Int /\ n \in Int
    OBVIOUS
  <2>2. IsFiniteSet(1 .. n) /\ Cardinality(1 .. n) = IF 1 > n THEN 0 ELSE n - 1 + 1
    BY <2>1, FS_Interval
  <2> QED
    BY <2>2
<1>2. IsFiniteSet(A) /\ Cardinality(A) <= n
  BY <1>1, FS_Subset
<1>3. Cardinality(A) \in Nat
  BY <1>2, FS_CardinalityType
<1>4. n + 1 \notin A
  OBVIOUS
<1>5. /\ IsFiniteSet(A \cup {n + 1})
      /\ Cardinality(A \cup {n + 1}) = IF n + 1 \in A THEN Cardinality(A) ELSE Cardinality(A) + 1
  BY <1>2, FS_AddElement
<1> QED
  BY <1>2, <1>3, <1>4, <1>5

\* What an append does to a sequence, seen from its positions.
LEMMA Longer ==
  ASSUME NEW s, s \in Seq({s[i] : i \in DOMAIN s}), NEW e
  PROVE  LET t == Append(s, e) IN
         /\ Len(s) \in Nat /\ Len(t) = Len(s) + 1
         /\ DOMAIN s = 1 .. Len(s) /\ DOMAIN t = 1 .. Len(s) + 1
         /\ \A i \in 1 .. Len(s) : t[i] = s[i]
         /\ t[Len(s) + 1] = e
<1> DEFINE S == {s[i] : i \in DOMAIN s} \cup {e}
<1>1. s \in Seq(S)
  OBVIOUS
<1>2. e \in S
  OBVIOUS
<1> HIDE DEF S
<1> QED
  BY <1>1, <1>2, LenProperties, AppendProperties

\* The last of some positions.
LEMMA FinalIs ==
  ASSUME NEW n \in Nat, NEW S \in SUBSET (1 .. n), S # {}
  PROVE  Final(S) \in S /\ \A q \in S : Final(S) >= q
<1>1. S \in SUBSET Int /\ n \in Int /\ \A x \in S : x <= n
  OBVIOUS
<1>2. \E p \in S : \A q \in S : q <= p
  BY <1>1, GreatestInteger
<1>3. \E p \in S : \A q \in S : p >= q
  BY <1>1, <1>2
<1> QED
  BY <1>3 DEF Final

LEMMA FirstIs ==
  ASSUME NEW S \in SUBSET Nat, S # {}
  PROVE  First(S) \in S /\ \A q \in S : First(S) <= q
BY Least DEF First

\* Of a transcript that grows, what was announced by then stays.
LEMMA CurrentKept ==
  ASSUME NEW s, s \in Seq({s[i] : i \in DOMAIN s}), NEW e, NEW n \in Nat, n <= Len(s),
         NEW i \in Announced(s), i <= n
  PROVE  CurrentIn(Append(s, e), n) = CurrentIn(s, n)
<1> DEFINE t == Append(s, e)
           S == {k \in Announced(s) : k <= n}
           T == {k \in Announced(t) : k <= n}
<1>1. /\ Len(s) \in Nat /\ DOMAIN s = 1 .. Len(s) /\ DOMAIN t = 1 .. Len(s) + 1
      /\ \A k \in 1 .. Len(s) : t[k] = s[k]
  BY Longer
<1> HIDE DEF t
<1>2. S = T
  BY <1>1 DEF Announced
<1>3. S \in SUBSET (1 .. n) /\ S # {}
  BY <1>1 DEF Announced
<1>4. Final(S) \in S
  BY <1>3, FinalIs
<1>5. Final(S) \in 1 .. Len(s)
  BY <1>1, <1>4 DEF Announced
<1>6. t[Final(T)].name = s[Final(S)].name
  BY <1>1, <1>2, <1>5
<1> QED
  BY <1>6 DEF CurrentIn, t

\* A state is announced; or something else is said.
LEMMA Announces ==
  ASSUME NEW s, s \in Seq({s[i] : i \in DOMAIN s}), NEW e
  PROVE  LET t == Append(s, e) IN
         IF e.kind = "state"
         THEN /\ Announced(t) = Announced(s) \cup {Len(s) + 1}
              /\ CurrentIn(t, Len(t)) = e.name
         ELSE /\ Announced(t) = Announced(s)
              /\ Announced(s) # {} => CurrentIn(t, Len(t)) = CurrentIn(s, Len(s))
<1> DEFINE t == Append(s, e)
<1>1. /\ Len(s) \in Nat /\ DOMAIN s = 1 .. Len(s) /\ DOMAIN t = 1 .. Len(s) + 1
      /\ \A k \in 1 .. Len(s) : t[k] = s[k]
      /\ t[Len(s) + 1] = e /\ Len(t) = Len(s) + 1
  BY Longer
<1>2. ASSUME Announced(s) # {}, e.kind # "state"
      PROVE  CurrentIn(t, Len(t)) = CurrentIn(s, Len(s))
  <2>1. PICK i \in Announced(s) : i <= Len(s)
    BY <1>1, <1>2 DEF Announced
  <2>2. CurrentIn(t, Len(s)) = CurrentIn(s, Len(s))
    BY <1>1, <2>1, CurrentKept
  <2>3. {k \in Announced(t) : k <= Len(t)} = {k \in Announced(t) : k <= Len(s)}
    <3> HIDE DEF t
    <3> QED
      BY <1>1, <1>2 DEF Announced
  <2>4. CurrentIn(t, Len(t)) = CurrentIn(t, Len(s))
    <3> HIDE DEF t
    <3> QED
      BY <2>3 DEF CurrentIn
  <2> QED
    BY <2>2, <2>4
<1>3. ASSUME e.kind = "state" PROVE CurrentIn(t, Len(t)) = e.name
  <2> DEFINE T == {k \in Announced(t) : k <= Len(t)}
  <2> HIDE DEF t
  <2>1. T \in SUBSET (1 .. Len(s) + 1) /\ Len(s) + 1 \in T
    BY <1>1, <1>3 DEF Announced
  <2>2. Final(T) \in T /\ Final(T) >= Len(s) + 1
    <3> DEFINE n == Len(s) + 1
    <3>1. n \in Nat /\ T \in SUBSET (1 .. n) /\ T # {} /\ n \in T
      BY <1>1, <2>1
    <3> HIDE DEF n, T
    <3>2. Final(T) \in T /\ \A q \in T : Final(T) >= q
      BY <3>1, FinalIs
    <3> QED
      BY <3>1, <3>2 DEF n
  <2>3. Final(T) = Len(s) + 1
    BY <1>1, <2>1, <2>2
  <2> QED
    BY <1>1, <2>3 DEF CurrentIn
<1> HIDE DEF t
<1>4. IF e.kind = "state" THEN Announced(t) = Announced(s) \cup {Len(s) + 1}
      ELSE Announced(t) = Announced(s)
  BY <1>1 DEF Announced
<1> QED
  BY <1>2, <1>3, <1>4 DEF t

\* What one step says, and how the history has it.
LEMMA SaysOneThing ==
  ASSUME TypeOK, Stages, [ProgramNext]_programVars
  PROVE  \/ /\ UNCHANGED <<said, history.states, history.errors, history.last>>
            /\ ~PublishState \/ ~StepRuntime
         \/ /\ Recover /\ said' = Append(said, TooLong)
            /\ UNCHANGED <<history.states, history.errors, history.last>>
         \/ /\ StepRuntime /\ PublishState
            /\ call.say.kind = "state" /\ said' = Append(said, call.say)
            /\ history'.states = history.states + 1 /\ history'.errors = history.errors
            /\ history'.last = call.say.name
         \/ /\ StepRuntime /\ PublishError
            /\ call.say.kind = "error" /\ said' = Append(said, Complaint)
            /\ history'.errors = history.errors + 1
            /\ UNCHANGED <<history.states, history.last>>
<1> USE DEF Stages
<1>0. TypeOK /\ HistoryTypeOK
  BY DEF TypeOK
<1>1. CASE Alone \/ Files \/ StartRuntime \/ CallService \/ StopRuntime
  <2>1. UNCHANGED <<said, history>>
    BY <1>1, AloneChanges, FilesChange, CallsMade DEF vars
  <2>2. ~StepRuntime
    <3>1. Idle
      BY <1>1, AloneGoes, FilesGo, <1>0 DEF InPlace, In, StartRuntime, CallService, StopRuntime
    <3> QED
      BY <1>0, <3>1, CallFollows DEF StepRuntime
  <2> QED
    BY <2>1, <2>2
<1>2. CASE Recover \/ GetLine \/ UNCHANGED programVars
  <2>1. UNCHANGED history
    BY <1>2, ConsoleOnly DEF programVars, vars
  <2>2. \/ UNCHANGED said
        \/ Recover /\ said' = Append(said, TooLong)
    BY <1>2 DEF Recover, GetLine, programVars
  <2>3. ~PublishState \/ ~StepRuntime
    <3>1. CASE Recover \/ GetLine
      BY <3>1 DEF Recover, GetLine, Reading, PublishState, At
    <3>2. CASE UNCHANGED programVars
      <4>1. ~PublishState
        BY <3>2, <1>0, PublishEnds DEF programVars, vars, PublishState, At, TypeOK
      <4> QED
        BY <4>1
    <3> QED
      BY <1>2, <3>1, <3>2
  <2> QED
    BY <2>1, <2>2, <2>3
<1>3. CASE StepRuntime
  <2>0. /\ RuntimeStep
        /\ said' = IF At("publish") /\ call.say.kind # "nothing"
                   THEN Append(said, Spoken(call.say)) ELSE said
    BY <1>3 DEF StepRuntime
  <2>1. CASE PublishState
    <3>1. /\ history' = [history EXCEPT !.states = @ + 1, !.last = call.say.name, !.behind = FALSE]
          /\ At("publish") /\ call.say.kind = "state"
      BY <2>1 DEF PublishState
    <3>2. said' = Append(said, call.say)
      BY <2>0, <3>1 DEF Spoken
    <3>3. /\ history'.states = history.states + 1 /\ history'.errors = history.errors
          /\ history'.last = call.say.name
      BY <1>0, <3>1 DEF HistoryTypeOK, NewHistory
    <3> QED
      BY <1>3, <2>1, <3>1, <3>2, <3>3
  <2>2. CASE PublishError
    <3>1. /\ history' = [history EXCEPT !.errors = @ + 1]
          /\ At("publish") /\ call.say.kind = "error"
      BY <2>2 DEF PublishError
    <3>2. said' = Append(said, Complaint)
      BY <2>0, <3>1 DEF Spoken
    <3>3. /\ history'.errors = history.errors + 1
          /\ UNCHANGED <<history.states, history.last>>
      BY <1>0, <3>1 DEF HistoryTypeOK, NewHistory
    <3> QED
      BY <1>3, <2>2, <3>1, <3>2, <3>3
  <2>3. CASE EnterInitial
    <3>1. UNCHANGED history \/ history' = [history EXCEPT !.entered = @ + 1]
      BY <2>3 DEF EnterInitial
    <3>2. UNCHANGED <<history.states, history.errors, history.last>>
      BY <1>0, <3>1 DEF HistoryTypeOK, NewHistory
    <3>3. At("listen")
      BY <2>3 DEF EnterInitial
    <3> QED
      BY <2>0, <3>2, <3>3 DEF At, PublishState
  <2>4. CASE ~PublishState /\ ~PublishError /\ ~EnterInitial
    <3>1. UNCHANGED history
      BY <2>0, <2>4 DEF RuntimeStep, Configure, Open, Listen, ReceiveNothing, ReceiveUnrouted,
         ReceiveBadArguments, ReceiveTrigger, Dispatch, PublishNothing, Trace, Close
    <3>2. ~At("publish") \/ call.say.kind = "nothing"
      BY <2>0, <2>4 DEF RuntimeStep, Configure, Open, Listen, ReceiveNothing, ReceiveUnrouted,
         ReceiveBadArguments, ReceiveTrigger, Arrives, Dispatch, PublishNothing, Trace, Close, At
    <3> QED
      BY <2>0, <2>4, <3>1, <3>2
  <2> QED
    BY <2>1, <2>2, <2>3, <2>4
<1> QED
  BY <1>1, <1>2, <1>3, StepKinds

Errors(told) == {i \in DOMAIN told : told[i].kind = "error"}

\* The history is what a reader of the transcript counts.
Noted ==
  /\ history.states = Cardinality(Announced(said))
  /\ history.errors = Cardinality(Errors(said))
  /\ history.states > 0 => history.last = CurrentIn(said, Len(said))

LEMMA StepNoted ==
  ASSUME TypeOK, Stages, Noted, [ProgramNext]_programVars
  PROVE  Noted'
<1>0. /\ said \in Seq({said[i] : i \in DOMAIN said})
      /\ history.states \in Nat /\ history.errors \in Nat
  BY DEF Stages, Buffered, TypeOK, HistoryTypeOK
<1> DEFINE More(e) == Append(said, e)
\* A set of positions, and its size.
<1>1. ASSUME NEW e
      PROVE  /\ Announced(More(e)) = Announced(said) \/ Announced(More(e)) = Announced(said) \cup {Len(said) + 1}
             /\ Cardinality(Announced(More(e))) = Cardinality(Announced(said)) + (IF e.kind = "state" THEN 1 ELSE 0)
             /\ Cardinality(Errors(More(e))) = Cardinality(Errors(said)) + (IF e.kind = "error" THEN 1 ELSE 0)
  <2>1. /\ Len(said) \in Nat /\ DOMAIN said = 1 .. Len(said) /\ DOMAIN More(e) = 1 .. Len(said) + 1
        /\ \A k \in 1 .. Len(said) : More(e)[k] = said[k]
        /\ More(e)[Len(said) + 1] = e
    BY <1>0, Longer
  <2> HIDE DEF More
  <2>2. Announced(said) \in SUBSET (1 .. Len(said)) /\ Errors(said) \in SUBSET (1 .. Len(said))
    BY <2>1 DEF Announced, Errors
  <2>3. Announced(More(e)) = IF e.kind = "state" THEN Announced(said) \cup {Len(said) + 1}
                             ELSE Announced(said)
    BY <2>1 DEF Announced
  <2>4. Errors(More(e)) = IF e.kind = "error" THEN Errors(said) \cup {Len(said) + 1}
                          ELSE Errors(said)
    BY <2>1 DEF Errors
  <2>5. /\ Cardinality(Announced(said) \cup {Len(said) + 1}) = Cardinality(Announced(said)) + 1
        /\ Cardinality(Errors(said) \cup {Len(said) + 1}) = Cardinality(Errors(said)) + 1
        /\ Cardinality(Announced(said)) \in Nat /\ Cardinality(Errors(said)) \in Nat
    BY <2>1, <2>2, OneMore
  <2> QED
    BY <2>3, <2>4, <2>5
<1>2. Announced(said) = {} => Cardinality(Announced(said)) = 0
  BY FS_EmptySet
<1>3. CASE UNCHANGED <<said, history.states, history.errors, history.last>>
  BY <1>3 DEF Noted
<1>4. CASE said' = More(TooLong) /\ UNCHANGED <<history.states, history.errors, history.last>>
  <2>1. TooLong.kind = "long"
    BY DEF TooLong
  <2>2. Announced(said) # {} => CurrentIn(More(TooLong), Len(More(TooLong))) = CurrentIn(said, Len(said))
    BY <1>0, <2>1, Announces
  <2> HIDE DEF More
  <2> QED
    BY <1>0, <1>1, <1>2, <1>4, <2>1, <2>2 DEF Noted
<1>5. CASE /\ call.say.kind = "state" /\ said' = More(call.say)
           /\ history'.states = history.states + 1 /\ history'.errors = history.errors
           /\ history'.last = call.say.name
  <2>1. CurrentIn(More(call.say), Len(More(call.say))) = call.say.name
    BY <1>0, <1>5, Announces
  <2> HIDE DEF More
  <2> QED
    BY <1>0, <1>1, <1>5, <2>1 DEF Noted
<1>6. CASE /\ said' = More(Complaint) /\ history'.errors = history.errors + 1
           /\ UNCHANGED <<history.states, history.last>>
  <2>1. Complaint.kind = "error"
    BY DEF Complaint, AnError
  <2>2. Announced(said) # {} => CurrentIn(More(Complaint), Len(More(Complaint))) = CurrentIn(said, Len(said))
    BY <1>0, <2>1, Announces
  <2> HIDE DEF More
  <2> QED
    BY <1>0, <1>1, <1>2, <1>6, <2>1, <2>2 DEF Noted
<1> QED
  BY <1>3, <1>4, <1>5, <1>6, SaysOneThing

-----------------------------------------------------------------------------
(* The counters, and what a reader of the session counts. *)

\* Once the files are bound, the machine keeps them.
LEMMA MachineKept ==
  ASSUME TypeOK, Stages, [ProgramNext]_programVars, ~Files
  PROVE  /\ UNCHANGED <<models, setups>>
         /\ machine'.model = machine.model /\ machine'.setup = machine.setup
         /\ machine'.initial = machine.initial
<1> USE DEF Stages
<1>1. CASE Alone \/ StartRuntime \/ CallService \/ StopRuntime
  BY <1>1, AloneChanges, CallsMade DEF vars
<1>2. CASE Recover \/ GetLine \/ UNCHANGED programVars
  BY <1>2, ConsoleOnly DEF programVars, vars
<1>3. CASE StepRuntime
  <2>1. CASE UNCHANGED <<machine, models, setups>>
    BY <2>1
  <2>2. CASE EnterInitial
    BY <2>2 DEF EnterInitial, MachineStart, TypeOK, MachineTypeOK, NewMachine
  <2>3. CASE Dispatch
    <3>1. UNCHANGED <<models, setups>> /\
          \/ machine' = machine \/ machine' = [machine EXCEPT !.rejections = @ + 1]
          \/ \E target : machine' = [machine EXCEPT !.current = target, !.transitions = @ + 1]
      BY <2>3, FireCases DEF Dispatch
    <3> QED
      BY <3>1 DEF TypeOK, MachineTypeOK, NewMachine
  <2> QED
    BY <1>3, <2>1, <2>2, <2>3 DEF StepRuntime, RuntimeStep, Configure, Open, Listen, ReceiveNothing,
       ReceiveUnrouted, ReceiveBadArguments, ReceiveTrigger, PublishState, PublishError,
       PublishNothing, Trace, Close
<1> QED
  BY <1>1, <1>2, <1>3, StepKinds

\* Beside service(), only dispatch counts for the runtime, and counts twice.
LEMMA CountsBoth ==
  ASSUME TypeOK, StepRuntime, ~At("receive")
  PROVE  /\ rt'.received = rt.received
         /\ \E d \in {0, 1} : /\ rt'.rejected = rt.rejected + d
                              /\ machine'.rejections = machine.rejections + d
<1> USE DEF TypeOK, MembersTypeOK, NewRuntime, MachineTypeOK, NewMachine
<1>1. CASE EnterInitial
  BY <1>1 DEF EnterInitial, MachineStart
<1>2. CASE Dispatch
  <2>1. CASE Refuses(result')
    <3>1. rt' = [rt EXCEPT !.rejected = @ + 1]
      BY <1>2, <2>1 DEF Dispatch, Refuses
    <3>2. machine' = [machine EXCEPT !.rejections = @ + 1]
      BY <1>2, <2>1, FireCases DEF Dispatch, Refuses
    <3> QED
      BY <3>1, <3>2
  <2>2. CASE ~Refuses(result')
    <3>1. rt' = rt
      BY <1>2, <2>2 DEF Dispatch
    <3>2. machine'.rejections = machine.rejections
      BY <1>2, <2>2, FireCases DEF Dispatch, Refuses
    <3> QED
      BY <3>1, <3>2
  <2> QED
    BY <2>1, <2>2
<1>3. CASE \/ Configure \/ Open \/ Listen \/ PublishState \/ PublishError \/ PublishNothing \/ Trace
           \/ Close
  <2>1. UNCHANGED <<rt, machine>>
    BY <1>3 DEF Configure, Open, Listen, PublishState, PublishError, PublishNothing, Trace, Close
  <2> QED
    BY <2>1
<1> QED
  BY <1>1, <1>2, <1>3 DEF StepRuntime, RuntimeStep, ReceiveNothing, ReceiveUnrouted,
     ReceiveBadArguments, ReceiveTrigger, Arrives

\* An input with arguments that cannot be parsed, on a channel that there is.
BadInput(input) == /\ input.text.status # "Ok"
                   /\ FindTriggerForChannel(Configured[1], input.channel) # kNoTrigger
Waiting         == IF port.inbox # <<>> /\ BadInput(port.inbox[1]) THEN 1 ELSE 0

Counted  == rt.received + Len(port.inbox) = Cardinality(InputLines)
Declined == rt.rejected + Waiting = machine.rejections + Cardinality(BadLines)

\* Before the session there is nothing to count.
LEMMA NothingRead ==
  ASSUME heard = <<>>
  PROVE  InputLines = {} /\ BadLines = {}
<1>1. DOMAIN heard = {}
  OBVIOUS
<1>2. InputLines = {}
  BY <1>1 DEF InputLines
<1> QED
  BY <1>2 DEF BadLines

\* There are so many of them.
LEMMA SomeLines ==
  ASSUME heard \in Seq(Lines)
  PROVE  Cardinality(InputLines) \in Nat /\ Cardinality(BadLines) \in Nat
<1>1. Len(heard) \in Nat /\ DOMAIN heard = 1 .. Len(heard)
  BY LenProperties
<1>2. InputLines \in SUBSET (1 .. Len(heard)) /\ BadLines \in SUBSET (1 .. Len(heard))
  BY <1>1 DEF InputLines, BadLines
<1> QED
  BY <1>1, <1>2, OneMore

\* The inputs among the lines, when one more was read.
LEMMA OneMoreLine ==
  ASSUME heard \in Seq(Lines), NEW line, heard' = Append(heard, line), Configured' = Configured
  PROVE  /\ Cardinality(InputLines) \in Nat /\ Cardinality(BadLines) \in Nat
         /\ Cardinality(InputLines') = Cardinality(InputLines) + (IF line.kind = "input" THEN 1 ELSE 0)
         /\ Cardinality(BadLines') = Cardinality(BadLines) +
              (IF line.kind = "input" /\ BadInput(line.input[1]) THEN 1 ELSE 0)
<1>1. heard \in Seq({heard[i] : i \in DOMAIN heard})
  <2>1. heard \in [1 .. Len(heard) -> {heard[i] : i \in DOMAIN heard}] /\ Len(heard) \in Nat
    BY LenProperties
  <2> QED
    BY <2>1
<1>2. /\ Len(heard) \in Nat /\ DOMAIN heard = 1 .. Len(heard) /\ DOMAIN heard' = 1 .. Len(heard) + 1
      /\ \A k \in 1 .. Len(heard) : heard'[k] = heard[k]
      /\ heard'[Len(heard) + 1] = line
  BY <1>1, Longer
<1>3. InputLines \in SUBSET (1 .. Len(heard)) /\ BadLines \in SUBSET (1 .. Len(heard))
  BY <1>2 DEF InputLines, BadLines
<1>4. InputLines' = IF line.kind = "input" THEN InputLines \cup {Len(heard) + 1} ELSE InputLines
  BY <1>2 DEF InputLines
<1>5. \A k : k \in BadLines <=> k \in InputLines /\ BadInput(heard[k].input[1])
  BY DEF BadLines, BadInput
<1>6. \A k : k \in BadLines' <=> k \in InputLines' /\ BadInput(heard'[k].input[1])
  BY DEF BadLines, BadInput
<1>7. BadLines' = IF line.kind = "input" /\ BadInput(line.input[1])
                  THEN BadLines \cup {Len(heard) + 1} ELSE BadLines
  <2> HIDE DEF BadInput
  <2>1. \A k \in InputLines : k \in 1 .. Len(heard) /\ heard'[k] = heard[k]
    BY <1>2, <1>3
  <2>2. Len(heard) + 1 \notin InputLines
    BY <1>2, <1>3
  <2> QED
    BY <1>2, <1>4, <1>5, <1>6, <2>1, <2>2
<1>8. /\ Cardinality(InputLines) \in Nat /\ Cardinality(BadLines) \in Nat
      /\ Cardinality(InputLines \cup {Len(heard) + 1}) = Cardinality(InputLines) + 1
      /\ Cardinality(BadLines \cup {Len(heard) + 1}) = Cardinality(BadLines) + 1
  BY <1>2, <1>3, OneMore
<1> QED
  BY <1>4, <1>7, <1>8

\* A line that is an input is counted when it is read, until the runtime has
\* received it; what it rejects, and the machine does not, are bad arguments.
LEMMA StepCounted ==
  ASSUME TypeOK, Paired, Stages, Counted, Declined, [ProgramNext]_programVars
  PROVE  Counted' /\ Declined'
<1> USE DEF Stages
<1>0. /\ heard \in Seq(Lines) /\ port.inbox \in Seq(Inputs)
      /\ rt.received \in Nat /\ rt.rejected \in Nat /\ machine.rejections \in Nat
  BY DEF Buffered, TypeOK, PortTypeOK, MembersTypeOK, MachineTypeOK
<1>1. ~Files => Configured' = Configured
  BY MachineKept DEF Configured
<1>2. ASSUME rt'.received = rt.received, rt'.rejected = rt.rejected, ~Files,
             machine'.rejections = machine.rejections, port'.inbox = port.inbox, heard' = heard
      PROVE  Counted' /\ Declined'
  <2>1. InputLines' = InputLines
    BY <1>2 DEF InputLines
  <2>2. BadLines' = BadLines
    BY <1>1, <1>2, <2>1 DEF BadLines
  <2>3. Waiting' = Waiting
    BY <1>1, <1>2 DEF Waiting, BadInput
  <2> QED
    BY <1>2, <2>1, <2>2, <2>3 DEF Counted, Declined
<1>3. CASE ~Files /\ (Alone \/ StartRuntime \/ CallService \/ StopRuntime)
  <2>1. UNCHANGED <<machine, port, heard>>
    BY <1>3, AloneChanges, CallsMade DEF vars
  <2>2. rt' = rt \/ rt' = [rt EXCEPT !.started = FALSE]
    BY <1>3, AloneChanges, CallsMade DEF vars, StopRuntime, Stop
  <2>3. rt'.received = rt.received /\ rt'.rejected = rt.rejected
    BY <2>2 DEF TypeOK, MembersTypeOK, NewRuntime
  <2> QED
    BY <1>2, <1>3, <2>1, <2>3
<1>4. CASE Files
  <2>1. /\ heard = <<>> /\ port.inbox = <<>> /\ UNCHANGED <<heard, port>>
        /\ machine'.rejections = machine.rejections
    <3>1. UNCHANGED <<heard, port>>
      BY <1>4, FilesChange
    <3>2. heard = <<>> /\ port.inbox = <<>>
      BY <1>4, FilesGo DEF Prepared, Preparing, In
    <3>3. machine'.rejections = machine.rejections
      <4>1. CASE Bind
        <5>1. machine = NewMachine
          BY <4>1 DEF Bind, In, Prepared
        <5> QED
          BY <4>1, <5>1 DEF Bind, InitMachine, MachineInit, NewMachine
      <4>2. CASE ~Bind
        BY <1>4, <4>2, FilesGo
      <4> QED
        BY <4>1, <4>2
    <3> QED
      BY <3>1, <3>2, <3>3
  <2>2. rt'.received = rt.received /\ rt'.rejected = rt.rejected
    <3>1. CASE SetUpRuntime
      BY <3>1 DEF SetUpRuntime, RuntimeInit, TypeOK, MembersTypeOK, NewRuntime
    <3>2. CASE ~SetUpRuntime
      BY <1>4, <3>2, FilesGo
    <3> QED
      BY <3>1, <3>2
  <2>3. InputLines = {} /\ BadLines = {}
    BY <2>1, NothingRead
  <2>4. InputLines' = {}
    BY <2>1, <2>3 DEF InputLines
  <2>5. BadLines' = {}
    BY <2>4 DEF BadLines
  <2>6. Waiting = 0 /\ Waiting' = 0
    BY <2>1 DEF Waiting
  <2> QED
    BY <2>1, <2>2, <2>3, <2>4, <2>5, <2>6 DEF Counted, Declined
<1>5. CASE GetLine
  <2>1. PICK line \in Upcoming :
          /\ port.inbox = <<>>
          /\ heard' = IF line.kind \in {"end", "broken"} THEN heard ELSE Append(heard, line)
          /\ IF line.kind = "input"
             THEN port'.inbox = line.input /\ port'.ended = port.ended
             ELSE port'.inbox = <<>>
    BY <1>5, GetLineEffects
  <2>2. UNCHANGED <<machine, rt>> /\ ~Files /\ In("serving")
    <3>1. UNCHANGED <<machine, rt>>
      BY <1>5, ConsoleOnly
    <3>2. In("serving")
      BY <1>5 DEF GetLine, Reading, InPlace, At, Idle
    <3> QED
      BY <3>1, <3>2, FilesGo DEF In
  <2>3. CASE line.kind \in {"end", "broken"}
    BY <1>2, <2>1, <2>2, <2>3
  <2>4. CASE line.kind \notin {"end", "broken"}
    <3>1. /\ Cardinality(InputLines) \in Nat /\ Cardinality(BadLines) \in Nat
          /\ Cardinality(InputLines') = Cardinality(InputLines) + (IF line.kind = "input" THEN 1 ELSE 0)
          /\ Cardinality(BadLines') = Cardinality(BadLines) +
               (IF line.kind = "input" /\ BadInput(line.input[1]) THEN 1 ELSE 0)
      BY <1>0, <1>1, <2>1, <2>2, <2>4, OneMoreLine
    <3>2. Len(port.inbox) = 0 /\ Waiting = 0
      BY <2>1 DEF Waiting
    <3>3. line.kind = "input" => \E input \in Inputs : line.input = <<input>>
      BY <2>1, <2>4, LineRead DEF Line
    <3>4. Len(port'.inbox) = IF line.kind = "input" THEN 1 ELSE 0
      <4>1. CASE line.kind = "input"
        <5>1. PICK input \in Inputs : line.input = <<input>>
          BY <3>3, <4>1
        <5>2. port'.inbox = <<input>> /\ Len(<<input>>) = 1
          BY <2>1, <4>1, <5>1
        <5> QED
          BY <4>1, <5>2
      <4>2. CASE line.kind # "input"
        BY <2>1, <4>2
      <4> QED
        BY <4>1, <4>2
    <3>5. Waiting' = IF line.kind = "input" /\ BadInput(line.input[1]) THEN 1 ELSE 0
      <4>1. CASE line.kind = "input"
        <5>1. port'.inbox = line.input /\ port'.inbox # <<>>
          <6>1. PICK input \in Inputs : line.input = <<input>>
            BY <3>3, <4>1
          <6>2. port'.inbox = line.input /\ <<input>> # <<>>
            BY <2>1, <4>1
          <6> QED
            BY <6>1, <6>2
        <5>2. BadInput(port.inbox[1])' <=> BadInput(line.input[1])
          BY <1>1, <2>2, <5>1 DEF BadInput
        <5> QED
          BY <4>1, <5>1, <5>2 DEF Waiting
      <4>2. CASE line.kind # "input"
        BY <2>1, <4>2 DEF Waiting
      <4> QED
        BY <4>1, <4>2
    <3>6. /\ rt'.received = rt.received /\ rt'.rejected = rt.rejected
          /\ machine'.rejections = machine.rejections
      BY <2>2
    <3>7. Counted'
      BY <1>0, <3>1, <3>2, <3>4, <3>6 DEF Counted
    <3> HIDE DEF BadInput
    <3>8. Declined'
      <4>1. CASE line.kind = "input" /\ BadInput(line.input[1])
        BY <1>0, <3>1, <3>2, <3>5, <3>6, <4>1 DEF Declined
      <4>2. CASE ~(line.kind = "input" /\ BadInput(line.input[1]))
        <5>1. Waiting' = 0 /\ Cardinality(BadLines') = Cardinality(BadLines)
          BY <3>1, <3>5, <4>2
        <5> QED
          BY <1>0, <3>2, <3>6, <5>1 DEF Declined
      <4> QED
        BY <4>1, <4>2
    <3> QED
      BY <3>7, <3>8
  <2> QED
    BY <2>3, <2>4
<1>6. CASE Recover \/ UNCHANGED programVars
  <2>1. UNCHANGED <<machine, port, heard, rt>> /\ (Files => UNCHANGED programVars)
    <3>1. CASE Recover
      <4>1. UNCHANGED <<machine, port, heard, rt>> /\ At("receive")
        BY <3>1 DEF Recover, runtimeVars, vars
      <4>2. In("serving")
        BY <4>1 DEF InPlace, At, Idle
      <4> QED
        BY <4>1, <4>2, FilesGo DEF In
    <3>2. CASE UNCHANGED programVars
      BY <3>2 DEF programVars, vars
    <3> QED
      BY <1>6, <3>1, <3>2
  <2> QED
    BY <1>2, <1>4, <2>1
<1>7. CASE StepRuntime
  <2>1. heard' = heard /\ ~Files /\ RuntimeStep /\ ~Idle
    <3>1. RuntimeStep /\ heard' = heard
      BY <1>7 DEF StepRuntime
    <3>2. ~Idle
      BY <3>1, CallFollows
    <3>3. ~Files
      BY <3>2, FilesGo DEF InPlace, In
    <3> QED
      BY <3>1, <3>2, <3>3
  <2>2. InputLines' = InputLines /\ Configured' = Configured
    BY <1>1, <2>1 DEF InputLines
  <2>3. BadLines' = BadLines
    BY <2>1, <2>2 DEF BadLines
  <2>4. CASE ~At("receive")
    <3>1. port'.inbox = port.inbox
      BY <1>7, <2>4, InboxOnlyRead
    <3>2. Waiting' = Waiting /\ Waiting \in Nat
      BY <2>2, <3>1 DEF Waiting, BadInput
    <3>3. Cardinality(BadLines) \in Nat /\ Waiting' \in Nat
      BY <1>0, <3>2, SomeLines
    <3>4. /\ rt'.received = rt.received
          /\ \E d \in {0, 1} : /\ rt'.rejected = rt.rejected + d
                               /\ machine'.rejections = machine.rejections + d
      BY <1>7, <2>4, CountsBoth
    <3>5. Counted'
      BY <2>2, <3>1, <3>4 DEF Counted
    <3>6. Declined'
      <4>1. PICK d \in {0, 1} : /\ rt'.rejected = rt.rejected + d
                                /\ machine'.rejections = machine.rejections + d
        BY <3>4
      <4>2. Cardinality(BadLines') = Cardinality(BadLines)
        BY <2>3
      <4> QED
        BY <1>0, <3>2, <3>3, <4>1, <4>2 DEF Declined
    <3> QED
      BY <3>5, <3>6
  <2>5. CASE At("receive") /\ ReceiveNothing
    <3>1. UNCHANGED <<rt, machine, port>>
      BY <2>5 DEF ReceiveNothing
    <3> QED
      BY <1>2, <2>1, <3>1
  <2>6. CASE At("receive") /\ (ReceiveUnrouted \/ ReceiveBadArguments \/ ReceiveTrigger)
    <3>1. PICK input \in Inputs :
            /\ port.inbox = <<input>> /\ port'.inbox = <<>> /\ machine' = machine
            /\ rt' = IF FindTriggerForChannel(Routing, input.channel) = kNoTrigger THEN Unrouted(rt)
                     ELSE IF input.text.status # "Ok" THEN BadArguments(rt) ELSE JustReceived(rt)
      <4>1. port.inbox # <<>>
        BY <2>6 DEF ReceiveUnrouted, ReceiveBadArguments, ReceiveTrigger, Arrives
      <4>2. PICK input \in Inputs : port.inbox = <<input>> /\ port'.inbox = <<>>
        BY <1>7, <2>6, <4>1, ReceivedOne
      <4>3. \A other : Arrives(other) => other = input
        BY <4>2 DEF Arrives
      <4> QED
        BY <2>6, <4>2, <4>3 DEF ReceiveUnrouted, ReceiveBadArguments, ReceiveTrigger
    <3>2. Routing = Configured[1]
      BY <2>1 DEF Paired, PairMatches, Routing, Configured
    <3>3. /\ rt'.received = rt.received + 1
          /\ rt'.rejected = rt.rejected + IF BadInput(input) THEN 1 ELSE 0
      BY <1>0, <3>1, <3>2 DEF BadInput, Unrouted, BadArguments, JustReceived, TypeOK, MembersTypeOK,
         NewRuntime
    <3>4. Waiting = (IF BadInput(input) THEN 1 ELSE 0) /\ Waiting' = 0
      BY <3>1 DEF Waiting
    <3>5. Len(port.inbox) = 1 /\ Len(port'.inbox) = 0
      BY <3>1
    <3> HIDE DEF BadInput
    <3> QED
      BY <1>0, <2>2, <2>3, <3>1, <3>3, <3>4, <3>5 DEF Counted, Declined
  <2> QED
    BY <1>7, <2>4, <2>5, <2>6, ReceivedOne
<1> QED
  BY <1>3, <1>4, <1>5, <1>6, <1>7, StepKinds

\* The summary is made of counters that agree with the transcript.
LEMMA SummaryMade ==
  ASSUME Known, Stages, Noted, Counted, Declined, Summary
  PROVE  SummaryAddsUp'
<1> USE DEF Stages
<1>1. /\ UNCHANGED <<machine, models, heard, said>> /\ Idle /\ In("stopping")
      /\ main' = [main EXCEPT !.pc = "exit", !.tally = {Tally}]
  BY DEF Summary, Quietly, runtimeVars, vars
<1>2. /\ history.entered = 1 /\ history.direct = 0 /\ ~history.behind
      /\ history.states \in Nat /\ machine.transitions \in Nat
      /\ rt.rejected \in Nat /\ rt.unrouted \in Nat /\ rt.received \in Nat
      /\ machine.rejections \in Nat
  BY <1>1 DEF Known, Undisturbed, InSession, In, TypeOK, HistoryTypeOK, MachineTypeOK, MembersTypeOK
<1>3. machine.transitions = history.states - 1 /\ history.states > 0
  BY <1>1, <1>2 DEF Known, StatesAccounted, Publishing, Idle, At
<1>4. CurrentName = CurrentIn(said, Len(said))
  BY <1>1, <1>2, <1>3 DEF Known, Shown, Saying, Noted, Idle, At
<1>5. port.inbox = <<>> /\ Len(port.inbox) = 0 /\ Waiting = 0
  <2>1. port.inbox = <<>>
    BY <1>1 DEF Buffered, Idle, At
  <2> QED
    BY <2>1 DEF Waiting
<1>6. rt.received = Cardinality(InputLines)
  BY <1>2, <1>5 DEF Counted
<1>7. Cardinality(BadLines) \in Nat
  BY SomeLines DEF Buffered
<1>8. machine.rejections + rt.unrouted + Cardinality(BadLines) = Cardinality(Errors(said))
  <2>1. rt.unrouted + rt.rejected = history.errors + 0
    BY <1>1 DEF Known, Accounts, ErrorsAccounted, Publishing, Idle, At
  <2>2. history.errors \in Nat
    BY DEF Known, TypeOK, HistoryTypeOK
  <2> QED
    BY <1>2, <1>5, <1>7, <2>1, <2>2 DEF Noted, Declined
<1>9. main'.tally = {Tally}
  BY <1>1 DEF MainTypeOK, NewMain
<1>10. InputLines' = InputLines /\ Configured' = Configured
  BY <1>1 DEF InputLines, Configured
<1>11. BadLines' = BadLines
  BY <1>1, <1>10 DEF BadLines
<1>12. /\ Tally.state = CurrentIn(said, Len(said))
       /\ Tally.transitions = Cardinality(Announced(said)) - 1
       /\ Tally.inputs = Cardinality(InputLines)
       /\ Tally.rejected + Tally.unknown + Cardinality(BadLines) = Cardinality(Errors(said))
  BY <1>3, <1>4, <1>6, <1>8 DEF Tally, Noted
<1> HIDE DEF Tally
<1>13. /\ CurrentIn(said, Len(said))' = CurrentIn(said, Len(said))
       /\ Cardinality(Announced(said))' = Cardinality(Announced(said))
       /\ Cardinality({i \in DOMAIN said : said[i].kind = "error"})' = Cardinality(Errors(said))
  BY <1>1 DEF Errors
<1> QED
  BY <1>9, <1>10, <1>11, <1>12, <1>13 DEF SummaryAddsUp

\* The numbers a session ends with are those of its transcript.
THEOREM EverySummaryAddsUp == ProgramSpec => []SummaryAddsUp
<1> DEFINE Sum == Noted /\ Counted /\ Declined /\ SummaryAddsUp
<1>1. ProgramInit => Sum
  <2> SUFFICES ASSUME ProgramInit PROVE Sum
    OBVIOUS
  <2>1. heard = <<>> /\ said = <<>> /\ main.tally = {}
    BY DEF ProgramInit, NewMain
  <2>2. InputLines = {} /\ BadLines = {}
    BY <2>1, NothingRead
  <2>3. Announced(said) = {} /\ Errors(said) = {}
    BY <2>1 DEF Announced, Errors
  <2>4. /\ history.states = 0 /\ history.errors = 0 /\ rt.received = 0 /\ rt.rejected = 0
        /\ machine.rejections = 0 /\ port.inbox = <<>>
    BY DEF ProgramInit, Init, NewHistory, NewRuntime, NewMachine, NewPort
  <2>5. Cardinality({}) = 0 /\ Len(<<>>) = 0
    BY FS_EmptySet
  <2>6. Noted
    BY <2>3, <2>4, <2>5 DEF Noted
  <2>7. Counted
    BY <2>2, <2>4, <2>5 DEF Counted
  <2>8. Declined
    BY <2>2, <2>4, <2>5 DEF Declined, Waiting
  <2>9. SummaryAddsUp
    BY <2>1 DEF SummaryAddsUp
  <2> QED
    BY <2>6, <2>7, <2>8, <2>9
<1>2. Known /\ Stages /\ Sum /\ [ProgramNext]_programVars => Sum'
  <2> SUFFICES ASSUME Known, Stages, Sum, [ProgramNext]_programVars PROVE Sum'
    OBVIOUS
  <2>1. Noted' /\ Counted' /\ Declined'
    BY StepNoted, StepCounted DEF Known
  <2>2. SummaryAddsUp'
    <3>1. CASE In("exit")
      <4>1. UNCHANGED programVars
        BY <3>1, ExitIsFinal DEF Known
      <4>2. InputLines' = InputLines /\ Configured' = Configured
        BY <4>1 DEF InputLines, Configured, programVars, vars
      <4>3. BadLines' = BadLines
        BY <4>1, <4>2 DEF BadLines, programVars
      <4> QED
        BY <4>1, <4>2, <4>3 DEF SummaryAddsUp, programVars
    <3>2. CASE Summary
      BY <3>2, SummaryMade
    <3>3. CASE ~In("exit") /\ ~Summary
      <4>1. main'.tally = {}
        BY <3>3, WhoShows DEF Stages, MainTypeOK, In
      <4> QED
        BY <4>1 DEF SummaryAddsUp
    <3> QED
      BY <3>1, <3>2, <3>3
  <2> QED
    BY <2>1, <2>2
<1>3. Sum => SummaryAddsUp
  OBVIOUS
<1> HIDE DEF Sum
<1> QED
  BY <1>1, <1>2, <1>3, StagesHold, PTL DEF ProgramSpec

-----------------------------------------------------------------------------
(* The command line. *)

Modes == {"--quiet", "--check", "--lint", "--export"}

\* main() after n - 1 of its words: none of them was decisive, the next one is not
\* the name of a format, and what it took of them is what they ask for.
ReadUpTo(n) ==
  LET argv == main.argv IN
  /\ n \in 1 .. Len(argv) + 1
  /\ n > 1 => argv[n - 1] # "--export"
  /\ \A p \in Decisive(argv, main.inspect) : n <= p
  /\ \A option \in Modes :
       option \in main.options <=> \E p \in DOMAIN argv : p < n /\ argv[p] = option
  /\ main.positional \in Nat
  /\ IF main.positional = 0
     THEN main.setup = "car.setup.yaml" /\ \A p \in Given(argv) : n <= p
     ELSE \E p \in Given(argv) : p < n /\ main.setup = argv[p] /\ \A q \in Given(argv) : p <= q
  /\ IF \A p \in Later(argv) : n <= p
     THEN main.machine = "car.machine.yaml"
     ELSE \E p \in Later(argv) : /\ p < n /\ main.machine = argv[p]
                                 /\ \A q \in Later(argv) : q < n => q <= p

WordsSoFar == In("words") => ReadUpTo(main.next)

\* The words are at positions.
LEMMA WordPositions ==
  ASSUME MainTypeOK
  PROVE  /\ Len(main.argv) \in Nat /\ DOMAIN main.argv = 1 .. Len(main.argv)
         /\ Given(main.argv) \subseteq 1 .. Len(main.argv)
         /\ Later(main.argv) \subseteq Given(main.argv)
         /\ Decisive(main.argv, main.inspect) \subseteq 1 .. Len(main.argv)
<1>1. main.argv \in Seq(STRING)
  BY CommandAssumption DEF MainTypeOK
<1>2. Len(main.argv) \in Nat /\ DOMAIN main.argv = 1 .. Len(main.argv)
  BY <1>1, LenProperties
<1> QED
  BY <1>2 DEF Given, Later, Decisive

\* The format that --export names is no option, and behind it comes a word.
LEMMA FormatFollows ==
  ASSUME MainTypeOK, main.next \in 1 .. Len(main.argv), Following \in Formats
  PROVE  /\ main.next + 1 \in DOMAIN main.argv
         /\ main.argv[main.next + 1] \in Formats /\ main.argv[main.next + 1] \notin Options
<1>1. "" \notin Formats /\ \A word \in Formats : word \notin Options
  BY DEF Formats, Options
<1>2. main.next < Len(main.argv) /\ main.argv[main.next + 1] \in Formats
  BY <1>1 DEF Following
<1>3. Len(main.argv) \in Nat /\ DOMAIN main.argv = 1 .. Len(main.argv)
  BY WordPositions
<1>4. main.next + 1 \in 1 .. Len(main.argv)
  BY <1>2, <1>3
<1> QED
  BY <1>1, <1>2, <1>3, <1>4

\* An option is read, with its format if it has one.
LEMMA OptionRead ==
  ASSUME MainTypeOK, ReadUpTo(main.next), main.next <= Len(main.argv),
         \/ Argument \in {"--quiet", "--check"}
         \/ Argument = "--lint" /\ main.inspect
         \/ Argument = "--export" /\ main.inspect /\ Following \in Formats,
         main' = [main EXCEPT !.options = @ \cup {Argument}, !.next = @ + Consumed(Argument)]
  PROVE  ReadUpTo(main.next)'
<1> DEFINE argv == main.argv
           n    == main.next
           last == n + Consumed(Argument) - 1
<1>1. /\ main'.argv = argv /\ main'.inspect = main.inspect /\ main'.next = last + 1
      /\ main'.options = main.options \cup {Argument} /\ main'.positional = main.positional
      /\ main'.setup = main.setup /\ main'.machine = main.machine
  BY DEF MainTypeOK, NewMain, Consumed, ReadUpTo
<1>2. /\ Len(argv) \in Nat /\ DOMAIN argv = 1 .. Len(argv) /\ n \in 1 .. Len(argv)
      /\ Given(argv) \subseteq 1 .. Len(argv) /\ Later(argv) \subseteq Given(argv)
      /\ Decisive(argv, main.inspect) \subseteq 1 .. Len(argv)
  <2>1. n \in 1 .. Len(argv) + 1
    BY DEF ReadUpTo
  <2>2. Len(argv) \in Nat
    BY WordPositions
  <2> QED
    BY <2>1, <2>2, WordPositions
\* The words that are read are this option, and a format behind --export.
<1>3. /\ last \in n .. n + 1 /\ last \in 1 .. Len(argv) /\ argv[last] # "--export"
      /\ argv[n] = Argument /\ Argument \in Modes
      /\ last = n + 1 => argv[n] = "--export" /\ argv[last] \notin Options
  <2>1. Argument = argv[n] /\ Argument \in Modes
    BY DEF Argument, Modes
  <2>2. CASE Argument = "--export"
    BY <1>2, <2>1, <2>2, FormatFollows DEF Consumed, Options
  <2>3. CASE Argument # "--export"
    BY <1>2, <2>1, <2>3 DEF Consumed
  <2> QED
    BY <2>1, <2>2, <2>3
<1>4. \A p \in n .. last : p \notin Decisive(argv, main.inspect) /\ p \notin Given(argv)
  <2>1. n \notin Decisive(argv, main.inspect)
    <3>1. CASE Argument = "--export"
      BY <1>2, <1>3, <3>1, FormatFollows DEF Decisive
    <3>2. CASE Argument # "--export"
      BY <1>2, <1>3, <3>2 DEF Decisive
    <3> QED
      BY <3>1, <3>2
  <2>2. n \notin Given(argv)
    BY <1>3 DEF Given, Options, Modes
  <2>3. last = n + 1 => last \notin Decisive(argv, main.inspect) /\ last \notin Given(argv)
    BY <1>2, <1>3 DEF Decisive, Given, Options
  <2> QED
    BY <1>2, <1>3, <2>1, <2>2, <2>3
<1>5. \A p \in 1 .. Len(argv) : (p < last + 1 <=> p < n \/ p \in n .. last)
  BY <1>2, <1>3
<1>6. \A option \in Modes :
        (\E p \in 1 .. Len(argv) : p < last + 1 /\ argv[p] = option)
          <=> option = Argument \/ \E p \in 1 .. Len(argv) : p < n /\ argv[p] = option
  <2>1. \A p \in n .. last : argv[p] \in Modes => p = n
    BY <1>2, <1>3 DEF Modes, Options
  <2> QED
    BY <1>2, <1>3, <1>5, <2>1
<1>7. \A p \in Given(argv) : (p < last + 1 <=> p < n) /\ (last + 1 <= p <=> n <= p)
  BY <1>2, <1>3, <1>4, <1>5
<1>8. \A p \in Decisive(argv, main.inspect) : n <= p => last + 1 <= p
  BY <1>2, <1>3, <1>4, <1>5
<1> HIDE DEF last
<1>9. SUFFICES /\ last + 1 \in 1 .. Len(argv) + 1
               /\ last + 1 > 1 => argv[(last + 1) - 1] # "--export"
               /\ \A p \in Decisive(argv, main.inspect) : last + 1 <= p
               /\ \A option \in Modes :
                    option \in main.options \cup {Argument}
                      <=> \E p \in DOMAIN argv : p < last + 1 /\ argv[p] = option
               /\ main.positional \in Nat
               /\ IF main.positional = 0
                  THEN main.setup = "car.setup.yaml" /\ \A p \in Given(argv) : last + 1 <= p
                  ELSE \E p \in Given(argv) : /\ p < last + 1 /\ main.setup = argv[p]
                                              /\ \A q \in Given(argv) : p <= q
               /\ IF \A p \in Later(argv) : last + 1 <= p
                  THEN main.machine = "car.machine.yaml"
                  ELSE \E p \in Later(argv) : /\ p < last + 1 /\ main.machine = argv[p]
                                              /\ \A q \in Later(argv) : q < last + 1 => q <= p
  BY <1>1 DEF ReadUpTo
<1>10. last + 1 \in 1 .. Len(argv) + 1 /\ (last + 1) - 1 = last
  BY <1>2, <1>3
<1>11. \A option \in Modes :
         option \in main.options \cup {Argument}
           <=> \E p \in DOMAIN argv : p < last + 1 /\ argv[p] = option
  BY <1>2, <1>6 DEF ReadUpTo
<1>12. IF main.positional = 0
       THEN main.setup = "car.setup.yaml" /\ \A p \in Given(argv) : last + 1 <= p
       ELSE \E p \in Given(argv) : /\ p < last + 1 /\ main.setup = argv[p]
                                   /\ \A q \in Given(argv) : p <= q
  BY <1>7 DEF ReadUpTo
<1>13. IF \A p \in Later(argv) : last + 1 <= p
       THEN main.machine = "car.machine.yaml"
       ELSE \E p \in Later(argv) : /\ p < last + 1 /\ main.machine = argv[p]
                                   /\ \A q \in Later(argv) : q < last + 1 => q <= p
  BY <1>2, <1>7 DEF ReadUpTo
<1> QED
  BY <1>3, <1>8, <1>10, <1>11, <1>12, <1>13 DEF ReadUpTo

\* A path is read: the first is the setup's, the last of the others the machine's.
LEMMA PathRead ==
  ASSUME MainTypeOK, ReadUpTo(main.next), main.next <= Len(main.argv), Argument \notin Options,
         main' = [main EXCEPT !.next = @ + 1, !.positional = @ + 1,
                    !.setup   = IF main.positional = 0 THEN Argument ELSE @,
                    !.machine = IF main.positional = 0 THEN @ ELSE Argument]
  PROVE  ReadUpTo(main.next)'
<1> DEFINE argv == main.argv
           n    == main.next
<1>1. /\ main'.argv = argv /\ main'.inspect = main.inspect /\ main'.next = n + 1
      /\ main'.options = main.options /\ main'.positional = main.positional + 1
      /\ main'.setup = (IF main.positional = 0 THEN argv[n] ELSE main.setup)
      /\ main'.machine = (IF main.positional = 0 THEN main.machine ELSE argv[n])
  BY DEF MainTypeOK, NewMain, Argument
<1>2. /\ Len(argv) \in Nat /\ DOMAIN argv = 1 .. Len(argv) /\ n \in 1 .. Len(argv)
      /\ Given(argv) \subseteq 1 .. Len(argv) /\ Later(argv) \subseteq Given(argv)
      /\ Decisive(argv, main.inspect) \subseteq 1 .. Len(argv)
      /\ main.positional \in Nat
  <2>1. n \in 1 .. Len(argv) + 1 /\ main.positional \in Nat
    BY DEF ReadUpTo
  <2>2. Len(argv) \in Nat
    BY WordPositions
  <2> QED
    BY <2>1, <2>2, WordPositions
<1>3. /\ argv[n] \notin Options /\ argv[n] \notin Modes /\ argv[n] # "--export"
      /\ n \notin Decisive(argv, main.inspect)
  BY DEF Argument, Options, Modes, Decisive
<1>4. n \in Given(argv)
  BY <1>2, <1>3 DEF Given, ReadUpTo
<1>5. \A p \in 1 .. Len(argv) : (p < n + 1 <=> p < n \/ p = n) /\ (n + 1 <= p <=> n <= p /\ p # n)
  BY <1>2
<1>6. \A q \in Given(argv) : q > n => q \in Later(argv)
  BY <1>2, <1>4 DEF Later
<1>7. SUFFICES
        /\ n + 1 \in 1 .. Len(argv) + 1
        /\ n + 1 > 1 => argv[(n + 1) - 1] # "--export"
        /\ \A p \in Decisive(argv, main.inspect) : n + 1 <= p
        /\ \A option \in Modes :
             option \in main.options <=> \E p \in DOMAIN argv : p < n + 1 /\ argv[p] = option
        /\ \E p \in Given(argv) : /\ p < n + 1 /\ main'.setup = argv[p]
                                  /\ \A q \in Given(argv) : p <= q
        /\ IF \A p \in Later(argv) : n + 1 <= p
           THEN main'.machine = "car.machine.yaml"
           ELSE \E p \in Later(argv) : /\ p < n + 1 /\ main'.machine = argv[p]
                                       /\ \A q \in Later(argv) : q < n + 1 => q <= p
  <2>1. main'.positional \in Nat /\ main'.positional # 0
    BY <1>1, <1>2
  <2>2. /\ main'.argv = argv /\ main'.inspect = main.inspect /\ main'.next = n + 1
        /\ main'.options = main.options
    BY <1>1
  <2> QED
    BY <2>1, <2>2 DEF ReadUpTo
<1>8. n + 1 \in 1 .. Len(argv) + 1 /\ (n + 1) - 1 = n
  BY <1>2
<1>9. \A p \in Decisive(argv, main.inspect) : n + 1 <= p
  BY <1>2, <1>3, <1>5 DEF ReadUpTo
<1>10. \A option \in Modes :
         option \in main.options <=> \E p \in DOMAIN argv : p < n + 1 /\ argv[p] = option
  BY <1>2, <1>3, <1>5 DEF ReadUpTo
<1>11. CASE main.positional = 0
  <2>1. \A q \in Given(argv) : n <= q
    BY <1>11 DEF ReadUpTo
  <2>2. \A p \in Later(argv) : n + 1 <= p /\ n <= p
    BY <1>2, <2>1, <1>5 DEF Later
  <2>3. main'.machine = "car.machine.yaml"
    BY <1>1, <1>11, <2>2 DEF ReadUpTo
  <2> QED
    BY <1>1, <1>2, <1>3, <1>4, <1>5, <1>8, <1>9, <1>10, <1>11, <2>1, <2>2, <2>3
<1>12. CASE main.positional # 0
  <2>1. PICK p \in Given(argv) : p < n /\ main.setup = argv[p] /\ \A q \in Given(argv) : p <= q
    BY <1>12 DEF ReadUpTo
  <2>2. n \in Later(argv)
    BY <1>4, <2>1 DEF Later
  <2>3. p < n + 1 /\ main'.setup = argv[p]
    BY <1>1, <1>2, <1>5, <1>12, <2>1
  <2>4. \A q \in Later(argv) : q < n + 1 => q <= n
    BY <1>2, <1>5
  <2>5. /\ ~\A q \in Later(argv) : n + 1 <= q
        /\ n < n + 1 /\ main'.machine = argv[n]
    BY <1>1, <1>2, <1>5, <1>12, <2>2
  <2> QED
    BY <1>3, <1>8, <1>9, <1>10, <2>1, <2>2, <2>3, <2>4, <2>5
<1> QED
  BY <1>11, <1>12

\* What the whole command line asks for.
Understood ==
  /\ Decisive(main.argv, main.inspect) = {}
  /\ main.setup = SetupAsked(main.argv) /\ main.machine = MachineAsked(main.argv)
  /\ \A option \in Modes : option \in main.options <=> Asked(main.argv, option)

\* At the end of the words it is known.
LEMMA AllRead ==
  ASSUME MainTypeOK, ReadUpTo(main.next), main.next > Len(main.argv)
  PROVE  Understood
<1> DEFINE argv == main.argv
           n    == main.next
<1>1. /\ Len(argv) \in Nat /\ DOMAIN argv = 1 .. Len(argv)
      /\ Given(argv) \subseteq 1 .. Len(argv) /\ Later(argv) \subseteq Given(argv)
      /\ Decisive(argv, main.inspect) \subseteq 1 .. Len(argv)
  BY WordPositions
<1>2. n = Len(argv) + 1
  BY <1>1 DEF ReadUpTo
<1>3. \A p \in 1 .. Len(argv) : p < n /\ ~(n <= p)
  BY <1>1, <1>2
<1>4. Decisive(argv, main.inspect) = {}
  BY <1>1, <1>3 DEF ReadUpTo
<1>5. \A option \in Modes : option \in main.options <=> Asked(argv, option)
  BY <1>1, <1>3 DEF ReadUpTo, Asked
<1>6. main.setup = SetupAsked(argv)
  <2>1. CASE Given(argv) = {}
    <3>1. main.positional = 0
      BY <2>1 DEF ReadUpTo
    <3> QED
      BY <2>1, <3>1 DEF ReadUpTo, SetupAsked
  <2>2. CASE Given(argv) # {}
    <3>1. main.positional # 0
      BY <1>1, <1>3, <2>2 DEF ReadUpTo
    <3>2. PICK p \in Given(argv) : main.setup = argv[p] /\ \A q \in Given(argv) : p <= q
      BY <3>1 DEF ReadUpTo
    <3>3. Given(argv) \in SUBSET Nat
      BY <1>1
    <3>4. First(Given(argv)) \in Given(argv) /\ \A q \in Given(argv) : First(Given(argv)) <= q
      BY <2>2, <3>3, FirstIs
    <3>5. p = First(Given(argv))
      BY <3>2, <3>3, <3>4
    <3> QED
      BY <2>2, <3>2, <3>5 DEF SetupAsked
  <2> QED
    BY <2>1, <2>2
<1>7. main.machine = MachineAsked(argv)
  <2>1. CASE Later(argv) = {}
    <3>1. \A p \in Later(argv) : n <= p
      BY <2>1
    <3> QED
      BY <2>1, <3>1 DEF ReadUpTo, MachineAsked
  <2>2. CASE Later(argv) # {}
    <3>1. ~\A p \in Later(argv) : n <= p
      BY <1>1, <1>3, <2>2
    <3>2. PICK p \in Later(argv) : main.machine = argv[p] /\ \A q \in Later(argv) : q < n => q <= p
      BY <3>1 DEF ReadUpTo
    <3>3. Later(argv) \in SUBSET (1 .. Len(argv))
      BY <1>1
    <3>4. Final(Later(argv)) \in Later(argv) /\ \A q \in Later(argv) : Final(Later(argv)) >= q
      BY <1>1, <2>2, <3>3, FinalIs
    <3>5. p = Final(Later(argv))
      BY <1>1, <1>3, <3>2, <3>3, <3>4
    <3> QED
      BY <2>2, <3>2, <3>5 DEF MachineAsked
  <2> QED
    BY <2>1, <2>2
<1> QED
  BY <1>4, <1>5, <1>6, <1>7 DEF Understood

\* What main() knows and holds in each place; it stops as it was asked to.
Loaded(read) == \A o \in Object : setups[o] \in Holding(main.setup, "setup") /\
                                  (read => models[o] \in Holding(main.machine, "machine"))
Fit          == \A o \in Object : ValidateAgainst(setups[o], models[o]) = "Ok"
Running      == {"start", "starting", "serve", "serving", "stop", "stopping"}
Prompted ==
  /\ WordsSoFar
  /\ main.pc \in {"words", "setup"} => setups = [o \in Object |-> EmptySetup]
  /\ main.pc \notin {"words", "exit"} => Understood
  /\ main.pc \notin {"words", "setup", "exit"} => Loaded(main.pc # "machine")
  /\ main.pc \in {"mode"} \cup Running => Fit
  /\ main.pc \in Running => main.options \cap {"--export", "--check", "--lint"} = {}
  /\ AsAsked

\* A decisive word ends the program before anything is read.
LEMMA WordDecides ==
  ASSUME TypeOK, Stages, Prompted, ReadWord
  PROVE  Prompted'
<1> USE DEF Stages
<1>1. /\ In("words") /\ main.next <= Len(main.argv) /\ ReadUpTo(main.next)
      /\ UNCHANGED setups /\ main.drawn = {} /\ main.tally = {}
  BY DEF ReadWord, runtimeVars, vars, Prompted, WordsSoFar, In, MainTypeOK
<1>2. CASE /\ \/ Argument \in {"--quiet", "--check"}
              \/ Argument = "--lint" /\ main.inspect
              \/ Argument = "--export" /\ main.inspect /\ Following \in Formats
           /\ main' = [main EXCEPT !.options = @ \cup {Argument}, !.next = @ + Consumed(Argument)]
  <2>1. ReadUpTo(main.next)'
    BY <1>1, <1>2, OptionRead
  <2>2. main'.pc = "words"
    BY <1>1, <1>2 DEF MainTypeOK, NewMain, In
  <2> QED
    BY <1>1, <2>1, <2>2 DEF Prompted, WordsSoFar, In, AsAsked, Running
<1>3. CASE /\ Argument \notin Options
           /\ main' = [main EXCEPT !.next = @ + 1, !.positional = @ + 1,
                         !.setup   = IF main.positional = 0 THEN Argument ELSE @,
                         !.machine = IF main.positional = 0 THEN @ ELSE Argument]
  <2>1. ReadUpTo(main.next)'
    BY <1>1, <1>3, PathRead
  <2>2. main'.pc = "words"
    BY <1>1, <1>3 DEF MainTypeOK, NewMain, In
  <2> QED
    BY <1>1, <2>1, <2>2 DEF Prompted, WordsSoFar, In, AsAsked, Running
<1>4. CASE \/ Argument = "--version" /\ Exit(0)
           \/ /\ Argument \in {"--lint", "--export"}
              /\ ~main.inspect \/ (Argument = "--export" /\ Following \notin Formats)
              /\ Exit(2)
  <2> DEFINE stops == Decisive(main.argv, main.inspect)
  <2>1. /\ main'.pc = "exit" /\ main'.argv = main.argv /\ main'.inspect = main.inspect
        /\ main'.drawn = {} /\ main'.tally = {}
        /\ main'.exit = IF Argument = "--version" THEN 0 ELSE 2
    BY <1>1, <1>4, WhereTo
  <2>2. /\ Len(main.argv) \in Nat /\ DOMAIN main.argv = 1 .. Len(main.argv)
        /\ stops \subseteq 1 .. Len(main.argv)
    BY WordPositions
  <2>3. main.next \in 1 .. Len(main.argv)
    BY <1>1, <2>2 DEF ReadUpTo
  <2>4. main.next \in stops
    <3>1. CASE Argument = "--export" /\ Following \notin Formats
      <4>1. main.next = Len(main.argv) \/ main.argv[main.next + 1] \notin Formats
        <5>1. CASE main.next < Len(main.argv)
          BY <3>1, <5>1 DEF Following
        <5>2. CASE ~(main.next < Len(main.argv))
          <6>1. Len(main.argv) \in Nat
            BY <2>2
          <6> QED
            BY <2>3, <5>2, <6>1
        <5> QED
          BY <5>1, <5>2
      <4>2. main.argv[main.next] = "--export" /\ main.next \in DOMAIN main.argv
        BY <2>2, <2>3, <3>1 DEF Argument
      <4> QED
        BY <4>1, <4>2 DEF Decisive
    <3>2. CASE Argument = "--version" \/ (Argument \in {"--lint", "--export"} /\ ~main.inspect)
      BY <2>2, <2>3, <3>2 DEF Decisive, Argument
    <3> QED
      BY <1>4, <3>1, <3>2
  <2>5. \A p \in stops : main.next <= p
    BY <1>1 DEF ReadUpTo
  <2>6. First(stops) = main.next
    <3>1. stops \in SUBSET Nat /\ stops # {}
      BY <2>2, <2>4
    <3>2. First(stops) \in stops /\ First(stops) <= main.next
      BY <2>4, <3>1, FirstIs
    <3> HIDE DEF stops
    <3>3. main.next <= First(stops) /\ First(stops) \in Nat /\ main.next \in Nat
      BY <2>2, <2>3, <2>5, <3>2
    <3> QED
      BY <3>2, <3>3
  <2>7. main'.exit = (IF main.argv[First(stops)] = "--version" THEN 0 ELSE 2) /\ stops # {}
    BY <2>1, <2>4, <2>6 DEF Argument
  <2>8. setups' = [o \in Object |-> EmptySetup]
    BY <1>1 DEF Prompted, In
  <2>9. AsAsked'
    BY <2>1, <2>7, <2>8 DEF AsAsked, Drew, Ran
  <2> QED
    BY <2>1, <2>9 DEF Prompted, WordsSoFar, In, Running
<1> QED
  BY <1>2, <1>3, <1>4 DEF ReadWord

\* What main() understood stays so.
LEMMA StaysUnderstood ==
  ASSUME MainTypeOK, Understood, NEW pc \in Places \ {"exit"}, Goto(pc)
  PROVE  /\ Understood' /\ main'.pc = pc
         /\ main'.setup = main.setup /\ main'.machine = main.machine
         /\ main'.options = main.options
BY WhereTo DEF Understood

\* An empty model has no state to start in.
LEMMA FitsIsValid ==
  ASSUME NEW setup, NEW m \in LoadedModels \cup {EmptyModel}, ValidateAgainst(setup, m) = "Ok"
  PROVE  Validate(m) = "Ok"
<1>1. m # EmptyModel
  BY DEF ValidateAgainst, InitialIn, FindState, Lookup, EmptyModel, EmptyFunction
<1> QED
  BY <1>1, LoadedAssumption

\* A file that cannot be loaded ends the program; one that can is bound.
LEMMA FilesAsAsked ==
  ASSUME TypeOK, BoundFit, Stages, Prompted, EndOfWords \/ ReadSetup \/ ReadMachine \/ Bind
  PROVE  Prompted'
<1> USE DEF Stages
<1>0. PICK object \in Object : Object = {object}
  BY MainAssumption
<1>1. CASE EndOfWords
  <2>1. /\ In("words") /\ main.next > Len(main.argv) /\ Goto("setup") /\ UNCHANGED setups
    BY <1>1 DEF EndOfWords, runtimeVars, vars
  <2>2. Understood
    BY <2>1, AllRead DEF Prompted, WordsSoFar
  <2>3. Understood' /\ main'.pc = "setup"
    BY <2>1, <2>2, StaysUnderstood DEF Places
  <2> QED
    BY <2>1, <2>3 DEF Prompted, WordsSoFar, In, AsAsked, Running
<1>2. CASE ReadSetup
  <2>1. In("setup") /\ Understood /\ main.drawn = {} /\ main.tally = {}
    BY <1>2 DEF ReadSetup, Prompted, In, MainTypeOK
  <2>2. CASE Holding(main.setup, "setup") = {} /\ Exit(1)
    <3>1. /\ main'.pc = "exit" /\ main'.exit = 1 /\ main'.argv = main.argv
          /\ main'.inspect = main.inspect /\ main'.drawn = {} /\ main'.tally = {}
      BY <2>1, <2>2, WhereTo
    <3>2. AsAsked'
      BY <2>1, <2>2, <3>1 DEF AsAsked, Understood, Drew, Ran
    <3> QED
      BY <3>1, <3>2 DEF Prompted, WordsSoFar, In, Running
  <2>3. CASE \E s \in Object, setup \in Holding(main.setup, "setup") :
               LoadSetup(s, setup) /\ Goto("machine")
    <3>1. PICK s \in Object, setup \in Holding(main.setup, "setup") :
            LoadSetup(s, setup) /\ Goto("machine")
      BY <2>3
    <3>2. \A o \in Object : setups'[o] = setup
      BY <1>0, <3>1 DEF LoadSetup, TypeOK, ApplicationTypeOK
    <3>3. Understood' /\ main'.pc = "machine" /\ main'.setup = main.setup
      BY <2>1, <3>1, StaysUnderstood DEF Places
    <3>4. Loaded(FALSE)'
      BY <3>2, <3>3 DEF Loaded
    <3> QED
      BY <3>3, <3>4 DEF Prompted, WordsSoFar, In, AsAsked, Running
  <2> QED
    BY <1>2, <2>2, <2>3 DEF ReadSetup
<1>3. CASE ReadMachine
  <2>1. In("machine") /\ Understood /\ Loaded(FALSE) /\ main.drawn = {} /\ main.tally = {}
    BY <1>3 DEF ReadMachine, Prompted, In, MainTypeOK
  <2>2. CASE Holding(main.machine, "machine") = {} /\ Exit(1)
    <3>1. /\ main'.pc = "exit" /\ main'.exit = 1 /\ main'.argv = main.argv
          /\ main'.inspect = main.inspect /\ main'.drawn = {} /\ main'.tally = {}
      BY <2>1, <2>2, WhereTo
    <3>2. AsAsked'
      BY <2>1, <2>2, <3>1 DEF AsAsked, Understood, Drew, Ran
    <3> QED
      BY <3>1, <3>2 DEF Prompted, WordsSoFar, In, Running
  <2>3. CASE \E m \in Object, model \in Holding(main.machine, "machine") :
               LoadMachine(m, model) /\ Goto("bind")
    <3>1. PICK m \in Object, model \in Holding(main.machine, "machine") :
            LoadMachine(m, model) /\ Goto("bind")
      BY <2>3
    <3>2. (\A o \in Object : models'[o] = model) /\ setups' = setups
      BY <1>0, <3>1 DEF LoadMachine, TypeOK, ApplicationTypeOK
    <3>3. Understood' /\ main'.pc = "bind" /\ main'.setup = main.setup /\ main'.machine = main.machine
      BY <2>1, <3>1, StaysUnderstood DEF Places
    <3>4. Loaded(TRUE)'
      BY <2>1, <3>2, <3>3 DEF Loaded
    <3> QED
      BY <3>3, <3>4 DEF Prompted, WordsSoFar, In, AsAsked, Running
  <2> QED
    BY <1>3, <2>2, <2>3 DEF ReadMachine
<1>4. CASE Bind
  <2>a. In("bind")
    BY <1>4 DEF Bind
  <2>b. machine = NewMachine
    BY <2>a DEF Prepared, In
  <2>c. (main.pc # "machine") = TRUE
    BY <2>a DEF In
  <2>d. Understood /\ Loaded(TRUE) /\ main.drawn = {} /\ main.tally = {}
    BY <2>a, <2>c DEF Prompted, In, MainTypeOK
  <2>1. /\ In("bind") /\ Understood /\ Loaded(TRUE) /\ main.drawn = {} /\ main.tally = {}
        /\ ~machine.started
    BY <2>a, <2>b, <2>d DEF NewMachine
  <2>2. InitMachine(object, object) /\ IF result' = "Ok" THEN Goto("mode") ELSE Exit(1)
    BY <1>0, <1>4 DEF Bind
  <2>3. result' = MachineInitStatus(object, object) /\ UNCHANGED <<models, setups>>
    BY <2>2 DEF InitMachine, MachineInit
  <2>4. models[object] \in LoadedModels \cup {EmptyModel}
    BY <1>0 DEF TypeOK, ApplicationTypeOK
  <2>5. result' = "Ok" <=> ValidateAgainst(setups[object], models[object]) = "Ok"
    BY <2>1, <2>3, <2>4, FitsIsValid DEF MachineInitStatus
  <2>6. CASE result' = "Ok"
    <3>1. Understood' /\ main'.pc = "mode" /\ main'.setup = main.setup /\ main'.machine = main.machine
      BY <2>1, <2>2, <2>6, StaysUnderstood DEF Places
    <3>2. Loaded(TRUE)'
      BY <2>1, <2>3, <3>1 DEF Loaded
    <3>3. Fit'
      BY <1>0, <2>3, <2>5, <2>6 DEF Fit
    <3> QED
      BY <3>1, <3>2, <3>3 DEF Prompted, WordsSoFar, In, AsAsked, Running
  <2>7. CASE result' # "Ok"
    <3>1. /\ main'.pc = "exit" /\ main'.exit = 1 /\ main'.argv = main.argv
          /\ main'.inspect = main.inspect /\ main'.drawn = {} /\ main'.tally = {}
      BY <2>1, <2>2, <2>7, WhereTo
    <3>2. /\ setups'[object] \in Holding(SetupAsked(main.argv), "setup")
          /\ models'[object] \in Holding(MachineAsked(main.argv), "machine")
          /\ ValidateAgainst(setups'[object], models'[object]) # "Ok"
      BY <1>0, <2>1, <2>3, <2>5, <2>7 DEF Loaded, Understood
    <3>3. AsAsked'
      BY <1>0, <2>1, <3>1, <3>2 DEF AsAsked, Understood, Drew, Ran
    <3> QED
      BY <3>1, <3>3 DEF Prompted, WordsSoFar, In, Running
  <2> QED
    BY <2>6, <2>7
<1> QED
  BY <1>1, <1>2, <1>3, <1>4

\* Files that fit are drawn, checked or run.
LEMMA EndsAsAsked ==
  ASSUME TypeOK, Stages, Prompted, Export \/ Check \/ Summary
  PROVE  Prompted'
<1> USE DEF Stages
<1>0. PICK object \in Object : Object = {object}
  BY MainAssumption
<1>1. /\ In("mode") \/ In("stopping")
      /\ Understood /\ Loaded(TRUE) /\ Fit /\ main.drawn = {} /\ main.tally = {} /\ main.exit = 0
  BY DEF Export, Check, Summary, Prompted, In, MainTypeOK, Running
<1>2. UNCHANGED <<models, setups, machine>>
  BY DEF Export, Check, Summary, runtimeVars, vars
<1>3. /\ main'.pc = "exit" /\ main'.argv = main.argv /\ main'.inspect = main.inspect
      /\ \/ /\ "--export" \in main.options
            /\ main'.drawn # {} /\ main'.tally = {} /\ main'.exit = 0
         \/ /\ "--export" \notin main.options /\ main.options \cap {"--check", "--lint"} # {}
            /\ main'.drawn = {} /\ main'.tally = {}
            /\ main'.exit = IF main.inspect THEN LintExit ELSE 0
         \/ /\ main.options \cap {"--export", "--check", "--lint"} = {}
            /\ main'.drawn = {} /\ main'.tally # {} /\ main'.exit = 0
  <2>1. CASE Export
    BY <1>1, <2>1 DEF Export, MainTypeOK, NewMain
  <2>2. CASE Check
    <3>1. /\ Exit(IF main.inspect THEN LintExit ELSE 0)
          /\ "--export" \notin main.options /\ main.options \cap {"--check", "--lint"} # {}
      BY <2>2 DEF Check
    <3> QED
      BY <1>1, <3>1, WhereTo
  <2>3. CASE Summary
    <3>1. main' = [main EXCEPT !.pc = "exit", !.tally = {Tally}] /\ In("stopping")
      BY <2>3 DEF Summary
    <3>2. main.options \cap {"--export", "--check", "--lint"} = {}
      BY <3>1 DEF Prompted, In, Running
    <3> QED
      BY <1>1, <3>1, <3>2 DEF MainTypeOK, NewMain
  <2> QED
    BY <2>1, <2>2, <2>3
<1>4. \A option \in {"--export", "--check", "--lint"} :
        option \in main.options <=> Asked(main.argv, option)
  BY <1>1 DEF Understood, Modes
<1>5. /\ setups'[object] \in Holding(SetupAsked(main.argv), "setup")
      /\ models'[object] \in Holding(MachineAsked(main.argv), "machine")
      /\ ValidateAgainst(setups'[object], models'[object]) = "Ok"
  BY <1>0, <1>1, <1>2 DEF Loaded, Fit, Understood
<1>6. Configured' = Configured
  BY <1>2 DEF Configured
<1>7. /\ Drew' <=> Asked(main.argv, "--export")
      /\ Ran' <=> \A option \in {"--export", "--check", "--lint"} : ~Asked(main.argv, option)
  BY <1>3, <1>4 DEF Drew, Ran
<1>8. main'.exit = IF ~Drew' /\ ~Ran' /\ main.inspect /\ Configured \in Faulty THEN 1 ELSE 0
  BY <1>3 DEF Drew, Ran, LintExit
<1>9. AsAsked'
  BY <1>0, <1>1, <1>3, <1>5, <1>6, <1>7, <1>8 DEF AsAsked, Understood
<1> QED
  BY <1>3, <1>9 DEF Prompted, WordsSoFar, In, Running

\* As long as main() runs, it holds to what it understood.
LEMMA StillAsAsked ==
  ASSUME MainTypeOK, Prompted, UNCHANGED <<models, setups>>,
         \/ main' = main /\ ~In("exit")
         \/ main.pc \in Running /\ \E pc \in Running : Goto(pc)
  PROVE  Prompted'
<1>1. CASE main' = main /\ ~In("exit")
  <2>1. /\ UNCHANGED WordsSoFar /\ UNCHANGED Understood /\ UNCHANGED Fit
        /\ UNCHANGED Loaded(main.pc # "machine")
    BY <1>1 DEF WordsSoFar, In, ReadUpTo, Understood, Fit, Loaded
  <2>2. AsAsked'
    BY <1>1 DEF AsAsked, In
  <2> QED
    BY <1>1, <2>1, <2>2 DEF Prompted
<1>2. CASE main.pc \in Running /\ \E pc \in Running : Goto(pc)
  <2>1. PICK pc \in Running : Goto(pc)
    BY <1>2
  <2>2. pc \in Places \ {"exit"}
    BY DEF Running, Places
  <2>3. main.pc \notin {"words", "setup", "machine", "exit"} /\ pc \notin {"words", "setup", "machine", "exit"}
    BY <1>2 DEF Running
  <2>4. (main.pc # "machine") = TRUE
    BY <2>3
  <2>5. Understood /\ Loaded(TRUE) /\ Fit /\ main.options \cap {"--export", "--check", "--lint"} = {}
    BY <1>2, <2>3, <2>4 DEF Prompted
  <2>6. /\ Understood' /\ main'.pc = pc /\ main'.setup = main.setup /\ main'.machine = main.machine
        /\ main'.options = main.options
    BY <2>1, <2>2, <2>5, StaysUnderstood
  <2>7. Loaded(TRUE)' /\ Fit'
    BY <2>5, <2>6 DEF Loaded, Fit
  <2>8. (main'.pc # "machine") = TRUE
    BY <2>3, <2>6
  <2>9. WordsSoFar' /\ AsAsked'
    BY <2>3, <2>6 DEF WordsSoFar, AsAsked, In
  <2> QED
    BY <2>3, <2>5, <2>6, <2>7, <2>8, <2>9 DEF Prompted
<1> QED
  BY <1>1, <1>2

\* The runtime accepts the machine that was bound, and is started once.
LEMMA RunsAsAsked ==
  ASSUME TypeOK, Stages, Prompted, SetUpRuntime \/ Started
  PROVE  Prompted'
<1> USE DEF Stages
<1>1. CASE SetUpRuntime
  <2>1. /\ In("mode") /\ main.options \cap {"--export", "--check", "--lint"} = {} /\ RuntimeInit
        /\ IF result' = "Ok" THEN Goto("start") ELSE Exit(1)
    BY <1>1 DEF SetUpRuntime
  <2>2. ~rt.started /\ machine.model # Null
    BY <2>1 DEF Prepared, In, Preparing
  <2>3. result' = "Ok" /\ UNCHANGED <<models, setups>>
    BY <2>1, <2>2 DEF RuntimeInit, RuntimeInitStatus
  <2>4. Goto("start")
    BY <2>1, <2>3
  <2>5. (main.pc # "machine") = TRUE
    BY <2>1 DEF In
  <2>6. Understood /\ Loaded(TRUE) /\ Fit
    BY <2>1, <2>5 DEF Prompted, In
  <2>7. /\ Understood' /\ main'.pc = "start" /\ main'.setup = main.setup /\ main'.machine = main.machine
        /\ main'.options = main.options
    BY <2>4, <2>6, StaysUnderstood DEF Places
  <2>8. Loaded(TRUE)' /\ Fit'
    BY <2>3, <2>6, <2>7 DEF Loaded, Fit
  <2>9. (main'.pc # "machine") = TRUE
    BY <2>7
  <2>10. WordsSoFar' /\ AsAsked'
    BY <2>7 DEF WordsSoFar, AsAsked, In
  <2> QED
    BY <2>1, <2>7, <2>8, <2>9, <2>10 DEF Prompted
<1>2. CASE Started
  <2>1. In("starting") /\ Idle /\ UNCHANGED <<models, setups>>
        /\ IF result = "Ok" THEN Goto("serve") ELSE Exit(1)
    BY <1>2 DEF Started, runtimeVars, vars
  <2>2. result = "Ok"
    BY <2>1 DEF Beginnings
  <2>3. main.pc \in Running /\ "serve" \in Running
    BY <2>1 DEF In, Running
  <2> QED
    BY <2>1, <2>2, <2>3, StillAsAsked
<1> QED
  BY <1>1, <1>2

LEMMA StepPrompted ==
  ASSUME TypeOK, BoundFit, Stages, Prompted, [ProgramNext]_programVars
  PROVE  Prompted'
<1> USE DEF Stages
<1>1. CASE In("exit")
  <2>1. UNCHANGED programVars
    BY <1>1, ExitIsFinal
  <2>2. /\ UNCHANGED main /\ UNCHANGED setups /\ UNCHANGED models /\ UNCHANGED machine
    BY <2>1 DEF programVars, vars
  <2>3. main.pc = "exit"
    BY <1>1 DEF In
  <2>4. AsAsked'
    BY <2>2 DEF Prompted, AsAsked, In, Drew, Ran, Configured
  <2> QED
    BY <2>2, <2>3, <2>4 DEF Prompted, WordsSoFar, In, Running
<1>2. CASE ~In("exit") /\ (StepRuntime \/ Recover \/ GetLine \/ UNCHANGED programVars)
  <2>1. main' = main
    BY <1>2, ConsoleOnly DEF StepRuntime, programVars
  <2>2. ~Files
    BY <1>2, <2>1, FilesGo DEF In
  <2>3. UNCHANGED <<models, setups>>
    BY <2>2, MachineKept
  <2> QED
    BY <1>2, <2>1, <2>3, StillAsAsked
<1>3. CASE StartRuntime \/ CallService \/ StopRuntime \/ Served
  <2>1. main.pc \in Running /\ \E pc \in Running : Goto(pc)
    BY <1>3 DEF StartRuntime, CallService, StopRuntime, Served, In, Running
  <2>2. UNCHANGED <<models, setups>>
    BY <1>3, CallsMade, AloneChanges DEF Alone, vars
  <2> QED
    BY <2>1, <2>2, StillAsAsked
<1>4. CASE Export \/ Check \/ Summary
  BY <1>4, EndsAsAsked
<1>5. CASE EndOfWords \/ ReadSetup \/ ReadMachine \/ Bind
  BY <1>5, FilesAsAsked
<1>6. CASE SetUpRuntime \/ Started
  BY <1>6, RunsAsAsked
<1>7. CASE ReadWord
  BY <1>7, WordDecides
<1> QED
  BY <1>1, <1>2, <1>3, <1>4, <1>5, <1>6, <1>7, StepKinds DEF Alone, Files

\* Whatever its command line and its files, the program does what they ask.
THEOREM DoesAsAsked == ProgramSpec => []AsAsked
<1>1. ProgramInit => Prompted
  <2> SUFFICES ASSUME ProgramInit PROVE Prompted
    OBVIOUS
  <2>1. PICK words \in CommandLines, inspect \in BOOLEAN : main = NewMain(words, inspect)
    BY DEF ProgramInit
  <2>2. /\ main.pc = "words" /\ main.next = 1 /\ main.options = {} /\ main.positional = 0
        /\ main.setup = "car.setup.yaml" /\ main.machine = "car.machine.yaml"
    BY <2>1 DEF NewMain
  <2>3. MainTypeOK
    BY InitStages DEF Stages
  <2>4. /\ Len(main.argv) \in Nat /\ DOMAIN main.argv = 1 .. Len(main.argv)
        /\ Given(main.argv) \subseteq 1 .. Len(main.argv)
        /\ Later(main.argv) \subseteq Given(main.argv)
        /\ Decisive(main.argv, main.inspect) \subseteq 1 .. Len(main.argv)
    BY <2>3, WordPositions
  <2>5. ReadUpTo(1)
    BY <2>2, <2>4 DEF ReadUpTo
  <2>6. setups = [o \in Object |-> EmptySetup]
    BY DEF ProgramInit, Init
  <2> QED
    BY <2>2, <2>5, <2>6 DEF Prompted, WordsSoFar, AsAsked, In, Running
<1>2. TypeOK /\ BoundFit /\ Stages /\ Prompted /\ [ProgramNext]_programVars => Prompted'
  BY StepPrompted
<1>3. Prompted => AsAsked
  BY DEF Prompted
<1>4. Known => TypeOK
  BY DEF Known
<1> QED
  BY <1>1, <1>2, <1>3, <1>4, StagesHold, PTL DEF ProgramSpec

-----------------------------------------------------------------------------
(* The transcript. *)

\* What a step of a call does with the input that it was handed.
LEMMA InputPassed ==
  ASSUME Truthful, Truthful', Stages, StepRuntime
  PROVE  \/ /\ PublishState \/ PublishError
            /\ call'.input = <<>> /\ port.inbox = <<>> /\ port'.inbox = <<>>
         \/ /\ ~PublishState /\ ~PublishError
            /\ said' = said
            /\ \/ call'.input = call.input /\ port'.inbox = port.inbox
               \/ /\ call.input = <<>> /\ port.inbox # <<>>
                  /\ call'.input = port.inbox /\ port'.inbox = <<>>
<1> USE DEF Stages, Truthful
<1>0. TypeOK /\ CallTypeOK /\ RuntimeStep
      /\ said' = IF At("publish") /\ call.say.kind # "nothing"
                 THEN Append(said, Spoken(call.say)) ELSE said
  BY DEF TypeOK, StepRuntime
<1>1. CASE PublishState \/ PublishError
  <2>1. At("publish") /\ port' = port
    BY <1>1 DEF PublishState, PublishError
  <2>2. call'.pc \in {"idle", "trace"}
    BY <1>0, <1>1, PublishEnds
  <2> QED
    BY <1>1, <2>1, <2>2 DEF Buffered, Serving, At
<1>2. ~PublishNothing
  BY DEF PublishNothing, Answering, Beginning, AnswerReady, Saying, AState, At
<1>3. CASE At("receive")
  <2>1. call.input = <<>> /\ ~PublishState /\ ~PublishError /\ said' = said
    BY <1>0, <1>3 DEF Serving, At, PublishState, PublishError
  <2>2. CASE ReceiveNothing /\ port' = port
    <3>1. call'.pc = "idle"
      BY <1>0, <1>3, <2>2, PortCallGoesOn DEF At
    <3> QED
      BY <2>1, <2>2, <3>1 DEF Serving
  <2>3. CASE ReceiveUnrouted \/ ReceiveBadArguments \/ ReceiveTrigger
    <3>1. PICK other \in Inputs : port.inbox = <<other>> /\ port'.inbox = <<>>
      BY <1>0, <1>3, <2>3, ReceivedOne DEF ReceiveUnrouted, ReceiveBadArguments, ReceiveTrigger, Arrives
    <3>2. PICK input \in Inputs : Arrives(input) /\ call'.input = <<input>>
      BY <1>0, <2>3 DEF ReceiveUnrouted, ReceiveBadArguments, ReceiveTrigger, CallTypeOK, NoCall
    <3>3. input = other
      BY <3>1, <3>2 DEF Arrives
    <3> QED
      BY <2>1, <3>1, <3>2, <3>3
  <2> QED
    BY <1>0, <1>3, <2>2, <2>3, ReceivedOne
<1>4. CASE Dispatch
  <2>1. call.pc = "dispatch" /\ port' = port
    BY <1>4 DEF Dispatch, At
  <2>2. call'.input = call.input
    BY <1>0, <1>4 DEF Dispatch, Answer, CallTypeOK, NoCall
  <2> QED
    BY <1>0, <2>1, <2>2 DEF At, PublishState, PublishError
<1>5. CASE Configure \/ Open \/ Listen \/ EnterInitial \/ Trace \/ Close
  <2>1. call.pc \in {"configure", "open", "listen", "trace", "close"}
    BY <1>5 DEF Configure, Open, Listen, EnterInitial, Trace, Close, At
  <2>2. call.input = <<>> /\ said' = said /\ port'.inbox = port.inbox
    BY <1>0, <2>1, InboxOnlyRead DEF Serving, At
  <2>3. call'.input = <<>>
    <3>1. CASE EnterInitial
      <4>1. call' = NoCall \/ call' = [call EXCEPT !.pc = "publish", !.say = SayState(machine.initial)]
        BY <3>1 DEF EnterInitial
      <4>2. CASE call' = NoCall
        BY <4>2 DEF NoCall
      <4>3. CASE call' = [call EXCEPT !.pc = "publish", !.say = SayState(machine.initial)]
        <5>1. call'.input = call.input
          BY <1>0, <4>3 DEF CallTypeOK, NoCall
        <5> QED
          BY <2>2, <5>1
      <4> QED
        BY <4>1, <4>2, <4>3
    <3>2. CASE ~EnterInitial
      <4>1. call'.pc \in {"idle", "open", "listen"}
        BY <1>0, <1>5, <3>2, PortCallGoesOn, TraceEnds
      <4> QED
        BY <4>1 DEF Serving
    <3> QED
      BY <3>1, <3>2
  <2> QED
    BY <2>1, <2>2, <2>3 DEF At, PublishState, PublishError
<1> QED
  BY <1>0, <1>1, <1>2, <1>3, <1>4, <1>5 DEF RuntimeStep, ReceiveNothing, ReceiveUnrouted,
     ReceiveBadArguments, ReceiveTrigger, Arrives, PublishState, PublishError

\* Turns number the lines that are to be answered.
LEMMA Turns ==
  ASSUME heard \in Seq(Lines)
  PROVE  /\ Len(heard) \in Nat /\ Answerable \subseteq 1 .. Len(heard)
         /\ Cardinality(Answerable) \in Nat /\ Cardinality(Answerable) <= Len(heard)
         /\ \A p \in Answerable :
              /\ Turn(p) \in 1 .. Cardinality(Answerable)
              /\ Turn(p) = Cardinality(Answerable) => \A q \in Answerable : q <= p
         /\ Len(heard) \in Answerable => Turn(Len(heard)) = Cardinality(Answerable)
<1>1. Len(heard) \in Nat /\ Answerable \in SUBSET (1 .. Len(heard))
  BY LenProperties DEF Answerable
<1>2. /\ IsFiniteSet(Answerable) /\ Cardinality(Answerable) \in Nat
      /\ Cardinality(Answerable) <= Len(heard)
  BY <1>1, OneMore
<1>3. ASSUME NEW p \in Answerable
      PROVE  /\ Turn(p) \in 1 .. Cardinality(Answerable)
             /\ Turn(p) = Cardinality(Answerable) => \A q \in Answerable : q <= p
  <2> DEFINE S == {q \in Answerable : q <= p}
  <2>1. S \in SUBSET Answerable /\ p \in S
    BY <1>1, <1>3
  <2>2. /\ IsFiniteSet(S) /\ Cardinality(S) <= Cardinality(Answerable)
        /\ Cardinality(Answerable) = Cardinality(S) => Answerable = S
    BY <1>2, <2>1, FS_Subset
  <2>3. Cardinality(S) \in Nat /\ Cardinality(S) # 0
    BY <2>1, <2>2, FS_CardinalityType, FS_EmptySet
  <2>4. Turn(p) = Cardinality(S)
    BY DEF Turn
  <2> QED
    BY <1>2, <2>2, <2>3, <2>4
<1>4. ASSUME Len(heard) \in Answerable PROVE Turn(Len(heard)) = Cardinality(Answerable)
  <2>0. \A q \in Answerable : q <= Len(heard)
    <3> TAKE q \in Answerable
    <3>1. q \in 1 .. Len(heard)
      BY <1>1
    <3> QED
      BY <1>1, <3>1
  <2>1. {q \in Answerable : q <= Len(heard)} = Answerable
    BY <2>0
  <2> QED
    BY <2>1 DEF Turn
<1> QED
  BY <1>1, <1>2, <1>3, <1>4

\* Each line whose turn has come was answered as the table says.
Replied ==
  IsTableOf(Configured[1]) =>
    \A p \in Answerable :
      Turn(p) < Len(said) => said[1 + Turn(p)] = Reply(CurrentIn(said, Turn(p)), heard[p])

\* One answer, to the line that was read last.
LEMMA OneMoreAnswer ==
  ASSUME Buffered, Replied, NEW say, said' = Append(said, say), heard' = heard,
         Configured' = Configured, Len(said) = Cardinality(Answerable), said # <<>>,
         said[1].kind = "state", Len(heard) \in Answerable,
         IsTableOf(Configured[1]) => say = Reply(CurrentIn(said, Len(said)), heard[Len(heard)])
  PROVE  /\ Replied' /\ Len(said') = 1 + Cardinality(Answerable') /\ said'[1] = said[1]
<1> DEFINE more == Append(said, say)
<1>1. /\ Len(said) \in Nat /\ Len(more) = Len(said) + 1
      /\ DOMAIN said = 1 .. Len(said)
      /\ \A i \in 1 .. Len(said) : more[i] = said[i]
      /\ more[Len(said) + 1] = say
  BY Longer DEF Buffered
<1>2. 1 \in Announced(said) /\ 1 <= Len(said)
  <2>1. Len(said) # 0
    BY EmptySeq DEF Buffered
  <2> QED
    BY <1>1, <2>1 DEF Announced
<1>3. \A n \in 1 .. Len(said) : CurrentIn(more, n) = CurrentIn(said, n)
  <2> TAKE n \in 1 .. Len(said)
  <2>1. n \in Nat /\ n <= Len(said) /\ 1 <= n
    BY <1>1
  <2> QED
    BY <1>2, <2>1, CurrentKept DEF Buffered
<1>4. /\ Answerable' = Answerable /\ \A p : Turn(p)' = Turn(p)
  BY DEF Answerable, Turn
<1> HIDE DEF more
<1>5. ASSUME IsTableOf(Configured[1]), NEW p \in Answerable, Turn(p) < Len(more)
      PROVE  more[1 + Turn(p)] = Reply(CurrentIn(more, Turn(p)), heard[p])
  <2>1. Turn(p) \in 1 .. Len(said)
    BY Turns DEF Buffered
  <2>2. CASE Turn(p) < Len(said)
    <3>1. said[1 + Turn(p)] = Reply(CurrentIn(said, Turn(p)), heard[p])
      BY <1>5, <2>2 DEF Replied
    <3>2. 1 + Turn(p) \in 1 .. Len(said)
      BY <1>1, <2>1, <2>2
    <3> QED
      BY <1>1, <1>3, <2>1, <3>1, <3>2
  <2>3. CASE Turn(p) = Len(said)
    <3>1. p = Len(heard)
      <4>1. Len(heard) <= p /\ p \in 1 .. Len(heard) /\ Len(heard) \in Nat
        BY <2>3, Turns DEF Buffered
      <4> QED
        BY <4>1
    <3>2. more[1 + Turn(p)] = say
      BY <1>1, <2>3
    <3> QED
      BY <1>3, <1>5, <2>1, <2>3, <3>1, <3>2
  <2> QED
    BY <1>1, <2>1, <2>2, <2>3
<1>6. Replied'
  BY <1>4, <1>5 DEF Replied, more
<1> QED
  BY <1>1, <1>2, <1>4, <1>6 DEF more

\* A line that is still to be answered: it was too long, or it is in the port, or
\* in the call.
Pending == IF console.fail \/ port.inbox # <<>> \/ call.input # <<>> THEN 1 ELSE 0

\* Unless the stream is broken, the transcript is complete but for the line that
\* was read last.
Transcribed ==
  ~console.broken =>
    /\ console.fail => heard # <<>> /\ heard[Len(heard)].kind = "long"
    /\ call.input # <<>> =>
         /\ heard # <<>> /\ heard[Len(heard)].kind = "input"
         /\ heard[Len(heard)].input = call.input
    /\ said = <<>> => heard = <<>>
    /\ said # <<>> =>
         /\ Len(said) + Pending = 1 + Cardinality(Answerable)
         /\ said[1] = AState(setups[machine.setup].initial)
         /\ Replied

\* A step that neither says nor reads anything.
LEMMA NothingTold ==
  ASSUME TypeOK, Stages, Transcribed, UNCHANGED <<said, heard>>,
         said # <<>> => UNCHANGED <<Configured, setups[machine.setup].initial>>,
         \/ console'.broken
         \/ /\ ~console.broken
            /\ (console'.fail => console.fail) /\ UNCHANGED port.inbox
            /\ (call'.input = call.input \/ call'.input = <<>>)
            /\ Pending' = Pending
         \/ /\ ~console.broken /\ ~console'.fail /\ port.inbox # <<>> /\ call'.input = port.inbox
            /\ Pending' = Pending
  PROVE  Transcribed'
<1> SUFFICES ASSUME ~console'.broken PROVE Transcribed'
  BY DEF Transcribed
<1>1. Pending' = Pending /\ ~console.broken
  OBVIOUS
<1>2. /\ console'.fail => heard # <<>> /\ heard[Len(heard)].kind = "long"
      /\ call'.input # <<>> =>
           /\ heard # <<>> /\ heard[Len(heard)].kind = "input"
           /\ heard[Len(heard)].input = call'.input
  BY <1>1 DEF Transcribed, Stages, Buffered
<1>3. Answerable' = Answerable /\ \A p : Turn(p)' = Turn(p)
  BY DEF Answerable, Turn
<1>4. said # <<>> => Replied'
  BY <1>1, <1>3 DEF Transcribed, Replied
<1>5. Cardinality(Answerable)' = Cardinality(Answerable)
  BY <1>3
<1> HIDE DEF Pending
<1> QED
  BY <1>1, <1>2, <1>4, <1>5 DEF Transcribed

\* Between calls no line waits for an answer.
LEMMA NonePending ==
  ASSUME Serving, Stages, Idle
  PROVE  ~console.fail /\ ~console.broken /\ port.inbox = <<>> /\ call.input = <<>> /\ Pending = 0
BY DEF Serving, Stages, Buffered, Idle, At, Pending

\* main() by itself adds nothing to the transcript.
LEMMA MainTranscribed ==
  ASSUME Truthful, Truthful', Stages, Stages', Transcribed, [ProgramNext]_programVars,
         Alone \/ Files \/ StartRuntime \/ CallService \/ StopRuntime
  PROVE  Transcribed'
<1> USE DEF Truthful
<1>0. MainTypeOK /\ TypeOK
  BY DEF Stages
<1>1. Idle /\ UNCHANGED <<said, heard, console, port>>
  BY <1>0, AloneGoes, FilesGo, AloneChanges, FilesChange, CallsMade DEF Stages, InPlace, In, vars
<1>2. ~console.fail /\ ~console.broken /\ port.inbox = <<>> /\ call.input = <<>> /\ Pending = 0
  BY <1>1, NonePending
<1>3. call'.input = <<>>
  <2>1. call'.pc \notin {"dispatch", "publish"}
    <3>1. CASE Alone \/ Files
      BY <1>1, <3>1, AloneChanges, FilesChange DEF vars, Idle
    <3>2. CASE StartRuntime \/ CallService \/ StopRuntime
      BY <1>0, <3>2, CallsMade DEF Idle, NoCall
    <3> QED
      BY <3>1, <3>2
  <2> QED
    BY <2>1 DEF Serving
<1>4. Pending' = 0
  BY <1>1, <1>2, <1>3 DEF Pending
<1>5. said # <<>> => UNCHANGED <<Configured, setups[machine.setup].initial>>
  <2>1. CASE Files
    BY <1>0, <2>1, FilesGo DEF Stages, Prepared, Preparing, In
  <2>2. CASE ~Files
    BY <1>0, <2>2, MachineKept DEF Configured
  <2> QED
    BY <2>1, <2>2
<1> QED
  BY <1>0, <1>1, <1>2, <1>3, <1>4, <1>5, NothingTold

\* What is read is pending, if it is to be answered.
LEMMA LineTranscribed ==
  ASSUME Truthful, Stages, Transcribed, GetLine, ~console'.broken
  PROVE  Transcribed'
<1> USE DEF Truthful, Stages
<1>1. PICK line \in Upcoming :
        /\ At("receive") /\ port.inbox = <<>> /\ ~console.fail
        /\ said' = said
        /\ console'.fail = (line.kind \in {"long", "broken"})
        /\ console'.broken = (line.kind = "broken")
        /\ heard' = IF line.kind \in {"end", "broken"} THEN heard ELSE Append(heard, line)
        /\ IF line.kind = "input"
           THEN port'.inbox = line.input /\ port'.ended = port.ended
           ELSE port'.inbox = <<>> /\ (port'.ended <=> line.kind \in {"quit", "end"})
  BY GetLineEffects
<1>2. ~console.broken /\ line.kind # "broken"
  <2>1. line.kind # "broken"
    BY <1>1
  <2>2. ~console.eof \/ ~console.broken
    BY DEF Buffered
  <2> QED
    BY <2>1, <2>2 DEF Upcoming, Line
<1>3. UNCHANGED <<machine, setups, models, call>> /\ call.input = <<>>
  BY <1>1, ConsoleOnly DEF Serving, At
<1>4. In("serving") /\ said # <<>>
  BY <1>1 DEF InPlace, InSession, In, At, Idle
<1>5. Pending = 0 /\ Len(said) = 1 + Cardinality(Answerable) /\ Replied
      /\ said[1] = AState(setups[machine.setup].initial)
  <2>1. Pending = 0
    BY <1>1, <1>3 DEF Pending
  <2>2. Len(said) \in Nat
    BY LenProperties DEF Buffered
  <2> HIDE DEF Pending
  <2> QED
    BY <1>2, <1>4, <2>1, <2>2 DEF Transcribed
<1>6. heard \in Seq(Lines) /\ Configured' = Configured
  BY <1>3 DEF Buffered, Configured
<1>7. CASE line.kind = "end"
  <2>1. UNCHANGED <<said, heard, port.inbox>> /\ call'.input = call.input /\ ~console'.fail
    BY <1>1, <1>3, <1>7
  <2>2. Pending' = Pending
    BY <1>1, <2>1 DEF Pending
  <2>3. UNCHANGED <<Configured, setups[machine.setup].initial>>
    BY <1>3, <1>6
  <2> QED
    BY <1>2, <2>1, <2>2, <2>3, NothingTold
<1>8. CASE line.kind # "end"
  <2>0. PICK n \in Nat : n = Len(heard) + 1
    BY <1>6, LenProperties
  <2>1. /\ heard' = Append(heard, line) /\ line \in Lines /\ Len(heard) \in Nat
        /\ Len(heard') = n /\ heard' \in Seq(Lines)
        /\ \A p \in 1 .. Len(heard) : heard'[p] = heard[p]
        /\ heard'[n] = line /\ heard' # <<>>
    BY <1>1, <1>2, <1>6, <1>8, <2>0, LineRead, LenProperties, AppendProperties DEF Line
  <2>2. /\ Answerable \subseteq 1 .. Len(heard) /\ Cardinality(Answerable) \in Nat
        /\ \A p \in Answerable : Turn(p) \in 1 .. Cardinality(Answerable)
    BY <1>6, Turns
  <2>3. Answerable' = IF line.kind \in {"long", "input"} THEN Answerable \cup {n} ELSE Answerable
    <3>1. DOMAIN heard = 1 .. Len(heard) /\ DOMAIN heard' = 1 .. n
      BY <1>6, <2>1, LenProperties
    <3> QED
      BY <2>1, <3>1 DEF Answerable
  <2>4. Cardinality(Answerable') = Cardinality(Answerable) + IF line.kind \in {"long", "input"} THEN 1 ELSE 0
    <3>1. Cardinality(Answerable \cup {n}) = Cardinality(Answerable) + 1
      BY <2>0, <2>1, <2>2, OneMore
    <3> QED
      BY <2>2, <2>3, <3>1
  <2>5. Pending' = IF line.kind \in {"long", "input"} THEN 1 ELSE 0
    <3>1. line.kind = "input" => port'.inbox # <<>>
      <4>1. SUFFICES ASSUME line.kind = "input" PROVE port'.inbox # <<>>
        OBVIOUS
      <4>2. PICK input \in Inputs : line.input = <<input>>
        BY <2>1, <4>1, LineRead
      <4>3. port'.inbox = <<input>>
        BY <1>1, <4>1, <4>2
      <4> QED
        BY <4>3
    <3> QED
      BY <1>1, <1>2, <1>3, <3>1 DEF Pending
  <2>6. \A p \in Answerable : Turn(p)' = Turn(p)
    <3> TAKE p \in Answerable
    <3>1. {q \in Answerable' : q <= p} = {q \in Answerable : q <= p}
      BY <2>1, <2>2, <2>3
    <3> QED
      BY <3>1 DEF Turn
  <2>7. n \in Answerable' => Turn(n)' = Cardinality(Answerable')
    <3>1. \A q \in Answerable' : q <= n
      <4> TAKE q \in Answerable'
      <4>1. q \in Answerable => q \in 1 .. Len(heard)
        BY <2>2
      <4> QED
        BY <2>0, <2>1, <2>3, <4>1
    <3>2. {q \in Answerable' : q <= n} = Answerable'
      BY <3>1
    <3>3. Turn(n)' = Cardinality({q \in Answerable' : q <= n})
      BY DEF Turn
    <3> QED
      BY <3>2, <3>3
  <2>8. Replied'
    <3> SUFFICES ASSUME IsTableOf(Configured[1]), NEW p \in Answerable', Turn(p)' < Len(said)
                 PROVE  said[1 + Turn(p)'] = Reply(CurrentIn(said, Turn(p)'), heard'[p])
      BY <1>1, <1>6 DEF Replied
    <3>2. CASE p \in Answerable
      <4>1. Turn(p)' = Turn(p) /\ heard'[p] = heard[p]
        BY <2>1, <2>2, <2>6, <3>2
      <4> QED
        BY <1>5, <3>2, <4>1 DEF Replied
    <3>3. CASE p \notin Answerable
      <4>1. p = n /\ line.kind \in {"long", "input"}
        BY <2>3, <3>3
      <4>2. Turn(n)' = Cardinality(Answerable) + 1
        BY <2>3, <2>4, <2>7, <4>1
      <4>3. Turn(p)' = Turn(n)'
        BY <4>1 DEF Turn
      <4> QED
        BY <1>5, <2>2, <4>2, <4>3
    <3> QED
      BY <3>2, <3>3
  <2>9. Len(said') + Pending' = 1 + Cardinality(Answerable')
    BY <1>1, <1>5, <2>2, <2>4, <2>5
  <2>10. /\ console'.fail => heard' # <<>> /\ heard'[Len(heard')].kind = "long"
         /\ call'.input = <<>> /\ said' # <<>> /\ said'[1] = AState(setups[machine.setup].initial)'
    BY <1>1, <1>2, <1>3, <1>4, <1>5, <2>1
  <2> HIDE DEF Pending
  <2> QED
    BY <2>8, <2>9, <2>10 DEF Transcribed
<1> QED
  BY <1>7, <1>8

\* A line that was too long is complained about in its turn.
LEMMA ComplaintTranscribed ==
  ASSUME Truthful, Stages, Transcribed, Recover, ~console'.broken
  PROVE  Transcribed'
<1> USE DEF Truthful, Stages
<1>1. /\ At("receive") /\ console.fail /\ ~console.broken /\ ~console'.fail /\ heard' = heard
      /\ said' = IF Len(said) <= MaxLines + 1 THEN Append(said, TooLong) ELSE said
  BY DEF Recover, Buffered, Clean
<1>2. UNCHANGED <<models, setups, machine, port, call>>
  BY ConsoleOnly DEF Recover, runtimeVars, vars
<1>3. call.input = <<>> /\ port.inbox = <<>> /\ said # <<>>
  BY <1>1 DEF Serving, Buffered, InPlace, InSession, In, At, Idle
<1>4. Pending = 1 /\ Pending' = 0
  BY <1>1, <1>2, <1>3 DEF Pending
<1>5. /\ Len(said) + Pending = 1 + Cardinality(Answerable) /\ Replied
      /\ said[1] = AState(setups[machine.setup].initial)
      /\ heard # <<>> /\ heard[Len(heard)].kind = "long"
  BY <1>1, <1>3 DEF Transcribed
<1> HIDE DEF Pending
<1>6. /\ Len(said) \in Nat /\ Len(heard) \in Nat /\ MaxLines \in Nat /\ Len(heard) <= MaxLines
      /\ Cardinality(Answerable) \in Nat /\ Cardinality(Answerable) <= Len(heard)
      /\ Len(heard) \in DOMAIN heard
  BY <1>5, Turns, StreamAssumption, LenProperties, EmptySeq DEF Buffered
<1>7. Len(said) = Cardinality(Answerable) /\ said' = Append(said, TooLong)
  <2>1. Len(said) = Cardinality(Answerable)
    BY <1>4, <1>5, <1>6
  <2> QED
    BY <1>1, <1>6, <2>1
<1>8. Len(heard) \in Answerable
  BY <1>5, <1>6 DEF Answerable
<1>9. said[1].kind = "state" /\ Configured' = Configured
  BY <1>2, <1>5 DEF AState, Configured
<1>10. TooLong = Reply(CurrentIn(said, Len(said)), heard[Len(heard)])
  BY <1>5 DEF Reply
<1>11. Replied' /\ Len(said') = 1 + Cardinality(Answerable') /\ said'[1] = said[1]
  BY <1>1, <1>3, <1>5, <1>7, <1>8, <1>9, <1>10, OneMoreAnswer
<1>12. said' # <<>> /\ Cardinality(Answerable') = Cardinality(Answerable)
  BY <1>1, <1>6, <1>7, <1>11, EmptySeq DEF Answerable
<1> QED
  BY <1>1, <1>2, <1>3, <1>4, <1>5, <1>6, <1>11, <1>12 DEF Transcribed

\* The first thing that is said is the state the session starts in.
LEMMA StartTranscribed ==
  ASSUME Truthful, Truthful', BoundFit, Stages, Transcribed, Noted, StepRuntime, ~console'.broken,
         PublishState \/ PublishError, Beginning
  PROVE  Transcribed'
<1> USE DEF Truthful, Stages
<1>1. At("publish") /\ call.say.kind = "state" /\ history.states = 0
      /\ call.say = AState(StateName(Bound, machine.initial))
  BY DEF PublishState, PublishError, Beginning, AState
<1>2. heard' = heard /\ console' = console /\ said' = Append(said, call.say)
  BY <1>1 DEF StepRuntime, Spoken
<1>3. said = <<>>
  <2>1. SUFFICES ASSUME said # <<>> PROVE FALSE
    OBVIOUS
  <2>2. ~console.broken /\ said[1] = AState(setups[machine.setup].initial)
    BY <1>2, <2>1 DEF Transcribed
  <2>3. 1 \in Announced(said)
    BY <2>1, <2>2, LenProperties, EmptySeq DEF Announced, AState, Buffered
  <2>4. Announced(said) \in SUBSET (1 .. Len(said)) /\ Len(said) \in Nat
    BY LenProperties DEF Announced, Buffered
  <2>5. IsFiniteSet(Announced(said)) /\ Cardinality(Announced(said)) = 0
    BY <1>1, <2>4, OneMore DEF Noted
  <2> QED
    BY <2>3, <2>5, FS_EmptySet
<1>4. heard = <<>> /\ ~console.broken
  BY <1>2, <1>3 DEF Transcribed
<1>5. Answerable' = {} /\ Cardinality(Answerable') = 0
  BY <1>2, <1>4, FS_EmptySet DEF Answerable
<1>6. ~console.fail /\ call'.input = <<>> /\ port'.inbox = <<>>
  BY <1>1, InputPassed DEF Buffered, At
<1>7. Pending' = 0
  BY <1>2, <1>6 DEF Pending
<1>8. machine.model # Null
  BY <1>1 DEF Paired, PairMatches, At, Idle
<1>9. call.say = AState(setups[machine.setup].initial)
  BY <1>1, <1>8, InitialIsNamed
<1>10. said' # <<>> /\ Len(said') = 1 /\ said'[1] = call.say
  BY <1>2, <1>3
<1>11. AState(setups[machine.setup].initial)' = AState(setups[machine.setup].initial)
  <2>1. ~Files
    BY <1>1, FilesGo DEF InPlace, In, At, Idle
  <2>2. [ProgramNext]_programVars
    BY DEF ProgramNext
  <2> QED
    BY <2>1, <2>2, MachineKept
<1>12. Replied'
  BY <1>5 DEF Replied
<1> HIDE DEF Pending
<1> QED
  BY <1>2, <1>4, <1>5, <1>6, <1>7, <1>9, <1>10, <1>11, <1>12 DEF Transcribed

\* What is said of an input is its answer, in its turn.
LEMMA AnswerTranscribed ==
  ASSUME Truthful, Truthful', Stages, Transcribed, Noted, StepRuntime, ~console'.broken,
         PublishState \/ PublishError, AnswerReady
  PROVE  Transcribed'
<1> USE DEF Truthful, Stages
<1>1. PICK input \in Inputs :
        /\ call.input = <<input>> /\ history.states > 0
        /\ Saying("state") \/ Saying("error")
        /\ IsTableOf(Bound) =>
             IF Saying("state")
             THEN /\ Moves[history.last][input] = call.say.name /\ call.say.name # Refused
                  /\ call.say = AState(call.say.name)
             ELSE Moves[history.last][input] = Refused
  BY DEF AnswerReady
<1>2. At("publish") /\ call.say.kind \in {"state", "error"}
      /\ heard' = heard /\ console' = console /\ said' = Append(said, Spoken(call.say))
  BY <1>1 DEF StepRuntime, Saying
<1>3. /\ ~console.fail /\ ~console.broken
      /\ call'.input = <<>> /\ port.inbox = <<>> /\ port'.inbox = <<>>
  BY <1>2, InputPassed DEF Buffered, At
<1>4. Pending = 1 /\ Pending' = 0
  BY <1>1, <1>2, <1>3 DEF Pending
<1>5. said # <<>>
  <2>1. SUFFICES ASSUME said = <<>> PROVE FALSE
    OBVIOUS
  <2>2. Announced(said) = {}
    BY <2>1 DEF Announced
  <2> QED
    BY <1>1, <2>2, FS_EmptySet DEF Noted
<1>6. /\ Len(said) + Pending = 1 + Cardinality(Answerable) /\ Replied
      /\ said[1] = AState(setups[machine.setup].initial)
      /\ heard # <<>> /\ heard[Len(heard)].kind = "input" /\ heard[Len(heard)].input = <<input>>
  BY <1>1, <1>3, <1>5 DEF Transcribed
<1> HIDE DEF Pending
<1>7. /\ Len(said) \in Nat /\ Len(heard) \in Nat /\ Cardinality(Answerable) \in Nat
      /\ Len(heard) \in DOMAIN heard
  BY <1>6, Turns, LenProperties, EmptySeq DEF Buffered
<1>8. Len(said) = Cardinality(Answerable) /\ Len(heard) \in Answerable
  BY <1>4, <1>6, <1>7 DEF Answerable
<1>9. [ProgramNext]_programVars /\ ~Files
  BY <1>2, FilesGo DEF ProgramNext, InPlace, In, At, Idle
<1>10. Configured' = Configured /\ UNCHANGED <<setups, machine.setup>>
  BY <1>9, MachineKept DEF Configured
<1>11. IsTableOf(Configured[1]) =>
         Spoken(call.say) = Reply(CurrentIn(said, Len(said)), heard[Len(heard)])
  <2>1. Configured[1] = Bound /\ history.last = CurrentIn(said, Len(said))
    BY <1>1 DEF Configured, Bound, Noted
  <2>2. CASE Saying("state")
    BY <1>1, <1>6, <2>1, <2>2 DEF Reply, Spoken, Saying
  <2>3. CASE ~Saying("state")
    BY <1>1, <1>2, <1>6, <2>1, <2>3 DEF Reply, Spoken, Saying
  <2> QED
    BY <2>2, <2>3
<1>12. said[1].kind = "state"
  BY <1>6 DEF AState
<1>13. Replied' /\ Len(said') = 1 + Cardinality(Answerable') /\ said'[1] = said[1]
  BY <1>2, <1>5, <1>6, <1>8, <1>10, <1>11, <1>12, OneMoreAnswer
<1>14. said' # <<>> /\ Cardinality(Answerable') = Cardinality(Answerable)
  BY <1>2, <1>7, <1>8, <1>13, EmptySeq DEF Answerable
<1> QED
  BY <1>2, <1>3, <1>4, <1>6, <1>7, <1>10, <1>13, <1>14 DEF Transcribed

LEMMA StepTranscribed ==
  ASSUME Truthful, Truthful', BoundFit, Stages, Stages', Transcribed, Noted,
         [ProgramNext]_programVars
  PROVE  Transcribed'
<1> SUFFICES ASSUME ~console'.broken PROVE Transcribed'
  BY DEF Transcribed
<1> USE DEF Truthful
<1>1. CASE Alone \/ Files \/ StartRuntime \/ CallService \/ StopRuntime
  BY <1>1, MainTranscribed
<1>2. CASE GetLine
  BY <1>2, LineTranscribed
<1>3. CASE Recover
  BY <1>3, ComplaintTranscribed
<1>4. CASE StepRuntime /\ (PublishState \/ PublishError)
  <2>1. At("publish")
    BY <1>4 DEF PublishState, PublishError
  <2> QED
    BY <1>4, <2>1, StartTranscribed, AnswerTranscribed DEF Answering
<1>5. CASE StepRuntime /\ ~PublishState /\ ~PublishError
  <2>1. console' = console /\ heard' = heard /\ said' = said /\ ~Idle
    BY <1>5, InputPassed, CallFollows DEF StepRuntime
  <2>2. ~Files
    BY <2>1, FilesGo DEF Stages, InPlace, In
  <2>3. UNCHANGED <<Configured, setups[machine.setup].initial>>
    BY <2>2, MachineKept DEF Configured
  <2>4. CASE call'.input = call.input /\ port'.inbox = port.inbox
    <3>1. Pending' = Pending
      BY <2>1, <2>4 DEF Pending
    <3> QED
      BY <2>1, <2>3, <2>4, <3>1, NothingTold
  <2>5. CASE /\ call.input = <<>> /\ port.inbox # <<>>
             /\ call'.input = port.inbox /\ port'.inbox = <<>>
    <3>1. Pending' = Pending /\ ~console'.fail
      BY <2>1, <2>5 DEF Pending, Stages, Buffered
    <3> QED
      BY <2>1, <2>3, <2>5, <3>1, NothingTold
  <2> QED
    BY <1>5, <2>4, <2>5, InputPassed
<1>6. CASE UNCHANGED programVars
  <2>1. UNCHANGED <<said, heard, console, port, call, models, setups, machine>>
    BY <1>6 DEF programVars, vars
  <2>2. Pending' = Pending /\ Configured' = Configured
    BY <2>1 DEF Pending, Configured
  <2> QED
    BY <2>1, <2>2, NothingTold
<1> QED
  BY <1>1, <1>2, <1>3, <1>4, <1>5, <1>6, StepKinds

\* Whatever is typed, each line is answered once, in its turn and as the file has
\* it.
THEOREM TellsEveryLine == ProgramSpec => []TranscriptTold
<1> DEFINE Told == Noted /\ Transcribed /\ (Ran => said # <<>>)
<1>1. ProgramInit => Told
  <2> SUFFICES ASSUME ProgramInit PROVE Told
    OBVIOUS
  <2>1. heard = <<>> /\ said = <<>> /\ main.tally = {}
    BY DEF ProgramInit, NewMain
  <2>2. Announced(said) = {} /\ Errors(said) = {}
    BY <2>1 DEF Announced, Errors
  <2>3. history.states = 0 /\ history.errors = 0 /\ call.input = <<>> /\ ~console.fail
    BY DEF ProgramInit, Init, NewHistory, NoCall
  <2>4. Noted
    BY <2>2, <2>3, FS_EmptySet DEF Noted
  <2> QED
    BY <2>1, <2>3, <2>4 DEF Transcribed, Ran
<1>2. /\ Truthful /\ Truthful' /\ BoundFit /\ Stages /\ Stages' /\ Told /\ [ProgramNext]_programVars
      => Told'
  <2> SUFFICES ASSUME Truthful, Truthful', BoundFit, Stages, Stages', Told, [ProgramNext]_programVars
               PROVE  Told'
    OBVIOUS
  <2>1. TypeOK /\ MainTypeOK
    BY DEF Truthful, Stages
  <2>2. Noted' /\ Transcribed'
    BY <2>1, StepNoted, StepTranscribed
  <2>3. Ran' => said' # <<>>
    <3>1. CASE main'.tally = main.tally
      <4>1. Ran => In("exit")
        BY <2>1 DEF MainTypeOK, Ran, In
      <4>2. Ran => UNCHANGED programVars
        BY <2>1, <4>1, ExitIsFinal
      <4> QED
        BY <3>1, <4>2 DEF Ran, programVars
    <3>2. CASE Summary
      BY <3>2 DEF Summary, Quietly, Stages, InSession, In
    <3> QED
      BY <2>1, <3>1, <3>2, WhoShows
  <2> QED
    BY <2>2, <2>3
<1>3. Truthful /\ Stages /\ Told => TranscriptTold
  <2> SUFFICES ASSUME Truthful, Stages, Told, In("serve") \/ Ran PROVE
         /\ Len(said) = 1 + Cardinality(Answerable)
         /\ said[1] = AState(setups[machine.setup].initial)
         /\ IsTableOf(Configured[1]) =>
              \A p \in Answerable : said[1 + Turn(p)] = Reply(CurrentIn(said, Turn(p)), heard[p])
    BY DEF TranscriptTold
  <2>1. Idle /\ said # <<>>
    BY DEF Stages, MainTypeOK, InPlace, InSession, In, Ran
  <2>2. ~console.broken /\ Pending = 0
    BY <2>1, NonePending DEF Truthful
  <2>3. /\ Len(said) + 0 = 1 + Cardinality(Answerable)
        /\ said[1] = AState(setups[machine.setup].initial) /\ Replied
    BY <2>1, <2>2 DEF Transcribed
  <2>4. /\ Len(said) \in Nat /\ Cardinality(Answerable) \in Nat
        /\ \A p \in Answerable : Turn(p) \in 1 .. Cardinality(Answerable)
    BY Turns, LenProperties DEF Stages, Buffered
  <2>5. \A p \in Answerable : Turn(p) < Len(said)
    BY <2>3, <2>4
  <2> QED
    BY <2>3, <2>4, <2>5 DEF Replied
<1>4. ProgramSpec => []Truthful
  BY Behaved, TruthfulHolds, RunsTheRuntime, PTL
<1> HIDE DEF Told
<1> QED
  BY <1>1, <1>2, <1>3, <1>4, StagesHold, PTL DEF ProgramSpec
=============================================================================
