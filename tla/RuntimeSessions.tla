--------------------------- MODULE RuntimeSessions ---------------------------
(***************************************************************************)
(* What holds of Runtime for an application that keeps to an order of      *)
(* calls: one that binds no other files once the runtime is set up; one    *)
(* that, besides, loads none again over those in use; and one that leaves  *)
(* the machine to the runtime, for which the runtime implements Automaton. *)
(***************************************************************************)
EXTENDS RuntimeProofs

-----------------------------------------------------------------------------
(* A pair that stays together. *)

Binds == \E m, s \in Object : InitMachine(m, s)
Loads == \E m \in Object, model \in LoadedModels : LoadMachine(m, model)

\* The runtime's references are the machine's, and a call that is under way is
\* past the check that there are any.
Paired ==
  /\ PairMatches
  /\ ~Idle => rt.model # Null

\* The runtime takes its references from the machine, which is given its own by
\* init() alone; a model changes when it is loaded.
LEMMA WhoBinds ==
  ASSUME TypeOK, [Next]_vars
  PROVE  /\ \/ rt'.model = rt.model /\ rt'.setup = rt.setup
            \/ /\ RuntimeInit /\ machine.model # Null
               /\ rt'.model = machine.model /\ rt'.setup = machine.setup
         /\ \/ machine'.model = machine.model /\ machine'.setup = machine.setup
            \/ Binds
         /\ models' = models \/ Loads
<1> USE DEF TypeOK
<1> DEFINE Bound2 == machine'.model = machine.model /\ machine'.setup = machine.setup
           Known2 == rt'.model = rt.model /\ rt'.setup = rt.setup
<1>1. CASE EnterInitial \/ StartMachine
  <2>1. MachineStart
    BY <1>1 DEF EnterInitial, StartMachine
  <2>2. Bound2 /\ models' = models
    BY <2>1 DEF MachineStart, MachineTypeOK, NewMachine
  <2>3. Known2
    BY <1>1 DEF EnterInitial, StartMachine, MembersTypeOK, NewRuntime
  <2> QED
    BY <2>2, <2>3
<1>2. CASE Dispatch \/ \E trigger \in 0 .. kMaxTriggers - 1, text \in Texts :
                         FireMachine(trigger, text.args)
  <2>1. PICK trigger, args : Fire(trigger, args)
    BY <1>2 DEF Dispatch, FireMachine
  <2>2. Bound2 /\ models' = models
    <3>1. \/ \E target : machine' = [machine EXCEPT !.current = target, !.transitions = @ + 1]
          \/ machine' = [machine EXCEPT !.rejections = @ + 1]
          \/ machine' = machine
      BY <2>1, FireCases
    <3> QED
      BY <2>1, <3>1, FireCases DEF MachineTypeOK, NewMachine
  <2>3. Known2
    BY <1>2 DEF Dispatch, FireMachine, MembersTypeOK, NewRuntime
  <2> QED
    BY <2>2, <2>3
<1>3. CASE Binds
  BY <1>3 DEF Binds, InitMachine, MachineInit
<1>4. CASE Loads
  BY <1>4 DEF Loads, LoadMachine
<1>5. CASE RuntimeInit
  BY <1>5 DEF RuntimeInit, RuntimeInitStatus, MembersTypeOK, NewRuntime
<1>6. CASE ReceiveUnrouted \/ ReceiveBadArguments \/ ReceiveTrigger \/ Stop
  BY <1>6 DEF ReceiveUnrouted, ReceiveBadArguments, ReceiveTrigger, Stop, Unrouted, BadArguments,
     JustReceived, MembersTypeOK, NewRuntime
<1>7. CASE \/ Configure \/ Open \/ Listen \/ ReceiveNothing \/ Close \/ PublishState
           \/ PublishError \/ PublishNothing \/ Trace \/ HookReturns \/ Start \/ Service
  BY <1>7 DEF Configure, Open, Listen, ReceiveNothing, Close, PublishState, PublishError,
     PublishNothing, Trace, HookReturns, Start, Service
<1>8. CASE \/ \E name \in Names, text \in Texts : FireByName(name, text)
           \/ \E s \in Object, setup \in LoadedSetups : LoadSetup(s, setup)
           \/ WorldStep \/ UNCHANGED vars
  BY <1>8 DEF FireByName, LoadSetup, WorldStep, EndInput, Deliver, vars
<1> QED
  BY <1>1, <1>2, <1>3, <1>4, <1>5, <1>6, <1>7, <1>8
     DEF Next, RuntimeStep, ApplicationStep, Binds, Loads

\* Nothing but a call of the application begins one.
LEMMA WhoCalls ==
  ASSUME TypeOK, [Next]_vars
  PROVE  Idle => \/ Idle' \/ Start \/ Service \/ Stop \/ UNCHANGED call
                 \/ \E name \in Names, text \in Texts : FireByName(name, text)
<1> SUFFICES ASSUME Idle
             PROVE  \/ Idle' \/ Start \/ Service \/ Stop \/ UNCHANGED call
                    \/ \E name \in Names, text \in Texts : FireByName(name, text)
  OBVIOUS
<1>1. ~RuntimeStep
  BY DEF Idle, At, RuntimeStep, Configure, Open, Listen, EnterInitial, ReceiveNothing,
     ReceiveUnrouted, ReceiveBadArguments, ReceiveTrigger, Arrives, Dispatch, PublishState,
     PublishError, PublishNothing, Trace, Close
<1>2. CASE HookReturns
  BY <1>2, TraceEnds DEF Idle, TypeOK
<1>3. CASE ApplicationStep
  BY <1>3 DEF ApplicationStep, RuntimeInit, LoadMachine, LoadSetup, InitMachine, StartMachine,
     FireMachine
<1>4. CASE WorldStep \/ UNCHANGED vars
  BY <1>4 DEF WorldStep, EndInput, Deliver, vars
<1> QED
  BY <1>1, <1>2, <1>3, <1>4 DEF Next

\* With no init() after the runtime's, the pair stays together.
LEMMA StepPaired ==
  ASSUME "rebind" \notin Conduct, TypeOK, Bindings, Paired, [Next]_vars
  PROVE  Paired'
<1>1. PairMatches'
  <2>1. CASE rt'.model = rt.model /\ rt'.setup = rt.setup /\ ~Binds
    BY <2>1, WhoBinds DEF Paired, PairMatches
  <2>2. CASE Binds /\ rt' = rt
    BY <2>2 DEF Binds, InitMachine, PairMatches
  <2>3. CASE RuntimeInit /\ rt'.model = machine.model /\ rt'.setup = machine.setup
    BY <2>3 DEF RuntimeInit, PairMatches
  <2>4. Binds => rt' = rt
    BY DEF Binds, InitMachine
  <2> QED
    BY <2>1, <2>2, <2>3, <2>4, WhoBinds
<1>2. rt.model # Null => rt'.model # Null
  BY WhoBinds
<1>3. CASE ~Idle
  BY <1>1, <1>2, <1>3 DEF Paired
<1>4. CASE Idle /\ UNCHANGED call
  BY <1>1, <1>4 DEF Paired, Idle
<1>5. CASE Start \/ Service \/ Stop
  <2>1. Idle' \/ rt.model # Null
    BY <1>5 DEF Start, StartStatus, Service, Stop, Return, Idle, NoCall, Bindings,
       RunsOnStartedMachine
  <2> QED
    BY <1>1, <1>2, <2>1 DEF Paired
<1>6. CASE \E name \in Names, text \in Texts : FireByName(name, text)
  <2>1. Idle' \/ rt.model # Null
    BY <1>6 DEF FireByName, Return, Idle, NoCall, Bindings, RunsOnStartedMachine
  <2> QED
    BY <1>1, <1>2, <2>1 DEF Paired
<1>7. CASE Idle'
  BY <1>1, <1>7 DEF Paired
<1> QED
  BY <1>3, <1>4, <1>5, <1>6, <1>7, WhoCalls

\* The pair stays together, beside what holds of every application.
LEMMA PairedHolds ==
  ASSUME "rebind" \notin Conduct
  PROVE  Spec => [](TypeOK /\ Bindings /\ SilenceMeansMismatch /\ Paired)
<1>1. Init => Paired
  BY DEF Init, Paired, PairMatches, NewRuntime, Idle, NoCall
<1>2. TypeOK /\ Bindings /\ Paired /\ [Next]_vars => Paired'
  BY StepPaired
<1> QED
  BY <1>1, <1>2, BindingsHold, SilentOnlyIfMismatched, PTL DEF Spec

\* The application that does not initialise the machine again after the runtime
\* cannot bring about a mismatched pair, by no other call and no reload.
THEOREM PairKept ==
  ASSUME "rebind" \notin Conduct
  PROVE  Spec => []PairMatches
<1>1. Paired => PairMatches
  BY DEF Paired
<1> QED
  BY <1>1, PairedHolds, PTL

-----------------------------------------------------------------------------
(* What is to be published, and since when. *)

\* What is published is a state or an error.
LEMMA ErrorKind == \A what : AnError(what).kind = "error"
BY DEF AnError

\* A publication is composed by start() when the machine is started, by service()
\* when it cannot route or read an input, and by dispatch.
LEMMA WhoPublishes ==
  ASSUME TypeOK, [Next]_vars, call'.pc = "publish"
  PROVE  \/ UNCHANGED call
         \/ EnterInitial /\ MachineStartStatus = "Ok" /\ call'.say = SayState(machine.initial)
         \/ /\ Dispatch /\ result' = "Ok"
            /\ call'.say = SayState(FireEvent(call.trigger, call.args).to)
         \/ Dispatch /\ Refuses(result') /\ call'.say = AnError(result')
         \/ ReceiveUnrouted /\ call'.say = AnError("unknown channel")
         \/ ReceiveBadArguments /\ call'.say = AnError("bad arguments")
<1> USE DEF TypeOK
<1>a. CASE Configure \/ Open \/ Listen \/ ReceiveNothing \/ Close
  BY <1>a, PortCallGoesOn
<1>b. CASE Trace \/ HookReturns
  BY <1>b, TraceEnds
<1>c. CASE PublishState \/ PublishError \/ PublishNothing
  BY <1>c, PublishEnds
<1>d. CASE Start \/ Service \/ Stop
  <2>1. call'.pc # "publish"
    BY <1>d DEF Start, Service, Stop, Return, NoCall
  <2> QED
    BY <2>1
<1>e. CASE EnterInitial
  <2>1. CASE MachineStartStatus = "Ok"
    <3>1. call' = [call EXCEPT !.pc = "publish", !.say = SayState(machine.initial)]
      BY <1>e, <2>1 DEF EnterInitial
    <3> QED
      BY <1>e, <2>1, <3>1 DEF CallTypeOK, NoCall
  <2>2. CASE MachineStartStatus # "Ok"
    <3>1. call' = NoCall
      BY <1>e, <2>2 DEF EnterInitial
    <3> QED
      BY <3>1 DEF NoCall
  <2> QED
    BY <2>1, <2>2
<1>f. CASE ReceiveUnrouted
  <2>1. PICK input : call' = [call EXCEPT !.pc = "publish", !.input = <<input>>,
                                          !.say = AnError("unknown channel")]
    BY <1>f DEF ReceiveUnrouted
  <2> QED
    BY <1>f, <2>1 DEF CallTypeOK, NoCall
<1>g. CASE ReceiveBadArguments
  <2>1. PICK input : call' = [call EXCEPT !.pc = "publish", !.input = <<input>>,
                                          !.say = AnError("bad arguments")]
    BY <1>g DEF ReceiveBadArguments
  <2> QED
    BY <1>g, <2>1 DEF CallTypeOK, NoCall
<1>h. CASE ReceiveTrigger
  <2>1. PICK input :
          call' = [call EXCEPT !.pc = "dispatch", !.input = <<input>>,
                               !.trigger = FindTriggerForChannel(Routing, input.channel),
                               !.args = input.text.args]
    BY <1>h DEF ReceiveTrigger
  <2> QED
    BY <2>1 DEF CallTypeOK, NoCall
<1>i. CASE \E name \in Names, text \in Texts : FireByName(name, text)
  <2>1. PICK name, text : FireByName(name, text)
    BY <1>i
  <2>2. CASE call' = NoCall
    BY <2>2 DEF NoCall
  <2>3. CASE call' = [NoCall EXCEPT !.pc = "dispatch", !.trigger = FindTrigger(Routing, name),
                                    !.args = text.args, !.raised = "name"]
    BY <2>3 DEF NoCall
  <2> QED
    BY <2>1, <2>2, <2>3 DEF FireByName, Return
<1>j. CASE Dispatch
  <2>1. CASE result' = "Ok"
    <3>1. Answer(SayState(FireEvent(call.trigger, call.args).to), AfterFire)
      BY <1>j, <2>1 DEF Dispatch, Refuses
    <3> QED
      BY <1>j, <2>1, <3>1 DEF Answer, CallTypeOK, NoCall
  <2>2. CASE Refuses(result')
    <3>1. Answer(AnError(result'), AfterFire)
      BY <1>j, <2>2 DEF Dispatch, Refuses
    <3> QED
      BY <1>j, <2>2, <3>1 DEF Answer, CallTypeOK, NoCall
  <2>3. CASE result' # "Ok" /\ ~Refuses(result')
    <3>1. Answer(Nothing, <<"trace">>)
      BY <1>j, <2>3 DEF Dispatch
    <3> QED
      BY <3>1, Steps DEF Answer, CallTypeOK, NoCall
  <2> QED
    BY <2>1, <2>2, <2>3
<1>k. CASE UNCHANGED call
  BY <1>k
<1>l. CASE \/ RuntimeInit \/ StartMachine \/ Binds \/ Loads
           \/ \E s \in Object, setup \in LoadedSetups : LoadSetup(s, setup)
           \/ \E trigger \in 0 .. kMaxTriggers - 1, text \in Texts : FireMachine(trigger, text.args)
           \/ WorldStep \/ UNCHANGED vars
  BY <1>k, <1>l DEF RuntimeInit, StartMachine, Binds, InitMachine, Loads, LoadMachine, LoadSetup,
     FireMachine, WorldStep, EndInput, Deliver, vars
<1> QED
  BY <1>a, <1>b, <1>c, <1>d, <1>e, <1>f, <1>g, <1>h, <1>i, <1>j, <1>l
     DEF Next, RuntimeStep, ApplicationStep, Binds, Loads
\* What the port was told is told at three places; what the application fires
\* itself is counted apart.
LEMMA WhoTells ==
  ASSUME TypeOK, [Next]_vars
  PROVE  /\ \/ UNCHANGED <<history.states, history.entered, history.direct, history.last,
                           history.behind>>
            \/ EnterInitial /\ history' = [history EXCEPT !.entered = @ + 1]
            \/ PublishState
            \/ \E trigger \in 0 .. kMaxTriggers - 1, text \in Texts :
                 FireMachine(trigger, text.args)
         /\ history'.errors = history.errors \/ PublishError
<1> USE DEF TypeOK, HistoryTypeOK, NewHistory
<1>1. CASE EnterInitial
  BY <1>1 DEF EnterInitial
<1>2. CASE PublishError \/ \E name \in Names, text \in Texts : FireByName(name, text)
  BY <1>2 DEF PublishError, FireByName
<1>3. CASE PublishState
  BY <1>3 DEF PublishState
<1>4. CASE \E trigger \in 0 .. kMaxTriggers - 1, text \in Texts : FireMachine(trigger, text.args)
  BY <1>4 DEF FireMachine
<1>5. CASE \/ Configure \/ Open \/ Listen \/ ReceiveNothing \/ ReceiveUnrouted
           \/ ReceiveBadArguments \/ ReceiveTrigger \/ Dispatch \/ PublishNothing \/ Trace
           \/ Close \/ HookReturns \/ RuntimeInit \/ Start \/ Service \/ Stop
           \/ Loads \/ Binds \/ StartMachine
           \/ \E s \in Object, setup \in LoadedSetups : LoadSetup(s, setup)
           \/ WorldStep \/ UNCHANGED vars
  <2>1. UNCHANGED history
    BY <1>5 DEF Configure, Open, Listen, ReceiveNothing, ReceiveUnrouted, ReceiveBadArguments,
       ReceiveTrigger, Dispatch, PublishNothing, Trace, Close, HookReturns, RuntimeInit, Start,
       Service, Stop, Loads, LoadMachine, Binds, InitMachine, StartMachine, LoadSetup, WorldStep,
       EndInput, Deliver, vars
  <2> QED
    BY <2>1
<1> QED
  BY <1>1, <1>2, <1>3, <1>4, <1>5 DEF Next, RuntimeStep, ApplicationStep, Binds, Loads

\* A publication is the next step of its call, whatever arrives meanwhile.
LEMMA WhilePublishing ==
  ASSUME [Next]_vars, At("publish")
  PROVE  PublishState \/ PublishError \/ PublishNothing \/ WorldStep \/ UNCHANGED vars
BY DEF Next, RuntimeStep, ApplicationStep, At, Idle, Configure, Open, Listen, EnterInitial,
   ReceiveNothing, ReceiveUnrouted, ReceiveBadArguments, ReceiveTrigger, Arrives, Dispatch, Trace,
   Close, HookReturns, RuntimeInit, Start, Service, Stop, FireByName, LoadMachine, LoadSetup,
   InitMachine, StartMachine, FireMachine

\* The machine is called by the runtime's start and dispatch, and by the
\* application.
LEMMA WhoMoves ==
  ASSUME [Next]_vars
  PROVE  \/ UNCHANGED machine
         \/ EnterInitial \/ StartMachine \/ Binds \/ Dispatch
         \/ \E trigger \in 0 .. kMaxTriggers - 1, text \in Texts : FireMachine(trigger, text.args)
<1>1. CASE \/ Configure \/ Open \/ Listen \/ ReceiveNothing \/ ReceiveUnrouted
           \/ ReceiveBadArguments \/ ReceiveTrigger \/ PublishState \/ PublishError
           \/ PublishNothing \/ Trace \/ Close \/ HookReturns \/ RuntimeInit \/ Start \/ Service
           \/ Stop \/ Loads \/ \E s \in Object, setup \in LoadedSetups : LoadSetup(s, setup)
           \/ \E name \in Names, text \in Texts : FireByName(name, text)
           \/ WorldStep \/ UNCHANGED vars
  BY <1>1 DEF Configure, Open, Listen, ReceiveNothing, ReceiveUnrouted, ReceiveBadArguments,
     ReceiveTrigger, PublishState, PublishError, PublishNothing, Trace, Close, HookReturns,
     RuntimeInit, Start, Service, Stop, Loads, LoadMachine, LoadSetup, FireByName, WorldStep,
     EndInput, Deliver, vars
<1> QED
  BY <1>1 DEF Next, RuntimeStep, ApplicationStep, Binds, Loads

\* Only fire() counts a transition.
LEMMA WhoCounts ==
  ASSUME TypeOK, Bindings, [Next]_vars
  PROVE  \/ machine'.transitions = machine.transitions
         \/ Dispatch
         \/ \E trigger \in 0 .. kMaxTriggers - 1, text \in Texts : FireMachine(trigger, text.args)
<1>1. CASE EnterInitial \/ StartMachine
  BY <1>1, StartFields DEF EnterInitial, StartMachine, TypeOK
<1>2. CASE Binds
  BY <1>2, InitFields DEF Binds, InitMachine, TypeOK, Bindings
<1> QED
  BY <1>1, <1>2, WhoMoves

-----------------------------------------------------------------------------
(* Every transition is published. *)

\* A transition is counted when it is fired and published one step later.
LEMMA StepStates ==
  ASSUME TypeOK, Bindings, Paired', SilenceMeansMismatch', StatesAccounted, [Next]_vars
  PROVE  StatesAccounted'
<1>0. /\ machine.transitions \in Nat /\ history.entered \in Nat
      /\ history.states \in Nat /\ history.direct \in Nat
  BY DEF TypeOK, MachineTypeOK, HistoryTypeOK
<1>1. call'.pc = "publish" => call'.say.kind # "nothing"
  BY DEF SilenceMeansMismatch, Paired, PairMatches, Idle, At
<1> USE DEF StatesAccounted, Publishing, At
<1>2. CASE EnterInitial
  <2>1. CASE MachineStartStatus = "Ok"
    <3>1. /\ history' = [history EXCEPT !.entered = @ + 1]
          /\ call' = [call EXCEPT !.pc = "publish", !.say = SayState(machine.initial)]
          /\ call.pc = "listen" /\ machine'.transitions = machine.transitions
      BY <1>2, <2>1, StartFields DEF EnterInitial, TypeOK
    <3>2. call'.pc = "publish" /\ call'.say = SayState(machine.initial)
      BY <3>1 DEF TypeOK, CallTypeOK, NoCall
    <3>3. call'.say.kind = "state"
      BY <1>1, <3>2, SayKind
    <3>4. /\ history'.entered = history.entered + 1 /\ history'.states = history.states
          /\ history'.direct = history.direct
      BY <3>1 DEF TypeOK, HistoryTypeOK, NewHistory
    <3> QED
      BY <1>0, <3>1, <3>2, <3>3, <3>4
  <2>2. CASE MachineStartStatus # "Ok"
    <3>1. UNCHANGED <<machine, history>> /\ call' = NoCall /\ call.pc = "listen"
      BY <1>2, <2>2, StartFields DEF EnterInitial, TypeOK
    <3> QED
      BY <3>1 DEF NoCall
  <2> QED
    BY <2>1, <2>2
<1>3. CASE Dispatch
  <2>1. UNCHANGED history /\ call.pc = "dispatch"
    BY <1>3 DEF Dispatch
  <2>2. /\ result' = "Ok" => machine'.transitions = machine.transitions + 1
        /\ result' # "Ok" => machine'.transitions = machine.transitions
    BY <1>3, FireFields DEF Dispatch, TypeOK
  <2>3. CASE result' = "Ok"
    <3>1. Answer(SayState(FireEvent(call.trigger, call.args).to), AfterFire)
      BY <1>3, <2>3 DEF Dispatch, Refuses
    <3>2. call'.pc = "publish" /\ call'.say.kind \in {"state", "nothing"}
      BY <3>1, Steps, SayKind DEF Answer, TypeOK, CallTypeOK, NoCall
    <3> QED
      BY <1>0, <1>1, <2>1, <2>2, <2>3, <3>2
  <2>4. CASE result' # "Ok"
    <3>1. call'.pc # "publish" \/ call'.say.kind = "error"
      <4>1. ~EnterInitial
        BY <2>1 DEF EnterInitial
      <4> QED
        BY <2>1, <2>4, <4>1, WhoPublishes, ErrorKind
    <3> QED
      BY <1>0, <2>1, <2>2, <2>4, <3>1
  <2> QED
    BY <2>3, <2>4
<1>4. CASE PublishState \/ PublishError \/ PublishNothing
  <2>1. UNCHANGED machine /\ call.pc = "publish" /\ call'.pc \in {"idle", "trace"}
    BY <1>4, PublishEnds DEF PublishState, PublishError, PublishNothing, TypeOK
  <2>2. /\ history'.entered = history.entered /\ history'.direct = history.direct
        /\ history'.states = history.states + Publishing("state")
    <3> USE DEF TypeOK, HistoryTypeOK, NewHistory
    <3>1. CASE PublishState
      BY <1>0, <3>1 DEF PublishState
    <3>2. CASE PublishError
      BY <1>0, <3>2 DEF PublishError
    <3>3. CASE PublishNothing
      BY <1>0, <3>3 DEF PublishNothing
    <3> QED
      BY <1>4, <3>1, <3>2, <3>3
  <2> QED
    BY <1>0, <2>1, <2>2
<1>5. CASE \E trigger \in 0 .. kMaxTriggers - 1, text \in Texts : FireMachine(trigger, text.args)
  <2>1. UNCHANGED call /\ call.pc = "idle"
    BY <1>5 DEF FireMachine, Idle
  <2>2. /\ result' = "Ok" => machine'.transitions = machine.transitions + 1
        /\ result' # "Ok" => machine'.transitions = machine.transitions
    BY <1>5, FireFields DEF FireMachine, TypeOK
  <2>3. /\ history'.states = history.states /\ history'.entered = history.entered
        /\ result' = "Ok" => history'.direct = history.direct + 1
        /\ result' # "Ok" => history'.direct = history.direct
    BY <1>5 DEF FireMachine, TypeOK, HistoryTypeOK, NewHistory
  <2> QED
    BY <1>0, <2>1, <2>2, <2>3
<1>6. ASSUME ~EnterInitial, ~Dispatch, ~(PublishState \/ PublishError \/ PublishNothing),
             ~(\E trigger \in 0 .. kMaxTriggers - 1, text \in Texts : FireMachine(trigger, text.args))
      PROVE  StatesAccounted'
  <2>1. /\ machine'.transitions = machine.transitions
        /\ UNCHANGED <<history.states, history.entered, history.direct>>
    BY <1>6, WhoCounts, WhoTells
  <2>2. Publishing("state")' = Publishing("state")
    <3>1. CASE call.pc = "publish"
      BY <1>6, <3>1, WhilePublishing DEF WorldStep, EndInput, Deliver, vars
    <3>2. CASE call.pc # "publish" /\ call'.pc = "publish"
      <4>1. call'.say.kind = "error"
        BY <1>6, <3>2, WhoPublishes, ErrorKind
      <4> QED
        BY <3>2, <4>1
    <3>3. CASE call.pc # "publish" /\ call'.pc # "publish"
      BY <3>3
    <3> QED
      BY <3>1, <3>2, <3>3
  <2> QED
    BY <2>1, <2>2
<1> QED
  BY <1>2, <1>3, <1>4, <1>5, <1>6

\* Every transition the runtime makes is published exactly once, unless the
\* application hands the machine other files after the runtime's init: a reload
\* of the files it has does not matter.
THEOREM EveryStateAccounted ==
  ASSUME "rebind" \notin Conduct
  PROVE  Spec => []StatesAccounted
<1>1. Init => StatesAccounted
  BY DEF Init, StatesAccounted, Publishing, At, NewMachine, NewHistory, NoCall
<1> DEFINE Known == TypeOK /\ Bindings /\ SilenceMeansMismatch /\ Paired
<1>2. Known /\ Known' /\ StatesAccounted /\ [Next]_vars => StatesAccounted'
  BY StepStates
<1>3. Spec => []Known
  BY PairedHolds
<1> HIDE DEF Known
<1> QED
  BY <1>1, <1>2, <1>3, PTL DEF Spec
-----------------------------------------------------------------------------
(* What was published is where the machine is. *)

\* The files in use are not loaded again: nothing is loaded over a model that is
\* not empty, and validate() refuses to bind an empty one.  The machine, once
\* started, is in a state of its model.
Fixed ==
  machine.model # Null =>
    /\ Bound # EmptyModel
    /\ machine.started => HasState(Bound, machine.current)

\* So the model that is bound stays as it is.
LEMMA BoundStays ==
  ASSUME "reload" \notin Conduct, TypeOK, Fixed, [Next]_vars, machine.model # Null
  PROVE  models'[machine.model] = Bound
<1>1. CASE models' = models
  BY <1>1 DEF Bound
<1>2. CASE Loads
  <2>1. PICK m \in Object, model \in LoadedModels : LoadMachine(m, model)
    BY <1>2 DEF Loads
  <2>2. m # machine.model
    BY <2>1 DEF LoadMachine, Fixed, Bound
  <2> QED
    BY <2>1, <2>2 DEF LoadMachine, Bound, TypeOK, ApplicationTypeOK, MachineTypeOK
<1> QED
  BY <1>1, <1>2, WhoBinds

\* fire() answers Ok when it moves the machine, and only then.
LEMMA FireMoves ==
  ASSUME MachineTypeOK, NEW trigger, NEW args, Fire(trigger, args)
  PROVE  /\ result' = "Ok" => machine'.current = FireEvent(trigger, args).to
         /\ result' # "Ok" => machine'.current = machine.current
<1> DEFINE outcome == FireOutcome(trigger, args)
<1>1. CASE /\ outcome.decision = "Accepted" /\ result' = "Ok"
           /\ machine' = [machine EXCEPT !.current = outcome.target, !.transitions = @ + 1]
  <2>1. FireEvent(trigger, args).to = outcome.target
    BY <1>1 DEF FireEvent
  <2> HIDE DEF outcome
  <2> QED
    BY <1>1, <2>1 DEF MachineTypeOK, NewMachine
<1>2. CASE /\ outcome.decision \in {"NoTransition", "GuardRejected"} /\ result' = outcome.decision
           /\ machine' = [machine EXCEPT !.rejections = @ + 1]
  <2> HIDE DEF outcome
  <2> QED
    BY <1>2 DEF MachineTypeOK, NewMachine
<1>3. CASE result' = "NotInitialised" /\ machine' = machine
  BY <1>3
<1> QED
  BY <1>1, <1>2, <1>3 DEF Fire

\* A started machine is bound for good, to files that are loaded for good.
LEMMA StepFixed ==
  ASSUME "reload" \notin Conduct, TypeOK, Bindings, Fixed, [Next]_vars
  PROVE  Fixed'
<1>1. ASSUME machine'.model = machine.model, machine.model # Null
      PROVE  Bound' = Bound
  BY <1>1, BoundStays DEF Bound
<1>2. CASE UNCHANGED machine
  BY <1>1, <1>2 DEF Fixed
<1>3. CASE EnterInitial \/ StartMachine
  <2>1. MachineStart
    BY <1>3 DEF EnterInitial, StartMachine
  <2>2. CASE MachineStartStatus = "Ok"
    <3>1. /\ machine.model # Null /\ HasState(Bound, machine.initial)
          /\ machine' = [machine EXCEPT !.current = machine.initial, !.started = TRUE]
      BY <2>1, <2>2 DEF MachineStart, MachineStartStatus
    <3>2. machine'.model = machine.model /\ machine'.current = machine.initial
      BY <3>1 DEF TypeOK, MachineTypeOK, NewMachine
    <3> QED
      BY <1>1, <3>1, <3>2 DEF Fixed
  <2>3. CASE MachineStartStatus # "Ok"
    BY <1>2, <2>1, <2>3, StartFields DEF TypeOK
  <2> QED
    BY <2>2, <2>3
<1>4. CASE Binds
  <2>1. PICK m \in Object, s \in Object : MachineInit(m, s)
    BY <1>4 DEF Binds, InitMachine
  <2>2. CASE MachineInitStatus(m, s) = "Ok"
    <3>1. /\ machine' = [NewMachine EXCEPT !.model = m, !.setup = s,
                                           !.initial = InitialIn(setups[s], models[m])]
          /\ Validate(models[m]) = "Ok" /\ models' = models
      BY <2>1, <2>2 DEF MachineInit, MachineInitStatus
    <3>2. machine'.model = m /\ ~machine'.started
      BY <3>1 DEF NewMachine
    <3>3. models[m] # EmptyModel
      BY <3>1 DEF Validate, EmptyModel, EmptyFunction
    <3> QED
      BY <3>1, <3>2, <3>3 DEF Fixed, Bound
  <2>3. CASE MachineInitStatus(m, s) # "Ok"
    BY <1>2, <2>1, <2>3 DEF MachineInit
  <2> QED
    BY <2>2, <2>3
<1>5. ASSUME NEW trigger, NEW args, Fire(trigger, args)
      PROVE  Fixed'
  <2>1. machine'.model = machine.model /\ machine'.started = machine.started
    BY <1>5, FireFields DEF TypeOK
  <2>2. CASE result' = "Ok"
    BY <1>1, <1>5, <2>1, <2>2, FiredIsState, FireMoves DEF Fixed, TypeOK
  <2>3. CASE result' # "Ok"
    BY <1>1, <1>5, <2>1, <2>3, FireMoves DEF Fixed, TypeOK
  <2> QED
    BY <2>2, <2>3
<1>6. CASE \/ Dispatch
           \/ \E trigger \in 0 .. kMaxTriggers - 1, text \in Texts : FireMachine(trigger, text.args)
  BY <1>5, <1>6 DEF Dispatch, FireMachine
<1> QED
  BY <1>2, <1>3, <1>4, <1>6, WhoMoves
\* What the call in progress is about to publish.
Saying(kind) == At("publish") /\ call.say.kind = kind

\* A state that is about to be published is the one the machine is in, and until
\* then the last one published is the one it was in.
Shown ==
  /\ Saying("state") => call.say.name = CurrentName
  /\ history.entered > 0 /\ ~history.behind /\ ~Saying("state") => history.last = CurrentName

\* The name of the machine's state changes only with its state.
LEMMA NameStays ==
  ASSUME "reload" \notin Conduct, TypeOK, Fixed, [Next]_vars,
         machine'.model = machine.model, machine'.current = machine.current
  PROVE  CurrentName' = CurrentName
<1>1. CASE machine.model = Null
  BY <1>1 DEF CurrentName
<1>2. CASE machine.model # Null
  <2>1. Bound' = Bound
    BY <1>2, BoundStays DEF Bound
  <2> QED
    BY <1>2, <2>1 DEF CurrentName
<1> QED
  BY <1>1, <1>2

\* publish_state is asked for the state the machine was just moved to.
LEMMA SaysCurrent ==
  ASSUME "reload" \notin Conduct, TypeOK, Fixed, Paired, SilenceMeansMismatch', Paired',
         [Next]_vars, NEW s, call'.pc = "publish", call'.say = SayState(s),
         machine.model # Null, machine'.model = machine.model, machine'.current = s,
         rt.model # Null
  PROVE  Saying("state")' /\ call'.say.name = CurrentName'
<1>1. call'.say.kind = "state"
  <2>1. call'.say.kind # "nothing"
    BY DEF SilenceMeansMismatch, Paired, PairMatches, Idle, At
  <2> QED
    BY <2>1, SayKind
<1>2. Routing = Bound
  BY DEF Routing, Bound, Paired, PairMatches
<1>3. call'.say = AState(StateName(Bound, s))
  BY <1>1, <1>2 DEF SayState, Nothing
<1>4. Bound' = Bound
  BY BoundStays DEF Bound
<1> QED
  BY <1>1, <1>3, <1>4 DEF AState, CurrentName, Saying, At

\* Every step that moves the machine leads to the publication of where it went,
\* or is marked as one the runtime did not see.
LEMMA StepShown ==
  ASSUME "reload" \notin Conduct, TypeOK, Bindings, Fixed, Paired, SilenceMeansMismatch', Paired',
         Shown, [Next]_vars
  PROVE  Shown'
<1>0. history.entered \in Nat /\ history.entered <= 1
  BY DEF TypeOK, HistoryTypeOK, Bindings, RunsOnStartedMachine
<1>1. CASE EnterInitial /\ MachineStartStatus = "Ok"
  <2>1. /\ rt.model # Null /\ machine.model # Null
        /\ machine' = [machine EXCEPT !.current = machine.initial, !.started = TRUE]
        /\ call' = [call EXCEPT !.pc = "publish", !.say = SayState(machine.initial)]
    BY <1>1, StartFields DEF EnterInitial, MachineStart, TypeOK, Paired, At, Idle
  <2>2. machine'.model = machine.model /\ machine'.current = machine.initial
    BY <2>1 DEF TypeOK, MachineTypeOK, NewMachine
  <2>3. call'.pc = "publish" /\ call'.say = SayState(machine.initial)
    BY <2>1 DEF TypeOK, CallTypeOK, NoCall
  <2>4. Saying("state")' /\ call'.say.name = CurrentName'
    BY <2>1, <2>2, <2>3, SaysCurrent
  <2> QED
    BY <2>4 DEF Shown
<1>2. CASE Dispatch /\ result' = "Ok"
  <2> DEFINE to == FireEvent(call.trigger, call.args).to
  <2>1. Fire(call.trigger, call.args) /\ Answer(SayState(to), AfterFire) /\ ~Idle
    BY <1>2 DEF Dispatch, Refuses, At, Idle
  <2>2. machine.model # Null /\ machine'.model = machine.model
    BY <1>2, <2>1, FireFields DEF TypeOK, Bindings
  <2>3. machine'.current = to
    BY <1>2, <2>1, FireMoves DEF TypeOK
  <2>4. rt.model # Null
    BY <2>1 DEF Paired
  <2> HIDE DEF to
  <2>5. call'.pc = "publish" /\ call'.say = SayState(to)
    BY <2>1, Steps DEF Answer, TypeOK, CallTypeOK, NoCall
  <2>6. Saying("state")' /\ call'.say.name = CurrentName'
    BY <2>2, <2>3, <2>4, <2>5, SaysCurrent
  <2> QED
    BY <2>6 DEF Shown
<1>3. CASE PublishState
  <2>1. /\ UNCHANGED machine /\ Saying("state")
        /\ history' = [history EXCEPT !.states = @ + 1, !.last = call.say.name, !.behind = FALSE]
    BY <1>3 DEF PublishState, Saying
  <2>2. CurrentName' = CurrentName
    BY <2>1, NameStays
  <2>3. history'.last = call.say.name
    BY <2>1 DEF TypeOK, HistoryTypeOK, NewHistory
  <2>4. ~Saying("state")'
    BY <1>3, PublishEnds DEF Saying, At, TypeOK
  <2> QED
    BY <2>1, <2>2, <2>3, <2>4 DEF Shown
<1>4. CASE \E trigger \in 0 .. kMaxTriggers - 1, text \in Texts : FireMachine(trigger, text.args)
  <2>1. PICK trigger, text : FireMachine(trigger, text.args)
    BY <1>4
  <2>2. ~Saying("state") /\ ~Saying("state")' /\ machine'.model = machine.model
    BY <2>1, FireFields DEF FireMachine, Saying, At, Idle, TypeOK
  <2>3. CASE result' = "Ok"
    <3>1. history'.behind
      BY <2>1, <2>3 DEF FireMachine, TypeOK, HistoryTypeOK, NewHistory
    <3> QED
      BY <2>2, <3>1 DEF Shown
  <2>4. CASE result' # "Ok"
    <3>1. machine'.current = machine.current /\ history' = history
      BY <2>1, <2>4, FireMoves DEF FireMachine, TypeOK
    <3>2. CurrentName' = CurrentName
      BY <2>2, <3>1, NameStays
    <3> QED
      BY <2>2, <3>1, <3>2 DEF Shown
  <2> QED
    BY <2>3, <2>4
<1>5. ASSUME ~(EnterInitial /\ MachineStartStatus = "Ok"), ~(Dispatch /\ result' = "Ok"),
             ~PublishState,
             ~(\E trigger \in 0 .. kMaxTriggers - 1, text \in Texts : FireMachine(trigger, text.args))
      PROVE  Shown'
  <2>1. UNCHANGED <<history.entered, history.last, history.behind>>
    <3>1. EnterInitial => UNCHANGED history
      BY <1>5 DEF EnterInitial
    <3> QED
      BY <1>5, <3>1, WhoTells
  <2>2. Saying("state")' => Saying("state") /\ UNCHANGED call
    BY <1>5, WhoPublishes, ErrorKind DEF Saying, At
  <2>3. Saying("state") => Saying("state")'
    BY <1>5, WhilePublishing
       DEF Saying, At, PublishError, PublishNothing, WorldStep, EndInput, Deliver, vars
  <2>4. CASE machine'.model = machine.model /\ machine'.current = machine.current
    BY <2>1, <2>2, <2>3, <2>4, NameStays DEF Shown
  <2>5. CASE history.entered = 0 /\ Binds
    <3>1. ~Saying("state")
      BY <2>5 DEF Binds, InitMachine, Saying, At, Idle
    <3> QED
      BY <2>1, <2>2, <2>5, <3>1 DEF Shown
  <2>6. CASE history.entered = 0 /\ StartMachine
    <3>1. ~Saying("state")
      BY <2>6 DEF StartMachine, Saying, At, Idle
    <3> QED
      BY <2>1, <2>2, <2>6, <3>1 DEF Shown
  <2>7. CASE history.entered = 1
    <3>1. machine.started
      BY <2>7 DEF Bindings, RunsOnStartedMachine
    <3>2. Binds \/ StartMachine => UNCHANGED machine
      BY <3>1, InitFields, StartFields DEF Binds, InitMachine, StartMachine, TypeOK
    <3>3. EnterInitial => UNCHANGED machine
      BY <1>5, StartFields DEF EnterInitial, TypeOK
    <3>4. Dispatch => machine'.model = machine.model /\ machine'.current = machine.current
      BY <1>5, FireFields, FireMoves DEF Dispatch, TypeOK
    <3>5. machine'.model = machine.model /\ machine'.current = machine.current
      BY <1>5, <3>2, <3>3, <3>4, WhoMoves
    <3> QED
      BY <2>4, <3>5
  <2>8. CASE history.entered = 0 /\ ~Binds /\ ~StartMachine
    <3>1. EnterInitial => UNCHANGED machine
      BY <1>5, StartFields DEF EnterInitial, TypeOK
    <3>2. Dispatch => machine'.model = machine.model /\ machine'.current = machine.current
      BY <1>5, FireFields, FireMoves DEF Dispatch, TypeOK
    <3>3. machine'.model = machine.model /\ machine'.current = machine.current
      BY <1>5, <2>8, <3>1, <3>2, WhoMoves
    <3> QED
      BY <2>4, <3>3
  <2> QED
    BY <1>0, <2>5, <2>6, <2>7, <2>8
<1> QED
  BY <1>1, <1>2, <1>3, <1>4, <1>5

\* What holds of an application that loads and binds nothing again, beside what
\* holds of one that only binds nothing again.
LEMMA FixedHolds ==
  ASSUME "reload" \notin Conduct, "rebind" \notin Conduct
  PROVE  Spec => [](TypeOK /\ Bindings /\ SilenceMeansMismatch /\ Paired /\ Fixed)
<1>1. Init => Fixed
  BY DEF Init, Fixed, NewMachine
<1>2. TypeOK /\ Bindings /\ Fixed /\ [Next]_vars => Fixed'
  BY StepFixed
<1>3. Spec => [](TypeOK /\ Bindings /\ SilenceMeansMismatch /\ Paired)
  BY PairedHolds
<1> QED
  BY <1>1, <1>2, <1>3, PTL DEF Spec

\* Between calls, the last state published is the one the machine is in, also
\* after refusals, failed starts and a stop, for every application that loads
\* and binds nothing again: only a transition of its own makes it stale.
THEOREM PublishedIsCurrent ==
  ASSUME "reload" \notin Conduct, "rebind" \notin Conduct
  PROVE  Spec => []PublishedStateIsCurrent
<1>1. Init => Shown
  BY DEF Init, Shown, Saying, At, NoCall, NewHistory
<1> DEFINE Known == TypeOK /\ Bindings /\ SilenceMeansMismatch /\ Paired /\ Fixed
<1>2. Known /\ Known' /\ Shown /\ [Next]_vars => Shown'
  BY StepShown
<1>3. Spec => []Known
  BY FixedHolds
<1>4. Shown => PublishedStateIsCurrent
  BY DEF Shown, PublishedStateIsCurrent, Saying
<1> HIDE DEF Known
<1> QED
  BY <1>1, <1>2, <1>3, <1>4, PTL DEF Spec
-----------------------------------------------------------------------------
(* The port hears of every channel. *)

Channels == DOMAIN Routing.channelIndex

\* The channels announced are channels of the model; while start() announces
\* them, those left to do are the ones the port has not heard of, apart from
\* those that are announced again after a start that failed.
Subscribed ==
  /\ call.pc \in {"configure", "open", "listen"} => ~rt.started
  /\ rt.model = Null => port.listening = <<>>
  /\ rt.model # Null => Heard \subseteq Channels
  /\ At("listen") => call.todo \subseteq Channels /\ Channels \subseteq Heard \cup call.todo
  /\ rt.started => Heard = Channels

\* The runtime's model stays as it is, too.
LEMMA RoutingStays ==
  ASSUME "reload" \notin Conduct, TypeOK, Paired, Fixed, [Next]_vars, rt.model # Null
  PROVE  rt'.model = rt.model /\ Routing' = Routing
<1>1. rt'.model = rt.model /\ rt.model = machine.model
  BY WhoBinds DEF Paired, PairMatches
<1>2. models'[machine.model] = Bound
  BY <1>1, BoundStays
<1> QED
  BY <1>1, <1>2 DEF Routing, Bound

\* Only start() has anything to do with the channels.
LEMMA WhoStarts ==
  ASSUME TypeOK, [Next]_vars
  PROVE  /\ call'.pc = "listen" => UNCHANGED call \/ Open \/ Listen
         /\ call'.pc \in {"configure", "open"} => UNCHANGED call \/ Start \/ Configure
         /\ rt'.started => rt.started \/ EnterInitial
         /\ port'.listening = port.listening \/ Listen
<1> USE DEF TypeOK
<1>a. CASE Configure \/ Open \/ Listen \/ ReceiveNothing \/ Close
  <2>1. UNCHANGED rt
    BY <1>a DEF Configure, Open, Listen, ReceiveNothing, Close
  <2>2. Listen \/ port'.listening = port.listening
    BY <1>a DEF Configure, Open, ReceiveNothing, Close, PortTypeOK, NewPort
  <2>3. Configure => call'.pc \in {"open", "idle"}
    BY DEF Configure, Return, CallTypeOK, NoCall
  <2>4. ReceiveNothing \/ Close => call'.pc = "idle"
    BY DEF ReceiveNothing, Close, Return, NoCall
  <2>5. Open \/ Listen => call'.pc \in {"listen", "idle"}
    <3>1. call' = NoCall => call'.pc = "idle"
      BY DEF NoCall
    <3>2. ASSUME NEW c, call' = [call EXCEPT !.pc = "listen", !.todo = c]
          PROVE  call'.pc = "listen"
      BY <3>2 DEF CallTypeOK, NoCall
    <3>3. ASSUME NEW c, call' = [call EXCEPT !.todo = c], call.pc = "listen"
          PROVE  call'.pc = "listen"
      BY <3>3 DEF CallTypeOK, NoCall
    <3>4. Open => call'.pc \in {"listen", "idle"}
      BY <3>1, <3>2 DEF Open, Return
    <3>5. Listen => call'.pc \in {"listen", "idle"}
      BY <3>1, <3>3 DEF Listen, Return, At
    <3> QED
      BY <3>4, <3>5
  <2> QED
    BY <1>a, <2>1, <2>2, <2>3, <2>4, <2>5
<1>b. CASE Trace \/ HookReturns \/ PublishState \/ PublishError \/ PublishNothing
  <2>1. UNCHANGED <<rt, port>>
    BY <1>b DEF Trace, HookReturns, PublishState, PublishError, PublishNothing
  <2>2. call'.pc \in {"idle", "trace"}
    BY <1>b, TraceEnds, PublishEnds
  <2> QED
    BY <2>1, <2>2
<1>c. CASE Start \/ Service \/ Stop
  <2>1. UNCHANGED port /\ (rt'.started => rt.started)
    BY <1>c DEF Start, Service, Stop, MembersTypeOK, NewRuntime
  <2>2. Start => call'.pc \in {"idle", "configure"}
    BY DEF Start, Return, NoCall
  <2>3. Service \/ Stop => call'.pc \in {"idle", "receive", "close"}
    BY DEF Service, Stop, Return, NoCall
  <2> QED
    BY <1>c, <2>1, <2>2, <2>3
<1>d. CASE EnterInitial
  <2>1. CASE call' = NoCall
    BY <1>d, <2>1 DEF EnterInitial, NoCall
  <2>2. CASE call' = [call EXCEPT !.pc = "publish", !.say = SayState(machine.initial)]
    <3>1. call'.pc = "publish"
      BY <2>2 DEF CallTypeOK, NoCall
    <3> QED
      BY <1>d, <3>1 DEF EnterInitial
  <2> QED
    BY <1>d, <2>1, <2>2 DEF EnterInitial
<1>e. CASE ReceiveUnrouted \/ ReceiveBadArguments \/ ReceiveTrigger
  <2>1. port'.listening = port.listening
    BY <1>e DEF ReceiveUnrouted, ReceiveBadArguments, ReceiveTrigger, Arrives, PortTypeOK, NewPort
  <2>2. rt' \in {Unrouted(rt), BadArguments(rt), JustReceived(rt)}
    BY <1>e DEF ReceiveUnrouted, ReceiveBadArguments, ReceiveTrigger
  <2>3. rt'.started = rt.started
    BY <2>2 DEF Unrouted, BadArguments, JustReceived, MembersTypeOK, NewRuntime
  <2>4. call'.pc \in {"publish", "dispatch"}
    BY <1>e DEF ReceiveUnrouted, ReceiveBadArguments, ReceiveTrigger, CallTypeOK, NoCall
  <2> QED
    BY <2>1, <2>3, <2>4
<1>f. CASE Dispatch
  <2>1. rt'.started = rt.started /\ UNCHANGED port
    BY <1>f DEF Dispatch, MembersTypeOK, NewRuntime
  <2>2. call'.pc \in {"publish", "trace"}
    BY <1>f, Steps DEF Dispatch, Answer, CallTypeOK, NoCall
  <2> QED
    BY <2>1, <2>2
<1>g. CASE \E name \in Names, text \in Texts : FireByName(name, text)
  <2>1. PICK name, text : FireByName(name, text)
    BY <1>g
  <2>2. UNCHANGED <<rt, port>>
    BY <2>1 DEF FireByName
  <2>3. CASE call' = NoCall
    BY <2>2, <2>3 DEF NoCall
  <2>4. CASE call' = [NoCall EXCEPT !.pc = "dispatch", !.trigger = FindTrigger(Routing, name),
                                    !.args = text.args, !.raised = "name"]
    BY <2>2, <2>4 DEF NoCall
  <2> QED
    BY <2>1, <2>3, <2>4 DEF FireByName, Return
<1>h. CASE RuntimeInit
  BY <1>h DEF RuntimeInit, RuntimeInitStatus, MembersTypeOK, NewRuntime
<1>i. CASE \/ StartMachine \/ Binds \/ Loads
           \/ \E s \in Object, setup \in LoadedSetups : LoadSetup(s, setup)
           \/ \E trigger \in 0 .. kMaxTriggers - 1, text \in Texts : FireMachine(trigger, text.args)
           \/ UNCHANGED vars
  <2>1. UNCHANGED <<rt, call, port>>
    BY <1>i DEF StartMachine, Binds, InitMachine, Loads, LoadMachine, LoadSetup, FireMachine, vars
  <2> QED
    BY <2>1
<1>j. CASE WorldStep
  BY <1>j DEF WorldStep, EndInput, Deliver, PortTypeOK, NewPort
<1> QED
  BY <1>a, <1>b, <1>c, <1>d, <1>e, <1>f, <1>g, <1>h, <1>i, <1>j
     DEF Next, RuntimeStep, ApplicationStep, Binds, Loads
\* A channel that is announced is added to those the port has heard of.
LEMMA HeardGrows ==
  ASSUME PortTypeOK, NEW channel, port'.listening = Append(port.listening, channel)
  PROVE  Heard' = Heard \cup {channel}
<1> DEFINE s == port.listening
           t == port'.listening
<1>1. s \in Seq(Heard)
  BY DEF PortTypeOK
<1>2. t = Append(s, channel)
  OBVIOUS
<1>3. Heard = {s[i] : i \in DOMAIN s} /\ Heard' = {t[i] : i \in DOMAIN t}
  BY DEF Heard
<1> HIDE DEF s, t
<1>4. t \in Seq(Heard \cup {channel}) /\ Len(t) = Len(s) + 1 /\ Len(s) \in Nat
  BY <1>1, <1>2
<1>5. DOMAIN t = 1 .. Len(s) + 1 /\ DOMAIN s = 1 .. Len(s)
  BY <1>1, <1>4, LenProperties
<1>6. t[Len(s) + 1] = channel /\ \A i \in 1 .. Len(s) : t[i] = s[i]
  BY <1>1, <1>2
<1>7. 1 .. Len(s) + 1 = (1 .. Len(s)) \cup {Len(s) + 1}
  BY <1>4
<1> QED
  BY <1>3, <1>5, <1>6, <1>7

\* start() goes through every channel before it starts the machine, and nothing
\* else tells the port of one.
LEMMA StepSubscribed ==
  ASSUME "reload" \notin Conduct, TypeOK, Bindings, Paired, Paired', Fixed, Subscribed, [Next]_vars
  PROVE  Subscribed'
<1>1. ASSUME port'.listening = port.listening
      PROVE  Heard' = Heard
  BY <1>1 DEF Heard
<1>2. rt.model # Null => rt'.model = rt.model /\ Channels' = Channels
  BY RoutingStays DEF Channels
<1>3. CASE Open /\ call'.pc = "listen"
  <2>1. call' = [call EXCEPT !.pc = "listen", !.todo = ChannelsToAnnounce(Routing)] /\ UNCHANGED rt
    BY <1>3 DEF Open, Return, NoCall
  <2>2. call.pc = "open" /\ port'.listening = port.listening
    BY <1>3, WhoStarts DEF Open, Listen, At
  <2>3. call'.todo = Channels
    BY <2>1 DEF ChannelsToAnnounce, Channels, TypeOK, CallTypeOK, NoCall
  <2>4. rt.model # Null /\ ~rt.started
    BY <2>2 DEF Bindings, Subscribed
  <2> QED
    BY <1>1, <1>2, <1>3, <2>1, <2>2, <2>3, <2>4 DEF Subscribed, At
<1>4. CASE Listen
  <2>1. call.pc = "listen" /\ UNCHANGED rt /\ rt.model # Null /\ ~rt.started
    BY <1>4 DEF Listen, At, Bindings, Subscribed
  <2>2. CASE call' = NoCall /\ UNCHANGED port
    BY <1>1, <1>2, <2>1, <2>2 DEF Subscribed, At, NoCall
  <2>3. CASE \E channel \in call.todo :
               /\ port' = [port EXCEPT !.listening = Append(@, channel)]
               /\ call' = [call EXCEPT !.todo = @ \ {channel}]
    <3>1. PICK channel \in call.todo :
            /\ port' = [port EXCEPT !.listening = Append(@, channel)]
            /\ call' = [call EXCEPT !.todo = @ \ {channel}]
      BY <2>3
    <3>2. call'.todo = call.todo \ {channel} /\ call'.pc = "listen"
      BY <2>1, <3>1 DEF TypeOK, CallTypeOK, NoCall
    <3>3. port'.listening = Append(port.listening, channel)
      BY <3>1 DEF TypeOK, PortTypeOK, NewPort
    <3>4. Heard' = Heard \cup {channel}
      BY <3>3, HeardGrows DEF TypeOK
    <3> QED
      BY <1>2, <2>1, <3>2, <3>4 DEF Subscribed, At
  <2> QED
    BY <1>4, <2>2, <2>3 DEF Listen, Return
<1>5. CASE EnterInitial
  <2>1. call.pc = "listen" /\ call.todo = {} /\ rt.model # Null
    BY <1>5 DEF EnterInitial, At, Bindings
  <2>2. Heard = Channels
    BY <2>1 DEF Subscribed, At
  <2>3. port'.listening = port.listening /\ call'.pc \notin {"configure", "open", "listen"}
    <3>1. ~Start /\ ~Open /\ ~Configure /\ ~Listen
      <4>1. ~Start /\ ~Open /\ ~Configure
        BY <2>1 DEF Start, Open, Configure, Idle, At
      <4>2. ~Listen
        BY <2>1 DEF Listen
      <4> QED
        BY <4>1, <4>2
    <3>2. call' # call
      <4>1. CASE call' = NoCall
        BY <2>1, <4>1 DEF NoCall
      <4>2. CASE call' = [call EXCEPT !.pc = "publish", !.say = SayState(machine.initial)]
        <5>1. call'.pc = "publish"
          BY <4>2 DEF TypeOK, CallTypeOK, NoCall
        <5> QED
          BY <2>1, <5>1
      <4> QED
        BY <1>5, <4>1, <4>2 DEF EnterInitial
    <3> QED
      BY <3>1, <3>2, WhoStarts
  <2> QED
    BY <1>1, <1>2, <2>1, <2>2, <2>3 DEF Subscribed, At
<1>6. ASSUME ~(Open /\ call'.pc = "listen"), ~Listen, ~EnterInitial
      PROVE  Subscribed'
  <2>1. port'.listening = port.listening /\ (rt'.started => rt.started)
    BY <1>6, WhoStarts
  <2>2. call'.pc = "listen" => UNCHANGED call
    BY <1>6, WhoStarts
  <2>3. call'.pc \in {"configure", "open"} => ~rt.started
    BY WhoStarts DEF Start, StartStatus, Configure, At, Subscribed, Return, NoCall
  <2>4. call'.pc = "listen" => ~rt.started /\ rt.model # Null
    BY <2>2 DEF Subscribed, Bindings
  <2>5. rt.started => rt.model # Null
    BY DEF Bindings, RunsOnStartedMachine
  <2>6. CASE rt.model = Null
    <3>1. Heard' = {}
      BY <2>1, <2>6 DEF Heard, Subscribed
    <3> QED
      BY <2>1, <2>3, <2>4, <2>5, <2>6, <3>1 DEF Subscribed, At
  <2>7. CASE rt.model # Null
    BY <1>1, <1>2, <2>1, <2>2, <2>3, <2>4, <2>7 DEF Subscribed, At
  <2> QED
    BY <2>6, <2>7
<1> QED
  BY <1>3, <1>4, <1>5, <1>6

\* The channel index has the channels of the triggers, in every model the
\* runtime can be given.
LEMMA IndexHasChannels ==
  ASSUME ApplicationTypeOK, NEW o \in Object
  PROVE  DOMAIN models[o].channelIndex
           = {models[o].triggers[t].channel : t \in DOMAIN models[o].triggers}
<1> DEFINE m == models[o]
<1>1. Indexed(m)
  BY LoadedAssumption, EmptyIsIndexed DEF ApplicationTypeOK
<1>2. Inverts(m.channelIndex, ChannelsOf(m.triggers))
  BY <1>1 DEF Indexed
<1> HIDE DEF m
<1>3. DOMAIN ChannelsOf(m.triggers) = DOMAIN m.triggers
      /\ \A t \in DOMAIN m.triggers : ChannelsOf(m.triggers)[t] = m.triggers[t].channel
  BY DEF ChannelsOf
<1>4. DOMAIN m.channelIndex = {m.triggers[t].channel : t \in DOMAIN m.triggers}
  BY <1>2, <1>3 DEF Inverts
<1> QED
  BY <1>4 DEF m

\* A runtime that runs has announced every channel it can route and no other,
\* also when earlier starts failed half way (the port keeps what they announced).
THEOREM EveryChannelAnnounced ==
  ASSUME "reload" \notin Conduct, "rebind" \notin Conduct
  PROVE  Spec => []ChannelsAnnounced
<1>1. Init => Subscribed
  BY DEF Init, Subscribed, At, NoCall, NewRuntime, NewPort
<1> DEFINE Known == TypeOK /\ Bindings /\ SilenceMeansMismatch /\ Paired /\ Fixed
<1>2. Known /\ Known' /\ Subscribed /\ [Next]_vars => Subscribed'
  BY StepSubscribed
<1>3. Spec => []Known
  BY FixedHolds
<1>4. Known /\ Subscribed => ChannelsAnnounced
  <2> SUFFICES ASSUME Known, Subscribed, rt.started
               PROVE  Heard = {Routing.triggers[t].channel : t \in DOMAIN Routing.triggers}
    BY DEF ChannelsAnnounced
  <2>1. rt.model \in Object
    BY DEF TypeOK, MembersTypeOK, Bindings, RunsOnStartedMachine
  <2> QED
    BY <2>1, IndexHasChannels DEF Subscribed, Channels, Routing, TypeOK
<1> HIDE DEF Known
<1> QED
  BY <1>1, <1>2, <1>3, <1>4, PTL DEF Spec
-----------------------------------------------------------------------------
(* The runtime implements Automaton, for an application that leaves the      *)
(* machine to it: the port brings every input, and may fail, and a hook may  *)
(* call service() again.                                                     *)

\* The machine is started by the runtime, and fired by nothing else.
Undisturbed ==
  /\ ~history.behind /\ history.direct = 0
  /\ machine.started => history.entered = 1

\* The state init() resolved is the one every setup names.
InitialIsBound == machine.model # Null => StateName(Bound, machine.initial) = Initial

\* Until the first publication nothing was said; the calls that answer an input
\* are those of a runtime that runs, and the input is theirs until it is answered.
Serving ==
  /\ history.states = 0 => history.last = NoName /\ history.errors = 0
  /\ call.pc \in {"receive", "dispatch", "publish"} => rt.started
  /\ call.pc \notin {"dispatch", "publish"} => call.input = <<>>

\* A dispatch is that of the trigger and the arguments of its input.
Dispatching ==
  At("dispatch") =>
    \E input \in Inputs :
      /\ call.input = <<input>> /\ input.text.status = "Ok" /\ call.args = input.text.args
      /\ call.trigger = FindTriggerForChannel(Routing, input.channel)
      /\ call.trigger # kNoTrigger

\* What is about to be published is the start of the session, or the answer to
\* the input: the one in the table, if it is the table of the model in use.
Beginning   ==
  /\ call.input = <<>> /\ call.say = AState(StateName(Bound, machine.initial))
  /\ history.states = 0
AnswerReady ==
  \E input \in Inputs :
    /\ call.input = <<input>> /\ history.states > 0
    /\ Saying("state") \/ Saying("error")
    /\ IsTableOf(Bound) =>
         IF Saying("state")
         THEN /\ Moves[history.last][input] = call.say.name /\ call.say.name # Refused
              /\ call.say = AState(call.say.name)
         ELSE Moves[history.last][input] = Refused
Answering   == At("publish") => Beginning \/ AnswerReady

\* Without calls of its own on the machine, the application cannot get ahead of
\* what is published.
LEMMA StepUndisturbed ==
  ASSUME "direct" \notin Conduct, TypeOK, Bindings, Undisturbed, [Next]_vars
  PROVE  Undisturbed'
<1> USE DEF TypeOK, HistoryTypeOK, NewHistory
<1>0. ~StartMachine /\ ~(\E trigger \in 0 .. kMaxTriggers - 1, text \in Texts :
                           FireMachine(trigger, text.args))
  BY DEF StartMachine, FireMachine
<1>1. /\ ~history'.behind /\ history'.direct = 0
      /\ EnterInitial \/ history'.entered = history.entered
  <2>1. CASE PublishState
    BY <2>1 DEF PublishState, Undisturbed
  <2>2. CASE history' = [history EXCEPT !.entered = @ + 1] /\ EnterInitial
    BY <2>2 DEF Undisturbed
  <2> QED
    BY <1>0, <2>1, <2>2, WhoTells DEF Undisturbed
<1>2. CASE EnterInitial
  <2>1. CASE MachineStartStatus = "Ok"
    <3>1. ~machine.started /\ history' = [history EXCEPT !.entered = @ + 1]
      BY <1>2, <2>1, StartFields DEF EnterInitial
    <3>2. history.entered = 0 /\ history'.entered = 1
      BY <3>1 DEF Bindings, RunsOnStartedMachine
    <3> QED
      BY <1>1, <3>2 DEF Undisturbed
  <2>2. CASE MachineStartStatus # "Ok"
    BY <1>1, <1>2, <2>2, StartFields DEF EnterInitial, Undisturbed
  <2> QED
    BY <2>1, <2>2
<1>3. CASE ~EnterInitial
  <2>1. machine'.started => machine.started
    <3>1. CASE Binds
      BY <3>1, InitFields DEF Binds, InitMachine
    <3>2. CASE Dispatch
      BY <3>2, FireFields DEF Dispatch
    <3> QED
      BY <1>0, <1>3, <3>1, <3>2, WhoMoves
  <2> QED
    BY <1>1, <1>3, <2>1 DEF Undisturbed
<1> QED
  BY <1>2, <1>3

\* init() finds the state by its name, in a model whose index is right.
LEMMA StepInitialIsBound ==
  ASSUME "reload" \notin Conduct, "direct" \notin Conduct, TableIsConfigured, TypeOK, Fixed,
         InitialIsBound, [Next]_vars
  PROVE  InitialIsBound'
<1> USE DEF TypeOK
<1>1. CASE machine'.model = machine.model /\ machine'.initial = machine.initial
  <2>1. machine.model # Null => Bound' = Bound
    BY <1>1, BoundStays DEF Bound
  <2> QED
    BY <1>1, <2>1 DEF InitialIsBound
<1>2. CASE EnterInitial
  <2>1. machine'.model = machine.model /\ machine'.initial = machine.initial
    BY <1>2 DEF EnterInitial, MachineStart, MachineTypeOK, NewMachine
  <2> QED
    BY <1>1, <2>1
<1>3. CASE Dispatch
  <2>1. \/ machine' = machine \/ machine' = [machine EXCEPT !.rejections = @ + 1]
        \/ \E target : machine' = [machine EXCEPT !.current = target, !.transitions = @ + 1]
    BY <1>3, FireCases DEF Dispatch
  <2>2. machine'.model = machine.model /\ machine'.initial = machine.initial
    BY <2>1 DEF MachineTypeOK, NewMachine
  <2> QED
    BY <1>1, <2>2
<1>4. CASE Binds
  <2>1. PICK m \in Object, s \in Object : MachineInit(m, s)
    BY <1>4 DEF Binds, InitMachine
  <2>2. CASE MachineInitStatus(m, s) = "Ok"
    <3>1. /\ machine' = [NewMachine EXCEPT !.model = m, !.setup = s,
                                           !.initial = InitialIn(setups[s], models[m])]
          /\ ValidateAgainst(setups[s], models[m]) = "Ok" /\ models' = models
      BY <2>1, <2>2 DEF MachineInit, MachineInitStatus
    <3>2. machine'.model = m /\ machine'.initial = FindState(models[m], setups[s].initial)
      BY <3>1 DEF NewMachine, InitialIn
    <3>3. /\ setups[s].initial # NoName /\ setups[s].initial \in DOMAIN models[m].stateIndex
      BY <3>1 DEF ValidateAgainst, InitialIn, FindState, Lookup
    <3>4. setups[s].initial = Initial
      <4>1. setups[s] \in LoadedSetups \cup {EmptySetup}
        BY DEF ApplicationTypeOK
      <4> QED
        BY <3>3, <4>1 DEF EmptySetup, TableIsConfigured
    <3>5. Inverts(models[m].stateIndex, NamesOf(models[m].states))
      BY LoadedAssumption, EmptyIsIndexed DEF ApplicationTypeOK, Indexed
    <3>6. /\ machine'.initial = models[m].stateIndex[Initial]
          /\ machine'.initial \in DOMAIN models[m].states
          /\ models[m].states[machine'.initial].name = Initial
      BY <3>2, <3>3, <3>4, <3>5 DEF FindState, Lookup, Inverts, NamesOf
    <3> QED
      BY <3>1, <3>2, <3>6 DEF InitialIsBound, Bound, StateName, HasState
  <2>3. CASE MachineInitStatus(m, s) # "Ok"
    BY <1>1, <2>1, <2>3 DEF MachineInit
  <2> QED
    BY <2>2, <2>3
<1>5. CASE UNCHANGED machine
  BY <1>1, <1>5
<1>6. ~StartMachine /\ ~(\E trigger \in 0 .. kMaxTriggers - 1, text \in Texts :
                           FireMachine(trigger, text.args))
  BY DEF StartMachine, FireMachine
<1> QED
  BY <1>2, <1>3, <1>4, <1>5, <1>6, WhoMoves
\* A dispatch follows the reception of its input; with no call by name, nothing
\* else does.
LEMMA WhoDispatches ==
  ASSUME Names = {}, TypeOK, [Next]_vars, call'.pc \in {"dispatch", "receive"}
  PROVE  \/ UNCHANGED call
         \/ call'.pc = "receive" /\ Service /\ rt.started
         \/ call'.pc = "dispatch" /\ ReceiveTrigger
<1> USE DEF TypeOK
<1>a. CASE Configure \/ Open \/ Listen \/ ReceiveNothing \/ Close
  BY <1>a, PortCallGoesOn
<1>b. CASE Trace \/ HookReturns \/ PublishState \/ PublishError \/ PublishNothing
  <2>1. call'.pc \in {"idle", "trace"}
    BY <1>b, TraceEnds, PublishEnds
  <2> QED
    BY <2>1
<1>c. CASE Start \/ Stop
  <2>1. call'.pc \in {"idle", "configure", "close"}
    BY <1>c DEF Start, Stop, Return, NoCall
  <2> QED
    BY <2>1
<1>d. CASE Service
  <2>1. call'.pc = "idle" \/ (call'.pc = "receive" /\ rt.started)
    BY <1>d DEF Service, Return, NoCall
  <2> QED
    BY <1>d, <2>1
<1>e. CASE EnterInitial
  <2>1. CASE call' = NoCall
    BY <2>1 DEF NoCall
  <2>2. CASE call' = [call EXCEPT !.pc = "publish", !.say = SayState(machine.initial)]
    BY <2>2 DEF CallTypeOK, NoCall
  <2> QED
    BY <1>e, <2>1, <2>2 DEF EnterInitial
<1>f. CASE ReceiveUnrouted \/ ReceiveBadArguments
  <2>1. call'.pc = "publish"
    BY <1>f DEF ReceiveUnrouted, ReceiveBadArguments, CallTypeOK, NoCall
  <2> QED
    BY <2>1
<1>g. CASE ReceiveTrigger
  <2>1. call'.pc = "dispatch"
    BY <1>g DEF ReceiveTrigger, CallTypeOK, NoCall
  <2> QED
    BY <1>g, <2>1
<1>h. CASE Dispatch
  <2>1. call'.pc \in {"publish", "trace"}
    BY <1>h, Steps DEF Dispatch, Answer, CallTypeOK, NoCall
  <2> QED
    BY <2>1
<1>i. CASE \/ RuntimeInit \/ StartMachine \/ Binds \/ Loads
           \/ \E s \in Object, setup \in LoadedSetups : LoadSetup(s, setup)
           \/ \E trigger \in 0 .. kMaxTriggers - 1, text \in Texts : FireMachine(trigger, text.args)
           \/ WorldStep \/ UNCHANGED vars
  <2>1. UNCHANGED call
    BY <1>i DEF RuntimeInit, StartMachine, Binds, InitMachine, Loads, LoadMachine, LoadSetup,
       FireMachine, WorldStep, EndInput, Deliver, vars
  <2> QED
    BY <2>1
<1> QED
  BY <1>a, <1>b, <1>c, <1>d, <1>e, <1>f, <1>g, <1>h, <1>i
     DEF Next, RuntimeStep, ApplicationStep, Binds, Loads

\* A call has an input from its reception to its answer.
LEMMA InputHeld ==
  ASSUME TypeOK, Bindings, call.pc \notin {"dispatch", "publish"} => call.input = <<>>, [Next]_vars
  PROVE  call'.pc \notin {"dispatch", "publish"} => call'.input = <<>>
<1> USE DEF TypeOK
<1>1. ASSUME call' = NoCall \/ UNCHANGED call
      PROVE  call'.pc \notin {"dispatch", "publish"} => call'.input = <<>>
  BY <1>1 DEF NoCall
<1>2. ASSUME call'.pc \in {"dispatch", "publish"} \/ call'.input = <<>>
      PROVE  call'.pc \notin {"dispatch", "publish"} => call'.input = <<>>
  BY <1>2
<1>a. CASE Configure \/ Open \/ Listen \/ ReceiveNothing \/ Close
  <2>1. call.input = <<>>
    BY <1>a, PortCallGoesOn
  <2>2. ASSUME NEW c, \/ call' = [call EXCEPT !.pc = "open"]
                      \/ call' = [call EXCEPT !.pc = "listen", !.todo = c]
                      \/ call' = [call EXCEPT !.todo = c]
        PROVE  call'.input = <<>>
    BY <2>1, <2>2 DEF CallTypeOK, NoCall
  <2>3. CASE call' = NoCall
    BY <1>1, <2>3
  <2>4. call' = NoCall \/ \E c : \/ call' = [call EXCEPT !.pc = "open"]
                                \/ call' = [call EXCEPT !.pc = "listen", !.todo = c]
                                \/ call' = [call EXCEPT !.todo = c]
    <3>1. Configure \/ Open \/ ReceiveNothing \/ Close =>
            \/ call' = NoCall \/ call' = [call EXCEPT !.pc = "open"]
            \/ call' = [call EXCEPT !.pc = "listen", !.todo = ChannelsToAnnounce(Routing)]
      BY DEF Configure, Open, ReceiveNothing, Close, Return
    <3>2. ASSUME Listen
          PROVE  call' = NoCall \/ \E c : call' = [call EXCEPT !.todo = c]
      <4>1. \/ call' = NoCall
            \/ \E channel \in call.todo : call' = [call EXCEPT !.todo = call.todo \ {channel}]
        BY <3>2 DEF Listen, Return
      <4> QED
        BY <4>1
    <3> QED
      BY <1>a, <3>1, <3>2
  <2> QED
    BY <2>2, <2>3, <2>4
<1>b. CASE PublishState \/ PublishError \/ PublishNothing
  <2> DEFINE c == [call EXCEPT !.input = <<>>, !.say = Nothing]
  <2>1. Proceed(c)
    BY <1>b DEF PublishState, PublishError, PublishNothing, Published
  <2>2. c.input = <<>> /\ DOMAIN c = DOMAIN NoCall
    BY DEF CallTypeOK, NoCall
  <2> HIDE DEF c
  <2>3. call' = NoCall \/ call' = [c EXCEPT !.pc = Head(c.rest), !.rest = Tail(c.rest)]
    BY <2>1 DEF Proceed, Return
  <2>4. CASE call' = [c EXCEPT !.pc = Head(c.rest), !.rest = Tail(c.rest)]
    BY <2>2, <2>4 DEF NoCall
  <2> QED
    BY <1>1, <2>3, <2>4
<1>c. CASE Trace \/ HookReturns
  <2>1. CASE Trace
    <3>1. call' = NoCall
      BY <2>1 DEF Trace, Proceed, Return, CallTypeOK
    <3> QED
      BY <1>1, <3>1
  <2>2. CASE HookReturns
    <3>1. hooks[Len(hooks)] \in Suspended
      BY <2>2, LenProperties, ElementOfSeq, EmptySeq DEF HookReturns, CallTypeOK
    <3> DEFINE c == [NoCall EXCEPT !.rest = hooks[Len(hooks)].rest, !.say = hooks[Len(hooks)].say,
                                   !.status = hooks[Len(hooks)].status]
    <3>2. c.rest = <<>>
      BY <3>1 DEF Suspended, NoCall
    <3>3. call' = NoCall
      BY <2>2, <3>2 DEF HookReturns, Proceed, Return
    <3> QED
      BY <1>1, <3>3
  <2> QED
    BY <1>c, <2>1, <2>2
<1>d. CASE Start \/ Service \/ Stop
  <2>1. call'.input = <<>>
    BY <1>d DEF Start, Service, Stop, Return, NoCall
  <2> QED
    BY <2>1
<1>e. CASE EnterInitial
  <2>1. CASE call' = [call EXCEPT !.pc = "publish", !.say = SayState(machine.initial)]
    BY <2>1 DEF CallTypeOK, NoCall
  <2> QED
    BY <1>1, <1>e, <2>1 DEF EnterInitial
<1>f. CASE ReceiveUnrouted \/ ReceiveBadArguments \/ ReceiveTrigger
  <2>1. call'.pc \in {"publish", "dispatch"}
    BY <1>f DEF ReceiveUnrouted, ReceiveBadArguments, ReceiveTrigger, CallTypeOK, NoCall
  <2> QED
    BY <2>1
<1>g. CASE Dispatch
  <2>1. result' \in {"Ok", "NoTransition", "GuardRejected"}
    BY <1>g, FireFields DEF Dispatch, Bindings, At
  <2>2. PICK say : Answer(say, AfterFire)
    BY <1>g, <2>1 DEF Dispatch, Refuses
  <2>3. call'.pc = "publish"
    BY <2>2, Steps DEF Answer, CallTypeOK, NoCall
  <2> QED
    BY <2>3
<1>h. CASE \E name \in Names, text \in Texts : FireByName(name, text)
  <2>1. PICK name, text : FireByName(name, text)
    BY <1>h
  <2>2. CASE call' = [NoCall EXCEPT !.pc = "dispatch", !.trigger = FindTrigger(Routing, name),
                                    !.args = text.args, !.raised = "name"]
    BY <2>2 DEF NoCall
  <2> QED
    BY <1>1, <2>1, <2>2 DEF FireByName, Return
<1>i. CASE \/ RuntimeInit \/ StartMachine \/ Binds \/ Loads
           \/ \E s \in Object, setup \in LoadedSetups : LoadSetup(s, setup)
           \/ \E trigger \in 0 .. kMaxTriggers - 1, text \in Texts : FireMachine(trigger, text.args)
           \/ WorldStep \/ UNCHANGED vars
  <2>1. UNCHANGED call
    BY <1>i DEF RuntimeInit, StartMachine, Binds, InitMachine, Loads, LoadMachine, LoadSetup,
       FireMachine, WorldStep, EndInput, Deliver, vars
  <2> QED
    BY <1>1, <2>1
<1> QED
  BY <1>a, <1>b, <1>c, <1>d, <1>e, <1>f, <1>g, <1>h, <1>i
     DEF Next, RuntimeStep, ApplicationStep, Binds, Loads
\* Nothing but stop() stops the runtime.
LEMMA WhoStops ==
  ASSUME TypeOK, [Next]_vars, rt.started
  PROVE  rt'.started \/ Stop
<1> USE DEF TypeOK, MembersTypeOK, NewRuntime
<1>1. CASE EnterInitial \/ RuntimeInit \/ Dispatch
  BY <1>1 DEF EnterInitial, RuntimeInit, RuntimeInitStatus, Dispatch
<1>2. CASE ReceiveUnrouted \/ ReceiveBadArguments \/ ReceiveTrigger
  <2>1. rt' \in {Unrouted(rt), BadArguments(rt), JustReceived(rt)}
    BY <1>2 DEF ReceiveUnrouted, ReceiveBadArguments, ReceiveTrigger
  <2> QED
    BY <2>1 DEF Unrouted, BadArguments, JustReceived
<1>3. CASE \/ Configure \/ Open \/ Listen \/ ReceiveNothing \/ Close \/ Trace \/ HookReturns
           \/ PublishState \/ PublishError \/ PublishNothing \/ Start \/ Service
           \/ StartMachine \/ Binds \/ Loads
           \/ \E name \in Names, text \in Texts : FireByName(name, text)
           \/ \E s \in Object, setup \in LoadedSetups : LoadSetup(s, setup)
           \/ \E trigger \in 0 .. kMaxTriggers - 1, text \in Texts : FireMachine(trigger, text.args)
           \/ WorldStep \/ UNCHANGED vars
  BY <1>3 DEF Configure, Open, Listen, ReceiveNothing, Close, Trace, HookReturns, PublishState,
     PublishError, PublishNothing, Start, Service, StartMachine, Binds, InitMachine, Loads,
     LoadMachine, FireByName, LoadSetup, FireMachine, WorldStep, EndInput, Deliver, vars
<1> QED
  BY <1>1, <1>2, <1>3 DEF Next, RuntimeStep, ApplicationStep, Binds, Loads

\* A call gets to an input only in a runtime that runs.
LEMMA StepServing ==
  ASSUME Names = {}, "direct" \notin Conduct, TypeOK, Bindings, Serving, Answering, [Next]_vars
  PROVE  Serving'
<1>1. (history.states = 0 => history.last = NoName /\ history.errors = 0)'
  <2> USE DEF TypeOK, HistoryTypeOK, NewHistory
  <2>1. CASE PublishState
    BY <2>1 DEF PublishState
  <2>2. CASE PublishError
    <3>1. history.states > 0
      BY <2>2 DEF PublishError, Answering, Beginning, AnswerReady, AState, At
    <3>2. history'.states = history.states
      BY <2>2 DEF PublishError
    <3> QED
      BY <3>1, <3>2
  <2>3. CASE ~PublishState /\ ~PublishError
    <3>1. history'.errors = history.errors
      BY <2>3, WhoTells
    <3>2. history'.states = history.states /\ history'.last = history.last
      <4>1. ~(\E trigger \in 0 .. kMaxTriggers - 1, text \in Texts : FireMachine(trigger, text.args))
        BY DEF FireMachine
      <4>2. CASE history' = [history EXCEPT !.entered = @ + 1]
        BY <4>2
      <4> QED
        BY <2>3, <4>1, <4>2, WhoTells
    <3> QED
      BY <3>1, <3>2 DEF Serving
  <2> QED
    BY <2>1, <2>2, <2>3
<1>2. call'.pc \in {"receive", "dispatch", "publish"} => rt'.started
  <2> SUFFICES ASSUME call'.pc \in {"receive", "dispatch", "publish"}
               PROVE  rt'.started
    OBVIOUS
  <2>1. CASE EnterInitial /\ MachineStartStatus = "Ok"
    BY <2>1 DEF EnterInitial, TypeOK, MembersTypeOK, NewRuntime
  <2>2. ~Stop
    BY DEF Stop, Return, NoCall
  <2>3. CASE ~(EnterInitial /\ MachineStartStatus = "Ok")
    <3>1. CASE call'.pc = "publish"
      <4>1. UNCHANGED call \/ call.pc \in {"dispatch", "receive"}
        BY <2>3, <3>1, WhoPublishes
           DEF Dispatch, ReceiveUnrouted, ReceiveBadArguments, Arrives, At
      <4> QED
        BY <2>2, <3>1, <4>1, WhoStops DEF Serving
    <3>2. CASE call'.pc \in {"dispatch", "receive"}
      <4>1. UNCHANGED call \/ call.pc = "receive" \/ rt.started
        BY <3>2, WhoDispatches DEF ReceiveTrigger, Arrives, At
      <4> QED
        BY <2>2, <3>2, <4>1, WhoStops DEF Serving
    <3> QED
      BY <3>1, <3>2
  <2> QED
    BY <2>1, <2>3
<1>3. call'.pc \notin {"dispatch", "publish"} => call'.input = <<>>
  BY InputHeld DEF Serving
<1> QED
  BY <1>1, <1>2, <1>3 DEF Serving

\* What was read from an input stays with the call until it is fired.
LEMMA StepDispatching ==
  ASSUME Names = {}, "reload" \notin Conduct, TypeOK, Paired, Fixed, Dispatching, [Next]_vars
  PROVE  Dispatching'
<1> SUFFICES ASSUME call'.pc = "dispatch"
             PROVE  Dispatching'
  BY DEF Dispatching, At
<1>1. CASE UNCHANGED call
  <2>1. Routing' = Routing
    BY <1>1, RoutingStays DEF Paired, Idle
  <2> QED
    BY <1>1, <2>1 DEF Dispatching, At
<1>2. CASE ReceiveTrigger
  <2>1. PICK input \in Inputs :
          /\ FindTriggerForChannel(Routing, input.channel) # kNoTrigger
          /\ input.text.status = "Ok"
          /\ call' = [call EXCEPT !.pc = "dispatch", !.input = <<input>>,
                                  !.trigger = FindTriggerForChannel(Routing, input.channel),
                                  !.args = input.text.args]
    BY <1>2 DEF ReceiveTrigger
  <2>2. rt.model # Null
    BY <1>2 DEF ReceiveTrigger, Arrives, At, Paired, Idle
  <2>3. Routing' = Routing
    BY <2>2, RoutingStays
  <2>4. /\ call'.input = <<input>> /\ call'.args = input.text.args
        /\ call'.trigger = FindTriggerForChannel(Routing, input.channel)
    BY <2>1 DEF TypeOK, CallTypeOK, NoCall
  <2> QED
    BY <2>1, <2>3, <2>4 DEF Dispatching
<1> QED
  BY <1>1, <1>2, WhoDispatches
\* While an input is handled, what was last published is the state the table
\* and the machine both answer from.
LEMMA Expected ==
  ASSUME TypeOK, Bindings, Paired, Fixed, Shown, StatesAccounted, Undisturbed,
         call.pc \in {"receive", "dispatch"}, NEW input \in Inputs
  PROVE  /\ Routing = Bound /\ history.states > 0
         /\ IsTableOf(Bound) =>
              /\ Moves[history.last][input] = AnswerOf(Bound, machine.current, input)
              /\ \A s \in DOMAIN Bound.states : Bound.states[s].name # Refused
<1>1. machine.started /\ machine.model # Null /\ rt.model = machine.model
  BY DEF Bindings, Paired, PairMatches, Idle
<1>2. history.entered = 1 /\ history.direct = 0 /\ machine.transitions \in Nat
      /\ history.states \in Nat
  BY <1>1 DEF Undisturbed, TypeOK, MachineTypeOK, HistoryTypeOK
<1>3. history.states > 0
  BY <1>2 DEF StatesAccounted, Publishing, At
<1>4. Bound \in LoadedModels /\ HasState(Bound, machine.current)
  BY <1>1 DEF Fixed, Bound, TypeOK, ApplicationTypeOK, MachineTypeOK
<1>5. history.last = Bound.states[machine.current].name
  BY <1>1, <1>2, <1>4 DEF Shown, Saying, At, Undisturbed, CurrentName, StateName
<1> QED
  BY <1>1, <1>3, <1>4, <1>5 DEF IsTableOf, HasState, Routing, Bound

\* What service() and dispatch compose is what the table answers.
LEMMA StepAnswering ==
  ASSUME Names = {}, "reload" \notin Conduct, "direct" \notin Conduct,
         TypeOK, Bindings, Paired, SilenceMeansMismatch', Paired', Fixed, Shown, StatesAccounted,
         Undisturbed, Serving, Dispatching, Answering, [Next]_vars
  PROVE  Answering'
<1> SUFFICES ASSUME call'.pc = "publish"
             PROVE  Beginning' \/ AnswerReady'
  BY DEF Answering, At
<1>1. CASE UNCHANGED call
  <2>1. ~PublishState /\ ~PublishError /\ ~PublishNothing
    BY PublishEnds DEF TypeOK
  <2>2. UNCHANGED <<history, machine, models>>
    BY <1>1, <2>1, WhilePublishing DEF At, WorldStep, EndInput, Deliver, vars
  <2>3. Beginning => Beginning'
    BY <1>1, <2>2 DEF Beginning, Bound, StateName, HasState
  <2> QED
    BY <1>1, <2>2, <2>3 DEF Answering, At, AnswerReady, Saying, Bound
<1>2. CASE /\ EnterInitial /\ MachineStartStatus = "Ok" /\ call'.say = SayState(machine.initial)
  <2>1. /\ call.pc = "listen" /\ machine.model # Null /\ ~machine.started
        /\ HasState(Bound, machine.initial)
    BY <1>2, StartFields DEF EnterInitial, At, MachineStartStatus, TypeOK
  <2>2. Routing = Bound
    BY <2>1 DEF Paired, PairMatches, Idle, Routing, Bound
  <2>3. call'.say = AState(StateName(Bound, machine.initial))'
    <3>1. models' = models /\ machine'.initial = machine.initial /\ machine'.model = machine.model
      BY <1>2 DEF EnterInitial, MachineStart, TypeOK, MachineTypeOK, NewMachine
    <3>2. call'.say = AState(StateName(Bound, machine.initial))
      BY <1>2, <2>1, <2>2 DEF SayState
    <3> QED
      BY <3>1, <3>2 DEF AState, StateName, HasState, Bound
  <2>4. call' = [call EXCEPT !.pc = "publish", !.say = SayState(machine.initial)]
        /\ history' = [history EXCEPT !.entered = @ + 1]
    BY <1>2 DEF EnterInitial
  <2>5. call'.input = <<>> /\ history'.states = history.states
    BY <2>1, <2>4 DEF Serving, TypeOK, CallTypeOK, NoCall, HistoryTypeOK, NewHistory
  <2>6. history.states = 0
    <3>1. history.entered = 0 /\ history.direct = 0 /\ machine.transitions = 0
      BY <2>1 DEF Bindings, RunsOnStartedMachine, TypeOK, HistoryTypeOK
    <3> QED
      BY <2>1, <3>1 DEF StatesAccounted, Publishing, At, TypeOK, HistoryTypeOK
  <2> QED
    BY <2>3, <2>5, <2>6 DEF Beginning
<1>3. CASE Dispatch
  <2>1. call.pc = "dispatch" /\ Fire(call.trigger, call.args) /\ UNCHANGED history
    BY <1>3 DEF Dispatch, At
  <2>2. PICK input \in Inputs :
          /\ call.input = <<input>> /\ input.text.status = "Ok" /\ call.args = input.text.args
          /\ call.trigger = FindTriggerForChannel(Routing, input.channel)
          /\ call.trigger # kNoTrigger
    BY <2>1 DEF Dispatching, At
  <2>3. /\ Routing = Bound /\ history.states > 0
        /\ IsTableOf(Bound) =>
             /\ Moves[history.last][input] = AnswerOf(Bound, machine.current, input)
             /\ \A s \in DOMAIN Bound.states : Bound.states[s].name # Refused
    BY <2>1, Expected
  <2>b. Bound' = Bound
    BY <2>1, FireCases DEF Bound, TypeOK, MachineTypeOK, NewMachine
  <2> DEFINE outcome == Evaluate(Bound, machine.current, call.trigger, call.args)
  <2>4. /\ FireOutcome(call.trigger, call.args) = outcome
        /\ outcome.decision \in {"NoTransition", "GuardRejected", "Accepted"}
    BY <2>1, Decisions DEF Bindings, FireOutcome
  <2>5. AnswerOf(Bound, machine.current, input)
          = IF outcome.decision = "Accepted" THEN StateName(Bound, outcome.target) ELSE Refused
    BY <2>2, <2>3 DEF AnswerOf
  <2>6. /\ result' = "Ok" <=> outcome.decision = "Accepted"
        /\ result' # "Ok" => Refuses(result')
        /\ outcome.decision = "Accepted"
             => FireEvent(call.trigger, call.args).to = outcome.target
    <3> HIDE DEF outcome
    <3> QED
      BY <2>1, <2>4 DEF Fire, FireEvent, Refuses
  <2> HIDE DEF outcome
  <2>7. call'.input = call.input /\ history' = history
    <3>1. PICK say : Answer(say, AfterFire)
      BY <1>3, <2>6 DEF Dispatch
    <3> QED
      BY <2>1, <3>1 DEF Answer, TypeOK, CallTypeOK, NoCall
  <2>8. CASE result' = "Ok"
    <3>1. call'.say = SayState(outcome.target)
      <4>1. ~EnterInitial /\ ~ReceiveUnrouted /\ ~ReceiveBadArguments /\ ~UNCHANGED call
        BY <2>1 DEF EnterInitial, ReceiveUnrouted, ReceiveBadArguments, Arrives, At
      <4> QED
        BY <2>6, <2>8, <4>1, WhoPublishes DEF Refuses
    <3>2. HasState(Bound, outcome.target)
      BY <2>1, <2>6, <2>8, FiredIsState DEF TypeOK
    <3>3. call'.say = AState(StateName(Bound, outcome.target))
      BY <2>3, <3>1, <3>2 DEF SayState
    <3>4. /\ call'.say.kind = "state" /\ call'.say = AState(call'.say.name)
          /\ call'.say.name = StateName(Bound, outcome.target)
      BY <3>3 DEF AState
    <3>5. IsTableOf(Bound) => StateName(Bound, outcome.target) # Refused
      BY <2>3, <3>2 DEF StateName, HasState
    <3> QED
      BY <2>b, <2>2, <2>3, <2>5, <2>6, <2>7, <2>8, <3>4, <3>5 DEF AnswerReady, Saying, At, AState
  <2>9. CASE result' # "Ok"
    <3>1. Answer(AnError(result'), AfterFire)
      BY <1>3, <2>6, <2>9 DEF Dispatch
    <3>2. call'.say.kind = "error"
      BY <3>1, ErrorKind DEF Answer, TypeOK, CallTypeOK, NoCall
    <3> QED
      BY <2>b, <2>2, <2>3, <2>5, <2>6, <2>7, <2>9, <3>2 DEF AnswerReady, Saying, At
  <2> QED
    BY <2>8, <2>9
<1>4. CASE ReceiveUnrouted \/ ReceiveBadArguments
  <2>1. PICK input, what :
          /\ input \in Inputs
          /\ \/ FindTriggerForChannel(Routing, input.channel) = kNoTrigger
             \/ input.text.status # "Ok"
          /\ call' = [call EXCEPT !.pc = "publish", !.input = <<input>>, !.say = AnError(what)]
    BY <1>4 DEF ReceiveUnrouted, ReceiveBadArguments
  <2>2. call.pc = "receive" /\ UNCHANGED <<history, models, machine>>
    BY <1>4 DEF ReceiveUnrouted, ReceiveBadArguments, Arrives, At
  <2>3. /\ Routing = Bound /\ history.states > 0
        /\ IsTableOf(Bound) => Moves[history.last][input] = AnswerOf(Bound, machine.current, input)
    BY <2>1, <2>2, Expected
  <2>4. AnswerOf(Bound, machine.current, input) = Refused
    BY <2>1, <2>3 DEF AnswerOf
  <2>5. call'.input = <<input>> /\ call'.say.kind = "error"
    BY <2>1, ErrorKind DEF TypeOK, CallTypeOK, NoCall
  <2> QED
    BY <2>1, <2>2, <2>3, <2>4, <2>5 DEF AnswerReady, Saying, At, Bound
<1> QED
  BY <1>1, <1>2, <1>3, <1>4, WhoPublishes

-----------------------------------------------------------------------------
(* An application that obeys. *)

\* The application that calls nothing but init(), start(), service() and stop()
\* once its files are loaded, over a port that may fail.
Behaves == Conduct \subseteq {"hook", "fault"} /\ Names = {}
Obeys   == Behaves /\ TableIsConfigured

\* All of it at once: what is said is what the configuration answers.
Truthful ==
  /\ TypeOK /\ Bindings /\ SilenceMeansMismatch /\ Paired /\ Fixed /\ Shown /\ StatesAccounted
  /\ Undisturbed /\ Serving /\ Dispatching /\ Answering

LEMMA TruthfulHolds ==
  ASSUME Behaves
  PROVE  Spec => []Truthful
<1>0. /\ "reload" \notin Conduct /\ "rebind" \notin Conduct /\ "direct" \notin Conduct
      /\ Names = {}
  BY DEF Behaves
<1> DEFINE Known   == TypeOK /\ Bindings /\ SilenceMeansMismatch /\ Paired /\ Fixed
           Told    == Shown /\ StatesAccounted
           Session == Undisturbed /\ Serving /\ Dispatching /\ Answering
<1>1. Init => Told /\ Session
  BY DEF Init, Shown, Saying, StatesAccounted, Publishing, At, NoCall, NewMachine, NewHistory,
     Undisturbed, Serving, Dispatching, Answering
<1>2. Known /\ Known' /\ Told /\ [Next]_vars => Told'
  BY <1>0, StepShown, StepStates
<1>3. Known /\ Known' /\ Told /\ Session /\ [Next]_vars => Session'
  BY <1>0, StepUndisturbed, StepServing, StepDispatching, StepAnswering
<1>4. Spec => []Known
  BY <1>0, FixedHolds
<1>5. Known /\ Told /\ Session => Truthful
  BY DEF Truthful
<1> HIDE DEF Known, Told, Session
<1> QED
  BY <1>1, <1>2, <1>3, <1>4, <1>5, PTL DEF Spec

\* And it begins where the table does: what the refinement is proved from.
Obedient == Truthful /\ InitialIsBound

LEMMA ObedientHolds ==
  ASSUME Obeys
  PROVE  Spec => []Obedient
<1>0. /\ "reload" \notin Conduct /\ "direct" \notin Conduct
      /\ Behaves /\ TableIsConfigured /\ MovesAreConfigured
  BY DEF Obeys, Behaves, TableIsConfigured
<1>1. Init => InitialIsBound
  BY DEF Init, NewMachine, InitialIsBound
<1>2. Truthful /\ InitialIsBound /\ [Next]_vars => InitialIsBound'
  BY <1>0, StepInitialIsBound DEF Truthful
<1>3. Spec => []Truthful
  BY <1>0, TruthfulHolds
<1> QED
  BY <1>1, <1>2, <1>3, PTL DEF Spec, Obedient

\* Before anything is received, nothing waits for an answer but what is in the
\* port.
LEMMA InboxKept ==
  ASSUME TypeOK, [Next]_vars
  PROVE  \/ port'.inbox = port.inbox
         \/ \E input \in Inputs : Deliver(input)
         \/ ReceiveUnrouted \/ ReceiveBadArguments \/ ReceiveTrigger
<1> USE DEF TypeOK, PortTypeOK, NewPort
<1>1. CASE Configure \/ Open \/ Listen \/ ReceiveNothing \/ Close \/ EndInput
  BY <1>1 DEF Configure, Open, Listen, ReceiveNothing, Close, EndInput
<1>2. CASE \/ EnterInitial \/ Dispatch \/ PublishState \/ PublishError \/ PublishNothing \/ Trace
           \/ HookReturns \/ RuntimeInit \/ Start \/ Service \/ Stop
           \/ \E name \in Names, text \in Texts : FireByName(name, text)
           \/ Loads \/ Binds \/ StartMachine
           \/ \E s \in Object, setup \in LoadedSetups : LoadSetup(s, setup)
           \/ \E trigger \in 0 .. kMaxTriggers - 1, text \in Texts : FireMachine(trigger, text.args)
           \/ UNCHANGED vars
  BY <1>2 DEF EnterInitial, Dispatch, PublishState, PublishError, PublishNothing, Trace,
     HookReturns, RuntimeInit, Start, Service, Stop, FireByName, Loads, LoadMachine, Binds,
     InitMachine, StartMachine, LoadSetup, FireMachine, vars
<1> QED
  BY <1>1, <1>2 DEF Next, RuntimeStep, ApplicationStep, WorldStep, Binds, Loads

\* What arrives, arrives behind what waits.
LEMMA ConcatAppend ==
  ASSUME NEW S, NEW s \in Seq(S), NEW t \in Seq(S), NEW e \in S
  PROVE  s \o Append(t, e) = Append(s \o t, e)
<1>1. <<e>> \in Seq(S) /\ s \o t \in Seq(S)
  BY ConcatProperties
<1>2. Append(t, e) = t \o <<e>> /\ Append(s \o t, e) = (s \o t) \o <<e>>
  BY <1>1, AppendIsConcat
<1> QED
  BY <1>1, <1>2, ConcatAssociative

\* An input taken out of a queue, and put in front of what is left of it.
LEMMA InFront ==
  ASSUME NEW S, NEW e \in S, NEW q \in Seq(S)
  PROVE  /\ <<e>> \o q # <<>> /\ Head(<<e>> \o q) = e /\ Tail(<<e>> \o q) = q
         /\ q # <<>> => <<Head(q)>> \o Tail(q) = q
<1>1. /\ <<e>> \in Seq(S) /\ <<e>> \o q \in Seq(S) /\ Len(<<e>> \o q) = 1 + Len(q)
      /\ \A i \in 1 .. 1 + Len(q) : (<<e>> \o q)[i] = IF i <= 1 THEN <<e>>[i] ELSE q[i - 1]
  <2>1. <<e>> \in Seq(S) /\ Len(<<e>>) = 1
    OBVIOUS
  <2> QED
    BY <2>1, ConcatProperties
<1>2. Len(q) \in Nat
  BY LenProperties
<1>3. <<e>> \o q # <<>>
  BY <1>1, <1>2
<1>4. (<<e>> \o q)[1] = e
  BY <1>1, <1>2
<1>5. Head(<<e>> \o q) = e
  BY <1>1, <1>3, <1>4
<1>6. Tail(<<e>> \o q) = q
  <2> DEFINE t == Tail(<<e>> \o q)
  <2>1. t \in Seq(S) /\ Len(t) = Len(q) /\ \A i \in 1 .. Len(q) : t[i] = (<<e>> \o q)[i + 1]
    BY <1>1, <1>2, <1>3, HeadTailProperties
  <2>2. \A i \in 1 .. Len(q) : t[i] = q[i]
    <3> SUFFICES ASSUME NEW i \in 1 .. Len(q) PROVE t[i] = q[i]
      OBVIOUS
    <3>1. i \in Nat /\ i + 1 \in 1 .. 1 + Len(q) /\ ~(i + 1 <= 1) /\ (i + 1) - 1 = i
      BY <1>2
    <3> HIDE DEF t
    <3> QED
      BY <1>1, <2>1, <3>1
  <2> HIDE DEF t
  <2> QED
    BY <2>1, <2>2, SeqEqual DEF t
<1>7. ASSUME q # <<>>
      PROVE  <<Head(q)>> \o Tail(q) = q
  <2> DEFINE h    == <<Head(q)>>
             rest == Tail(q)
  <2>1. /\ h \in Seq(S) /\ Len(h) = 1 /\ h[1] = Head(q) /\ Head(q) = q[1]
        /\ rest \in Seq(S) /\ Len(rest) = Len(q) - 1
        /\ \A i \in 1 .. Len(rest) : rest[i] = q[i + 1]
    BY <1>7, HeadTailProperties
  <2> HIDE DEF h, rest
  <2> DEFINE c == h \o rest
  <2>2. /\ c \in Seq(S) /\ Len(c) = 1 + Len(rest)
        /\ \A i \in 1 .. 1 + Len(rest) : c[i] = IF i <= 1 THEN h[i] ELSE rest[i - 1]
    <3>1. c \in Seq(S) /\ Len(c) = Len(h) + Len(rest)
          /\ \A i \in 1 .. Len(h) + Len(rest) :
               c[i] = IF i <= Len(h) THEN h[i] ELSE rest[i - Len(h)]
      <4>1. h \in Seq(S) /\ rest \in Seq(S)
        BY <2>1
      <4> QED
        BY <4>1, ConcatProperties
    <3> HIDE DEF c
    <3> QED
      BY <2>1, <3>1
  <2> HIDE DEF c
  <2>3. Len(q) \in Nat \ {0}
    BY <1>7, EmptySeq
  <2>4. \A i \in 1 .. Len(q) : c[i] = q[i]
    <3> SUFFICES ASSUME NEW i \in 1 .. Len(q) PROVE c[i] = q[i]
      OBVIOUS
    <3>1. CASE i = 1
      BY <2>1, <2>2, <2>3, <3>1
    <3>2. CASE i # 1
      <4>1. i - 1 \in 1 .. Len(rest) /\ (i - 1) + 1 = i
        BY <2>1, <2>3, <3>2
      <4>2. c[i] = rest[i - 1]
        BY <2>1, <2>2, <2>3, <3>2
      <4>3. rest[i - 1] = q[(i - 1) + 1]
        BY <2>1, <4>1
      <4> QED
        BY <4>1, <4>2, <4>3
    <3> QED
      BY <3>1, <3>2
  <2> QED
    BY <2>1, <2>2, <2>3, <2>4, SeqEqual DEF c, h, rest
<1> QED
  BY <1>3, <1>5, <1>6, <1>7

\* A call keeps its input until it publishes.
LEMMA InputStays ==
  ASSUME Obeys, Obedient, Obedient', [Next]_vars, ~PublishState, ~PublishError,
         ~ReceiveUnrouted, ~ReceiveBadArguments, ~ReceiveTrigger
  PROVE  call'.input = call.input
<1> USE DEF Obedient, Truthful
<1>1. CASE call.pc = "publish"
  <2>1. ~PublishNothing
    BY <1>1 DEF PublishNothing, Answering, Beginning, AnswerReady, AState, Saying, At
  <2> QED
    BY <1>1, <2>1, WhilePublishing DEF At, WorldStep, EndInput, Deliver, vars
<1>2. CASE EnterInitial
  <2>1. call.input = <<>>
    BY <1>2 DEF EnterInitial, At, Serving
  <2>2. CASE call' = NoCall
    BY <2>1, <2>2 DEF NoCall
  <2>3. CASE call' = [call EXCEPT !.pc = "publish", !.say = SayState(machine.initial)]
    BY <2>3 DEF TypeOK, CallTypeOK, NoCall
  <2> QED
    BY <1>2, <2>2, <2>3 DEF EnterInitial
<1>3. CASE Dispatch
  <2>1. result' \in {"Ok", "NoTransition", "GuardRejected"}
    BY <1>3, FireFields DEF Dispatch, Bindings, At, TypeOK
  <2>2. PICK say : Answer(say, AfterFire)
    BY <1>3, <2>1 DEF Dispatch, Refuses
  <2> QED
    BY <2>2 DEF Answer, TypeOK, CallTypeOK, NoCall
<1>4. CASE call.pc # "publish" /\ ~EnterInitial /\ ~Dispatch
  <2>1. call'.pc = "publish" => UNCHANGED call
    BY <1>4, WhoPublishes
  <2>2. call'.pc = "dispatch" => UNCHANGED call
    BY WhoDispatches DEF Obeys, Behaves
  <2>3. call.pc = "dispatch" => UNCHANGED call
    BY <1>4 DEF Next, RuntimeStep, ApplicationStep, At, Idle, Configure, Open, Listen,
       ReceiveNothing, PublishState, PublishError, PublishNothing, Trace, Close, HookReturns,
       RuntimeInit, Start, Service, Stop, FireByName, LoadMachine, LoadSetup, InitMachine,
       StartMachine, FireMachine, WorldStep, EndInput, Deliver, vars
  <2>4. CASE call.pc # "dispatch" /\ call'.pc \notin {"dispatch", "publish"}
    BY <1>4, <2>4 DEF Serving
  <2> QED
    BY <1>4, <2>1, <2>2, <2>3, <2>4
<1> QED
  BY <1>1, <1>2, <1>3, <1>4

\* Taking an input out of the port leaves it in front of the queue.
LEMMA ReceptionStutters ==
  ASSUME Obedient, ReceiveUnrouted \/ ReceiveBadArguments \/ ReceiveTrigger
  PROVE  UNCHANGED <<Phase, history.last, Unanswered, Replies>>
<1> USE DEF Obedient, Truthful
<1>1. PICK input \in Inputs : Arrives(input) /\ call'.input = <<input>>
  <2> USE DEF TypeOK, CallTypeOK, NoCall
  <2>1. CASE ReceiveUnrouted
    <3>1. PICK input \in Inputs :
            /\ Arrives(input)
            /\ call' = [call EXCEPT !.pc = "publish", !.input = <<input>>,
                                    !.say = AnError("unknown channel")]
      BY <2>1 DEF ReceiveUnrouted
    <3> QED
      BY <3>1
  <2>2. CASE ReceiveBadArguments
    <3>1. PICK input \in Inputs :
            /\ Arrives(input)
            /\ call' = [call EXCEPT !.pc = "publish", !.input = <<input>>,
                                    !.say = AnError("bad arguments")]
      BY <2>2 DEF ReceiveBadArguments
    <3> QED
      BY <3>1
  <2>3. CASE ReceiveTrigger
    <3>1. PICK input \in Inputs :
            /\ Arrives(input)
            /\ call' = [call EXCEPT !.pc = "dispatch", !.input = <<input>>,
                                    !.trigger = FindTriggerForChannel(Routing, input.channel),
                                    !.args = input.text.args]
      BY <2>3 DEF ReceiveTrigger
    <3> QED
      BY <3>1
  <2> QED
    BY <2>1, <2>2, <2>3
<1>2. rt'.started = rt.started /\ UNCHANGED history
  <2>1. rt' \in {Unrouted(rt), BadArguments(rt), JustReceived(rt)} /\ UNCHANGED history
    BY DEF ReceiveUnrouted, ReceiveBadArguments, ReceiveTrigger
  <2> QED
    BY <2>1 DEF Unrouted, BadArguments, JustReceived, TypeOK, MembersTypeOK, NewRuntime
<1>3. /\ call.input = <<>> /\ port.inbox # <<>> /\ input = Head(port.inbox)
      /\ port'.inbox = Tail(port.inbox) /\ port.inbox \in Seq(Inputs)
  BY <1>1 DEF Arrives, At, Serving, TypeOK, PortTypeOK, NewPort
<1>4. <<input>> \o Tail(port.inbox) = port.inbox /\ <<>> \o port.inbox = port.inbox
  BY <1>3, InFront, ConcatEmptySeq
<1>5. Unanswered' = Unanswered
  BY <1>1, <1>3, <1>4 DEF Unanswered
<1> QED
  BY <1>2, <1>5 DEF Phase, Replies

\* Every step of the runtime, of the application and of the port is a step of
\* the automaton, or none.
LEMMA StepImplements ==
  ASSUME Obeys, Obedient, Obedient', [Next]_vars
  PROVE  [Promise!Next]_(Promise!vars)
<1> USE DEF Obedient, Truthful
<1>0. ~(\E trigger \in 0 .. kMaxTriggers - 1, text \in Texts : FireMachine(trigger, text.args))
      /\ history.states \in Nat /\ history.errors \in Nat
  BY DEF FireMachine, Obeys, Behaves, TypeOK, HistoryTypeOK
<1>1. ASSUME UNCHANGED <<Phase, history.last, Unanswered, Replies>>
      PROVE  [Promise!Next]_(Promise!vars)
  BY <1>1 DEF Promise!vars
<1>2. port.inbox \in Seq(Inputs)
  BY DEF TypeOK, PortTypeOK
<1>3. CASE PublishState \/ PublishError
  <2>1. /\ call.pc = "publish" /\ rt.started /\ UNCHANGED <<rt, port>>
        /\ call'.pc \in {"idle", "trace"} /\ call'.input = <<>>
    BY <1>3, PublishEnds DEF PublishState, PublishError, At, Serving, TypeOK
  <2>2. Unanswered' = port.inbox
    BY <1>2, <2>1, ConcatEmptySeq DEF Unanswered
  <2>3. CASE Beginning
    <3>1. PublishState /\ call.say = AState(Initial)
      <4>1. machine.model # Null
        BY <1>3 DEF Serving, Paired, PairMatches, Idle, At,
                    Bindings, RunsOnStartedMachine, PublishState, PublishError
      <4> QED
        BY <1>3, <2>3, <4>1 DEF Beginning, PublishError, AState, InitialIsBound
    <3>2. /\ history.states = 0 /\ history'.states = 1 /\ history'.last = Initial
          /\ history'.errors = history.errors
      BY <2>3, <3>1 DEF PublishState, Beginning, AState, TypeOK, HistoryTypeOK, NewHistory
    <3>3. Unanswered = port.inbox
      BY <1>2, <2>3, ConcatEmptySeq DEF Unanswered, Beginning
    <3>4. Promise!Begin
      BY <2>1, <2>2, <3>2, <3>3 DEF Promise!Begin, Phase, Replies
    <3> QED
      BY <3>4 DEF Promise!Next
  <2>4. CASE AnswerReady
    <3>1. PICK input \in Inputs :
            /\ call.input = <<input>> /\ history.states > 0
            /\ \/ /\ Saying("state") /\ Moves[history.last][input] = call.say.name
                  /\ call.say.name # Refused
               \/ Saying("error") /\ Moves[history.last][input] = Refused
      <4>1. Bound \in LoadedModels
        BY <2>1 DEF Serving, Bindings, RunsOnStartedMachine, Paired, PairMatches, Fixed, Bound, TypeOK,
                    ApplicationTypeOK, MachineTypeOK
      <4>2. IsTableOf(Bound)
        BY <4>1 DEF Obeys, TableIsConfigured, MovesAreConfigured
      <4> QED
        BY <2>4, <4>2 DEF AnswerReady
    <3>2. Unanswered # <<>> /\ input = Head(Unanswered) /\ Unanswered' = Tail(Unanswered)
      BY <1>2, <2>2, <3>1, InFront DEF Unanswered
    <3>3. Phase = "on" /\ Replies = [states |-> history.states - 1, errors |-> history.errors]
      BY <2>1, <3>1 DEF Phase, Replies
    <3>4. CASE PublishState
      <4>1. /\ history'.states = history.states + 1 /\ history'.errors = history.errors
            /\ history'.last = call.say.name /\ call.say.kind = "state"
        BY <3>4 DEF PublishState, TypeOK, HistoryTypeOK, NewHistory
      <4>2. Phase' = "on" /\ Replies' = [states |-> history.states, errors |-> history.errors]
        BY <1>0, <2>1, <3>1, <4>1 DEF Phase, Replies
      <4>3. Replies' = [Replies EXCEPT !.states = @ + 1]
        BY <1>0, <3>3, <4>2
      <4>4. Moves[history.last][input] = history'.last /\ history'.last # Refused
        BY <3>1, <4>1 DEF Saying
      <4>5. Promise!Accept(input)
        BY <3>2, <3>3, <4>2, <4>3, <4>4 DEF Promise!Accept, Promise!Answered
      <4> QED
        BY <4>5 DEF Promise!Next
    <3>5. CASE PublishError
      <4>1. /\ history'.states = history.states /\ history'.errors = history.errors + 1
            /\ history'.last = history.last /\ call.say.kind = "error"
        BY <3>5 DEF PublishError, TypeOK, HistoryTypeOK, NewHistory
      <4>2. Phase' = "on"
            /\ Replies' = [states |-> history.states - 1, errors |-> history.errors + 1]
        BY <1>0, <2>1, <3>1, <4>1 DEF Phase, Replies
      <4>3. Replies' = [Replies EXCEPT !.errors = @ + 1]
        BY <1>0, <3>3, <4>2
      <4>4. Moves[history.last][input] = Refused
        BY <3>1, <4>1 DEF Saying
      <4>5. Promise!Reject(input)
        BY <3>2, <3>3, <4>1, <4>2, <4>3, <4>4 DEF Promise!Reject, Promise!Answered
      <4> QED
        BY <4>5 DEF Promise!Next
    <3> QED
      BY <1>3, <3>4, <3>5
  <2> QED
    BY <2>1, <2>3, <2>4 DEF Answering, At
<1>4. CASE ReceiveUnrouted \/ ReceiveBadArguments \/ ReceiveTrigger
  BY <1>1, <1>4, ReceptionStutters
<1>5. CASE \E input \in Inputs : Deliver(input)
  <2>1. PICK input \in Inputs : Deliver(input)
    BY <1>5
  <2>2. /\ UNCHANGED <<call, rt, history>> /\ port'.inbox = Append(port.inbox, input)
    BY <2>1 DEF Deliver, TypeOK, PortTypeOK, NewPort
  <2>3. call.input \in Seq(Inputs)
    <3>1. CASE call.input = <<>>
      BY <3>1
    <3>2. CASE \E i \in Inputs : call.input = <<i>>
      BY <3>2
    <3> QED
      BY <3>1, <3>2 DEF Serving, Dispatching, Answering, Beginning, AnswerReady, At
  <2>4. Unanswered' = Append(Unanswered, input)
    <3> DEFINE held == call.input
    <3>1. PICK waiting \in Seq(Inputs) : waiting = port.inbox
      BY <1>2
    <3>2. held \in Seq(Inputs)
      BY <2>3
    <3> HIDE DEF held
    <3>3. held \o Append(waiting, input) = Append(held \o waiting, input)
      BY <3>1, <3>2, ConcatAppend
    <3> QED
      BY <2>2, <3>1, <3>3 DEF Unanswered, held
  <2>5. Promise!Arrive(input)
    BY <2>2, <2>4 DEF Promise!Arrive, Phase, Replies
  <2> QED
    BY <2>5 DEF Promise!Next
<1>6. ASSUME ~PublishState, ~PublishError, ~ReceiveUnrouted, ~ReceiveBadArguments, ~ReceiveTrigger,
             ~(\E input \in Inputs : Deliver(input))
      PROVE  [Promise!Next]_(Promise!vars)
  <2>1. /\ history'.states = history.states /\ history'.last = history.last
        /\ history'.errors = history.errors
    <3>1. CASE history' = [history EXCEPT !.entered = @ + 1]
      BY <3>1 DEF TypeOK, HistoryTypeOK, NewHistory
    <3> QED
      BY <1>0, <1>6, <3>1, WhoTells
  <2>2. Unanswered' = Unanswered
    BY <1>6, InputStays, InboxKept DEF Unanswered
  <2>3. CASE rt'.started = rt.started
    BY <1>1, <2>1, <2>2, <2>3 DEF Phase, Replies
  <2>4. CASE rt.started /\ ~rt'.started
    <3>1. CASE history.states = 0
      BY <1>1, <2>1, <2>2, <3>1 DEF Phase, Replies
    <3>2. CASE history.states # 0
      <4>1. Promise!End
        BY <2>1, <2>2, <2>4, <3>2 DEF Promise!End, Phase, Replies
      <4> QED
        BY <4>1 DEF Promise!Next
    <3> QED
      BY <3>1, <3>2
  <2>5. CASE ~rt.started /\ rt'.started
    <3>1. EnterInitial /\ MachineStartStatus = "Ok"
      BY <2>5, WhoStarts DEF EnterInitial
    <3>2. /\ history.entered = 0 /\ history.direct = 0 /\ machine.transitions = 0
          /\ call.pc = "listen"
      BY <3>1, StartFields DEF EnterInitial, At, Bindings, RunsOnStartedMachine, TypeOK, HistoryTypeOK
    <3>3. history.states = 0
      BY <1>0, <3>2 DEF StatesAccounted, Publishing, At
    <3> QED
      BY <1>1, <2>1, <2>2, <3>3 DEF Phase, Replies
  <2> QED
    BY <2>3, <2>4, <2>5 DEF TypeOK, MembersTypeOK
<1> QED
  BY <1>3, <1>4, <1>5, <1>6

\* The runtime implements Automaton: whatever arrives and whenever, and whatever
\* call on the port fails, what is published is the initial state and then, one
\* by one and in order, what the file answers to each input.
THEOREM RuntimeKeepsPromise ==
  ASSUME Obeys
  PROVE  Spec => KeepsPromise
<1>1. Init => Promise!Init
  <2> SUFFICES ASSUME Init PROVE Promise!Init
    OBVIOUS
  <2>1. Unanswered = <<>>
    BY DEF Init, Unanswered, NoCall, NewPort
  <2>2. history.states = 0 /\ history.errors = 0 /\ history.last = ""
    BY DEF Init, NewHistory, NoName
  <2>3. Phase = "off" /\ Replies = [states |-> 0, errors |-> 0]
    BY <2>2 DEF Phase, Replies
  <2> QED
    BY <2>1, <2>2, <2>3 DEF Promise!Init
<1>2. Obedient /\ Obedient' /\ [Next]_vars => [Promise!Next]_(Promise!vars)
  BY StepImplements
<1>3. Spec => []Obedient
  BY ObedientHolds
<1> QED
  BY <1>1, <1>2, <1>3, PTL DEF Spec, KeepsPromise, Promise!Spec
=============================================================================
