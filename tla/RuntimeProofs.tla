---------------------------- MODULE RuntimeProofs ----------------------------
(***************************************************************************)
(* What holds of Runtime for every configuration, every input, every bound *)
(* and every Conduct of the application and the port.                      *)
(***************************************************************************)
EXTENDS RuntimeProperties, ModelProofs

-----------------------------------------------------------------------------
(* Lemmas about the operators. *)

\* dispatch publishes, then traces.
LEMMA Steps ==
  /\ Head(AfterFire) = "publish" /\ Tail(AfterFire) = <<"trace">>
  /\ Head(<<"trace">>) = "trace" /\ Tail(<<"trace">>) = <<>>
BY DEF AfterFire

\* A sequence's own elements are a type for it, also after an append.
LEMMA OwnElements ==
  ASSUME NEW s, s \in Seq({s[i] : i \in DOMAIN s}), NEW e
  PROVE  LET t == Append(s, e) IN
         t \in Seq({t[i] : i \in DOMAIN t}) /\ Len(t) = Len(s) + 1
<1> DEFINE S == {s[i] : i \in DOMAIN s}
           t == Append(s, e)
           T == {t[i] : i \in DOMAIN t}
<1>1. t \in Seq(S \cup {e}) /\ Len(t) = Len(s) + 1
  OBVIOUS
<1>2. DOMAIN t = 1 .. Len(t)
  BY <1>1, LenProperties
<1>3. \A i \in 1 .. Len(t) : t[i] \in T
  BY <1>2
<1>4. t \in [1 .. Len(t) -> T]
  BY <1>1, <1>3, LenProperties
<1>5. t \in Seq(T)
  <2> HIDE DEF t, T
  <2> QED
    BY <1>1, <1>4
<1> QED
  BY <1>1, <1>5

\* Evaluate answers one of three decisions.
LEMMA Decisions ==
  ASSUME NEW m, NEW from, NEW trigger, NEW args
  PROVE  Evaluate(m, from, trigger, args).decision
           \in {"NoTransition", "GuardRejected", "Accepted"}
BY DEF Evaluate

\* What fire() does to the machine and what it answers, without its reasons.
LEMMA FireCases ==
  ASSUME NEW trigger, NEW args, Fire(trigger, args)
  PROVE  /\ \/ /\ result' = "Ok" /\ machine.started /\ machine.model # Null
               /\ \E target : machine' = [machine EXCEPT !.current = target,
                                                         !.transitions = @ + 1]
            \/ /\ result' \in {"NoTransition", "GuardRejected"}
               /\ machine.started /\ machine.model # Null
               /\ machine' = [machine EXCEPT !.rejections = @ + 1]
            \/ /\ result' = "NotInitialised" /\ (machine.model = Null \/ ~machine.started)
               /\ machine' = machine
         /\ UNCHANGED <<models, setups>>
<1>1. CASE machine.model = Null \/ ~machine.started
  BY <1>1 DEF Fire, FireOutcome
<1>2. CASE machine.model # Null /\ machine.started
  <2> DEFINE outcome == Evaluate(Bound, machine.current, trigger, args)
  <2>1. FireOutcome(trigger, args) = outcome
    BY <1>2 DEF FireOutcome
  <2>2. outcome.decision \in {"NoTransition", "GuardRejected", "Accepted"}
    BY Decisions
  <2> HIDE DEF outcome
  <2> QED
    BY <1>2, <2>1, <2>2 DEF Fire
<1> QED
  BY <1>1, <1>2

-----------------------------------------------------------------------------
(* Type correctness. *)

\* The program starts well typed.
LEMMA InitTypeOK == Init => TypeOK
<1> SUFFICES ASSUME Init PROVE TypeOK
  OBVIOUS
<1>1. ApplicationTypeOK /\ MachineTypeOK /\ MembersTypeOK /\ ViewTypeOK /\ HistoryTypeOK
  BY DEF Init, ApplicationTypeOK, MachineTypeOK, NewMachine, MembersTypeOK, NewRuntime,
     ViewTypeOK, HistoryTypeOK, NewHistory
<1>2. CallTypeOK
  BY DEF Init, CallTypeOK, NoCall, Nothing, At, PCs, Statuses
<1>3. PortTypeOK
  BY CapacityAssumption DEF Init, PortTypeOK, NewPort
<1> QED
  BY <1>1, <1>2, <1>3 DEF TypeOK

\* A part of the state that a step leaves alone keeps its type.
LEMMA Untouched ==
  /\ ApplicationTypeOK /\ UNCHANGED <<models, setups>> => ApplicationTypeOK'
  /\ MachineTypeOK /\ UNCHANGED machine => MachineTypeOK'
  /\ MembersTypeOK /\ UNCHANGED rt => MembersTypeOK'
  /\ CallTypeOK /\ UNCHANGED <<call, hooks>> => CallTypeOK'
  /\ PortTypeOK /\ UNCHANGED port => PortTypeOK'
  /\ ViewTypeOK /\ (UNCHANGED view \/ CallsPort) => ViewTypeOK'
  /\ HistoryTypeOK /\ UNCHANGED history => HistoryTypeOK'
<1>1. PortTypeOK /\ UNCHANGED port => PortTypeOK'
  <2> SUFFICES ASSUME PortTypeOK, UNCHANGED port PROVE PortTypeOK'
    OBVIOUS
  <2>1. Heard' = Heard
    BY DEF Heard
  <2> QED
    BY <2>1 DEF PortTypeOK
<1> QED
  BY <1>1 DEF ApplicationTypeOK, MachineTypeOK, MembersTypeOK, CallTypeOK, At, ViewTypeOK,
     CallsPort, HistoryTypeOK

\* Any call of the machine leaves the application's objects alone.
LEMMA MachineStep ==
  ASSUME MachineTypeOK,
         \/ \E m, s \in Object : MachineInit(m, s)
         \/ MachineStart
         \/ \E trigger, args : Fire(trigger, args)
  PROVE  MachineTypeOK' /\ UNCHANGED <<models, setups>>
<1>1. ASSUME NEW m \in Object, NEW s \in Object, MachineInit(m, s)
      PROVE  MachineTypeOK' /\ UNCHANGED <<models, setups>>
  BY <1>1 DEF MachineInit, MachineTypeOK, NewMachine
<1>2. CASE MachineStart
  BY <1>2 DEF MachineStart, MachineTypeOK, NewMachine
<1>3. ASSUME NEW trigger, NEW args, Fire(trigger, args)
      PROVE  MachineTypeOK' /\ UNCHANGED <<models, setups>>
  <2>0. UNCHANGED <<models, setups>>
    BY <1>3, FireCases
  <2>1. ASSUME NEW target,
               machine' = [machine EXCEPT !.current = target, !.transitions = @ + 1]
        PROVE  MachineTypeOK'
    BY <2>1 DEF MachineTypeOK, NewMachine
  <2>2. CASE machine' = [machine EXCEPT !.rejections = @ + 1]
    BY <2>0, <2>2 DEF MachineTypeOK, NewMachine
  <2>3. CASE machine' = machine
    BY <2>0, <2>3 DEF MachineTypeOK
  <2> QED
    BY <1>3, <2>0, <2>1, <2>2, <2>3, FireCases
<1> QED
  BY <1>1, <1>2, <1>3

\* The end of a call, a step to an ordinary place in it, and what it publishes.
LEMMA SayKind == \A s : SayState(s).kind \in {"state", "nothing"}
BY DEF SayState, AState, Nothing

\* A call that returns, with or without a hook left behind it.
LEMMA CallIsOver ==
  CallTypeOK /\ call' = NoCall /\ (UNCHANGED hooks \/ hooks' \in Seq(Suspended)) => CallTypeOK'
BY DEF CallTypeOK, NoCall, Nothing, At, PCs, Statuses

\* Each action keeps every part's type.
LEMMA StepTypeOK == TypeOK /\ [Next]_vars => TypeOK'
<1> SUFFICES ASSUME TypeOK, [Next]_vars PROVE TypeOK'
  OBVIOUS
<1> USE Untouched DEF TypeOK
<1>a. CASE Configure
  BY <1>a DEF Configure, Return, CallTypeOK, NoCall, Nothing, At, PCs, Statuses
<1>b. CASE Open
  <2>1. CallTypeOK'
    <3>1. CASE call' = NoCall
      BY <1>b, <3>1, CallIsOver DEF Open
    <3>2. CASE call' = [call EXCEPT !.pc = "listen", !.todo = ChannelsToAnnounce(Routing)]
      <4>1. UNCHANGED hooks
        BY <1>b DEF Open
      <4> QED
        BY <3>2, <4>1 DEF CallTypeOK, NoCall, Nothing, At, PCs, Statuses
    <3> QED
      BY <1>b, <3>1, <3>2 DEF Open, Return
  <2>2. PortTypeOK'
    <3>1. port' = port \/ port' = [port EXCEPT !.open = TRUE]
      BY <1>b DEF Open
    <3>2. port'.listening = port.listening /\ Heard' = Heard
      BY <3>1 DEF Heard, PortTypeOK, NewPort
    <3> QED
      BY <3>1, <3>2 DEF PortTypeOK, NewPort
  <2> QED
    BY <1>b, <2>1, <2>2 DEF Open
<1>c. CASE Listen
  <2>1. CallTypeOK'
    BY <1>c DEF Listen, Return, CallTypeOK, NoCall, Nothing, At, PCs, Statuses
  <2>2. PortTypeOK'
    <3>1. CASE port' = port
      BY <3>1
    <3>2. ASSUME NEW channel, port' = [port EXCEPT !.listening = Append(@, channel)],
                 "Ok" \in ListenAnswers
          PROVE  PortTypeOK'
      <4> DEFINE more == Append(port.listening, channel)
      <4>1. more \in Seq({more[i] : i \in DOMAIN more}) /\ Len(more) = Len(port.listening) + 1
        BY OwnElements DEF PortTypeOK, Heard
      <4>2. Len(port.listening) < kMaxTriggers
        BY <3>2, CapacityAssumption, LenProperties
           DEF ListenAnswers, OpenPortAnswers, PortAnswers, PortTypeOK
      <4>3. port'.listening = more
        BY <3>2 DEF PortTypeOK, NewPort
      <4> HIDE DEF more
      <4>4. port'.listening \in Seq(Heard') /\ Len(port'.listening) <= kMaxTriggers
        BY <4>1, <4>2, <4>3, CapacityAssumption, LenProperties DEF Heard, PortTypeOK
      <4> QED
        BY <3>2, <4>4 DEF PortTypeOK, NewPort
    <3> QED
      BY <1>c, <3>1, <3>2 DEF Listen
  <2> QED
    BY <1>c, <2>1, <2>2 DEF Listen
<1>d. CASE EnterInitial
  <2>1. MachineTypeOK' /\ ApplicationTypeOK'
    BY <1>d, MachineStep DEF EnterInitial
  <2>2. CASE MachineStartStatus = "Ok"
    <3>1. call' = [call EXCEPT !.pc = "publish", !.say = SayState(machine.initial)]
          /\ UNCHANGED hooks
      BY <1>d, <2>2 DEF EnterInitial
    <3>2. CallTypeOK'
      BY <3>1, SayKind DEF CallTypeOK, NoCall, At, PCs
    <3>3. rt' = [rt EXCEPT !.started = TRUE] /\ history' = [history EXCEPT !.entered = @ + 1]
      BY <1>d, <2>2 DEF EnterInitial
    <3>4. MembersTypeOK'
      BY <3>3 DEF MembersTypeOK, NewRuntime
    <3>5. HistoryTypeOK'
      BY <3>3 DEF HistoryTypeOK, NewHistory
    <3> QED
      BY <1>d, <2>1, <3>2, <3>4, <3>5 DEF EnterInitial
  <2>3. CASE MachineStartStatus # "Ok"
    BY <1>d, <2>1, <2>3, CallIsOver DEF EnterInitial
  <2> QED
    BY <2>2, <2>3
<1>e. CASE ReceiveNothing
  BY <1>e DEF ReceiveNothing, Return, CallTypeOK, NoCall, Nothing, At, PCs, Statuses
<1>f. CASE ReceiveUnrouted \/ ReceiveBadArguments \/ ReceiveTrigger
  <2>0. UNCHANGED hooks
    BY <1>f DEF ReceiveUnrouted, ReceiveBadArguments, ReceiveTrigger
  <2>1. CallTypeOK'
    <3>1. ASSUME NEW input, NEW what,
                 call' = [call EXCEPT !.pc = "publish", !.input = <<input>>,
                                      !.say = AnError(what)]
          PROVE  CallTypeOK'
      BY <2>0, <3>1 DEF CallTypeOK, NoCall, At, PCs, AnError
    <3>2. CASE ReceiveUnrouted
      BY <3>1, <3>2 DEF ReceiveUnrouted
    <3>3. CASE ReceiveBadArguments
      BY <3>1, <3>3 DEF ReceiveBadArguments
    <3>4. CASE ReceiveTrigger
      <4>1. PICK input :
              call' = [call EXCEPT !.pc = "dispatch", !.input = <<input>>,
                                   !.trigger = FindTriggerForChannel(Routing, input.channel),
                                   !.args = input.text.args]
        BY <3>4 DEF ReceiveTrigger
      <4> QED
        BY <2>0, <4>1 DEF CallTypeOK, NoCall, At, PCs
    <3> QED
      BY <1>f, <3>2, <3>3, <3>4
  <2>2. MembersTypeOK'
    <3>1. CASE rt' = [rt EXCEPT !.received = @ + 1, !.unrouted = @ + 1]
      BY <3>1 DEF MembersTypeOK, NewRuntime
    <3>2. CASE rt' = [rt EXCEPT !.received = @ + 1, !.rejected = @ + 1]
      BY <3>2 DEF MembersTypeOK, NewRuntime
    <3>3. CASE rt' = [rt EXCEPT !.received = @ + 1]
      BY <3>3 DEF MembersTypeOK, NewRuntime
    <3> QED
      BY <1>f, <3>1, <3>2, <3>3
         DEF ReceiveUnrouted, ReceiveBadArguments, ReceiveTrigger, Unrouted, BadArguments,
             JustReceived
  <2>3. PortTypeOK'
    <3>1. port' = [port EXCEPT !.inbox = Tail(@)] /\ port.inbox # <<>>
      BY <1>f DEF Arrives, ReceiveUnrouted, ReceiveBadArguments, ReceiveTrigger
    <3>2. Tail(port.inbox) \in Seq(Inputs)
      BY <3>1, HeadTailProperties DEF PortTypeOK
    <3>3. port'.listening = port.listening /\ Heard' = Heard
      BY <3>1 DEF Heard, PortTypeOK, NewPort
    <3> QED
      BY <3>1, <3>2, <3>3 DEF PortTypeOK, NewPort
  <2>4. ViewTypeOK'
    BY <1>f DEF ViewTypeOK, CallsPort, ReceiveUnrouted, ReceiveBadArguments, ReceiveTrigger
  <2>5. UNCHANGED <<models, setups, machine, history>>
    BY <1>f DEF ReceiveUnrouted, ReceiveBadArguments, ReceiveTrigger
  <2> QED
    BY <2>1, <2>2, <2>3, <2>4, <2>5
<1>g. CASE Dispatch
  <2>1. MachineTypeOK' /\ UNCHANGED <<models, setups>>
    BY <1>g, MachineStep DEF Dispatch
  <2>2. result' \in Statuses
    BY <1>g, FireCases DEF Dispatch, Statuses
  <2>3. CallTypeOK'
    <3>1. PICK say : /\ say.kind \in {"state", "error", "nothing"}
                     /\ Answer(say, AfterFire) \/ (Answer(say, <<"trace">>) /\ say = Nothing)
      BY <1>g, SayKind DEF Dispatch, AnError, Nothing
    <3>2. PICK status \in Statuses :
            \/ call' = [call EXCEPT !.pc = "publish", !.rest = <<"trace">>, !.say = say,
                                    !.status = status]
            \/ /\ call' = [call EXCEPT !.pc = "trace", !.rest = <<>>, !.say = say,
                                       !.status = status]
               /\ say = Nothing
      BY <3>1, <2>2, Steps DEF Answer, Statuses
    <3>3. UNCHANGED hooks
      BY <1>g DEF Dispatch
    <3> QED
      BY <3>1, <3>2, <3>3 DEF CallTypeOK, NoCall, At, PCs
  <2>4. MembersTypeOK'
    BY <1>g DEF Dispatch, MembersTypeOK, NewRuntime
  <2> QED
    BY <1>g, <2>1, <2>3, <2>4 DEF Dispatch
<1>h. CASE PublishState \/ PublishError \/ PublishNothing
  <2> USE DEF PublishState, PublishError, PublishNothing
  <2>1. CallTypeOK'
    <3>1. Published /\ UNCHANGED hooks
      BY <1>h
    <3>2. CASE call' = NoCall
      BY <3>1, <3>2, CallIsOver
    <3>3. CASE call' = [call EXCEPT !.input = <<>>, !.say = Nothing, !.pc = "trace", !.rest = <<>>]
      BY <3>1, <3>3 DEF CallTypeOK, NoCall, Nothing, At, PCs
    <3> QED
      <4> DEFINE c == [call EXCEPT !.input = <<>>, !.say = Nothing]
      <4>1. c.rest = <<>> \/ c.rest = <<"trace">>
        BY DEF CallTypeOK, NoCall
      <4>2. [c EXCEPT !.pc = "trace", !.rest = <<>>]
              = [call EXCEPT !.input = <<>>, !.say = Nothing, !.pc = "trace", !.rest = <<>>]
        OBVIOUS
      <4> QED
        BY <3>1, <3>2, <3>3, <4>1, <4>2, Steps DEF Published, Proceed, Return
  <2>2. HistoryTypeOK'
    <3>1. CASE history' = history
      BY <3>1
    <3>2. CASE \E name : history' = [history EXCEPT !.states = @ + 1, !.last = name, !.behind = FALSE]
      BY <3>2 DEF HistoryTypeOK, NewHistory
    <3>3. CASE history' = [history EXCEPT !.errors = @ + 1]
      BY <3>3 DEF HistoryTypeOK, NewHistory
    <3> QED
      BY <1>h, <3>1, <3>2, <3>3
  <2> QED
    BY <1>h, <2>1, <2>2
<1>i. CASE Trace
  <2>1. call' = NoCall
    BY <1>i DEF Trace, Proceed, Return, CallTypeOK
  <2>2. hooks' \in Seq(Suspended)
    <3> DEFINE entry == [rest |-> call.rest, say |-> call.say, status |-> call.status]
    <3>1. entry \in Suspended
      BY <1>i DEF Trace, CallTypeOK, Suspended
    <3>2. Append(hooks, entry) \in Seq(Suspended)
      BY <3>1 DEF CallTypeOK
    <3> QED
      BY <1>i, <3>2 DEF Trace, CallTypeOK
  <2> QED
    BY <1>i, <2>1, <2>2, CallIsOver DEF Trace
<1>j. CASE HookReturns
  <2>1. Len(hooks) \in 1 .. Len(hooks) /\ hooks[Len(hooks)] \in Suspended
    BY <1>j, LenProperties, ElementOfSeq, EmptySeq DEF HookReturns, CallTypeOK
  <2>2. call' = NoCall
    <3> DEFINE c == [NoCall EXCEPT !.rest = hooks[Len(hooks)].rest, !.say = hooks[Len(hooks)].say,
                                   !.status = hooks[Len(hooks)].status]
    <3>1. c.rest = <<>>
      BY <2>1 DEF Suspended, NoCall
    <3> QED
      BY <1>j, <3>1 DEF HookReturns, Proceed, Return
  <2>3. hooks' \in Seq(Suspended)
    BY <1>j, <2>1, SubSeqProperties, LenProperties, ElementOfSeq DEF HookReturns, CallTypeOK
  <2> QED
    BY <1>j, <2>2, <2>3, CallIsOver DEF HookReturns
<1>k. CASE RuntimeInit
  BY <1>k DEF RuntimeInit, RuntimeInitStatus, MembersTypeOK, NewRuntime, MachineTypeOK
<1>l. CASE Start \/ Service \/ Stop
  <2>1. CallTypeOK'
    <3>1. CASE call' = NoCall
      BY <1>l, <3>1, CallIsOver DEF Start, Service, Stop
    <3>2. CASE \E pc \in {"configure", "receive", "close"} : call' = [NoCall EXCEPT !.pc = pc]
      <4>1. UNCHANGED hooks
        BY <1>l DEF Start, Service, Stop
      <4> QED
        BY <3>2, <4>1 DEF CallTypeOK, NoCall, Nothing, At, PCs, Statuses
    <3> QED
      BY <1>l, <3>1, <3>2 DEF Start, Service, Stop, Return
  <2>2. MembersTypeOK'
    <3>1. rt' = rt \/ rt' = [rt EXCEPT !.started = FALSE]
      BY <1>l DEF Start, Service, Stop
    <3> QED
      BY <3>1 DEF MembersTypeOK, NewRuntime
  <2> QED
    BY <1>l, <2>1, <2>2 DEF Start, Service, Stop
<1>m. CASE Close
  <2>1. CallTypeOK'
    BY <1>m DEF Close, Return, CallTypeOK, NoCall, Nothing, At, PCs, Statuses
  <2>2. PortTypeOK'
    <3>1. port' = port \/ port' = [port EXCEPT !.open = FALSE]
      BY <1>m DEF Close
    <3>2. port'.listening = port.listening /\ Heard' = Heard
      BY <3>1 DEF Heard, PortTypeOK, NewPort
    <3> QED
      BY <3>1, <3>2 DEF PortTypeOK, NewPort
  <2> QED
    BY <1>m, <2>1, <2>2 DEF Close
<1>n. CASE \E name \in Names, text \in Texts : FireByName(name, text)
  <2>1. CallTypeOK'
    <3>1. CASE call' = NoCall
      BY <1>n, <3>1, CallIsOver DEF FireByName
    <3>2. CASE \E trigger, args :
                 call' = [NoCall EXCEPT !.pc = "dispatch", !.trigger = trigger,
                                        !.args = args, !.raised = "name"]
      <4>1. UNCHANGED hooks
        BY <1>n DEF FireByName
      <4> QED
        BY <3>2, <4>1 DEF CallTypeOK, NoCall, Nothing, At, PCs, Statuses
    <3>3. PICK name \in Names, text \in Texts : FireByName(name, text)
      BY <1>n
    <3>4. \/ call' = NoCall
          \/ call' = [NoCall EXCEPT !.pc = "dispatch", !.trigger = FindTrigger(Routing, name),
                                    !.args = text.args, !.raised = "name"]
      BY <3>3 DEF FireByName, Return
    <3> QED
      BY <3>1, <3>2, <3>4
  <2>2. ViewTypeOK'
    BY <1>n DEF FireByName, ViewTypeOK
  <2>3. HistoryTypeOK'
    <3>1. history' = history \/ history' = [history EXCEPT !.named = @ + 1]
      BY <1>n DEF FireByName
    <3> QED
      BY <3>1 DEF HistoryTypeOK, NewHistory
  <2> QED
    BY <1>n, <2>1, <2>2, <2>3 DEF FireByName
<1>o. CASE \E m \in Object, model \in LoadedModels : LoadMachine(m, model)
  BY <1>o DEF LoadMachine, ApplicationTypeOK
<1>p. CASE \E s \in Object, setup \in LoadedSetups : LoadSetup(s, setup)
  BY <1>p DEF LoadSetup, ApplicationTypeOK
<1>q. CASE \E m, s \in Object : InitMachine(m, s)
  BY <1>q, MachineStep DEF InitMachine
<1>r. CASE StartMachine
  BY <1>r, MachineStep DEF StartMachine
<1>s. CASE \E trigger \in 0 .. kMaxTriggers - 1, text \in Texts : FireMachine(trigger, text.args)
  <2>1. MachineTypeOK' /\ UNCHANGED <<models, setups>>
    BY <1>s, MachineStep DEF FireMachine
  <2>2. HistoryTypeOK'
    <3>1. CASE history' = history
      BY <3>1
    <3>2. CASE history' = [history EXCEPT !.direct = @ + 1, !.behind = TRUE]
      BY <3>2 DEF HistoryTypeOK, NewHistory
    <3> QED
      BY <1>s, <3>1, <3>2 DEF FireMachine
  <2> QED
    BY <1>s, <2>1, <2>2 DEF FireMachine
<1>t. CASE WorldStep
  <2>1. \/ port' = [port EXCEPT !.ended = TRUE]
        \/ \E input \in Inputs : port' = [port EXCEPT !.inbox = Append(@, input)]
    BY <1>t DEF WorldStep, EndInput, Deliver
  <2>2. port'.listening = port.listening /\ Heard' = Heard
    BY <2>1 DEF Heard, PortTypeOK, NewPort
  <2>3. PortTypeOK'
    <3>1. CASE port' = [port EXCEPT !.ended = TRUE]
      BY <2>2, <3>1 DEF PortTypeOK, NewPort
    <3>2. ASSUME NEW input \in Inputs, port' = [port EXCEPT !.inbox = Append(@, input)]
          PROVE  PortTypeOK'
      <4>1. Append(port.inbox, input) \in Seq(Inputs)
        BY DEF PortTypeOK
      <4> QED
        BY <2>2, <3>2, <4>1 DEF PortTypeOK, NewPort
    <3> QED
      BY <2>1, <3>1, <3>2
  <2> QED
    BY <1>t, <2>3 DEF WorldStep, EndInput, Deliver
<1>u. CASE UNCHANGED vars
  BY <1>u DEF vars
<1> QED
  BY <1>a, <1>b, <1>c, <1>d, <1>e, <1>f, <1>g, <1>h, <1>i, <1>j, <1>k, <1>l, <1>m, <1>n,
     <1>o, <1>p, <1>q, <1>r, <1>s, <1>t, <1>u DEF Next, RuntimeStep, ApplicationStep

\* Every variable stays what the code's types and tables allow, whatever the
\* application loads, binds, fires and calls, and whatever fails.
THEOREM TypeCorrect == Spec => []TypeOK
BY InitTypeOK, StepTypeOK, PTL DEF Spec

-----------------------------------------------------------------------------
(* The first alternative. *)

\* evaluate() answers a target only if it is the target of an alternative the
\* model lists, whose guard holds, with none before it whose guard holds.
LEMMA EvaluateAnswers ==
  ASSUME NEW m, WellTyped(m), NEW from, NEW trigger, NEW args,
         Evaluate(m, from, trigger, args).decision = "Accepted"
  PROVE  /\ Accepts(m, from, trigger)
         /\ LET alternatives == m.states[from].transitions[trigger] IN
            \E i \in DOMAIN alternatives :
              /\ Evaluate(m, from, trigger, args).target = alternatives[i].target
              /\ AlternativeHolds(m, alternatives[i], args)
              /\ \A j \in DOMAIN alternatives :
                   j < i => ~AlternativeHolds(m, alternatives[j], args)
<1> DEFINE alternatives == m.states[from].transitions[trigger]
           holding == {i \in DOMAIN alternatives : AlternativeHolds(m, alternatives[i], args)}
<1>1. Accepts(m, from, trigger) /\ holding # {}
      /\ Evaluate(m, from, trigger, args).target = alternatives[FirstOf(holding)].target
  BY DEF Evaluate
<1>2. alternatives \in Seq(Alternative)
  BY <1>1 DEF WellTyped, Accepts, HasState
<1>3. DOMAIN alternatives \subseteq Nat
  <2> HIDE DEF alternatives
  <2> QED
    BY <1>2
<1>4. holding \subseteq Nat
  BY <1>3
<1>5. FirstOf(holding) \in holding /\ \A j \in holding : FirstOf(holding) <= j
  <2> HIDE DEF holding
  <2> QED
    BY <1>1, <1>4, Least DEF FirstOf
<1>6. PICK first : first = FirstOf(holding)
  OBVIOUS
<1>7. first \in DOMAIN alternatives /\ AlternativeHolds(m, alternatives[first], args)
  BY <1>5, <1>6
<1>8. ASSUME NEW j \in DOMAIN alternatives, j < first
      PROVE  ~AlternativeHolds(m, alternatives[j], args)
  <2>1. j \in Nat /\ first \in Nat
    BY <1>3, <1>7
  <2>2. j \notin holding
    <3> HIDE DEF holding
    <3> QED
      BY <1>5, <1>6, <1>8, <2>1
  <2> QED
    BY <2>2
<1>9. Evaluate(m, from, trigger, args).target = alternatives[first].target
  BY <1>1, <1>6
<1> QED
  BY <1>1, <1>7, <1>8, <1>9

-----------------------------------------------------------------------------
(* The machine stays in its model. *)

\* Of a loaded model, validate() accepted every target; of an empty one, no
\* state accepts anything.
LEMMA AcceptedIsState ==
  ASSUME NEW m \in LoadedModels \cup {EmptyModel}, NEW from, NEW trigger, NEW args,
         Evaluate(m, from, trigger, args).decision = "Accepted"
  PROVE  HasState(m, Evaluate(m, from, trigger, args).target)
<1>1. CASE m = EmptyModel
  BY <1>1 DEF Evaluate, Accepts, HasState, EmptyModel, EmptyFunction
<1>2. CASE m # EmptyModel
  <2>1. WellTyped(m) /\ Validate(m) = "Ok"
    BY <1>2, LoadedAssumption DEF WithinCapacities
  <2>2. \A s \in DOMAIN m.states : \A t \in DOMAIN m.states[s].transitions :
          \A i \in DOMAIN m.states[s].transitions[t] :
            HasState(m, m.states[s].transitions[t][i].target)
    BY <2>1 DEF Validate, AlternativeValid
  <2> QED
    BY <2>1, <2>2, EvaluateAnswers DEF Accepts, HasState
<1> QED
  BY <1>1, <1>2

\* If fire() moves the machine, the new state is one of its model.
LEMMA FireStays ==
  ASSUME ApplicationTypeOK, MachineTypeOK, NEW trigger, NEW args, Fire(trigger, args),
         machine'.current # machine.current
  PROVE  HasState(models[machine'.model], machine'.current)
<1> DEFINE outcome == FireOutcome(trigger, args)
<1>1. /\ outcome.decision = "Accepted"
      /\ machine' = [machine EXCEPT !.current = outcome.target, !.transitions = @ + 1]
  BY DEF Fire, MachineTypeOK, NewMachine
<1>2. machine.model # Null /\ machine.started
      /\ outcome = Evaluate(Bound, machine.current, trigger, args)
  BY <1>1 DEF FireOutcome
<1>3. Bound \in LoadedModels \cup {EmptyModel}
  BY <1>2 DEF Bound, ApplicationTypeOK, MachineTypeOK
<1>4. HasState(Bound, outcome.target)
  BY <1>1, <1>2, <1>3, AcceptedIsState
<1>5. machine'.model = machine.model /\ machine'.current = outcome.target
  BY <1>1 DEF MachineTypeOK, NewMachine
<1> QED
  BY <1>4, <1>5 DEF Bound

\* So no step moves a started machine out of its model.
LEMMA StepStaysInModel ==
  TypeOK /\ [Next]_vars =>
    [machine'.current # machine.current /\ machine'.started
       => HasState(models[machine'.model], machine'.current)]_vars
<1> SUFFICES ASSUME TypeOK, Next, machine'.current # machine.current, machine'.started
             PROVE  HasState(models[machine'.model], machine'.current)
  BY DEF vars
<1> USE DEF TypeOK
<1>1. CASE MachineStart
  BY <1>1 DEF MachineStart, MachineStartStatus, MachineTypeOK, NewMachine, Bound
<1>2. CASE \E m, s \in Object : MachineInit(m, s)
  BY <1>2 DEF MachineInit, MachineTypeOK, NewMachine
<1>3. CASE \E trigger, args : Fire(trigger, args)
  BY <1>3, FireStays
<1>4. CASE UNCHANGED machine
  BY <1>4
<1>5. \/ MachineStart \/ \E m, s \in Object : MachineInit(m, s)
      \/ \E trigger, args : Fire(trigger, args)
      \/ UNCHANGED machine
  <2>1. CASE EnterInitial \/ StartMachine
    BY <2>1 DEF EnterInitial, StartMachine
  <2>2. CASE Dispatch
    BY <2>2 DEF Dispatch
  <2>3. CASE \E trigger \in 0 .. kMaxTriggers - 1, text \in Texts : FireMachine(trigger, text.args)
    BY <2>3 DEF FireMachine
  <2>4. CASE \E m, s \in Object : InitMachine(m, s)
    BY <2>4 DEF InitMachine
  <2>5. CASE \/ Configure \/ Open \/ Listen \/ ReceiveNothing \/ ReceiveUnrouted
             \/ ReceiveBadArguments \/ ReceiveTrigger \/ PublishState \/ PublishError
             \/ PublishNothing \/ Trace \/ Close \/ HookReturns
    BY <2>5 DEF Configure, Open, Listen, ReceiveNothing, ReceiveUnrouted, ReceiveBadArguments,
       ReceiveTrigger, PublishState, PublishError, PublishNothing, Trace, Close, HookReturns
  <2>6. CASE \/ RuntimeInit \/ Start \/ Service \/ Stop
             \/ \E name \in Names, text \in Texts : FireByName(name, text)
             \/ \E m \in Object, model \in LoadedModels : LoadMachine(m, model)
             \/ \E s \in Object, setup \in LoadedSetups : LoadSetup(s, setup)
             \/ WorldStep
    BY <2>6 DEF RuntimeInit, Start, Service, Stop, FireByName, LoadMachine, LoadSetup, WorldStep,
       EndInput, Deliver
  <2> QED
    BY <2>1, <2>2, <2>3, <2>4, <2>5, <2>6 DEF Next, RuntimeStep, ApplicationStep
<1> QED
  BY <1>1, <1>2, <1>3, <1>4, <1>5

\* Whatever is loaded into the objects in use, the machine moves only to states
\* of the model as it is when it moves (StateMachine::start, StateMachine::fire).
THEOREM MovesInModel == Spec => MovesStayInModel
BY TypeCorrect, StepStaysInModel, PTL DEF Spec, MovesStayInModel

-----------------------------------------------------------------------------
(* What is bound to what, and since when. *)

\* Why a runtime that runs has a started machine: start() is past its own check
\* of the binding when it starts the machine, service() and fire_by_name() are
\* past their check of started_ when they reach it, and nothing ends the
\* machine.  Until it is started it has made no transition.
Bindings ==
  /\ machine.started => machine.model # Null
  /\ ~machine.started => machine.transitions = 0 /\ history.direct = 0
  /\ call.pc \in {"configure", "open", "listen"} => rt.model # Null
  /\ call.pc \in {"receive", "dispatch"} => machine.started
  /\ RunsOnStartedMachine

\* Nothing is bound or started at first.
LEMMA InitBindings == Init => Bindings
BY DEF Init, Bindings, RunsOnStartedMachine, NewMachine, NewRuntime, NewHistory, NoCall

\* What fire() leaves alone, and what it counts.
LEMMA FireFields ==
  ASSUME MachineTypeOK, NEW trigger, NEW args, Fire(trigger, args)
  PROVE  /\ machine'.model = machine.model /\ machine'.started = machine.started
         /\ result' = "Ok" => machine.started /\ machine'.transitions = machine.transitions + 1
         /\ result' # "Ok" => machine'.transitions = machine.transitions
         /\ machine.started /\ machine.model # Null
              => result' \in {"Ok", "NoTransition", "GuardRejected"}
<1>1. CASE /\ result' = "Ok" /\ machine.started
           /\ \E target : machine' = [machine EXCEPT !.current = target, !.transitions = @ + 1]
  BY <1>1 DEF MachineTypeOK, NewMachine
<1>2. CASE /\ result' \in {"NoTransition", "GuardRejected"}
           /\ machine' = [machine EXCEPT !.rejections = @ + 1]
  BY <1>2 DEF MachineTypeOK, NewMachine
<1>3. CASE /\ result' = "NotInitialised" /\ (machine.model = Null \/ ~machine.started)
           /\ machine' = machine
  BY <1>3
<1> QED
  BY <1>1, <1>2, <1>3, FireCases

\* A machine that is started twice says so.
LEMMA StartFields ==
  ASSUME MachineTypeOK, MachineStart
  PROVE  /\ machine'.model = machine.model /\ machine'.transitions = machine.transitions
         /\ MachineStartStatus = "Ok" => /\ ~machine.started /\ machine.model # Null
                                         /\ machine'.started
         /\ MachineStartStatus # "Ok" => machine' = machine
BY DEF MachineStart, MachineStartStatus, MachineTypeOK, NewMachine

\* Nor is it bound to anything else.
LEMMA InitFields ==
  ASSUME MachineTypeOK, NEW m \in Object, NEW s \in Object, MachineInit(m, s)
  PROVE  \/ machine' = machine
         \/ ~machine.started /\ ~machine'.started /\ machine'.transitions = 0
BY DEF MachineInit, MachineInitStatus, MachineTypeOK, NewMachine

\* start(), service() and stop() between two calls on the port.
LEMMA PortCallGoesOn ==
  ASSUME CallTypeOK, Configure \/ Open \/ Listen \/ ReceiveNothing \/ Close
  PROVE  /\ call.pc \notin {"dispatch", "publish"}
         /\ \/ call'.pc = "idle"
            \/ call.pc \in {"configure", "open", "listen"} /\ call'.pc \in {"open", "listen"}
<1> USE DEF Return, NoCall, At, CallTypeOK
<1>1. CASE Configure
  BY <1>1 DEF Configure
<1>2. CASE Open
  <2>1. call.pc = "open"
    BY <1>2 DEF Open
  <2>2. CASE call' = NoCall
    BY <2>1, <2>2
  <2>3. CASE call' = [call EXCEPT !.pc = "listen", !.todo = ChannelsToAnnounce(Routing)]
    <3>1. call'.pc = "listen"
      BY <2>3
    <3> QED
      BY <2>1, <3>1
  <2> QED
    BY <1>2, <2>2, <2>3 DEF Open
<1>3. CASE Listen
  BY <1>3 DEF Listen
<1>4. CASE ReceiveNothing \/ Close
  BY <1>4 DEF ReceiveNothing, Close
<1> QED
  BY <1>1, <1>2, <1>3, <1>4

\* A publication ends the call, or goes on to the trace; a trace ends it.
LEMMA PublishEnds ==
  ASSUME CallTypeOK, PublishState \/ PublishError \/ PublishNothing
  PROVE  call'.pc \in {"idle", "trace"}
<1>1. Published
  BY DEF PublishState, PublishError, PublishNothing
<1> DEFINE c == [call EXCEPT !.input = <<>>, !.say = Nothing]
<1>2. c.rest = call.rest /\ DOMAIN c = DOMAIN NoCall
  BY DEF CallTypeOK, NoCall
<1>3. call' = NoCall \/ (c.rest # <<>> /\ call' = [c EXCEPT !.pc = Head(c.rest), !.rest = Tail(c.rest)])
  BY <1>1 DEF Published, Proceed, Return
<1>4. CASE call' = NoCall
  BY <1>4 DEF NoCall
<1>5. CASE c.rest # <<>> /\ call' = [c EXCEPT !.pc = Head(c.rest), !.rest = Tail(c.rest)]
  <2>1. c.rest = <<"trace">>
    BY <1>2, <1>5 DEF CallTypeOK
  <2> HIDE DEF c
  <2> QED
    BY <1>2, <1>5, <2>1, Steps DEF NoCall
<1> QED
  BY <1>3, <1>4, <1>5

\* The trace is the last thing a call does.
LEMMA TraceEnds ==
  ASSUME CallTypeOK, Trace \/ HookReturns
  PROVE  call'.pc = "idle"
<1>1. CASE Trace
  BY <1>1 DEF Trace, Proceed, Return, CallTypeOK, NoCall
<1>2. CASE HookReturns
  <2>1. hooks[Len(hooks)] \in Suspended
    BY <1>2, LenProperties, ElementOfSeq, EmptySeq DEF HookReturns, CallTypeOK
  <2> DEFINE c == [NoCall EXCEPT !.rest = hooks[Len(hooks)].rest, !.say = hooks[Len(hooks)].say,
                                 !.status = hooks[Len(hooks)].status]
  <2>2. c.rest = <<>>
    BY <2>1 DEF Suspended, NoCall
  <2> QED
    BY <1>2, <2>2 DEF HookReturns, Proceed, Return, NoCall
<1> QED
  BY <1>1, <1>2

\* No step on a call gets past a check without it.
LEMMA StepBindings == TypeOK /\ Bindings /\ [Next]_vars => Bindings'
<1> SUFFICES ASSUME TypeOK, Bindings, [Next]_vars PROVE Bindings'
  OBVIOUS
<1> USE DEF TypeOK, Bindings, RunsOnStartedMachine
<1>a. CASE Configure \/ Open \/ Listen \/ ReceiveNothing \/ Close
  <2>1. UNCHANGED <<machine, rt, history>>
    BY <1>a DEF Configure, Open, Listen, ReceiveNothing, Close
  <2>2. \/ call'.pc = "idle"
        \/ call.pc \in {"configure", "open", "listen"} /\ call'.pc \in {"open", "listen"}
    BY <1>a, PortCallGoesOn
  <2> QED
    BY <2>1, <2>2
<1>b. CASE EnterInitial
  <2>1. rt.model # Null
    BY <1>b DEF EnterInitial, At
  <2>2. CASE MachineStartStatus = "Ok"
    <3>1. ~machine.started /\ machine.model # Null /\ machine'.started
          /\ machine'.model = machine.model
      BY <1>b, <2>2, StartFields DEF EnterInitial
    <3>2. rt' = [rt EXCEPT !.started = TRUE] /\ history' = [history EXCEPT !.entered = @ + 1]
          /\ call' = [call EXCEPT !.pc = "publish", !.say = SayState(machine.initial)]
      BY <1>b, <2>2 DEF EnterInitial
    <3>3. rt'.model # Null /\ history'.entered = history.entered + 1 /\ call'.pc = "publish"
      BY <2>1, <3>2 DEF MembersTypeOK, NewRuntime, HistoryTypeOK, NewHistory, CallTypeOK, NoCall
    <3>4. history.entered = 0
      BY <3>1 DEF HistoryTypeOK
    <3> QED
      BY <3>1, <3>3, <3>4
  <2>3. CASE MachineStartStatus # "Ok"
    BY <1>b, <2>3, StartFields DEF EnterInitial, NoCall
  <2> QED
    BY <2>2, <2>3
<1>c. CASE ReceiveUnrouted \/ ReceiveBadArguments \/ ReceiveTrigger
  <2>1. UNCHANGED <<machine, history>> /\ machine.started
    BY <1>c DEF ReceiveUnrouted, ReceiveBadArguments, ReceiveTrigger, Arrives, At
  <2>2. rt' \in {Unrouted(rt), BadArguments(rt), JustReceived(rt)}
    BY <1>c DEF ReceiveUnrouted, ReceiveBadArguments, ReceiveTrigger
  <2>3. rt'.model = rt.model /\ rt'.started = rt.started
    BY <2>2 DEF Unrouted, BadArguments, JustReceived, MembersTypeOK, NewRuntime
  <2>4. call'.pc \in {"publish", "dispatch"}
    BY <1>c DEF ReceiveUnrouted, ReceiveBadArguments, ReceiveTrigger, CallTypeOK, NoCall
  <2> QED
    BY <2>1, <2>3, <2>4
<1>d. CASE Dispatch
  <2>1. machine'.model = machine.model /\ machine'.started = machine.started /\ machine.started
    BY <1>d, FireFields DEF Dispatch, At
  <2>2. rt'.model = rt.model /\ rt'.started = rt.started /\ UNCHANGED history
    BY <1>d DEF Dispatch, MembersTypeOK, NewRuntime
  <2>3. call'.pc \in {"publish", "trace"}
    BY <1>d, Steps DEF Dispatch, Answer, CallTypeOK, NoCall
  <2> QED
    BY <2>1, <2>2, <2>3
<1>e. CASE PublishState \/ PublishError \/ PublishNothing \/ Trace \/ HookReturns
  <2>1. UNCHANGED <<machine, rt>>
    BY <1>e DEF PublishState, PublishError, PublishNothing, Trace, HookReturns
  <2>2. history'.entered = history.entered /\ history'.direct = history.direct
    BY <1>e DEF PublishState, PublishError, PublishNothing, Trace, HookReturns, HistoryTypeOK,
       NewHistory
  <2>3. call'.pc \in {"idle", "trace"}
    BY <1>e, PublishEnds, TraceEnds
  <2> QED
    BY <2>1, <2>2, <2>3
<1>f. CASE RuntimeInit
  <2>1. UNCHANGED <<machine, call, history>>
    BY <1>f DEF RuntimeInit
  <2>2. rt' = rt \/ (~rt.started /\ call.pc = "idle" /\ ~rt'.started)
    BY <1>f DEF RuntimeInit, RuntimeInitStatus, Idle, MembersTypeOK, NewRuntime
  <2> QED
    BY <2>1, <2>2
<1>g. CASE Start \/ Service \/ Stop
  <2>1. UNCHANGED <<machine, history>>
    BY <1>g DEF Start, Service, Stop
  <2>2. rt'.model = rt.model /\ (rt'.started => rt.started)
    BY <1>g DEF Start, Service, Stop, MembersTypeOK, NewRuntime
  <2>3. \/ call'.pc \in {"idle", "close"}
        \/ call'.pc = "configure" /\ rt.model # Null
        \/ call'.pc = "receive" /\ rt.started
    BY <1>g DEF Start, StartStatus, Service, Stop, Return, NoCall
  <2> QED
    BY <2>1, <2>2, <2>3
<1>h. CASE \E name \in Names, text \in Texts : FireByName(name, text)
  <2>1. UNCHANGED <<machine, rt>>
    BY <1>h DEF FireByName
  <2>2. history'.entered = history.entered /\ history'.direct = history.direct
    BY <1>h DEF FireByName, HistoryTypeOK, NewHistory
  <2>3. call'.pc = "idle" \/ (call'.pc = "dispatch" /\ rt.started)
    <3>1. PICK name, text : FireByName(name, text)
      BY <1>h
    <3>2. CASE call' = NoCall
      BY <3>2 DEF NoCall
    <3>3. CASE /\ rt.started
               /\ call' = [NoCall EXCEPT !.pc = "dispatch", !.trigger = FindTrigger(Routing, name),
                                         !.args = text.args, !.raised = "name"]
      BY <3>3 DEF NoCall
    <3> QED
      BY <3>1, <3>2, <3>3 DEF FireByName, Return
  <2> QED
    BY <2>1, <2>2, <2>3
<1>i. CASE \E m, s \in Object : InitMachine(m, s)
  <2>1. UNCHANGED <<rt, call, history>> /\ call.pc = "idle"
    BY <1>i DEF InitMachine, Idle
  <2>2. machine' = machine \/ (~machine.started /\ ~machine'.started /\ machine'.transitions = 0)
    BY <1>i, InitFields DEF InitMachine
  <2> QED
    BY <2>1, <2>2
<1>j. CASE StartMachine
  <2>1. UNCHANGED <<rt, call, history>> /\ call.pc = "idle"
    BY <1>j DEF StartMachine, Idle
  <2>2. machine' = machine \/ (machine.model # Null /\ machine'.model = machine.model
                                 /\ ~machine.started /\ machine'.started)
    BY <1>j, StartFields DEF StartMachine
  <2> QED
    BY <2>1, <2>2
<1>k. CASE \E trigger \in 0 .. kMaxTriggers - 1, text \in Texts : FireMachine(trigger, text.args)
  <2>1. UNCHANGED <<rt, call>> /\ call.pc = "idle"
    BY <1>k DEF FireMachine, Idle
  <2>2. /\ machine'.model = machine.model /\ machine'.started = machine.started
        /\ ~machine.started => result' # "Ok" /\ machine'.transitions = machine.transitions
    BY <1>k, FireFields DEF FireMachine
  <2>3. /\ history'.entered = history.entered
        /\ result' # "Ok" => history' = history
    BY <1>k DEF FireMachine, HistoryTypeOK, NewHistory
  <2> QED
    BY <2>1, <2>2, <2>3
<1>l. CASE \/ \E m \in Object, model \in LoadedModels : LoadMachine(m, model)
           \/ \E s \in Object, setup \in LoadedSetups : LoadSetup(s, setup)
           \/ WorldStep
  BY <1>l DEF LoadMachine, LoadSetup, WorldStep, EndInput, Deliver
<1>m. CASE UNCHANGED vars
  BY <1>m DEF vars
<1> QED
  BY <1>a, <1>b, <1>c, <1>d, <1>e, <1>f, <1>g, <1>h, <1>i, <1>j, <1>k, <1>l, <1>m
     DEF Next, RuntimeStep, ApplicationStep

\* Bindings is invariant, beside TypeOK.
LEMMA BindingsHold == Spec => [](TypeOK /\ Bindings)
<1>1. Init => TypeOK /\ Bindings
  BY InitTypeOK, InitBindings
<1>2. TypeOK /\ Bindings /\ [Next]_vars => (TypeOK /\ Bindings)'
  BY StepTypeOK, StepBindings
<1> QED
  BY <1>1, <1>2, PTL DEF Spec

\* The runtime runs only on a machine that was started, once, whoever started
\* it, and enters the initial state at most once in its life.
THEOREM RunsOnlyStarted == Spec => []RunsOnStartedMachine
<1>1. Bindings => RunsOnStartedMachine
  BY DEF Bindings
<1> QED
  BY <1>1, BindingsHold, PTL

-----------------------------------------------------------------------------
(* Accounting. *)

NothingCounted ==
  UNCHANGED <<rt.received, rt.unrouted, rt.rejected, machine.transitions,
              history.named, history.direct, history.errors>>

\* An error is counted when it is composed and published one step later, an
\* input when it is received and disposed of when it is dispatched: the terms
\* for what is under way make the two laws inductive beside Bindings.
Accounts == InputsAccounted /\ ErrorsAccounted

\* All counters start at zero.
LEMMA InitAccounts == Init => Accounts
BY DEF Init, Accounts, InputsAccounted, ErrorsAccounted, Publishing, At, NewMachine, NewRuntime,
   NewHistory, NoCall

\* Each action keeps both laws.
LEMMA StepAccounts == TypeOK /\ Bindings /\ Accounts /\ [Next]_vars => Accounts'
<1> SUFFICES ASSUME TypeOK, Bindings, Accounts, [Next]_vars PROVE Accounts'
  OBVIOUS
<1> USE DEF TypeOK
<1>0. /\ rt.received \in Nat /\ rt.unrouted \in Nat /\ rt.rejected \in Nat
      /\ machine.transitions \in Nat
      /\ history.named \in Nat /\ history.direct \in Nat /\ history.errors \in Nat
  BY DEF MembersTypeOK, MachineTypeOK, HistoryTypeOK
<1>1. ASSUME NothingCounted,
             call.pc \notin {"dispatch", "publish"}, call'.pc # "dispatch",
             call'.pc = "publish" => call'.say.kind # "error"
      PROVE  Accounts'
  BY <1>1 DEF NothingCounted, Accounts, InputsAccounted, ErrorsAccounted, Publishing, At
<1>2. ASSUME NothingCounted, UNCHANGED call
      PROVE  Accounts'
  BY <1>2 DEF NothingCounted, Accounts, InputsAccounted, ErrorsAccounted, Publishing, At
<1>a. CASE Configure \/ Open \/ Listen \/ ReceiveNothing \/ Close
  <2>1. NothingCounted
    BY <1>a DEF NothingCounted, Configure, Open, Listen, ReceiveNothing, Close
  <2>2. call.pc \notin {"dispatch", "publish"} /\ call'.pc \notin {"dispatch", "publish"}
    BY <1>a, PortCallGoesOn
  <2> QED
    BY <1>1, <2>1, <2>2
<1>b. CASE Trace \/ HookReturns
  <2>1. NothingCounted
    BY <1>b DEF NothingCounted, Trace, HookReturns
  <2>2. call.pc \notin {"dispatch", "publish"} /\ call'.pc = "idle"
    BY <1>b, TraceEnds DEF Trace, HookReturns, Idle, At
  <2> QED
    BY <1>1, <2>1, <2>2
<1>c. CASE Start \/ Service \/ Stop
  <2>1. NothingCounted
    BY <1>c DEF NothingCounted, Start, Service, Stop, MembersTypeOK, NewRuntime
  <2>2. call.pc \notin {"dispatch", "publish"} /\ call'.pc \notin {"dispatch", "publish"}
    BY <1>c DEF Start, Service, Stop, Idle, Return, NoCall
  <2> QED
    BY <1>1, <2>1, <2>2
<1>d. CASE EnterInitial
  <2>1. NothingCounted
    BY <1>d, StartFields DEF NothingCounted, EnterInitial, MembersTypeOK, NewRuntime, HistoryTypeOK,
       NewHistory
  <2>2. CASE call' = NoCall
    BY <1>1, <1>d, <2>1, <2>2 DEF EnterInitial, At, NoCall
  <2>3. CASE call' = [call EXCEPT !.pc = "publish", !.say = SayState(machine.initial)]
    <3>1. call'.pc = "publish" /\ call'.say.kind # "error"
      BY <2>3, SayKind DEF CallTypeOK, NoCall
    <3> QED
      BY <1>1, <1>d, <2>1, <3>1 DEF EnterInitial, At
  <2> QED
    BY <1>d, <2>2, <2>3 DEF EnterInitial
<1>e. CASE ReceiveUnrouted \/ ReceiveBadArguments \/ ReceiveTrigger
  <2>1. UNCHANGED <<machine, history>> /\ call.pc = "receive"
    BY <1>e DEF ReceiveUnrouted, ReceiveBadArguments, ReceiveTrigger, Arrives, At
  <2>2. CASE ReceiveUnrouted
    <3>1. /\ rt'.received = rt.received + 1 /\ rt'.unrouted = rt.unrouted + 1
          /\ rt'.rejected = rt.rejected
      BY <2>2 DEF ReceiveUnrouted, Unrouted, MembersTypeOK, NewRuntime
    <3>2. call'.pc = "publish" /\ call'.say.kind = "error"
      <4>1. PICK input : call' = [call EXCEPT !.pc = "publish", !.input = <<input>>,
                                              !.say = AnError("unknown channel")]
        BY <2>2 DEF ReceiveUnrouted
      <4> QED
        BY <4>1 DEF AnError, CallTypeOK, NoCall
    <3> QED
      BY <1>0, <2>1, <3>1, <3>2 DEF Accounts, InputsAccounted, ErrorsAccounted, Publishing, At
  <2>3. CASE ReceiveBadArguments
    <3>1. /\ rt'.received = rt.received + 1 /\ rt'.unrouted = rt.unrouted
          /\ rt'.rejected = rt.rejected + 1
      BY <2>3 DEF ReceiveBadArguments, BadArguments, MembersTypeOK, NewRuntime
    <3>2. call'.pc = "publish" /\ call'.say.kind = "error"
      <4>1. PICK input : call' = [call EXCEPT !.pc = "publish", !.input = <<input>>,
                                              !.say = AnError("bad arguments")]
        BY <2>3 DEF ReceiveBadArguments
      <4> QED
        BY <4>1 DEF AnError, CallTypeOK, NoCall
    <3> QED
      BY <1>0, <2>1, <3>1, <3>2 DEF Accounts, InputsAccounted, ErrorsAccounted, Publishing, At
  <2>4. CASE ReceiveTrigger
    <3>1. /\ rt'.received = rt.received + 1 /\ rt'.unrouted = rt.unrouted
          /\ rt'.rejected = rt.rejected
      BY <2>4 DEF ReceiveTrigger, JustReceived, MembersTypeOK, NewRuntime
    <3>2. call'.pc = "dispatch"
      BY <2>4 DEF ReceiveTrigger, CallTypeOK, NoCall
    <3> QED
      BY <1>0, <2>1, <3>1, <3>2 DEF Accounts, InputsAccounted, ErrorsAccounted, Publishing, At
  <2> QED
    BY <1>e, <2>2, <2>3, <2>4
<1>f. CASE \E name \in Names, text \in Texts : FireByName(name, text)
  <2>1. PICK name, text : FireByName(name, text)
    BY <1>f
  <2>2. UNCHANGED <<machine, rt>> /\ call.pc = "idle"
    BY <2>1 DEF FireByName, Idle
  <2>3. CASE call' = NoCall /\ history' = history
    BY <1>1, <2>2, <2>3 DEF NothingCounted, NoCall
  <2>4. CASE /\ call' = [NoCall EXCEPT !.pc = "dispatch", !.trigger = FindTrigger(Routing, name),
                                      !.args = text.args, !.raised = "name"]
             /\ history' = [history EXCEPT !.named = @ + 1]
    <3>1. call'.pc = "dispatch"
      BY <2>4 DEF NoCall
    <3>2. /\ history'.named = history.named + 1 /\ history'.direct = history.direct
          /\ history'.errors = history.errors
      BY <2>4 DEF HistoryTypeOK, NewHistory
    <3> QED
      BY <1>0, <2>2, <3>1, <3>2 DEF Accounts, InputsAccounted, ErrorsAccounted, Publishing, At
  <2> QED
    BY <2>1, <2>3, <2>4 DEF FireByName, Return
<1>g. CASE Dispatch
  <2>1. UNCHANGED history /\ call.pc = "dispatch"
    BY <1>g DEF Dispatch, At
  <2>2. /\ result' \in {"Ok", "NoTransition", "GuardRejected"}
        /\ result' = "Ok" => machine'.transitions = machine.transitions + 1
        /\ result' # "Ok" => machine'.transitions = machine.transitions
    BY <1>g, <2>1, FireFields DEF Dispatch, Bindings
  <2>3. CASE result' = "Ok"
    <3>1. PICK say : say.kind # "error" /\ Answer(say, AfterFire) /\ UNCHANGED rt
      BY <1>g, <2>3, SayKind DEF Dispatch, Refuses
    <3>2. call'.pc = "publish" /\ call'.say.kind # "error"
      BY <3>1, Steps DEF Answer, CallTypeOK, NoCall
    <3> QED
      BY <1>0, <2>1, <2>2, <2>3, <3>1, <3>2
         DEF Accounts, InputsAccounted, ErrorsAccounted, Publishing, At
  <2>4. CASE result' # "Ok"
    <3>1. Answer(AnError(result'), AfterFire) /\ rt' = [rt EXCEPT !.rejected = @ + 1]
      BY <1>g, <2>2, <2>4 DEF Dispatch, Refuses
    <3>2. call'.pc = "publish" /\ call'.say.kind = "error"
      BY <3>1, Steps DEF Answer, AnError, CallTypeOK, NoCall
    <3>3. /\ rt'.received = rt.received /\ rt'.unrouted = rt.unrouted
          /\ rt'.rejected = rt.rejected + 1
      BY <3>1 DEF MembersTypeOK, NewRuntime
    <3> QED
      BY <1>0, <2>1, <2>2, <2>4, <3>2, <3>3
         DEF Accounts, InputsAccounted, ErrorsAccounted, Publishing, At
  <2> QED
    BY <2>3, <2>4
<1>h. CASE PublishState \/ PublishError \/ PublishNothing
  <2>1. UNCHANGED <<machine, rt>> /\ call.pc = "publish"
    BY <1>h DEF PublishState, PublishError, PublishNothing, At
  <2>2. call'.pc \in {"idle", "trace"}
    BY <1>h, PublishEnds
  <2>3. /\ history'.named = history.named /\ history'.direct = history.direct
        /\ history'.errors = history.errors + Publishing("error")
    <3> USE DEF Publishing, At, HistoryTypeOK, NewHistory
    <3>1. CASE PublishState
      BY <1>0, <3>1 DEF PublishState
    <3>2. CASE PublishError
      BY <1>0, <3>2 DEF PublishError
    <3>3. CASE PublishNothing
      BY <1>0, <3>3 DEF PublishNothing
    <3> QED
      BY <1>h, <3>1, <3>2, <3>3
  <2> QED
    BY <1>0, <2>1, <2>2, <2>3 DEF Accounts, InputsAccounted, ErrorsAccounted, Publishing, At
<1>i. CASE \E trigger \in 0 .. kMaxTriggers - 1, text \in Texts : FireMachine(trigger, text.args)
  <2>1. UNCHANGED <<rt, call>> /\ call.pc = "idle"
    BY <1>i DEF FireMachine, Idle
  <2>2. /\ result' = "Ok" => machine'.transitions = machine.transitions + 1
        /\ result' # "Ok" => machine'.transitions = machine.transitions
    BY <1>i, FireFields DEF FireMachine
  <2>3. /\ history'.named = history.named /\ history'.errors = history.errors
        /\ result' = "Ok" => history'.direct = history.direct + 1
        /\ result' # "Ok" => history'.direct = history.direct
    BY <1>i DEF FireMachine, HistoryTypeOK, NewHistory
  <2> QED
    BY <1>0, <2>1, <2>2, <2>3 DEF Accounts, InputsAccounted, ErrorsAccounted, Publishing, At
<1>j. CASE \E m, s \in Object : InitMachine(m, s)
  <2>1. UNCHANGED <<rt, call, history>>
    BY <1>j DEF InitMachine
  <2>2. machine'.transitions = machine.transitions
    BY <1>j, InitFields DEF InitMachine, Bindings
  <2> QED
    BY <1>2, <2>1, <2>2 DEF NothingCounted
<1>k. CASE RuntimeInit \/ StartMachine
  <2>1. NothingCounted
    BY <1>k, StartFields DEF NothingCounted, RuntimeInit, StartMachine, MembersTypeOK, NewRuntime
  <2> QED
    BY <1>2, <1>k, <2>1 DEF RuntimeInit, StartMachine
<1>l. CASE \/ \E m \in Object, model \in LoadedModels : LoadMachine(m, model)
           \/ \E s \in Object, setup \in LoadedSetups : LoadSetup(s, setup)
           \/ WorldStep \/ UNCHANGED vars
  BY <1>2, <1>l DEF NothingCounted, LoadMachine, LoadSetup, WorldStep, EndInput, Deliver, vars
<1> QED
  BY <1>a, <1>b, <1>c, <1>d, <1>e, <1>f, <1>g, <1>h, <1>i, <1>j, <1>k, <1>l
     DEF Next, RuntimeStep, ApplicationStep

\* The laws are invariant.
LEMMA AccountsHold == Spec => []Accounts
<1>1. TypeOK /\ Bindings /\ Accounts /\ [Next]_vars => Accounts'
  BY StepAccounts
<1> QED
  BY <1>1, InitAccounts, BindingsHold, PTL DEF Spec

\* Every input and every trigger raised by name is unrouted, rejected or a
\* transition, whatever the application does to the machine beside.
THEOREM EveryInputAccounted == Spec => []InputsAccounted
<1>1. Accounts => InputsAccounted
  BY DEF Accounts
<1> QED
  BY <1>1, AccountsHold, PTL

\* Every refusal is published as one error, and nothing else is.
THEOREM EveryErrorAccounted == Spec => []ErrorsAccounted
<1>1. Accounts => ErrorsAccounted
  BY DEF Accounts
<1> QED
  BY <1>1, AccountsHold, PTL

-----------------------------------------------------------------------------
(* Views. *)

\* The two steps that read the views come before any call on the port.
LEMMA StepArgsRead == TypeOK /\ ArgsReadWhileLive /\ [Next]_vars => ArgsReadWhileLive'
<1> SUFFICES ASSUME TypeOK, ArgsReadWhileLive, [Next]_vars PROVE ArgsReadWhileLive'
  OBVIOUS
<1> USE DEF TypeOK
<1>1. ASSUME call'.pc \notin {"dispatch", "publish"}
      PROVE  ArgsReadWhileLive'
  BY <1>1 DEF ArgsReadWhileLive, At
<1>2. ASSUME UNCHANGED <<call, view>>
      PROVE  ArgsReadWhileLive'
  BY <1>2 DEF ArgsReadWhileLive, At
<1>3. ASSUME view' \in {"live", "caller"}
      PROVE  ArgsReadWhileLive'
  BY <1>3 DEF ArgsReadWhileLive
<1>4. ASSUME call'.pc = "publish", call'.say.name # "GuardRejected" \/ call'.say.kind # "error"
      PROVE  ArgsReadWhileLive'
  BY <1>4 DEF ArgsReadWhileLive, At, AnError
<1>a. CASE Configure \/ Open \/ Listen \/ ReceiveNothing \/ Close
  BY <1>1, <1>a, PortCallGoesOn
<1>b. CASE Trace \/ HookReturns
  BY <1>1, <1>b, TraceEnds
<1>c. CASE PublishState \/ PublishError \/ PublishNothing
  BY <1>1, <1>c, PublishEnds
<1>d. CASE Start \/ Service \/ Stop
  <2>1. call'.pc \notin {"dispatch", "publish"}
    BY <1>d DEF Start, Service, Stop, Return, NoCall
  <2> QED
    BY <1>1, <2>1
<1>e. CASE EnterInitial
  <2>1. CASE call' = NoCall
    BY <1>1, <2>1 DEF NoCall
  <2>2. CASE call' = [call EXCEPT !.pc = "publish", !.say = SayState(machine.initial)]
    <3>1. call'.pc = "publish" /\ call'.say.kind # "error"
      BY <2>2, SayKind DEF CallTypeOK, NoCall
    <3> QED
      BY <1>4, <3>1
  <2> QED
    BY <1>e, <2>1, <2>2 DEF EnterInitial
<1>f. CASE ReceiveUnrouted \/ ReceiveBadArguments
  <2>1. PICK input, what :
          /\ call' = [call EXCEPT !.pc = "publish", !.input = <<input>>, !.say = AnError(what)]
          /\ what \in {"unknown channel", "bad arguments"}
    BY <1>f DEF ReceiveUnrouted, ReceiveBadArguments
  <2>2. call'.pc = "publish" /\ call'.say.name = what
    BY <2>1 DEF AnError, CallTypeOK, NoCall
  <2> QED
    BY <1>4, <2>1, <2>2
<1>g. CASE ReceiveTrigger
  BY <1>3, <1>g DEF ReceiveTrigger
<1>h. CASE \E name \in Names, text \in Texts : FireByName(name, text)
  <2>1. call' = NoCall \/ view' = "caller"
    BY <1>h DEF FireByName, Return
  <2> QED
    BY <1>1, <1>3, <2>1 DEF NoCall
<1>i. CASE Dispatch
  <2>1. view' = view /\ view \in {"live", "caller"}
    BY <1>i DEF Dispatch, ArgsReadWhileLive
  <2> QED
    BY <1>3, <2>1
<1>j. CASE \/ RuntimeInit \/ StartMachine \/ WorldStep \/ UNCHANGED vars
           \/ \E m \in Object, model \in LoadedModels : LoadMachine(m, model)
           \/ \E s \in Object, setup \in LoadedSetups : LoadSetup(s, setup)
           \/ \E m, s \in Object : InitMachine(m, s)
           \/ \E trigger \in 0 .. kMaxTriggers - 1, text \in Texts : FireMachine(trigger, text.args)
  BY <1>2, <1>j DEF RuntimeInit, StartMachine, WorldStep, EndInput, Deliver, LoadMachine, LoadSetup,
     InitMachine, FireMachine, vars
<1> QED
  BY <1>a, <1>b, <1>c, <1>d, <1>e, <1>f, <1>g, <1>h, <1>i, <1>j
     DEF Next, RuntimeStep, ApplicationStep

\* The views service() parsed are read, by the guards and by the text of a
\* rejection, before anything calls the port again, also with trace hooks that
\* call into the runtime.
THEOREM ArgsLiveWhenRead == Spec => []ArgsReadWhileLive
<1>1. Init => ArgsReadWhileLive
  BY DEF Init, ArgsReadWhileLive, At, NoCall
<1> QED
  BY <1>1, TypeCorrect, StepArgsRead, PTL DEF Spec

-----------------------------------------------------------------------------
(* Silence. *)

\* What fire() answers Ok to ends in a state of the machine's model.
LEMMA FiredIsState ==
  ASSUME ApplicationTypeOK, MachineTypeOK, NEW trigger, NEW args, Fire(trigger, args),
         result' = "Ok"
  PROVE  HasState(Bound, FireEvent(trigger, args).to)
<1> DEFINE outcome == FireOutcome(trigger, args)
<1>1. outcome.decision = "Accepted" /\ FireEvent(trigger, args).to = outcome.target
  BY DEF Fire, FireEvent
<1>2. machine.model # Null /\ outcome = Evaluate(Bound, machine.current, trigger, args)
  BY <1>1 DEF FireOutcome
<1>3. Bound \in LoadedModels \cup {EmptyModel}
  BY <1>2 DEF Bound, ApplicationTypeOK, MachineTypeOK
<1> QED
  BY <1>1, <1>2, <1>3, AcceptedIsState

\* A state of the machine's model is published if the runtime's is the same.
LEMMA SaidIfShared ==
  ASSUME NEW s, HasState(Bound, s), rt.model = machine.model
  PROVE  SayState(s).kind = "state"
BY DEF SayState, AState, Bound, Routing

\* Only dispatch and a machine's start lead to a publication that is skipped.
LEMMA StepSilence == TypeOK /\ SilenceMeansMismatch /\ [Next]_vars => SilenceMeansMismatch'
<1> SUFFICES ASSUME TypeOK, SilenceMeansMismatch, [Next]_vars PROVE SilenceMeansMismatch'
  OBVIOUS
<1> USE DEF TypeOK
<1>1. ASSUME call'.pc # "publish" \/ call'.say.kind # "nothing"
      PROVE  SilenceMeansMismatch'
  BY <1>1 DEF SilenceMeansMismatch, At
<1>2. ASSUME NEW s, HasState(Bound, s), call'.say = SayState(s),
             rt'.model = rt.model, machine'.model = machine.model
      PROVE  SilenceMeansMismatch'
  BY <1>2, SaidIfShared DEF SilenceMeansMismatch, At
<1>a. CASE Configure \/ Open \/ Listen \/ ReceiveNothing \/ Close
  BY <1>1, <1>a, PortCallGoesOn
<1>b. CASE Trace \/ HookReturns
  BY <1>1, <1>b, TraceEnds
<1>c. CASE PublishState \/ PublishError \/ PublishNothing
  BY <1>1, <1>c, PublishEnds
<1>d. CASE Start \/ Service \/ Stop
  <2>1. call'.pc # "publish"
    BY <1>d DEF Start, Service, Stop, Return, NoCall
  <2> QED
    BY <1>1, <2>1
<1>e. CASE EnterInitial
  <2>1. CASE call' = NoCall
    BY <1>1, <2>1 DEF NoCall
  <2>2. CASE MachineStartStatus = "Ok"
    <3>1. HasState(Bound, machine.initial) /\ machine'.model = machine.model
      BY <1>e, <2>2, StartFields DEF EnterInitial, MachineStartStatus
    <3>2. /\ rt' = [rt EXCEPT !.started = TRUE]
          /\ call' = [call EXCEPT !.pc = "publish", !.say = SayState(machine.initial)]
      BY <1>e, <2>2 DEF EnterInitial
    <3>3. rt'.model = rt.model
      BY <3>2 DEF MembersTypeOK, NewRuntime
    <3>4. call'.say = SayState(machine.initial)
      BY <3>2 DEF CallTypeOK, NoCall
    <3> QED
      BY <1>2, <3>1, <3>3, <3>4
  <2> QED
    BY <1>e, <2>1, <2>2 DEF EnterInitial
<1>f. CASE ReceiveUnrouted \/ ReceiveBadArguments
  <2>1. PICK input, what :
          call' = [call EXCEPT !.pc = "publish", !.input = <<input>>, !.say = AnError(what)]
    BY <1>f DEF ReceiveUnrouted, ReceiveBadArguments
  <2>2. call'.say.kind = "error"
    BY <2>1 DEF AnError, CallTypeOK, NoCall
  <2> QED
    BY <1>1, <2>2
<1>g. CASE ReceiveTrigger
  <2>1. PICK input :
          call' = [call EXCEPT !.pc = "dispatch", !.input = <<input>>,
                               !.trigger = FindTriggerForChannel(Routing, input.channel),
                               !.args = input.text.args]
    BY <1>g DEF ReceiveTrigger
  <2>2. call'.pc = "dispatch"
    BY <2>1 DEF CallTypeOK, NoCall
  <2> QED
    BY <1>1, <2>2
<1>h. CASE \E name \in Names, text \in Texts : FireByName(name, text)
  <2>1. PICK name, text : FireByName(name, text)
    BY <1>h
  <2>2. CASE call' = NoCall
    BY <1>1, <2>2 DEF NoCall
  <2>3. CASE call' = [NoCall EXCEPT !.pc = "dispatch", !.trigger = FindTrigger(Routing, name),
                                    !.args = text.args, !.raised = "name"]
    BY <1>1, <2>3 DEF NoCall
  <2> QED
    BY <2>1, <2>2, <2>3 DEF FireByName, Return
<1>i. CASE Dispatch
  <2>1. machine'.model = machine.model
    BY <1>i, FireFields DEF Dispatch
  <2>2. CASE result' = "Ok"
    <3> DEFINE to == FireEvent(call.trigger, call.args).to
    <3>1. Answer(SayState(to), AfterFire) /\ UNCHANGED rt
      BY <1>i, <2>2 DEF Dispatch, Refuses
    <3>2. HasState(Bound, to)
      BY <1>i, <2>2, FiredIsState DEF Dispatch
    <3> HIDE DEF to
    <3>3. call'.say = SayState(to)
      BY <3>1 DEF Answer, CallTypeOK, NoCall
    <3> QED
      BY <1>2, <2>1, <3>1, <3>2, <3>3
  <2>3. CASE Refuses(result')
    <3>1. Answer(AnError(result'), AfterFire)
      BY <1>i, <2>3 DEF Dispatch, Refuses
    <3>2. call'.say.kind = "error"
      BY <3>1 DEF Answer, AnError, CallTypeOK, NoCall
    <3> QED
      BY <1>1, <3>2
  <2>4. CASE result' # "Ok" /\ ~Refuses(result')
    <3>1. Answer(Nothing, <<"trace">>)
      BY <1>i, <2>4 DEF Dispatch
    <3>2. call'.pc = "trace"
      BY <3>1, Steps DEF Answer, CallTypeOK, NoCall
    <3> QED
      BY <1>1, <3>2
  <2> QED
    BY <2>2, <2>3, <2>4
<1>j. CASE \/ RuntimeInit \/ StartMachine
           \/ \E m \in Object, model \in LoadedModels : LoadMachine(m, model)
           \/ \E s \in Object, setup \in LoadedSetups : LoadSetup(s, setup)
           \/ \E m, s \in Object : InitMachine(m, s)
           \/ \E trigger \in 0 .. kMaxTriggers - 1, text \in Texts : FireMachine(trigger, text.args)
  <2>1. call' = call /\ call.pc = "idle"
    BY <1>j DEF RuntimeInit, StartMachine, LoadMachine, LoadSetup, InitMachine, FireMachine, Idle
  <2> QED
    BY <1>1, <2>1
<1>k. CASE WorldStep \/ UNCHANGED vars
  BY <1>k DEF WorldStep, EndInput, Deliver, vars, SilenceMeansMismatch, At
<1> QED
  BY <1>a, <1>b, <1>c, <1>d, <1>e, <1>f, <1>g, <1>h, <1>i, <1>j, <1>k
     DEF Next, RuntimeStep, ApplicationStep

\* A transition is left unpublished only under a mismatched pair: reloading the
\* files of a matched one, at any time, never does it.
THEOREM SilentOnlyIfMismatched == Spec => []SilenceMeansMismatch
<1>1. Init => SilenceMeansMismatch
  BY DEF Init, SilenceMeansMismatch, At, NoCall
<1> QED
  BY <1>1, TypeCorrect, StepSilence, PTL DEF Spec
=============================================================================
