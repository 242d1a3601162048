------------------------------- MODULE Runtime -------------------------------
(***************************************************************************)
(* fms::Runtime driving one StateMachine through one IPort, and the        *)
(* application that owns all of them.                                      *)
(*                                                                         *)
(* There is one thread.  A call of the runtime is a run of steps, one per  *)
(* call it makes on the port, so that what the port sees between two of    *)
(* them, and what a trace hook does in the middle of service(), are        *)
(* states of the model.  The application acts only between calls and from  *)
(* inside the trace hook; input arrives at the port at any time.           *)
(***************************************************************************)
EXTENDS StateMachine

CONSTANTS
  Conduct,      \* which of Conducts this application and its port engage in
  LoadedModels, \* the models a machine file may load
  LoadedSetups, \* the setups a setup file may load
  Inputs,       \* what may arrive: [channel, text], text = [status, args]
  Names,        \* the trigger names fire_by_name is called with
  MaxInputs,    \* bound: inputs the port ever delivers
  MaxFires,     \* bound: fires after which the application fires no more itself
  InboxDepth,   \* bound: inputs waiting in the port (MemoryPort's QueueDepth)
  MaxHooks      \* bound: trace hooks that call the runtime, inside one another

\* "reload": a file is loaded again into an object that is in use;
\* "rebind": the machine is initialised again after the runtime was;
\* "direct": the application starts or fires the machine itself;
\* "hook":   a trace hook is set, and it calls the runtime;
\* "fault":  any call on the port may fail.
Conducts == {"reload", "rebind", "direct", "hook", "fault"}

ASSUME ConductAssumption == Conduct \subseteq Conducts
\* parse_machine ends with validate(); a load that fails leaves its target empty.
\* That what it built is so is NothingHalfLoaded of LoaderProperties.
ASSUME LoadedAssumption ==
  \A m \in LoadedModels : /\ WithinCapacities(m) /\ Indexed(m)
                          /\ m = EmptyModel \/ Validate(m) = "Ok"
ASSUME BoundAssumption ==
  MaxInputs \in Nat /\ MaxFires \in Nat /\ InboxDepth \in Nat /\ MaxHooks \in Nat

VARIABLES
  rt,           \* the Runtime's members
  call,         \* the runtime call in progress, and where it is
  hooks,        \* the calls that are suspended in a trace hook
  port,         \* the port: open, what it listens on, what waits in it
  view,         \* what the views in args_ refer to
  history       \* what was said to the port, and what was fired past it

vars == <<models, setups, machine, result, rt, call, hooks, port, view, history>>

NewRuntime == [model |-> Null, setup |-> Null, started |-> FALSE,
               received |-> 0, unrouted |-> 0, rejected |-> 0]

\* What is to be published next: a state, an error, or nothing at all.
Nothing       == [kind |-> "nothing", name |-> NoName]
AnError(what) == [kind |-> "error",   name |-> what]
AState(name)  == [kind |-> "state",   name |-> name]

\* todo: the channels start() has yet to announce; trigger and args: what is to
\* be dispatched; raised: by the port, or by name: then dispatch's status is kept;
\* say: what is to be published; rest: the steps left after this one; status:
\* what the call returns then; input: what service() received, until answered.
NoCall == [pc |-> "idle", todo |-> {}, trigger |-> kNoTrigger, args |-> NoArgs,
           input |-> <<>>, raised |-> "port", say |-> Nothing, rest |-> <<>>,
           status |-> "Ok"]

NewPort == [open |-> FALSE, listening |-> <<>>, inbox |-> <<>>, ended |-> FALSE]

\* states and errors: publications made; last: the last state published;
\* entered: how often start() entered the initial state; named: dispatches by
\* fire_by_name; direct: transitions fired past the runtime; behind: one was,
\* after the last state was published.
NewHistory == [states |-> 0, errors |-> 0, last |-> NoName, entered |-> 0,
               named |-> 0, direct |-> 0, behind |-> FALSE]

EmptySetup == [initial |-> NoName]

Init ==
  /\ models = [o \in Object |-> EmptyModel]
  /\ setups = [o \in Object |-> EmptySetup]
  /\ machine = NewMachine /\ result = "Ok"
  /\ rt = NewRuntime /\ call = NoCall /\ hooks = <<>>
  /\ port = NewPort /\ view = "none" /\ history = NewHistory

Idle   == call.pc = "idle"
At(pc) == call.pc = pc

\* The call in progress returns `status` to the application.
Return(status) == result' = status /\ call' = NoCall

\* `c` goes on to its next step, or returns if there is none.
Proceed(c) ==
  IF c.rest = <<>>
  THEN Return(c.status)
  ELSE call' = [c EXCEPT !.pc = Head(c.rest), !.rest = Tail(c.rest)] /\ UNCHANGED result

Routing == models[rt.model]

-----------------------------------------------------------------------------
(* Calls on the port.  port.hpp: the views receive() handed out are valid   *)
(* until the next call on the port.                                         *)

PortAnswers == {"Ok"} \cup IF "fault" \in Conduct THEN {"PortError"} ELSE {}

CallsPort == view' = IF view = "live" THEN "stale" ELSE view

\* What a port that is not open answers.
OpenPortAnswers == IF port.open THEN PortAnswers ELSE {"NotOpen"}

-----------------------------------------------------------------------------
(* Runtime::init *)

RuntimeInitStatus ==
  IF rt.started THEN "AlreadyInitialised"
  ELSE IF machine.model = Null THEN "NotInitialised"
  ELSE "Ok"

RuntimeInit ==
  /\ Idle
  /\ result' = RuntimeInitStatus
  /\ rt' = IF RuntimeInitStatus = "Ok"
           THEN [rt EXCEPT !.model = machine.model, !.setup = machine.setup]
           ELSE rt
  /\ UNCHANGED <<models, setups, machine, call, hooks, port, view, history>>

(* Runtime::start: configure, open, listen on every channel, start the      *)
(* machine, publish.  The first failure is returned, with the steps before  *)
(* it done.                                                                 *)

StartStatus ==
  IF rt.model = Null THEN "NotInitialised"
  ELSE IF rt.started THEN "AlreadyInitialised"
  ELSE "Ok"

Start ==
  /\ Idle
  /\ IF StartStatus = "Ok"
     THEN call' = [NoCall EXCEPT !.pc = "configure"] /\ UNCHANGED result
     ELSE Return(StartStatus)
  /\ UNCHANGED <<models, setups, machine, rt, hooks, port, view, history>>

Configure ==
  /\ At("configure")
  /\ \E answer \in PortAnswers :
       IF answer = "Ok"
       THEN call' = [call EXCEPT !.pc = "open"] /\ UNCHANGED result
       ELSE Return(answer)
  /\ CallsPort
  /\ UNCHANGED <<models, setups, machine, rt, hooks, port, history>>

\* A mistake ChannelsToAnnounce must not make: a channel that defaults to the
\* trigger's name is forgotten.
ExplicitChannelsOnly(m) ==
  {m.triggers[t].channel : t \in {u \in DOMAIN m.triggers :
                                    m.triggers[u].channel # m.triggers[u].name}}

ChannelsToAnnounce(m) == DOMAIN m.channelIndex

Open ==
  /\ At("open")
  /\ \E answer \in PortAnswers :
       IF answer = "Ok"
       THEN /\ port' = [port EXCEPT !.open = TRUE]
            /\ call' = [call EXCEPT !.pc = "listen", !.todo = ChannelsToAnnounce(Routing)]
            /\ UNCHANGED result
       ELSE Return(answer) /\ UNCHANGED port
  /\ CallsPort
  /\ UNCHANGED <<models, setups, machine, rt, hooks, history>>

\* A mistake ListenAnswers must not make: the capacity is not checked.
UncheckedListenAnswers == OpenPortAnswers

\* The port keeps what it was told to listen on until it is destroyed, and has
\* room for kMaxTriggers of them.
ListenAnswers ==
  IF port.open /\ Len(port.listening) >= kMaxTriggers
  THEN {"CapacityExceeded"} ELSE OpenPortAnswers

Listen ==
  /\ At("listen")
  /\ \E channel \in call.todo, answer \in ListenAnswers :
       IF answer = "Ok"
       THEN /\ port' = [port EXCEPT !.listening = Append(@, channel)]
            /\ call' = [call EXCEPT !.todo = @ \ {channel}]
            /\ UNCHANGED result
       ELSE Return(answer) /\ UNCHANGED port
  /\ CallsPort
  /\ UNCHANGED <<models, setups, machine, rt, hooks, history>>

\* Mistakes SayState must not make: the state that was left is published; a
\* transition that stays where it is is not published.
PublishFormerState(s) ==
  IF HasState(Routing, machine.current) THEN AState(StateName(Routing, machine.current)) ELSE Nothing
PublishOnlyChanges(s) ==
  IF HasState(Routing, s) /\ s # machine.current THEN AState(StateName(Routing, s)) ELSE Nothing

\* Runtime::publish_state says nothing of a state the runtime's model has not.
SayState(s) == IF HasState(Routing, s) THEN AState(StateName(Routing, s)) ELSE Nothing

EnterInitial ==
  /\ At("listen") /\ call.todo = {}
  /\ MachineStart
  /\ IF MachineStartStatus = "Ok"
     THEN /\ rt' = [rt EXCEPT !.started = TRUE]
          /\ call' = [call EXCEPT !.pc = "publish", !.say = SayState(machine.initial)]
          /\ history' = [history EXCEPT !.entered = @ + 1]
     ELSE call' = NoCall /\ UNCHANGED <<rt, history>>
  /\ UNCHANGED <<hooks, port, view>>

(* Runtime::service *)

Service ==
  /\ Idle /\ Len(hooks) <= MaxHooks
  /\ IF rt.started
     THEN call' = [NoCall EXCEPT !.pc = "receive"] /\ UNCHANGED result
     ELSE Return("NotInitialised")
  /\ UNCHANGED <<models, setups, machine, rt, hooks, port, view, history>>

\* What receive() may answer when it hands out no input.
NothingReceived ==
  (IF "fault" \in Conduct THEN {"PortError"} ELSE {}) \cup
  (IF ~port.open THEN {"NotOpen"}
   ELSE IF port.inbox # <<>> THEN {}
   ELSE IF port.ended THEN {"EndOfInput"} ELSE {"Timeout"})

\* A mistake ServiceStatus must not make: the end of the input is idle, too.
EndIsIdleToo(received) == IF received \in {"Timeout", "EndOfInput"} THEN "Ok" ELSE received

\* Nothing arrived in time: idle, not an error.
ServiceStatus(received) == IF received = "Timeout" THEN "Ok" ELSE received

ReceiveNothing ==
  /\ At("receive")
  /\ \E received \in NothingReceived : Return(ServiceStatus(received))
  /\ CallsPort
  /\ UNCHANGED <<models, setups, machine, rt, hooks, port, history>>

Arrives(input) ==
  /\ At("receive") /\ port.open /\ port.inbox # <<>>
  /\ input = Head(port.inbox)
  /\ port' = [port EXCEPT !.inbox = Tail(@)]

Unrouted(r)     == [r EXCEPT !.received = @ + 1, !.unrouted = @ + 1]
JustReceived(r) == [r EXCEPT !.received = @ + 1]
BadArguments(r) == [r EXCEPT !.received = @ + 1, !.rejected = @ + 1]

ReceiveUnrouted ==
  \E input \in Inputs :
    /\ Arrives(input)
    /\ FindTriggerForChannel(Routing, input.channel) = kNoTrigger
    /\ rt' = Unrouted(rt)
    /\ call' = [call EXCEPT !.pc = "publish", !.input = <<input>>,
                            !.say = AnError("unknown channel")]
    /\ CallsPort
    /\ UNCHANGED <<models, setups, machine, result, hooks, history>>

\* args_.parse failed, and cleared args_.
ReceiveBadArguments ==
  \E input \in Inputs :
    /\ Arrives(input)
    /\ FindTriggerForChannel(Routing, input.channel) # kNoTrigger
    /\ input.text.status # "Ok"
    /\ rt' = BadArguments(rt)
    /\ call' = [call EXCEPT !.pc = "publish", !.input = <<input>>,
                            !.say = AnError("bad arguments")]
    /\ view' = "none"
    /\ UNCHANGED <<models, setups, machine, result, hooks, history>>

ReceiveTrigger ==
  \E input \in Inputs :
    LET trigger == FindTriggerForChannel(Routing, input.channel) IN
    /\ Arrives(input)
    /\ trigger # kNoTrigger
    /\ input.text.status = "Ok"
    /\ rt' = JustReceived(rt)
    /\ call' = [call EXCEPT !.pc = "dispatch", !.input = <<input>>,
                            !.trigger = trigger, !.args = input.text.args]
    /\ view' = "live"
    /\ UNCHANGED <<models, setups, machine, result, hooks, history>>

(* Runtime::fire_by_name *)

FireByName(name, text) ==
  /\ Idle /\ Len(hooks) <= MaxHooks
  /\ machine.transitions + machine.rejections < MaxFires
  /\ LET trigger == FindTrigger(Routing, name) IN
     \/ /\ ~rt.started
        /\ Return("NotInitialised") /\ UNCHANGED <<view, history>>
     \/ /\ rt.started /\ trigger = kNoTrigger
        /\ Return("UnknownTrigger") /\ UNCHANGED <<view, history>>
     \/ /\ rt.started /\ trigger # kNoTrigger /\ text.status # "Ok"
        /\ Return(text.status) /\ view' = "none" /\ UNCHANGED history
     \/ /\ rt.started /\ trigger # kNoTrigger /\ text.status = "Ok"
        /\ call' = [NoCall EXCEPT !.pc = "dispatch", !.trigger = trigger,
                                  !.args = text.args, !.raised = "name"]
        /\ view' = "caller"
        /\ history' = [history EXCEPT !.named = @ + 1]
        /\ UNCHANGED result
  /\ UNCHANGED <<models, setups, machine, rt, hooks, port>>

(* Runtime::dispatch: fire, then publish what came of it, then trace. *)

\* A mistake AfterFire must not make: the hook runs before the publication.
TraceThenPublish == <<"trace", "publish">>

AfterFire == <<"publish", "trace">>

\* A mistake Refuses must not make: a guard's rejection is not counted.
OnlyUnlisted(status) == status = "NoTransition"

Refuses(status) == status \in {"NoTransition", "GuardRejected"}

\* dispatch goes on to the first of `steps`; service() drops its status.
Answer(say, steps) ==
  call' = [call EXCEPT !.pc = Head(steps), !.rest = Tail(steps), !.say = say,
                       !.status = IF call.raised = "name" THEN result' ELSE "Ok"]

Dispatch ==
  /\ At("dispatch")
  /\ Fire(call.trigger, call.args)
  /\ \/ /\ result' = "Ok"
        /\ Answer(SayState(FireEvent(call.trigger, call.args).to), AfterFire)
        /\ UNCHANGED rt
     \/ /\ Refuses(result')
        /\ Answer(AnError(result'), AfterFire)
        /\ rt' = [rt EXCEPT !.rejected = @ + 1]
     \/ /\ result' # "Ok" /\ ~Refuses(result')
        /\ Answer(Nothing, <<"trace">>)
        /\ UNCHANGED rt
  /\ UNCHANGED <<hooks, port, view, history>>

\* The status of a publication is ignored: it is itself the report.
Published == Proceed([call EXCEPT !.input = <<>>, !.say = Nothing])

PublishState ==
  /\ At("publish") /\ call.say.kind = "state"
  /\ history' = [history EXCEPT !.states = @ + 1, !.last = call.say.name, !.behind = FALSE]
  /\ CallsPort /\ Published
  /\ UNCHANGED <<models, setups, machine, rt, hooks, port>>

PublishError ==
  /\ At("publish") /\ call.say.kind = "error"
  /\ history' = [history EXCEPT !.errors = @ + 1]
  /\ CallsPort /\ Published
  /\ UNCHANGED <<models, setups, machine, rt, hooks, port>>

\* The runtime's model does not have the state: no call on the port.
PublishNothing ==
  /\ At("publish") /\ call.say.kind = "nothing"
  /\ Published
  /\ UNCHANGED <<models, setups, machine, rt, hooks, port, view, history>>

\* The hook runs inside dispatch; until it returns, the application may call in.
Trace ==
  /\ At("trace")
  /\ IF "hook" \in Conduct
     THEN /\ hooks' = Append(hooks, [rest |-> call.rest, say |-> call.say,
                                      status |-> call.status])
          /\ call' = NoCall
          /\ UNCHANGED result
     ELSE Proceed(call) /\ UNCHANGED hooks
  /\ UNCHANGED <<models, setups, machine, rt, port, view, history>>

HookReturns ==
  /\ Idle /\ hooks # <<>>
  /\ LET suspended == hooks[Len(hooks)] IN
     Proceed([NoCall EXCEPT !.rest = suspended.rest, !.say = suspended.say,
                            !.status = suspended.status])
  /\ hooks' = SubSeq(hooks, 1, Len(hooks) - 1)
  /\ UNCHANGED <<models, setups, machine, rt, port, view, history>>

(* Runtime::stop.  The machine stays started. *)

Stop ==
  /\ Idle
  /\ IF rt.model = Null
     THEN Return("NotInitialised") /\ UNCHANGED rt
     ELSE /\ rt' = [rt EXCEPT !.started = FALSE]
          /\ call' = [NoCall EXCEPT !.pc = "close"]
          /\ UNCHANGED result
  /\ UNCHANGED <<models, setups, machine, hooks, port, view, history>>

Close ==
  /\ At("close")
  /\ \E answer \in PortAnswers :
       /\ Return(answer)
       /\ port' = IF answer = "Ok" THEN [port EXCEPT !.open = FALSE] ELSE port
  /\ CallsPort
  /\ UNCHANGED <<models, setups, machine, rt, hooks, history>>

-----------------------------------------------------------------------------
(* What the application does beside the runtime: it loads files, binds and, *)
(* if it likes, starts and fires the machine itself.  A load that fails     *)
(* leaves its target empty.                                                 *)

LoadMachine(m, model) ==
  /\ Idle /\ (models[m] = EmptyModel \/ "reload" \in Conduct)
  /\ models' = [models EXCEPT ![m] = model]
  /\ UNCHANGED <<setups, machine, result, rt, call, hooks, port, view, history>>

LoadSetup(s, setup) ==
  /\ Idle /\ (setups[s] = EmptySetup \/ "reload" \in Conduct)
  /\ setups' = [setups EXCEPT ![s] = setup]
  /\ UNCHANGED <<models, machine, result, rt, call, hooks, port, view, history>>

InitMachine(m, s) ==
  /\ Idle /\ (rt.model = Null \/ "rebind" \in Conduct)
  /\ MachineInit(m, s)
  /\ UNCHANGED <<rt, call, hooks, port, view, history>>

StartMachine ==
  /\ Idle /\ "direct" \in Conduct
  /\ MachineStart
  /\ UNCHANGED <<rt, call, hooks, port, view, history>>

\* A transition the runtime does not hear of: what was published is behind.
FireMachine(trigger, args) ==
  /\ Idle /\ "direct" \in Conduct
  /\ machine.transitions + machine.rejections < MaxFires
  /\ Fire(trigger, args)
  /\ history' = IF result' = "Ok"
                THEN [history EXCEPT !.direct = @ + 1, !.behind = TRUE] ELSE history
  /\ UNCHANGED <<rt, call, hooks, port, view>>

(* The other end of the port. *)

Deliver(input) ==
  /\ ~port.ended /\ Len(port.inbox) < InboxDepth
  /\ rt.received + Len(port.inbox) < MaxInputs
  /\ port' = [port EXCEPT !.inbox = Append(@, input)]
  /\ UNCHANGED <<models, setups, machine, result, rt, call, hooks, view, history>>

EndInput ==
  /\ ~port.ended
  /\ port' = [port EXCEPT !.ended = TRUE]
  /\ UNCHANGED <<models, setups, machine, result, rt, call, hooks, view, history>>

-----------------------------------------------------------------------------

Texts == {input.text : input \in Inputs}

\* One step of the runtime call in progress.
RuntimeStep ==
  \/ Configure \/ Open \/ Listen \/ EnterInitial
  \/ ReceiveNothing \/ ReceiveUnrouted \/ ReceiveBadArguments \/ ReceiveTrigger
  \/ Dispatch \/ PublishState \/ PublishError \/ PublishNothing
  \/ Trace \/ Close

ApplicationStep ==
  \/ RuntimeInit \/ Start \/ Service \/ Stop
  \/ \E name \in Names, text \in Texts : FireByName(name, text)
  \/ \E m \in Object, model \in LoadedModels : LoadMachine(m, model)
  \/ \E s \in Object, setup \in LoadedSetups : LoadSetup(s, setup)
  \/ \E m, s \in Object : InitMachine(m, s)
  \/ StartMachine
  \/ \E trigger \in 0 .. kMaxTriggers - 1, text \in Texts : FireMachine(trigger, text.args)

WorldStep == EndInput \/ \E input \in Inputs : Deliver(input)

Next == RuntimeStep \/ HookReturns \/ ApplicationStep \/ WorldStep

Spec == Init /\ [][Next]_vars

\* Nothing suspends the thread inside a call; a hook returns; and the main loop
\* calls service() again after it returned.  Stop, or a call of something else,
\* may come between two rounds of that loop.
FairSpec ==
  /\ Spec
  /\ WF_vars(RuntimeStep)
  /\ SF_vars(HookReturns)
  /\ SF_vars(hooks = <<>> /\ Service)
=============================================================================
