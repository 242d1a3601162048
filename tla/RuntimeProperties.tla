-------------------------- MODULE RuntimeProperties --------------------------
(***************************************************************************)
(* What makes Runtime correct.  Each property says which application it    *)
(* assumes by the Conduct its run gives; the ones that need no assumption  *)
(* are the ones RuntimeProofs proves.                                      *)
(***************************************************************************)
EXTENDS Runtime

CONSTANTS Initial, Moves, Refused   \* the table Automaton expects: where it starts,
                                    \* and the answers by state and input

PCs == {"idle", "configure", "open", "listen", "receive", "dispatch", "publish",
        "trace", "close"}

Statuses == {"Ok", "NotInitialised", "AlreadyInitialised", "SchemaError", "UnknownState",
             "UnknownTrigger", "NoTransition", "GuardRejected", "NotOpen", "EndOfInput",
             "CapacityExceeded", "PortError"}

\* The channels the port was told to listen on.
Heard == {port.listening[i] : i \in DOMAIN port.listening}

ApplicationTypeOK ==
  /\ models \in [Object -> LoadedModels \cup {EmptyModel}]
  /\ setups \in [Object -> LoadedSetups \cup {EmptySetup}]

MachineTypeOK ==
  /\ DOMAIN machine = DOMAIN NewMachine
  /\ machine.model \in Object \cup {Null} /\ machine.setup \in Object \cup {Null}
  /\ machine.started \in BOOLEAN
  /\ machine.transitions \in Nat /\ machine.rejections \in Nat

MembersTypeOK ==
  /\ DOMAIN rt = DOMAIN NewRuntime
  /\ rt.model \in Object \cup {Null} /\ rt.setup \in Object \cup {Null}
  /\ rt.started \in BOOLEAN
  /\ rt.received \in Nat /\ rt.unrouted \in Nat /\ rt.rejected \in Nat

\* A call is suspended nowhere but in a trace hook, with all its work done.
Suspended == [rest : {<<>>}, say : {Nothing}, status : Statuses]

CallTypeOK ==
  /\ DOMAIN call = DOMAIN NoCall
  /\ call.pc \in PCs /\ call.raised \in {"port", "name"}
  /\ call.say.kind \in {"nothing", "error", "state"}
  /\ call.rest \in {<<>>, <<"trace">>} /\ call.status \in Statuses
  /\ At("trace") => call.rest = <<>> /\ call.say = Nothing
  /\ hooks \in Seq(Suspended)

PortTypeOK ==
  /\ DOMAIN port = DOMAIN NewPort
  /\ port.open \in BOOLEAN /\ port.ended \in BOOLEAN
  /\ port.inbox \in Seq(Inputs)
  /\ port.listening \in Seq(Heard) /\ Len(port.listening) <= kMaxTriggers

ViewTypeOK == view \in {"none", "live", "stale", "caller"}

HistoryTypeOK ==
  /\ DOMAIN history = DOMAIN NewHistory
  /\ history.states \in Nat /\ history.errors \in Nat /\ history.entered \in Nat
  /\ history.named \in Nat /\ history.direct \in Nat /\ history.behind \in BOOLEAN

\* What every variable holds: the members of each object and their types, a
\* port that never holds more channels than it has room for, and calls that
\* are suspended nowhere but in a trace hook.
TypeOK ==
  /\ ApplicationTypeOK /\ MachineTypeOK /\ MembersTypeOK
  /\ CallTypeOK /\ PortTypeOK /\ ViewTypeOK /\ HistoryTypeOK

-----------------------------------------------------------------------------
(* Accounting.  The four counters live in two objects and are bumped in     *)
(* five places; fire_by_name, a direct fire and a trace hook all move some  *)
(* of them and not others.                                                  *)

Publishing(kind) == IF At("publish") /\ call.say.kind = kind THEN 1 ELSE 0

\* Every input the port delivered and every trigger raised by name ended up in
\* exactly one of: unrouted, rejected, or a transition of the machine.  (The
\* counters are uint32: past 2^32 inputs the law holds modulo 2^32.)
InputsAccounted ==
  rt.received + history.named =
    rt.unrouted + rt.rejected + (machine.transitions - history.direct)
      + IF At("dispatch") THEN 1 ELSE 0

\* Every input that was not taken was answered with exactly one error, and no
\* error was published for anything else.
ErrorsAccounted ==
  rt.unrouted + rt.rejected = history.errors + Publishing("error")

\* Every transition the runtime made was published exactly once, after the one
\* publication of the initial state.  Needs the runtime's model to be the
\* machine's: a state it does not have would be skipped in silence.
StatesAccounted ==
  history.entered + machine.transitions - history.direct
    = history.states + Publishing("state")

\* Between calls, the last state published is the state the machine is in,
\* unless the application fired the machine past the runtime since.  A rejected
\* input, a failed start of an already started machine and a stop leave both.
PublishedStateIsCurrent ==
  history.entered > 0 /\ ~At("publish") /\ ~history.behind => history.last = CurrentName

\* The views in args_ point into the port's buffer, which port.hpp guarantees
\* only until the next call on the port.  Guards read them in dispatch, and the
\* text of a guard rejection is composed from them before publish_error.
ArgsReadWhileLive ==
  At("dispatch") \/ (At("publish") /\ call.say = AnError("GuardRejected"))
    => view \in {"live", "caller"}

\* A runtime that runs is bound and has a started machine, and enters the
\* initial state once in its life: stopped, it never runs again, because the
\* machine cannot be started twice - by anyone.
RunsOnStartedMachine ==
  /\ rt.started => machine.started /\ rt.model # Null
  /\ history.entered <= 1
  /\ history.entered = 1 => machine.started

-----------------------------------------------------------------------------
(* Sessions of a well-behaved application. *)

\* A runtime that runs has announced every channel it can route, and no other,
\* however many starts failed half way before the one that succeeded: what a
\* broker-backed port subscribes to is what can be routed.
ChannelsAnnounced ==
  rt.started =>
    Heard = {Routing.triggers[t].channel : t \in DOMAIN Routing.triggers}

\* What a configuration answers to an input: the name of the state it leads to,
\* or a refusal.
AnswerOf(m, s, input) ==
  LET trigger == FindTriggerForChannel(m, input.channel)
      outcome == Evaluate(m, s, trigger, input.text.args)
  IN  IF /\ trigger # kNoTrigger /\ input.text.status = "Ok"
         /\ outcome.decision = "Accepted"
      THEN StateName(m, outcome.target) ELSE Refused

\* The table is that of a machine file: of every one that may be loaded.
IsTableOf(m) ==
  \A s \in DOMAIN m.states :
    /\ m.states[s].name # Refused
    /\ \A input \in Inputs : Moves[m.states[s].name][input] = AnswerOf(m, s, input)
MovesAreConfigured == \A m \in LoadedModels : IsTableOf(m)

\* And it begins where every setup file does.
TableIsConfigured ==
  MovesAreConfigured /\ \A setup \in LoadedSetups : setup.initial \in {Initial, NoName}

\* What the outside sees of the runtime: whether the session runs, the inputs it
\* has not answered, and how many it has.
Phase      == IF history.states = 0 THEN "off" ELSE IF rt.started THEN "on" ELSE "over"
Unanswered == call.input \o port.inbox
Replies    == [states |-> IF history.states = 0 THEN 0 ELSE history.states - 1,
               errors |-> history.errors]

\* It is an execution of the automaton the file describes.
Promise == INSTANCE Automaton WITH
  Input <- Inputs, phase <- Phase, state <- history.last, queue <- Unanswered, answers <- Replies

\* The runtime implements Automaton: publications only ever follow the moves of
\* the configuration, one per input, in the order the inputs arrived.
KeepsPromise == Promise!Spec

\* Every input that arrives while the runtime runs is answered, unless the
\* runtime is stopped first.
EveryInputAnswered ==
  \A n \in 1 .. MaxInputs :
    (rt.started /\ rt.received + Len(port.inbox) >= n)
      ~> (~rt.started \/ history.errors + history.states - 1 >= n)

\* Once the source is exhausted the main loop is told so.
SessionEnds == (rt.started /\ port.ended) ~> (~rt.started \/ result = "EndOfInput")

-----------------------------------------------------------------------------
(* An application that reloads files into objects that are in use. *)

\* Whatever is loaded under it, the machine only ever moves to a state of the
\* model as it is at that moment: start() rechecks the id init() resolved, and
\* fire() takes targets from a validated model.
MovesStayInModel ==
  [][machine'.current # machine.current /\ machine'.started
       => HasState(models[machine'.model], machine'.current)]_vars

\* publish_state says nothing of a state the runtime's model does not have.  A
\* transition goes unreported for that reason only while the pair is mismatched,
\* never because a file was loaded again under both.
SilenceMeansMismatch ==
  At("publish") /\ call.say.kind = "nothing" => rt.model # machine.model

\* runtime.hpp:32: "the model and the setup come from the machine, so there is
\* no way to hand in a mismatched pair".
PairMatches == rt.model # Null => rt.model = machine.model /\ rt.setup = machine.setup

\* runtime.hpp:58: the arguments of the most recent dispatch are valid "until
\* the next service() call" - so, at the latest, in the trace hook that ends the
\* dispatch itself.
LastArgumentsValid == At("trace") => view # "stale"
=============================================================================
