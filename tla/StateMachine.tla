---------------------------- MODULE StateMachine ----------------------------
(***************************************************************************)
(* fms::StateMachine over the Model and Setup objects the application      *)
(* owns.  The machine keeps references to a model and a setup and two      *)
(* state ids; the objects behind the references stay the application's,    *)
(* which may load another file into them at any time.                      *)
(***************************************************************************)
EXTENDS Model

CONSTANTS
  Object,         \* the Model objects, and the Setup objects, of the program
  Null            \* the null reference

ASSUME ReferenceAssumption == Null \notin Object

VARIABLES
  models,         \* [Object -> model]: what each Model holds now
  setups,         \* [Object -> setup]: what each Setup holds now
  machine,        \* the StateMachine's members
  result          \* the Status the last call returned

NewMachine ==
  [model |-> Null, setup |-> Null, initial |-> kNoState, current |-> kNoState,
   started |-> FALSE, transitions |-> 0, rejections |-> 0]

\* The model the machine evaluates with, as that object is now.
Bound == models[machine.model]

CurrentName ==
  IF machine.model = Null THEN "<uninitialised>" ELSE StateName(Bound, machine.current)

-----------------------------------------------------------------------------
(* StateMachine::init(models[m], setups[s]) *)

\* A mistake MachineInitStatus must not make: a machine that runs is bound again.
InitsAgain(m, s) ==
  IF Validate(models[m]) # "Ok" THEN Validate(models[m])
  ELSE ValidateAgainst(setups[s], models[m])

MachineInitStatus(m, s) ==
  IF machine.started THEN "AlreadyInitialised"
  ELSE IF Validate(models[m]) # "Ok" THEN Validate(models[m])
  ELSE ValidateAgainst(setups[s], models[m])

MachineInit(m, s) ==
  /\ result' = MachineInitStatus(m, s)
  /\ machine' = IF MachineInitStatus(m, s) = "Ok"
                THEN [NewMachine EXCEPT !.model = m, !.setup = s,
                                        !.initial = InitialIn(setups[s], models[m])]
                ELSE machine
  /\ UNCHANGED <<models, setups>>

(* StateMachine::start *)

\* A mistake MachineStartStatus must not make: the id init resolved is trusted.
TrustsInitial ==
  IF machine.model = Null \/ machine.setup = Null THEN "NotInitialised"
  ELSE IF machine.started THEN "AlreadyInitialised"
  ELSE "Ok"

MachineStartStatus ==
  IF machine.model = Null \/ machine.setup = Null THEN "NotInitialised"
  ELSE IF machine.started THEN "AlreadyInitialised"
  ELSE IF ~HasState(Bound, machine.initial) THEN "UnknownState"
  ELSE "Ok"

MachineStart ==
  /\ result' = MachineStartStatus
  /\ machine' = IF MachineStartStatus = "Ok"
                THEN [machine EXCEPT !.current = machine.initial, !.started = TRUE]
                ELSE machine
  /\ UNCHANGED <<models, setups>>

(* StateMachine::fire(trigger, args, out) *)

FireOutcome(trigger, args) ==
  IF machine.model = Null \/ ~machine.started
  THEN [decision |-> "NotInitialised", target |-> kNoState]
  ELSE Evaluate(Bound, machine.current, trigger, args)

\* The TransitionEvent fire() fills in.
FireEvent(trigger, args) ==
  LET outcome == FireOutcome(trigger, args) IN
  IF outcome.decision = "NotInitialised"
  THEN [from |-> kNoState, trigger |-> kNoTrigger, to |-> kNoState,
        accepted |-> FALSE, guardRejected |-> FALSE]
  ELSE [from |-> machine.current, trigger |-> trigger, to |-> outcome.target,
        accepted |-> outcome.decision = "Accepted",
        guardRejected |-> outcome.decision = "GuardRejected"]

Fire(trigger, args) ==
  LET outcome == FireOutcome(trigger, args) IN
  /\ \/ /\ outcome.decision = "Accepted"
        /\ machine' = [machine EXCEPT !.current = outcome.target, !.transitions = @ + 1]
        /\ result' = "Ok"
     \/ /\ outcome.decision \in {"NoTransition", "GuardRejected"}
        /\ machine' = [machine EXCEPT !.rejections = @ + 1]
        /\ result' = outcome.decision
     \/ /\ outcome.decision = "NotInitialised"
        /\ machine' = machine
        /\ result' = "NotInitialised"
  /\ UNCHANGED <<models, setups>>
=============================================================================
