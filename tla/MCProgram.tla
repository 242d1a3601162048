------------------------------ MODULE MCProgram ------------------------------
(***************************************************************************)
(* The car of MCRuntime behind a console, and models to draw and check:    *)
(* every state with two or three ways to go, guarded in any way.           *)
(***************************************************************************)
EXTENDS ProgramProperties, MCRuntime

Guards == {<<>>, <<Pedal(">", 30)>>, <<Pedal("<=", 30)>>, <<Pedal(">", 80)>>,
           <<Pedal(">", 30), Pedal("<=", 80)>>}

Ways(guards) ==
  Linked(Raised(Named(EmptyModel, <<"standing", "moving", "sprint">>), <<<<"throttle", "">>>>),
         [i \in DOMAIN guards |-> <<0, 0, i - 1, guards[i]>>])

Junctions == {Ways(guards) : guards \in UNION {[1 .. n -> Guards] : n \in 1 .. 3}}

\* No state but the first can be reached.
Stuck == Ways(<<<<>>>>)

EverySetup == {Standing, Sprint, [initial |-> "flying"]}
EveryModel == Junctions \cup {Car}

\* What the checks of Lint say of an alternative of a model.
Linter == INSTANCE Lint WITH
  kMaxFindings <- 32, kMaxArguments <- 4, kIntMin <- 0, kIntMax <- 100, Spaced <- {},
  Models <- EveryModel, Arguments <- {},
  model <- Stuck, initial <- 0, stage <- "begin", todo <- {}, pending <- <<>>,
  reached <- {}, visited <- {}, report <- <<>>, room <- TRUE, found <- <<>>

\* Errors, and not warnings: a state out of reach, and an alternative that is
\* never taken.
LeavesOut(m, initial) ==
  \E S \in SUBSET DOMAIN m.states :
    /\ initial \in S /\ S # DOMAIN m.states
    /\ \A s \in S : Linter!Targets(m, s) \subseteq S
NeverTakes(m) ==
  \E s \in DOMAIN m.states : \E t \in DOMAIN m.states[s].transitions :
    \E i \in DOMAIN m.states[s].transitions[t] : Linter!AboutAlternative(m, s, t, i) # <<>>

Errors ==
  {pair \in EveryModel \X (0 .. 2) :
     pair[2] \in DOMAIN pair[1].states /\ (LeavesOut(pair[1], pair[2]) \/ NeverTakes(pair[1]))}

Files ==
  ("car.setup.yaml"   :> [kind |-> "setup", holds |-> {Standing}]) @@
  ("race.setup.yaml"  :> [kind |-> "setup", holds |-> {Sprint}]) @@
  ("lost.setup.yaml"  :> [kind |-> "setup", holds |-> {[initial |-> "flying"]}]) @@
  ("car.machine.yaml" :> [kind |-> "machine", holds |-> {Car}]) @@
  ("any.machine.yaml" :> [kind |-> "machine", holds |-> Junctions])

SomeWords == Options \cup {"mermaid", "race.setup.yaml", "lost.setup.yaml", "car.machine.yaml"}

\* Any two words, and what takes more of them.
SomeCommandLines ==
  UNION {[1 .. n -> SomeWords] : n \in 0 .. 2} \cup
  {<<"car.setup.yaml", "any.machine.yaml">> \o words :
     words \in {<<"--check">>, <<"--lint", "--quiet">>, <<"--export", "dot">>,
                <<"--check", "--export", "mermaid">>, <<"--export", "dot", "--version">>}} \cup
  {<<"race.setup.yaml", "any.machine.yaml", "car.machine.yaml">>,
   <<"--export", "mermaid", "race.setup.yaml", "none.yaml">>}

OneCommandLine == {<<>>}

\* The table written by hand is the one the file makes.
ASSUME CarIsTabled == IsTableOf(Car)

ASSUME ModelsAreShared == \A m \in EveryModel : m = m /\ Errors = Errors
=============================================================================
