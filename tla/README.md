# A verification development for fms-yaml

fms-yaml is a C++ library that reads a finite state machine from YAML and runs
it, without heap allocation once it runs, behind a port: text arrives on named
channels, the channel selects a trigger, the text carries the arguments guards
are evaluated on, and the state the machine moves to is published.

This directory holds TLA+ modules that model its core, the configurations TLC
checks them with, and proofs that TLAPS checks. Section 1 is the inventory of the
system, 2 the modules, 3 what is checked, 4 what is proved, 5 what the work found,
6 what is left out, and 7 the plan.

## 1. The system

Everything runs on one thread. The hard behaviour does not come from threads but
from *who owns what*: the application owns the models, the setups, the machine and
the port, and the runtime keeps pointers to them; a port may fail at every call
and reuses its buffer at every call; and a trace hook runs in the middle of
`service()` and may call the runtime again.

| Component | State | Operations | Interaction |
|---|---|---|---|
| `Model` (`src/model.cpp`) | states, triggers, two name indices, a channel index, one pool for the conditions of all guards | `declare_state`, `declare_trigger`, `add_transition`, `clear`, `validate`; lookups; `evaluate` | built by the loader, read by machine, runtime and lint |
| `Setup` (`src/setup.cpp`) | initial state's name, io block, meta fields | `set_*`, `clear`, `validate_against` | the other file; must agree with a model |
| `Condition`, `Args` | one comparison; the key=value arguments as views into a text | `parse`, `evaluate`, `text` | guards of a model; `Args` is a member of the runtime |
| `StateMachine` (`src/state_machine.cpp`) | references to a model and a setup, the initial and the current state id, started, two counters | `init`, `start`, `fire` | driven by the runtime, and by the application directly |
| `Runtime` (`src/runtime.cpp`) | references to model, setup, machine, port; started; args; three counters; a trace hook | `init`, `start`, `service`, `fire_by_name`, `stop` | calls the port and the machine; calls the hook back |
| `IPort` (`include/fms/port.hpp`) | the contract | `configure`, `open`, `listen`, `receive`, `publish_state`, `publish_error`, `close` | the views `receive` returns are valid until the next call |
| `MemoryPort` | open, channels listened on, inbox, histories | the contract, `inject`, `set_end_of_input` | tests and embedding |
| `ConsolePort` | stream position, line buffer | the contract over stdin and stdout | the example program |
| YAML loader (`src/config/yaml_loader.cpp`) | none beyond one load | `load_machine_*`, `load_setup_*` | builds a model or a setup, or clears it |
| Lint (`src/inspect/lint.cpp`) | a report of bounded size | `analyse` | reads a model |
| Diagrams | none | `render` | reads a model |
| Allocation guard | a global flag and a counter | nested scopes | debugging aid |
| Car console (`examples/car/main.cpp`) | the objects above | load, init, run loop, stop | the application |

What makes each correct, and is hard to test:

* **Model.** Refused calls leave no trace; the three indices stay the inverses of
  the tables; an alternative's guard is a slice of a shared pool that later calls
  must not move, share or cut; what these calls built passes `validate()`.
* **StateMachine.** It keeps ids of a model that the application may load again;
  it must never move to a state its model does not have *at that moment*; it
  starts once.
* **Runtime.** `start()` may fail after any of its steps and be called again;
  counters in two objects, moved in five places, must add up; publications follow
  the transitions one by one, in the order inputs arrived, also when a hook
  handles the next input inside the call for this one; the views are read before
  the next call on the port; every input is answered; the loop ends.
* **Loader.** Every pass may fail with a part of the model built; a target is
  complete or empty.
* **Args, Condition.** A text in the middle of which parsing fails leaves nothing; integers are
  refused from the first value that does not fit, and no earlier; the operators of
  guards share their characters; a guard that is printed must read back.
* **Diagrams.** A picture cannot show the order in which alternatives are tried, so its
  labels have to.
* **ConsolePort.** The end of the stream comes with a last line, after it, or not at all; a
  failure is not a line that is too long.
* **Car console.** The words of a command line come in any order, each failure has a way out
  of its own, and what is printed at the end adds up across two objects.
* **Lint.** The searches terminate within their fixed buffers and agree with the
  definition of reachability; the interval test finds a guard impossible only if no
  argument satisfies it.

`PROJECT.json` lists each of these hazards at its line, with the properties that
cover it or the reason why none does yet.

## 2. The modules

    Condition     operators: the value of an argument, a comparison
      Model       a model as a value: lookups, evaluate, the build operations, validate
        ModelProofs       lemmas: what each build operation keeps, and what it adds
        ModelBuild        the build phase as a state machine        (MCModelBuild)
          ModelBuildProofs  what holds of every model so built, proved
        Loader            one load, pass by pass
          LoaderProperties  a document read as a whole, and properties (MCLoader)
            LoaderProofs      complete or empty, accepted only and always when well
                              formed, and what is then said, proved
        StateMachine      the machine over objects the application owns
          Runtime         runtime + port + application, step by step
            RuntimeProperties   its properties                      (MCRuntime)
              RuntimeProofs     type correctness, and what holds for any application, proved
                RuntimeSessions   what holds for one that keeps to an order of calls, and
                                  the refinement of Automaton, proved
            Program             main() + ConsolePort + all of Runtime
              ProgramProperties   what its user may count on        (MCProgram)
                ProgramProofs       its safety properties, proved
        Diagram         a model drawn, and how a picture is read: used by Program
      Lint          the analysis of a model, step by step         (MCLint)
        LintProofs  what it reports is right, proved
    Parsing       text to arguments, integers and guards, and back
      ParsingProperties  a text read as a whole, and properties   (MCParsing)
        ParsingProofs    refusals, arguments, integers, guards there and back, proved
    Automaton     abstract: what the program promises the other end of its port

**Condition, Model.** A model is a record of functions; ids are dense from 0, as
the code hands them out. Each build operation is a pair of a status and a model
(`DeclareState`, `DeclareTrigger`, `AddTransition`), with the checks in the code's
order. `alternatives_for` inserting an empty list before it is known that the
alternative fits is kept (`WithList`), because it is the one place where a refused
call could leave something behind. `validate` answers one of three statuses when it
fails; no caller tells them apart, so one stands for all.

**ModelBuild.** Any sequence of build calls on one model, with empty, duplicate
and over-long names, unknown ids and full tables, beside a second record of what the
accepted calls described, by name and with each guard in full.

**Loader.** One call of any of the four entry points. A document is the tree that
yaml-cpp makes of it, which is external: nodes with the four kinds, `node[key]` finding
the first pair, a null that reads as the text "null", and a mapping that keeps duplicate
keys. `todo` lists the parts of the tree that are left, those of the innermost loop first, so
that each action is one turn of one loop: `TriggerEntry` and `StateEntry` declare, `Links` and
`Pair` open the inner loops of `link_states`, `Plain` and `AlternativeEntry` add a
transition. `Ends` is every way out: early return, refused build call, caught
exception, `validate()`; `RefuseNull` is the one that comes before the target is touched.
`Readings` is the outcome of `parse_condition`. The setup file has the same shape with fewer
parts. Line numbers, wording and the machine file's label are left out. In `Runtime`, a load
is one step, and this module says that it may be.

**StateMachine.** `models` and `setups` map objects to what they hold; the machine
holds references to them, so that loading into an object changes what the machine
reads. `MachineInit`, `MachineStart` and `Fire` are `init`, `start` and `fire`.

**Runtime.** A call of the runtime is a run of steps, one for each call it makes on
the port; `call` holds where it is. `start()` is `Start`, `Configure`, `Open`,
`Listen` once per channel (in any order: the code walks an index ordered by name),
`EnterInitial`, `PublishState`. `service()` is `Service`, then `ReceiveNothing`,
`ReceiveUnrouted`, `ReceiveBadArguments` or `ReceiveTrigger`, then `Dispatch`, a
publication and `Trace`. `fire_by_name` joins at `Dispatch`; `stop()` is `Stop` and
`Close`. A hook suspends the call in `hooks`; while it runs the application may call
anything, and `HookReturns` takes the call up again. `history` holds what no
variable of the program does: what was said to the port, and what was fired past the
runtime.

`view` is what the views in `args_` refer to: `live` after a receive, `stale` after
any later call on the port, `caller` when `fire_by_name` parsed the caller's text.

Which application is modelled is the constant `Conduct`, a set of what it does
beyond the plain life cycle: load files again into objects in use (`reload`),
initialise the machine after the runtime (`rebind`), start or fire the machine
itself (`direct`), call the runtime from hooks (`hook`), and have a port that fails
(`fault`). A property that needs a well-behaved application is checked with the
conducts it allows; the ones proved hold for all of them.

**Lint.** `analyse` is given a model that loads and an initial state, or none.
`SkipSearch`, `BeginSearch`, `Visit` and `SearchEnds` are `check_reachability`'s search,
one step for each state popped; then each check walks its places in the order of the
code's loops (`Places`, `Before`), `Check` is one turn of such a loop, and `Record` drops what the
report has no room for. The guard analysis is a set of operators: `FactsOf` is the fold
over all conditions on one argument, `Unsatisfiable` the verdict, `Implies` the test for
shadowing. Integers are `kIntMin .. kIntMax`; the widened bounds just outside are integers
too, as in the code. `Comparison` is what `parse_condition` produces, `Parsed` what `Args::parse`
does; `Spaced` are the texts with a space inside, which the first accepts and the second takes
apart. `ExitCode` is what `report_lint` in `main.cpp` decides. `visited` and `found` are history:
the states popped, and the findings before any was dropped. The order in
which states found together are pushed is left open.

**Parsing.** One call of `Args::parse`, `parse_int` or `parse_condition`, on a text that is a
sequence of characters. `ParseWord` is one turn of the loop over words; `ReadSign`,
`ReadDigit` and `CheckRange` are `parse_int`, one step per digit, and serve a guard's right
side as well; `Split` finds the operator and trims both sides, `ParseLiteral` takes the side
that is no integer. A guard that was accepted is printed (`append_condition`, `append_int`),
as it is or escaped for either kind of diagram (`Spelling`, `Escaped`), shown by the tool that
reads it (`Shown`, external) and parsed again. `ParsingProperties` has the reference: the words of
a text, what is wrong with each, the value a numeral denotes, and a guard read
outwards from the first character of an operator - definitions without a position, an
accumulator or an early return. It gives `Readings` of `Loader` and the texts of `Runtime`
their meaning.

**Diagram.** A picture is the set of its arrows; `Label` is `emit_label`, with the siblings that
decide between no guard and `[otherwise]`. The two formats draw the same arrows. A reader of
the picture has only those: `Followed` is where such a reader goes.

**Program.** `main()` extends `Runtime` and shares its variables; its steps call the actions
there. `ReadWord` is one turn of the loop over the command line, with every option, in both builds
(`FMS_WITH_INSPECT`); `ReadSetup`, `ReadMachine` and `Bind` are the setup phase, with a
`Disk` that has files of either kind or none; `Export`, `Check` or the session follow. A call
of the runtime is made (`StartRuntime`, `CallService`, `StopRuntime`), runs its course
(`StepRuntime`), and is looked at once it has returned (`Started`, `Served`, `Summary`).
`GetLine` is one turn of the loop in `ConsolePort::receive`: it reads what the stream
holds, a line of any kind, with or without a newline, the end, or a failure; an input
goes through `Deliver`, the end through `EndInput`. `Recover` is the branch that clears the
stream's flags, drops the rest and complains. `console` has the flags of `std::cin`;
`heard` and `said` are history, the lines read and what was said.

**Automaton.** The promise, in five actions: after the first publication each
arriving input gets one answer, in order, the next state of the configuration or an
error that changes nothing, until the session ends. It knows nothing of ids, guards,
pools, channels, calls or hooks. The refinement mapping of `RuntimeProperties` takes `phase`
from the states published and whether the runtime runs (`Phase`), `queue` from the input in hand
and the port's inbox (`Unanswered`), `state` and `answers` from what was published (`Replies`).

The configuration `Automaton` follows is the constants `Initial`, `Moves` and `Refused`: a
table of names, which says nothing of guards. `IsTableOf` says that it is the table of a
model (what `AnswerOf` reads off the model is what the table has), `TableIsConfigured` that it is
that of every model and setup an application loads. TLC evaluates the first for the car
(`CarIsTabled` of `MCProgram`); a table that was wrong anywhere would fail `KeepsPromise`.
`TranscriptTold` speaks of the answers in terms of the table where it is that of the machine.

Data that no property tells apart is abstracted: names are strings used as model
values; a text is the outcome of parsing it; an argument is a number or a word; the
wording of messages and the io block are left out. Counters are naturals where the
code has `uint32_t`; the laws about them are sums, and hold modulo 2^32.

## 3. What is checked

| Run | Question | Conduct and bounds |
|---|---|---|
| `runtime` | do counters, publications, views and bindings agree in every interleaving of calls, hooks, failures and direct use of the machine? | `direct`, `fault`, `hook`; 2 inputs, fires up to 2 attempts, hooks 2 deep, 1 waiting |
| `runtime_session` | is a session an execution of `Automaton`; is every input answered; does the session end? | `hook`; 3 inputs, 2 waiting, hooks 2 deep |
| `runtime_reload` | does a machine ever move out of its model; does what runs have a started machine; when does the runtime not publish a transition? | `reload`, `rebind`; two objects, models `Car`, `Cart` and empty, setups naming a state one model has and none; 1 input |
| `runtime_rebind` | can the runtime and the machine hold a mismatched pair? | `rebind`; two objects |
| `runtime_last_arguments` | are the last arguments still valid in the trace hook? | none; 1 input |
| `model_build` | does a model say what was described to it? | 2 states, 2 triggers, 1 transition per state, 2 alternatives, 3 pooled conditions |
| `lint` | does the search flag what can be reached, within its stack; are reported alternatives dead, and unreported ones alive? | every graph of 4 states with up to 3, 2, 1 and 1 ways out, every initial state and none; every guard of up to 3 comparisons on one argument over -2..1, two words and one with a space in it, one comparison on each of two others, and one on a name with a space; arguments of up to 2 names, the most an `Args` has here; up to three alternatives with overlapping guards; room for 4 findings |
| `lint_full` | does the exit code tell of every error found? | room for 2 findings; 3 states |
| `loader` | which documents load, what does the target say then, and what is left when one does not? | 1000 documents, each wrong in one place or in none; 2 states, 3 triggers, 2 triggers per state, 2 alternatives, 2 conditions per guard, 3 in the pool; targets empty or not |
| `parsing` | does each text say to the scanners what it says as a whole, and does a guard survive being printed? | all texts of up to 6 characters as arguments, 5 as an integer, 5 as a guard, and some longer ones; integers -12..11; 2 arguments, names of 2 characters |
| `program` | does the program do what its command line asks, draw what the machine does, answer each line, add up, and end? | all command lines of up to two of nine words and some longer; 156 models to draw and check; streams of up to 3 lines of 9 kinds |
| `program_broken` | is the failure of the source answered? | the same session, and a stream that may fail at any read |

The configuration in `MCRuntime` is a car of three states: two overlapping guards on
one trigger, so that file order matters, a channel that defaults to its trigger's name
and one that does not, and a trigger that one state lacks. It is built with the
operations of `Model`, not written down. The inputs are one of each kind the runtime
tells apart: two that satisfy different guards, or none, malformed arguments, an unguarded
trigger, and an unknown channel that happens to be a trigger's name.
`CarMoves`, what `Automaton` expects, is a table written by hand.

*Why the bounds are enough.* Two inputs suffice for one to be handled inside the
hook of the other, and three for a third to wait behind them. `MaxHooks = 1` lets a
hook call in while an earlier hook is suspended. The port's room for channels is a
bound the code has (`kMaxTriggers`, never emptied), and a second attempt at a start that failed
reaches it. In `model_build` every capacity is at most three, and every one is
reached, also two at once. In `lint` four states have every shape the search tells
apart: two states that push the same third, cycles, self-transitions, states out of reach,
a stack that fills to its capacity, and a report that overflows. In the guards three comparisons reach both ends of the interval,
exclude a whole range one by one, mix numbers with words, and name more arguments than an `Args`
holds; the arguments tried are all the numbers, words that guards name, one that none names, the
empty text, and absence. Guards with spaces inside a name or a word pass the analysis, alone and beside
others; so do guards that only forbid such a word, which can be met. In
`loader` every node of a good document is replaced in turn by a null, a text, an over-long
text, an empty list and an empty mapping, and every table is filled and overfilled, so that
each early return is taken by some document; forward and backward references, self-references
and the three spellings of an outcome are among the good ones. In `parsing` an integer of 5
bits has its bounds, and the first values past them, at two digits with room for a sign and more;
names of two characters and tables of two are overfilled by the texts; each operator, with each
other one behind it and before it, is among the guards. In `program` three lines are enough
for an answer to depend on the one before it, with a line too long or blank in between; two words
put any option before, behind or in the place of any other, and three and four words add
the ones that take a word behind them; the models drawn have every mix of guarded and unguarded
alternatives up to three. The session is the car of `MCRuntime` in two setups.

`MCRuntime` and `MCProgram` have one more assumption each (`ModelsAreBuilt`, `ModelsAreShared`), which says nothing: it makes TLC
evaluate the models before its workers share them.

*The properties.* `InputsAccounted`, `ErrorsAccounted` and `StatesAccounted` are the three
accounting laws; their extra terms are the input, error or state that is under way.
`PublishedStateIsCurrent`: the outside knows the state, unless the application fired the
machine past the runtime. `ArgsReadWhileLive`: guards and the text of a rejection read the
views before the port is called. `RunsOnStartedMachine`, `ChannelsAnnounced`: what holds of
a runtime that runs, however many starts failed before. `KeepsPromise`: refinement of
`Automaton`. `EveryInputAnswered`, `SessionEnds`: liveness. `MovesStayInModel`: an action
property. `SilenceMeansMismatch`: `publish_state` skips a state only while runtime and
machine hold different models. For the build phase: `IndicesAgree`, `SaysWhatWasDescribed`,
`PoolIsAccountedFor`, `BuiltIsValid`. For a load, `NothingHalfLoaded`: complete or empty;
`OkIffWellFormed` compares the passes with a definition of a well-formed document that has
no passes, no order and no target, in both directions; `SaysTheDocument` compares what was
built with what the document says by name. For lint, each compares the analysis with what
the *running* program does, not with itself: `ReachabilityIsExact` with the least set closed
under transitions, `ReportedIsNeverTaken` and `ReportedGoesNowhere` with `Evaluate`,
`CleanVouches` with both, in the other direction: a run that kept everything and found no
error has every state reachable, no alternative behind a fallback, and no guard that nothing
satisfies, except one whose names or words no input can have, which the analysis lets pass (section 5). `SearchVisitsOnce` is why the stack suffices. For texts, `ArgsAsWritten`,
`NumbersAsWritten` and `GuardAsWritten` compare each scanner with the reference in both
directions, the status included; `GuardReadsBack` is about the way there and back.
For the program: `AsAsked` compares where it ended with its command line read as a whole, words in
any order; `DrawsTheMachine`, for every model, a reader of the picture with `Evaluate`,
wherever a picture can say what the order says; `TranscriptTold` what was said with the
lines that were read, one answer to each, in the state announced last; `SummaryAddsUp` the
numbers printed with a count of that transcript; `ProgramEnds` is liveness. Each module has one `TypeOK`, which
includes its capacities.

*Mutants.* Beside some definitions stands a plausible mistake in them (an unchecked
capacity, a trace before the publication, a running machine bound again, the last
alternative instead of the first). `PROJECT.json` pairs each property with one: put in
the definition's place it makes TLC find that property violated.

*Fairness.* `FairSpec` assumes three things. `WF(RuntimeStep)`: a call that is under
way goes on, because nothing suspends the thread inside it. `SF(HookReturns)`: a hook
that was called returns, whatever it calls on the way; strong, because its own calls
disable it again and again. `SF(hooks = <<>> /\ Service)`: the main loop
(`examples/car/main.cpp:266-276`) calls `service()` again each time it has returned.
Nothing is assumed about inputs, about the end of input, or about `stop()`: the
liveness properties allow the session to be stopped instead. `FairProgramSpec` assumes that
main, the runtime and the console go on (nothing suspends the one thread but a read), and
that a read returns when the stream has ended or is broken. Of one that may still bring a
line nothing is assumed: whoever types need not, and `ProgramEnds` lets the program wait there.

*Deadlock* is not checked: a program whose inputs, bounded fires and hooks are used up
may stop, a model that is built needs no further call, an analysis, a load and a parse end, and
`main` exits.

## 4. What is proved

TLAPS proves the following for every value of the constants: any configuration, any
number of objects, any inputs and bounds, and, where the table says nothing else, every
`Conduct`, faulty ports and re-entrant hooks included; any set of models to analyse and any range
of integers; any documents, any calls that build a model, at any capacities; any texts and width
of integers; any command lines, files and streams.

| Theorem | States | For an application that |
|---|---|---|
| `TypeCorrect` | `Spec => []TypeOK` | |
| `MovesInModel` | `Spec => MovesStayInModel` | |
| `RunsOnlyStarted` | `Spec => []RunsOnStartedMachine` | |
| `EveryInputAccounted` | `Spec => []InputsAccounted` | |
| `EveryErrorAccounted` | `Spec => []ErrorsAccounted` | |
| `ArgsLiveWhenRead` | `Spec => []ArgsReadWhileLive` | |
| `SilentOnlyIfMismatched` | `Spec => []SilenceMeansMismatch` | |
| `PairKept` (RuntimeSessions) | `Spec => []PairMatches` | does not rebind |
| `EveryStateAccounted` (RuntimeSessions) | `Spec => []StatesAccounted` | does not rebind |
| `PublishedIsCurrent` (RuntimeSessions) | `Spec => []PublishedStateIsCurrent` | does not rebind or reload |
| `EveryChannelAnnounced` (RuntimeSessions) | `Spec => []ChannelsAnnounced` | does not rebind or reload |
| `RuntimeKeepsPromise` (RuntimeSessions) | `Spec => KeepsPromise` | only calls in from hooks, on a port that may fail |
| `RunsTheRuntime` (ProgramProofs) | `ProgramSpec => Spec` | |
| `DoesAsAsked` (ProgramProofs) | `ProgramSpec => []AsAsked` | |
| `DrawsAsItMoves` (ProgramProofs) | `ProgramSpec => []DrawsTheMachine` | |
| `TellsEveryLine` (ProgramProofs) | `ProgramSpec => []TranscriptTold` | |
| `EverySummaryAddsUp` (ProgramProofs) | `ProgramSpec => []SummaryAddsUp` | |
| `AnalysisTypeCorrect` (Lint) | `Spec => []TypeOK` | |
| `SearchOnce` (Lint) | `Spec => []SearchVisitsOnce` | |
| `SearchIsExact` (Lint) | `Spec => []ReachabilityIsExact` | |
| `NoFalseAlarm` (Lint) | `Spec => []ReportedIsNeverTaken` | |
| `NothingLeaves` (Lint) | `Spec => []ReportedGoesNowhere` | |
| `PassingVouches` (Lint) | `Spec => []CleanVouches` | |
| `WithinCapacity` (ModelBuild) | `Spec => []TypeOK` | |
| `NothingToRefuse` (ModelBuild) | `Spec => []BuiltIsValid` | |
| `IndicesInvert` (ModelBuild) | `Spec => []IndicesAgree` | |
| `SaysDescribed` (ModelBuild) | `Spec => []SaysWhatWasDescribed` | |
| `NothingUsedUp` (ModelBuild) | `Spec => []PoolIsAccountedFor` | |
| `TypeCorrect` (Loader) | `Spec => []TypeOK` | |
| `CompleteOrEmpty` (Loader) | `Spec => []NothingHalfLoaded` | |
| `AcceptsWellFormed` (Loader) | `Spec => []OkIffWellFormed` | |
| `SaysWhatIsWritten` (Loader) | `Spec => []SaysTheDocument` | |
| `TypeCorrect` (Parsing) | `Spec => []TypeOK` | |
| `RefusedLeavesNothing` (Parsing) | `Spec => []RefusedArgsLeaveNothing` | |
| `ArgumentsRead` (Parsing) | `Spec => []ArgsAsWritten` | |
| `NumbersRead` (Parsing) | `Spec => []NumbersAsWritten` | |
| `GuardsRead` (Parsing) | `Spec => []GuardAsWritten` | |
| `GuardsReadBack` (Parsing) | `Spec => []GuardReadsBack` | (no guard has a `#`) |

The last column is an assumption of the theorem about `Conduct`, one that the runs of the property
meet. For `RuntimeKeepsPromise` it is `Obeys`: `Conduct` is at most `hook` and `fault`, no
trigger is fired by name (`Names = {}`, since a trigger raised from outside is no input that
arrived), and the table is that of what is loaded (`TableIsConfigured`).
For `GuardsReadBack` it is `PlainGuards`: a `#` begins an entity of Mermaid's, and `emit_escaped` leaves it as it is, so a guard that compares with
`a#lt;` does not come back from a diagram (section 5). TLC evaluates it for the texts of
`parsing` (`NoEntityBegins`). In `RuntimeProofs` and
`RuntimeSessions`, as in `Runtime`, nothing else is assumed of the application; what the
example program does is a special case (`RunsTheRuntime`), so all of this holds in `Program`.

*Assumptions.* `CapacityAssumption` (capacities are naturals, and a list of
alternatives has room for one), `LengthsAssumption` (an empty name is not too long),
`ReferenceAssumption` (null is no object), `ConductAssumption`, `BoundAssumption`, and
`LoadedAssumption`: a model that was loaded fits its tables, has indices that are the inverses of
them, and passed `validate()` or is empty. The code ends so, in `parse_machine` and
`guarded` of `yaml_loader.cpp`; `CompleteOrEmpty` proves each part of it of the model of the
loader. For the program: `MainAssumption` (one application with one pair of objects, which is what
`main()` has, and no conduct but its own), `CommandAssumption` (a command line is a sequence of
words), `DiskAssumption` (a path holds files of one kind, and loading one gives one of the
outcomes above) and `StreamAssumption`. For lint: `ModelsAssumption` (a model that is
analysed passed `validate()`, and its conditions are what `parse_condition` produces),
`ArgumentsAssumption` and `SpacesAssumption` (inputs carry what `Args::parse` makes: no more than
`kMaxArguments` names, each neither empty nor too long, and numbers, words or empty values, with no space in
a name or a word; the empty text has none),
`NumbersAssumption` and `FindingsAssumption` (0 is a number; the report's capacity is a
natural). For the build phase: `GuardsAssumption` (guards are sequences of comparisons). For it and
for loads: `IdAssumption` of `Model`: the capacities leave the id that stands for "none" unused. The code
needs that too, since ids have 16 bits, and says it nowhere: a build that raises
`kMaxStates` past 65535 would break it. For a load: `GuardAssumption`, `NodesAssumption`
(children of nodes are nodes) and `SourcesAssumption`. For texts: `TextAssumption` (texts are
sequences, and an object that is parsed into is one that can be), `WidthAssumption` and
`LengthAssumption`. TLC evaluates all of them.

*`TypeOK` as an invariant.* It is inductive by itself because it includes two facts about
calls: a call at its trace step has nothing left to do, and so has every call
suspended in a hook. Without them a hook's return could resume a call anywhere.

*`MovesInModel`.* `start` looks the initial id up again, which covers reloads before it.
For `fire`, `EvaluateAnswers` shows that an accepted target is that of the first
alternative whose guard holds; that there is a first one needs the well-foundedness
of the naturals (`Least`), since the alternatives are only known to be a sequence; and
`AcceptedIsState` finds the target in the model, because `validate()` accepted it, or
because an empty model accepts nothing.

*`RunsOnlyStarted`* needs the strengthening `Bindings`: inside `start()` the runtime is
bound, inside `service()` and dispatch the machine is started, a started machine has a
model, and one that is not started has made no transition. The last two are what
accounting needs too: `InitMachine` resets the machine's counters, but only when they
are zero, and in dispatch `fire()` never answers NotInitialised, the one answer that
would be neither counted nor published.

*Accounting* is `Accounts`, the laws of inputs and of errors together, inductive beside `TypeOK`
and `Bindings`. The law of states is apart: `publish_state` skips a state whose name its
model lacks, so it holds only of a pair that was not parted. `Paired` says what keeps it
together: the runtime takes its references from the machine, and a call that is under way is past the
check that there are any. Reloading the files of a matched pair does not hurt it.

*What the outside knows.* `Fixed` says that a model that was bound and not loaded again is the
valid one that it was, so that the machine's current state is one of its states; `Shown`
that the last state published is the machine's unless a publication is due (`Saying`), the
application fired past the runtime, or nothing was published yet. A publication that a
port refuses leaves no debt: the code takes the state for published, and `history` counts it.
`Subscribed` says the same of the channels: at `Listen`, those announced and those left are the
index's, however many attempts went before; when the runtime runs none is left.

*Refinement.* `Truthful` joins the invariants above to four about a session: `Undisturbed` (the
machine was started by the runtime, once, and nothing else fires it), `Serving` (an input is in
hand only where it is still unanswered), `Dispatching` (the trigger and the arguments
are those of the input in hand) and `Answering` (what is about to be published is the start of the
session, or the answer the table has for the state last published and the input in hand);
`Obedient` adds that the machine starts in the table's initial state (`InitialIsBound`). Each step of the runtime is then a step of `Automaton` or a stutter: a first
publication is `Begin`, a later one `Accept` or `Reject`, `Stop` is `End`, a delivery `Arrive`, and
everything else changes nothing it sees. `EvaluateAnswers` connects the guards to `AnswerOf`,
and through `IsTableOf` to the table.

*The search* (`SearchInv`). `SearchVisitsOnce` is inductive once the flags are known to be
exactly the states on the stack and those popped; that the stack fits then follows from an
injection into the table of states (`StackFits`). Two more conjuncts make reachability exact: all
that a popped state leads to has a flag, so the flags enclose the initial state when the stack is
empty; and no enclosing set lacks a flagged state, so they are the least such set.

*No false alarm* (`FoundIsNeverTaken`). An alternative behind a fallback is not first, since the
fallback always holds. A shadowed one is not first either: when it holds, so do the conditions
of the earlier. For an impossible guard, `SatisfiedIsSatisfiable` shows the contrapositive:
arguments that satisfy every condition on one argument give it a value, which, if the guard has a
comparison with a number, lies between the folded bounds and is not excluded; the
bounds are the greatest and least of finite sets of integers, which lemmas of
`ModelProofs` supply from well-foundedness. `ReportInv` then carries each finding's reason
from the step that recorded it to the end: the model does not change under the analysis, and
the flags no longer change once the search is over.

*No missing alarm* (`Thorough`). Every place behind the analysis was judged, and unless something was
dropped or an error was found, judged good. What is left is that a guard not found impossible can be
met: for each argument, the word that the guard requires, or a number that lies between the folded
bounds and is not excluded (`SatisfiableIsSatisfied`). No counting is needed, because
the code's own last test asks whether an integer of the interval is left. The values are
put together argument by argument, and what results is `Parsed`, so some text gives it, exactly where the
guard is `Answerable`: its names, and the words it requires, have no space inside, and its names are
no more than an `Args` holds (`PossibleIsMet`). The converse is `UnanswerableIsNotMet`: what inputs carry is
`Parsed`, and a guard needs each of its names given and each word it requires, so no input meets
any other guard. Nothing is assumed of what is sent, nor of how `kMaxArguments` and
`kMaxConditionsPerGuard` compare: `limits.hpp` gives 4 and 3 as defaults and relates them nowhere.
`Parsed` is about texts of any length, as `Args::parse` and `port.hpp` are. A port's own buffer may be
shorter: the 127 characters that `MemoryPort` keeps do not hold three arguments of the longest
names and words, which take 191.

*The build phase.* `Built` (tables within their capacities, ids dense, entries well typed)
and `Sound` (targets are states, slices lie in the pool and are no longer than the most
that is allowed) are kept by each operation that is accepted; a refused one leaves the model as
it was (`RefusedAddLeavesNothing`): `alternatives_for` inserts an empty list only when the
pair is new, and then no later check can refuse, because a list has room for one. The
indices are inverses of their tables (`Inverts`), which one new key for one new id preserves. For
`SaysDescribed`, the pool only grows (`Extends`), so every slice taken earlier reads the
same, and a new alternative adds what the call described to what is said for one pair, and changes
nothing that is said for any other (`TransitionSays` of `ModelProofs`, which the loader's proof uses too);
names tell states and triggers apart. For `NothingUsedUp`, the slices
together cover the pool, since an accepted call adds to the pool what its own slice has, and
a refused one adds nothing.

*A load* (`LoadInv`). While a document is read, what is left is a list of parts of the kinds
the machine file has, and the target is `Built`, by the same lemmas; `Complete` then has
`Validate` for the rest, and every other way out clears. `TypeOK` follows from the same invariant.

`AcceptsWellFormed` and `SaysWhatIsWritten` compare the passes with folds over a tree, so their invariant
(`ReadingInv`) has to say how far a load has come: `StandsAt(target, todo)`. What is left of the
document is one of a few lists that its root determines (with so many triggers, states,
pairs and alternatives behind), and what was built is what that much of the document says: while
ids are handed out (`DeclaringAt`), the tables hold the names so far, each new, in the order of the
document, and no alternative; while
alternatives are added (`LinkingAt`), each state read says what its whole entry has for each trigger,
the state being read what its first pairs have and of one more pair the first alternatives, and
the pool is the guards of all of these one after another; for the setup (`SetupAt`), the pairs
so far are what is mapped. From there a turn does one of three things (`Judged`, one lemma for each
kind of part): it refuses, and then the document is not well formed, by the
very place the load has come to; it goes on, and stands at the next place
(`DeclaringPart`, `LinkingPart`, `PairParts` say which); or nothing is left, and then all of it
was read (`AllRead`), each entry fits, the whole of its guards is the pool, which is within its
capacity, and `Validate` answers `Ok` (`CompleteIsJudged`). Where an operation of the build phase
refuses, `TransitionFits` says what did not fit; a capacity that is exceeded half way is exceeded by the whole,
since what was read is a beginning of it (`First`). The folds are taken by one more element
at a time: that `FlattenSeq` of a longer list is that of the shorter and the last is a fact about a
recursive definition, shown by a least counterexample as for `WorthIs` below. `ReadingInv` itself speaks of entries of
documents that need not have the shape the formula reads, so TLC cannot evaluate it; its last two
conjuncts are the invariants of run `loader`.

*Texts.* `Inv` adds to `TypeOK` which stages each task can be at (`Scanning`) and that the
accumulator is at most one past the greatest integer wherever another digit may follow: this is what the test
inside `parse_int`'s loop is for, and it makes the accumulator's bound, ten times that and nine,
inductive. That a scan stops inside its text is `FirstInText`, by well-foundedness again. An
`Args` grows by one key at a time, below its capacity (`OneMorePair`, by the
cardinality of finite sets). `RefusedLeavesNothing` is one step: each refusal clears, and
nothing happens after it. For `NumbersRead`, `Halfway` says that the accumulator is what the digits
read so far are worth. That there is a function `Worth` as its recursion has it is
`WorthIs`: of the lengths for which there is none, the least would be one more than one for which
there is. Further digits make a number no smaller (`WorthGrows`), so what is refused half way would be
refused at the end. For `ArgumentsRead`, `Gathering` says that the scan stands between two words, that
what is stored are the pairs of the words behind it, and that nothing is wrong with them; from there
it finds the next word and no other (`NextIsAWord`), and its verdict is `Fault` (`StatusIsFault`).

*Guards.* `find_operator` looks for two characters before it looks for one; the reference looks for
the first character that only an operator has, and then left and right of it. `OperatorSpan` shows that
they find the same: what is found leftmost and longest is where the reference stops. The code trims
the text first and then its sides, the reference its sides alone (`SidesOfTrimmed`). `Guarding` says of each
stage what is known by then: after `Split`, the sides are those of the reference (`Halves`), and the
conversion of the right side runs under `Halfway` as above. The way back: a guard that is accepted comes
from a text (`Guard`), so its left side holds no operator and no space at its ends, and its right side is
the numeral of a number or a trimmed text (`AcceptedIs`, `RightIs`). What is printed of it therefore has its first operator
where it was put (`PrintedOperator`), and `PrintedReads` reads the sides off. The digits that
`append_int` writes of a number denote it, for the least integer too (`DecimalSpells`, `IntegerReads`);
and what is escaped is shown as it was, character by character (`SpellingRead`, `ShownAsPrinted`), when no
`#` is in it. `Copied` carries this across the second parse. In these proofs a character is a member of
`Characters`, the strings and the literals of the model: that a literal is a string is something no prover
here knows.

*The program.* `Stages` says where `main()` may be and what its variables then say:
what is prepared before the session (`Prepared`), which returns of the runtime it waits for
(`Beginnings`, `InSession`), and that the console's buffer and the port's inbox never both hold an
input (`Buffered`). On it rest four invariants.
`Prompted`, with `ReadUpTo(n)`: the options, paths and help seen are those of the first `n` words,
so `AsAsked`, which reads the line as a whole, follows when the loop ends or leaves; each of the ways out
carries its reason along.
`Drawn`: a picture is exported of the model that is bound, `DrawnReads` shows that an arrow drawn
is an alternative and that a reader who takes the arrows by their labels takes the first whose guard
holds, wherever at most one does or the label says so.
`Transcribed`: what was said is the start and then, for each line that needs an answer, in the turn
`Turn` gives it, one answer (`Replied`); one line more may have been read than answered
(`Pending`), and it is in exactly one place: the stream's flags, the inbox, or the call.
`Noted`, `Counted` and `Declined`: what is printed at the end counts the errors and states of
the transcript, in two objects; a bad line is counted by the runtime alone, a refused
trigger by both.

*Only model-checked.*
* Liveness under fairness (`EveryInputAnswered`, `SessionEnds`, `ProgramEnds`), which is out of
  the provers' reach: it needs `ENABLED`.
* Nothing else: every invariant and action property that a passing run checks is stated by a
  theorem.

## 5. Findings

* **A mismatched pair can be had** (`runtime_rebind`). `runtime.hpp:32` says there is no
  way to. `Runtime::init` copies the machine's references, and `StateMachine::init`
  refuses only a started machine, so initialising the machine with another pair between
  `Runtime::init` and `Runtime::start` succeeds. The runtime then routes channels and
  names states with one model while the machine moves in the other.
* **The last arguments do not live as long as documented** (`runtime_last_arguments`).
  `runtime.hpp:58` says until the next `service()`; `port.hpp` guarantees the views
  only until the next call on the port, and dispatch publishes before it traces. The
  two ports in the repository happen to keep their buffers longer than they promise.
* **The exit code can miss an error** (`lint_full`). `main.cpp:18` says that `--check` and
  `--lint` exit 1 when the linter found an error. `record` drops findings when the report is
  full, and warnings about dead ends and unused triggers come before the errors about
  alternatives; the exit code looks at what was kept. With the default capacities, 31 dead ends
  and one unused trigger leave no room for an impossible guard.
* **A source that fails is never reported** (`program_broken`). `ConsolePort::receive` takes every
  failure of `std::cin` but the end for a line that is too long, clears the flags and reads
  again. With a standard input that cannot be read (`car_console < /`), each read fails, and the loop
  complains on stderr for ever. `port.hpp:75-76` has statuses for a source that is
  exhausted and for a real failure; `main.cpp:271` waits for one.

Remarks without a run:

* `yaml_loader.hpp:54` and `:65` say that a target is cleared on entry and left empty if
  loading fails. All entry points refuse a null pointer before they touch it; the target keeps
  what it had (`NothingHalfLoaded` says so).
* `docs/schema.md:133` and a note in `tests/test_loader.cpp:137` say that a state cannot list
  a trigger twice, since transitions are a mapping. yaml-cpp keeps both pairs, and the
  loader adds the alternatives of both, in file order; `SaysTheDocument` and `OkIffWellFormed`
  include such documents.
* The comment at `inspect/lint.hpp:57` says that a shadowed alternative has the same guard as an
  earlier one; the code, and the comment beside it, say weaker or the same.
* A guard can ask for what no input can say. `parse_condition` (`condition.cpp:89-113`) trims its sides
  and leaves spaces inside them alone, so `mode == very sport` and `pedal position > 3` load;
  `Args::parse` (`args.cpp:81`) ends a word at every space, so no `Args` has such a value or
  name, and the alternative is never taken. `guard_impossible` finds nothing wrong with it, and a clean
  run of lint does not vouch for it. The comment at `lint.cpp:306-307` says that a guard it calls possible and
  that never holds is the sender's business, not the file's; here it is the file's.
  `CleanVouches` makes the exception for these guards, and states that none of them is ever met. The same
  holds of a guard with more names than `kMaxArguments`, which the default limits exclude.
* `diagram.cpp:35` says that what is not escaped is safe in both formats. Mermaid's own escapes
  begin with `#`, which is not: a name such as `a#lt;` is shown as `a<`. The texts of `parsing`
  have no `#`.
* `diagram.cpp:95` says that a condition cannot outgrow a `Message`. That is so for the default
  limits and for no relation between them that the code states.
* `ConsolePort` takes the words quit, exit, help and ? for itself: a trigger with such a channel
  cannot be typed without arguments.

## 6. What is not modelled

The components of `PROJECT.json` marked `not_modelled` or `partly` say why, each. In
short: the claim that nothing allocates is about the C++ heap, so the guard that counts
allocations has nothing here to count; link-time guards, version and status names have no
behaviour; build scripts are not part of the library. Of `MemoryPort` the histories a
test looks at are left out, of the diagrams their punctuation, of the messages their wording,
of `Args` the conversion to a boolean, which nothing in the library calls. Texts of inputs in
`Program` are outcomes of parsing, and a line is one of its kinds: how `receive()` trims and
splits it is what makes it of that kind.

## 7. Plan

Done: the core (`Model`, `StateMachine`, `Runtime`), its abstract specification and the proof that
it is implemented, lint, the loader, the parsers, diagrams, the program with its console, and
the theorems of section 4. What is left is where the model could be widened:

1. **Texts with a `#`.** `parsing` has none, and `GuardsReadBack` assumes none (`PlainGuards`); what a
   reader of Mermaid sees of one needs its entities as a table.
2. **A line of the console.** `Program` takes each line as one of its kinds; how `receive()` trims and
   splits it would be a task of `Parsing`.
3. **What `MemoryPort` records.** Its histories are counted nowhere in the model.
4. **Liveness** of `Runtime` and `Program`, once the proof system supports `ENABLED`.
