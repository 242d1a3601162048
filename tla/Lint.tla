-------------------------------- MODULE Lint --------------------------------
(***************************************************************************)
(* fms::lint::analyse: the second pass over a model that loads.  It looks  *)
(* for states no path leads to, states nothing leaves, triggers no state   *)
(* lists, and alternatives that can never be taken, and reports them in a  *)
(* vector of bounded size.                                                 *)
(*                                                                         *)
(* Each loop of the code is a loop here: one step for each state popped    *)
(* from the search's stack, and one for each place a check comes to.  The  *)
(* order of states pushed together is left open (SetToSeq).  A fold over   *)
(* a guard's conditions is written over the set of them; int32 is kIntMin  *)
(* .. kIntMax, and the bounds just outside of it are integers as well.     *)
(***************************************************************************)
EXTENDS Model, SequencesExt

CONSTANTS
  kMaxFindings,     \* limits.hpp: the capacity of a report
  kMaxArguments,    \* limits.hpp: the pairs an Args holds
  kIntMin, kIntMax, \* the numbers a literal or an argument can be
  Spaced,           \* the names and words that have a space in them
  Models,           \* the models that may be analysed
  Arguments         \* what inputs may carry when such a model runs

IsValue(v) == (\E n \in kIntMin .. kIntMax : v = Number(n)) \/ v = Word(v.word)
Comparison == {c \in [arg : STRING, op : {"==", "!=", "<", "<=", ">", ">="},
                      numeric : BOOLEAN, number : kIntMin .. kIntMax, literal : STRING] :
                 /\ c.arg # NoName /\ {c.arg, c.literal} \cap LongNames = {}
                 /\ c.op \in {"==", "!="} \/ c.numeric
                 /\ IF c.numeric THEN c.literal = "" ELSE c.number = 0 /\ c.literal # ""}

\* The loader and the build operations see to this.
Loadable(m) ==
  /\ WellTyped(m) /\ Validate(m) = "Ok"
  /\ m.conditions \in Seq(Comparison)
  /\ IsFiniteSet(DOMAIN m.states) /\ Cardinality(DOMAIN m.states) <= kMaxStates

ASSUME ModelsAssumption == \A m \in Models : Loadable(m)

\* What Args::parse can make of a text, however long it is.  It takes every space
\* for the end of a word; parse_condition takes only those around an operand away.
Parsed(args) ==
  /\ IsFiniteSet(DOMAIN args) /\ Cardinality(DOMAIN args) <= kMaxArguments
  /\ \A key \in DOMAIN args :
       /\ key # NoName /\ key \notin LongNames /\ key \notin Spaced
       /\ IsValue(args[key]) /\ args[key].word \notin Spaced

ASSUME ArgumentsAssumption == kMaxArguments \in Nat /\ \A args \in Arguments : Parsed(args)

ASSUME SpacesAssumption == NoName \notin Spaced

ASSUME NumbersAssumption == 0 \in kIntMin .. kIntMax /\ kIntMin \in Int /\ kIntMax \in Int

ASSUME FindingsAssumption == kMaxFindings \in Nat

VARIABLES
  model, initial,   \* what analyse() is given; kNoState when there is no setup
  stage, todo,      \* the check it is at, and the places that check has left
  pending, reached, \* the search: the stack, and the states with a flag
  visited,          \* history: the states popped
  report, room,     \* the Report, and whether all of it fitted so far
  found             \* history: every finding, the dropped ones included

given   == <<model, initial>>
search  == <<pending, reached, visited>>
outcome == <<report, room, found>>
vars    == <<given, stage, todo, search, outcome>>

-----------------------------------------------------------------------------
(* What the model says. *)

Listed(m, s, t) == m.states[s].transitions[t]

AlternativesOf(m, s) ==
  UNION {ToSet(Listed(m, s, t)) : t \in DOMAIN m.states[s].transitions}

\* Guards aside: what any alternative of the state leads to.
Targets(m, s) == {a.target : a \in AlternativesOf(m, s)}

ConditionsOf(m, a) == {m.conditions[a.first + i] : i \in 1 .. a.count}

-----------------------------------------------------------------------------
(* Guards. *)

\* A mistake FirstAbove must not make: the bound itself is allowed.
BoundItself(n) == n

\* The least number a strict comparison leaves, past int32 when it leaves none.
FirstAbove(n) == n + 1

\* Every condition about one argument, folded together.  required holds more
\* than one word when two requirements disagree.
FactsOf(conditions, argument) ==
  LET about        == {c \in conditions : c.arg = argument}
      numbers(ops) == {c.number : c \in {d \in about : d.numeric /\ d.op \in ops}}
      words(op)    == {c.literal : c \in {d \in about : ~d.numeric /\ d.op = op}}
  IN [low       |-> Max({kIntMin} \cup numbers({"==", ">="})
                                  \cup {FirstAbove(n) : n \in numbers({">"})}),
      high      |-> Min({kIntMax} \cup numbers({"==", "<="}) \cup {n - 1 : n \in numbers({"<"})}),
      excluded  |-> numbers({"!="}),
      numeric   |-> \E c \in about : c.numeric,
      required  |-> words("=="),
      forbidden |-> words("!=")]

\* No value satisfies what was folded.  The code compares the size of the range
\* with the number of distinct values excluded inside it.
Unsatisfiable(facts) ==
  \/ facts.low > facts.high
  \/ \E w, v \in facts.required : w # v
  \/ facts.required # {} /\ facts.numeric
  \/ facts.required \cap facts.forbidden # {}
  \/ facts.low .. facts.high \subseteq facts.excluded

GuardImpossible(m, a) ==
  /\ a.first + a.count <= Len(m.conditions)
  /\ \E c \in ConditionsOf(m, a) : Unsatisfiable(FactsOf(ConditionsOf(m, a), c.arg))

\* A mistake Implies must not make: the guards are compared the wrong way round.
IsImplied(m, earlier, later) == ConditionsOf(m, later) \subseteq ConditionsOf(m, earlier)

\* Every condition of the earlier alternative is one of the later.  Slices are
\* inside the pool, since the model loads.
Implies(m, earlier, later) == ConditionsOf(m, earlier) \subseteq ConditionsOf(m, later)

-----------------------------------------------------------------------------
(* What each check looks at, and what it finds there. *)

Finding(check, s, t, i, other) ==
  [check |-> check, state |-> s, trigger |-> t, alternative |-> i, other |-> other]

\* A mistake DeadEnd must not make: one way back is enough.
ComesBack(m, s) == s \in Targets(m, s)

DeadEnd(m, s) == Targets(m, s) \subseteq {s}

Used(m, t) == \E s \in DOMAIN m.states : t \in DOMAIN m.states[s].transitions

\* At most one finding for an alternative, the most fundamental one.
AboutAlternative(m, s, t, i) ==
  LET list      == Listed(m, s, t)
      fallbacks == {j \in 1 .. i - 1 : list[j].count = 0}
      shadows   == {j \in 1 .. i - 1 : Implies(m, list[j], list[i])}
  IN IF fallbacks # {} THEN <<Finding("UnreachableAlternative", s, t, i, Min(fallbacks))>>
     ELSE IF list[i].count = 0 THEN <<>>
     ELSE IF GuardImpossible(m, list[i]) THEN <<Finding("ImpossibleGuard", s, t, i, 0)>>
     ELSE IF shadows # {} THEN <<Finding("ShadowedAlternative", s, t, i, Min(shadows))>>
     ELSE <<>>

\* The loops of a check, as the set of places they come to: state, trigger,
\* alternative, with 0 for what a check does not tell apart.
Places(m, check) ==
  CASE check \in {"unreachable", "deadEnds"} -> {<<s, 0, 0>> : s \in DOMAIN m.states}
    [] check = "unused"       -> {<<0, t, 0>> : t \in DOMAIN m.triggers}
    [] check = "alternatives" ->
         UNION {UNION {{<<s, t, i>> : i \in DOMAIN Listed(m, s, t)} :
                          t \in DOMAIN m.states[s].transitions} : s \in DOMAIN m.states}
    [] OTHER -> {}

\* The order of the loops: the maps by id, the lists from their start.
Before(x, y) ==
  \/ x[1] < y[1]
  \/ x[1] = y[1] /\ x[2] < y[2]
  \/ x[1] = y[1] /\ x[2] = y[2] /\ x[3] < y[3]

FoundAt(m, flagged, check, place) ==
  LET s == place[1]  t == place[2]  i == place[3] IN
  CASE check = "unreachable" ->
         IF s \in flagged THEN <<>> ELSE <<Finding("UnreachableState", s, kNoTrigger, 0, 0)>>
    [] check = "deadEnds" ->
         IF DeadEnd(m, s) THEN <<Finding("DeadEndState", s, kNoTrigger, 0, 0)>> ELSE <<>>
    [] check = "unused" ->
         IF Used(m, t) THEN <<>> ELSE <<Finding("UnusedTrigger", kNoState, t, 0, 0)>>
    [] OTHER -> AboutAlternative(m, s, t, i)

FollowedBy(check) ==
  CASE check = "unreachable" -> "deadEnds"
    [] check = "deadEnds"    -> "unused"
    [] check = "unused"      -> "alternatives"
    [] OTHER                 -> "done"

SeverityOf(check) ==
  IF check \in {"DeadEndState", "UnusedTrigger"} THEN "Warning" ELSE "Error"

HasErrors(findings) == \E f \in ToSet(findings) : SeverityOf(f.check) = "Error"

\* What the program returns for --check and --lint.
ExitCode == IF HasErrors(report) THEN 1 ELSE 0

AnalyseStatus == IF room THEN "Ok" ELSE "CapacityExceeded"

-----------------------------------------------------------------------------

Init ==
  /\ model \in Models
  /\ initial \in DOMAIN model.states \cup {kNoState}
  /\ stage = "begin" /\ todo = {}
  /\ pending = <<>> /\ reached = {} /\ visited = {}
  /\ report = <<>> /\ room = TRUE /\ found = <<>>

\* A check starts with all its places before it.
Enter(check) == stage' = check /\ todo' = Places(model, check)

\* A mistake CanSearch must not make: the initial state is not looked at.
AnyInitial == TRUE

CanSearch == initial # kNoState /\ HasState(model, initial)

SkipSearch ==
  /\ stage = "begin" /\ ~CanSearch
  /\ Enter("deadEnds")
  /\ UNCHANGED <<given, search, outcome>>

BeginSearch ==
  /\ stage = "begin" /\ CanSearch
  /\ stage' = "search" /\ UNCHANGED todo
  /\ pending' = <<initial>> /\ reached' = {initial}
  /\ UNCHANGED <<given, visited, outcome>>

\* Mistakes Fresh must not make: a state is flagged only when it is popped; and
\* only one of a state's alternatives is followed.
NotYetPopped(from) == Targets(model, from) \ (visited \cup {from})
FirstTarget(from)  == {t \in Targets(model, from) \ reached :
                         \A u \in Targets(model, from) : t <= u}

\* What a state leads to that has no flag yet.
Fresh(from) == Targets(model, from) \ reached

Visit ==
  /\ stage = "search" /\ pending # <<>>
  /\ LET from == Last(pending) IN
     /\ pending' = Front(pending) \o SetToSeq(Fresh(from))
     /\ reached' = reached \cup Fresh(from)
     /\ visited' = visited \cup {from}
  /\ UNCHANGED <<given, stage, todo, outcome>>

SearchEnds ==
  /\ stage = "search" /\ pending = <<>>
  /\ Enter("unreachable")
  /\ UNCHANGED <<given, search, outcome>>

\* record(): a finding that does not fit is dropped, and said to be.
Record(finding) ==
  /\ found' = Append(found, finding)
  /\ IF Len(report) >= kMaxFindings
     THEN room' = FALSE /\ UNCHANGED report
     ELSE report' = Append(report, finding) /\ UNCHANGED room

\* One turn of the loop of a check.
Check(place) ==
  LET findings == FoundAt(model, reached, stage, place) IN
  /\ \A other \in todo \ {place} : Before(place, other)
  /\ todo' = todo \ {place}
  /\ IF findings = <<>> THEN UNCHANGED outcome ELSE Record(findings[1])
  /\ UNCHANGED <<given, search, stage>>

CheckEnds ==
  /\ stage \in {"unreachable", "deadEnds", "unused", "alternatives"} /\ todo = {}
  /\ Enter(FollowedBy(stage))
  /\ UNCHANGED <<given, search, outcome>>

Next ==
  \/ SkipSearch \/ BeginSearch \/ Visit \/ SearchEnds
  \/ \E place \in todo : Check(place)
  \/ CheckEnds

Spec == Init /\ [][Next]_vars

-----------------------------------------------------------------------------
(* Properties. *)

\* The stack, the flags and the report hold what their arrays can, and the
\* report nothing that was not found.
TypeOK ==
  /\ Loadable(model)
  /\ initial \in DOMAIN model.states \cup {kNoState}
  /\ stage \in {"begin", "search", "unreachable", "deadEnds", "unused", "alternatives", "done"}
  /\ todo \subseteq Places(model, stage)
  /\ pending \in Seq(DOMAIN model.states)
  /\ reached \subseteq DOMAIN model.states /\ visited \subseteq DOMAIN model.states
  /\ \A log \in {report, found} : log \in Seq(ToSet(found))
  /\ Len(report) <= kMaxFindings

\* The stack is as large as the table of states, so no state may be pushed
\* twice: what is on it is distinct, flagged, and not popped before.
SearchVisitsOnce ==
  /\ \A i, j \in DOMAIN pending : pending[i] = pending[j] => i = j
  /\ ToSet(pending) \cap visited = {}
  /\ reached = ToSet(pending) \cup visited
  /\ Len(pending) <= kMaxStates

Reported(check) == {f \in ToSet(report) : f.check = check}

\* A set of states that no transition leaves, whatever its guard, and that the
\* machine starts in.
Encloses(S) == initial \in S /\ \A s \in S : Targets(model, s) \subseteq S

\* The states the search flags are those that every enclosing set has: it stops
\* neither early nor late.  One that is not flagged is reported, room allowing.
ReachabilityIsExact ==
  stage \notin {"begin", "search", "unreachable"} /\ CanSearch =>
    /\ Encloses(reached)
    /\ \A S \in SUBSET DOMAIN model.states : Encloses(S) => reached \subseteq S
    /\ \A f \in Reported("UnreachableState") : f.state \notin reached
    /\ room => DOMAIN model.states \ reached = {f.state : f \in Reported("UnreachableState")}

\* The alternative Evaluate takes.
Takes(s, t, i, args) ==
  LET holding == {j \in DOMAIN Listed(model, s, t) :
                    AlternativeHolds(model, Listed(model, s, t)[j], args)}
  IN i \in holding /\ i = FirstOf(holding)

\* An alternative reported for any of the three reasons is one the machine
\* takes for no arguments at all.
ReportedIsNeverTaken ==
  \A f \in ToSet(report) :
    f.check \in {"UnreachableAlternative", "ImpossibleGuard", "ShadowedAlternative"} =>
      \A args \in Arguments : ~Takes(f.state, f.trigger, f.alternative, args)

\* A machine in a state reported as a dead end, or given an input whose trigger
\* is reported unused, does not leave the state it is in.
ReportedGoesNowhere ==
  \A f \in ToSet(report), s \in DOMAIN model.states, t \in DOMAIN model.triggers,
     args \in Arguments :
    \/ f.check = "DeadEndState" /\ f.state = s
    \/ f.check = "UnusedTrigger" /\ f.trigger = t
    => Evaluate(model, s, t, args).target \in {s, kNoState}

\* The arguments a guard can be answered with: for each name it has, a number or
\* one of the words it asks for.
Replies(m, a) ==
  LET conditions == ConditionsOf(m, a)
      asked      == {c \in conditions : ~c.numeric /\ c.op = "=="}
  IN [{c.arg : c \in conditions} ->
        {Number(n) : n \in kIntMin .. kIntMax} \cup {Word(c.literal) : c \in asked}]

\* A guard that an input can answer as far as the texts go: no name and no word it
\* asks for has a space, and its names fit in an Args.
Answerable(m, a) ==
  LET conditions == ConditionsOf(m, a) IN
  /\ Cardinality({c.arg : c \in conditions}) <= kMaxArguments
  /\ \A c \in conditions :
       c.arg \notin Spaced /\ (~c.numeric /\ c.op = "==" => c.literal \notin Spaced)

\* What a passing run that kept everything vouches for: there is a path to each
\* state, nothing is behind a fallback, and each guard holds for some arguments
\* that Args::parse can make - except a guard whose names or words it cannot make,
\* which the analysis lets pass, and which no input ever meets.
CleanVouches ==
  stage = "done" /\ AnalyseStatus = "Ok" /\ ExitCode = 0 =>
    /\ CanSearch => reached = DOMAIN model.states
    /\ \A s \in DOMAIN model.states : \A t \in DOMAIN model.states[s].transitions :
         LET list == Listed(model, s, t) IN
         \A i \in DOMAIN list :
           /\ i < Len(list) => list[i].count > 0
           /\ IF Answerable(model, list[i])
              THEN \E args \in Replies(model, list[i]) :
                     Parsed(args) /\ AlternativeHolds(model, list[i], args)
              ELSE \A args \in Arguments : ~AlternativeHolds(model, list[i], args)

\* What the program says of its exit code: 1 when the linter found an error.
ExitCodeTellsErrors == stage = "done" /\ HasErrors(found) => ExitCode = 1
=============================================================================
