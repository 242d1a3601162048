-------------------------- MODULE ProgramProperties --------------------------
(***************************************************************************)
(* What a user of the program may count on: what it was asked for, what    *)
(* it says while it runs, what it adds up when it stops, and that it stops. *)
(***************************************************************************)
EXTENDS Program

First(S) == CHOOSE p \in S : \A q \in S : p <= q
Final(S) == CHOOSE p \in S : \A q \in S : p >= q

\* The words after which nothing else is read.
Decisive(argv, inspect) ==
  {p \in DOMAIN argv :
     \/ argv[p] = "--version"
     \/ argv[p] \in {"--lint", "--export"} /\ ~inspect
     \/ argv[p] = "--export" /\ (p = Len(argv) \/ argv[p + 1] \notin Formats)}

\* The words that are neither an option nor the name of a format.
Given(argv) ==
  {p \in DOMAIN argv : argv[p] \notin Options /\ ~(p > 1 /\ argv[p - 1] = "--export")}

\* Those behind the first of them.
Later(argv) == {p \in Given(argv) : \E q \in Given(argv) : q < p}

SetupAsked(argv) ==
  IF Given(argv) = {} THEN "car.setup.yaml" ELSE argv[First(Given(argv))]
MachineAsked(argv) ==
  IF Later(argv) = {} THEN "car.machine.yaml" ELSE argv[Final(Later(argv))]

Asked(argv, option) == \E p \in DOMAIN argv : argv[p] = option

Drew == main.drawn # {}
Ran  == main.tally # {}

\* The program does what its command line asks, in whatever order the words
\* come: the version or a usage error before anything is read; then the two
\* files, the last path being the machine's; then one of a diagram, a check or
\* a session.  It exits 2, 1 and 0 for a usage error, for files that do not
\* load, do not fit or have an error the linter finds, and otherwise.
AsAsked ==
  In("exit") =>
    LET argv  == main.argv
        stops == Decisive(argv, main.inspect)
    IN  IF stops # {}
        THEN /\ main.exit = IF argv[First(stops)] = "--version" THEN 0 ELSE 2
             /\ setups = [o \in Object |-> EmptySetup] /\ ~Drew /\ ~Ran
        ELSE IF Holding(SetupAsked(argv), "setup") = {} \/ Holding(MachineAsked(argv), "machine") = {}
        THEN main.exit = 1 /\ ~Drew /\ ~Ran
        ELSE \E o \in Object :
          /\ setups[o] \in Holding(SetupAsked(argv), "setup")
          /\ models[o] \in Holding(MachineAsked(argv), "machine")
          /\ IF ValidateAgainst(setups[o], models[o]) # "Ok"
             THEN main.exit = 1 /\ ~Drew /\ ~Ran
             ELSE /\ Drew <=> Asked(argv, "--export")
                  /\ Ran <=> \A option \in {"--export", "--check", "--lint"} : ~Asked(argv, option)
                  /\ main.exit = IF ~Drew /\ ~Ran /\ main.inspect /\ Configured \in Faulty
                                 THEN 1 ELSE 0

\* Whatever model is drawn, a reader of the diagram goes where the machine goes,
\* for any arguments, and starts where it starts.
DrawsTheMachine ==
  \A picture \in main.drawn :
    /\ ReadsLike(picture, Configured[1], {text.args : text \in Texts})
    /\ picture.entry = {setups[machine.setup].initial}

-----------------------------------------------------------------------------

\* The state announced last among the first n words of a transcript.
Announced(told)    == {i \in DOMAIN told : told[i].kind = "state"}
CurrentIn(told, n) == told[Final({i \in Announced(told) : i <= n})].name

\* The lines that are to be answered, and which of them in turn a line is.
Answerable == {p \in DOMAIN heard : heard[p].kind \in {"long", "input"}}
Turn(p)    == Cardinality({q \in Answerable : q <= p})

\* What is to be said of such a line, in a state.
Reply(state, line) ==
  IF line.kind = "long" THEN TooLong
  ELSE LET move == Moves[state][line.input[1]] IN
       IF move = Refused THEN Complaint ELSE AState(move)

\* Between two lines, and at the end, what was said is the state the session
\* starts in and then one answer to each line in its turn, taken in the state that
\* was announced last: no line is lost, not a last one without a newline either,
\* and a line too long disturbs no other.  The answers are those in the table, for
\* the machine that the table describes.
TranscriptTold ==
  In("serve") \/ Ran =>
    /\ Len(said) = 1 + Cardinality(Answerable)
    /\ said[1] = AState(setups[machine.setup].initial)
    /\ IsTableOf(Configured[1]) =>
         \A p \in Answerable : said[1 + Turn(p)] = Reply(CurrentIn(said, Turn(p)), heard[p])

InputLines == {p \in DOMAIN heard : heard[p].kind = "input"}

\* Those with arguments that cannot be parsed, on a channel that there is.
BadLines ==
  {p \in InputLines : /\ heard[p].input[1].text.status # "Ok"
                      /\ FindTriggerForChannel(Configured[1], heard[p].input[1].channel) # kNoTrigger}

\* The numbers printed at the end, which come from counters of two objects, are
\* the numbers a reader of the session counts: announcements after the first,
\* lines that were inputs, and errors - but those for arguments that could not
\* be parsed count as received only.
SummaryAddsUp ==
  \A tally \in main.tally :
    /\ tally.state = CurrentIn(said, Len(said))
    /\ tally.transitions = Cardinality(Announced(said)) - 1
    /\ tally.inputs = Cardinality(InputLines)
    /\ tally.rejected + tally.unknown + Cardinality(BadLines)
         = Cardinality({i \in DOMAIN said : said[i].kind = "error"})

-----------------------------------------------------------------------------

\* The program waits for a line that may come.
AwaitsLine == Reading /\ ~console.eof /\ ~console.broken

\* The program ends, unless it is waiting for a line: at "quit", at the end of the
\* stream and after any failure it is on its way out, in every mode.
ProgramEnds == []<>(In("exit") \/ AwaitsLine)

\* port.hpp:75-76: receive() answers "Status::EndOfInput  - the source is exhausted
\* (EOF, peer closed)", and "anything else       - a real failure": the failure of
\* the source is answered.
FailureIsReported == console.broken ~> ~At("receive")
=============================================================================
