------------------------------- MODULE Program -------------------------------
(***************************************************************************)
(* The example program: main() of car_console, with the runtime it drives  *)
(* and the ConsolePort the runtime reads from.                             *)
(*                                                                         *)
(* main() reads its command line word by word, loads two files, binds them *)
(* and then draws, checks or runs them.  It shares the variables of        *)
(* Runtime, and takes its steps through the actions there; the console     *)
(* turns the lines of a stream into the inputs that arrive there.          *)
(***************************************************************************)
EXTENDS RuntimeProperties, Diagram

CONSTANTS
  CommandLines, \* the words the program may be called with
  Disk,         \* what is found under a path: a kind of file, and what it holds
  Faulty,       \* the <<model, initial state>> in which Lint finds an error
  Endings,      \* how a stream may end: "end" of it, or "broken"
  MaxLines      \* bound: lines a stream has

\* main() has one setup, one model and one machine, loads each file once, raises
\* nothing by name, and sets a hook that only prints; no call on ConsolePort fails
\* but listen, and receive.
ASSUME MainAssumption ==
  Conduct = {} /\ Names = {} /\ \E object \in Object : Object = {object}
ASSUME CommandAssumption == \A words \in CommandLines : words \in Seq(STRING)
ASSUME DiskAssumption ==
  \A path \in DOMAIN Disk :
    /\ Disk[path].kind \in {"setup", "machine"} /\ Disk[path].holds # {}
    /\ Disk[path].kind = "setup" => Disk[path].holds \subseteq LoadedSetups
    /\ Disk[path].kind = "machine" => Disk[path].holds \subseteq LoadedModels
ASSUME StreamAssumption == Endings \subseteq {"end", "broken"} /\ MaxLines \in Nat

VARIABLES
  main,    \* where main() is, and its local variables
  console, \* the state of the stream std::cin
  heard,   \* history: the lines read
  said     \* history: what was said, publications and complaints, in order

runtimeVars == vars
programVars == <<vars, main, console, heard, said>>

Options == {"--version", "--quiet", "--check", "--lint", "--export"}

\* inspect: the program was built with FMS_WITH_INSPECT.  drawn and tally: the
\* picture and the summary that were printed, if one was.
NewMain(words, inspect) ==
  [pc |-> "words", argv |-> words, inspect |-> inspect, next |-> 1, options |-> {},
   setup |-> "car.setup.yaml", machine |-> "car.machine.yaml", positional |-> 0,
   drawn |-> {}, tally |-> {}, exit |-> 0]

ProgramInit ==
  /\ Init
  /\ \E words \in CommandLines, inspect \in BOOLEAN : main = NewMain(words, inspect)
  /\ console = [eof |-> FALSE, fail |-> FALSE, broken |-> FALSE]
  /\ heard = <<>> /\ said = <<>>

In(pc)   == main.pc = pc
Goto(pc) == main' = [main EXCEPT !.pc = pc]
Exit(n)  == main' = [main EXCEPT !.pc = "exit", !.exit = n]

Quietly == UNCHANGED <<console, heard, said>>

-----------------------------------------------------------------------------
(* The command line *)

Argument  == main.argv[main.next]
Following == IF main.next < Len(main.argv) THEN main.argv[main.next + 1] ELSE ""

\* A mistake Consumed must not make: the name of the format is read once more.
OnlyItself(word) == 1

\* --export is read with the word behind it.
Consumed(word) == IF word = "--export" THEN 2 ELSE 1

ReadWord ==
  /\ In("words") /\ main.next <= Len(main.argv)
  /\ \/ /\ Argument = "--version"
        /\ Exit(0)
     \/ /\ Argument \in {"--lint", "--export"}
        /\ ~main.inspect \/ (Argument = "--export" /\ Following \notin Formats)
        /\ Exit(2)
     \/ /\ \/ Argument \in {"--quiet", "--check"}
           \/ Argument = "--lint" /\ main.inspect
           \/ Argument = "--export" /\ main.inspect /\ Following \in Formats
        /\ main' = [main EXCEPT !.options = @ \cup {Argument}, !.next = @ + Consumed(Argument)]
     \/ /\ Argument \notin Options
        /\ main' = [main EXCEPT !.next = @ + 1, !.positional = @ + 1,
                      !.setup   = IF main.positional = 0 THEN Argument ELSE @,
                      !.machine = IF main.positional = 0 THEN @ ELSE Argument]
  /\ Quietly /\ UNCHANGED runtimeVars

EndOfWords ==
  /\ In("words") /\ main.next > Len(main.argv)
  /\ Goto("setup")
  /\ Quietly /\ UNCHANGED runtimeVars

-----------------------------------------------------------------------------
(* The setup phase *)

Holding(path, kind) ==
  IF path \in DOMAIN Disk /\ Disk[path].kind = kind THEN Disk[path].holds ELSE {}

ReadSetup ==
  /\ In("setup")
  /\ \/ /\ Holding(main.setup, "setup") = {}
        /\ Exit(1) /\ UNCHANGED runtimeVars
     \/ \E s \in Object, setup \in Holding(main.setup, "setup") :
          LoadSetup(s, setup) /\ Goto("machine")
  /\ Quietly

ReadMachine ==
  /\ In("machine")
  /\ \/ /\ Holding(main.machine, "machine") = {}
        /\ Exit(1) /\ UNCHANGED runtimeVars
     \/ \E m \in Object, model \in Holding(main.machine, "machine") :
          LoadMachine(m, model) /\ Goto("bind")
  /\ Quietly

Bind ==
  /\ In("bind")
  /\ \E o \in Object : InitMachine(o, o)
  /\ IF result' = "Ok" THEN Goto("mode") ELSE Exit(1)
  /\ Quietly

\* The machine that was bound, and the state it starts in.
Configured == <<models[machine.model], machine.initial>>

\* A diagram is drawn whatever else was asked for.
Export ==
  /\ In("mode") /\ "--export" \in main.options
  /\ main' = [main EXCEPT !.pc = "exit", !.drawn = {Picture(Configured[1], Configured[2])}]
  /\ Quietly /\ UNCHANGED runtimeVars

LintExit == IF Configured \in Faulty THEN 1 ELSE 0

Check ==
  /\ In("mode") /\ "--export" \notin main.options
  /\ main.options \cap {"--check", "--lint"} # {}
  /\ Exit(IF main.inspect THEN LintExit ELSE 0)
  /\ Quietly /\ UNCHANGED runtimeVars

SetUpRuntime ==
  /\ In("mode") /\ main.options \cap {"--export", "--check", "--lint"} = {}
  /\ RuntimeInit
  /\ IF result' = "Ok" THEN Goto("start") ELSE Exit(1)
  /\ Quietly

-----------------------------------------------------------------------------
(* The run phase.  A call is made, and looked at once it has returned. *)

StartRuntime == In("start") /\ Start /\ Goto("starting") /\ Quietly

\* A start that fails ends the program without a stop.
Started ==
  /\ In("starting") /\ Idle
  /\ IF result = "Ok" THEN Goto("serve") ELSE Exit(1)
  /\ Quietly /\ UNCHANGED runtimeVars

CallService == In("serve") /\ Service /\ Goto("serving") /\ Quietly

\* A mistake Continues must not make: the end of the input is idle, too.
GoesOn(status) == status \in {"Ok", "EndOfInput"}

\* EndOfInput and a port's failure both end the loop.
Continues(status) == status = "Ok"

Served ==
  /\ In("serving") /\ Idle
  /\ Goto(IF Continues(result) THEN "serve" ELSE "stop")
  /\ Quietly /\ UNCHANGED runtimeVars

StopRuntime == In("stop") /\ Stop /\ Goto("stopping") /\ Quietly

\* A mistake Tally must not make: the runtime's rejections hold bad arguments.
RuntimesTally ==
  [state |-> CurrentName, transitions |-> machine.transitions, rejected |-> rt.rejected,
   inputs |-> rt.received, unknown |-> rt.unrouted]

\* The counters printed come from two objects.
Tally ==
  [state |-> CurrentName, transitions |-> machine.transitions, rejected |-> machine.rejections,
   inputs |-> rt.received, unknown |-> rt.unrouted]

Summary ==
  /\ In("stopping") /\ Idle
  /\ main' = [main EXCEPT !.pc = "exit", !.tally = {Tally}]
  /\ Quietly /\ UNCHANGED runtimeVars

-----------------------------------------------------------------------------
(* ConsolePort.  receive() reads lines until one of them is an input, or    *)
(* the end.  Blank lines and "help" are answered and passed over.           *)

Line(kind) == [kind |-> kind, input |-> <<>>]
Lines == {Line(kind) : kind \in {"blank", "help", "long", "quit"}} \cup
         {[kind |-> "input", input |-> <<input>>] : input \in Inputs}

Reading == At("receive") /\ ~port.ended /\ port.inbox = <<>> /\ ~console.fail

\* What the next read may find.
Upcoming ==
  IF console.eof THEN {Line("end")}
  ELSE IF console.broken THEN {Line("broken")}
  ELSE {Line(ending) : ending \in Endings} \cup IF Len(heard) < MaxLines THEN Lines ELSE {}

\* A mistake EndsSession must not make: a last line without a newline is lost.
EofEndsSession(line, last) == line.kind \in {"quit", "end"} \/ last

EndsSession(line, last) == line.kind \in {"quit", "end"}

\* getline fails on a line that is too long, and on a stream that does.
Fails(line) == line.kind \in {"long", "broken"}

\* `last`: the stream ends where the line does, without a newline.
GetLine ==
  /\ Reading
  /\ \E line \in Upcoming, last \in BOOLEAN :
       /\ console' = [eof    |-> line.kind = "end" \/ (last /\ line.kind # "broken"),
                      fail   |-> Fails(line),
                      broken |-> line.kind = "broken"]
       /\ heard' = IF line.kind \in {"end", "broken"} THEN heard ELSE Append(heard, line)
       /\ IF EndsSession(line, last) THEN EndInput
          ELSE IF line.kind = "input" THEN Deliver(line.input[1])
          ELSE UNCHANGED runtimeVars
  /\ UNCHANGED <<main, said>>

\* What the outside reads: the state that was entered, or that there was an error.
Complaint   == AnError(NoName)
TooLong     == [kind |-> "long", name |-> NoName]
Spoken(say) == IF say.kind = "state" THEN say ELSE Complaint

\* clear(), ignore the rest of the line, complain, and read again.  (Bound: a
\* complaint beyond what a stream of MaxLines lines calls for is not noted.)
Recover ==
  /\ At("receive") /\ console.fail
  /\ console' = [console EXCEPT !.fail = FALSE]
  /\ said' = IF Len(said) <= MaxLines + 1 THEN Append(said, TooLong) ELSE said
  /\ UNCHANGED <<runtimeVars, main, heard>>

\* Any other step of a call of the runtime.
StepRuntime ==
  /\ At("receive") => port.inbox # <<>> \/ port.ended
  /\ RuntimeStep
  /\ said' = IF At("publish") /\ call.say.kind # "nothing"
             THEN Append(said, Spoken(call.say)) ELSE said
  /\ UNCHANGED <<main, console, heard>>

-----------------------------------------------------------------------------

MainStep ==
  \/ ReadWord \/ EndOfWords \/ ReadSetup \/ ReadMachine \/ Bind \/ Export \/ Check
  \/ SetUpRuntime \/ StartRuntime \/ Started \/ CallService \/ Served \/ StopRuntime
  \/ Summary

ProgramNext == MainStep \/ StepRuntime \/ Recover \/ GetLine

ProgramSpec == ProgramInit /\ [][ProgramNext]_programVars

\* Nothing suspends the thread but a read, and a read of a stream that has ended
\* or that is broken returns.  Whoever types need not type anything.
FairProgramSpec ==
  /\ ProgramSpec
  /\ WF_programVars(MainStep \/ StepRuntime \/ Recover)
  /\ WF_programVars((console.eof \/ console.broken) /\ GetLine)
=============================================================================
