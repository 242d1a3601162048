------------------------------- MODULE Loader -------------------------------
(***************************************************************************)
(* One call of load_machine_* or load_setup_*: the passes over a document  *)
(* that fill a Model or a Setup, each of which may find something to       *)
(* refuse, or throw, with part of the target built.                        *)
(*                                                                         *)
(* A document is the tree yaml-cpp makes of it.  What is left to do is a   *)
(* list of parts of that tree, the innermost loop's first, so each step is *)
(* one turn of one loop of the code.  Line numbers, the wording of         *)
(* diagnostics and the label of a machine file are left out.               *)
(***************************************************************************)
EXTENDS Model

CONSTANTS
  kMaxConditionsPerGuard,
  Readings,       \* what parse_condition makes of the texts it accepts
  Nodes,          \* the nodes of the documents
  Sources,        \* what the two functions are given
  Formers         \* what the target may hold before

ASSUME GuardAssumption == kMaxConditionsPerGuard \in Nat

-----------------------------------------------------------------------------
(* yaml-cpp, as the loader uses it. *)

Absent       == [kind |-> "absent"]
Blank        == [kind |-> "null"]
Scalar(text) == [kind |-> "scalar", text |-> text]
List(items)  == [kind |-> "sequence", items |-> items]
Map(pairs)   == [kind |-> "map", pairs |-> pairs]

Defined(node) == node # Absent
IsMap(node)   == node.kind = "map"
IsList(node)  == node.kind = "sequence"

\* node[key]: the first pair with that key.  Nothing but a map has any; a scalar
\* throws, and is never asked.
Child(node, key) ==
  LET hits == IF IsMap(node) THEN {i \in DOMAIN node.pairs : node.pairs[i][1] = Scalar(key)}
                             ELSE {} IN
  IF hits = {} THEN Absent ELSE node.pairs[FirstOf(hits)][2]

\* as<std::string>() throws for a list or a map; a null reads as "null".
Readable(node) == node.kind \in {"scalar", "null"}
TextOf(node)   == IF node = Blank THEN "null" ELSE node.text

ASSUME NodesAssumption ==
  \A node \in Nodes :
    \/ node = Blank
    \/ node.kind = "scalar" /\ node = Scalar(node.text)
    \/ IsList(node) /\ node.items \in Seq(Nodes)
    \/ IsMap(node) /\ node.pairs \in Seq(Nodes \X Nodes)

\* A null pointer; a file that cannot be opened, or not read; text yaml-cpp
\* throws at; or a tree.
ASSUME SourcesAssumption ==
  \A source \in Sources :
    /\ source.given \in {"null", "missing", "unreadable", "malformed", "tree"}
    /\ source.root \in Nodes

-----------------------------------------------------------------------------

VARIABLES
  file,           \* "machine" or "setup"
  source,         \* what was given
  target,         \* the Model or the Setup
  former,         \* history: what the target held before
  stage,          \* "called", "parsing" or "done"
  todo,           \* the parts of the document that are left
  status          \* what the call returned

vars == <<file, source, target, former, stage, todo, status>>

Fields     == {"state_channel", "error_channel", "endpoint", "identity"}
EmptySetup == [name |-> NoName, initial |-> NoName, io |-> [field \in Fields |-> NoName]]
Empty      == IF file = "machine" THEN EmptyModel ELSE EmptySetup

Init ==
  /\ file \in {"machine", "setup"} /\ source \in Sources
  /\ target \in Formers[file] /\ former = target
  /\ stage = "called" /\ todo = <<>> /\ status = "Ok"

Part(what, node) ==
  [what |-> what, node |-> node, key |-> Absent, from |-> kNoState, trigger |-> kNoTrigger]

Parts(what, nodes) == [i \in 1 .. Len(nodes) |-> Part(what, nodes[i])]

\* The turn of a loop that comes next.
Comes(what) == stage = "parsing" /\ todo # <<>> /\ Head(todo).what = what

GoesOn(with, parts) ==
  /\ target' = with /\ todo' = parts \o Tail(todo)
  /\ UNCHANGED <<file, source, former, stage, status>>

\* A mistake Ends must not make: what was built before the refusal stays.
LeavesTheRest(answer) ==
  /\ stage' = "done" /\ status' = answer /\ todo' = <<>>
  /\ UNCHANGED <<file, source, former, target>>

\* The call returns.  A target that is not complete is cleared, whether a pass
\* refused the document or an exception was caught.
Ends(answer) ==
  /\ stage' = "done" /\ status' = answer /\ todo' = <<>>
  /\ target' = IF answer = "Ok" THEN target ELSE Empty
  /\ UNCHANGED <<file, source, former>>

Unless(refusal, with, parts) ==
  IF refusal = "Ok" THEN GoesOn(with, parts) ELSE Ends(refusal)

\* A build operation has answered.
Takes(answer) == Unless(answer.status, answer.model, <<>>)

-----------------------------------------------------------------------------
(* The entry points, and guarded(). *)

RefuseNull ==
  /\ stage = "called" /\ source.given = "null"
  /\ stage' = "done" /\ status' = "InvalidArgument"
  /\ UNCHANGED <<file, source, former, target, todo>>

RefuseSource ==
  /\ stage = "called" /\ source.given \in {"missing", "unreadable", "malformed"}
  /\ Ends(CASE source.given = "missing"    -> "FileNotFound"
            [] source.given = "unreadable" -> "FileNotReadable"
            [] OTHER                       -> "ParseError")

Open ==
  /\ stage = "called" /\ source.given = "tree"
  /\ stage' = "parsing" /\ target' = Empty /\ todo' = <<Part("root", source.root)>>
  /\ UNCHANGED <<file, source, former, status>>

\* All is read.  A model has yet to be validated as a whole.
Complete ==
  /\ stage = "parsing" /\ todo = <<>>
  /\ Ends(IF file = "machine" THEN Validate(target) ELSE "Ok")

\* A text with a place to go to, which the document need not have.
FitStatus(node, tooLong) ==
  IF ~Defined(node) THEN "Ok"
  ELSE IF ~Readable(node) THEN "ParseError"
  ELSE IF TextOf(node) \in LongNames THEN tooLong
  ELSE "Ok"

-----------------------------------------------------------------------------
(* The machine file: triggers, then states, then what leads from one to the *)
(* other.                                                                   *)

MachineRootStatus(root) ==
  IF ~IsMap(root) \/ Defined(Child(root, "io")) THEN "SchemaError"
  ELSE LET fsm == Child(root, "fsm") IN
       IF Defined(Child(fsm, "initial")) THEN "SchemaError"
       ELSE FitStatus(Child(fsm, "name"), "NameTooLong")

MachineRoot ==
  /\ file = "machine" /\ Comes("root")
  /\ LET root == Head(todo).node
         refusal == MachineRootStatus(root) IN
     IF refusal # "Ok" THEN Ends(refusal)
     ELSE GoesOn(target, <<Part("triggers", Child(root, "triggers")),
                           Part("states", Child(root, "states"))>>)

SectionStatus(node) == IF IsList(node) /\ Len(node.items) > 0 THEN "Ok" ELSE "SchemaError"

EntryStatus(entry) ==
  IF ~IsMap(entry) THEN "SchemaError"
  ELSE IF ~Defined(Child(entry, "name")) THEN "SchemaError"
  ELSE IF ~Readable(Child(entry, "name")) THEN "ParseError"
  ELSE "Ok"

NameOf(entry)    == TextOf(Child(entry, "name"))
ChannelIn(entry) ==
  IF Defined(Child(entry, "channel")) THEN TextOf(Child(entry, "channel")) ELSE NoName

Triggers ==
  /\ Comes("triggers")
  /\ LET node == Head(todo).node IN
     IF SectionStatus(node) # "Ok" THEN Ends("SchemaError")
     ELSE GoesOn(target, Parts("trigger", node.items))

TriggerEntry ==
  /\ Comes("trigger")
  /\ LET entry == Head(todo).node IN
     IF EntryStatus(entry) # "Ok" THEN Ends(EntryStatus(entry))
     ELSE IF Defined(Child(entry, "channel")) /\ ~Readable(Child(entry, "channel"))
     THEN Ends("ParseError")
     ELSE Takes(DeclareTrigger(target, NameOf(entry), ChannelIn(entry)))

\* A mistake Passes must not make: a state is linked as soon as it is declared.
OnePass(entries) ==
  [i \in 1 .. 2 * Len(entries) |->
     IF i % 2 = 1 THEN Part("state", entries[(i + 1) \div 2]) ELSE Part("links", entries[i \div 2])]

\* All states are declared before any is linked.
Passes(entries) == Parts("state", entries) \o Parts("links", entries)

States ==
  /\ Comes("states")
  /\ LET node == Head(todo).node IN
     IF SectionStatus(node) # "Ok" THEN Ends("SchemaError")
     ELSE GoesOn(target, Passes(node.items))

StateEntry ==
  /\ Comes("state")
  /\ LET entry == Head(todo).node IN
     IF EntryStatus(entry) # "Ok" THEN Ends(EntryStatus(entry))
     ELSE Takes(DeclareState(target, NameOf(entry)))

\* The transitions of a state, if it has any.
Links ==
  /\ Comes("links")
  /\ LET entry       == Head(todo).node
         transitions == Child(entry, "transitions")
         from        == FindState(target, NameOf(entry)) IN
     IF ~Defined(transitions) THEN GoesOn(target, <<>>)
     ELSE IF ~IsMap(transitions) THEN Ends("SchemaError")
     ELSE GoesOn(target, [i \in 1 .. Len(transitions.pairs) |->
                            [Part("pair", transitions.pairs[i][2]) EXCEPT
                               !.key = transitions.pairs[i][1], !.from = from]])

\* The three spellings of what follows a trigger's name.
PairStatus(node) ==
  IF node.kind \in {"scalar", "map"} THEN "Ok" ELSE SectionStatus(node)

AlternativesIn(node) ==
  CASE node.kind = "scalar" -> Parts("plain", <<node>>)
    [] node.kind = "map"    -> Parts("alternative", <<node>>)
    [] OTHER                -> Parts("alternative", node.items)

Pair ==
  /\ Comes("pair")
  /\ LET part         == Head(todo)
         alternatives == AlternativesIn(part.node) IN
     IF ~Readable(part.key) THEN Ends("ParseError")
     ELSE IF FindTrigger(target, TextOf(part.key)) = kNoTrigger THEN Ends("UnknownTrigger")
     ELSE IF PairStatus(part.node) # "Ok" THEN Ends("SchemaError")
     ELSE GoesOn(target, [i \in 1 .. Len(alternatives) |->
                            [alternatives[i] EXCEPT
                               !.from    = part.from,
                               !.trigger = FindTrigger(target, TextOf(part.key))]])

\* The transition of the part that comes, to the state with that name.
LinkTo(name, conditions) ==
  IF FindState(target, name) = kNoState THEN Ends("UnknownState")
  ELSE Takes(AddTransition(target, Head(todo).from, Head(todo).trigger,
                           FindState(target, name), conditions))

Plain == Comes("plain") /\ LinkTo(TextOf(Head(todo).node), <<>>)

\* parse_when: one comparison or several.
ComparisonsIn(when) ==
  IF ~Defined(when) THEN <<>> ELSE IF IsList(when) THEN when.items ELSE <<when>>

\* A mistake ComparisonStatus must not make: the list is full one too late.
OneTooManyIn(node, i) ==
  IF ~Readable(node) THEN "ParseError"
  ELSE IF i > kMaxConditionsPerGuard + 1 THEN "CapacityExceeded"
  ELSE IF TextOf(node) \in DOMAIN Readings THEN "Ok"
  ELSE IF TextOf(node) \in LongNames THEN "NameTooLong"
  ELSE "SchemaError"

ComparisonStatus(node, i) ==
  IF ~Readable(node) THEN "ParseError"
  ELSE IF i > kMaxConditionsPerGuard THEN "CapacityExceeded"
  ELSE IF TextOf(node) \in DOMAIN Readings THEN "Ok"
  ELSE IF TextOf(node) \in LongNames THEN "NameTooLong"
  ELSE "SchemaError"

WhenStatus(when) ==
  LET nodes  == ComparisonsIn(when)
      failed == {i \in 1 .. Len(nodes) : ComparisonStatus(nodes[i], i) # "Ok"} IN
  IF Defined(when) /\ Len(nodes) = 0 THEN "SchemaError"
  ELSE IF failed = {} THEN "Ok"
  ELSE ComparisonStatus(nodes[FirstOf(failed)], FirstOf(failed))

\* A mistake Guard must not make: only the first of the comparisons is kept.
FirstOnly(when) ==
  LET nodes == ComparisonsIn(when) IN
  [i \in 1 .. (IF Len(nodes) > 0 THEN 1 ELSE 0) |-> Readings[TextOf(nodes[i])]]

Guard(when) ==
  LET nodes == ComparisonsIn(when) IN [i \in 1 .. Len(nodes) |-> Readings[TextOf(nodes[i])]]

AlternativeStatus(node) ==
  IF ~IsMap(node) THEN "SchemaError"
  ELSE IF ~Defined(Child(node, "target")) THEN "SchemaError"
  ELSE IF ~Readable(Child(node, "target")) THEN "ParseError"
  ELSE IF FindState(target, TextOf(Child(node, "target"))) = kNoState THEN "UnknownState"
  ELSE WhenStatus(Child(node, "when"))

AlternativeEntry ==
  /\ Comes("alternative")
  /\ LET node == Head(todo).node IN
     IF AlternativeStatus(node) # "Ok" THEN Ends(AlternativeStatus(node))
     ELSE LinkTo(TextOf(Child(node, "target")), Guard(Child(node, "when")))

-----------------------------------------------------------------------------
(* The setup file: who it is, where it starts, and what its port is told.   *)

SetupRootStatus(root) ==
  IF ~IsMap(root) \/ Defined(Child(root, "states")) \/ Defined(Child(root, "triggers"))
  THEN "SchemaError"
  ELSE IF ~IsMap(Child(root, "fsm")) THEN "SchemaError"
  ELSE IF ~Defined(Child(Child(root, "fsm"), "initial")) THEN "SchemaError"
  ELSE "Ok"

SetupRoot ==
  /\ file = "setup" /\ Comes("root")
  /\ LET root == Head(todo).node IN
     IF SetupRootStatus(root) # "Ok" THEN Ends("SchemaError")
     ELSE GoesOn(target, <<Part("name", Child(Child(root, "fsm"), "name")),
                           Part("initial", Child(Child(root, "fsm"), "initial")),
                           Part("io", Child(root, "io"))>>)

SetupName ==
  /\ Comes("name")
  /\ LET node == Head(todo).node IN
     Unless(FitStatus(node, "NameTooLong"),
            IF Defined(node) THEN [target EXCEPT !.name = TextOf(node)] ELSE target, <<>>)

InitialStatus(node) ==
  IF node = Scalar("") THEN "InvalidArgument" ELSE FitStatus(node, "NameTooLong")

SetupInitial ==
  /\ Comes("initial")
  /\ LET node == Head(todo).node IN
     Unless(InitialStatus(node), [target EXCEPT !.initial = TextOf(node)], <<>>)

FieldParts(io) ==
  [i \in 1 .. 4 |->
     LET field == <<"state_channel", "error_channel", "endpoint", "identity">>[i]
     IN [Part("field", Child(io, field)) EXCEPT !.key = Scalar(field)]]

SetupIo ==
  /\ Comes("io")
  /\ LET io == Head(todo).node IN
     IF ~Defined(io) THEN GoesOn(target, <<>>)
     ELSE IF ~IsMap(io) THEN Ends("SchemaError")
     ELSE GoesOn(target, FieldParts(io))

SetupField ==
  /\ Comes("field")
  /\ LET node  == Head(todo).node
         field == Head(todo).key.text IN
     Unless(FitStatus(node, IF field = "identity" THEN "NameTooLong" ELSE "ChannelTooLong"),
            IF Defined(node) THEN [target EXCEPT !.io[field] = TextOf(node)] ELSE target, <<>>)

Next ==
  \/ RefuseNull \/ RefuseSource \/ Open \/ Complete
  \/ MachineRoot \/ Triggers \/ TriggerEntry \/ States \/ StateEntry
  \/ Links \/ Pair \/ Plain \/ AlternativeEntry
  \/ SetupRoot \/ SetupName \/ SetupInitial \/ SetupIo \/ SetupField

Spec == Init /\ [][Next]_vars
=============================================================================
