---------------------------- MODULE LoaderProofs ----------------------------
(***************************************************************************)
(* What holds of a load for every document, every capacity and whatever    *)
(* the target held before.                                                 *)
(***************************************************************************)
EXTENDS LoaderProperties, ModelProofs

-----------------------------------------------------------------------------
(* A document's nodes. *)

Node == Nodes \cup {Absent}

\* The parts of a node are nodes.
LEMMA ItemsAreNodes ==
  ASSUME NEW node \in Node, IsList(node)
  PROVE  node.items \in Seq(Nodes)
BY NodesAssumption DEF Node, IsList, IsMap, Absent, Blank, Scalar

\* And the keys and values of a map.
LEMMA PairsAreNodes ==
  ASSUME NEW node \in Node, IsMap(node)
  PROVE  node.pairs \in Seq(Nodes \X Nodes)
BY NodesAssumption DEF Node, IsList, IsMap, Absent, Blank, Scalar

\* A lookup by key finds a node of the document or nothing.
LEMMA ChildIsNode ==
  ASSUME NEW node \in Node, NEW key
  PROVE  Child(node, key) \in Node
<1> DEFINE hits == IF IsMap(node) THEN {i \in DOMAIN node.pairs : node.pairs[i][1] = Scalar(key)}
                                  ELSE {}
<1>1. CASE hits = {}
  BY <1>1 DEF Child, Node
<1>2. CASE hits # {}
  <2>1. node.pairs \in Seq(Nodes \X Nodes)
    BY <1>2, PairsAreNodes
  <2>2. hits \subseteq DOMAIN node.pairs /\ DOMAIN node.pairs = 1 .. Len(node.pairs)
        /\ Len(node.pairs) \in Nat
    BY <2>1
  <2>3. hits \in SUBSET Nat
    BY <2>2
  <2>4. \E i \in hits : \A j \in hits : i <= j
    BY <1>2, <2>3, Least
  <2>5. FirstOf(hits) \in hits
    BY <2>4 DEF FirstOf
  <2>6. FirstOf(hits) \in 1 .. Len(node.pairs)
    BY <2>2, <2>5
  <2>7. node.pairs[FirstOf(hits)] \in Nodes \X Nodes
    BY <2>1, <2>6, ElementOfSeq
  <2>8. node.pairs[FirstOf(hits)][2] \in Nodes
    BY <2>7
  <2> QED
    BY <1>2, <2>8 DEF Child, Node
<1> QED
  BY <1>1, <1>2

\* Written alone or in a list.
LEMMA ComparisonsAreNodes ==
  ASSUME NEW when \in Node
  PROVE  ComparisonsIn(when) \in Seq(Node)
<1>1. CASE ~Defined(when)
  BY <1>1 DEF ComparisonsIn
<1>2. CASE Defined(when) /\ IsList(when)
  BY <1>2, ItemsAreNodes DEF ComparisonsIn, Node
<1>3. CASE Defined(when) /\ ~IsList(when)
  BY <1>3 DEF ComparisonsIn
<1> QED
  BY <1>1, <1>2, <1>3

\* What parse_condition can make.
Conditions == {Readings[text] : text \in DOMAIN Readings}

\* A guard that is accepted is read whole, each comparison to a condition, and
\* has no more of them than a guard may.
LEMMA GuardRead ==
  ASSUME NEW when \in Node, WhenStatus(when) = "Ok"
  PROVE  Guard(when) \in Seq(Conditions) /\ Len(Guard(when)) <= kMaxConditionsPerGuard
<1> DEFINE nodes  == ComparisonsIn(when)
           failed == {i \in 1 .. Len(nodes) : ComparisonStatus(nodes[i], i) # "Ok"}
<1>1. nodes \in Seq(Node) /\ Len(nodes) \in Nat
  BY ComparisonsAreNodes
<1>2. failed = {}
  <2> SUFFICES ASSUME failed # {} PROVE FALSE
    OBVIOUS
  <2>1. failed \in SUBSET Nat
    BY <1>1
  <2>2. \E i \in failed : \A j \in failed : i <= j
    BY <2>1, Least
  <2>3. FirstOf(failed) \in failed
    BY <2>2 DEF FirstOf
  <2>4. ComparisonStatus(nodes[FirstOf(failed)], FirstOf(failed)) # "Ok"
    BY <2>3
  <2> QED
    BY <2>4 DEF WhenStatus
<1>3. \A i \in 1 .. Len(nodes) : TextOf(nodes[i]) \in DOMAIN Readings
  BY <1>2 DEF ComparisonStatus
<1>4. \A i \in 1 .. Len(nodes) : Readings[TextOf(nodes[i])] \in Conditions
  BY <1>3 DEF Conditions
<1>6. Len(nodes) <= kMaxConditionsPerGuard
  <2>1. \A i \in 1 .. Len(nodes) : ~(i > kMaxConditionsPerGuard)
    BY <1>2 DEF ComparisonStatus
  <2> HIDE DEF nodes
  <2>2. CASE Len(nodes) = 0
    BY <2>2, GuardAssumption
  <2>3. CASE Len(nodes) # 0
    BY <1>1, <2>1, <2>3, GuardAssumption
  <2> QED
    BY <2>2, <2>3
<1> HIDE DEF nodes
<1>5. [i \in 1 .. Len(nodes) |-> Readings[TextOf(nodes[i])]] \in Seq(Conditions)
  BY <1>1, <1>4
<1>7. /\ Guard(when) = [i \in 1 .. Len(nodes) |-> Readings[TextOf(nodes[i])]]
      /\ Len(Guard(when)) = Len(nodes)
  BY <1>1 DEF Guard, nodes
<1> QED
  BY <1>5, <1>6, <1>7

-----------------------------------------------------------------------------
(* What is left to do, and what is built, while a document is read. *)

MachinePart ==
  [what : {"root", "triggers", "states", "trigger", "state", "links", "pair", "plain", "alternative"},
   node : Node, key : Node, from : Nat, trigger : Nat]

\* Where to start is there to be read.
SetupPart ==
  [what : {"root", "name", "io"}, node : Node, key : {Absent}, from : Nat, trigger : Nat]
  \cup [what : {"initial"}, node : Nodes, key : {Absent}, from : Nat, trigger : Nat]
  \cup [what : {"field"}, node : Node, key : {Scalar(field) : field \in Fields},
        from : Nat, trigger : Nat]

Piece == IF file = "machine" THEN MachinePart ELSE SetupPart

\* A model as far as it is built, and a setup as far as it is filled.
Building(m) == Built(m, Conditions) /\ Sound(m, kMaxConditionsPerGuard)
Filling(s)  == DOMAIN s = DOMAIN EmptySetup /\ DOMAIN s.io = Fields /\ FitsSetup(s)

Whole(t) == IF file = "machine" THEN Building(t) ELSE Filling(t)

\* While a document is read there is one, and as much is there of what it says
\* as the capacities allow.
Reading == source.given = "tree" /\ todo \in Seq(Piece) /\ Whole(target)

LoadInv ==
  /\ file \in {"machine", "setup"} /\ source \in Sources /\ former \in Formers[file]
  /\ stage \in {"called", "parsing", "done"} /\ status \in Statuses
  /\ stage # "parsing" => todo = <<>>
  /\ stage = "called" => target = former
  /\ stage = "parsing" => Reading
  /\ stage = "done" => target = former \/ Whole(target)
  /\ NothingHalfLoaded

\* Nothing is too long or too much.
LEMMA EmptyIsWhole == Whole(Empty)
<1>1. Building(EmptyModel)
  BY EmptyIsBuilt, EmptyIsSound DEF Building
<1>2. Filling(EmptySetup)
  BY LengthsAssumption DEF Filling, FitsSetup, EmptySetup
<1> QED
  BY <1>1, <1>2 DEF Whole, Empty

\* A refusal of what was given, wherever it comes from.
LEMMA RefusalClears ==
  ASSUME LoadInv, NEW answer \in Statuses, answer # "Ok", source.given # "null", Ends(answer)
  PROVE  LoadInv'
<1>1. /\ stage' = "done" /\ status' = answer /\ target' = Empty /\ todo' = <<>>
      /\ source' = source /\ file' = file /\ former' = former
  BY DEF Ends
<1>2. Empty' = Empty
  BY <1>1 DEF Empty
<1>3. NothingHalfLoaded'
  BY <1>1, <1>2 DEF NothingHalfLoaded
<1>4. Whole(target)'
  BY <1>1, EmptyIsWhole DEF Whole
<1> QED
  BY <1>1, <1>3, <1>4 DEF LoadInv

\* A turn that goes on with a part of the document.
LEMMA TurnKeepsReading ==
  ASSUME LoadInv, stage = "parsing", todo # <<>>, NEW with, NEW parts, GoesOn(with, parts),
         parts \in Seq(Piece), Whole(with)
  PROVE  LoadInv'
<1>1. /\ source.given = "tree" /\ source' = source /\ file' = file /\ stage' = "parsing"
      /\ former' = former /\ status' = status /\ target' = with /\ todo' = parts \o Tail(todo)
  BY DEF GoesOn, LoadInv, Reading
<1>2. todo \in Seq(Piece) /\ Tail(todo) \in Seq(Piece)
  BY DEF LoadInv, Reading
<1>3. parts \o Tail(todo) \in Seq(Piece)
  BY <1>2, ConcatProperties
<1>4. Piece' = Piece /\ Whole(target)'
  BY <1>1 DEF Piece, Whole
<1> QED
  BY <1>1, <1>3, <1>4 DEF LoadInv, Reading, NothingHalfLoaded

\* What comes next of a document.
LEMMA NextPart ==
  ASSUME LoadInv, NEW what, Comes(what)
  PROVE  /\ stage = "parsing" /\ todo # <<>> /\ source.given = "tree" /\ Whole(target)
         /\ Head(todo) \in Piece /\ Head(todo).what = what
BY DEF LoadInv, Reading, Comes

\* Neither file has a part of the other, but for its root.
LEMMA PartOfMachine ==
  ASSUME LoadInv, NEW what, Comes(what),
         \/ what \in {"triggers", "states", "trigger", "state", "links", "pair", "plain", "alternative"}
         \/ file = "machine"
  PROVE  file = "machine" /\ Building(target) /\ Head(todo) \in MachinePart /\ Piece = MachinePart
BY NextPart DEF Piece, SetupPart, Whole

\* The same for a setup file.
LEMMA PartOfSetup ==
  ASSUME LoadInv, NEW what, Comes(what),
         what \in {"name", "initial", "io", "field"} \/ file = "setup"
  PROVE  file = "setup" /\ Filling(target) /\ Head(todo) \in SetupPart /\ Piece = SetupPart
BY NextPart DEF Piece, MachinePart, Whole, LoadInv

\* Parts made of nodes are parts.
LEMMA PartsArePart ==
  ASSUME NEW what \in {"trigger", "state", "links", "plain", "alternative"}, NEW nodes \in Seq(Node)
  PROVE  Parts(what, nodes) \in Seq(MachinePart)
<1>1. Len(nodes) \in Nat /\ \A i \in 1 .. Len(nodes) : nodes[i] \in Node
  OBVIOUS
<1>2. \A i \in 1 .. Len(nodes) : Part(what, nodes[i]) \in MachinePart
  BY <1>1 DEF Part, MachinePart, Node, kNoState, kNoTrigger
<1>3. [i \in 1 .. Len(nodes) |-> Part(what, nodes[i])] \in Seq(MachinePart)
  BY <1>1, <1>2
<1> QED
  BY <1>3 DEF Parts

\* A build operation was asked for.
LEMMA BuildKeepsReading ==
  ASSUME LoadInv, NEW what, Comes(what), NEW answer, Takes(answer), answer.status \in Statuses,
         answer.status = "Ok" => Whole(answer.model)
  PROVE  LoadInv'
<1>1. stage = "parsing" /\ todo # <<>> /\ source.given # "null"
  BY NextPart
<1>2. CASE answer.status = "Ok"
  <2>1. GoesOn(answer.model, <<>>) /\ <<>> \in Seq(Piece)
    BY <1>2 DEF Takes, Unless
  <2> QED
    BY <1>1, <1>2, <2>1, TurnKeepsReading
<1>3. CASE answer.status # "Ok"
  BY <1>1, <1>3, RefusalClears DEF Takes, Unless
<1> QED
  BY <1>2, <1>3

-----------------------------------------------------------------------------
(* The steps. *)

\* The call begins, is refused at once, or ends.
LEMMA EntrySteps ==
  ASSUME LoadInv, RefuseNull \/ RefuseSource \/ Open \/ Complete
  PROVE  LoadInv'
<1>1. CASE RefuseNull
  BY <1>1 DEF RefuseNull, LoadInv, NothingHalfLoaded, Statuses
<1>2. CASE RefuseSource
  BY <1>2, RefusalClears DEF RefuseSource, Statuses
<1>3. CASE Open
  <2>1. /\ stage' = "parsing" /\ source' = source /\ file' = file /\ source.given = "tree"
        /\ former' = former /\ status' = status
        /\ target' = Empty /\ todo' = <<Part("root", source.root)>>
    BY <1>3 DEF Open
  <2>2. source.root \in Node
    BY SourcesAssumption DEF LoadInv, Node
  <2>3. Part("root", source.root) \in Piece
    <3>1. Absent \in Node
      BY DEF Node
    <3>2. Part("root", source.root) \in MachinePart
      BY <2>2, <3>1 DEF Part, MachinePart, kNoState, kNoTrigger
    <3>3. Part("root", source.root) \in SetupPart
      BY <2>2 DEF Part, SetupPart, kNoState, kNoTrigger
    <3> QED
      BY <3>2, <3>3 DEF Piece
  <2>4. Piece' = Piece /\ Whole(target)'
    BY <2>1, EmptyIsWhole DEF Piece, Whole
  <2> QED
    BY <2>1, <2>3, <2>4 DEF LoadInv, Reading, NothingHalfLoaded
<1>4. CASE Complete
  <2>1. stage = "parsing" /\ source.given = "tree" /\ todo = <<>> /\ Whole(target)
    BY <1>4 DEF Complete, LoadInv, Reading
  <2> DEFINE answer == IF file = "machine" THEN Validate(target) ELSE "Ok"
  <2>2. Ends(answer)
    BY <1>4 DEF Complete
  <2>3. answer \in Statuses
    <3>1. Validate(target) \in {"Ok", "SchemaError"}
      BY DEF Validate
    <3> QED
      BY <3>1 DEF Statuses
  <2> HIDE DEF answer
  <2>4. CASE answer = "Ok"
    <3>1. /\ stage' = "done" /\ status' = "Ok" /\ todo' = <<>> /\ target' = target
          /\ file' = file /\ source' = source /\ former' = former
      BY <2>2, <2>4 DEF Ends
    <3>2. file = "machine" => Validate(target) = "Ok" /\ WithinCapacities(target) /\ Indexed(target)
      BY <2>1, <2>4 DEF answer, Whole, Building, Built
    <3>3. NothingHalfLoaded' /\ Whole(target)'
      BY <2>1, <3>1, <3>2 DEF NothingHalfLoaded, Whole
    <3> QED
      BY <3>1, <3>3 DEF LoadInv, Statuses
  <2>5. CASE answer # "Ok"
    BY <2>1, <2>2, <2>3, <2>5, RefusalClears
  <2> QED
    BY <2>4, <2>5
<1> QED
  BY <1>1, <1>2, <1>3, <1>4

\* What a check of a document answers is a status.
LEMMA ChecksAnswer ==
  ASSUME NEW node
  PROVE  /\ MachineRootStatus(node) \in Statuses /\ EntryStatus(node) \in Statuses
         /\ SectionStatus(node) \in Statuses /\ PairStatus(node) \in Statuses
         /\ WhenStatus(node) \in Statuses /\ AlternativeStatus(node) \in Statuses
         /\ \A tooLong \in {"NameTooLong", "ChannelTooLong"} : FitStatus(node, tooLong) \in Statuses
         /\ InitialStatus(node) \in Statuses
<1>1. \A any, i : ComparisonStatus(any, i) \in Statuses
  BY DEF ComparisonStatus, Statuses
<1>2. \A any : WhenStatus(any) \in Statuses
  BY <1>1 DEF WhenStatus, Statuses
<1>3. \A any : \A tooLong \in {"NameTooLong", "ChannelTooLong"} : FitStatus(any, tooLong) \in Statuses
  BY DEF FitStatus, Statuses
<1>4. AlternativeStatus(node) \in Statuses
  BY <1>2 DEF AlternativeStatus, Statuses
<1>5. MachineRootStatus(node) \in Statuses /\ InitialStatus(node) \in Statuses
  BY <1>3 DEF MachineRootStatus, InitialStatus, Statuses
<1>6. EntryStatus(node) \in Statuses /\ SectionStatus(node) \in Statuses /\ PairStatus(node) \in Statuses
  BY DEF EntryStatus, SectionStatus, PairStatus, Statuses
<1> QED
  BY <1>2, <1>3, <1>4, <1>5, <1>6

\* And so is what a build operation answers.
LEMMA BuildAnswers ==
  ASSUME NEW m, NEW a, NEW b, NEW c, NEW d
  PROVE  /\ DeclareTrigger(m, a, b).status \in Statuses /\ DeclareState(m, a).status \in Statuses
         /\ AddTransition(m, a, b, c, d).status \in Statuses
<1>1. /\ DeclareTriggerStatus(m, a, b) \in Statuses /\ DeclareStateStatus(m, a) \in Statuses
      /\ TransitionStatus(m, a, b, c, d) \in Statuses
  BY DEF DeclareTriggerStatus, DeclareStateStatus, TransitionStatus, Statuses
<1> QED
  BY <1>1 DEF DeclareTrigger, DeclareState, AddTransition, Answers, Statuses

\* Triggers and states are declared.
LEMMA DeclaringSteps ==
  ASSUME LoadInv, MachineRoot \/ Triggers \/ TriggerEntry \/ States \/ StateEntry
  PROVE  LoadInv'
<1>1. CASE MachineRoot
  <2> DEFINE root  == Head(todo).node
             parts == <<Part("triggers", Child(root, "triggers")),
                        Part("states", Child(root, "states"))>>
  <2>1. /\ file = "machine" /\ Comes("root")
        /\ IF MachineRootStatus(root) # "Ok" THEN Ends(MachineRootStatus(root))
           ELSE GoesOn(target, parts)
    BY <1>1 DEF MachineRoot
  <2>2. /\ stage = "parsing" /\ todo # <<>> /\ source.given = "tree" /\ Whole(target)
        /\ Piece = MachinePart /\ root \in Node
    BY <2>1, NextPart, PartOfMachine DEF MachinePart
  <2>3. CASE MachineRootStatus(root) # "Ok"
    BY <2>1, <2>2, <2>3, RefusalClears, ChecksAnswer
  <2>4. CASE MachineRootStatus(root) = "Ok"
    <3>1. Child(root, "triggers") \in Node /\ Child(root, "states") \in Node
      BY <2>2, ChildIsNode
    <3>2. parts \in Seq(Piece)
      BY <2>2, <3>1 DEF Part, MachinePart, Node, kNoState, kNoTrigger
    <3>3. GoesOn(target, parts)
      BY <2>1, <2>4
    <3> QED
      BY <2>2, <3>2, <3>3, TurnKeepsReading
  <2> QED
    BY <2>3, <2>4
<1>2. CASE Triggers
  <2> DEFINE node == Head(todo).node
  <2>1. /\ Comes("triggers")
        /\ IF SectionStatus(node) # "Ok" THEN Ends("SchemaError")
           ELSE GoesOn(target, Parts("trigger", node.items))
    BY <1>2 DEF Triggers
  <2>2. /\ stage = "parsing" /\ todo # <<>> /\ source.given = "tree" /\ Whole(target)
        /\ Piece = MachinePart /\ node \in Node
    BY <2>1, NextPart, PartOfMachine DEF MachinePart
  <2>3. ASSUME SectionStatus(node) = "Ok"
        PROVE  Parts("trigger", node.items) \in Seq(Piece)
    BY <2>2, <2>3, ItemsAreNodes, PartsArePart DEF SectionStatus, Node
  <2>4. "SchemaError" \in Statuses
    BY DEF Statuses
  <2> QED
    BY <2>1, <2>2, <2>3, <2>4, RefusalClears, TurnKeepsReading
<1>3. CASE TriggerEntry
  <2> DEFINE entry  == Head(todo).node
             answer == DeclareTrigger(target, NameOf(entry), ChannelIn(entry))
  <2>1. Comes("trigger")
    BY <1>3 DEF TriggerEntry
  <2>2. source.given # "null" /\ file = "machine" /\ Building(target)
    BY <2>1, NextPart, PartOfMachine
  <2>3. (\E refusal \in Statuses : refusal # "Ok" /\ Ends(refusal)) \/ Takes(answer)
    BY <1>3, ChecksAnswer DEF TriggerEntry, Statuses
  <2>4. answer.status \in Statuses
    BY BuildAnswers
  <2>5. answer.status = "Ok" => Whole(answer.model)
    BY <2>2, TriggerDeclared, TriggerKeepsSound DEF Whole, Building
  <2> HIDE DEF answer
  <2> QED
    BY <2>1, <2>2, <2>3, <2>4, <2>5, RefusalClears, BuildKeepsReading
<1>4. CASE States
  <2> DEFINE node == Head(todo).node
  <2>1. /\ Comes("states")
        /\ IF SectionStatus(node) # "Ok" THEN Ends("SchemaError")
           ELSE GoesOn(target, Passes(node.items))
    BY <1>4 DEF States
  <2>2. /\ stage = "parsing" /\ todo # <<>> /\ source.given = "tree" /\ Whole(target)
        /\ Piece = MachinePart /\ node \in Node
    BY <2>1, NextPart, PartOfMachine DEF MachinePart
  <2>3. ASSUME SectionStatus(node) = "Ok"
        PROVE  Passes(node.items) \in Seq(Piece)
    <3>1. node.items \in Seq(Node)
      BY <2>2, <2>3, ItemsAreNodes DEF SectionStatus, Node
    <3>2. Parts("state", node.items) \in Seq(Piece) /\ Parts("links", node.items) \in Seq(Piece)
      BY <2>2, <3>1, PartsArePart
    <3> QED
      BY <3>2, ConcatProperties DEF Passes
  <2>4. "SchemaError" \in Statuses
    BY DEF Statuses
  <2> QED
    BY <2>1, <2>2, <2>3, <2>4, RefusalClears, TurnKeepsReading
<1>5. CASE StateEntry
  <2> DEFINE entry  == Head(todo).node
             answer == DeclareState(target, NameOf(entry))
  <2>1. Comes("state")
    BY <1>5 DEF StateEntry
  <2>2. source.given # "null" /\ file = "machine" /\ Building(target)
    BY <2>1, NextPart, PartOfMachine
  <2>3. (\E refusal \in Statuses : refusal # "Ok" /\ Ends(refusal)) \/ Takes(answer)
    BY <1>5, ChecksAnswer DEF StateEntry
  <2>4. answer.status \in Statuses
    BY BuildAnswers
  <2>5. answer.status = "Ok" => Whole(answer.model)
    BY <2>2, StateDeclared, StateKeepsSound DEF Whole, Building
  <2> HIDE DEF answer
  <2> QED
    BY <2>1, <2>2, <2>3, <2>4, <2>5, RefusalClears, BuildKeepsReading
<1> QED
  BY <1>1, <1>2, <1>3, <1>4, <1>5

\* The ids in a part are naturals: nothing is found, or what a table holds.
LEMMA IdsAreNaturals ==
  ASSUME NEW m, Built(m, Conditions), NEW name
  PROVE  FindState(m, name) \in Nat /\ FindTrigger(m, name) \in Nat
BY DEF FindState, FindTrigger, Lookup, kNoState, kNoTrigger, Built, Index

\* A transition of the part that comes is added, or refused.
LEMMA LinkKeepsReading ==
  ASSUME LoadInv, NEW what \in {"plain", "alternative"}, Comes(what), NEW name,
         NEW conditions \in Seq(Conditions), Len(conditions) <= kMaxConditionsPerGuard,
         LinkTo(name, conditions)
  PROVE  LoadInv'
<1> DEFINE answer == AddTransition(target, Head(todo).from, Head(todo).trigger,
                                   FindState(target, name), conditions)
<1>1. source.given # "null" /\ file = "machine" /\ Building(target)
  BY NextPart, PartOfMachine
<1>2. Ends("UnknownState") \/ Takes(answer)
  BY DEF LinkTo
<1>3. answer.status \in Statuses /\ "UnknownState" \in Statuses
  BY BuildAnswers DEF Statuses
<1>4. answer.status = "Ok" => Whole(answer.model)
  BY <1>1, TransitionAdded, TransitionKeepsSound DEF Whole, Building
<1> HIDE DEF answer
<1> QED
  BY <1>1, <1>2, <1>3, <1>4, RefusalClears, BuildKeepsReading

\* What leads from one state to another is added.
LEMMA LinkingSteps ==
  ASSUME LoadInv, Links \/ Pair \/ Plain \/ AlternativeEntry
  PROVE  LoadInv'
<1>1. CASE Links
  <2> DEFINE transitions == Child(Head(todo).node, "transitions")
             from        == FindState(target, NameOf(Head(todo).node))
             part(i)     == [Part("pair", transitions.pairs[i][2]) EXCEPT
                               !.key = transitions.pairs[i][1], !.from = from]
             parts       == [i \in 1 .. Len(transitions.pairs) |-> part(i)]
  <2>1. /\ Comes("links")
        /\ IF ~Defined(transitions) THEN GoesOn(target, <<>>)
           ELSE IF ~IsMap(transitions) THEN Ends("SchemaError")
           ELSE GoesOn(target, parts)
    BY <1>1 DEF Links
  <2>2. /\ stage = "parsing" /\ todo # <<>> /\ source.given = "tree" /\ Whole(target)
        /\ Piece = MachinePart /\ Built(target, Conditions) /\ Head(todo) \in MachinePart
    BY <2>1, NextPart, PartOfMachine DEF Building
  <2>3. ASSUME IsMap(transitions)
        PROVE  parts \in Seq(MachinePart)
    <3>1. transitions \in Node
      BY <2>2, <2>3, ChildIsNode DEF MachinePart
    <3>2. transitions.pairs \in Seq(Nodes \X Nodes) /\ Len(transitions.pairs) \in Nat
      BY <2>3, <3>1, PairsAreNodes
    <3>3. from \in Nat
      BY <2>2, <2>3, IdsAreNaturals
    <3> HIDE DEF transitions, from
    <3>4. ASSUME NEW i \in 1 .. Len(transitions.pairs) PROVE part(i) \in MachinePart
      <4>1. transitions.pairs[i] \in Nodes \X Nodes
        BY <3>2, ElementOfSeq
      <4>2. transitions.pairs[i][1] \in Node /\ transitions.pairs[i][2] \in Node
        BY <4>1 DEF Node
      <4>3. ASSUME NEW key \in Node, NEW node \in Node
            PROVE  [Part("pair", node) EXCEPT !.key = key, !.from = from] \in MachinePart
        <5>1. Part("pair", node) \in MachinePart
          BY <4>3 DEF Part, MachinePart, Node, kNoState, kNoTrigger
        <5> HIDE DEF from
        <5> QED
          BY <3>3, <4>3, <5>1 DEF MachinePart
      <4> QED
        BY <4>2, <4>3
    <3> HIDE DEF part
    <3> QED
      BY <3>2, <3>4
  <2> HIDE DEF transitions, parts
  <2>4. <<>> \in Seq(Piece) /\ "SchemaError" \in Statuses
    BY DEF Statuses
  <2>5. CASE GoesOn(target, <<>>)
    BY <2>2, <2>4, <2>5, TurnKeepsReading
  <2>6. CASE Ends("SchemaError")
    BY <2>2, <2>4, <2>6, RefusalClears
  <2>7. CASE GoesOn(target, parts) /\ IsMap(transitions)
    BY <2>2, <2>3, <2>7, TurnKeepsReading
  <2> QED
    BY <2>1, <2>5, <2>6, <2>7
<1>2. CASE Pair
  <2> DEFINE part         == Head(todo)
             alternatives == AlternativesIn(part.node)
             trigger      == FindTrigger(target, TextOf(part.key))
             made(i)      == [alternatives[i] EXCEPT !.from = part.from, !.trigger = trigger]
             parts        == [i \in 1 .. Len(alternatives) |-> made(i)]
  <2>1. /\ Comes("pair")
        /\ \/ \E answer \in Statuses : answer # "Ok" /\ Ends(answer)
           \/ PairStatus(part.node) = "Ok" /\ GoesOn(target, parts)
    BY <1>2 DEF Pair, Statuses
  <2>2. /\ stage = "parsing" /\ todo # <<>> /\ source.given = "tree" /\ Whole(target)
        /\ Piece = MachinePart /\ Built(target, Conditions) /\ part \in MachinePart
    BY <2>1, NextPart, PartOfMachine DEF Building
  <2>3. ASSUME PairStatus(part.node) = "Ok"
        PROVE  parts \in Seq(MachinePart)
    <3>1. part.node \in Node /\ part.from \in Nat
      BY <2>2, <2>3 DEF MachinePart
    <3>2. trigger \in Nat
      BY <2>2, <2>3, IdsAreNaturals
    <3>3. alternatives \in Seq(MachinePart)
      <4>1. <<part.node>> \in Seq(Node)
        BY <3>1
      <4>2. CASE part.node.kind \in {"scalar", "map"}
        BY <4>1, <4>2, PartsArePart DEF AlternativesIn
      <4>3. CASE part.node.kind \notin {"scalar", "map"}
        <5>1. IsList(part.node)
          BY <2>3, <4>3 DEF PairStatus, SectionStatus
        <5>2. part.node.items \in Seq(Node)
          BY <3>1, <5>1, ItemsAreNodes DEF Node
        <5> QED
          BY <4>3, <5>2, PartsArePart DEF AlternativesIn
      <4> QED
        BY <4>2, <4>3
    <3> HIDE DEF alternatives, trigger
    <3>4. ASSUME NEW i \in 1 .. Len(alternatives) PROVE made(i) \in MachinePart
      <4>1. alternatives[i] \in MachinePart
        BY <3>3, ElementOfSeq
      <4> QED
        BY <3>1, <3>2, <4>1 DEF MachinePart
    <3> HIDE DEF made
    <3> QED
      BY <3>3, <3>4
  <2> HIDE DEF parts, part
  <2>4. CASE \E answer \in Statuses : answer # "Ok" /\ Ends(answer)
    BY <2>2, <2>4, RefusalClears
  <2>5. CASE PairStatus(part.node) = "Ok" /\ GoesOn(target, parts)
    BY <2>2, <2>3, <2>5, TurnKeepsReading
  <2> QED
    BY <2>1, <2>4, <2>5
<1>3. CASE Plain
  <2>1. /\ Comes("plain") /\ LinkTo(TextOf(Head(todo).node), <<>>) /\ <<>> \in Seq(Conditions)
        /\ Len(<<>>) <= kMaxConditionsPerGuard
    BY <1>3, GuardAssumption DEF Plain
  <2> QED
    BY <2>1, LinkKeepsReading
<1>4. CASE AlternativeEntry
  <2> DEFINE node == Head(todo).node
             when == Child(node, "when")
  <2>1. /\ Comes("alternative")
        /\ \/ AlternativeStatus(node) # "Ok" /\ Ends(AlternativeStatus(node))
           \/ /\ AlternativeStatus(node) = "Ok"
              /\ LinkTo(TextOf(Child(node, "target")), Guard(when))
    BY <1>4 DEF AlternativeEntry
  <2>2. source.given = "tree" /\ Head(todo) \in MachinePart
    BY <2>1, NextPart, PartOfMachine
  <2>3. ASSUME AlternativeStatus(node) = "Ok"
        PROVE  Guard(when) \in Seq(Conditions) /\ Len(Guard(when)) <= kMaxConditionsPerGuard
    <3>1. WhenStatus(when) = "Ok"
      BY <2>3 DEF AlternativeStatus
    <3>2. when \in Node
      BY <2>2, <2>3, ChildIsNode DEF MachinePart
    <3> QED
      BY <3>1, <3>2, GuardRead
  <2> HIDE DEF node, when
  <2>4. CASE AlternativeStatus(node) # "Ok" /\ Ends(AlternativeStatus(node))
    BY <2>2, <2>4, RefusalClears, ChecksAnswer
  <2>5. CASE AlternativeStatus(node) = "Ok" /\ LinkTo(TextOf(Child(node, "target")), Guard(when))
    BY <2>1, <2>3, <2>5, LinkKeepsReading
  <2> QED
    BY <2>1, <2>4, <2>5
<1> QED
  BY <1>1, <1>2, <1>3, <1>4

\* A text that fits is put in its place.
LEMMA TextFits ==
  ASSUME NEW node, NEW tooLong, tooLong # "Ok", FitStatus(node, tooLong) = "Ok", Defined(node)
  PROVE  TextOf(node) \notin LongNames
BY DEF FitStatus

\* What a setup is filled with fits, and takes no other field's place.
LEMMA FieldsFill ==
  ASSUME NEW s, Filling(s), NEW text, text \notin LongNames
  PROVE  /\ Filling([s EXCEPT !.name = text]) /\ Filling([s EXCEPT !.initial = text])
         /\ \A field \in Fields : Filling([s EXCEPT !.io[field] = text])
<1>1. DOMAIN s = {"name", "initial", "io"}
  BY DEF Filling, EmptySetup
<1>2. Filling([s EXCEPT !.name = text]) /\ Filling([s EXCEPT !.initial = text])
  BY <1>1 DEF Filling, FitsSetup
<1>3. ASSUME NEW field \in Fields PROVE Filling([s EXCEPT !.io[field] = text])
  BY <1>1 DEF Filling, FitsSetup
<1> QED
  BY <1>2, <1>3

\* A text of a setup was asked for.
LEMMA UnlessKeepsReading ==
  ASSUME LoadInv, NEW what \in {"name", "initial", "field"}, Comes(what),
         NEW refusal \in Statuses, NEW with, Unless(refusal, with, <<>>),
         refusal = "Ok" => Filling(with)
  PROVE  LoadInv'
<1>1. stage = "parsing" /\ todo # <<>> /\ source.given # "null" /\ file = "setup"
  BY NextPart, PartOfSetup
<1>2. <<>> \in Seq(Piece)
  OBVIOUS
<1> QED
  BY <1>1, <1>2, TurnKeepsReading, RefusalClears DEF Unless, Whole

\* A setup file is read.
LEMMA SetupSteps ==
  ASSUME LoadInv, SetupRoot \/ SetupName \/ SetupInitial \/ SetupIo \/ SetupField
  PROVE  LoadInv'
<1>1. CASE SetupRoot
  <2> DEFINE root  == Head(todo).node
             fsm   == Child(root, "fsm")
             parts == <<Part("name", Child(fsm, "name")), Part("initial", Child(fsm, "initial")),
                        Part("io", Child(root, "io"))>>
  <2>1. /\ file = "setup" /\ Comes("root")
        /\ IF SetupRootStatus(root) # "Ok" THEN Ends("SchemaError") ELSE GoesOn(target, parts)
    BY <1>1 DEF SetupRoot
  <2>2. /\ stage = "parsing" /\ todo # <<>> /\ source.given = "tree" /\ Whole(target)
        /\ Piece = SetupPart /\ root \in Node
    BY <2>1, NextPart, PartOfSetup DEF SetupPart
  <2>3. /\ Child(fsm, "name") \in Node /\ Child(fsm, "initial") \in Node
        /\ Child(root, "io") \in Node
    BY <2>2, ChildIsNode
  <2>4. CASE SetupRootStatus(root) # "Ok"
    BY <2>1, <2>2, <2>4, RefusalClears DEF Statuses
  <2>5. CASE SetupRootStatus(root) = "Ok"
    <3>1. Child(fsm, "initial") \in Nodes
      BY <2>3, <2>5 DEF SetupRootStatus, Defined, Node
    <3>2. /\ Part("name", Child(fsm, "name")) \in SetupPart
          /\ Part("initial", Child(fsm, "initial")) \in SetupPart
          /\ Part("io", Child(root, "io")) \in SetupPart
      BY <2>3, <3>1 DEF Part, SetupPart, kNoState, kNoTrigger
    <3>3. parts \in Seq(Piece)
      BY <2>2, <3>2
    <3> HIDE DEF parts, root
    <3> QED
      BY <2>1, <2>2, <2>5, <3>3, TurnKeepsReading
  <2> QED
    BY <2>4, <2>5
<1>2. CASE SetupName
  <2> DEFINE node == Head(todo).node
             with == IF Defined(node) THEN [target EXCEPT !.name = TextOf(node)] ELSE target
  <2>1. Comes("name") /\ Unless(FitStatus(node, "NameTooLong"), with, <<>>)
    BY <1>2 DEF SetupName
  <2>2. ASSUME FitStatus(node, "NameTooLong") = "Ok"
        PROVE  Filling(with)
    BY <2>1, <2>2, PartOfSetup, TextFits, FieldsFill
  <2> HIDE DEF with, node
  <2> QED
    BY <2>1, <2>2, UnlessKeepsReading, ChecksAnswer
<1>3. CASE SetupInitial
  <2> DEFINE node == Head(todo).node
             with == [target EXCEPT !.initial = TextOf(node)]
  <2>1. Comes("initial") /\ Unless(InitialStatus(node), with, <<>>)
    BY <1>3 DEF SetupInitial
  <2>2. ASSUME InitialStatus(node) = "Ok"
        PROVE  Filling(with)
    <3>1. FitStatus(node, "NameTooLong") = "Ok"
      BY <2>2 DEF InitialStatus
    <3>2. node \in Nodes
      BY <2>1, NextPart, PartOfSetup DEF SetupPart
    <3>3. Defined(node)
      BY <3>2, NodesAssumption DEF Defined, Absent, Blank, Scalar, IsList, IsMap
    <3> QED
      BY <2>1, <3>1, <3>3, PartOfSetup, TextFits, FieldsFill
  <2> HIDE DEF with, node
  <2> QED
    BY <2>1, <2>2, UnlessKeepsReading, ChecksAnswer
<1>4. CASE SetupIo
  <2> DEFINE io    == Head(todo).node
             parts == FieldParts(io)
  <2>1. /\ Comes("io")
        /\ IF ~Defined(io) THEN GoesOn(target, <<>>)
           ELSE IF ~IsMap(io) THEN Ends("SchemaError") ELSE GoesOn(target, parts)
    BY <1>4 DEF SetupIo
  <2>2. /\ stage = "parsing" /\ todo # <<>> /\ source.given = "tree" /\ Whole(target)
        /\ Piece = SetupPart /\ io \in Node
    BY <2>1, NextPart, PartOfSetup DEF SetupPart
  <2>3. parts \in Seq(Piece)
    <3> DEFINE field(i) == <<"state_channel", "error_channel", "endpoint", "identity">>[i]
               made(i)  == [Part("field", Child(io, field(i))) EXCEPT !.key = Scalar(field(i))]
    <3>1. parts = [i \in 1 .. 4 |-> made(i)]
      BY DEF FieldParts
    <3>2. ASSUME NEW i \in 1 .. 4 PROVE made(i) \in SetupPart
      <4>1. field(i) \in Fields
        BY DEF Fields
      <4>2. Child(io, field(i)) \in Node
        BY <2>2, ChildIsNode
      <4> DEFINE node == Child(io, field(i))
                 key  == Scalar(field(i))
      <4>3. made(i) = [what |-> "field", node |-> node, key |-> key,
                       from |-> kNoState, trigger |-> kNoTrigger]
        <5> HIDE DEF node, key
        <5>1. [Part("field", node) EXCEPT !.key = key]
                = [what |-> "field", node |-> node, key |-> key,
                   from |-> kNoState, trigger |-> kNoTrigger]
          BY DEF Part
        <5> QED
          BY <5>1 DEF node, key
      <4>4. node \in Node /\ key \in {Scalar(f) : f \in Fields}
        BY <4>1, <4>2
      <4> HIDE DEF field, made, node, key
      <4> QED
        BY <4>3, <4>4 DEF SetupPart, kNoState, kNoTrigger
    <3> HIDE DEF made, field
    <3>3. [i \in 1 .. 4 |-> made(i)] \in Seq(SetupPart)
      BY <3>2
    <3> QED
      BY <2>2, <3>1, <3>3
  <2>4. <<>> \in Seq(Piece) /\ "SchemaError" \in Statuses
    BY DEF Statuses
  <2> HIDE DEF parts, io
  <2> QED
    BY <2>1, <2>2, <2>3, <2>4, RefusalClears, TurnKeepsReading
<1>5. CASE SetupField
  <2> DEFINE node    == Head(todo).node
             field   == Head(todo).key.text
             tooLong == IF field = "identity" THEN "NameTooLong" ELSE "ChannelTooLong"
             with    == IF Defined(node) THEN [target EXCEPT !.io[field] = TextOf(node)] ELSE target
  <2>1. Comes("field") /\ Unless(FitStatus(node, tooLong), with, <<>>)
    BY <1>5 DEF SetupField
  <2>2. field \in Fields
    BY <2>1, NextPart, PartOfSetup DEF SetupPart, Scalar
  <2>3. tooLong \in {"NameTooLong", "ChannelTooLong"}
    OBVIOUS
  <2> HIDE DEF field, tooLong
  <2>4. ASSUME FitStatus(node, tooLong) = "Ok"
        PROVE  Filling(with)
    BY <2>1, <2>2, <2>3, <2>4, PartOfSetup, TextFits, FieldsFill
  <2> HIDE DEF with, node
  <2> QED
    BY <2>1, <2>3, <2>4, UnlessKeepsReading, ChecksAnswer
<1> QED
  BY <1>1, <1>2, <1>3, <1>4, <1>5

-----------------------------------------------------------------------------

\* Before a call nothing is loaded.
LEMMA InitLoad == Init => LoadInv
BY DEF Init, LoadInv, NothingHalfLoaded, Statuses

\* Every turn of every loop keeps what is built, or ends the call.
LEMMA LoadStep == LoadInv /\ [Next]_vars => LoadInv'
<1> SUFFICES ASSUME LoadInv, [Next]_vars PROVE LoadInv'
  OBVIOUS
<1>1. CASE UNCHANGED vars
  BY <1>1 DEF vars, LoadInv, Reading, NothingHalfLoaded, Empty, Piece, Whole
<1>2. CASE Next
  BY <1>2, EntrySteps, DeclaringSteps, LinkingSteps, SetupSteps DEF Next
<1> QED
  BY <1>1, <1>2

\* Whatever the document, and whatever pass refuses it: a load leaves a target
\* that is complete and valid or empty, or, given nothing, as it was.
THEOREM CompleteOrEmpty == Spec => []NothingHalfLoaded
<1>1. LoadInv => NothingHalfLoaded
  BY DEF LoadInv
<1> QED
  BY <1>1, InitLoad, LoadStep, PTL DEF Spec

\* At every step of every load, what is there fits the fixed-capacity objects it
\* is put in: tables, texts, and the guard of each alternative.
THEOREM TypeCorrect == Spec => []TypeOK
<1>1. ASSUME NEW m, Building(m) PROVE FitsModel(m)
  BY <1>1 DEF Building, Built, Sound, FitsModel
<1>2. ASSUME Whole(target)
      PROVE  IF file = "machine" THEN FitsModel(target) ELSE FitsSetup(target)
  BY <1>1, <1>2 DEF Whole, Filling
<1>3. ASSUME todo \in Seq(Piece), NEW i \in DOMAIN todo
      PROVE  todo[i].node = Absent \/ todo[i].node \in Nodes
  <2>1. todo[i] \in Piece
    BY <1>3
  <2> QED
    BY <2>1 DEF Piece, MachinePart, SetupPart, Node
<1>4. ASSUME LoadInv PROVE TypeOK
  <2>1. CASE stage = "parsing"
    BY <1>2, <1>3, <1>4, <2>1 DEF LoadInv, Reading, TypeOK
  <2>2. CASE stage # "parsing"
    BY <1>2, <1>4, <2>2 DEF LoadInv, TypeOK
  <2> QED
    BY <2>1, <2>2
<1> QED
  BY <1>4, InitLoad, LoadStep, PTL DEF Spec

-----------------------------------------------------------------------------
(* Sequences of sequences, and how far one is gone through. *)

\* The first elements of a sequence, and those that are left.
First(s, k) == SubSeq(s, 1, k)
From(s, k)  == SubSeq(s, k + 1, Len(s))

\* What FlattenSeq collects is there: for the shortest sequence for which it were
\* not, there would be one more element than for one for which it is.
LEMMA FlattenIs ==
  ASSUME NEW s, Len(s) \in Nat \ {0}
  PROVE  \E f : /\ f = [i \in 1 .. Len(s) |-> IF i = 1 THEN s[i] ELSE f[i - 1] \o s[i]]
                /\ FlattenSeq(s) = f[Len(s)]
<1> DEFINE Is(f, k) == f = [i \in 1 .. k |-> IF i = 1 THEN s[i] ELSE f[i - 1] \o s[i]]
           without  == {k \in 1 .. Len(s) : ~ \E f : Is(f, k)}
<1>1. without = {}
  <2> SUFFICES ASSUME without # {} PROVE FALSE
    OBVIOUS
  <2>1. PICK k \in without : \A j \in without : k <= j
    <3>1. 1 .. Len(s) \subseteq Nat
      OBVIOUS
    <3>2. without \in SUBSET Nat
      BY <3>1, Zenon
    <3> HIDE DEF without
    <3> QED BY <3>2, Least
  <2>2. k \in 1 .. Len(s) /\ ~ \E f : Is(f, k)
    BY <2>1
  <2>3. k # 1
    <3>1. Is([i \in 1 .. 1 |-> s[i]], 1)
      OBVIOUS
    <3> HIDE DEF Is
    <3> QED BY <2>2, <3>1
  <2>4. k - 1 \in 1 .. Len(s) /\ ~(k <= k - 1) /\ k \in Nat
    BY <2>2, <2>3
  <2>5. PICK g : Is(g, k - 1)
    BY <2>1, <2>4
  <2> DEFINE f == [i \in 1 .. k |-> IF i = k THEN g[k - 1] \o s[k] ELSE g[i]]
  <2>6. ASSUME NEW i \in 1 .. k
        PROVE  f[i] = IF i = 1 THEN s[i] ELSE f[i - 1] \o s[i]
    <3>1. i = k \/ i \in 1 .. k - 1
      BY <2>4
    <3>2. i # 1 => i - 1 \in 1 .. k - 1 /\ i - 1 \in 1 .. k /\ i - 1 # k
      BY <2>4, <2>6
    <3>3. CASE i = k
      <4>1. f[i] = g[k - 1] \o s[k] /\ f[i - 1] = g[k - 1]
        BY <2>3, <3>2, <3>3
      <4> QED BY <2>3, <3>3, <4>1
    <3>4. CASE i # k
      <4>1. i \in 1 .. k - 1 /\ f[i] = g[i] /\ (i # 1 => f[i - 1] = g[i - 1])
        BY <3>1, <3>2, <3>4
      <4>2. g[i] = IF i = 1 THEN s[i] ELSE g[i - 1] \o s[i]
        BY <2>5, <4>1
      <4> QED BY <4>1, <4>2
    <3> QED BY <3>3, <3>4
  <2>7. Is(f, k)
    <3>1. f = [i \in 1 .. k |-> f[i]]
      OBVIOUS
    <3> HIDE DEF f
    <3> QED BY <2>6, <3>1
  <2> HIDE DEF Is
  <2> QED BY <2>2, <2>7
<1>2. \E f : Is(f, Len(s))
  <2>1. Len(s) \in 1 .. Len(s)
    OBVIOUS
  <2> HIDE DEF Is
  <2> QED BY <1>1, <2>1
<1> DEFINE flat == CHOOSE f : Is(f, Len(s))
<1>3. Is(flat, Len(s))
  <2> HIDE DEF Is
  <2> QED BY <1>2
<1>4. FlattenSeq(s) = flat[Len(s)]
  BY DEF FlattenSeq
<1> HIDE DEF flat
<1> QED BY <1>3, <1>4

\* One more sequence goes to the end.
LEMMA FlattenMore ==
  ASSUME NEW X, NEW s \in Seq(Seq(X)), NEW x \in Seq(X)
  PROVE  FlattenSeq(<<>>) = <<>> /\ FlattenSeq(Append(s, x)) = FlattenSeq(s) \o x
<1> DEFINE n == Len(s)
           t == Append(s, x)
<1>1. n \in Nat /\ Len(t) = n + 1 /\ t[n + 1] = x /\ \A i \in 1 .. n : t[i] = s[i]
  OBVIOUS
<1>2. FlattenSeq(<<>>) = <<>>
  BY DEF FlattenSeq
<1>6. s = <<>> <=> n = 0
  OBVIOUS
<1>7. t = Append(s, x)
  OBVIOUS
<1> HIDE DEF t
<1>8. Len(t) \in Nat \ {0} /\ Len(t) = n + 1
  BY <1>1
<1>3. PICK g : /\ g = [i \in 1 .. n + 1 |-> IF i = 1 THEN t[i] ELSE g[i - 1] \o t[i]]
               /\ FlattenSeq(t) = g[n + 1]
  BY <1>8, FlattenIs
<1>4. CASE n = 0
  <2>1. s = <<>> /\ g[1] = x
    BY <1>1, <1>3, <1>4, <1>6
  <2>2. <<>> \o x = x
    OBVIOUS
  <2>3. g[n + 1] = x
    BY <1>4, <2>1, SMTT(30)
  <2> QED BY <1>2, <1>3, <1>7, <2>1, <2>2, <2>3
<1>5. CASE n # 0
  <2>1. PICK f : /\ f = [i \in 1 .. n |-> IF i = 1 THEN s[i] ELSE f[i - 1] \o s[i]]
                 /\ FlattenSeq(s) = f[n]
    BY <1>1, <1>5, FlattenIs
  <2> DEFINE differ == {i \in 1 .. n : f[i] # g[i]}
  <2> HIDE DEF n
  <2>2. differ = {}
    <3> SUFFICES ASSUME differ # {} PROVE FALSE
      OBVIOUS
    <3>1. differ \in SUBSET Nat
      BY <1>1
    <3>2. PICK i \in differ : \A j \in differ : i <= j
      <4> HIDE DEF differ
      <4> QED BY <3>1, Least
    <3>3. i \in 1 .. n /\ i \in 1 .. n + 1 /\ t[i] = s[i] /\ f[i] # g[i]
      BY <1>1, <3>2
    <3>4. /\ f[i] = IF i = 1 THEN s[i] ELSE f[i - 1] \o s[i]
          /\ g[i] = IF i = 1 THEN t[i] ELSE g[i - 1] \o t[i]
      BY <1>3, <2>1, <3>3
    <3>5. i # 1 => i - 1 \in 1 .. n /\ ~(i <= i - 1)
      BY <1>1, <3>3
    <3>6. i # 1 => f[i - 1] = g[i - 1]
      BY <3>2, <3>5
    <3> QED BY <3>3, <3>4, <3>6
  <2>3. g[n] = f[n]
    BY <1>1, <1>5, <2>2
  <2>4. PICK m \in 1 .. n + 1 : m = n + 1 /\ m # 1 /\ m - 1 = n
    BY <1>1, <1>5
  <2>5. g[m] = g[n] \o t[m]
    <3>1. \A i \in 1 .. n + 1 : g[i] = IF i = 1 THEN t[i] ELSE g[i - 1] \o t[i]
      BY <1>3
    <3> QED BY <2>4, <3>1
  <2> QED BY <1>1, <1>2, <1>3, <1>7, <2>1, <2>3, <2>4, <2>5
<1> QED BY <1>4, <1>5

\* Going through a sequence.
LEMMA FirstMore ==
  ASSUME NEW X, NEW s \in Seq(X)
  PROVE  /\ First(s, 0) = <<>> /\ First(s, Len(s)) = s
         /\ \A k \in 0 .. Len(s) : First(s, k) \in Seq(X) /\ Len(First(s, k)) = k
         /\ \A k \in 1 .. Len(s) : First(s, k) = Append(First(s, k - 1), s[k])
<1>1. Len(s) \in Nat
  OBVIOUS
<1>2. ASSUME NEW k \in 0 .. Len(s)
      PROVE  /\ First(s, k) \in Seq(X) /\ Len(First(s, k)) = k
             /\ \A i \in 1 .. k : First(s, k)[i] = s[i]
  <2>1. k = 0 \/ k \in 1 .. Len(s)
    BY <1>1
  <2>2. CASE k = 0
    BY <2>2, SubSeqProperties DEF First
  <2>3. CASE k \in 1 .. Len(s)
    BY <1>1, <2>3, SubSeqProperties DEF First
  <2> QED BY <2>1, <2>2, <2>3
<1>3. First(s, 0) = <<>>
  BY <1>1, <1>2
<1>4. First(s, Len(s)) = s
  BY <1>1, <1>2
<1>5. ASSUME NEW k \in 1 .. Len(s) PROVE First(s, k) = Append(First(s, k - 1), s[k])
  <2>1. k \in 0 .. Len(s) /\ k - 1 \in 0 .. Len(s) /\ k \in Nat /\ k - 1 + 1 = k
    BY <1>1
  <2> DEFINE a == First(s, k)
             b == First(s, k - 1)
  <2>2. /\ a \in Seq(X) /\ Len(a) = k /\ \A i \in 1 .. k : a[i] = s[i]
        /\ b \in Seq(X) /\ Len(b) = k - 1 /\ \A i \in 1 .. k - 1 : b[i] = s[i]
    BY <1>2, <2>1
  <2> HIDE DEF a, b
  <2>3. s[k] \in X
    OBVIOUS
  <2>4. /\ Append(b, s[k]) \in Seq(X) /\ Len(Append(b, s[k])) = k
        /\ \A i \in 1 .. k : Append(b, s[k])[i] = s[i]
    BY <2>1, <2>2, <2>3
  <2>5. a = Append(b, s[k])
    BY <2>2, <2>4, SeqEqual
  <2> QED BY <2>5 DEF a, b
<1> QED BY <1>2, <1>3, <1>4, <1>5

\* As far as one has gone, what is flattened grows by one element at a time.
LEMMA FlattenFirst ==
  ASSUME NEW X, NEW s \in Seq(Seq(X))
  PROVE  /\ FlattenSeq(First(s, 0)) = <<>> /\ FlattenSeq(s) \in Seq(X)
         /\ \A k \in 0 .. Len(s) :
              /\ FlattenSeq(First(s, k)) \in Seq(X)
              /\ Len(FlattenSeq(First(s, k))) <= Len(FlattenSeq(s))
         /\ \A k \in 1 .. Len(s) :
              FlattenSeq(First(s, k)) = FlattenSeq(First(s, k - 1)) \o s[k]
<1> DEFINE F(k)  == FlattenSeq(First(s, k))
           wrong == {k \in 0 .. Len(s) : F(k) \notin Seq(X)}
           less  == {k \in 0 .. Len(s) : Len(F(Len(s))) < Len(F(k))}
<1>1. Len(s) \in Nat /\ F(0) = <<>> /\ F(Len(s)) = FlattenSeq(s)
  BY FirstMore, FlattenMore
<1>2. ASSUME NEW k \in 1 .. Len(s) PROVE F(k) = F(k - 1) \o s[k]
  <2>1. First(s, k) = Append(First(s, k - 1), s[k])
    BY FirstMore, Zenon
  <2>2. k - 1 \in 0 .. Len(s)
    BY <1>1
  <2>3. First(s, k - 1) \in Seq(Seq(X))
    BY <2>2, FirstMore, Zenon
  <2>4. s[k] \in Seq(X)
    BY ElementOfSeq
  <2> QED BY <2>1, <2>3, <2>4, FlattenMore
<1>3. wrong = {}
  <2> SUFFICES ASSUME wrong # {} PROVE FALSE
    OBVIOUS
  <2>1. wrong \in SUBSET Nat
    BY <1>1
  <2>2. PICK k \in wrong : \A j \in wrong : k <= j
    <3> HIDE DEF wrong
    <3> QED BY <2>1, Least
  <2>3. k \in 0 .. Len(s) /\ F(k) \notin Seq(X) /\ k # 0
    <3>1. <<>> \in Seq(X)
      OBVIOUS
    <3>2. F(0) \in Seq(X)
      BY <1>1, <3>1, Zenon
    <3> QED BY <2>2, <3>2
  <2>4. k \in 1 .. Len(s) /\ k - 1 \in 0 .. Len(s) /\ ~(k <= k - 1)
    BY <1>1, <2>3
  <2>5. F(k - 1) \in Seq(X) /\ s[k] \in Seq(X)
    BY <2>2, <2>4
  <2>6. F(k) = F(k - 1) \o s[k]
    BY <1>2, <2>4
  <2> HIDE DEF F
  <2> QED BY <2>3, <2>5, <2>6, ConcatProperties
<1>4. \A k \in 0 .. Len(s) : F(k) \in Seq(X)
  BY <1>3
<1>5. less = {}
  <2> SUFFICES ASSUME less # {} PROVE FALSE
    OBVIOUS
  <2>1. less \in SUBSET Int /\ \A k \in less : k <= Len(s)
    BY <1>1
  <2>11. Len(s) \in Int
    BY <1>1
  <2>2. PICK k \in less : \A j \in less : j <= k
    <3> HIDE DEF less, F
    <3> QED BY <2>1, <2>11, GreatestInteger
  <2>3. k \in 0 .. Len(s) /\ Len(F(Len(s))) < Len(F(k))
    BY <2>2
  <2>4. F(Len(s)) \in Seq(X) /\ F(k) \in Seq(X)
    BY <1>1, <1>4, <2>3
  <2> HIDE DEF F, less
  <2>5. k # Len(s)
    BY <2>3, <2>4
  <2> DEFINE j == k + 1
  <2>6. j \in 1 .. Len(s) /\ j \in 0 .. Len(s) /\ j - 1 = k /\ ~(j <= k)
    BY <1>1, <2>3, <2>5
  <2> HIDE DEF j
  <2>7. F(j) = F(k) \o s[j] /\ s[j] \in Seq(X)
    <3>1. F(j) = F(j - 1) \o s[j]
      BY <1>2, <2>6
    <3>2. s[j] \in Seq(X)
      BY <2>6, ElementOfSeq
    <3> QED BY <2>6, <3>1, <3>2
  <2>8. Len(F(j)) = Len(F(k)) + Len(s[j]) /\ Len(s[j]) \in Nat
    BY <2>4, <2>7, ConcatProperties
  <2>9. Len(F(Len(s))) < Len(F(j))
    BY <2>3, <2>4, <2>8
  <2>10. j \in less
    BY <2>6, <2>9 DEF less
  <2> QED BY <2>2, <2>6, <2>10
<1>6. \A k \in 0 .. Len(s) : Len(F(k)) <= Len(F(Len(s)))
  <2>1. ASSUME NEW k \in 0 .. Len(s) PROVE Len(F(k)) \in Nat /\ Len(F(Len(s))) \in Nat
    BY <1>1, <1>4
  <2> HIDE DEF F
  <2> QED BY <1>5, <2>1
<1>7. FlattenSeq(s) \in Seq(X)
  BY <1>1, <1>4
<1> QED BY <1>1, <1>2, <1>4, <1>6, <1>7

\* What is left of a sequence.
LEMMA FromIs ==
  ASSUME NEW X, NEW s \in Seq(X)
  PROVE  \A j \in 0 .. Len(s) :
           /\ From(s, j) \in Seq(X) /\ Len(From(s, j)) = Len(s) - j
           /\ \A i \in 1 .. Len(s) - j : From(s, j)[i] = s[j + i]
<1>1. Len(s) \in Nat
  OBVIOUS
<1>2. ASSUME NEW j \in 0 .. Len(s)
      PROVE  /\ From(s, j) \in Seq(X) /\ Len(From(s, j)) = Len(s) - j
             /\ \A i \in 1 .. Len(s) - j : From(s, j)[i] = s[j + i]
  <2>1. \A i \in j + 1 .. Len(s) : s[i] \in X
    BY <1>1
  <2>2. /\ From(s, j) \in Seq(X)
        /\ Len(From(s, j)) = IF j + 1 <= Len(s) THEN Len(s) - (j + 1) + 1 ELSE 0
        /\ \A i \in 1 .. Len(s) - (j + 1) + 1 : From(s, j)[i] = s[j + 1 + i - 1]
    BY <1>1, <2>1, SubSeqProperties DEF From
  <2> QED BY <1>1, <2>2
<1> QED BY <1>2

\* What is left of a sequence, with something behind it.
LEMMA FromMore ==
  ASSUME NEW X, NEW s \in Seq(X), NEW r \in Seq(X)
  PROVE  /\ From(s, 0) = s /\ From(s, Len(s)) \o r = r
         /\ \A k \in 0 .. Len(s) : From(s, k) \in Seq(X)
<1>1. Len(s) \in Nat
  OBVIOUS
<1>2. \A j \in 0 .. Len(s) :
        /\ From(s, j) \in Seq(X) /\ Len(From(s, j)) = Len(s) - j
        /\ \A i \in 1 .. Len(s) - j : From(s, j)[i] = s[j + i]
  BY FromIs
<1>3. From(s, 0) = s
  <2>1. 0 \in 0 .. Len(s)
    BY <1>1
  <2>2. Len(From(s, 0)) = Len(s) /\ \A i \in 1 .. Len(s) : From(s, 0)[i] = s[i]
    BY <1>1, <1>2, <2>1
  <2> QED BY <1>2, <2>1, <2>2, SeqEqual
<1>4. From(s, Len(s)) \o r = r
  <2>1. From(s, Len(s)) = <<>>
    BY <1>1, <1>2
  <2> QED BY <2>1
<1> QED BY <1>2, <1>3, <1>4

\* The next element of what is left of a sequence.
LEMMA FromOn ==
  ASSUME NEW X, NEW s \in Seq(X), NEW r \in Seq(X), NEW k \in 0 .. Len(s) - 1
  PROVE  /\ From(s, k) \o r # <<>> /\ Head(From(s, k) \o r) = s[k + 1]
         /\ Tail(From(s, k) \o r) = From(s, k + 1) \o r
<1>1. Len(s) \in Nat
  OBVIOUS
<1>2. \A j \in 0 .. Len(s) :
        /\ From(s, j) \in Seq(X) /\ Len(From(s, j)) = Len(s) - j
        /\ \A i \in 1 .. Len(s) - j : From(s, j)[i] = s[j + i]
  BY FromIs
<1> DEFINE a == From(s, k)
           b == From(s, k + 1)
<1>3. k + 1 \in 0 .. Len(s) /\ 1 \in 1 .. Len(s) - k /\ k \in 0 .. Len(s)
  BY <1>1
<1>4. /\ a \in Seq(X) /\ Len(a) = Len(s) - k /\ \A i \in 1 .. Len(s) - k : a[i] = s[k + i]
      /\ b \in Seq(X) /\ Len(b) = Len(s) - (k + 1)
      /\ \A i \in 1 .. Len(s) - (k + 1) : b[i] = s[k + 1 + i]
  BY <1>2, <1>3
<1> HIDE DEF a, b
<1>5. /\ a \o r \in Seq(X) /\ Len(a \o r) = Len(a) + Len(r)
      /\ \A i \in 1 .. Len(a) + Len(r) :
           (a \o r)[i] = IF i <= Len(a) THEN a[i] ELSE r[i - Len(a)]
      /\ b \o r \in Seq(X) /\ Len(b \o r) = Len(b) + Len(r)
      /\ \A i \in 1 .. Len(b) + Len(r) :
           (b \o r)[i] = IF i <= Len(b) THEN b[i] ELSE r[i - Len(b)]
  BY <1>4, ConcatProperties
<1>6. Len(r) \in Nat /\ Len(a) = Len(b) + 1 /\ Len(b) \in Nat
  BY <1>1, <1>4
<1>7. a \o r # <<>> /\ Head(a \o r) = (a \o r)[1] /\ (a \o r)[1] = s[k + 1]
  BY <1>1, <1>3, <1>4, <1>5, <1>6
<1> DEFINE u == a \o r
           v == b \o r
<1> HIDE DEF u, v
<1>8. u \in Seq(X) /\ u # <<>> /\ v \in Seq(X) /\ Len(u) = Len(v) + 1
  BY <1>5, <1>6, <1>7 DEF u, v
<1>9. Tail(u) \in Seq(X) /\ Len(Tail(u)) = Len(v) /\ \A i \in 1 .. Len(v) : Tail(u)[i] = u[i + 1]
  BY <1>8
<1>10. ASSUME NEW i \in 1 .. Len(v) PROVE u[i + 1] = v[i]
  <2>1. i + 1 \in 1 .. Len(a) + Len(r) /\ i \in 1 .. Len(b) + Len(r)
    BY <1>5, <1>6 DEF v
  <2>2. /\ u[i + 1] = IF i + 1 <= Len(a) THEN a[i + 1] ELSE r[i + 1 - Len(a)]
        /\ v[i] = IF i <= Len(b) THEN b[i] ELSE r[i - Len(b)]
    BY <1>5, <2>1 DEF u, v
  <2>3. CASE i <= Len(b)
    <3>1. i + 1 \in 1 .. Len(s) - k /\ i \in 1 .. Len(s) - (k + 1) /\ k + (i + 1) = k + 1 + i
      BY <1>1, <1>4, <1>6, <2>1, <2>3
    <3>2. a[i + 1] = s[k + (i + 1)] /\ b[i] = s[k + 1 + i]
      BY <1>4, <3>1
    <3> QED BY <1>6, <2>2, <2>3, <3>1, <3>2
  <2>4. CASE ~(i <= Len(b))
    <3>1. i + 1 - Len(a) = i - Len(b) /\ ~(i + 1 <= Len(a))
      BY <1>6, <2>1, <2>4
    <3> QED BY <2>2, <2>4, <3>1
  <2> QED BY <2>3, <2>4
<1>11. Tail(u) = v
  BY <1>8, <1>9, <1>10, SeqEqual
<1> QED BY <1>7, <1>11 DEF u, v, a, b

-----------------------------------------------------------------------------
(* How far a setup file is read, and what it has said by then. *)

Said(node)   == IF Defined(node) THEN TextOf(node) ELSE NoName
FieldAt(i)   == <<"state_channel", "error_channel", "endpoint", "identity">>[i]
HeadOf(root) == Child(root, "fsm")

\* The first n of name and initial are read, and the first k fields of the port.
SetupRead(root, s, n, k) ==
  LET name == Child(HeadOf(root), "name")
      initial == Child(HeadOf(root), "initial") IN
  /\ SetupRootStatus(root) = "Ok"
  /\ s.name = IF n > 0 THEN Said(name) ELSE NoName
  /\ s.initial = IF n > 1 THEN Said(initial) ELSE NoName
  /\ n > 0 => SaysNothingOr(name, FitText)
  /\ n > 1 => FitName(initial)
  /\ k > 0 => SaysNothingOr(Child(root, "io"), IsMap)
  /\ \A i \in 1 .. 4 :
       /\ s.io[FieldAt(i)] = IF i <= k THEN Said(Child(Child(root, "io"), FieldAt(i))) ELSE NoName
       /\ i <= k => SaysNothingOr(Child(Child(root, "io"), FieldAt(i)), FitText)

\* What is left of a setup file tells what s holds.
SetupAt(root, s, rest) ==
  LET name    == Part("name", Child(HeadOf(root), "name"))
      initial == Part("initial", Child(HeadOf(root), "initial"))
      io      == Part("io", Child(root, "io")) IN
  \/ rest = <<Part("root", root)>> /\ s = EmptySetup
  \/ rest = <<name, initial, io>> /\ SetupRead(root, s, 0, 0)
  \/ rest = <<initial, io>> /\ SetupRead(root, s, 1, 0)
  \/ rest = <<io>> /\ SetupRead(root, s, 2, 0)
  \/ \E k \in 0 .. 4 :
       /\ rest = From(FieldParts(Child(root, "io")), k) /\ SetupRead(root, s, 2, k)
       /\ SaysNothingOr(Child(root, "io"), IsMap)

\* A turn of a setup file that is right: it refuses only what is not well formed.
JudgedSetup ==
  \/ \E answer : answer # "Ok" /\ Ends(answer) /\ ~SetupWellFormed(source.root)
  \/ \E with, parts : GoesOn(with, parts) /\ SetupAt(source.root, with, parts \o Tail(todo))

\* The kind of a node tells what it is not.
LEMMA Kinds ==
  /\ Absent.kind = "absent" /\ Blank.kind = "null"
  /\ \A text : Scalar(text).kind = "scalar" /\ Scalar(text).text = text
  /\ ~IsMap(Absent) /\ ~IsList(Absent) /\ ~Readable(Absent) /\ ~Defined(Absent)
BY DEF Absent, Blank, Scalar, IsMap, IsList, Readable, Defined

\* What is looked up in nothing is nothing.
LEMMA NoChild ==
  ASSUME NEW node, ~IsMap(node), NEW key
  PROVE  Child(node, key) = Absent
BY DEF Child

\* A text is refused that does not fit, if it is there.
LEMMA FitsIfOk ==
  ASSUME NEW node \in Node, NEW tooLong \in {"NameTooLong", "ChannelTooLong"}
  PROVE  FitStatus(node, tooLong) = "Ok" <=> SaysNothingOr(node, FitText)
BY DEF FitStatus, SaysNothingOr, FitText, Defined

\* Where to start is refused too if it says nothing.
LEMMA StartsIfOk ==
  ASSUME NEW node \in Nodes
  PROVE  InitialStatus(node) = "Ok" <=> FitName(node)
<1>1. node \in Node /\ node # Absent
  BY NodesAssumption DEF Node, Absent, Blank, Scalar, IsList, IsMap
<1>2. FitStatus(node, "NameTooLong") = "Ok" <=> FitText(node)
  BY <1>1, FitsIfOk DEF SaysNothingOr
<1>3. ASSUME Readable(node) PROVE TextOf(node) = NoName <=> node = Scalar("")
  <2>1. CASE node = Blank
    BY <2>1 DEF TextOf, NoName, Scalar, Blank
  <2>2. CASE node # Blank
    <3>1. node.kind = "scalar" /\ node = Scalar(node.text)
      BY <1>3, <2>2, NodesAssumption DEF Readable, IsList, IsMap
    <3>2. TextOf(node) = node.text
      BY <2>2 DEF TextOf
    <3> QED
      BY <3>1, <3>2, Kinds DEF NoName
  <2> QED
    BY <2>1, <2>2
<1> QED
  BY <1>2, <1>3 DEF InitialStatus, FitName, FitText

\* The fields of a setup's port, and those that are left of them.
LEMMA FieldsLeft ==
  ASSUME NEW io \in Node
  PROVE  LET fields == FieldParts(io) IN
         /\ fields \in Seq(SetupPart) /\ Len(fields) = 4
         /\ \A i \in 1 .. 4 : /\ fields[i].what = "field" /\ fields[i].node = Child(io, FieldAt(i))
                              /\ fields[i].key.text = FieldAt(i)
         /\ \A k \in 0 .. 3 : /\ From(fields, k) # <<>> /\ Head(From(fields, k)) = fields[k + 1]
                              /\ Tail(From(fields, k)) = From(fields, k + 1)
         /\ From(fields, 0) = fields /\ From(fields, 4) = <<>>
<1> DEFINE fields == FieldParts(io)
<1>1. \A i \in 1 .. 4 : FieldAt(i) \in Fields /\ Child(io, FieldAt(i)) \in Node
  BY ChildIsNode DEF FieldAt, Fields
<1>2. /\ fields \in Seq(SetupPart) /\ Len(fields) = 4
      /\ \A i \in 1 .. 4 : /\ fields[i].what = "field" /\ fields[i].node = Child(io, FieldAt(i))
                           /\ fields[i].key.text = FieldAt(i)
  <2>1. fields = [i \in 1 .. 4 |-> [what |-> "field", node |-> Child(io, FieldAt(i)), key |-> Scalar(FieldAt(i)),
                                  from |-> kNoState, trigger |-> kNoTrigger]]
    BY DEF FieldParts, FieldAt, Part
  <2> HIDE DEF fields
  <2>2. ASSUME NEW i \in 1 .. 4
        PROVE  [what |-> "field", node |-> Child(io, FieldAt(i)), key |-> Scalar(FieldAt(i)),
                                  from |-> kNoState, trigger |-> kNoTrigger] \in SetupPart
    BY <1>1 DEF SetupPart, kNoState, kNoTrigger
  <2>3. fields \in Seq(SetupPart)
    BY <2>1, <2>2
  <2> QED
    BY <2>1, <2>3, Kinds
<1> HIDE DEF fields
<1>4. ASSUME NEW k \in 0 .. 3
      PROVE  From(fields, k) # <<>> /\ Head(From(fields, k)) = fields[k + 1]
             /\ Tail(From(fields, k)) = From(fields, k + 1)
  <2>1. k \in 0 .. Len(fields) /\ k + 1 \in 0 .. Len(fields) /\ k \in 0 .. Len(fields) - 1
    BY <1>2
  <2>2. <<>> \in Seq(SetupPart)
    OBVIOUS
  <2>3. From(fields, k) \in Seq(SetupPart) /\ From(fields, k + 1) \in Seq(SetupPart)
    BY <1>2, <2>1, <2>2, FromMore
  <2>4. From(fields, k) \o <<>> = From(fields, k) /\ From(fields, k + 1) \o <<>> = From(fields, k + 1)
    BY <2>3, ConcatEmptySeq
  <2>5. /\ From(fields, k) \o <<>> # <<>> /\ Head(From(fields, k) \o <<>>) = fields[k + 1]
        /\ Tail(From(fields, k) \o <<>>) = From(fields, k + 1) \o <<>>
    BY <1>2, <2>1, <2>2, FromOn
  <2> QED
    BY <2>4, <2>5
<1>5. From(fields, 0) = fields /\ From(fields, 4) = <<>>
  <2>1. <<>> \in Seq(SetupPart) /\ 0 \in 0 .. Len(fields) /\ 4 \in 0 .. Len(fields) /\ 4 = Len(fields)
    BY <1>2
  <2>2. From(fields, 0) = fields
    BY <1>2, <2>1, FromMore
  <2>3. From(fields, 4) \in Seq(SetupPart) /\ From(fields, 4) \o <<>> = <<>>
    <3> DEFINE k == 4
    <3>1. /\ k \in 0 .. Len(fields) /\ k = Len(fields)
          /\ fields \in Seq(SetupPart) /\ <<>> \in Seq(SetupPart)
      BY <1>2, <2>1
    <3> HIDE DEF k
    <3>2. From(fields, k) \in Seq(SetupPart) /\ From(fields, k) \o <<>> = <<>>
      BY ONLY <3>1, FromMore
    <3> QED
      BY <3>2 DEF k
  <2> QED
    BY <2>2, <2>3, ConcatEmptySeq
<1> QED
  BY <1>2, <1>4, <1>5 DEF fields

\* Every turn of a setup file is right.
LEMMA SetupTurns ==
  ASSUME LoadInv, stage = "parsing", file = "setup", SetupAt(source.root, target, todo),
         SetupRoot \/ SetupName \/ SetupInitial \/ SetupIo \/ SetupField
  PROVE  JudgedSetup
<1> DEFINE root    == source.root
           name    == Child(HeadOf(root), "name")
           initial == Child(HeadOf(root), "initial")
           io      == Child(root, "io")
           fields  == FieldParts(io)
<1>1. /\ root \in Node /\ name \in Node /\ initial \in Node /\ io \in Node
      /\ Filling(target) /\ HeadOf(root) \in Node
      /\ \A i \in 1 .. 4 : FieldAt(i) \in Fields /\ Child(io, FieldAt(i)) \in Node
  <2>1. root \in Node
    BY SourcesAssumption DEF LoadInv, Node
  <2>2. HeadOf(root) \in Node /\ io \in Node
    BY <2>1, ChildIsNode DEF HeadOf
  <2>3. \A i \in 1 .. 4 : FieldAt(i) \in Fields
    BY DEF FieldAt, Fields
  <2>4. Filling(target)
    BY DEF LoadInv, Reading, Whole
  <2> QED
    BY <2>1, <2>2, <2>3, <2>4, ChildIsNode
<1>2. /\ fields \in Seq(SetupPart) /\ Len(fields) = 4
      /\ \A i \in 1 .. 4 : /\ fields[i].what = "field" /\ fields[i].node = Child(io, FieldAt(i))
                           /\ fields[i].key.text = FieldAt(i)
      /\ \A k \in 0 .. 3 : /\ From(fields, k) # <<>> /\ Head(From(fields, k)) = fields[k + 1]
                           /\ Tail(From(fields, k)) = From(fields, k + 1)
      /\ From(fields, 0) = fields /\ From(fields, 4) = <<>>
  BY <1>1, FieldsLeft
<1> HIDE DEF root, name, initial, io, fields
<1>3. \/ todo = <<Part("root", root)>> /\ target = EmptySetup
      \/ todo = <<Part("name", name), Part("initial", initial), Part("io", io)>> /\ SetupRead(root, target, 0, 0)
      \/ todo = <<Part("initial", initial), Part("io", io)>> /\ SetupRead(root, target, 1, 0)
      \/ todo = <<Part("io", io)>> /\ SetupRead(root, target, 2, 0)
      \/ \E k \in 0 .. 4 : todo = From(fields, k) /\ SetupRead(root, target, 2, k)
                           /\ SaysNothingOr(io, IsMap)
  BY DEF SetupAt, root, name, initial, io, fields
<1>6. ASSUME NEW what, Comes(what)
      PROVE  /\ Head(todo).what = what /\ todo # <<>>
             /\ \/ /\ what = "root" /\ todo = <<Part("root", root)>> /\ target = EmptySetup
                \/ /\ what = "name" /\ SetupRead(root, target, 0, 0)
                   /\ todo = <<Part("name", name), Part("initial", initial), Part("io", io)>>
                \/ /\ what = "initial" /\ SetupRead(root, target, 1, 0)
                   /\ todo = <<Part("initial", initial), Part("io", io)>>
                \/ /\ what = "io" /\ todo = <<Part("io", io)>> /\ SetupRead(root, target, 2, 0)
                \/ /\ what = "field" /\ SaysNothingOr(io, IsMap)
                   /\ \E k \in 0 .. 3 : todo = From(fields, k) /\ SetupRead(root, target, 2, k)
  <2>1. Head(todo).what = what /\ todo # <<>>
    BY <1>6 DEF Comes
  <2>2. ASSUME NEW k \in 0 .. 4, todo = From(fields, k)
        PROVE  k \in 0 .. 3 /\ what = "field"
    <3>1. k # 4
      BY <1>2, <2>1, <2>2
    <3>2. k \in 0 .. 3 /\ k + 1 \in 1 .. 4
      BY <3>1
    <3> QED
      BY <1>2, <2>1, <2>2, <3>2
  <2>3. \A kind, node : Part(kind, node).what = kind
    BY DEF Part
  <2> QED
    BY <1>3, <2>1, <2>2, <2>3
<1>7. ASSUME NEW s, NEW rest,
             \/ rest = <<Part("name", name), Part("initial", initial), Part("io", io)>> /\ SetupRead(root, s, 0, 0)
             \/ rest = <<Part("initial", initial), Part("io", io)>> /\ SetupRead(root, s, 1, 0)
             \/ rest = <<Part("io", io)>> /\ SetupRead(root, s, 2, 0)
             \/ SaysNothingOr(io, IsMap)
                /\ \E k \in 0 .. 4 : rest = From(fields, k) /\ SetupRead(root, s, 2, k)
      PROVE  SetupAt(root, s, rest)
  BY <1>7 DEF SetupAt, root, name, initial, io, fields
<1>9. /\ DOMAIN target = {"name", "initial", "io"} /\ DOMAIN target.io = Fields
      /\ \A i \in 1 .. 4 : FieldAt(i) \in Fields
      /\ \A i, j \in 1 .. 4 : FieldAt(i) = FieldAt(j) => i = j
  BY <1>1 DEF Filling, EmptySetup, FieldAt, Fields
<1>10. CASE SetupRoot
  <2>1. /\ Comes("root") /\ todo = <<Part("root", root)>> /\ target = EmptySetup
    BY <1>6, <1>10 DEF SetupRoot
  <2>2. Head(todo).node = root /\ Tail(todo) = <<>>
    BY <2>1 DEF Part
  <2>3. CASE SetupRootStatus(root) # "Ok"
    <3>1. ~SetupWellFormed(root)
      BY <2>3, Kinds, NoChild DEF SetupRootStatus, SetupWellFormed, Defined, FitName, FitText
    <3>2. Ends("SchemaError")
      BY <1>10, <2>2, <2>3 DEF SetupRoot
    <3> QED
      BY <3>1, <3>2 DEF JudgedSetup, root
  <2>4. CASE SetupRootStatus(root) = "Ok"
    <3> DEFINE parts == <<Part("name", name), Part("initial", initial), Part("io", io)>>
    <3>1. GoesOn(target, parts)
      BY <1>10, <2>2, <2>4 DEF SetupRoot, name, initial, io, HeadOf
    <3>2. SetupRead(root, target, 0, 0)
      BY <1>9, <2>1, <2>4 DEF SetupRead, EmptySetup
    <3>3. parts \o Tail(todo) = parts
      <4>1. parts \in Seq({parts[1], parts[2], parts[3]})
        OBVIOUS
      <4> HIDE DEF parts
      <4> QED
        BY <2>2, <4>1, ConcatEmptySeq
    <3> HIDE DEF parts
    <3>4. SetupAt(root, target, parts)
      BY <1>7, <3>2 DEF parts
    <3> QED
      BY <3>1, <3>3, <3>4 DEF JudgedSetup, root
  <2> QED
    BY <2>3, <2>4
<1>11. CASE SetupName
  <2> DEFINE with == IF Defined(name) THEN [target EXCEPT !.name = TextOf(name)] ELSE target
  <2>1. /\ Comes("name") /\ SetupRead(root, target, 0, 0)
        /\ todo = <<Part("name", name), Part("initial", initial), Part("io", io)>>
    BY <1>6, <1>11 DEF SetupName
  <2>2. Head(todo).node = name /\ Tail(todo) = <<Part("initial", initial), Part("io", io)>>
    BY <2>1 DEF Part
  <2>3. CASE FitStatus(name, "NameTooLong") # "Ok"
    <3>1. ~SetupWellFormed(root)
      BY <1>1, <2>3, FitsIfOk DEF SetupWellFormed, name, HeadOf
    <3>2. Ends(FitStatus(name, "NameTooLong"))
      BY <1>11, <2>2, <2>3 DEF SetupName, Unless
    <3> QED
      BY <2>3, <3>1, <3>2 DEF JudgedSetup, root
  <2>4. CASE FitStatus(name, "NameTooLong") = "Ok"
    <3>1. GoesOn(with, <<>>)
      BY <1>11, <2>2, <2>4 DEF SetupName, Unless
    <3>2. /\ with.name = Said(name) /\ with.initial = target.initial /\ with.io = target.io
      BY <1>9, <2>1 DEF SetupRead, Said
    <3> HIDE DEF with
    <3>3. SetupRead(root, with, 1, 0)
      BY <1>1, <2>1, <2>4, <3>2, FitsIfOk DEF SetupRead, name
    <3>4. <<>> \o Tail(todo) = Tail(todo)
      BY <2>2
    <3> QED
      BY <1>7, <2>2, <3>1, <3>3, <3>4 DEF JudgedSetup, root
  <2> QED
    BY <2>3, <2>4
<1>12. CASE SetupInitial
  <2> DEFINE with == [target EXCEPT !.initial = TextOf(initial)]
  <2>1. /\ Comes("initial") /\ SetupRead(root, target, 1, 0)
        /\ todo = <<Part("initial", initial), Part("io", io)>>
    BY <1>6, <1>12 DEF SetupInitial
  <2>2. Head(todo).node = initial /\ Tail(todo) = <<Part("io", io)>>
    BY <2>1 DEF Part
  <2>3. initial \in Nodes /\ Defined(initial)
    BY <1>1, <2>1 DEF SetupRead, SetupRootStatus, Defined, Node, initial, HeadOf
  <2>4. CASE InitialStatus(initial) # "Ok"
    <3>1. ~SetupWellFormed(root)
      BY <2>3, <2>4, StartsIfOk DEF SetupWellFormed, initial, HeadOf
    <3>2. Ends(InitialStatus(initial))
      BY <1>12, <2>2, <2>4 DEF SetupInitial, Unless
    <3> QED
      BY <2>4, <3>1, <3>2 DEF JudgedSetup, root
  <2>5. CASE InitialStatus(initial) = "Ok"
    <3>1. GoesOn(with, <<>>)
      BY <1>12, <2>2, <2>5 DEF SetupInitial, Unless
    <3>2. /\ with.name = target.name /\ with.initial = Said(initial) /\ with.io = target.io
      BY <1>9, <2>3 DEF Said
    <3> HIDE DEF with
    <3>3. SetupRead(root, with, 2, 0)
      BY <2>1, <2>3, <2>5, <3>2, StartsIfOk DEF SetupRead, initial
    <3>4. <<>> \o Tail(todo) = Tail(todo)
      BY <2>2
    <3> QED
      BY <1>7, <2>2, <3>1, <3>3, <3>4 DEF JudgedSetup, root
  <2> QED
    BY <2>4, <2>5
<1>13. CASE SetupIo
  <2>0. Comes("io")
    BY <1>13 DEF SetupIo
  <2>1. todo = <<Part("io", io)>> /\ SetupRead(root, target, 2, 0)
    BY <1>6, <2>0
  <2>2. Head(todo).node = io /\ Tail(todo) = <<>>
    BY <2>1 DEF Part
  <2>3. CASE ~Defined(io)
    <3>1. GoesOn(target, <<>>) /\ <<>> \o Tail(todo) = From(fields, 4)
      <4>1. <<>> \o <<>> = <<>>
        OBVIOUS
      <4> QED
        BY <1>2, <1>13, <2>2, <2>3, <4>1 DEF SetupIo
    <3>2. io = Absent /\ \A i \in 1 .. 4 : Child(io, FieldAt(i)) = Absent
      BY <2>3, Kinds, NoChild DEF Defined
    <3>3. SetupRead(root, target, 2, 4) /\ SaysNothingOr(io, IsMap)
      BY <2>1, <3>2, Kinds DEF SetupRead, SaysNothingOr, Said, io
    <3>4. SetupAt(root, target, From(fields, 4))
      BY <1>7, <3>3
    <3> QED
      BY <3>1, <3>4 DEF JudgedSetup, root
  <2>4. CASE Defined(io) /\ ~IsMap(io)
    <3>1. ~SetupWellFormed(root) /\ Ends("SchemaError")
      BY <1>13, <2>2, <2>4 DEF SetupIo, SetupWellFormed, SaysNothingOr, Defined, io
    <3> QED
      BY <3>1 DEF JudgedSetup, root
  <2>5. CASE Defined(io) /\ IsMap(io)
    <3>1. GoesOn(target, fields) /\ fields \o Tail(todo) = From(fields, 0)
      BY <1>2, <1>13, <2>2, <2>5, ConcatEmptySeq DEF SetupIo, fields
    <3>2. SaysNothingOr(io, IsMap)
      BY <2>5 DEF SaysNothingOr
    <3> QED
      BY <1>7, <2>1, <3>1, <3>2 DEF JudgedSetup, root
  <2> QED
    BY <2>3, <2>4, <2>5
<1>14. CASE SetupField
  <2>1. /\ Comes("field") /\ SaysNothingOr(io, IsMap)
        /\ \E k \in 0 .. 3 : todo = From(fields, k) /\ SetupRead(root, target, 2, k)
    BY <1>6, <1>14 DEF SetupField
  <2>2. PICK k \in 0 .. 3 : todo = From(fields, k) /\ SetupRead(root, target, 2, k)
    BY <2>1
  <2> DEFINE i     == k + 1
             field == FieldAt(i)
             node  == Child(io, field)
             with  == IF Defined(node) THEN [target EXCEPT !.io[field] = TextOf(node)] ELSE target
             long  == IF field = "identity" THEN "NameTooLong" ELSE "ChannelTooLong"
  <2>3. i \in 1 .. 4 /\ i \in 0 .. 4 /\ ~(i <= k) /\ \A j \in 1 .. 4 : j <= i <=> j <= k \/ j = i
    OBVIOUS
  <2>4. /\ Head(todo).node = node /\ Head(todo).key.text = field
        /\ <<>> \o Tail(todo) = From(fields, i)
    <3>1. Head(todo) = fields[k + 1] /\ Tail(todo) = From(fields, k + 1)
      BY <1>2, <2>2
    <3>2. From(fields, i) \in Seq(SetupPart)
      <4>1. i \in 0 .. Len(fields) /\ <<>> \in Seq(SetupPart)
        BY <1>2
      <4> QED
        BY <1>2, <4>1, FromMore
    <3>3. <<>> \o Tail(todo) = From(fields, i)
      BY <3>1, <3>2, ConcatEmptySeq
    <3> QED
      BY <1>2, <2>3, <3>1, <3>3
  <2>5. field \in Fields /\ node \in Node /\ long \in {"NameTooLong", "ChannelTooLong"}
    BY <1>1, <2>3
  <2>6. Unless(FitStatus(node, long), with, <<>>)
    BY <1>14, <2>4 DEF SetupField
  <2> HIDE DEF i, long
  <2>7. CASE FitStatus(node, long) # "Ok"
    <3>1. ~SaysNothingOr(node, FitText)
      BY <2>5, <2>7, FitsIfOk
    <3>2. ~SetupWellFormed(root)
      BY <2>5, <3>1 DEF SetupWellFormed, io
    <3>3. Ends(FitStatus(node, long))
      BY <2>6, <2>7 DEF Unless
    <3> QED
      BY <2>7, <3>2, <3>3 DEF JudgedSetup, root
  <2>8. CASE FitStatus(node, long) = "Ok"
    <3>1. SaysNothingOr(node, FitText)
      BY <2>5, <2>8, FitsIfOk
    <3>2. GoesOn(with, <<>>)
      BY <2>6, <2>8 DEF Unless
    <3>3. target.io[field] = NoName
      BY <2>2, <2>3 DEF SetupRead
    <3>4. /\ with.name = target.name /\ with.initial = target.initial
          /\ with.io[field] = Said(node)
          /\ \A f \in Fields : f # field => with.io[f] = target.io[f]
      BY <1>9, <2>5, <3>3 DEF Said
    <3> HIDE DEF with
    <3>5. ASSUME NEW j \in 1 .. 4
          PROVE  /\ with.io[FieldAt(j)] = IF j <= i THEN Said(Child(io, FieldAt(j))) ELSE NoName
                 /\ j <= i => SaysNothingOr(Child(io, FieldAt(j)), FitText)
      <4>1. CASE j = i
        BY <2>3, <3>1, <3>4, <4>1
      <4>2. CASE j # i
        <5>1. FieldAt(j) # field /\ FieldAt(j) \in Fields
          BY <1>9, <2>3, <4>2
        <5>2. with.io[FieldAt(j)] = target.io[FieldAt(j)]
          BY <3>4, <5>1
        <5>3. /\ target.io[FieldAt(j)] = IF j <= k THEN Said(Child(io, FieldAt(j))) ELSE NoName
              /\ j <= k => SaysNothingOr(Child(io, FieldAt(j)), FitText)
          BY <2>2 DEF SetupRead, io
        <5>4. j <= i <=> j <= k
          BY <2>3, <4>2
        <5> QED
          BY <5>2, <5>3, <5>4
      <4> QED
        BY <4>1, <4>2
    <3>6. SetupRead(root, with, 2, i)
      BY <2>1, <2>2, <3>4, <3>5 DEF SetupRead, io
    <3>7. SetupAt(root, with, From(fields, i))
      BY <1>7, <2>1, <2>3, <3>6
    <3> QED
      BY <2>4, <3>2, <3>7 DEF JudgedSetup, root
  <2> QED
    BY <2>7, <2>8
<1> QED
  BY <1>10, <1>11, <1>12, <1>13, <1>14

\* A setup that is read to its end is well formed, and says what it says.
LEMMA SetupCompletes ==
  ASSUME NEW root \in Node, NEW s, SetupAt(root, s, <<>>)
  PROVE  SetupWellFormed(root) /\ SetupSays(s, root)
<1> DEFINE io == Child(root, "io")
<1>1. io \in Node
  BY ChildIsNode
<1>2. SetupRead(root, s, 2, 4) /\ SaysNothingOr(io, IsMap)
  <2>1. PICK k \in 0 .. 4 : /\ <<>> = From(FieldParts(io), k) /\ SetupRead(root, s, 2, k)
                           /\ SaysNothingOr(io, IsMap)
    BY DEF SetupAt
  <2>2. k \notin 0 .. 3
    BY <1>1, <2>1, FieldsLeft
  <2>3. k = 4
    BY <2>2
  <2> QED
    BY <2>1, <2>3
<1>3. ASSUME NEW field \in Fields
      PROVE  SaysNothingOr(Child(io, field), FitText) /\ s.io[field] = Said(Child(io, field))
  <2>1. PICK i \in 1 .. 4 : field = FieldAt(i)
    <3>1. field = FieldAt(1) \/ field = FieldAt(2) \/ field = FieldAt(3) \/ field = FieldAt(4)
      BY DEF FieldAt, Fields
    <3> QED
      BY <3>1
  <2> QED
    BY <1>2, <2>1 DEF SetupRead
<1>4. SetupWellFormed(root)
  <2>1. IsMap(root) /\ Child(root, "states") = Absent /\ Child(root, "triggers") = Absent
    BY <1>2 DEF SetupRead, SetupRootStatus, Defined
  <2>2. /\ FitName(Child(Child(root, "fsm"), "initial"))
        /\ SaysNothingOr(Child(Child(root, "fsm"), "name"), FitText)
    BY <1>2 DEF SetupRead, HeadOf
  <2>3. \A field \in Fields : SaysNothingOr(Child(Child(root, "io"), field), FitText)
    BY <1>3
  <2> HIDE DEF io
  <2> QED
    BY <1>2, <2>1, <2>2, <2>3 DEF SetupWellFormed, io
<1>5. SetupSays(s, root)
  BY <1>2, <1>3 DEF SetupRead, SetupSays, Said, HeadOf
<1> QED
  BY <1>4, <1>5

-----------------------------------------------------------------------------
(* The parts of a machine file, read by a pass and as a whole. *)

\* parse_when accepts the guards that fit.
LEMMA WhenFits ==
  ASSUME NEW when \in Node
  PROVE  WhenStatus(when) = "Ok" <=> GuardFits(when)
<1> DEFINE nodes  == ComparisonsIn(when)
           failed == {i \in 1 .. Len(nodes) : ComparisonStatus(nodes[i], i) # "Ok"}
<1>1. nodes \in Seq(Node) /\ Len(nodes) \in Nat /\ DOMAIN nodes = 1 .. Len(nodes)
  BY ComparisonsAreNodes
<1>2. ASSUME failed # {} PROVE WhenStatus(when) # "Ok"
  <2>1. failed \in SUBSET Nat
    BY <1>1
  <2>2. \E i \in failed : \A j \in failed : i <= j
    BY <1>2, <2>1, Least
  <2>3. FirstOf(failed) \in failed
    BY <2>2 DEF FirstOf
  <2>4. ComparisonStatus(nodes[FirstOf(failed)], FirstOf(failed)) # "Ok"
    BY <2>3
  <2> QED
    BY <1>2, <2>4 DEF WhenStatus
<1>3. WhenStatus(when) = "Ok" <=> ~(Defined(when) /\ Len(nodes) = 0) /\ failed = {}
  BY <1>2 DEF WhenStatus
<1>4. ASSUME NEW i \in 1 .. Len(nodes)
      PROVE  ComparisonStatus(nodes[i], i) = "Ok" <=>
               /\ Readable(nodes[i]) /\ i <= kMaxConditionsPerGuard
               /\ TextOf(nodes[i]) \in DOMAIN Readings
  <2>1. i \in Nat /\ (i > kMaxConditionsPerGuard <=> ~(i <= kMaxConditionsPerGuard))
    BY <1>1, GuardAssumption
  <2> HIDE DEF nodes
  <2> QED
    BY <2>1 DEF ComparisonStatus
<1>5. failed = {} <=>
        \A i \in 1 .. Len(nodes) : /\ Readable(nodes[i]) /\ i <= kMaxConditionsPerGuard
                                   /\ TextOf(nodes[i]) \in DOMAIN Readings
  BY <1>4
<1>6. ~Defined(when) => Len(nodes) = 0
  BY DEF ComparisonsIn
<1>7. GuardFits(when) <=>
        \/ ~Defined(when)
        \/ /\ Len(nodes) \in 1 .. kMaxConditionsPerGuard
           /\ \A i \in DOMAIN nodes : Readable(nodes[i]) /\ TextOf(nodes[i]) \in DOMAIN Readings
  BY DEF GuardFits
<1> HIDE DEF nodes, failed
<1>8. CASE ~Defined(when)
  BY <1>3, <1>5, <1>6, <1>7, <1>8
<1>9. CASE Defined(when)
  <2>1. Len(nodes) = 0 \/ Len(nodes) \in 1 .. Len(nodes)
    BY <1>1
  <2>2. Len(nodes) \in 1 .. kMaxConditionsPerGuard <=>
          Len(nodes) # 0 /\ \A i \in 1 .. Len(nodes) : i <= kMaxConditionsPerGuard
    BY <1>1, <2>1, GuardAssumption
  <2> QED
    BY <1>1, <1>3, <1>5, <1>7, <1>9, <2>2
<1> QED
  BY <1>8, <1>9

\* A lookup by name finds the id that has the name, or nothing.
LEMMA Found ==
  ASSUME NEW C, NEW m, Built(m, C)
  PROVE  /\ \A s \in DOMAIN m.states : /\ s \in Nat /\ FindState(m, m.states[s].name) = s
                                       /\ m.states[s].name \in DOMAIN m.stateIndex
         /\ \A name : \/ FindState(m, name) = kNoState /\ name \notin DOMAIN m.stateIndex
                      \/ FindState(m, name) \in DOMAIN m.states
                         /\ m.states[FindState(m, name)].name = name
                         /\ FindState(m, name) # kNoState
         /\ \A t \in DOMAIN m.triggers : /\ t \in Nat /\ FindTrigger(m, m.triggers[t].name) = t
                                         /\ m.triggers[t].name \in DOMAIN m.triggerIndex
         /\ \A name : \/ FindTrigger(m, name) = kNoTrigger /\ name \notin DOMAIN m.triggerIndex
                      \/ FindTrigger(m, name) \in DOMAIN m.triggers
                         /\ m.triggers[FindTrigger(m, name)].name = name
                         /\ FindTrigger(m, name) # kNoTrigger
<1> DEFINE ns == Cardinality(DOMAIN m.states)
           nt == Cardinality(DOMAIN m.triggers)
<1>1. ns \in Nat /\ nt \in Nat
  BY FS_CardinalityType DEF Built
<1>2. /\ DOMAIN m.states = 0 .. ns - 1 /\ ns <= kMaxStates
      /\ DOMAIN m.triggers = 0 .. nt - 1 /\ nt <= kMaxTriggers
  BY DEF Built, WithinCapacities
<1> HIDE DEF ns, nt
<1>3. /\ \A s \in DOMAIN m.states : s \in Nat /\ s # kNoState
      /\ \A t \in DOMAIN m.triggers : t \in Nat /\ t # kNoTrigger
  BY <1>1, <1>2, CapacityAssumption, IdAssumption DEF kNoState, kNoTrigger
<1>4. Inverts(m.stateIndex, NamesOf(m.states)) /\ Inverts(m.triggerIndex, NamesOf(m.triggers))
  BY DEF Built, Indexed
<1>5. ASSUME NEW index, NEW table, NEW none, Inverts(index, NamesOf(table)),
             \A id \in DOMAIN table : id # none
      PROVE  /\ \A id \in DOMAIN table : Lookup(index, table[id].name, none) = id
                                         /\ table[id].name \in DOMAIN index
             /\ \A name : \/ Lookup(index, name, none) = none /\ name \notin DOMAIN index
                          \/ Lookup(index, name, none) \in DOMAIN table
                             /\ table[Lookup(index, name, none)].name = name
                             /\ Lookup(index, name, none) # none
  BY <1>5 DEF Inverts, NamesOf, Lookup
<1>6. /\ \A s \in DOMAIN m.states : /\ FindState(m, m.states[s].name) = s
                                   /\ m.states[s].name \in DOMAIN m.stateIndex
      /\ \A name : \/ FindState(m, name) = kNoState /\ name \notin DOMAIN m.stateIndex
                   \/ FindState(m, name) \in DOMAIN m.states
                      /\ m.states[FindState(m, name)].name = name
                      /\ FindState(m, name) # kNoState
  <2>1. \A id \in DOMAIN m.states : id # kNoState
    BY <1>3
  <2> QED
    BY ONLY <2>1, <1>4, <1>5 DEF FindState
<1>7. /\ \A t \in DOMAIN m.triggers : /\ FindTrigger(m, m.triggers[t].name) = t
                                     /\ m.triggers[t].name \in DOMAIN m.triggerIndex
      /\ \A name : \/ FindTrigger(m, name) = kNoTrigger /\ name \notin DOMAIN m.triggerIndex
                   \/ FindTrigger(m, name) \in DOMAIN m.triggers
                      /\ m.triggers[FindTrigger(m, name)].name = name
                      /\ FindTrigger(m, name) # kNoTrigger
  <2>1. \A id \in DOMAIN m.triggers : id # kNoTrigger
    BY <1>3
  <2> QED
    BY ONLY <2>1, <1>4, <1>5 DEF FindTrigger
<1> QED
  BY <1>3, <1>6, <1>7

\* A text that stands alone in the place of an alternative is its target.
Bare(node) == Map(<<<<Scalar("target"), node>>>>)

\* What can stand for an alternative.
Choice == Node \cup {Bare(node) : node \in Node}

\* It has no guard.
LEMMA BareIs ==
  ASSUME NEW node
  PROVE  Child(Bare(node), "target") = node /\ Child(Bare(node), "when") = Absent
<1> DEFINE pairs == <<<<Scalar("target"), node>>>>
           hits(key) == {i \in DOMAIN pairs : pairs[i][1] = Scalar(key)}
<1>1. IsMap(Bare(node)) /\ Bare(node).pairs = pairs
  BY DEF Bare, Map, IsMap
<1>2. DOMAIN pairs = {1} /\ pairs[1][1] = Scalar("target") /\ pairs[1][2] = node
  OBVIOUS
<1>3. Scalar("target") # Scalar("when")
  BY Kinds
<1>4. hits("target") = {1} /\ hits("when") = {}
  BY <1>2, <1>3
<1> HIDE DEF pairs, hits
<1>5. /\ Child(Bare(node), "target")
           = IF hits("target") = {} THEN Absent ELSE pairs[FirstOf(hits("target"))][2]
      /\ Child(Bare(node), "when")
           = IF hits("when") = {} THEN Absent ELSE pairs[FirstOf(hits("when"))][2]
  BY <1>1 DEF Child, hits
<1>6. FirstOf({1}) = 1
  BY DEF FirstOf
<1> QED
  BY <1>2, <1>4, <1>5, <1>6

\* The conditions there can be, read or not.
Read == {Readings[TextOf(node)] : node \in Node}

\* What is looked up in a choice is a node, and its guard a list of conditions.
LEMMA ChoiceIs ==
  ASSUME NEW choice \in Choice
  PROVE  /\ Child(choice, "target") \in Node /\ Child(choice, "when") \in Node
         /\ GuardIn(choice) \in Seq(Read) /\ GuardIn(choice) = Guard(Child(choice, "when"))
<1>1. Child(choice, "target") \in Node /\ Child(choice, "when") \in Node
  BY ChildIsNode, BareIs DEF Choice, Node
<1> DEFINE nodes == ComparisonsIn(Child(choice, "when"))
<1>2. nodes \in Seq(Node) /\ Len(nodes) \in Nat /\ DOMAIN nodes = 1 .. Len(nodes)
  BY <1>1, ComparisonsAreNodes
<1>3. GuardIn(choice) = Guard(Child(choice, "when"))
      /\ GuardIn(choice) = [i \in 1 .. Len(nodes) |-> Readings[TextOf(nodes[i])]]
  BY <1>2 DEF GuardIn, Guard
<1> HIDE DEF nodes
<1>4. \A i \in 1 .. Len(nodes) : Readings[TextOf(nodes[i])] \in Read
  BY <1>2 DEF Read
<1> QED
  BY <1>1, <1>2, <1>3, <1>4

\* A text alone fits when it names a state.
LEMMA BareFits ==
  ASSUME NEW node, NEW states
  PROVE  /\ AlternativeFits(Bare(node), states) <=> Readable(node) /\ TextOf(node) \in states
         /\ GuardIn(Bare(node)) = <<>>
<1>1. Child(Bare(node), "target") = node /\ Child(Bare(node), "when") = Absent
  BY BareIs
<1>2. GuardFits(Absent) /\ ComparisonsIn(Absent) = <<>>
  BY Kinds DEF GuardFits, ComparisonsIn
<1>3. GuardIn(Bare(node)) = <<>>
  BY <1>1, <1>2 DEF GuardIn
<1> QED
  BY <1>1, <1>2, <1>3 DEF AlternativeFits

\* The turns a pair takes are the alternatives it says.
LEMMA PairSays ==
  ASSUME NEW node \in Nodes
  PROVE  /\ Alternatives(node) \in Seq(Choice)
         /\ PairStatus(node) = "Ok" <=> Alternatives(node) # <<>>
         /\ PairStatus(node) = "Ok" =>
              /\ Len(AlternativesIn(node)) = Len(Alternatives(node))
              /\ \A i \in 1 .. Len(Alternatives(node)) :
                   LET part == AlternativesIn(node)[i]
                       said == Alternatives(node)[i] IN
                   \/ part = Part("alternative", said) /\ said \in Node
                   \/ \E text \in Node : /\ part = Part("plain", text) /\ said = Bare(text)
                                         /\ Readable(text)
<1>1. node \in Node /\ \A any \in Node : any \in Choice /\ Bare(any) \in Choice
  BY DEF Node, Choice
<1>2. CASE node.kind = "scalar"
  <2>1. Alternatives(node) = <<Bare(node)>> /\ PairStatus(node) = "Ok"
        /\ AlternativesIn(node) = Parts("plain", <<node>>)
    BY <1>2 DEF Alternatives, PairStatus, AlternativesIn, Bare
  <2>2. Parts("plain", <<node>>) = <<Part("plain", node)>>
    BY DEF Parts
  <2>3. Readable(node)
    BY <1>2 DEF Readable
  <2> QED
    BY <1>1, <2>1, <2>2, <2>3
<1>3. CASE node.kind = "map"
  <2>1. Alternatives(node) = <<node>> /\ PairStatus(node) = "Ok"
        /\ AlternativesIn(node) = Parts("alternative", <<node>>)
    BY <1>3 DEF Alternatives, PairStatus, AlternativesIn
  <2>2. Parts("alternative", <<node>>) = <<Part("alternative", node)>>
    BY DEF Parts
  <2> QED
    BY <1>1, <2>1, <2>2
<1>4. CASE node.kind = "sequence"
  <2>1. /\ node.items \in Seq(Nodes)
    BY <1>1, <1>4, ItemsAreNodes DEF IsList
  <2>2. Alternatives(node) = node.items /\ AlternativesIn(node) = Parts("alternative", node.items)
    BY <1>4 DEF Alternatives, AlternativesIn
  <2>3. PairStatus(node) = "Ok" <=> Len(node.items) > 0
    BY <1>4 DEF PairStatus, SectionStatus, IsList
  <2>4. /\ Len(node.items) \in Nat /\ (Len(node.items) > 0 <=> node.items # <<>>)
        /\ Parts("alternative", node.items) = [i \in 1 .. Len(node.items) |-> Part("alternative", node.items[i])]
        /\ \A i \in 1 .. Len(node.items) : node.items[i] \in Node
    BY <2>1 DEF Parts, Node
  <2>5. node.items \in Seq(Choice)
    <3>1. Nodes \subseteq Choice
      BY DEF Choice, Node
    <3> QED
      BY <2>1, <3>1, SeqMonotonic
  <2> QED
    BY <2>2, <2>3, <2>4, <2>5
<1>5. CASE node.kind \notin {"scalar", "map", "sequence"}
  <2>1. Alternatives(node) = <<>> /\ PairStatus(node) # "Ok"
    BY <1>5 DEF Alternatives, PairStatus, SectionStatus, IsList
  <2> QED
    BY <2>1
<1> QED
  BY <1>2, <1>3, <1>4, <1>5

\* An alternative is refused that does not fit the document, and no other.
LEMMA AlternativeIsFit ==
  ASSUME NEW node \in Node, NEW C, Built(target, C), NEW names,
         \A name : name \in names <=> FindState(target, name) # kNoState
  PROVE  AlternativeStatus(node) = "Ok" <=> AlternativeFits(node, names)
<1>1. Child(node, "when") \in Node
  BY ChildIsNode
<1>2. ~IsMap(node) => Child(node, "target") = Absent
  BY NoChild
<1>3. Readable(Child(node, "target")) => Defined(Child(node, "target"))
  BY Kinds DEF Defined
<1> QED
  BY <1>1, <1>2, <1>3, WhenFits, Kinds DEF AlternativeStatus, AlternativeFits

-----------------------------------------------------------------------------
(* The first two passes: what is declared of a machine file. *)

\* The first k triggers are declared as the document says.
TriggersRead(root, m, k) ==
  LET section == Child(root, "triggers") IN
  /\ IsList(section) /\ Len(section.items) > 0 /\ k \in 0 .. Len(section.items)
  /\ DOMAIN m.triggers = 0 .. k - 1
  /\ \A i \in 1 .. k :
       LET entry == section.items[i] IN
       /\ m.triggers[i - 1] = [name |-> NameOf(entry), channel |-> ListensOn(entry)]
       /\ FitName(Child(entry, "name")) /\ SaysNothingOr(Child(entry, "channel"), FitText)

\* And the first k states.
StatesRead(root, m, k) ==
  LET section == Child(root, "states") IN
  /\ IsList(section) /\ Len(section.items) > 0 /\ k \in 0 .. Len(section.items)
  /\ DOMAIN m.states = 0 .. k - 1
  /\ \A i \in 1 .. k : /\ m.states[i - 1].name = NameOf(section.items[i])
                       /\ FitName(Child(section.items[i], "name"))

\* Nothing leads anywhere yet.
Unlinked(m) ==
  m.conditions = <<>> /\ \A s \in DOMAIN m.states : m.states[s].transitions = <<>>

\* An entry is refused unless it has a name that can be read.
LEMMA EntryIsNamed ==
  ASSUME NEW entry \in Node
  PROVE  EntryStatus(entry) = "Ok" <=> Readable(Child(entry, "name"))
<1>1. ~IsMap(entry) => Child(entry, "name") = Absent
  BY NoChild
<1> QED
  BY <1>1, Kinds DEF EntryStatus, Defined

\* What an accepted trigger adds.
LEMMA TriggerMade ==
  ASSUME NEW m, DOMAIN m = DOMAIN EmptyModel, NEW name, NEW channel,
         DeclareTrigger(m, name, channel).status = "Ok"
  PROVE  LET made == DeclareTrigger(m, name, channel).model
             id   == Cardinality(DOMAIN m.triggers) IN
         /\ DeclareTriggerStatus(m, name, channel) = "Ok"
         /\ made.states = m.states /\ made.conditions = m.conditions
         /\ made.triggers = Put(m.triggers, id, [name |-> name, channel |-> ChannelOf(name, channel)])
<1> DEFINE id == Cardinality(DOMAIN m.triggers)
           a  == Put(m.triggers, id, [name |-> name, channel |-> ChannelOf(name, channel)])
           b  == Put(m.triggerIndex, name, id)
           c  == Put(m.channelIndex, ChannelOf(name, channel), id)
<1>1. /\ DeclareTriggerStatus(m, name, channel) = "Ok"
      /\ DeclareTrigger(m, name, channel).model
           = [m EXCEPT !.triggers = a, !.triggerIndex = b, !.channelIndex = c]
  BY DEF DeclareTrigger, Answers, WithTrigger
<1> HIDE DEF a, b, c
<1> QED
  BY <1>1, TriggerFields DEF a

\* The same for a state: it leads nowhere.
LEMMA StateMade ==
  ASSUME NEW m, DOMAIN m = DOMAIN EmptyModel, NEW name, DeclareState(m, name).status = "Ok"
  PROVE  LET made == DeclareState(m, name).model
             id   == Cardinality(DOMAIN m.states) IN
         /\ DeclareStateStatus(m, name) = "Ok"
         /\ made.triggers = m.triggers /\ made.conditions = m.conditions
         /\ made.states = Put(m.states, id, [name |-> name, transitions |-> EmptyFunction])
<1> DEFINE id == Cardinality(DOMAIN m.states)
           a  == Put(m.states, id, [name |-> name, transitions |-> EmptyFunction])
           b  == Put(m.stateIndex, name, id)
<1>1. /\ DeclareStateStatus(m, name) = "Ok"
      /\ DeclareState(m, name).model = [m EXCEPT !.states = a, !.stateIndex = b]
  BY DEF DeclareState, Answers, WithState
<1> HIDE DEF a, b
<1> QED
  BY <1>1, StateFields DEF a

\* A trigger is refused that does not fit the document, and no other.
LEMMA TriggerJudged ==
  ASSUME NEW root \in Node, NEW m, Building(m), NEW k, TriggersRead(root, m, k),
         k < Len(Entries(root, "triggers"))
  PROVE  LET entry  == Entries(root, "triggers")[k + 1]
             answer == DeclareTrigger(m, NameOf(entry), ChannelIn(entry))
             fine   == /\ EntryStatus(entry) = "Ok" /\ answer.status = "Ok"
                       /\ Defined(Child(entry, "channel")) => Readable(Child(entry, "channel")) IN
         /\ ~fine => ~MachineWellFormed(root)
         /\ fine => /\ TriggersRead(root, answer.model, k + 1)
                    /\ answer.model.states = m.states /\ answer.model.conditions = m.conditions
<1> DEFINE items   == Entries(root, "triggers")
           entry   == items[k + 1]
           channel == Child(entry, "channel")
           name    == Child(entry, "name")
           answer  == DeclareTrigger(m, NameOf(entry), ChannelIn(entry))
<1>1. /\ items \in Seq(Nodes) /\ Len(items) \in Nat /\ DOMAIN items = 1 .. Len(items)
      /\ k \in 0 .. Len(items) /\ k \in Nat /\ k + 1 \in 1 .. Len(items)
      /\ entry \in Node /\ channel \in Node /\ name \in Node
  <2>1. items \in Seq(Nodes) /\ k \in 0 .. Len(items)
    BY ChildIsNode, ItemsAreNodes DEF TriggersRead, Entries
  <2>2. Len(items) \in Nat /\ DOMAIN items = 1 .. Len(items) /\ k \in Nat /\ k + 1 \in 1 .. Len(items)
    BY <2>1
  <2>3. entry \in Node
    BY <2>1, <2>2, ElementOfSeq DEF Node
  <2> QED
    BY <2>1, <2>2, <2>3, ChildIsNode
<1>2. /\ DOMAIN m.triggers = 0 .. k - 1 /\ Cardinality(DOMAIN m.triggers) = k
      /\ \A i \in 1 .. k : /\ m.triggers[i - 1] = [name |-> NameOf(items[i]), channel |-> ListensOn(items[i])]
                           /\ FitName(Child(items[i], "name"))
                           /\ SaysNothingOr(Child(items[i], "channel"), FitText)
  <2>1. Cardinality(0 .. k - 1) = k
    BY <1>1, FS_Interval
  <2> QED
    BY <2>1 DEF TriggersRead, Entries
<1>3. /\ \A t \in DOMAIN m.triggers : \E i \in 1 .. k : i - 1 = t
      /\ \A i \in 1 .. k : i \in DOMAIN items /\ i # k + 1 /\ i - 1 \in DOMAIN m.triggers
  <2>1. ASSUME NEW t \in DOMAIN m.triggers PROVE \E i \in 1 .. k : i - 1 = t
    <3>1. t \in 0 .. k - 1
      BY <1>2
    <3>2. t \in Int /\ t + 1 \in 1 .. k /\ t + 1 - 1 = t
      BY <1>1, <3>1
    <3> QED
      BY <3>2
  <2>2. DOMAIN m.triggers = 0 .. k - 1
    BY <1>2
  <2> QED
    BY <1>1, <2>1, <2>2
<1>4. /\ Inverts(m.triggerIndex, NamesOf(m.triggers)) /\ Inverts(m.channelIndex, ChannelsOf(m.triggers))
      /\ DOMAIN m = DOMAIN EmptyModel
  BY DEF Building, Built, Indexed
<1> HIDE DEF items, entry, channel, name
<1>5. ASSUME NEW text \in DOMAIN m.triggerIndex
      PROVE  \E i \in 1 .. k : NameOf(items[i]) = text
  <2>1. PICK t \in DOMAIN m.triggers : m.triggers[t].name = text
    BY <1>4 DEF Inverts, NamesOf
  <2>2. PICK i \in 1 .. k : i - 1 = t
    BY <1>3
  <2>3. m.triggers[i - 1] = [name |-> NameOf(items[i]), channel |-> ListensOn(items[i])]
    BY <1>2
  <2> QED
    BY <2>1, <2>2, <2>3
<1>6. ASSUME NEW text \in DOMAIN m.channelIndex
      PROVE  \E i \in 1 .. k : ListensOn(items[i]) = text
  <2>1. PICK t \in DOMAIN m.triggers : m.triggers[t].channel = text
    BY <1>4 DEF Inverts, ChannelsOf
  <2>2. PICK i \in 1 .. k : i - 1 = t
    BY <1>3
  <2>3. m.triggers[i - 1] = [name |-> NameOf(items[i]), channel |-> ListensOn(items[i])]
    BY <1>2
  <2> QED
    BY <2>1, <2>2, <2>3
<1>7. MachineWellFormed(root) =>
        /\ Len(items) <= kMaxTriggers /\ FitName(name) /\ SaysNothingOr(channel, FitText)
        /\ \A i, j \in DOMAIN items : NameOf(items[i]) = NameOf(items[j]) => i = j
        /\ \A i, j \in DOMAIN items : ListensOn(items[i]) = ListensOn(items[j]) => i = j
  BY <1>1 DEF MachineWellFormed, NamedList, ChannelsFit, Entries, items, entry, channel, name
<1>8. TextOf(name) = NameOf(entry)
  BY DEF NameOf, name
<1>9. ~(ChannelOf(NameOf(entry), ChannelIn(entry)) \in LongNames)
        <=> (IF ChannelIn(entry) = NoName THEN NameOf(entry) \notin LongNames
             ELSE ChannelIn(entry) \notin LongNames)
  BY DEF ChannelOf
<1>10. ListensOn(entry) = ChannelOf(NameOf(entry), ChannelIn(entry))
       /\ ChannelIn(entry) = IF Defined(channel) THEN TextOf(channel) ELSE NoName
  BY DEF ListensOn, ChannelIn, channel
<1>11. EntryStatus(entry) = "Ok" <=> Readable(name)
  BY <1>1, EntryIsNamed DEF name
<1>12. answer.status = DeclareTriggerStatus(m, NameOf(entry), ChannelIn(entry))
  BY DEF DeclareTrigger, Answers
<1>13. SaysNothingOr(channel, FitText) <=>
         (Defined(channel) => Readable(channel) /\ TextOf(channel) \notin LongNames)
  BY DEF SaysNothingOr, FitText, Defined
<1>14. FitName(name) <=> Readable(name) /\ TextOf(name) \notin LongNames /\ TextOf(name) # NoName
  BY DEF FitName, FitText
<1>15. ASSUME MachineWellFormed(root)
       PROVE  /\ EntryStatus(entry) = "Ok" /\ answer.status = "Ok"
              /\ Defined(channel) => Readable(channel)
  <2>1. NameOf(entry) # NoName /\ NameOf(entry) \notin LongNames /\ EntryStatus(entry) = "Ok"
    BY <1>7, <1>8, <1>11, <1>14, <1>15
  <2>2. ChannelOf(NameOf(entry), ChannelIn(entry)) \notin LongNames /\ (Defined(channel) => Readable(channel))
    BY <1>7, <1>9, <1>10, <1>13, <1>15, <2>1, LengthsAssumption
  <2>3. ~(k >= kMaxTriggers)
    BY <1>1, <1>7, <1>15, CapacityAssumption
  <2>4. NameOf(entry) \notin DOMAIN m.triggerIndex
    BY <1>1, <1>3, <1>5, <1>7, <1>15 DEF entry
  <2>5. ListensOn(entry) \notin DOMAIN m.channelIndex
    BY <1>1, <1>3, <1>6, <1>7, <1>15 DEF entry
  <2> HIDE DEF answer
  <2>6. DeclareTriggerStatus(m, NameOf(entry), ChannelIn(entry)) = "Ok"
    BY <1>2, <1>10, <2>1, <2>2, <2>3, <2>4, <2>5 DEF DeclareTriggerStatus
  <2> QED
    BY <1>12, <2>1, <2>2, <2>6
<1>16. ASSUME EntryStatus(entry) = "Ok", answer.status = "Ok", Defined(channel) => Readable(channel)
       PROVE  /\ TriggersRead(root, answer.model, k + 1)
              /\ answer.model.states = m.states /\ answer.model.conditions = m.conditions
  <2> DEFINE made == answer.model
             new  == [name |-> NameOf(entry), channel |-> ListensOn(entry)]
  <2>1. /\ DeclareTriggerStatus(m, NameOf(entry), ChannelIn(entry)) = "Ok"
        /\ made.states = m.states /\ made.conditions = m.conditions
        /\ made.triggers = Put(m.triggers, k, new)
    BY <1>2, <1>4, <1>10, <1>16, TriggerMade
  <2>2. NameOf(entry) # NoName /\ NameOf(entry) \notin LongNames /\ ListensOn(entry) \notin LongNames
    BY <1>10, <2>1 DEF DeclareTriggerStatus
  <2>3. FitName(name)
    BY <1>8, <1>11, <1>14, <1>16, <2>2
  <2>4. SaysNothingOr(channel, FitText)
    <3>1. ASSUME Defined(channel) PROVE TextOf(channel) \notin LongNames
      <4>1. ListensOn(entry) = IF TextOf(channel) = NoName THEN NameOf(entry) ELSE TextOf(channel)
        BY <1>10, <3>1 DEF ChannelOf
      <4> QED
        BY <2>2, <4>1, LengthsAssumption
    <3> QED
      BY <1>13, <1>16, <3>1
  <2> HIDE DEF answer, new
  <2>5. DOMAIN made.triggers = 0 .. (k + 1) - 1
    <3>1. DOMAIN Put(m.triggers, k, new) = DOMAIN m.triggers \cup {k}
      BY PutDomain
    <3>2. (0 .. k - 1) \cup {k} = 0 .. (k + 1) - 1
      BY <1>1
    <3> QED
      BY <1>2, <2>1, <3>1, <3>2
  <2>6. ASSUME NEW i \in 1 .. k + 1
        PROVE  /\ made.triggers[i - 1] = [name |-> NameOf(items[i]), channel |-> ListensOn(items[i])]
               /\ FitName(Child(items[i], "name")) /\ SaysNothingOr(Child(items[i], "channel"), FitText)
    <3>1. CASE i = k + 1
      <4>1. i - 1 = k /\ items[i] = entry
        BY <1>1, <3>1 DEF entry
      <4>2. made.triggers[k] = new
        BY <2>1, PutValue
      <4> QED
        BY <2>3, <2>4, <4>1, <4>2 DEF new, name, channel
    <3>2. CASE i # k + 1
      <4>1. i \in 1 .. k /\ i - 1 # k /\ i - 1 \in DOMAIN m.triggers
        <5>1. i \in 1 .. k
          BY <1>1, <3>2
        <5> QED
          BY <1>1, <1>3, <5>1
      <4>2. made.triggers[i - 1] = m.triggers[i - 1]
        BY <2>1, <4>1, PutKeeps
      <4> QED
        BY <1>2, <4>1, <4>2
    <3> QED
      BY <3>1, <3>2
  <2>7. k + 1 \in 0 .. Len(items)
    BY <1>1
  <2> HIDE DEF made
  <2>8. TriggersRead(root, made, k + 1)
    BY <2>5, <2>6, <2>7 DEF TriggersRead, items, Entries
  <2> QED
    BY <2>1, <2>8 DEF made
<1> QED
  BY <1>15, <1>16 DEF items, entry, channel, name

\* The same for a state.
LEMMA StateJudged ==
  ASSUME NEW root \in Node, NEW m, Building(m), Unlinked(m), NEW k, StatesRead(root, m, k),
         k < Len(Entries(root, "states"))
  PROVE  LET entry  == Entries(root, "states")[k + 1]
             answer == DeclareState(m, NameOf(entry))
             fine   == EntryStatus(entry) = "Ok" /\ answer.status = "Ok" IN
         /\ ~fine => ~MachineWellFormed(root)
         /\ fine => /\ StatesRead(root, answer.model, k + 1) /\ Unlinked(answer.model)
                    /\ answer.model.triggers = m.triggers
<1> DEFINE items   == Entries(root, "states")
           entry   == items[k + 1]
           name    == Child(entry, "name")
           answer  == DeclareState(m, NameOf(entry))
<1>1. /\ items \in Seq(Nodes) /\ Len(items) \in Nat /\ DOMAIN items = 1 .. Len(items)
      /\ k \in 0 .. Len(items) /\ k \in Nat /\ k + 1 \in 1 .. Len(items)
      /\ entry \in Node /\ name \in Node
  <2>1. items \in Seq(Nodes) /\ k \in 0 .. Len(items)
    BY ChildIsNode, ItemsAreNodes DEF StatesRead, Entries
  <2>2. Len(items) \in Nat /\ DOMAIN items = 1 .. Len(items) /\ k \in Nat /\ k + 1 \in 1 .. Len(items)
    BY <2>1
  <2>3. entry \in Node
    BY <2>1, <2>2, ElementOfSeq DEF Node
  <2> QED
    BY <2>1, <2>2, <2>3, ChildIsNode
<1>2. /\ DOMAIN m.states = 0 .. k - 1 /\ Cardinality(DOMAIN m.states) = k
      /\ \A i \in 1 .. k : m.states[i - 1].name = NameOf(items[i]) /\ FitName(Child(items[i], "name"))
  <2>1. Cardinality(0 .. k - 1) = k
    BY <1>1, FS_Interval
  <2> QED
    BY <2>1 DEF StatesRead, Entries
<1>3. /\ \A s \in DOMAIN m.states : \E i \in 1 .. k : i - 1 = s
      /\ \A i \in 1 .. k : i \in DOMAIN items /\ i # k + 1 /\ i - 1 \in DOMAIN m.states
  <2>1. ASSUME NEW s \in DOMAIN m.states PROVE \E i \in 1 .. k : i - 1 = s
    <3>1. s \in 0 .. k - 1
      BY <1>2
    <3>2. s \in Int /\ s + 1 \in 1 .. k /\ s + 1 - 1 = s
      BY <1>1, <3>1
    <3> QED
      BY <3>2
  <2>2. DOMAIN m.states = 0 .. k - 1
    BY <1>2
  <2> QED
    BY <1>1, <2>1, <2>2
<1>4. Inverts(m.stateIndex, NamesOf(m.states)) /\ DOMAIN m = DOMAIN EmptyModel
  BY DEF Building, Built, Indexed
<1> HIDE DEF items, entry, name
<1>5. ASSUME NEW text \in DOMAIN m.stateIndex
      PROVE  \E i \in 1 .. k : NameOf(items[i]) = text
  <2>1. PICK s \in DOMAIN m.states : m.states[s].name = text
    BY <1>4 DEF Inverts, NamesOf
  <2>2. PICK i \in 1 .. k : i - 1 = s
    BY <1>3
  <2>3. m.states[i - 1].name = NameOf(items[i])
    BY <1>2
  <2> QED
    BY <2>1, <2>2, <2>3
<1>7. MachineWellFormed(root) =>
        /\ Len(items) <= kMaxStates /\ FitName(name)
        /\ \A i, j \in DOMAIN items : NameOf(items[i]) = NameOf(items[j]) => i = j
  BY <1>1 DEF MachineWellFormed, NamedList, Entries, items, entry, name
<1>8. TextOf(name) = NameOf(entry)
  BY DEF NameOf, name
<1>11. EntryStatus(entry) = "Ok" <=> Readable(name)
  BY <1>1, EntryIsNamed DEF name
<1>12. answer.status = DeclareStateStatus(m, NameOf(entry))
  BY DEF DeclareState, Answers
<1>14. FitName(name) <=> Readable(name) /\ TextOf(name) \notin LongNames /\ TextOf(name) # NoName
  BY DEF FitName, FitText
<1>15. ASSUME MachineWellFormed(root)
       PROVE  EntryStatus(entry) = "Ok" /\ answer.status = "Ok"
  <2>1. NameOf(entry) # NoName /\ NameOf(entry) \notin LongNames /\ EntryStatus(entry) = "Ok"
    BY <1>7, <1>8, <1>11, <1>14, <1>15
  <2>3. ~(k >= kMaxStates)
    BY <1>1, <1>7, <1>15, CapacityAssumption
  <2>4. NameOf(entry) \notin DOMAIN m.stateIndex
    BY <1>1, <1>3, <1>5, <1>7, <1>15 DEF entry
  <2> HIDE DEF answer
  <2>6. DeclareStateStatus(m, NameOf(entry)) = "Ok"
    BY <1>2, <2>1, <2>3, <2>4 DEF DeclareStateStatus
  <2> QED
    BY <1>12, <2>1, <2>6
<1>16. ASSUME EntryStatus(entry) = "Ok", answer.status = "Ok"
       PROVE  /\ StatesRead(root, answer.model, k + 1) /\ Unlinked(answer.model)
              /\ answer.model.triggers = m.triggers
  <2> DEFINE made == answer.model
             new  == [name |-> NameOf(entry), transitions |-> EmptyFunction]
  <2>1. /\ DeclareStateStatus(m, NameOf(entry)) = "Ok"
        /\ made.triggers = m.triggers /\ made.conditions = m.conditions
        /\ made.states = Put(m.states, k, new)
    BY <1>2, <1>4, <1>16, StateMade
  <2>2. NameOf(entry) # NoName /\ NameOf(entry) \notin LongNames
    BY <2>1 DEF DeclareStateStatus
  <2>3. FitName(name)
    BY <1>8, <1>11, <1>14, <1>16, <2>2
  <2>9. new.name = NameOf(entry) /\ new.transitions = <<>>
    BY DEF EmptyFunction
  <2> HIDE DEF answer, new
  <2>5. DOMAIN made.states = 0 .. (k + 1) - 1
    <3>1. DOMAIN Put(m.states, k, new) = DOMAIN m.states \cup {k}
      BY PutDomain
    <3>2. (0 .. k - 1) \cup {k} = 0 .. (k + 1) - 1
      BY <1>1
    <3> QED
      BY <1>2, <2>1, <3>1, <3>2
  <2>6. ASSUME NEW i \in 1 .. k + 1
        PROVE  /\ made.states[i - 1].name = NameOf(items[i]) /\ FitName(Child(items[i], "name"))
               /\ made.states[i - 1].transitions = <<>>
    <3>1. CASE i = k + 1
      <4>1. i - 1 = k /\ items[i] = entry
        BY <1>1, <3>1 DEF entry
      <4>2. made.states[k] = new
        BY <2>1, PutValue
      <4> QED
        BY <2>3, <2>9, <4>1, <4>2 DEF name
    <3>2. CASE i # k + 1
      <4>1. i \in 1 .. k /\ i - 1 # k /\ i - 1 \in DOMAIN m.states
        <5>1. i \in 1 .. k /\ i - 1 # k
          BY <1>1, <3>2
        <5>2. i - 1 \in DOMAIN m.states
          BY <1>3, <5>1
        <5> QED
          BY <5>1, <5>2
      <4>2. made.states[i - 1] = m.states[i - 1]
        BY <2>1, <4>1, PutKeeps
      <4> QED
        BY <1>2, <4>1, <4>2 DEF Unlinked
    <3> QED
      BY <3>1, <3>2
  <2>7. k + 1 \in 0 .. Len(items)
    BY <1>1
  <2>10. ASSUME NEW s \in DOMAIN made.states PROVE made.states[s].transitions = <<>>
    <3>1. s \in 0 .. (k + 1) - 1
      BY <2>5
    <3>2. s \in Int /\ s + 1 \in 1 .. k + 1 /\ s + 1 - 1 = s
      BY <1>1, <3>1
    <3>3. PICK i \in 1 .. k + 1 : i - 1 = s
      BY <3>2
    <3> QED
      BY <2>6, <3>3
  <2> HIDE DEF made
  <2>8. StatesRead(root, made, k + 1)
    BY <2>5, <2>6, <2>7 DEF StatesRead, items, Entries
  <2>11. Unlinked(made)
    BY <2>1, <2>10 DEF Unlinked
  <2> QED
    BY <2>1, <2>8, <2>11 DEF made
<1> QED
  BY <1>15, <1>16 DEF items, entry, name

-----------------------------------------------------------------------------
(* The last pass: what leads from one state to another, as far as it is read. *)

\* The triggers and the states of a document are all declared.
AllRead(root, m) ==
  /\ MachineRootStatus(root) = "Ok"
  /\ TriggersRead(root, m, Len(Entries(root, "triggers")))
  /\ StatesRead(root, m, Len(Entries(root, "states")))

\* The names of a document are those that are found.
LEMMA NamesAreFound ==
  ASSUME NEW root \in Node, NEW m, Building(m), AllRead(root, m)
  PROVE  LET items == Entries(root, "states") IN
         /\ items \in Seq(Nodes) /\ Len(items) \in Nat \ {0} /\ DOMAIN items = 1 .. Len(items)
         /\ \A i \in 1 .. Len(items) : /\ items[i] \in Node /\ i - 1 \in DOMAIN m.states
                                       /\ FindState(m, NameOf(items[i])) = i - 1
         /\ \A name : name \in NamesIn(root, "states") <=> FindState(m, name) # kNoState
         /\ \A name : name \in NamesIn(root, "triggers") <=> FindTrigger(m, name) # kNoTrigger
<1> DEFINE states   == Entries(root, "states")
           triggers == Entries(root, "triggers")
<1>1. /\ states \in Seq(Nodes) /\ Len(states) \in Nat \ {0} /\ DOMAIN states = 1 .. Len(states)
      /\ DOMAIN m.states = 0 .. Len(states) - 1
      /\ \A i \in 1 .. Len(states) : m.states[i - 1].name = NameOf(states[i])
  <2>1. /\ states \in Seq(Nodes) /\ Len(states) > 0
        /\ DOMAIN m.states = 0 .. Len(states) - 1
        /\ \A i \in 1 .. Len(states) : m.states[i - 1].name = NameOf(states[i])
    BY ChildIsNode, ItemsAreNodes DEF AllRead, StatesRead, Entries
  <2> QED
    BY <2>1
<1>2. /\ triggers \in Seq(Nodes) /\ Len(triggers) \in Nat \ {0} /\ DOMAIN triggers = 1 .. Len(triggers)
      /\ DOMAIN m.triggers = 0 .. Len(triggers) - 1
      /\ \A i \in 1 .. Len(triggers) : m.triggers[i - 1].name = NameOf(triggers[i])
  <2>1. /\ triggers \in Seq(Nodes) /\ Len(triggers) > 0
        /\ DOMAIN m.triggers = 0 .. Len(triggers) - 1
        /\ \A i \in 1 .. Len(triggers) :
             m.triggers[i - 1] = [name |-> NameOf(triggers[i]), channel |-> ListensOn(triggers[i])]
    BY ChildIsNode, ItemsAreNodes DEF AllRead, TriggersRead, Entries
  <2>2. ASSUME NEW i \in 1 .. Len(triggers) PROVE m.triggers[i - 1].name = NameOf(triggers[i])
    <3>1. m.triggers[i - 1] = [name |-> NameOf(triggers[i]), channel |-> ListensOn(triggers[i])]
      BY <2>1
    <3> QED
      BY <3>1
  <2> QED
    BY <2>1, <2>2
<1>3. /\ NamesIn(root, "states") = {NameOf(states[i]) : i \in DOMAIN states}
      /\ NamesIn(root, "triggers") = {NameOf(triggers[i]) : i \in DOMAIN triggers}
  BY DEF NamesIn
<1> HIDE DEF states, triggers
<1>4. ASSUME NEW items, NEW table, Len(items) \in Nat, DOMAIN items = 1 .. Len(items),
             DOMAIN table = 0 .. Len(items) - 1,
             \A i \in 1 .. Len(items) : table[i - 1].name = NameOf(items[i]), NEW name
      PROVE  name \in {NameOf(items[i]) : i \in DOMAIN items}
               <=> \E id \in DOMAIN table : table[id].name = name
  <2>1. ASSUME NEW i \in DOMAIN items, NameOf(items[i]) = name
        PROVE  \E id \in DOMAIN table : table[id].name = name
    <3>1. i - 1 \in DOMAIN table /\ table[i - 1].name = name
      BY <1>4, <2>1
    <3> QED
      BY <3>1
  <2>2. ASSUME NEW id \in DOMAIN table, table[id].name = name
        PROVE  \E i \in DOMAIN items : NameOf(items[i]) = name
    <3>1. id \in 0 .. Len(items) - 1
      BY <1>4
    <3>2. id \in Int /\ id + 1 \in 1 .. Len(items) /\ id + 1 - 1 = id
      BY <1>4, <3>1
    <3>3. PICK i \in 1 .. Len(items) : i - 1 = id
      BY <3>2
    <3> QED
      BY <1>4, <2>2, <3>3
  <2> QED
    BY <2>1, <2>2
<1>5. Built(m, Conditions)
  BY DEF Building
<1>6. \A name : name \in NamesIn(root, "states") <=> FindState(m, name) # kNoState
  <2>1. \A name : name \in NamesIn(root, "states") <=> \E s \in DOMAIN m.states : m.states[s].name = name
    BY <1>1, <1>3, <1>4
  <2>2. /\ \A s \in DOMAIN m.states : /\ FindState(m, m.states[s].name) = s
                                      /\ m.states[s].name \in DOMAIN m.stateIndex
        /\ \A name : \/ FindState(m, name) = kNoState /\ name \notin DOMAIN m.stateIndex
                     \/ FindState(m, name) \in DOMAIN m.states
                        /\ m.states[FindState(m, name)].name = name
                        /\ FindState(m, name) # kNoState
    BY <1>5, Found
  <2> QED
    BY <2>1, <2>2
<1>7. \A name : name \in NamesIn(root, "triggers") <=> FindTrigger(m, name) # kNoTrigger
  <2>1. \A name : name \in NamesIn(root, "triggers") <=> \E t \in DOMAIN m.triggers : m.triggers[t].name = name
    BY <1>2, <1>3, <1>4
  <2>2. /\ \A t \in DOMAIN m.triggers : /\ FindTrigger(m, m.triggers[t].name) = t
                                        /\ m.triggers[t].name \in DOMAIN m.triggerIndex
        /\ \A name : \/ FindTrigger(m, name) = kNoTrigger /\ name \notin DOMAIN m.triggerIndex
                     \/ FindTrigger(m, name) \in DOMAIN m.triggers
                        /\ m.triggers[FindTrigger(m, name)].name = name
                        /\ FindTrigger(m, name) # kNoTrigger
    BY <1>5, Found
  <2> QED
    BY <2>1, <2>2
<1>8. ASSUME NEW i \in 1 .. Len(states)
      PROVE  /\ states[i] \in Node /\ i - 1 \in DOMAIN m.states
             /\ FindState(m, NameOf(states[i])) = i - 1
  <2>1. states[i] \in Node
    BY <1>1, ElementOfSeq DEF Node
  <2>2. i - 1 \in DOMAIN m.states /\ m.states[i - 1].name = NameOf(states[i])
    BY <1>1
  <2>3. FindState(m, m.states[i - 1].name) = i - 1
    BY <1>5, <2>2, Found
  <2> QED
    BY <2>1, <2>2, <2>3
<1> QED
  BY <1>1, <1>6, <1>7, <1>8 DEF states

\* What an entry says can be gone through, if it says it in a map.
Mapped(entry) == ~Defined(Child(entry, "transitions")) \/ IsMap(Child(entry, "transitions"))

\* The pairs of an entry, and what they say.
LEMMA EntrySays ==
  ASSUME NEW entry \in Node, Mapped(entry)
  PROVE  LET pairs == PairsOf(entry) IN
         /\ pairs \in Seq(Nodes \X Nodes) /\ Len(pairs) \in Nat /\ DOMAIN pairs = 1 .. Len(pairs)
         /\ \A i \in 1 .. Len(pairs) :
              /\ pairs[i][1] \in Nodes /\ pairs[i][2] \in Nodes
              /\ Alternatives(pairs[i][2]) \in Seq(Choice)
              /\ GuardsIn(Alternatives(pairs[i][2])) \in Seq(Seq(Read))
              /\ Len(GuardsIn(Alternatives(pairs[i][2]))) = Len(Alternatives(pairs[i][2]))
         /\ \A name : About(entry, name) \in Seq(Seq(Choice)) /\ Len(About(entry, name)) = Len(pairs)
         /\ GuardsOf(entry) \in Seq(Seq(Read)) /\ Len(GuardsOf(entry)) = Len(pairs)
<1> DEFINE pairs == PairsOf(entry)
<1>1. pairs \in Seq(Nodes \X Nodes)
  BY ChildIsNode, PairsAreNodes DEF PairsOf, Mapped
<1>2. Len(pairs) \in Nat /\ DOMAIN pairs = 1 .. Len(pairs)
  BY <1>1
<1> HIDE DEF pairs
<1>3. ASSUME NEW i \in 1 .. Len(pairs)
      PROVE  LET said == Alternatives(pairs[i][2]) IN
             /\ pairs[i][1] \in Nodes /\ pairs[i][2] \in Nodes
             /\ said \in Seq(Choice) /\ GuardsIn(said) \in Seq(Seq(Read))
             /\ Len(GuardsIn(said)) = Len(said) /\ FlattenSeq(GuardsIn(said)) \in Seq(Read)
  <2> DEFINE said == Alternatives(pairs[i][2])
  <2>1. pairs[i] \in Nodes \X Nodes
    BY <1>1, ElementOfSeq
  <2>2. pairs[i][1] \in Nodes /\ pairs[i][2] \in Nodes
    BY <2>1
  <2>3. said \in Seq(Choice)
    BY <2>2, PairSays
  <2> HIDE DEF said
  <2>4. Len(said) \in Nat /\ DOMAIN said = 1 .. Len(said) /\ \A j \in 1 .. Len(said) : said[j] \in Choice
    BY <2>3
  <2>5. \A j \in 1 .. Len(said) : GuardIn(said[j]) \in Seq(Read)
    BY <2>4, ChoiceIs
  <2>6. GuardsIn(said) = [j \in 1 .. Len(said) |-> GuardIn(said[j])]
    BY <2>4 DEF GuardsIn
  <2>7. GuardsIn(said) \in Seq(Seq(Read)) /\ Len(GuardsIn(said)) = Len(said)
    BY <2>4, <2>5, <2>6
  <2>8. FlattenSeq(GuardsIn(said)) \in Seq(Read)
    BY <2>7, FlattenFirst
  <2> QED
    BY <2>2, <2>3, <2>7, <2>8 DEF said
<1>4. ASSUME NEW name PROVE About(entry, name) \in Seq(Seq(Choice)) /\ Len(About(entry, name)) = Len(pairs)
  <2> DEFINE about(i) == IF TextOf(pairs[i][1]) = name THEN Alternatives(pairs[i][2]) ELSE <<>>
  <2>1. About(entry, name) = [i \in 1 .. Len(pairs) |-> about(i)]
    BY <1>2 DEF About, pairs
  <2>2. \A i \in 1 .. Len(pairs) : about(i) \in Seq(Choice)
    BY <1>3
  <2> HIDE DEF about
  <2> QED
    BY <1>2, <2>1, <2>2
<1>5. GuardsOf(entry) \in Seq(Seq(Read)) /\ Len(GuardsOf(entry)) = Len(pairs)
  <2> DEFINE guards(i) == FlattenSeq(GuardsIn(Alternatives(pairs[i][2])))
  <2>1. GuardsOf(entry) = [i \in 1 .. Len(pairs) |-> guards(i)]
    BY <1>2 DEF GuardsOf, pairs
  <2>2. \A i \in 1 .. Len(pairs) : guards(i) \in Seq(Read)
    BY <1>3
  <2> HIDE DEF guards
  <2> QED
    BY <1>2, <2>1, <2>2
<1> QED
  BY <1>1, <1>2, <1>3, <1>4, <1>5 DEF pairs

\* What each of the first entries adds to the pool.
Pools(root, i) == [s \in 1 .. i |-> FlattenSeq(GuardsOf(Entries(root, "states")[s]))]

\* What a model says when the entries before the i-th are read, and part of that.
Linked(root, m, i, partly, pool) ==
  LET items == Entries(root, "states") IN
  /\ \A s \in 1 .. Len(items) : \A t \in DOMAIN m.triggers :
       /\ Says(m, s - 1, t) = Spelt(IF s < i THEN AlternativesFor(items[s], m.triggers[t].name)
                                    ELSE IF s = i THEN partly[t] ELSE <<>>)
       /\ t \in DOMAIN m.states[s - 1].transitions => m.triggers[t].name \in TriggersOf(items[s])
  /\ m.conditions = FlattenSeq(Pools(root, i - 1)) \o pool
  /\ \A s \in 1 .. i - 1 :
       TransitionsFit(items[s], NamesIn(root, "triggers"), NamesIn(root, "states"))

\* The entries before the i-th are linked.
LinksRead(root, m, i) == Linked(root, m, i, [t \in DOMAIN m.triggers |-> <<>>], <<>>)

\* The first p pairs of an entry fit.
PairsFit(root, entry, p) ==
  Mapped(entry) /\ \A q \in 1 .. p :
    PairFits(PairsOf(entry)[q], NamesIn(root, "triggers"), NamesIn(root, "states"))

\* The first p pairs of the i-th entry are read.
PairsRead(root, m, i, p) ==
  LET entry == Entries(root, "states")[i] IN
  /\ PairsFit(root, entry, p)
  /\ Linked(root, m, i,
            [t \in DOMAIN m.triggers |-> FlattenSeq(First(About(entry, m.triggers[t].name), p))],
            FlattenSeq(First(GuardsOf(entry), p)))

\* The first j alternatives of its p-th pair are read.
AlternativesRead(root, m, i, p, j) ==
  LET entry == Entries(root, "states")[i]
      pair  == PairsOf(entry)[p]
      said  == Alternatives(pair[2])
      about(t) == First(About(entry, m.triggers[t].name), p - 1) IN
  /\ PairsFit(root, entry, p - 1)
  /\ Readable(pair[1]) /\ TextOf(pair[1]) \in NamesIn(root, "triggers") /\ said # <<>>
  /\ \A a \in 1 .. j : AlternativeFits(said[a], NamesIn(root, "states"))
  /\ Linked(root, m, i,
            [t \in DOMAIN m.triggers |->
               FlattenSeq(about(t)) \o (IF t = FindTrigger(m, TextOf(pair[1])) THEN First(said, j) ELSE <<>>)],
            FlattenSeq(First(GuardsOf(entry), p - 1)) \o FlattenSeq(First(GuardsIn(said), j)))

\* What more is said is spelt behind what is said.
LEMMA SpeltMore ==
  ASSUME NEW X, NEW said \in Seq(X), NEW more \in X
  PROVE  /\ Spelt(<<>>) = <<>> /\ Len(Spelt(said)) = Len(said)
         /\ Spelt(Append(said, more))
              = Append(Spelt(said), [target |-> TextOf(Child(more, "target")), guard |-> GuardIn(more)])
<1> DEFINE spell(a) == [target |-> TextOf(Child(a, "target")), guard |-> GuardIn(a)]
<1>1. \A any : Spelt(any) = [i \in DOMAIN any |-> spell(any[i])]
  BY DEF Spelt
<1> HIDE DEF spell
<1>2. Len(said) \in Nat /\ DOMAIN said = 1 .. Len(said) /\ DOMAIN Append(said, more) = 1 .. Len(said) + 1
      /\ Append(said, more)[Len(said) + 1] = more
      /\ \A i \in 1 .. Len(said) : Append(said, more)[i] = said[i]
  OBVIOUS
<1>3. Spelt(<<>>) = <<>>
  BY <1>1
<1> DEFINE Y == {spell(a) : a \in X}
           was == Spelt(said)
           new == Spelt(Append(said, more))
<1>4. was \in Seq(Y) /\ Len(was) = Len(said) /\ \A i \in 1 .. Len(said) : was[i] = spell(said[i])
  BY <1>1, <1>2
<1>5. new \in Seq(Y) /\ Len(new) = Len(said) + 1
      /\ \A i \in 1 .. Len(said) + 1 : new[i] = spell(Append(said, more)[i])
  <2>1. new = [i \in 1 .. Len(said) + 1 |-> spell(Append(said, more)[i])]
    BY <1>1, <1>2
  <2>2. \A i \in 1 .. Len(said) + 1 : Append(said, more)[i] \in X
    BY <1>2
  <2>3. \A i \in 1 .. Len(said) + 1 : spell(Append(said, more)[i]) \in Y
    BY <2>2
  <2>4. Len(said) + 1 \in Nat
    BY <1>2
  <2> HIDE DEF new, Y
  <2> QED
    BY <2>1, <2>3, <2>4
<1>6. spell(more) \in Y
  OBVIOUS
<1> HIDE DEF was, new, Y
<1>7. Append(was, spell(more)) \in Seq(Y) /\ Len(Append(was, spell(more))) = Len(said) + 1
      /\ Append(was, spell(more))[Len(said) + 1] = spell(more)
      /\ \A i \in 1 .. Len(said) : Append(was, spell(more))[i] = was[i]
  BY <1>4, <1>6
<1>8. \A i \in 1 .. Len(said) + 1 : new[i] = Append(was, spell(more))[i]
  BY <1>2, <1>4, <1>5, <1>7
<1>9. new = Append(was, spell(more))
  BY <1>5, <1>7, <1>8, SeqEqual
<1> QED
  BY <1>3, <1>4, <1>9 DEF was, new, spell

\* Nothing is spelt, and nothing flattened.
LEMMA Nothing ==
  FlattenSeq(<<>>) = <<>> /\ Spelt(<<>>) = <<>> /\ <<>> \o <<>> = <<>>
BY DEF FlattenSeq, Spelt

\* What fits is a map, if it is there.
LEMMA FitIsMapped ==
  ASSUME NEW entry, NEW triggers, NEW states, TransitionsFit(entry, triggers, states)
  PROVE  Mapped(entry)
BY DEF TransitionsFit, Mapped

\* The pool of the entries before the i-th, and of the i-th.
LEMMA PoolsMore ==
  ASSUME NEW root, NEW i \in Nat \ {0}, 
         \A s \in 1 .. i : Entries(root, "states")[s] \in Node /\ Mapped(Entries(root, "states")[s])
  PROVE  /\ Pools(root, 0) = <<>>
         /\ Pools(root, i - 1) \in Seq(Seq(Read)) /\ FlattenSeq(Pools(root, i - 1)) \in Seq(Read)
         /\ FlattenSeq(Pools(root, i))
              = FlattenSeq(Pools(root, i - 1)) \o FlattenSeq(GuardsOf(Entries(root, "states")[i]))
<1> DEFINE items   == Entries(root, "states")
           pool(s) == FlattenSeq(GuardsOf(items[s]))
<1>1. ASSUME NEW s \in 1 .. i PROVE pool(s) \in Seq(Read)
  <2>1. GuardsOf(items[s]) \in Seq(Seq(Read))
    BY EntrySays
  <2> QED
    BY <2>1, FlattenFirst
<1>2. \A n : Pools(root, n) = [s \in 1 .. n |-> pool(s)]
  BY DEF Pools
<1> HIDE DEF pool
<1>3. Pools(root, 0) = <<>>
  BY <1>2
<1>4. /\ Pools(root, i - 1) \in Seq(Seq(Read)) /\ Len(Pools(root, i - 1)) = i - 1
      /\ \A s \in 1 .. i - 1 : Pools(root, i - 1)[s] = pool(s)
  <2>1. i - 1 \in Nat /\ \A s \in 1 .. i - 1 : s \in 1 .. i
    OBVIOUS
  <2>2. Pools(root, i - 1) = [s \in 1 .. i - 1 |-> pool(s)]
    BY <1>2
  <2>3. \A s \in 1 .. i - 1 : pool(s) \in Seq(Read)
    BY <1>1, <2>1
  <2> QED
    BY <2>1, <2>2, <2>3
<1>5. /\ Pools(root, i) \in Seq(Seq(Read)) /\ Len(Pools(root, i)) = i
      /\ \A s \in 1 .. i : Pools(root, i)[s] = pool(s)
  <2>1. Pools(root, i) = [s \in 1 .. i |-> pool(s)]
    BY <1>2
  <2> QED
    BY <1>1, <2>1
<1> DEFINE was == Pools(root, i - 1)
           now == Pools(root, i)
<1>6. i \in 1 .. i /\ pool(i) \in Seq(Read)
  BY <1>1
<1> HIDE DEF was, now
<1>7. now = Append(was, pool(i))
  <2>1. /\ Append(was, pool(i)) \in Seq(Seq(Read)) /\ Len(Append(was, pool(i))) = i
        /\ \A s \in 1 .. i : Append(was, pool(i))[s] = pool(s)
    BY <1>4, <1>6 DEF was
  <2>2. /\ now \in Seq(Seq(Read)) /\ Len(now) = i /\ \A s \in 1 .. i : now[s] = pool(s)
    BY <1>5 DEF now
  <2> QED
    BY <2>1, <2>2, SeqEqual
<1>8. was \in Seq(Seq(Read))
  BY <1>4 DEF was
<1>9. FlattenSeq(now) = FlattenSeq(was) \o pool(i)
  BY <1>6, <1>7, <1>8, FlattenMore
<1>10. FlattenSeq(was) \in Seq(Read)
  BY <1>8, FlattenFirst
<1> QED
  BY <1>3, <1>8, <1>9, <1>10 DEF was, now, pool

\* Before any entry is linked.
LEMMA NothingLinked ==
  ASSUME NEW root \in Node, NEW m, Building(m), AllRead(root, m), Unlinked(m)
  PROVE  LinksRead(root, m, 1)
<1> DEFINE items == Entries(root, "states")
           none  == [t \in DOMAIN m.triggers |-> <<>>]
<1>1. Len(items) \in Nat /\ \A i \in 1 .. Len(items) : i - 1 \in DOMAIN m.states
  BY NamesAreFound
<1> HIDE DEF items
<1>2. ASSUME NEW s \in 1 .. Len(items), NEW t \in DOMAIN m.triggers
      PROVE  /\ Says(m, s - 1, t) = Spelt(IF s < 1 THEN AlternativesFor(items[s], m.triggers[t].name)
                                          ELSE IF s = 1 THEN none[t] ELSE <<>>)
             /\ t \in DOMAIN m.states[s - 1].transitions => m.triggers[t].name \in TriggersOf(items[s])
  <2>1. m.states[s - 1].transitions = <<>>
    BY <1>1 DEF Unlinked
  <2>2. DOMAIN <<>> = {}
    OBVIOUS
  <2>3. Says(m, s - 1, t) = <<>>
    BY <2>1, <2>2 DEF Says, Lookup
  <2>4. ~(s < 1) /\ none[t] = <<>>
    BY <1>1
  <2> QED
    BY <2>1, <2>2, <2>3, <2>4, Nothing
<1>3. m.conditions = FlattenSeq(Pools(root, 1 - 1)) \o <<>>
  <2>1. Pools(root, 1 - 1) = <<>>
    BY DEF Pools
  <2> QED
    BY <2>1, Nothing DEF Unlinked
<1> HIDE DEF none
<1>4. Linked(root, m, 1, none, <<>>)
  BY <1>2, <1>3 DEF Linked, items
<1> QED
  BY <1>4 DEF LinksRead, none

\* What is there when the entries before the i-th are linked.
LEMMA LinkedSoFar ==
  ASSUME NEW root \in Node, NEW m, Building(m), AllRead(root, m),
         NEW i \in 1 .. Len(Entries(root, "states")) + 1, NEW partly, NEW pool, Linked(root, m, i, partly, pool)
  PROVE  /\ \A s \in 1 .. i - 1 : /\ Entries(root, "states")[s] \in Node
                                  /\ Mapped(Entries(root, "states")[s])
         /\ FlattenSeq(Pools(root, i - 1)) \in Seq(Read)
<1> DEFINE items == Entries(root, "states")
<1>1. Len(items) \in Nat /\ \A s \in 1 .. Len(items) : items[s] \in Node
  BY NamesAreFound
<1>2. \A s \in 1 .. i - 1 : Mapped(items[s])
  BY FitIsMapped DEF Linked
<1> HIDE DEF items
<1>3. ASSUME NEW s \in 1 .. i - 1 PROVE items[s] \in Node /\ Mapped(items[s])
  BY <1>1, <1>2 DEF items
<1>4. FlattenSeq(Pools(root, i - 1)) \in Seq(Read)
  <2>1. CASE i = 1
    <3>1. i - 1 = 0
      BY <2>1
    <3>2. Pools(root, i - 1) = <<>>
      BY <3>1 DEF Pools
    <3>3. <<>> \in Seq(Read)
      OBVIOUS
    <3> QED
      BY <3>2, <3>3, Nothing
  <2>2. CASE i # 1
    <3>1. PICK n \in Nat \ {0} : n = i - 1
      BY <1>1, <2>2 DEF items
    <3>2. \A s \in 1 .. n : items[s] \in Node /\ Mapped(items[s])
      BY <1>3, <3>1
    <3>3. FlattenSeq(Pools(root, n)) = FlattenSeq(Pools(root, n - 1)) \o FlattenSeq(GuardsOf(items[n]))
          /\ FlattenSeq(Pools(root, n - 1)) \in Seq(Read)
      BY <3>2, PoolsMore DEF items
    <3>4. n \in 1 .. n
      OBVIOUS
    <3>5. GuardsOf(items[n]) \in Seq(Seq(Read))
      BY <3>2, <3>4, EntrySays
    <3>6. FlattenSeq(GuardsOf(items[n])) \in Seq(Read)
      BY <3>5, FlattenFirst
    <3> QED
      BY <3>1, <3>3, <3>6, ConcatProperties
  <2> QED
    BY <2>1, <2>2
<1> QED
  BY <1>3, <1>4 DEF items

\* An entry is gone into.
LEMMA PairsBegin ==
  ASSUME NEW root \in Node, NEW m, Building(m), AllRead(root, m),
         NEW i \in 1 .. Len(Entries(root, "states")), LinksRead(root, m, i),
         Mapped(Entries(root, "states")[i])
  PROVE  PairsRead(root, m, i, 0)
<1> DEFINE entry == Entries(root, "states")[i]
           upto  == [t \in DOMAIN m.triggers |-> FlattenSeq(First(About(entry, m.triggers[t].name), 0))]
<1>1. entry \in Node
  BY NamesAreFound
<1> HIDE DEF entry
<1>2. ASSUME NEW name PROVE FlattenSeq(First(About(entry, name), 0)) = <<>>
  <2>1. About(entry, name) \in Seq(Seq(Choice))
    BY <1>1, EntrySays DEF entry
  <2> QED
    BY <2>1, FlattenFirst
<1>3. FlattenSeq(First(GuardsOf(entry), 0)) = <<>>
  <2>1. GuardsOf(entry) \in Seq(Seq(Read))
    BY <1>1, EntrySays DEF entry
  <2> QED
    BY <2>1, FlattenFirst
<1>4. upto = [t \in DOMAIN m.triggers |-> <<>>]
  BY <1>2
<1> HIDE DEF upto
<1>5. Linked(root, m, i, upto, FlattenSeq(First(GuardsOf(entry), 0)))
  BY <1>3, <1>4 DEF LinksRead
<1>6. PairsFit(root, entry, 0)
  BY DEF PairsFit, entry
<1> QED
  BY <1>5, <1>6 DEF PairsRead, entry, upto

\* An entry has said all it says.
LEMMA PairsEnd ==
  ASSUME NEW root \in Node, NEW m, Building(m), AllRead(root, m),
         NEW i \in 1 .. Len(Entries(root, "states")),
         NEW p, p = Len(PairsOf(Entries(root, "states")[i])), PairsRead(root, m, i, p)
  PROVE  LinksRead(root, m, i + 1)
<1> DEFINE items == Entries(root, "states")
           entry == items[i]
           upto  == [t \in DOMAIN m.triggers |-> FlattenSeq(First(About(entry, m.triggers[t].name), p))]
           none  == [t \in DOMAIN m.triggers |-> <<>>]
<1>1. entry \in Node /\ Mapped(entry) /\ Len(items) \in Nat
  BY NamesAreFound DEF PairsRead, PairsFit
<1>2. Linked(root, m, i, upto, FlattenSeq(First(GuardsOf(entry), p))) /\ PairsFit(root, entry, p)
  BY DEF PairsRead
<1>3. ASSUME NEW name PROVE FlattenSeq(First(About(entry, name), p)) = AlternativesFor(entry, name)
  <2>1. About(entry, name) \in Seq(Seq(Choice)) /\ Len(About(entry, name)) = p
    BY <1>1, EntrySays
  <2>2. First(About(entry, name), p) = About(entry, name)
    BY <2>1, FirstMore
  <2> QED
    BY <2>2 DEF AlternativesFor
<1>4. First(GuardsOf(entry), p) = GuardsOf(entry) /\ FlattenSeq(GuardsOf(entry)) \in Seq(Read)
  <2>1. GuardsOf(entry) \in Seq(Seq(Read)) /\ Len(GuardsOf(entry)) = p
    BY <1>1, EntrySays
  <2> QED
    BY <2>1, FirstMore, FlattenFirst
<1>5. i \in Nat \ {0} /\ i \in 1 .. Len(items) + 1 /\ i + 1 - 1 = i /\ i \in 1 .. i
  BY <1>1
<1>6. /\ \A s \in 1 .. i - 1 : items[s] \in Node /\ Mapped(items[s])
      /\ FlattenSeq(Pools(root, i - 1)) \in Seq(Read)
  BY <1>2, <1>5, LinkedSoFar
<1>7. TransitionsFit(entry, NamesIn(root, "triggers"), NamesIn(root, "states"))
  <2>1. CASE Defined(Child(entry, "transitions"))
    <3>1. /\ IsMap(Child(entry, "transitions"))
          /\ PairsOf(entry) = Child(entry, "transitions").pairs
      BY <1>1, <2>1 DEF Mapped, PairsOf
    <3>2. DOMAIN PairsOf(entry) = 1 .. p
      BY <1>1, EntrySays
    <3> QED
      BY <1>2, <3>1, <3>2 DEF TransitionsFit, PairsFit
  <2>2. CASE ~Defined(Child(entry, "transitions"))
    BY <2>2 DEF TransitionsFit
  <2> QED
    BY <2>1, <2>2
<1> HIDE DEF items, entry
<1>8. \A s \in 1 .. i : items[s] \in Node /\ Mapped(items[s])
  <2>1. ASSUME NEW s \in 1 .. i PROVE s = i \/ s \in 1 .. i - 1
    BY <1>5
  <2> QED
    BY <1>1, <1>6, <2>1 DEF entry
<1>9. FlattenSeq(Pools(root, i)) = FlattenSeq(Pools(root, i - 1)) \o FlattenSeq(GuardsOf(entry))
  BY <1>5, <1>8, PoolsMore DEF items, entry
<1>10. m.conditions = FlattenSeq(Pools(root, i + 1 - 1)) \o <<>>
  <2>1. m.conditions = FlattenSeq(Pools(root, i - 1)) \o FlattenSeq(GuardsOf(entry))
    BY <1>2, <1>4 DEF Linked
  <2>2. FlattenSeq(Pools(root, i)) \in Seq(Read)
    BY <1>4, <1>6, <1>9, ConcatProperties
  <2> QED
    BY <1>5, <1>9, <2>1, <2>2, ConcatEmptySeq
<1>11. ASSUME NEW s \in 1 .. Len(items), NEW t \in DOMAIN m.triggers
       PROVE  /\ Says(m, s - 1, t) = Spelt(IF s < i + 1 THEN AlternativesFor(items[s], m.triggers[t].name)
                                           ELSE IF s = i + 1 THEN none[t] ELSE <<>>)
              /\ t \in DOMAIN m.states[s - 1].transitions => m.triggers[t].name \in TriggersOf(items[s])
  <2>1. /\ Says(m, s - 1, t) = Spelt(IF s < i THEN AlternativesFor(items[s], m.triggers[t].name)
                                     ELSE IF s = i THEN upto[t] ELSE <<>>)
        /\ t \in DOMAIN m.states[s - 1].transitions => m.triggers[t].name \in TriggersOf(items[s])
    BY <1>2 DEF Linked, items
  <2>2. upto[t] = AlternativesFor(entry, m.triggers[t].name) /\ none[t] = <<>>
    BY <1>3
  <2>3. s = i => items[s] = entry
    BY DEF entry
  <2>4. /\ s < i + 1 <=> s < i \/ s = i
        /\ ~(s < i /\ s = i) /\ ~(s < i + 1 /\ s = i + 1)
    BY <1>5
  <2> HIDE DEF upto, none
  <2> QED
    BY <2>1, <2>2, <2>3, <2>4
<1>12. ASSUME NEW s \in 1 .. i + 1 - 1
       PROVE  TransitionsFit(items[s], NamesIn(root, "triggers"), NamesIn(root, "states"))
  <2>1. s = i \/ s \in 1 .. i - 1
    BY <1>5
  <2> QED
    BY <1>2, <1>7, <2>1 DEF Linked, items, entry
<1> HIDE DEF none
<1>13. Linked(root, m, i + 1, none, <<>>)
  BY <1>10, <1>11, <1>12 DEF Linked, items
<1> QED
  BY <1>13 DEF LinksRead, none

\* What a pair of an entry says, and for which trigger.
LEMMA PairAt ==
  ASSUME NEW entry \in Node, Mapped(entry), NEW p \in 1 .. Len(PairsOf(entry))
  PROVE  LET pair == PairsOf(entry)[p]
             said == Alternatives(pair[2]) IN
         /\ p \in Nat \ {0} /\ pair[1] \in Nodes /\ pair[2] \in Nodes
         /\ said \in Seq(Choice) /\ Len(said) \in Nat /\ DOMAIN said = 1 .. Len(said)
         /\ GuardsIn(said) \in Seq(Seq(Read)) /\ Len(GuardsIn(said)) = Len(said)
         /\ \A j \in 1 .. Len(said) : /\ said[j] \in Choice /\ GuardsIn(said)[j] = GuardIn(said[j])
                                      /\ GuardIn(said[j]) \in Seq(Read)
         /\ FlattenSeq(GuardsIn(said)) \in Seq(Read)
         /\ FlattenSeq(First(GuardsOf(entry), p - 1)) \in Seq(Read)
         /\ FlattenSeq(First(GuardsOf(entry), p))
              = FlattenSeq(First(GuardsOf(entry), p - 1)) \o FlattenSeq(GuardsIn(said))
         /\ \A name :
              /\ FlattenSeq(First(About(entry, name), p - 1)) \in Seq(Choice)
              /\ FlattenSeq(First(About(entry, name), p))
                   = FlattenSeq(First(About(entry, name), p - 1))
                       \o (IF TextOf(pair[1]) = name THEN said ELSE <<>>)
<1> DEFINE pairs == PairsOf(entry)
           pair  == pairs[p]
           said  == Alternatives(pair[2])
<1>1. /\ Len(pairs) \in Nat /\ DOMAIN pairs = 1 .. Len(pairs)
      /\ pair[1] \in Nodes /\ pair[2] \in Nodes /\ said \in Seq(Choice)
      /\ GuardsIn(said) \in Seq(Seq(Read)) /\ Len(GuardsIn(said)) = Len(said)
      /\ GuardsOf(entry) \in Seq(Seq(Read)) /\ Len(GuardsOf(entry)) = Len(pairs)
      /\ \A name : About(entry, name) \in Seq(Seq(Choice)) /\ Len(About(entry, name)) = Len(pairs)
  BY EntrySays
<1>2. p \in Nat \ {0} /\ p - 1 \in 0 .. Len(pairs) /\ p \in DOMAIN pairs
  BY <1>1
<1>3. Len(said) \in Nat /\ DOMAIN said = 1 .. Len(said) /\ \A j \in 1 .. Len(said) : said[j] \in Choice
  BY <1>1
<1>4. \A j \in 1 .. Len(said) : GuardsIn(said)[j] = GuardIn(said[j]) /\ GuardIn(said[j]) \in Seq(Read)
  BY <1>3, ChoiceIs DEF GuardsIn
<1>5. GuardsOf(entry)[p] = FlattenSeq(GuardsIn(said))
  BY <1>2 DEF GuardsOf
<1>6. \A name : About(entry, name)[p] = IF TextOf(pair[1]) = name THEN said ELSE <<>>
  BY <1>2 DEF About
<1>7. FlattenSeq(GuardsIn(said)) \in Seq(Read)
  BY <1>1, FlattenFirst
<1> HIDE DEF pairs, pair, said
<1>8. /\ FlattenSeq(First(GuardsOf(entry), p - 1)) \in Seq(Read)
      /\ FlattenSeq(First(GuardsOf(entry), p))
           = FlattenSeq(First(GuardsOf(entry), p - 1)) \o FlattenSeq(GuardsIn(said))
  <2> DEFINE guards == GuardsOf(entry)
  <2>1. guards \in Seq(Seq(Read)) /\ p \in 1 .. Len(guards) /\ p - 1 \in 0 .. Len(guards)
    BY <1>1, <1>2 DEF pairs
  <2> HIDE DEF guards
  <2>2. /\ FlattenSeq(First(guards, p - 1)) \in Seq(Read)
        /\ FlattenSeq(First(guards, p)) = FlattenSeq(First(guards, p - 1)) \o guards[p]
    BY <2>1, FlattenFirst
  <2> QED
    BY <1>5, <2>2 DEF guards
<1>9. ASSUME NEW name
      PROVE  /\ FlattenSeq(First(About(entry, name), p - 1)) \in Seq(Choice)
             /\ FlattenSeq(First(About(entry, name), p))
                  = FlattenSeq(First(About(entry, name), p - 1))
                      \o (IF TextOf(pair[1]) = name THEN said ELSE <<>>)
  <2> DEFINE about == About(entry, name)
  <2>1. about \in Seq(Seq(Choice)) /\ p \in 1 .. Len(about) /\ p - 1 \in 0 .. Len(about)
    BY <1>1, <1>2 DEF pairs
  <2> HIDE DEF about
  <2>2. /\ FlattenSeq(First(about, p - 1)) \in Seq(Choice)
        /\ FlattenSeq(First(about, p)) = FlattenSeq(First(about, p - 1)) \o about[p]
    BY <2>1, FlattenFirst
  <2> QED
    BY <1>6, <2>2 DEF about
<1> QED
  BY <1>1, <1>2, <1>3, <1>4, <1>7, <1>8, <1>9 DEF pairs, pair, said

\* The trigger of a pair is the one with its name.
LEMMA TriggerOf ==
  ASSUME NEW root \in Node, NEW m, Building(m), AllRead(root, m),
         NEW text \in NamesIn(root, "triggers")
  PROVE  /\ FindTrigger(m, text) \in DOMAIN m.triggers
         /\ \A t \in DOMAIN m.triggers : t = FindTrigger(m, text) <=> text = m.triggers[t].name
<1>1. FindTrigger(m, text) # kNoTrigger
  BY NamesAreFound
<1>2. Built(m, Conditions)
  BY DEF Building
<1>3. \A t \in DOMAIN m.triggers : FindTrigger(m, m.triggers[t].name) = t
  BY <1>2, Found
<1>4. FindTrigger(m, text) \in DOMAIN m.triggers /\ m.triggers[FindTrigger(m, text)].name = text
  BY <1>1, <1>2, Found
<1> QED
  BY <1>3, <1>4

\* A pair is gone into.
LEMMA AlternativesBegin ==
  ASSUME NEW root \in Node, NEW m, Building(m), AllRead(root, m),
         NEW i \in 1 .. Len(Entries(root, "states")),
         NEW p \in 1 .. Len(PairsOf(Entries(root, "states")[i])), PairsRead(root, m, i, p - 1),
         LET pair == PairsOf(Entries(root, "states")[i])[p] IN
         /\ Readable(pair[1]) /\ TextOf(pair[1]) \in NamesIn(root, "triggers")
         /\ Alternatives(pair[2]) # <<>>
  PROVE  AlternativesRead(root, m, i, p, 0)
<1> DEFINE entry == Entries(root, "states")[i]
           pair  == PairsOf(entry)[p]
           said  == Alternatives(pair[2])
           first == FindTrigger(m, TextOf(pair[1]))
           about(t) == FlattenSeq(First(About(entry, m.triggers[t].name), p - 1))
           guards == FlattenSeq(First(GuardsOf(entry), p - 1))
           was == [t \in DOMAIN m.triggers |-> about(t)]
           now == [t \in DOMAIN m.triggers |-> about(t) \o (IF t = first THEN First(said, 0) ELSE <<>>)]
<1>1. entry \in Node /\ Mapped(entry)
  BY NamesAreFound DEF PairsRead, PairsFit
<1>2. PairsFit(root, entry, p - 1) /\ Linked(root, m, i, was, guards)
  BY DEF PairsRead
<1>3. /\ said \in Seq(Choice) /\ guards \in Seq(Read) /\ GuardsIn(said) \in Seq(Seq(Read))
      /\ \A t : about(t) \in Seq(Choice)
  BY <1>1, PairAt
<1>4. First(said, 0) = <<>> /\ FlattenSeq(First(GuardsIn(said), 0)) = <<>>
  BY <1>3, FirstMore, FlattenFirst
<1>5. Readable(pair[1]) /\ TextOf(pair[1]) \in NamesIn(root, "triggers") /\ said # <<>>
  OBVIOUS
<1> HIDE DEF entry, pair, said, first, about, guards
<1>6. now = was
  <2>1. \A t \in DOMAIN m.triggers : about(t) \o (IF t = first THEN First(said, 0) ELSE <<>>) = about(t)
    BY <1>3, <1>4, ConcatEmptySeq
  <2> QED
    BY <2>1
<1>7. guards \o FlattenSeq(First(GuardsIn(said), 0)) = guards
  BY <1>3, <1>4, ConcatEmptySeq
<1> HIDE DEF was, now
<1>8. Linked(root, m, i, now, guards \o FlattenSeq(First(GuardsIn(said), 0)))
  BY <1>2, <1>6, <1>7
<1> QED
  BY <1>2, <1>5, <1>8 DEF AlternativesRead, entry, pair, said, first, about, guards, now

\* A pair has said all it says.
LEMMA AlternativesEnd ==
  ASSUME NEW root \in Node, NEW m, Building(m), AllRead(root, m),
         NEW i \in 1 .. Len(Entries(root, "states")),
         NEW p \in 1 .. Len(PairsOf(Entries(root, "states")[i])), NEW j,
         j = Len(Alternatives(PairsOf(Entries(root, "states")[i])[p][2])),
         AlternativesRead(root, m, i, p, j)
  PROVE  PairsRead(root, m, i, p)
<1> DEFINE entry == Entries(root, "states")[i]
           pair  == PairsOf(entry)[p]
           said  == Alternatives(pair[2])
           first == FindTrigger(m, TextOf(pair[1]))
           about(t) == FlattenSeq(First(About(entry, m.triggers[t].name), p - 1))
           more(t)  == FlattenSeq(First(About(entry, m.triggers[t].name), p))
           guards == FlattenSeq(First(GuardsOf(entry), p - 1))
           was == [t \in DOMAIN m.triggers |-> about(t) \o (IF t = first THEN First(said, j) ELSE <<>>)]
           now == [t \in DOMAIN m.triggers |-> more(t)]
<1>1. entry \in Node /\ Mapped(entry)
  BY NamesAreFound DEF AlternativesRead, PairsFit
<1>2. /\ PairsFit(root, entry, p - 1)
      /\ Linked(root, m, i, was, guards \o FlattenSeq(First(GuardsIn(said), j)))
      /\ Readable(pair[1]) /\ TextOf(pair[1]) \in NamesIn(root, "triggers") /\ said # <<>>
      /\ \A a \in 1 .. j : AlternativeFits(said[a], NamesIn(root, "states"))
  BY DEF AlternativesRead
<1>3. /\ said \in Seq(Choice) /\ DOMAIN said = 1 .. j /\ p \in Nat \ {0}
      /\ GuardsIn(said) \in Seq(Seq(Read)) /\ Len(GuardsIn(said)) = j
      /\ FlattenSeq(First(GuardsOf(entry), p)) = guards \o FlattenSeq(GuardsIn(said))
      /\ \A t : more(t) = about(t) \o (IF TextOf(pair[1]) = m.triggers[t].name THEN said ELSE <<>>)
  BY <1>1, PairAt, Zenon
<1>4. First(said, j) = said /\ First(GuardsIn(said), j) = GuardsIn(said)
  BY <1>3, FirstMore
<1>5. \A t \in DOMAIN m.triggers : t = first <=> TextOf(pair[1]) = m.triggers[t].name
  BY <1>2, TriggerOf
<1>6. j = Len(said)
  OBVIOUS
<1> HIDE DEF entry, pair, said, first, about, more, guards
<1>7. was = now
  <2>1. ASSUME NEW t \in DOMAIN m.triggers
        PROVE  about(t) \o (IF t = first THEN First(said, j) ELSE <<>>) = more(t)
    BY <1>3, <1>4, <1>5
  <2> QED
    BY <2>1
<1> HIDE DEF was, now
<1>8. Linked(root, m, i, now, FlattenSeq(First(GuardsOf(entry), p)))
  BY <1>2, <1>3, <1>4, <1>7
<1>9. PairFits(pair, NamesIn(root, "triggers"), NamesIn(root, "states"))
  BY <1>2, <1>3 DEF PairFits, said
<1>10. PairsFit(root, entry, p)
  <2>1. ASSUME NEW q \in 1 .. p PROVE q = p \/ q \in 1 .. p - 1
    BY <1>3
  <2> QED
    BY <1>2, <1>9, <2>1 DEF PairsFit, pair
<1> QED
  BY <1>8, <1>10 DEF PairsRead, entry, more, now

\* What is appended to the second of two sequences ends the whole.
LEMMA ConcatAppend ==
  ASSUME NEW X, NEW a \in Seq(X), NEW b \in Seq(X), NEW x \in X
  PROVE  a \o Append(b, x) = Append(a \o b, x)
<1> DEFINE u == a \o Append(b, x)
           v == Append(a \o b, x)
<1>1. /\ Append(b, x) \in Seq(X) /\ Len(Append(b, x)) = Len(b) + 1
      /\ Append(b, x)[Len(b) + 1] = x /\ \A i \in 1 .. Len(b) : Append(b, x)[i] = b[i]
      /\ Len(a) \in Nat /\ Len(b) \in Nat
  OBVIOUS
<1>2. /\ u \in Seq(X) /\ Len(u) = Len(a) + Len(b) + 1
      /\ \A i \in 1 .. Len(a) + Len(b) + 1 :
           u[i] = IF i <= Len(a) THEN a[i] ELSE Append(b, x)[i - Len(a)]
  BY <1>1, ConcatProperties
<1>3. /\ a \o b \in Seq(X) /\ Len(a \o b) = Len(a) + Len(b)
      /\ \A i \in 1 .. Len(a) + Len(b) : (a \o b)[i] = IF i <= Len(a) THEN a[i] ELSE b[i - Len(a)]
  BY ConcatProperties
<1> DEFINE ab == a \o b
<1>4. /\ v \in Seq(X) /\ Len(v) = Len(a) + Len(b) + 1 /\ v[Len(a) + Len(b) + 1] = x
      /\ \A i \in 1 .. Len(a) + Len(b) : v[i] = ab[i]
  <2> HIDE DEF ab
  <2>1. ab \in Seq(X) /\ Len(ab) = Len(a) + Len(b) /\ v = Append(ab, x)
    BY <1>3 DEF ab
  <2> QED
    BY <1>1, <2>1
<1> HIDE DEF u, v
<1>5. ASSUME NEW i \in 1 .. Len(u) PROVE u[i] = v[i]
  <2>1. i \in 1 .. Len(a) + Len(b) + 1 /\ i \in Nat
    BY <1>1, <1>2
  <2>2. CASE i <= Len(a)
    <3>1. i \in 1 .. Len(a) + Len(b)
      BY <1>1, <2>1, <2>2
    <3>2. u[i] = a[i]
      BY <1>2, <2>1, <2>2
    <3>3. v[i] = ab[i]
      BY <1>4, <3>1
    <3>4. ab[i] = a[i]
      BY <1>3, <2>2, <3>1
    <3> HIDE DEF ab
    <3> QED
      BY <3>2, <3>3, <3>4
  <2>3. CASE i > Len(a) /\ i <= Len(a) + Len(b)
    <3>1. i - Len(a) \in 1 .. Len(b) /\ i \in 1 .. Len(a) + Len(b) /\ ~(i <= Len(a))
      BY <1>1, <2>1, <2>3
    <3>2. u[i] = Append(b, x)[i - Len(a)] /\ v[i] = ab[i] /\ ab[i] = b[i - Len(a)]
      BY <1>2, <1>3, <1>4, <2>1, <3>1
    <3> QED
      BY <1>1, <3>1, <3>2
  <2>4. CASE i = Len(a) + Len(b) + 1
    <3>1. i - Len(a) = Len(b) + 1 /\ ~(i <= Len(a))
      BY <1>1, <2>4
    <3> QED
      BY <1>1, <1>2, <1>4, <2>1, <2>4, <3>1
  <2> QED
    BY <1>1, <2>1, <2>2, <2>3, <2>4
<1> QED
  BY <1>2, <1>4, <1>5, SeqEqual DEF u, v

\* What is known of the alternative that comes.
LEMMA AlternativeComes ==
  ASSUME NEW root \in Node, NEW m, Building(m), AllRead(root, m),
         NEW i \in 1 .. Len(Entries(root, "states")),
         NEW p \in 1 .. Len(PairsOf(Entries(root, "states")[i])),
         NEW j \in 1 .. Len(Alternatives(PairsOf(Entries(root, "states")[i])[p][2])),
         AlternativesRead(root, m, i, p, j - 1),
         AlternativeFits(Alternatives(PairsOf(Entries(root, "states")[i])[p][2])[j], NamesIn(root, "states"))
  PROVE  LET entry == Entries(root, "states")[i]
             pair  == PairsOf(entry)[p]
             said  == Alternatives(pair[2])
             name  == TextOf(Child(said[j], "target"))
             guard == GuardIn(said[j])
             first == FindTrigger(m, TextOf(pair[1]))
             about == FlattenSeq(First(About(entry, m.triggers[first].name), p - 1)) IN
         /\ entry \in Node /\ Mapped(entry)
         /\ i - 1 \in DOMAIN m.states /\ first \in DOMAIN m.triggers
         /\ FindState(m, name) \in DOMAIN m.states /\ StateName(m, FindState(m, name)) = name
         /\ m.triggers[first].name = TextOf(pair[1]) /\ TextOf(pair[1]) \in TriggersOf(entry)
         /\ guard \in Seq(Conditions) /\ guard \in Seq(Read)
         /\ FlattenSeq(Pools(root, i - 1)) \in Seq(Read)
         /\ First(said, j) = Append(First(said, j - 1), said[j]) /\ First(said, j - 1) \in Seq(Choice)
         /\ Len(First(said, j - 1)) = j - 1
         /\ FlattenSeq(First(GuardsIn(said), j)) = FlattenSeq(First(GuardsIn(said), j - 1)) \o guard
         /\ FlattenSeq(First(GuardsIn(said), j - 1)) \in Seq(Read)
         /\ about \in Seq(Choice)
         /\ Says(m, i - 1, first) = Spelt(about \o First(said, j - 1))
         /\ m.conditions = FlattenSeq(Pools(root, i - 1))
                             \o (FlattenSeq(First(GuardsOf(entry), p - 1))
                                   \o FlattenSeq(First(GuardsIn(said), j - 1)))
<1> DEFINE items == Entries(root, "states")
           entry == items[i]
           pair  == PairsOf(entry)[p]
           said  == Alternatives(pair[2])
           name  == TextOf(Child(said[j], "target"))
           guard == GuardIn(said[j])
           first == FindTrigger(m, TextOf(pair[1]))
           about == FlattenSeq(First(About(entry, m.triggers[first].name), p - 1))
           partly == [t \in DOMAIN m.triggers |->
                        FlattenSeq(First(About(entry, m.triggers[t].name), p - 1))
                          \o (IF t = first THEN First(said, j - 1) ELSE <<>>)]
           pool  == FlattenSeq(First(GuardsOf(entry), p - 1)) \o FlattenSeq(First(GuardsIn(said), j - 1))
<1>1. entry \in Node /\ Mapped(entry) /\ i - 1 \in DOMAIN m.states /\ Len(items) \in Nat
  BY NamesAreFound DEF AlternativesRead, PairsFit
<1>2. TextOf(pair[1]) \in NamesIn(root, "triggers") /\ Linked(root, m, i, partly, pool)
  BY DEF AlternativesRead
<1>3. first \in DOMAIN m.triggers /\ m.triggers[first].name = TextOf(pair[1])
  BY <1>2, TriggerOf
<1>4. TextOf(pair[1]) \in TriggersOf(entry)
  <2>1. p \in DOMAIN PairsOf(entry)
    BY <1>1, EntrySays
  <2> QED
    BY <2>1 DEF TriggersOf
<1>5. name \in NamesIn(root, "states") /\ GuardFits(Child(said[j], "when"))
  BY DEF AlternativeFits
<1>6. FindState(m, name) # kNoState
  BY <1>5, NamesAreFound
<1>7. FindState(m, name) \in DOMAIN m.states /\ m.states[FindState(m, name)].name = name
  BY <1>6, Found DEF Building
<1>8. StateName(m, FindState(m, name)) = name
  BY <1>7 DEF StateName, HasState
<1>9. /\ said \in Seq(Choice) /\ said[j] \in Choice /\ GuardsIn(said)[j] = guard /\ guard \in Seq(Read)
      /\ GuardsIn(said) \in Seq(Seq(Read)) /\ Len(GuardsIn(said)) = Len(said) /\ Len(said) \in Nat
      /\ about \in Seq(Choice) /\ p \in Nat \ {0}
  BY <1>1, PairAt, ZenonT(60)
<1>10. guard \in Seq(Conditions)
  <2>1. Child(said[j], "when") \in Node /\ guard = Guard(Child(said[j], "when"))
    BY <1>9, ChoiceIs
  <2>2. WhenStatus(Child(said[j], "when")) = "Ok"
    BY <1>5, <2>1, WhenFits
  <2> QED
    BY <2>1, <2>2, GuardRead
<1>11. i \in 1 .. Len(items) + 1
  BY <1>1
<1>12. FlattenSeq(Pools(root, i - 1)) \in Seq(Read)
  BY <1>2, <1>11, LinkedSoFar
<1>13. /\ j \in 1 .. Len(said) /\ j - 1 \in 0 .. Len(said)
       /\ j \in 1 .. Len(GuardsIn(said)) /\ j - 1 \in 0 .. Len(GuardsIn(said))
  BY <1>9
<1>14. Says(m, i - 1, first) = Spelt(about \o First(said, j - 1))
  <2>1. partly[first] = about \o First(said, j - 1)
    BY <1>3, Zenon
  <2>2. ~(i < i)
    BY <1>1
  <2> HIDE DEF partly, first
  <2>3. Says(m, i - 1, first) = Spelt(partly[first])
    BY <1>1, <1>2, <1>3, <2>2 DEF Linked
  <2> QED
    BY <2>1, <2>3
<1>15. m.conditions = FlattenSeq(Pools(root, i - 1)) \o pool
  BY <1>2 DEF Linked
<1> HIDE DEF said, guard
<1>16. /\ First(said, j) = Append(First(said, j - 1), said[j]) /\ First(said, j - 1) \in Seq(Choice)
       /\ Len(First(said, j - 1)) = j - 1
  BY <1>9, <1>13, FirstMore
<1>17. /\ FlattenSeq(First(GuardsIn(said), j)) = FlattenSeq(First(GuardsIn(said), j - 1)) \o guard
       /\ FlattenSeq(First(GuardsIn(said), j - 1)) \in Seq(Read)
  <2> DEFINE all == GuardsIn(said)
  <2>1. all \in Seq(Seq(Read)) /\ j \in 1 .. Len(all) /\ j - 1 \in 0 .. Len(all) /\ all[j] = guard
    BY <1>9, <1>13
  <2> HIDE DEF all
  <2>2. /\ FlattenSeq(First(all, j)) = FlattenSeq(First(all, j - 1)) \o all[j]
        /\ FlattenSeq(First(all, j - 1)) \in Seq(Read)
    BY <2>1, FlattenFirst, Zenon
  <2> QED
    BY <2>1, <2>2 DEF all
<1> QED
  BY <1>1, <1>3, <1>4, <1>7, <1>8, <1>9, <1>10, <1>12, <1>14, <1>15, <1>16, <1>17, Zenon DEF said, guard

\* An alternative that is added is read.
LEMMA AlternativeAdded ==
  ASSUME NEW root \in Node, NEW m, Building(m), AllRead(root, m),
         NEW i \in 1 .. Len(Entries(root, "states")),
         NEW p \in 1 .. Len(PairsOf(Entries(root, "states")[i])),
         NEW j \in 1 .. Len(Alternatives(PairsOf(Entries(root, "states")[i])[p][2])),
         AlternativesRead(root, m, i, p, j - 1),
         AlternativeFits(Alternatives(PairsOf(Entries(root, "states")[i])[p][2])[j], NamesIn(root, "states")),
         NEW answer,
         LET pair == PairsOf(Entries(root, "states")[i])[p]
             said == Alternatives(pair[2])[j] IN
         answer = AddTransition(m, i - 1, FindTrigger(m, TextOf(pair[1])),
                                FindState(m, TextOf(Child(said, "target"))), GuardIn(said)),
         answer.status = "Ok"
  PROVE  /\ AllRead(root, answer.model) /\ AlternativesRead(root, answer.model, i, p, j)
         /\ answer.model.triggerIndex = m.triggerIndex
<1> DEFINE items == Entries(root, "states")
           entry == items[i]
           pair  == PairsOf(entry)[p]
           said  == Alternatives(pair[2])
           name  == TextOf(Child(said[j], "target"))
           guard == GuardIn(said[j])
           first == FindTrigger(m, TextOf(pair[1]))
           made  == answer.model
           about(t) == FlattenSeq(First(About(entry, m.triggers[t].name), p - 1))
           pools == FlattenSeq(Pools(root, i - 1))
           before == FlattenSeq(First(GuardsOf(entry), p - 1))
           read   == FlattenSeq(First(GuardsIn(said), j - 1))
           was == [t \in DOMAIN m.triggers |-> about(t) \o (IF t = first THEN First(said, j - 1) ELSE <<>>)]
           now == [t \in DOMAIN m.triggers |-> about(t) \o (IF t = first THEN First(said, j) ELSE <<>>)]
<1>1. /\ entry \in Node /\ Mapped(entry)
      /\ i - 1 \in DOMAIN m.states /\ first \in DOMAIN m.triggers
      /\ FindState(m, name) \in DOMAIN m.states /\ StateName(m, FindState(m, name)) = name
      /\ m.triggers[first].name = TextOf(pair[1]) /\ TextOf(pair[1]) \in TriggersOf(entry)
      /\ guard \in Seq(Conditions) /\ guard \in Seq(Read)
      /\ pools \in Seq(Read)
      /\ First(said, j) = Append(First(said, j - 1), said[j]) /\ First(said, j - 1) \in Seq(Choice)
      /\ FlattenSeq(First(GuardsIn(said), j)) = read \o guard
      /\ read \in Seq(Read)
      /\ about(first) \in Seq(Choice)
      /\ Says(m, i - 1, first) = Spelt(about(first) \o First(said, j - 1))
      /\ m.conditions = pools \o (before \o read)
  BY AlternativeComes, ZenonT(60)
<1>2. before \in Seq(Read) /\ said[j] \in Choice /\ p \in Nat \ {0}
  BY <1>1, PairAt, Zenon
<1>3. /\ PairsFit(root, entry, p - 1) /\ Readable(pair[1])
      /\ TextOf(pair[1]) \in NamesIn(root, "triggers") /\ said # <<>>
      /\ \A a \in 1 .. j - 1 : AlternativeFits(said[a], NamesIn(root, "states"))
      /\ Linked(root, m, i, was, before \o read)
  BY DEF AlternativesRead
<1>4. Built(m, Conditions) /\ Sound(m, kMaxConditionsPerGuard)
  BY DEF Building
<1>5. answer = AddTransition(m, i - 1, first, FindState(m, name), guard) /\ answer.status = "Ok"
  OBVIOUS
<1>6. Len(items) \in Nat /\ (\A s \in 1 .. Len(items) : s - 1 \in DOMAIN m.states)
  BY NamesAreFound
<1>7. AlternativeFits(said[j], NamesIn(root, "states"))
  OBVIOUS
<1> HIDE DEF items, entry, pair, said, name, guard, first, made, about, pools, before, read, was, now
<1>8. /\ made.triggers = m.triggers /\ made.triggerIndex = m.triggerIndex
      /\ made.stateIndex = m.stateIndex /\ made.conditions = m.conditions \o guard
      /\ DOMAIN made.states = DOMAIN m.states
      /\ \A s \in DOMAIN m.states : made.states[s].name = m.states[s].name
      /\ \A s \in DOMAIN m.states :
           DOMAIN made.states[s].transitions =
             DOMAIN m.states[s].transitions \cup (IF s = i - 1 THEN {first} ELSE {})
      /\ Says(made, i - 1, first)
           = Append(Says(m, i - 1, first), [target |-> StateName(m, FindState(m, name)), guard |-> guard])
      /\ \A s \in DOMAIN m.states, t \in DOMAIN m.triggers :
           s # i - 1 \/ t # first => Says(made, s, t) = Says(m, s, t)
  <2> DEFINE to == FindState(m, name)
             at == i - 1
  <2>1. guard \in Seq(Conditions) /\ AddTransition(m, at, first, to, guard).status = "Ok"
    BY <1>1, <1>5
  <2>2. made = AddTransition(m, at, first, to, guard).model
    BY <1>5 DEF made
  <2> HIDE DEF to, at
  <2>3. SaysMore(AddTransition(m, at, first, to, guard).model, m, at, first, to, guard)
    BY ONLY <1>4, <2>1, TransitionSays
  <2>4. SaysMore(made, m, at, first, to, guard)
    BY ONLY <2>2, <2>3
  <2> QED
    BY ONLY <2>4 DEF SaysMore, to, at
<1>9. AllRead(root, made)
  <2>1. TriggersRead(root, made, Len(Entries(root, "triggers")))
    BY <1>8 DEF AllRead, TriggersRead
  <2>2. ASSUME NEW k, StatesRead(root, m, k) PROVE StatesRead(root, made, k)
    <3>1. \A s \in 1 .. k : s - 1 \in 0 .. k - 1
      BY <2>2 DEF StatesRead
    <3> QED
      BY <1>8, <2>2, <3>1 DEF StatesRead
  <2> QED
    BY <2>1, <2>2 DEF AllRead
<1>10. made.conditions = pools \o (before \o FlattenSeq(First(GuardsIn(said), j)))
  <2>1. before \o read \in Seq(Read)
    BY <1>1, <1>2, ConcatProperties
  <2>2. (pools \o (before \o read)) \o guard = pools \o ((before \o read) \o guard)
    <3> DEFINE new == before \o read
    <3>1. new \in Seq(Read) /\ pools \in Seq(Read) /\ guard \in Seq(Read)
      BY <1>1, <2>1
    <3> HIDE DEF new
    <3>2. (pools \o new) \o guard = pools \o (new \o guard)
      BY ONLY <3>1, ConcatAssociative, SMTT(30)
    <3> QED
      BY <3>2 DEF new
  <2>3. (before \o read) \o guard = before \o (read \o guard)
    <3>1. before \in Seq(Read) /\ read \in Seq(Read) /\ guard \in Seq(Read)
      BY <1>1, <1>2
    <3> QED
      BY ONLY <3>1, ConcatAssociative, SMTT(30)
  <2> QED
    BY <1>1, <1>8, <2>2, <2>3
<1>11. Says(made, i - 1, first) = Spelt(about(first) \o First(said, j))
  <2> DEFINE all == about(first) \o First(said, j - 1)
  <2>1. all \in Seq(Choice)
    BY <1>1, ConcatProperties
  <2>2. about(first) \o First(said, j) = Append(all, said[j])
    <3> DEFINE a == about(first)
               b == First(said, j - 1)
               x == said[j]
    <3>1. a \in Seq(Choice) /\ b \in Seq(Choice) /\ x \in Choice /\ First(said, j) = Append(b, x)
      BY <1>1, <1>2
    <3> HIDE DEF a, b, x
    <3>2. a \o Append(b, x) = Append(a \o b, x)
      BY ONLY <3>1, ConcatAppend
    <3> QED
      BY <3>1, <3>2 DEF a, b, x
  <2> HIDE DEF all
  <2>3. Spelt(Append(all, said[j]))
          = Append(Spelt(all), [target |-> TextOf(Child(said[j], "target")), guard |-> GuardIn(said[j])])
    BY <1>2, <2>1, SpeltMore
  <2>4. Says(m, i - 1, first) = Spelt(all)
    BY <1>1 DEF all
  <2> QED
    BY <1>1, <1>8, <2>2, <2>3, <2>4 DEF name, guard
<1>12. ASSUME NEW t \in DOMAIN m.triggers
       PROVE  t # first => now[t] = was[t]
  BY DEF now, was
<1>13. now[first] = about(first) \o First(said, j)
  BY <1>1 DEF now
<1>14. ASSUME NEW s \in 1 .. Len(items), NEW t \in DOMAIN m.triggers
       PROVE  /\ Says(made, s - 1, t) = Spelt(IF s < i THEN AlternativesFor(items[s], m.triggers[t].name)
                                              ELSE IF s = i THEN now[t] ELSE <<>>)
              /\ t \in DOMAIN made.states[s - 1].transitions => m.triggers[t].name \in TriggersOf(items[s])
  <2>1. /\ Says(m, s - 1, t) = Spelt(IF s < i THEN AlternativesFor(items[s], m.triggers[t].name)
                                     ELSE IF s = i THEN was[t] ELSE <<>>)
        /\ t \in DOMAIN m.states[s - 1].transitions => m.triggers[t].name \in TriggersOf(items[s])
    BY <1>3 DEF Linked, items
  <2>2. s - 1 \in DOMAIN m.states /\ (s - 1 = i - 1 <=> s = i) /\ ~(s < i /\ s = i)
    BY <1>6
  <2>3. CASE s = i /\ t = first
    <3>1. Says(made, s - 1, t) = Spelt(now[t])
      BY <1>11, <1>13, <2>3
    <3>2. m.triggers[t].name \in TriggersOf(items[s])
      BY <1>1, <2>3 DEF entry
    <3> QED
      BY <2>2, <2>3, <3>1, <3>2
  <2>4. CASE s # i \/ t # first
    <3>1. Says(made, s - 1, t) = Says(m, s - 1, t)
      BY <1>8, <2>2, <2>4
    <3>2. s = i => now[t] = was[t]
      BY <1>12, <2>4
    <3>3. DOMAIN made.states[s - 1].transitions =
             DOMAIN m.states[s - 1].transitions \cup (IF s - 1 = i - 1 THEN {first} ELSE {})
      BY <1>8, <2>2
    <3>4. t \in DOMAIN made.states[s - 1].transitions => t \in DOMAIN m.states[s - 1].transitions
      BY <2>2, <2>4, <3>3
    <3> QED
      BY <2>1, <2>2, <3>1, <3>2, <3>4
  <2> QED
    BY <2>3, <2>4
<1>15. Linked(root, made, i, now, before \o FlattenSeq(First(GuardsIn(said), j)))
  <2>1. \A s \in 1 .. i - 1 :
          TransitionsFit(items[s], NamesIn(root, "triggers"), NamesIn(root, "states"))
    BY <1>3 DEF Linked, items
  <2> QED
    BY <1>8, <1>10, <1>14, <2>1 DEF Linked, items, pools
<1>16. \A a \in 1 .. j : AlternativeFits(said[a], NamesIn(root, "states"))
  <2>1. ASSUME NEW a \in 1 .. j PROVE a = j \/ a \in 1 .. j - 1
    OBVIOUS
  <2> QED
    BY <1>3, <1>7, <2>1
<1>17. FindTrigger(made, TextOf(pair[1])) = first
  BY <1>8 DEF FindTrigger, first
<1>18. now = [t \in DOMAIN made.triggers |->
               FlattenSeq(First(About(entry, made.triggers[t].name), p - 1))
                 \o (IF t = FindTrigger(made, TextOf(pair[1])) THEN First(said, j) ELSE <<>>)]
  BY <1>8, <1>17, SMTT(30) DEF now, about
<1> HIDE DEF now
<1>19. AlternativesRead(root, made, i, p, j)
  BY <1>3, <1>15, <1>16, <1>18 DEF AlternativesRead, items, entry, pair, said, before
<1> QED
  BY <1>8, <1>9, <1>19, Zenon DEF made

\* There are no more things than they have different values in a finite set.
LEMMA FewerThanValues ==
  ASSUME NEW S, NEW T, IsFiniteSet(T), NEW f, f \in [S -> T],
         \A x, y \in S : f[x] = f[y] => x = y
  PROVE  IsFiniteSet(S) /\ Cardinality(S) <= Cardinality(T)
<1>1. f \in Injection(S, T)
  BY DEF Injection, IsInjective
<1> QED
  BY <1>1, FS_Injection

\* And no more values than there are things.
LEMMA FewerThanThings ==
  ASSUME NEW S, NEW T, IsFiniteSet(S), NEW f, f \in [S -> T], \A y \in T : \E x \in S : f[x] = y
  PROVE  IsFiniteSet(T) /\ Cardinality(T) <= Cardinality(S)
<1>1. f \in Surjection(S, T)
  BY DEF Surjection
<1> QED
  BY <1>1, FS_Surjection

\* An entry names finitely many triggers.
LEMMA TriggersAreFinite ==
  ASSUME NEW entry \in Node, Mapped(entry)
  PROVE  IsFiniteSet(TriggersOf(entry)) /\ Cardinality(TriggersOf(entry)) \in Nat
<1> DEFINE pairs == PairsOf(entry)
           names == [i \in 1 .. Len(pairs) |-> TextOf(pairs[i][1])]
<1>1. Len(pairs) \in Nat /\ DOMAIN pairs = 1 .. Len(pairs)
  BY EntrySays
<1>2. TriggersOf(entry) = {TextOf(pairs[i][1]) : i \in 1 .. Len(pairs)}
  BY <1>1 DEF TriggersOf
<1>3. names \in [1 .. Len(pairs) -> TriggersOf(entry)]
      /\ \A y \in TriggersOf(entry) : \E x \in 1 .. Len(pairs) : names[x] = y
  BY <1>2
<1>4. IsFiniteSet(1 .. Len(pairs))
  BY <1>1, FS_Interval
<1> HIDE DEF names
<1>5. IsFiniteSet(TriggersOf(entry))
  BY <1>3, <1>4, FewerThanThings
<1> QED
  BY <1>5, FS_CardinalityType

\* A state that could be linked to one trigger more has room for it.
LEMMA RoomIsLeft ==
  ASSUME NEW m, Building(m), NEW s \in DOMAIN m.states, NEW first \in DOMAIN m.triggers,
         NEW T, IsFiniteSet(T), Cardinality(T) <= kMaxTransitionsPerState,
         \A t \in DOMAIN m.states[s].transitions : m.triggers[t].name \in T,
         m.triggers[first].name \in T
  PROVE  RoomFor(m, s, first)
<1> DEFINE D == DOMAIN m.states[s].transitions
           S == D \cup {first}
           names == [t \in S |-> m.triggers[t].name]
<1>1. SUFFICES ASSUME first \notin D PROVE Cardinality(D) < kMaxTransitionsPerState
  BY DEF RoomFor
<1>2. Built(m, Conditions) /\ Sound(m, kMaxConditionsPerGuard)
  BY DEF Building
<1>3. IsFiniteSet(D) /\ \A t \in S : t \in DOMAIN m.triggers
  BY <1>2 DEF Built, Sound
<1>4. \A t \in DOMAIN m.triggers : FindTrigger(m, m.triggers[t].name) = t
  BY <1>2, Found
<1>5. names \in [S -> T] /\ \A x, y \in S : names[x] = names[y] => x = y
  <2>1. \A t \in S : m.triggers[t].name \in T
    OBVIOUS
  <2>2. ASSUME NEW x \in S, NEW y \in S, names[x] = names[y] PROVE x = y
    <3>1. m.triggers[x].name = m.triggers[y].name
      BY <2>2
    <3>2. FindTrigger(m, m.triggers[x].name) = x /\ FindTrigger(m, m.triggers[y].name) = y
      BY <1>3, <1>4
    <3> QED
      BY <3>1, <3>2
  <2> QED
    BY <2>1, <2>2
<1> HIDE DEF names, D
<1>6. Cardinality(S) <= Cardinality(T)
  <2> HIDE DEF S
  <2> QED
    BY <1>5, FewerThanValues
<1>7. Cardinality(S) = Cardinality(D) + 1
  BY <1>1, <1>3, FS_AddElement
<1>8. Cardinality(D) \in Nat /\ Cardinality(T) \in Nat
  BY <1>3, FS_CardinalityType
<1> QED
  BY <1>6, <1>7, <1>8, CapacityAssumption

\* What the pool must hold.
LEMMA PoolsFirst ==
  ASSUME NEW root \in Node, NEW n \in Nat,
         \A s \in 1 .. n : Entries(root, "states")[s] \in Node /\ Mapped(Entries(root, "states")[s])
  PROVE  /\ Pools(root, n) \in Seq(Seq(Read)) /\ Len(Pools(root, n)) = n
         /\ \A i \in 1 .. n :
              Len(FlattenSeq(Pools(root, i - 1))
                    \o FlattenSeq(GuardsOf(Entries(root, "states")[i]))) <= Len(FlattenSeq(Pools(root, n)))
<1> DEFINE items == Entries(root, "states")
           pool(s) == FlattenSeq(GuardsOf(items[s]))
           all == Pools(root, n)
<1>1. ASSUME NEW s \in 1 .. n PROVE pool(s) \in Seq(Read)
  <2>1. GuardsOf(items[s]) \in Seq(Seq(Read))
    BY EntrySays
  <2> QED
    BY <2>1, FlattenFirst
<1>2. \A k : Pools(root, k) = [s \in 1 .. k |-> pool(s)]
  BY DEF Pools
<1>3. all \in Seq(Seq(Read)) /\ Len(all) = n /\ \A s \in 1 .. n : all[s] = pool(s)
  <2> HIDE DEF pool
  <2>1. all = [s \in 1 .. n |-> pool(s)]
    BY <1>2
  <2> QED
    BY <1>1, <2>1
<1> HIDE DEF all
<1>4. ASSUME NEW i \in 1 .. n
      PROVE  Len(FlattenSeq(Pools(root, i - 1)) \o pool(i)) <= Len(FlattenSeq(all))
  <2>1. i \in Nat \ {0} /\ i \in 1 .. Len(all) /\ i \in 0 .. Len(all) /\ \A s \in 1 .. i : s \in 1 .. n
    BY <1>3
  <2>2. First(all, i) = Pools(root, i)
    <3> DEFINE a == First(all, i)
               b == Pools(root, i)
    <3>1. a \in Seq(Seq(Read)) /\ Len(a) = i /\ \A s \in 1 .. i : a[s] = all[s]
      BY <1>3, <2>1, SubSeqProperties DEF First
    <3>2. b \in Seq(Seq(Read)) /\ Len(b) = i /\ \A s \in 1 .. i : b[s] = pool(s)
      <4>1. b = [s \in 1 .. i |-> pool(s)]
        BY <1>2
      <4>2. \A s \in 1 .. i : pool(s) \in Seq(Read)
        BY <1>1, <2>1
      <4> HIDE DEF pool, b
      <4> QED
        BY <2>1, <4>1, <4>2
    <3> HIDE DEF a, b, pool
    <3>3. \A s \in 1 .. i : a[s] = b[s]
      BY <1>3, <2>1, <3>1, <3>2
    <3>4. a = b
      BY <3>1, <3>2, <3>3, SeqEqual
    <3> QED
      BY <3>4 DEF a, b
  <2>3. FlattenSeq(Pools(root, i)) = FlattenSeq(Pools(root, i - 1)) \o pool(i)
    BY <2>1, PoolsMore
  <2>4. Len(FlattenSeq(First(all, i))) <= Len(FlattenSeq(all))
    <3> HIDE DEF items
    <3> QED
      BY <1>3, <2>1, FlattenFirst
  <2> QED
    BY <2>2, <2>3, <2>4
<1> QED
  BY <1>3, <1>4 DEF all

\* What a document that is well formed says of a pair.
LEMMA PairsOfWellFormed ==
  ASSUME NEW root \in Node, MachineWellFormed(root), NEW items, items = Entries(root, "states"),
         items \in Seq(Nodes)
  PROVE  /\ \A i \in 1 .. Len(items) :
              /\ items[i] \in Node /\ Mapped(items[i])
              /\ TransitionsFit(items[i], NamesIn(root, "triggers"), NamesIn(root, "states"))
              /\ Cardinality(TriggersOf(items[i])) <= kMaxTransitionsPerState
              /\ \A trigger \in TriggersOf(items[i]) :
                   Len(AlternativesFor(items[i], trigger)) <= kMaxAlternatives
              /\ \A p \in 1 .. Len(PairsOf(items[i])) :
                   PairFits(PairsOf(items[i])[p], NamesIn(root, "triggers"), NamesIn(root, "states"))
         /\ Len(FlattenSeq(Pools(root, Len(items)))) <= kMaxConditions
<1>1. StatesFit(root) /\ DOMAIN items = 1 .. Len(items) /\ Len(items) \in Nat
  BY DEF MachineWellFormed
<1>2. ASSUME NEW i \in 1 .. Len(items)
      PROVE  /\ items[i] \in Node /\ Mapped(items[i])
             /\ TransitionsFit(items[i], NamesIn(root, "triggers"), NamesIn(root, "states"))
             /\ Cardinality(TriggersOf(items[i])) <= kMaxTransitionsPerState
             /\ \A trigger \in TriggersOf(items[i]) :
                  Len(AlternativesFor(items[i], trigger)) <= kMaxAlternatives
  <2>1. items[i] \in Node
    BY ElementOfSeq DEF Node
  <2>2. /\ TransitionsFit(items[i], NamesIn(root, "triggers"), NamesIn(root, "states"))
        /\ Cardinality(TriggersOf(items[i])) <= kMaxTransitionsPerState
        /\ \A trigger \in TriggersOf(items[i]) :
             Len(AlternativesFor(items[i], trigger)) <= kMaxAlternatives
    BY <1>1 DEF StatesFit
  <2> QED
    BY <2>1, <2>2, FitIsMapped
<1>3. ASSUME NEW i \in 1 .. Len(items), NEW p \in 1 .. Len(PairsOf(items[i]))
      PROVE  PairFits(PairsOf(items[i])[p], NamesIn(root, "triggers"), NamesIn(root, "states"))
  <2> DEFINE node == Child(items[i], "transitions")
  <2>1. PairsOf(items[i]) = IF Defined(node) THEN node.pairs ELSE <<>>
    BY DEF PairsOf
  <2>2. p \in DOMAIN PairsOf(items[i])
    BY <1>2, EntrySays
  <2>3. Defined(node)
    BY <2>1, <2>2
  <2> QED
    BY <1>2, <2>1, <2>2, <2>3 DEF TransitionsFit
<1>4. Len(FlattenSeq(Pools(root, Len(items)))) <= kMaxConditions
  <2>1. [i \in DOMAIN items |-> FlattenSeq(GuardsOf(items[i]))] = Pools(root, Len(items))
    BY <1>1 DEF Pools
  <2> QED
    BY <1>1, <2>1 DEF StatesFit
<1> QED
  BY <1>2, <1>3, <1>4

\* An alternative that fits is refused only for want of room, and then the document
\* has too much of something.
LEMMA AlternativeRefused ==
  ASSUME NEW root \in Node, NEW m, Building(m), AllRead(root, m),
         NEW i \in 1 .. Len(Entries(root, "states")),
         NEW p \in 1 .. Len(PairsOf(Entries(root, "states")[i])),
         NEW j \in 1 .. Len(Alternatives(PairsOf(Entries(root, "states")[i])[p][2])),
         AlternativesRead(root, m, i, p, j - 1),
         AlternativeFits(Alternatives(PairsOf(Entries(root, "states")[i])[p][2])[j], NamesIn(root, "states")),
         NEW answer,
         LET pair == PairsOf(Entries(root, "states")[i])[p]
             said == Alternatives(pair[2])[j] IN
         answer = AddTransition(m, i - 1, FindTrigger(m, TextOf(pair[1])),
                                FindState(m, TextOf(Child(said, "target"))), GuardIn(said)),
         answer.status # "Ok"
  PROVE  ~MachineWellFormed(root)
<1> SUFFICES ASSUME MachineWellFormed(root) PROVE FALSE
  OBVIOUS
<1> DEFINE items == Entries(root, "states")
           entry == items[i]
           pair  == PairsOf(entry)[p]
           said  == Alternatives(pair[2])
           name  == TextOf(Child(said[j], "target"))
           guard == GuardIn(said[j])
           first == FindTrigger(m, TextOf(pair[1]))
           about == FlattenSeq(First(About(entry, m.triggers[first].name), p - 1))
           pools == FlattenSeq(Pools(root, i - 1))
           before == FlattenSeq(First(GuardsOf(entry), p - 1))
           read   == FlattenSeq(First(GuardsIn(said), j - 1))
<1>1. /\ entry \in Node /\ Mapped(entry)
      /\ i - 1 \in DOMAIN m.states /\ first \in DOMAIN m.triggers
      /\ FindState(m, name) \in DOMAIN m.states
      /\ m.triggers[first].name = TextOf(pair[1]) /\ TextOf(pair[1]) \in TriggersOf(entry)
      /\ guard \in Seq(Read) /\ pools \in Seq(Read)
      /\ First(said, j - 1) \in Seq(Choice) /\ Len(First(said, j - 1)) = j - 1
      /\ FlattenSeq(First(GuardsIn(said), j)) = read \o guard /\ read \in Seq(Read)
      /\ about \in Seq(Choice)
      /\ Says(m, i - 1, first) = Spelt(about \o First(said, j - 1))
      /\ m.conditions = pools \o (before \o read)
  BY AlternativeComes, Zenon
<1>2. items \in Seq(Nodes) /\ Len(items) \in Nat
  BY NamesAreFound
<1>3. /\ \A s \in 1 .. Len(items) : items[s] \in Node /\ Mapped(items[s])
      /\ Cardinality(TriggersOf(entry)) <= kMaxTransitionsPerState
      /\ \A trigger \in TriggersOf(entry) : Len(AlternativesFor(entry, trigger)) <= kMaxAlternatives
      /\ Len(FlattenSeq(Pools(root, Len(items)))) <= kMaxConditions
  BY <1>2, PairsOfWellFormed
<1>4. Built(m, Conditions)
  BY DEF Building
<1>5. /\ said \in Seq(Choice) /\ Len(said) \in Nat
      /\ GuardsIn(said) \in Seq(Seq(Read)) /\ Len(GuardsIn(said)) = Len(said)
      /\ before \in Seq(Read) /\ FlattenSeq(GuardsIn(said)) \in Seq(Read)
      /\ FlattenSeq(First(GuardsOf(entry), p)) = before \o FlattenSeq(GuardsIn(said))
      /\ FlattenSeq(First(About(entry, TextOf(pair[1])), p))
           = FlattenSeq(First(About(entry, TextOf(pair[1])), p - 1)) \o said
  <2>1. /\ said \in Seq(Choice) /\ Len(said) \in Nat
        /\ GuardsIn(said) \in Seq(Seq(Read)) /\ Len(GuardsIn(said)) = Len(said)
        /\ before \in Seq(Read) /\ FlattenSeq(GuardsIn(said)) \in Seq(Read)
        /\ FlattenSeq(First(GuardsOf(entry), p)) = before \o FlattenSeq(GuardsIn(said))
        /\ \A text : FlattenSeq(First(About(entry, text), p))
                       = FlattenSeq(First(About(entry, text), p - 1))
                           \o (IF TextOf(pair[1]) = text THEN said ELSE <<>>)
    BY <1>1, PairAt, ZenonT(60)
  <2> HIDE DEF entry, pair, said, before
  <2>2. FlattenSeq(First(About(entry, TextOf(pair[1])), p))
           = FlattenSeq(First(About(entry, TextOf(pair[1])), p - 1)) \o said
    BY <2>1, Zenon
  <2> QED
    BY <2>1, <2>2
<1>6. /\ GuardsOf(entry) \in Seq(Seq(Read)) /\ Len(GuardsOf(entry)) = Len(PairsOf(entry))
      /\ \A text : About(entry, text) \in Seq(Seq(Choice)) /\ Len(About(entry, text)) = Len(PairsOf(entry))
      /\ Len(PairsOf(entry)) \in Nat
  BY <1>1, EntrySays, Zenon
<1>7. /\ answer = AddTransition(m, i - 1, first, FindState(m, name), guard) /\ answer.status # "Ok"
      /\ i \in 1 .. Len(items) /\ p \in 1 .. Len(PairsOf(entry)) /\ j \in 1 .. Len(said)
  OBVIOUS
<1>8. \A t \in DOMAIN m.triggers : t \in DOMAIN m.states[i - 1].transitions
                                     => m.triggers[t].name \in TriggersOf(entry)
  BY DEF AlternativesRead, Linked
<1> HIDE DEF items, entry, pair, said, name, guard, first, about, pools, before, read
<1>9. ~(Len(m.conditions) + Len(guard) > kMaxConditions)
  <2> DEFINE all == FlattenSeq(GuardsIn(said))
             own == FlattenSeq(GuardsOf(entry))
  <2>1. Len(pools \o own) <= Len(FlattenSeq(Pools(root, Len(items))))
        /\ Pools(root, Len(items)) \in Seq(Seq(Read))
    BY <1>2, <1>3, <1>7, PoolsFirst DEF items, pools, entry
  <2>2. FlattenSeq(Pools(root, Len(items))) \in Seq(Read)
    BY <2>1, FlattenFirst
  <2>3. own \in Seq(Read) /\ Len(before \o all) <= Len(own)
    <3> DEFINE guards == GuardsOf(entry)
    <3>1. guards \in Seq(Seq(Read)) /\ p \in 0 .. Len(guards)
      BY <1>6, <1>7
    <3> HIDE DEF guards
    <3>2. FlattenSeq(guards) \in Seq(Read) /\ Len(FlattenSeq(First(guards, p))) <= Len(FlattenSeq(guards))
      BY <3>1, FlattenFirst
    <3> QED
      BY <1>5, <3>2 DEF guards
  <2>4. all \in Seq(Read) /\ Len(read \o guard) <= Len(all)
    <3> DEFINE guards == GuardsIn(said)
    <3>1. guards \in Seq(Seq(Read)) /\ j \in 0 .. Len(guards)
      BY <1>5, <1>7
    <3> HIDE DEF guards
    <3>2. FlattenSeq(guards) \in Seq(Read) /\ Len(FlattenSeq(First(guards, j))) <= Len(FlattenSeq(guards))
      BY <3>1, FlattenFirst
    <3> QED
      BY <1>1, <3>2 DEF guards
  <2> HIDE DEF all, own
  <2>5. /\ Len(pools) \in Nat /\ Len(own) \in Nat /\ Len(before) \in Nat /\ Len(all) \in Nat
        /\ Len(read) \in Nat /\ Len(guard) \in Nat /\ Len(FlattenSeq(Pools(root, Len(items)))) \in Nat
        /\ Len(pools \o own) = Len(pools) + Len(own) /\ Len(before \o all) = Len(before) + Len(all)
        /\ Len(read \o guard) = Len(read) + Len(guard)
    <3>1. /\ pools \in Seq(Read) /\ own \in Seq(Read) /\ before \in Seq(Read) /\ all \in Seq(Read)
          /\ read \in Seq(Read) /\ guard \in Seq(Read)
          /\ FlattenSeq(Pools(root, Len(items))) \in Seq(Read)
      BY <1>1, <1>5, <2>2, <2>3, <2>4
    <3>2. /\ Len(pools) \in Nat /\ Len(own) \in Nat /\ Len(before) \in Nat /\ Len(all) \in Nat
          /\ Len(read) \in Nat /\ Len(guard) \in Nat /\ Len(FlattenSeq(Pools(root, Len(items)))) \in Nat
      BY ONLY <3>1
    <3>3. /\ Len(pools \o own) = Len(pools) + Len(own) /\ Len(before \o all) = Len(before) + Len(all)
          /\ Len(read \o guard) = Len(read) + Len(guard)
      BY ONLY <3>1, ConcatProperties
    <3> QED
      BY <3>2, <3>3
  <2>6. before \o read \in Seq(Read) /\ Len(before \o read) = Len(before) + Len(read)
    BY <1>1, <1>5, ConcatProperties
  <2>7. Len(m.conditions) = Len(pools) + (Len(before) + Len(read))
    BY <1>1, <2>6, ConcatProperties
  <2> QED
    BY <1>3, <2>1, <2>3, <2>4, <2>5, <2>7, CapacityAssumption
<1>10. RoomFor(m, i - 1, first)
  <2>1. IsFiniteSet(TriggersOf(entry))
    BY <1>1, TriggersAreFinite
  <2>2. \A t \in DOMAIN m.states[i - 1].transitions : t \in DOMAIN m.triggers
    BY <1>1 DEF Building, Sound
  <2>3. \A t \in DOMAIN m.states[i - 1].transitions : m.triggers[t].name \in TriggersOf(entry)
    BY <1>8, <2>2
  <2> DEFINE s == i - 1
             T == TriggersOf(entry)
  <2>4. /\ s \in DOMAIN m.states /\ IsFiniteSet(T) /\ Cardinality(T) <= kMaxTransitionsPerState
        /\ \A t \in DOMAIN m.states[s].transitions : m.triggers[t].name \in T
        /\ m.triggers[first].name \in T
    BY <1>1, <1>3, <2>1, <2>3
  <2> HIDE DEF s, T
  <2>5. RoomFor(m, s, first)
    BY <1>1, <2>4, RoomIsLeft
  <2> QED
    BY <2>5 DEF s
<1>11. ~(Len(ListedFor(m, i - 1, first)) >= kMaxAlternatives)
  <2> DEFINE text == TextOf(pair[1])
             upto == First(said, j - 1)
             list == ListedFor(m, i - 1, first)
  <2>1. Len(about \o said) <= Len(AlternativesFor(entry, text)) /\ AlternativesFor(entry, text) \in Seq(Choice)
    <3> DEFINE says == About(entry, text)
    <3>1. says \in Seq(Seq(Choice)) /\ p \in 0 .. Len(says)
      BY <1>6, <1>7, SMTT(30)
    <3> HIDE DEF says, text
    <3>2. FlattenSeq(says) \in Seq(Choice) /\ Len(FlattenSeq(First(says, p))) <= Len(FlattenSeq(says))
      BY <3>1, FlattenFirst
    <3>3. about = FlattenSeq(First(says, p - 1))
      BY <1>1 DEF about, says, text
    <3>4. FlattenSeq(First(says, p)) = about \o said
      BY <1>5, <3>3 DEF says, text
    <3> QED
      BY <3>2, <3>4 DEF says, AlternativesFor
  <2>2. Len(AlternativesFor(entry, text)) <= kMaxAlternatives
    BY <1>1, <1>3
  <2>3. list = <<>> \/ list \in Seq(Alternative)
    BY <1>1, <1>4 DEF ListedFor, Lookup, Built, WithinCapacities, WellTyped
  <2>4. Len(list) \in Nat /\ DOMAIN list = 1 .. Len(list)
    BY <2>3
  <2>5. Len(Says(m, i - 1, first)) = Len(list)
    <3> DEFINE said2(a) == [target |-> StateName(m, a.target), guard |-> GuardOf(m, a)]
    <3>1. Says(m, i - 1, first) = [k \in DOMAIN list |-> said2(list[k])]
      BY DEF Says, ListedFor
    <3> HIDE DEF said2, list
    <3> QED
      BY <2>4, <3>1
  <2> HIDE DEF list, text
  <2>6. about \o upto \in Seq(Choice) /\ Len(about \o upto) = Len(about) + Len(upto)
        /\ Len(about \o said) = Len(about) + Len(said) /\ Len(about) \in Nat /\ Len(upto) = j - 1
    BY <1>1, <1>5, ConcatProperties
  <2> DEFINE more == said[j]
             so   == about \o upto
  <2>7. more \in Choice /\ so \in Seq(Choice)
    BY <1>5, <1>7, <2>6
  <2> HIDE DEF more, so
  <2>8. Len(Spelt(so)) = Len(so)
    BY <2>7, SpeltMore
  <2>9. Len(list) = Len(about) + (j - 1)
    BY <1>1, <2>5, <2>6, <2>8 DEF so
  <2>10. Len(AlternativesFor(entry, text)) \in Nat /\ j \in Nat /\ j <= Len(said)
    BY <1>5, <1>7, <2>1
  <2> QED
    <3> DEFINE most == Len(AlternativesFor(entry, text))
               l    == Len(list)
               a    == Len(about)
               b    == Len(said)
    <3>1. /\ l \in Nat /\ a \in Nat /\ b \in Nat /\ most \in Nat /\ j \in Nat /\ j <= b
          /\ l = a + (j - 1) /\ a + b <= most /\ most <= kMaxAlternatives /\ kMaxAlternatives \in Nat
      BY <1>5, <2>1, <2>2, <2>4, <2>6, <2>9, <2>10, CapacityAssumption
    <3> HIDE DEF most, l, a, b
    <3>2. ~(l >= kMaxAlternatives)
      BY ONLY <3>1
    <3> QED
      BY <3>2 DEF l, list
<1>12. answer.status = "Ok"
  <2> DEFINE s  == i - 1
             to == FindState(m, name)
  <2>1. /\ s \in DOMAIN m.states /\ to \in DOMAIN m.states /\ first \in DOMAIN m.triggers
        /\ ~(Len(m.conditions) + Len(guard) > kMaxConditions) /\ RoomFor(m, s, first)
        /\ ~(Len(ListedFor(m, s, first)) >= kMaxAlternatives)
    BY <1>1, <1>9, <1>10, <1>11
  <2> HIDE DEF s, to
  <2>2. AddTransition(m, s, first, to, guard).status = "Ok"
    BY ONLY <1>4, <2>1, TransitionFits
  <2> QED
    BY <1>7, <2>2 DEF s, to
<1> QED
  BY <1>7, <1>12

-----------------------------------------------------------------------------
(* How far a machine file is read: what is left to do, and what is built.   *)

\* The turns for the pairs of an entry.
PairParts(entry, from) ==
  [p \in 1 .. Len(PairsOf(entry)) |->
     [what |-> "pair", node |-> PairsOf(entry)[p][2], key |-> PairsOf(entry)[p][1],
      from |-> from, trigger |-> kNoTrigger]]

\* And for the alternatives of a pair.
Turns(node, from, trigger) ==
  LET alternatives == AlternativesIn(node) IN
  [j \in 1 .. Len(alternatives) |->
     [alternatives[j] EXCEPT !.from = from, !.trigger = trigger]]

\* In the first passes, what is left of a machine file tells what m has of it.
DeclaringAt(root, m, rest) ==
  LET triggers == Child(root, "triggers")
      states   == Child(root, "states") IN
  \/ rest = <<Part("root", root)>> /\ m = EmptyModel
  \/ /\ MachineRootStatus(root) = "Ok"
     /\ \/ rest = <<Part("triggers", triggers), Part("states", states)>> /\ m = EmptyModel
        \/ \E k \in 0 .. Len(triggers.items) :
             /\ rest = From(Parts("trigger", triggers.items), k) \o <<Part("states", states)>>
             /\ TriggersRead(root, m, k) /\ m.states = EmptyFunction /\ m.conditions = <<>>
        \/ /\ TriggersRead(root, m, Len(triggers.items))
           /\ \E k \in 0 .. Len(states.items) - 1 :
                /\ rest = From(Parts("state", states.items), k) \o Parts("links", states.items)
                /\ StatesRead(root, m, k) /\ Unlinked(m)

\* And in the last pass: between two entries, two pairs, or two alternatives.
LinkingAt(root, m, rest) ==
  LET items == Entries(root, "states")
      links == Parts("links", items) IN
  /\ AllRead(root, m)
  /\ \/ \E i \in 1 .. Len(items) + 1 : rest = From(links, i - 1) /\ LinksRead(root, m, i)
     \/ \E i \in 1 .. Len(items) : \E p \in 1 .. Len(PairsOf(items[i])) :
          \/ /\ rest = From(PairParts(items[i], i - 1), p - 1) \o From(links, i)
             /\ PairsRead(root, m, i, p - 1)
          \/ LET pair == PairsOf(items[i])[p] IN
             \E j \in 1 .. Len(Alternatives(pair[2])) :
               /\ rest = From(Turns(pair[2], i - 1, FindTrigger(m, TextOf(pair[1]))), j - 1)
                           \o (From(PairParts(items[i], i - 1), p) \o From(links, i))
               /\ AlternativesRead(root, m, i, p, j - 1)

\* Going through what is left of a sequence, with nothing behind it.
LEMMA FromAlone ==
  ASSUME NEW X, NEW s \in Seq(X)
  PROVE  /\ From(s, Len(s)) = <<>>
         /\ \A k \in 0 .. Len(s) : From(s, k) \in Seq(X)
         /\ \A k \in 0 .. Len(s) - 1 :
              /\ From(s, k) # <<>> /\ Head(From(s, k)) = s[k + 1]
              /\ Tail(From(s, k)) = From(s, k + 1)
<1>1. <<>> \in Seq(X) /\ Len(s) \in Nat
  OBVIOUS
<1>2. \A k \in 0 .. Len(s) : From(s, k) \in Seq(X) /\ From(s, k) \o <<>> = From(s, k)
  BY <1>1, FromMore, ConcatEmptySeq
<1>3. From(s, Len(s)) = <<>>
  <2>1. Len(s) \in 0 .. Len(s)
    BY <1>1
  <2>2. From(s, Len(s)) \o <<>> = <<>>
    BY <1>1, FromMore
  <2> QED
    BY <1>2, <2>1, <2>2
<1>4. ASSUME NEW k \in 0 .. Len(s) - 1
      PROVE  From(s, k) # <<>> /\ Head(From(s, k)) = s[k + 1] /\ Tail(From(s, k)) = From(s, k + 1)
  <2>1. k + 1 \in 0 .. Len(s) /\ k \in 0 .. Len(s)
    BY <1>1, <1>4
  <2>3. /\ From(s, k) \o <<>> # <<>> /\ Head(From(s, k) \o <<>>) = s[k + 1]
        /\ Tail(From(s, k) \o <<>>) = From(s, k + 1) \o <<>>
    BY <1>1, <1>4, FromOn
  <2> QED
    BY <1>2, <2>1, <2>3
<1> QED
  BY <1>2, <1>3, <1>4

\* The turns for some nodes.
LEMMA PartsAre ==
  ASSUME NEW what \in {"trigger", "state", "links"}, NEW nodes \in Seq(Nodes)
  PROVE  /\ Parts(what, nodes) \in Seq(MachinePart) /\ Len(Parts(what, nodes)) = Len(nodes)
         /\ \A i \in 1 .. Len(nodes) : /\ Parts(what, nodes)[i].what = what
                                       /\ Parts(what, nodes)[i].node = nodes[i]
<1>1. nodes \in Seq(Node) /\ Len(nodes) \in Nat
  BY DEF Node
<1>2. Parts(what, nodes) \in Seq(MachinePart)
  BY <1>1, PartsArePart
<1>3. Parts(what, nodes) = [i \in 1 .. Len(nodes) |-> Part(what, nodes[i])]
  BY DEF Parts
<1>4. \A node : Part(what, node).what = what /\ Part(what, node).node = node
  BY DEF Part
<1> QED
  BY <1>1, <1>2, <1>3, <1>4

\* The turns for the pairs of an entry keep the state they lead from.
LEMMA PairPartsAre ==
  ASSUME NEW entry \in Node, Mapped(entry), NEW from \in Nat
  PROVE  LET pairs == PairsOf(entry)
             parts == PairParts(entry, from) IN
         /\ parts \in Seq(MachinePart) /\ Len(parts) = Len(pairs)
         /\ \A p \in 1 .. Len(pairs) :
              /\ parts[p].what = "pair" /\ parts[p].from = from
              /\ parts[p].key = pairs[p][1] /\ parts[p].node = pairs[p][2]
<1> DEFINE pairs == PairsOf(entry)
           part(p) == [what |-> "pair", node |-> pairs[p][2], key |-> pairs[p][1],
                       from |-> from, trigger |-> kNoTrigger]
<1>1. Len(pairs) \in Nat /\ \A p \in 1 .. Len(pairs) : pairs[p][1] \in Nodes /\ pairs[p][2] \in Nodes
  BY EntrySays
<1> HIDE DEF pairs
<1>2. \A p \in 1 .. Len(pairs) : part(p) \in MachinePart
  BY <1>1 DEF MachinePart, Node, kNoTrigger
<1>3. PairParts(entry, from) = [p \in 1 .. Len(pairs) |-> part(p)]
  BY DEF PairParts, pairs
<1>4. \A p \in 1 .. Len(pairs) : /\ part(p).what = "pair" /\ part(p).from = from
                                /\ part(p).key = pairs[p][1] /\ part(p).node = pairs[p][2]
  OBVIOUS
<1> HIDE DEF part
<1>5. PairParts(entry, from) \in Seq(MachinePart) /\ Len(PairParts(entry, from)) = Len(pairs)
      /\ \A p \in 1 .. Len(pairs) : PairParts(entry, from)[p] = part(p)
  BY <1>1, <1>2, <1>3
<1> QED
  BY <1>4, <1>5 DEF pairs

\* Those for alternatives keep the trigger too.
LEMMA TurnsAre ==
  ASSUME NEW node \in Nodes, Alternatives(node) # <<>>, NEW from \in Nat, NEW trigger \in Nat
  PROVE  LET said  == Alternatives(node)
             parts == Turns(node, from, trigger) IN
         /\ parts \in Seq(MachinePart) /\ Len(parts) = Len(said)
         /\ \A j \in 1 .. Len(said) :
              /\ parts[j].from = from /\ parts[j].trigger = trigger
              /\ \/ parts[j].what = "alternative" /\ parts[j].node = said[j]
                 \/ parts[j].what = "plain" /\ Readable(parts[j].node) /\ said[j] = Bare(parts[j].node)
<1> DEFINE said == Alternatives(node)
           alternatives == AlternativesIn(node)
           part(j) == [alternatives[j] EXCEPT !.from = from, !.trigger = trigger]
<1>1. /\ said \in Seq(Choice) /\ Len(alternatives) = Len(said)
      /\ \A j \in 1 .. Len(said) :
           \/ alternatives[j] = Part("alternative", said[j]) /\ said[j] \in Node
           \/ \E text \in Node : alternatives[j] = Part("plain", text) /\ said[j] = Bare(text) /\ Readable(text)
  BY PairSays
<1>2. Len(said) \in Nat
  BY <1>1
<1>3. Turns(node, from, trigger) = [j \in 1 .. Len(said) |-> part(j)]
  BY <1>1 DEF Turns
<1> HIDE DEF said, alternatives
<1>4. ASSUME NEW what, NEW any
      PROVE  [Part(what, any) EXCEPT !.from = from, !.trigger = trigger]
               = [what |-> what, node |-> any, key |-> Absent, from |-> from, trigger |-> trigger]
  <2> DEFINE was == Part(what, any)
             now == [was EXCEPT !.from = from, !.trigger = trigger]
  <2>1. was = [what |-> what, node |-> any, key |-> Absent, from |-> kNoState, trigger |-> kNoTrigger]
    BY DEF Part
  <2> HIDE DEF was
  <2>2. DOMAIN was = {"what", "node", "key", "from", "trigger"} /\ was.what = what /\ was.node = any
        /\ was.key = Absent
    BY <2>1
  <2>3. /\ now = [f \in {"what", "node", "key", "from", "trigger"} |-> now[f]]
        /\ now.what = what /\ now.node = any /\ now.key = Absent /\ now.from = from
        /\ now.trigger = trigger
    BY <2>2
  <2> HIDE DEF now
  <2>4. now = [what |-> what, node |-> any, key |-> Absent, from |-> from, trigger |-> trigger]
    BY <2>3
  <2> QED
    BY <2>4 DEF now, was
<1>5. ASSUME NEW j \in 1 .. Len(said)
      PROVE  /\ part(j) \in MachinePart /\ part(j).from = from /\ part(j).trigger = trigger
             /\ \/ part(j).what = "alternative" /\ part(j).node = said[j]
                \/ part(j).what = "plain" /\ Readable(part(j).node) /\ said[j] = Bare(part(j).node)
  <2>1. CASE alternatives[j] = Part("alternative", said[j]) /\ said[j] \in Node
    <3>1. part(j) = [what |-> "alternative", node |-> said[j], key |-> Absent, from |-> from, trigger |-> trigger]
      BY <1>4, <2>1
    <3> HIDE DEF part
    <3> QED
      BY <2>1, <3>1 DEF MachinePart, Node
  <2>2. CASE \E text \in Node : alternatives[j] = Part("plain", text) /\ said[j] = Bare(text) /\ Readable(text)
    <3>1. PICK text \in Node : alternatives[j] = Part("plain", text) /\ said[j] = Bare(text) /\ Readable(text)
      BY <2>2
    <3>2. part(j) = [what |-> "plain", node |-> text, key |-> Absent, from |-> from, trigger |-> trigger]
      BY <1>4, <3>1
    <3> HIDE DEF part
    <3> QED
      BY <3>1, <3>2 DEF MachinePart, Node
  <2> QED
    BY <1>1, <2>1, <2>2
<1> HIDE DEF part
<1>6. /\ Turns(node, from, trigger) \in Seq(MachinePart) /\ Len(Turns(node, from, trigger)) = Len(said)
      /\ \A j \in 1 .. Len(said) : Turns(node, from, trigger)[j] = part(j)
  BY <1>2, <1>3, <1>5
<1> QED
  BY <1>5, <1>6 DEF said

\* What the last pass goes through.
LEMMA LinksLeft ==
  ASSUME NEW root \in Node, NEW m, Building(m), AllRead(root, m)
  PROVE  LET items == Entries(root, "states")
             links == Parts("links", items) IN
         /\ items \in Seq(Nodes) /\ Len(items) \in Nat
         /\ links \in Seq(MachinePart) /\ Len(links) = Len(items)
         /\ \A i \in 1 .. Len(items) : /\ i - 1 \in Nat /\ items[i] \in Node
                                       /\ links[i].what = "links" /\ links[i].node = items[i]
         /\ \A i \in 0 .. Len(items) : From(links, i) \in Seq(MachinePart)
<1> DEFINE items == Entries(root, "states")
           links == Parts("links", items)
<1>1. items \in Seq(Nodes) /\ Len(items) \in Nat
  BY NamesAreFound
<1> HIDE DEF items
<1>2. /\ links \in Seq(MachinePart) /\ Len(links) = Len(items)
      /\ \A i \in 1 .. Len(items) : links[i].what = "links" /\ links[i].node = items[i]
  BY <1>1, PartsAre
<1> HIDE DEF links
<1>3. \A i \in 1 .. Len(items) : i - 1 \in Nat /\ items[i] \in Node
  BY <1>1, ElementOfSeq DEF Node
<1>4. \A i \in 0 .. Len(items) : From(links, i) \in Seq(MachinePart)
  BY <1>2, FromAlone
<1> QED
  BY <1>1, <1>2, <1>3, <1>4 DEF items, links

\* An entry is gone through, or the next one comes.
LEMMA PairsNext ==
  ASSUME NEW root \in Node, NEW m, Building(m), AllRead(root, m),
         NEW i \in 1 .. Len(Entries(root, "states")),
         NEW p \in 0 .. Len(PairsOf(Entries(root, "states")[i])), PairsRead(root, m, i, p),
         NEW rest, rest = From(PairParts(Entries(root, "states")[i], i - 1), p)
                            \o From(Parts("links", Entries(root, "states")), i)
  PROVE  LinkingAt(root, m, rest)
<1> DEFINE items == Entries(root, "states")
           entry == items[i]
           links == Parts("links", items)
           pairs == PairParts(entry, i - 1)
<1>1. /\ entry \in Node /\ i - 1 \in Nat /\ Len(items) \in Nat /\ i \in 1 .. Len(items)
      /\ From(links, i) \in Seq(MachinePart)
  BY LinksLeft
<1>2. Mapped(entry)
  BY DEF PairsRead, PairsFit
<1>3. pairs \in Seq(MachinePart) /\ Len(pairs) = Len(PairsOf(entry)) /\ Len(PairsOf(entry)) \in Nat
  <2>1. Len(PairsOf(entry)) \in Nat
    BY <1>1, <1>2, EntrySays
  <2> HIDE DEF entry
  <2> QED
    BY <1>1, <1>2, <2>1, PairPartsAre
<1>4. CASE p = Len(PairsOf(entry))
  <2>1. LinksRead(root, m, i + 1)
    BY <1>4, PairsEnd
  <2>2. From(pairs, p) \o From(links, i) = From(links, i)
    <3> DEFINE r == From(links, i)
    <3> HIDE DEF pairs, r
    <3>1. p = Len(pairs) /\ r \in Seq(MachinePart)
      BY <1>1, <1>3, <1>4 DEF r
    <3>2. From(pairs, p) \o r = r
      BY <1>3, <3>1, FromMore
    <3> QED
      BY <3>2 DEF r
  <2>3. PICK n \in 1 .. Len(items) + 1 : n = i + 1 /\ n - 1 = i
    BY <1>1
  <2>4. rest = From(links, n - 1) /\ LinksRead(root, m, n)
    BY <2>1, <2>2, <2>3
  <2> HIDE DEF pairs
  <2> QED
    BY <2>4 DEF LinkingAt
<1>5. CASE p # Len(PairsOf(entry))
  <2>1. PICK n \in 1 .. Len(PairsOf(entry)) : n = p + 1 /\ n - 1 = p
    BY <1>3, <1>5
  <2>2. rest = From(pairs, n - 1) \o From(links, i) /\ PairsRead(root, m, i, n - 1)
    BY <2>1
  <2> QED
    BY <2>2 DEF LinkingAt
<1> QED
  BY <1>4, <1>5

\* A pair is gone through, or the next one comes.
LEMMA AlternativesNext ==
  ASSUME NEW root \in Node, NEW m, Building(m), AllRead(root, m),
         NEW i \in 1 .. Len(Entries(root, "states")),
         NEW p \in 1 .. Len(PairsOf(Entries(root, "states")[i])),
         NEW j \in 0 .. Len(Alternatives(PairsOf(Entries(root, "states")[i])[p][2])),
         AlternativesRead(root, m, i, p, j),
         NEW rest,
         LET pair == PairsOf(Entries(root, "states")[i])[p] IN
         rest = From(Turns(pair[2], i - 1, FindTrigger(m, TextOf(pair[1]))), j)
                  \o (From(PairParts(Entries(root, "states")[i], i - 1), p)
                        \o From(Parts("links", Entries(root, "states")), i))
  PROVE  LinkingAt(root, m, rest)
<1> DEFINE items == Entries(root, "states")
           entry == items[i]
           pair  == PairsOf(entry)[p]
           said  == Alternatives(pair[2])
           links == Parts("links", items)
           pairs == PairParts(entry, i - 1)
           turns == Turns(pair[2], i - 1, FindTrigger(m, TextOf(pair[1])))
           after == From(pairs, p) \o From(links, i)
<1>1. /\ entry \in Node /\ i - 1 \in Nat /\ From(links, i) \in Seq(MachinePart)
  BY LinksLeft
<1>2. Mapped(entry) /\ said # <<>>
  BY DEF AlternativesRead, PairsFit
<1>3. Len(PairsOf(entry)) \in Nat /\ p \in 1 .. Len(PairsOf(entry)) /\ pair[2] \in Nodes
  BY <1>1, <1>2, EntrySays
<1>4. pairs \in Seq(MachinePart) /\ Len(pairs) = Len(PairsOf(entry))
  <2> HIDE DEF entry
  <2> QED
    BY <1>1, <1>2, PairPartsAre
<1>5. turns \in Seq(MachinePart) /\ Len(turns) = Len(said) /\ Len(said) \in Nat
  <2>1. FindTrigger(m, TextOf(pair[1])) \in Nat
    BY IdsAreNaturals DEF Building
  <2>2. Len(said) \in Nat
    BY <1>1, <1>2, <1>3, PairAt
  <2> HIDE DEF pair
  <2> QED
    BY <1>1, <1>2, <1>3, <2>1, <2>2, TurnsAre
<1>6. after \in Seq(MachinePart)
  <2> HIDE DEF pairs, links
  <2>1. p \in 0 .. Len(pairs)
    BY <1>3, <1>4
  <2>2. From(pairs, p) \in Seq(MachinePart)
    BY <1>4, <2>1, FromAlone
  <2> QED
    BY <1>1, <2>2, ConcatProperties
<1>7. CASE j = Len(said)
  <2>1. PairsRead(root, m, i, p)
    BY <1>7, AlternativesEnd
  <2>2. From(turns, j) \o after = after
    <3> HIDE DEF turns, after
    <3>1. j = Len(turns)
      BY <1>5, <1>7
    <3> QED
      BY <1>5, <1>6, <3>1, FromMore
  <2>3. rest = after /\ p \in 0 .. Len(PairsOf(entry))
    <3>1. p \in 0 .. Len(PairsOf(entry))
      BY <1>3
    <3>2. rest = From(turns, j) \o after
      OBVIOUS
    <3> QED
      BY <2>2, <3>1, <3>2, Zenon
  <2> HIDE DEF turns
  <2> QED
    BY <2>1, <2>3, PairsNext
<1>8. CASE j # Len(said)
  <2>1. PICK n \in 1 .. Len(said) : n = j + 1 /\ n - 1 = j
    BY <1>5, <1>8
  <2>2. rest = From(turns, n - 1) \o after /\ AlternativesRead(root, m, i, p, n - 1)
    BY <2>1
  <2> QED
    BY <2>2, Zenon DEF LinkingAt
<1> QED
  BY <1>7, <1>8

\* A part of the last pass, and what is built when it comes.
LinkingPart(root, m, what) ==
  LET items == Entries(root, "states")
      links == Parts("links", items) IN
  /\ AllRead(root, m)
  /\ \/ /\ what = "links"
        /\ \E i \in 1 .. Len(items) : /\ Head(todo).node = items[i] /\ Tail(todo) = From(links, i)
                                      /\ LinksRead(root, m, i)
     \/ \E i \in 1 .. Len(items) : \E p \in 1 .. Len(PairsOf(items[i])) :
          LET pair == PairsOf(items[i])[p]
              after == From(PairParts(items[i], i - 1), p) \o From(links, i)
              turns == Turns(pair[2], i - 1, FindTrigger(m, TextOf(pair[1]))) IN
          \/ /\ what = "pair"
             /\ Head(todo).node = pair[2] /\ Head(todo).key = pair[1] /\ Head(todo).from = i - 1
             /\ Tail(todo) = after /\ PairsRead(root, m, i, p - 1)
          \/ \E j \in 1 .. Len(Alternatives(pair[2])) :
               /\ Head(todo).from = i - 1 /\ Head(todo).trigger = FindTrigger(m, TextOf(pair[1]))
               /\ \/ what = "alternative" /\ Head(todo).node = Alternatives(pair[2])[j]
                  \/ /\ what = "plain" /\ Readable(Head(todo).node)
                     /\ Alternatives(pair[2])[j] = Bare(Head(todo).node)
               /\ Tail(todo) = From(turns, j) \o after /\ AlternativesRead(root, m, i, p, j - 1)

\* Which part of the last pass it is that comes.
LEMMA LinkingComes ==
  ASSUME NEW root \in Node, NEW m, Building(m), LinkingAt(root, m, todo), NEW what, Comes(what)
  PROVE  LinkingPart(root, m, what)
<1> DEFINE items == Entries(root, "states")
           links == Parts("links", items)
<1>1. /\ AllRead(root, m) /\ todo # <<>> /\ Head(todo).what = what
  BY DEF LinkingAt, Comes
<1>2. /\ items \in Seq(Nodes) /\ Len(items) \in Nat
      /\ links \in Seq(MachinePart) /\ Len(links) = Len(items)
      /\ \A i \in 1 .. Len(items) : /\ i - 1 \in Nat /\ items[i] \in Node
                                    /\ links[i].what = "links" /\ links[i].node = items[i]
      /\ \A i \in 0 .. Len(items) : From(links, i) \in Seq(MachinePart)
  BY <1>1, LinksLeft
<1>3. ASSUME NEW i \in 1 .. Len(items) + 1, todo = From(links, i - 1)
      PROVE  /\ what = "links" /\ i \in 1 .. Len(items)
             /\ Head(todo).node = items[i] /\ Tail(todo) = From(links, i)
  <2> DEFINE k == i - 1
  <2> HIDE DEF links
  <2>1. k \in 0 .. Len(links) /\ i = k + 1
    BY <1>2
  <2> HIDE DEF k
  <2>2. todo = From(links, k)
    BY <1>3 DEF k
  <2>3. k \in 0 .. Len(links) - 1
    <3>1. From(links, Len(links)) = <<>>
      BY <1>2, FromAlone
    <3>2. k # Len(links)
      BY <1>1, <2>2, <3>1
    <3> QED
      BY <1>2, <2>1, <3>2
  <2>4. Head(todo) = links[k + 1] /\ Tail(todo) = From(links, k + 1)
    BY <1>2, <2>1, <2>2, <2>3, FromAlone
  <2>5. i \in 1 .. Len(items)
    BY <1>2, <2>1, <2>3
  <2> QED
    BY <1>1, <1>2, <2>1, <2>4, <2>5
<1>4. ASSUME NEW i \in 1 .. Len(items), NEW p \in 1 .. Len(PairsOf(items[i])), Mapped(items[i])
      PROVE  LET pairs == PairParts(items[i], i - 1) IN
             /\ pairs \in Seq(MachinePart) /\ Len(pairs) = Len(PairsOf(items[i])) /\ Len(pairs) \in Nat
             /\ pairs[p].what = "pair" /\ pairs[p].from = i - 1
             /\ pairs[p].key = PairsOf(items[i])[p][1] /\ pairs[p].node = PairsOf(items[i])[p][2]
             /\ From(pairs, p) \o From(links, i) \in Seq(MachinePart)
             /\ PairsOf(items[i])[p][2] \in Nodes
  <2> DEFINE entry == items[i]
             pairs == PairParts(entry, i - 1)
  <2>1. entry \in Node /\ Mapped(entry) /\ i - 1 \in Nat /\ p \in 1 .. Len(PairsOf(entry))
        /\ From(links, i) \in Seq(MachinePart)
    BY <1>2, <1>4
  <2> HIDE DEF entry
  <2>2. /\ pairs \in Seq(MachinePart) /\ Len(pairs) = Len(PairsOf(entry))
        /\ pairs[p].what = "pair" /\ pairs[p].from = i - 1
        /\ pairs[p].key = PairsOf(entry)[p][1] /\ pairs[p].node = PairsOf(entry)[p][2]
    BY <2>1, PairPartsAre
  <2>3. Len(PairsOf(entry)) \in Nat /\ PairsOf(entry)[p][2] \in Nodes
    BY <2>1, EntrySays
  <2> HIDE DEF pairs, links
  <2>4. From(pairs, p) \in Seq(MachinePart)
    <3>1. p \in 0 .. Len(pairs)
      BY <2>1, <2>2, <2>3
    <3> QED
      BY <2>2, <3>1, FromAlone
  <2>5. From(pairs, p) \o From(links, i) \in Seq(MachinePart)
    BY <2>1, <2>4, ConcatProperties
  <2> QED
    BY <2>2, <2>3, <2>5 DEF pairs, entry
<1>5. ASSUME NEW i \in 1 .. Len(items), NEW p \in 1 .. Len(PairsOf(items[i])),
             todo = From(PairParts(items[i], i - 1), p - 1) \o From(links, i),
             PairsRead(root, m, i, p - 1)
      PROVE  /\ what = "pair" /\ Head(todo).node = PairsOf(items[i])[p][2]
             /\ Head(todo).key = PairsOf(items[i])[p][1] /\ Head(todo).from = i - 1
             /\ Tail(todo) = From(PairParts(items[i], i - 1), p) \o From(links, i)
  <2> DEFINE pairs == PairParts(items[i], i - 1)
             r     == From(links, i)
             k     == p - 1
  <2>1. Mapped(items[i])
    BY <1>5 DEF PairsRead, PairsFit
  <2>2. /\ pairs \in Seq(MachinePart) /\ Len(pairs) = Len(PairsOf(items[i])) /\ Len(pairs) \in Nat
        /\ pairs[p].what = "pair" /\ pairs[p].from = i - 1
        /\ pairs[p].key = PairsOf(items[i])[p][1] /\ pairs[p].node = PairsOf(items[i])[p][2]
    BY <1>4, <2>1
  <2>3. r \in Seq(MachinePart)
    BY <1>2
  <2> HIDE DEF pairs, r
  <2>4. k \in 0 .. Len(pairs) - 1 /\ p = k + 1
    BY <2>2
  <2> HIDE DEF k
  <2>5. todo = From(pairs, k) \o r
    BY <1>5 DEF pairs, r, k
  <2>6. Head(todo) = pairs[k + 1] /\ Tail(todo) = From(pairs, k + 1) \o r
    <3>0. pairs \in Seq(MachinePart) /\ r \in Seq(MachinePart) /\ k \in 0 .. Len(pairs) - 1
      BY <2>2, <2>3, <2>4
    <3>1. Head(From(pairs, k) \o r) = pairs[k + 1] /\ Tail(From(pairs, k) \o r) = From(pairs, k + 1) \o r
      BY ONLY <3>0, FromOn
    <3> QED
      BY <3>1, <2>5
  <2>7. Head(todo) = pairs[p] /\ Tail(todo) = From(pairs, p) \o r
    BY <2>4, <2>6
  <2> QED
    BY <1>1, <2>2, <2>7 DEF pairs, r
<1>6. ASSUME NEW i \in 1 .. Len(items), NEW p \in 1 .. Len(PairsOf(items[i])),
             NEW pair, pair = PairsOf(items[i])[p], NEW j \in 1 .. Len(Alternatives(pair[2])),
             NEW after, after = From(PairParts(items[i], i - 1), p) \o From(links, i),
             NEW turns, turns = Turns(pair[2], i - 1, FindTrigger(m, TextOf(pair[1]))),
             todo = From(turns, j - 1) \o after,
             AlternativesRead(root, m, i, p, j - 1)
      PROVE  /\ Head(todo).from = i - 1 /\ Head(todo).trigger = FindTrigger(m, TextOf(pair[1]))
             /\ \/ what = "alternative" /\ Head(todo).node = Alternatives(pair[2])[j]
                \/ /\ what = "plain" /\ Readable(Head(todo).node)
                   /\ Alternatives(pair[2])[j] = Bare(Head(todo).node)
             /\ Tail(todo) = From(turns, j) \o after
  <2> DEFINE k == j - 1
             node == pair[2]
             trigger == FindTrigger(m, TextOf(pair[1]))
  <2>1. Mapped(items[i]) /\ Alternatives(node) # <<>>
    BY <1>6 DEF AlternativesRead, PairsFit
  <2>2. after \in Seq(MachinePart) /\ node \in Nodes
    BY <1>4, <1>6, <2>1
  <2>3. trigger \in Nat /\ i - 1 \in Nat
    BY <1>2, IdsAreNaturals DEF Building
  <2>4. turns = Turns(node, i - 1, trigger) /\ j \in 1 .. Len(Alternatives(node))
    BY <1>6
  <2> HIDE DEF node, trigger
  <2>5. /\ turns \in Seq(MachinePart) /\ Len(turns) = Len(Alternatives(node))
        /\ turns[j].from = i - 1 /\ turns[j].trigger = trigger
        /\ \/ turns[j].what = "alternative" /\ turns[j].node = Alternatives(node)[j]
           \/ turns[j].what = "plain" /\ Readable(turns[j].node) /\ Alternatives(node)[j] = Bare(turns[j].node)
    <3> DEFINE from == i - 1
    <3>1. from \in Nat
      BY <2>3
    <3> HIDE DEF from
    <3>2. LET parts == Turns(node, from, trigger) IN
          /\ parts \in Seq(MachinePart) /\ Len(parts) = Len(Alternatives(node))
          /\ parts[j].from = from /\ parts[j].trigger = trigger
          /\ \/ parts[j].what = "alternative" /\ parts[j].node = Alternatives(node)[j]
             \/ parts[j].what = "plain" /\ Readable(parts[j].node) /\ Alternatives(node)[j] = Bare(parts[j].node)
      BY <2>1, <2>2, <2>3, <2>4, <3>1, TurnsAre
    <3> QED
      BY <2>4, <3>2 DEF from
  <2>6. Len(turns) \in Nat
    BY <2>5
  <2>7. k \in 0 .. Len(turns) - 1 /\ j = k + 1
    BY <2>4, <2>5, <2>6
  <2> HIDE DEF k
  <2>8. todo = From(turns, k) \o after
    BY <1>6 DEF k
  <2>9. Head(todo) = turns[k + 1] /\ Tail(todo) = From(turns, k + 1) \o after
    <3>0. turns \in Seq(MachinePart) /\ after \in Seq(MachinePart) /\ k \in 0 .. Len(turns) - 1
      BY <2>2, <2>5, <2>7
    <3>1. Head(From(turns, k) \o after) = turns[k + 1] /\ Tail(From(turns, k) \o after) = From(turns, k + 1) \o after
      BY ONLY <3>0, FromOn, Zenon
    <3> QED
      BY <3>1, <2>8
  <2>10. Head(todo) = turns[j] /\ Tail(todo) = From(turns, j) \o after
    BY <2>7, <2>9
  <2> QED
    BY <1>1, <2>5, <2>10 DEF node, trigger
<1>7. \/ \E i \in 1 .. Len(items) + 1 : todo = From(links, i - 1) /\ LinksRead(root, m, i)
      \/ \E i \in 1 .. Len(items) : \E p \in 1 .. Len(PairsOf(items[i])) :
           \/ /\ todo = From(PairParts(items[i], i - 1), p - 1) \o From(links, i)
              /\ PairsRead(root, m, i, p - 1)
           \/ LET pair == PairsOf(items[i])[p] IN
              \E j \in 1 .. Len(Alternatives(pair[2])) :
                /\ todo = From(Turns(pair[2], i - 1, FindTrigger(m, TextOf(pair[1]))), j - 1)
                            \o (From(PairParts(items[i], i - 1), p) \o From(links, i))
                /\ AlternativesRead(root, m, i, p, j - 1)
  BY Zenon DEF LinkingAt
<1> HIDE DEF items, links
<1>8. CASE \E i \in 1 .. Len(items) + 1 : todo = From(links, i - 1) /\ LinksRead(root, m, i)
  <2>1. PICK i \in 1 .. Len(items) + 1 : todo = From(links, i - 1) /\ LinksRead(root, m, i)
    BY <1>8
  <2>2. /\ what = "links" /\ i \in 1 .. Len(items)
        /\ Head(todo).node = items[i] /\ Tail(todo) = From(links, i)
    BY <1>3, <2>1
  <2> QED
    BY <1>1, <2>1, <2>2 DEF LinkingPart, items, links
<1>9. ASSUME NEW i \in 1 .. Len(items), NEW p \in 1 .. Len(PairsOf(items[i])),
             todo = From(PairParts(items[i], i - 1), p - 1) \o From(links, i),
             PairsRead(root, m, i, p - 1)
      PROVE  LET pair == PairsOf(items[i])[p]
                 after == From(PairParts(items[i], i - 1), p) \o From(links, i) IN
             /\ what = "pair"
             /\ Head(todo).node = pair[2] /\ Head(todo).key = pair[1] /\ Head(todo).from = i - 1
             /\ Tail(todo) = after /\ PairsRead(root, m, i, p - 1)
  BY <1>5, <1>9, Zenon
<1>10. ASSUME NEW i \in 1 .. Len(items), NEW p \in 1 .. Len(PairsOf(items[i])),
              NEW j \in 1 .. Len(Alternatives(PairsOf(items[i])[p][2])),
              LET pair == PairsOf(items[i])[p] IN
              todo = From(Turns(pair[2], i - 1, FindTrigger(m, TextOf(pair[1]))), j - 1)
                       \o (From(PairParts(items[i], i - 1), p) \o From(links, i)),
              AlternativesRead(root, m, i, p, j - 1)
       PROVE  LET pair == PairsOf(items[i])[p]
                  after == From(PairParts(items[i], i - 1), p) \o From(links, i)
                  turns == Turns(pair[2], i - 1, FindTrigger(m, TextOf(pair[1]))) IN
              /\ Head(todo).from = i - 1 /\ Head(todo).trigger = FindTrigger(m, TextOf(pair[1]))
              /\ \/ what = "alternative" /\ Head(todo).node = Alternatives(pair[2])[j]
                 \/ /\ what = "plain" /\ Readable(Head(todo).node)
                    /\ Alternatives(pair[2])[j] = Bare(Head(todo).node)
              /\ Tail(todo) = From(turns, j) \o after /\ AlternativesRead(root, m, i, p, j - 1)
  <2> DEFINE pair == PairsOf(items[i])[p]
             after == From(PairParts(items[i], i - 1), p) \o From(links, i)
             turns == Turns(pair[2], i - 1, FindTrigger(m, TextOf(pair[1])))
  <2>1. /\ j \in 1 .. Len(Alternatives(pair[2])) /\ pair = PairsOf(items[i])[p]
        /\ after = From(PairParts(items[i], i - 1), p) \o From(links, i)
        /\ turns = Turns(pair[2], i - 1, FindTrigger(m, TextOf(pair[1])))
        /\ todo = From(turns, j - 1) \o after /\ AlternativesRead(root, m, i, p, j - 1)
    BY <1>10
  <2> HIDE DEF pair, after, turns
  <2>2. /\ Head(todo).from = i - 1 /\ Head(todo).trigger = FindTrigger(m, TextOf(pair[1]))
        /\ \/ what = "alternative" /\ Head(todo).node = Alternatives(pair[2])[j]
           \/ /\ what = "plain" /\ Readable(Head(todo).node)
              /\ Alternatives(pair[2])[j] = Bare(Head(todo).node)
        /\ Tail(todo) = From(turns, j) \o after
    BY <1>6, <2>1, ZenonT(60)
  <2> QED
    BY <1>10, <2>2, Zenon DEF pair, after, turns
<1>11. CASE \E i \in 1 .. Len(items) : \E p \in 1 .. Len(PairsOf(items[i])) :
              /\ todo = From(PairParts(items[i], i - 1), p - 1) \o From(links, i)
              /\ PairsRead(root, m, i, p - 1)
  <2>1. PICK i \in 1 .. Len(items) : \E p \in 1 .. Len(PairsOf(items[i])) :
              /\ todo = From(PairParts(items[i], i - 1), p - 1) \o From(links, i)
              /\ PairsRead(root, m, i, p - 1)
    BY <1>11
  <2>2. PICK p \in 1 .. Len(PairsOf(items[i])) :
              /\ todo = From(PairParts(items[i], i - 1), p - 1) \o From(links, i)
              /\ PairsRead(root, m, i, p - 1)
    BY <2>1
  <2> QED
    BY <1>1, <1>9, <2>2 DEF LinkingPart, items, links
<1>12. CASE \E i \in 1 .. Len(items) : \E p \in 1 .. Len(PairsOf(items[i])) :
              LET pair == PairsOf(items[i])[p] IN
              \E j \in 1 .. Len(Alternatives(pair[2])) :
                /\ todo = From(Turns(pair[2], i - 1, FindTrigger(m, TextOf(pair[1]))), j - 1)
                            \o (From(PairParts(items[i], i - 1), p) \o From(links, i))
                /\ AlternativesRead(root, m, i, p, j - 1)
  <2>1. PICK i \in 1 .. Len(items) : \E p \in 1 .. Len(PairsOf(items[i])) :
              LET pair == PairsOf(items[i])[p] IN
              \E j \in 1 .. Len(Alternatives(pair[2])) :
                /\ todo = From(Turns(pair[2], i - 1, FindTrigger(m, TextOf(pair[1]))), j - 1)
                            \o (From(PairParts(items[i], i - 1), p) \o From(links, i))
                /\ AlternativesRead(root, m, i, p, j - 1)
    BY <1>12
  <2>2. PICK p \in 1 .. Len(PairsOf(items[i])) :
              LET pair == PairsOf(items[i])[p] IN
              \E j \in 1 .. Len(Alternatives(pair[2])) :
                /\ todo = From(Turns(pair[2], i - 1, FindTrigger(m, TextOf(pair[1]))), j - 1)
                            \o (From(PairParts(items[i], i - 1), p) \o From(links, i))
                /\ AlternativesRead(root, m, i, p, j - 1)
    BY <2>1
  <2>3. PICK j \in 1 .. Len(Alternatives(PairsOf(items[i])[p][2])) :
              LET pair == PairsOf(items[i])[p] IN
              /\ todo = From(Turns(pair[2], i - 1, FindTrigger(m, TextOf(pair[1]))), j - 1)
                          \o (From(PairParts(items[i], i - 1), p) \o From(links, i))
              /\ AlternativesRead(root, m, i, p, j - 1)
    BY <2>2
  <2> QED
    BY <1>1, <1>10, <2>3, Zenon DEF LinkingPart, items, links
<1>13. \/ \E i \in 1 .. Len(items) : \E p \in 1 .. Len(PairsOf(items[i])) :
              /\ todo = From(PairParts(items[i], i - 1), p - 1) \o From(links, i)
              /\ PairsRead(root, m, i, p - 1)
       \/ \E i \in 1 .. Len(items) : \E p \in 1 .. Len(PairsOf(items[i])) :
              LET pair == PairsOf(items[i])[p] IN
              \E j \in 1 .. Len(Alternatives(pair[2])) :
                /\ todo = From(Turns(pair[2], i - 1, FindTrigger(m, TextOf(pair[1]))), j - 1)
                            \o (From(PairParts(items[i], i - 1), p) \o From(links, i))
                /\ AlternativesRead(root, m, i, p, j - 1)
       \/ \E i \in 1 .. Len(items) + 1 : todo = From(links, i - 1) /\ LinksRead(root, m, i)
  BY <1>7
<1> QED
  BY <1>8, <1>11, <1>12, <1>13

\* A turn of the last pass that is right: it refuses only what is not well formed.
JudgedLinking ==
  \/ \E answer : answer # "Ok" /\ Ends(answer) /\ ~MachineWellFormed(source.root)
  \/ \E with, parts : GoesOn(with, parts) /\ LinkingAt(source.root, with, parts \o Tail(todo))

\* What every turn of the last pass starts from.
LEMMA Linking ==
  ASSUME LoadInv, NEW what \in {"links", "pair", "plain", "alternative"}, Comes(what)
  PROVE  /\ source.root \in Node /\ Building(target) /\ Tail(todo) \in Seq(MachinePart)
         /\ <<>> \o Tail(todo) = Tail(todo) /\ Head(todo) \in MachinePart /\ stage = "parsing"
<1>1. source.root \in Node
  BY SourcesAssumption DEF LoadInv, Node
<1>2. Building(target) /\ Head(todo) \in MachinePart /\ Piece = MachinePart
  BY PartOfMachine
<1>3. todo \in Seq(MachinePart) /\ todo # <<>> /\ stage = "parsing"
  BY <1>2 DEF LoadInv, Reading, Comes
<1>4. Tail(todo) \in Seq(MachinePart)
  BY <1>3
<1>5. <<>> \o Tail(todo) = Tail(todo)
  <2> DEFINE rest == Tail(todo)
  <2>1. rest \in Seq(MachinePart)
    BY <1>4
  <2> HIDE DEF rest
  <2>2. <<>> \o rest = rest
    BY <2>1, ConcatEmptySeq
  <2> QED
    BY <2>2 DEF rest
<1> QED
  BY <1>1, <1>2, <1>3, <1>4, <1>5

\* The transitions of an entry come.
LEMMA LinksTurn ==
  ASSUME LoadInv, LinkingAt(source.root, target, todo), Links
  PROVE  JudgedLinking
<1> DEFINE root  == source.root
           items == Entries(root, "states")
           links == Parts("links", items)
           node  == Head(todo).node
           transitions == Child(node, "transitions")
           from  == FindState(target, NameOf(node))
           parts == [k \in 1 .. Len(transitions.pairs) |->
                       [Part("pair", transitions.pairs[k][2]) EXCEPT
                          !.key = transitions.pairs[k][1], !.from = from]]
<1>1. Comes("links")
  BY DEF Links
<1>2. /\ root \in Node /\ Building(target) /\ <<>> \o Tail(todo) = Tail(todo)
  BY <1>1, Linking
<1>3. /\ AllRead(root, target)
      /\ \E i \in 1 .. Len(items) : /\ node = items[i] /\ Tail(todo) = From(links, i)
                                    /\ LinksRead(root, target, i)
  <2>1. LinkingPart(root, target, "links")
    BY <1>1, <1>2, LinkingComes
  <2> QED
    BY <2>1 DEF LinkingPart
<1>4. PICK i \in 1 .. Len(items) : /\ node = items[i] /\ Tail(todo) = From(links, i)
                                   /\ LinksRead(root, target, i)
  BY <1>3
<1>5. /\ items \in Seq(Nodes) /\ node \in Node /\ from = i - 1 /\ i - 1 \in Nat
  <2>1. items \in Seq(Nodes) /\ items[i] \in Node /\ FindState(target, NameOf(items[i])) = i - 1
    BY <1>2, <1>3, NamesAreFound
  <2>2. i - 1 \in Nat
    BY <1>2, <1>3, LinksLeft
  <2> QED
    BY <1>4, <2>1, <2>2
<1>6. IF ~Defined(transitions) THEN GoesOn(target, <<>>)
      ELSE IF ~IsMap(transitions) THEN Ends("SchemaError")
      ELSE GoesOn(target, parts)
  BY DEF Links
<1>7. CASE Defined(transitions) /\ ~IsMap(transitions)
  <2>1. ~Mapped(items[i])
    BY <1>4, <1>7 DEF Mapped
  <2>2. ~MachineWellFormed(root)
    <3> HIDE DEF items
    <3>1. items = Entries(root, "states")
      BY DEF items
    <3> QED
      BY <1>2, <1>5, <2>1, <3>1, PairsOfWellFormed
  <2> QED
    BY <1>6, <1>7, <2>2 DEF JudgedLinking
<1>8. CASE ~Defined(transitions) \/ IsMap(transitions)
  <2> DEFINE pairs == PairParts(items[i], i - 1)
             p     == 0
             after == From(links, i)
  <2>1. Mapped(items[i])
    BY <1>4, <1>8 DEF Mapped
  <2>2. PairsRead(root, target, i, p)
    BY <1>2, <1>3, <1>4, <2>1, PairsBegin
  <2>3. pairs \in Seq(MachinePart) /\ Len(pairs) = Len(PairsOf(items[i])) /\ Len(pairs) \in Nat
    <3> DEFINE entry == items[i]
    <3>1. entry \in Node /\ Mapped(entry) /\ i - 1 \in Nat
      BY <1>4, <1>5, <2>1
    <3> HIDE DEF entry
    <3>2. Len(PairsOf(entry)) \in Nat
      BY <3>1, EntrySays
    <3>3. PairParts(entry, i - 1) \in Seq(MachinePart) /\ Len(PairParts(entry, i - 1)) = Len(PairsOf(entry))
      BY <3>1, PairPartsAre
    <3> QED
      BY <3>2, <3>3 DEF entry
  <2>4. p \in 0 .. Len(PairsOf(items[i]))
    BY <2>3
  <2>5. after \in Seq(MachinePart)
    BY <1>2, <1>3, <1>4, LinksLeft
  <2>6. From(pairs, p) = pairs
    <3> HIDE DEF pairs, after
    <3>1. pairs \in Seq(MachinePart) /\ after \in Seq(MachinePart)
      BY <2>3, <2>5
    <3>2. From(pairs, 0) = pairs
      BY ONLY <3>1, FromMore
    <3> QED
      BY <3>2
  <2>7. LinkingAt(root, target, pairs \o after)
    <3> DEFINE rest == pairs \o after
    <3>1. rest = From(pairs, p) \o after
      BY <2>6
    <3> HIDE DEF p, rest
    <3>2. LinkingAt(root, target, rest)
      BY <1>2, <1>3, <1>4, <2>2, <2>4, <3>1, PairsNext
    <3> QED
      BY <3>2 DEF rest
  <2>8. CASE ~Defined(transitions)
    <3>1. pairs = <<>>
      BY <1>4, <2>8 DEF PairParts, PairsOf
    <3>2. pairs \o after = <<>> \o Tail(todo)
      BY <1>4, <3>1
    <3> QED
      BY <1>6, <2>7, <2>8, <3>2 DEF JudgedLinking
  <2>9. CASE Defined(transitions) /\ IsMap(transitions)
    <3>1. PairsOf(items[i]) = transitions.pairs
      BY <1>4, <2>9 DEF PairsOf
    <3>2. \A k : [Part("pair", transitions.pairs[k][2]) EXCEPT !.key = transitions.pairs[k][1], !.from = from]
                   = [what |-> "pair", node |-> transitions.pairs[k][2], key |-> transitions.pairs[k][1],
                      from |-> i - 1, trigger |-> kNoTrigger]
      <4>1. ASSUME NEW any, NEW key, NEW at
            PROVE  [Part("pair", any) EXCEPT !.key = key, !.from = at]
                     = [what |-> "pair", node |-> any, key |-> key, from |-> at, trigger |-> kNoTrigger]
        <5> DEFINE was == Part("pair", any)
                   now == [was EXCEPT !.key = key, !.from = at]
        <5>1. was = [what |-> "pair", node |-> any, key |-> Absent, from |-> kNoState, trigger |-> kNoTrigger]
          BY DEF Part
        <5> HIDE DEF was
        <5>2. DOMAIN was = {"what", "node", "key", "from", "trigger"} /\ was.what = "pair" /\ was.node = any
              /\ was.trigger = kNoTrigger
          BY <5>1
        <5>3. /\ now = [f \in {"what", "node", "key", "from", "trigger"} |-> now[f]]
              /\ now.what = "pair" /\ now.node = any /\ now.key = key /\ now.from = at
              /\ now.trigger = kNoTrigger
          BY <5>2
        <5> HIDE DEF now
        <5>4. now = [what |-> "pair", node |-> any, key |-> key, from |-> at, trigger |-> kNoTrigger]
          BY <5>3
        <5> QED
          BY <5>4 DEF now, was
      <4> HIDE DEF transitions, from
      <4> QED
        BY <1>5, <4>1
    <3>3. parts = pairs
      BY <3>1, <3>2 DEF PairParts
    <3> QED
      BY <1>4, <1>6, <2>7, <2>9, <3>3 DEF JudgedLinking
  <2> QED
    BY <1>8, <2>8, <2>9
<1> QED
  BY <1>7, <1>8

\* A pair that is not fit makes the document ill-formed, whichever it is.
LEMMA PairIsUnfit ==
  ASSUME NEW root \in Node, NEW m, Building(m), AllRead(root, m),
         NEW i \in 1 .. Len(Entries(root, "states")),
         NEW p \in 1 .. Len(PairsOf(Entries(root, "states")[i])),
         ~PairFits(PairsOf(Entries(root, "states")[i])[p],
                   NamesIn(root, "triggers"), NamesIn(root, "states"))
  PROVE  ~MachineWellFormed(root)
<1> DEFINE items == Entries(root, "states")
<1>1. items \in Seq(Nodes)
  BY NamesAreFound
<1>2. /\ i \in 1 .. Len(items) /\ p \in 1 .. Len(PairsOf(items[i])) /\ items = Entries(root, "states")
      /\ ~PairFits(PairsOf(items[i])[p], NamesIn(root, "triggers"), NamesIn(root, "states"))
  OBVIOUS
<1> HIDE DEF items
<1> QED
  BY <1>1, <1>2, PairsOfWellFormed

\* A pair of an entry comes.
LEMMA PairTurn ==
  ASSUME LoadInv, LinkingAt(source.root, target, todo), Pair
  PROVE  JudgedLinking
<1> DEFINE root  == source.root
           items == Entries(root, "states")
           links == Parts("links", items)
           part  == Head(todo)
           trigger == FindTrigger(target, TextOf(part.key))
           alternatives == AlternativesIn(part.node)
           parts == [k \in 1 .. Len(alternatives) |->
                       [alternatives[k] EXCEPT !.from = part.from, !.trigger = trigger]]
<1>1. Comes("pair")
  BY DEF Pair
<1>2. root \in Node /\ Building(target)
  BY <1>1, Linking
<1>3. /\ AllRead(root, target)
      /\ \E i \in 1 .. Len(items) : \E p \in 1 .. Len(PairsOf(items[i])) :
           LET pair == PairsOf(items[i])[p]
               after == From(PairParts(items[i], i - 1), p) \o From(links, i) IN
           /\ part.node = pair[2] /\ part.key = pair[1] /\ part.from = i - 1
           /\ Tail(todo) = after /\ PairsRead(root, target, i, p - 1)
  <2>1. LinkingPart(root, target, "pair")
    BY <1>1, <1>2, LinkingComes
  <2> QED
    BY <2>1 DEF LinkingPart
<1>4. PICK i \in 1 .. Len(items) : \E p \in 1 .. Len(PairsOf(items[i])) :
           LET pair == PairsOf(items[i])[p]
               after == From(PairParts(items[i], i - 1), p) \o From(links, i) IN
           /\ part.node = pair[2] /\ part.key = pair[1] /\ part.from = i - 1
           /\ Tail(todo) = after /\ PairsRead(root, target, i, p - 1)
  BY <1>3
<1>5. PICK p \in 1 .. Len(PairsOf(items[i])) :
           LET pair == PairsOf(items[i])[p]
               after == From(PairParts(items[i], i - 1), p) \o From(links, i) IN
           /\ part.node = pair[2] /\ part.key = pair[1] /\ part.from = i - 1
           /\ Tail(todo) = after /\ PairsRead(root, target, i, p - 1)
  BY <1>4
<1> DEFINE pair  == PairsOf(items[i])[p]
           after == From(PairParts(items[i], i - 1), p) \o From(links, i)
           fine  == /\ Readable(pair[1]) /\ TextOf(pair[1]) \in NamesIn(root, "triggers")
                    /\ Alternatives(pair[2]) # <<>>
<1>6. /\ part.node = pair[2] /\ part.key = pair[1] /\ part.from = i - 1
      /\ Tail(todo) = after /\ PairsRead(root, target, i, p - 1)
  BY <1>5
<1>7. pair[2] \in Nodes /\ i - 1 \in Nat
  <2>1. Mapped(items[i])
    BY <1>6 DEF PairsRead, PairsFit
  <2>2. items[i] \in Node /\ i - 1 \in Nat
    BY <1>2, <1>3, LinksLeft
  <2> QED
    BY <2>1, <2>2, PairAt
<1>8. /\ TextOf(pair[1]) \in NamesIn(root, "triggers") <=> trigger # kNoTrigger
      /\ PairStatus(pair[2]) = "Ok" <=> Alternatives(pair[2]) # <<>>
  <2>1. trigger = FindTrigger(target, TextOf(pair[1]))
    BY <1>6
  <2> HIDE DEF pair, trigger
  <2>2. \A name : name \in NamesIn(root, "triggers") <=> FindTrigger(target, name) # kNoTrigger
    BY <1>2, <1>3, NamesAreFound
  <2> QED
    BY <1>7, <2>1, <2>2, PairSays
<1>9. IF ~Readable(part.key) THEN Ends("ParseError")
      ELSE IF trigger = kNoTrigger THEN Ends("UnknownTrigger")
      ELSE IF PairStatus(part.node) # "Ok" THEN Ends("SchemaError")
      ELSE GoesOn(target, parts)
  BY DEF Pair
<1>10. CASE ~fine
  <2>1. \E answer : answer # "Ok" /\ Ends(answer)
    BY <1>6, <1>8, <1>9, <1>10
  <2>2. ~PairFits(pair, NamesIn(root, "triggers"), NamesIn(root, "states"))
    BY <1>10 DEF PairFits
  <2>3. ~MachineWellFormed(root)
    BY <1>2, <1>3, <2>2, PairIsUnfit
  <2> QED
    BY <2>1, <2>3 DEF JudgedLinking
<1>11. CASE fine
  <2> DEFINE j == 0
             turns == Turns(pair[2], i - 1, FindTrigger(target, TextOf(pair[1])))
             rest  == turns \o after
  <2>1. GoesOn(target, parts)
    BY <1>6, <1>8, <1>9, <1>11
  <2>2. parts = turns
    BY <1>6, Zenon DEF Turns
  <2>3. AlternativesRead(root, target, i, p, j)
    BY <1>2, <1>3, <1>6, <1>11, AlternativesBegin
  <2>4. turns \in Seq(MachinePart) /\ Len(Alternatives(pair[2])) \in Nat
    <3> DEFINE from == i - 1
               first == FindTrigger(target, TextOf(pair[1]))
               node == pair[2]
    <3>1. first \in Nat
      BY <1>2, IdsAreNaturals DEF Building
    <3>2. from \in Nat /\ node \in Nodes /\ Alternatives(node) # <<>>
      BY <1>7, <1>11
    <3> HIDE DEF from, first, node
    <3>3. Turns(node, from, first) \in Seq(MachinePart)
      BY <3>1, <3>2, TurnsAre
    <3>4. Alternatives(node) \in Seq(Choice)
      BY <3>2, PairSays
    <3> QED
      BY <3>3, <3>4 DEF from, first, node
  <2>5. From(turns, j) = turns
    <3> HIDE DEF turns
    <3>1. turns \in Seq(MachinePart) /\ <<>> \in Seq(MachinePart)
      BY <2>4
    <3>2. From(turns, 0) = turns
      BY ONLY <3>1, FromMore
    <3> QED
      BY <3>2
  <2>6. j \in 0 .. Len(Alternatives(pair[2]))
    BY <2>4
  <2>7. rest = From(turns, j) \o after
    BY <2>5, Zenon
  <2>8. LinkingAt(root, target, rest)
    <3> HIDE DEF j, rest
    <3> QED
      BY <1>2, <1>3, <2>3, <2>6, <2>7, AlternativesNext, Zenon
  <2>9. rest = parts \o Tail(todo)
    BY <1>6, <2>2, Zenon
  <2> HIDE DEF rest, parts
  <2> QED
    BY <2>1, <2>8, <2>9 DEF JudgedLinking
<1> QED
  BY <1>10, <1>11

\* A guard that is fit has no more conditions than a guard may.
LEMMA FitIsShort ==
  ASSUME NEW choice \in Choice, NEW states, AlternativeFits(choice, states)
  PROVE  Len(GuardIn(choice)) <= kMaxConditionsPerGuard
<1> DEFINE when  == Child(choice, "when")
           nodes == ComparisonsIn(when)
<1>1. nodes \in Seq(Node)
  BY ChoiceIs, ComparisonsAreNodes
<1>2. Len(GuardIn(choice)) = Len(nodes)
  <2>1. GuardIn(choice) = [i \in DOMAIN nodes |-> Readings[TextOf(nodes[i])]]
    BY DEF GuardIn
  <2> HIDE DEF nodes
  <2> QED
    BY <1>1, <2>1
<1>3. GuardFits(when)
  BY DEF AlternativeFits
<1>4. CASE ~Defined(when)
  <2>1. Len(nodes) = 0
    BY <1>4 DEF ComparisonsIn
  <2> HIDE DEF nodes
  <2> QED
    BY <1>2, <2>1, GuardAssumption
<1>5. CASE Defined(when)
  <2>1. Len(nodes) \in 1 .. kMaxConditionsPerGuard
    BY <1>3, <1>5 DEF GuardFits
  <2> HIDE DEF nodes
  <2> QED
    BY <1>2, <2>1, GuardAssumption
<1> QED
  BY <1>4, <1>5

\* The transition for a fit alternative is added, and the next part comes; or there
\* is no room for what the document says.
LEMMA AlternativeTaken ==
  ASSUME NEW root \in Node, NEW m, Building(m), AllRead(root, m),
         NEW i \in 1 .. Len(Entries(root, "states")),
         NEW p \in 1 .. Len(PairsOf(Entries(root, "states")[i])),
         NEW j \in 1 .. Len(Alternatives(PairsOf(Entries(root, "states")[i])[p][2])),
         AlternativesRead(root, m, i, p, j - 1),
         AlternativeFits(Alternatives(PairsOf(Entries(root, "states")[i])[p][2])[j], NamesIn(root, "states")),
         NEW answer,
         LET pair == PairsOf(Entries(root, "states")[i])[p]
             said == Alternatives(pair[2])[j] IN
         answer = AddTransition(m, i - 1, FindTrigger(m, TextOf(pair[1])),
                                FindState(m, TextOf(Child(said, "target"))), GuardIn(said)),
         answer.status = "Ok", NEW rest,
         LET pair == PairsOf(Entries(root, "states")[i])[p] IN
         rest = From(Turns(pair[2], i - 1, FindTrigger(m, TextOf(pair[1]))), j)
                  \o (From(PairParts(Entries(root, "states")[i], i - 1), p)
                        \o From(Parts("links", Entries(root, "states")), i))
  PROVE  LinkingAt(root, answer.model, rest)
<1> DEFINE entry == Entries(root, "states")[i]
           pair  == PairsOf(entry)[p]
           said  == Alternatives(pair[2])
           made  == answer.model
           guard == GuardIn(said[j])
           first == FindTrigger(m, TextOf(pair[1]))
           to    == FindState(m, TextOf(Child(said[j], "target")))
           from  == i - 1
<1>1. /\ AllRead(root, made) /\ AlternativesRead(root, made, i, p, j)
      /\ made.triggerIndex = m.triggerIndex
  <2>1. /\ answer = AddTransition(m, i - 1, first, to, guard)
        /\ answer.status = "Ok"
    OBVIOUS
  <2>2. AllRead(root, answer.model) /\ AlternativesRead(root, answer.model, i, p, j)
        /\ answer.model.triggerIndex = m.triggerIndex
    BY <2>1, AlternativeAdded, ZenonT(60)
  <2> QED
    BY <2>2, Zenon
<1>2. FindTrigger(made, TextOf(pair[1])) = first
  BY <1>1, Zenon DEF FindTrigger
<1>3. entry \in Node /\ Mapped(entry) /\ guard \in Seq(Conditions)
  BY AlternativeComes, Zenon
<1>4. said[j] \in Choice /\ Len(said) \in Nat
  <2>1. p \in 1 .. Len(PairsOf(entry)) /\ j \in 1 .. Len(said)
    OBVIOUS
  <2> HIDE DEF entry
  <2> QED
    BY <1>3, <2>1, PairAt
<1>5. Len(guard) <= kMaxConditionsPerGuard
  BY <1>4, FitIsShort
<1>6. answer = AddTransition(m, from, first, to, guard) /\ answer.status = "Ok"
  OBVIOUS
<1>7. Building(made)
  <2> HIDE DEF guard, first, to, from
  <2>1. AddTransition(m, from, first, to, guard).status = "Ok"
    BY <1>6
  <2>2. Built(AddTransition(m, from, first, to, guard).model, Conditions)
    BY <1>3, <2>1, TransitionAdded DEF Building
  <2>3. Sound(AddTransition(m, from, first, to, guard).model, kMaxConditionsPerGuard)
    BY <1>3, <1>5, <2>1, TransitionKeepsSound DEF Building
  <2> QED
    BY <1>6, <2>2, <2>3, Zenon DEF Building
<1>8. rest = From(Turns(pair[2], i - 1, FindTrigger(made, TextOf(pair[1]))), j)
               \o (From(PairParts(entry, i - 1), p) \o From(Parts("links", Entries(root, "states")), i))
  BY <1>2, Zenon
<1>9. j \in 0 .. Len(said)
  BY <1>4
<1> HIDE DEF made
<1>10. LinkingAt(root, made, rest)
  BY <1>1, <1>7, <1>8, <1>9, AlternativesNext, Zenon
<1> QED
  BY <1>10, Zenon DEF made

\* An alternative comes, in either spelling.
LEMMA AlternativeTurns ==
  ASSUME LoadInv, LinkingAt(source.root, target, todo), Plain \/ AlternativeEntry
  PROVE  JudgedLinking
<1> DEFINE root  == source.root
           items == Entries(root, "states")
           links == Parts("links", items)
           node  == Head(todo).node
<1>1. PICK what \in {"plain", "alternative"} :
        /\ Comes(what)
        /\ what = "plain" => Plain
        /\ what = "alternative" => AlternativeEntry
  <2>1. CASE Plain
    BY <2>1 DEF Plain
  <2>2. CASE AlternativeEntry
    BY <2>2 DEF AlternativeEntry
  <2> QED
    BY <2>1, <2>2
<1>2. root \in Node /\ Building(target) /\ Head(todo) \in MachinePart /\ <<>> \o Tail(todo) = Tail(todo)
  BY <1>1, Linking
<1>3. LinkingPart(root, target, what)
  BY <1>1, <1>2, LinkingComes
<1>4. /\ AllRead(root, target)
      /\ \E i \in 1 .. Len(items) : \E p \in 1 .. Len(PairsOf(items[i])) :
           LET pair  == PairsOf(items[i])[p]
               after == From(PairParts(items[i], i - 1), p) \o From(links, i)
               turns == Turns(pair[2], i - 1, FindTrigger(target, TextOf(pair[1]))) IN
           \E j \in 1 .. Len(Alternatives(pair[2])) :
               /\ Head(todo).from = i - 1 /\ Head(todo).trigger = FindTrigger(target, TextOf(pair[1]))
               /\ \/ what = "alternative" /\ node = Alternatives(pair[2])[j]
                  \/ what = "plain" /\ Readable(node) /\ Alternatives(pair[2])[j] = Bare(node)
               /\ Tail(todo) = From(turns, j) \o after /\ AlternativesRead(root, target, i, p, j - 1)
  BY <1>1, <1>3, Zenon DEF LinkingPart
<1>5. PICK i \in 1 .. Len(items) : \E p \in 1 .. Len(PairsOf(items[i])) :
           LET pair  == PairsOf(items[i])[p]
               after == From(PairParts(items[i], i - 1), p) \o From(links, i)
               turns == Turns(pair[2], i - 1, FindTrigger(target, TextOf(pair[1]))) IN
           \E j \in 1 .. Len(Alternatives(pair[2])) :
               /\ Head(todo).from = i - 1 /\ Head(todo).trigger = FindTrigger(target, TextOf(pair[1]))
               /\ \/ what = "alternative" /\ node = Alternatives(pair[2])[j]
                  \/ what = "plain" /\ Readable(node) /\ Alternatives(pair[2])[j] = Bare(node)
               /\ Tail(todo) = From(turns, j) \o after /\ AlternativesRead(root, target, i, p, j - 1)
  BY <1>4, Zenon
<1>6. PICK p \in 1 .. Len(PairsOf(items[i])) :
           LET pair  == PairsOf(items[i])[p]
               after == From(PairParts(items[i], i - 1), p) \o From(links, i)
               turns == Turns(pair[2], i - 1, FindTrigger(target, TextOf(pair[1]))) IN
           \E j \in 1 .. Len(Alternatives(pair[2])) :
               /\ Head(todo).from = i - 1 /\ Head(todo).trigger = FindTrigger(target, TextOf(pair[1]))
               /\ \/ what = "alternative" /\ node = Alternatives(pair[2])[j]
                  \/ what = "plain" /\ Readable(node) /\ Alternatives(pair[2])[j] = Bare(node)
               /\ Tail(todo) = From(turns, j) \o after /\ AlternativesRead(root, target, i, p, j - 1)
  BY <1>5, Zenon
<1> DEFINE pair  == PairsOf(items[i])[p]
           said  == Alternatives(pair[2])
           first == FindTrigger(target, TextOf(pair[1]))
           after == From(PairParts(items[i], i - 1), p) \o From(links, i)
           turns == Turns(pair[2], i - 1, first)
           names == NamesIn(root, "states")
<1>7. PICK j \in 1 .. Len(said) :
        /\ Head(todo).from = i - 1 /\ Head(todo).trigger = first
        /\ \/ what = "alternative" /\ node = said[j]
           \/ what = "plain" /\ Readable(node) /\ said[j] = Bare(node)
        /\ Tail(todo) = From(turns, j) \o after /\ AlternativesRead(root, target, i, p, j - 1)
  BY <1>6, Zenon
<1> DEFINE name   == TextOf(Child(said[j], "target"))
           guard  == GuardIn(said[j])
           answer == AddTransition(target, i - 1, first, FindState(target, name), guard)
<1>8. node \in Node
  BY <1>2 DEF MachinePart
<1>9. \A n : n \in names <=> FindState(target, n) # kNoState
  BY <1>2, <1>4, NamesAreFound, Zenon
<1>10. ~AlternativeFits(said[j], names) => ~MachineWellFormed(root)
  <2>1. ~AlternativeFits(said[j], names) => ~PairFits(pair, NamesIn(root, "triggers"), names)
    <3>1. Len(said) \in Nat /\ DOMAIN said = 1 .. Len(said)
      <4>1. Mapped(items[i])
        BY <1>7, Zenon DEF AlternativesRead, PairsFit
      <4>2. items[i] \in Node
        BY <1>2, <1>4, LinksLeft, Zenon
      <4> QED
        BY <4>1, <4>2, PairAt
    <3>2. j \in DOMAIN said
      BY <3>1
    <3> QED
      BY <3>2 DEF PairFits
  <2> QED
    BY <1>2, <1>4, <2>1, PairIsUnfit, Zenon
<1>11. \/ ~AlternativeFits(said[j], names) /\ \E refusal : refusal # "Ok" /\ Ends(refusal)
       \/ AlternativeFits(said[j], names) /\ LinkTo(name, guard)
  <2> HIDE DEF said, names, root
  <2>1. CASE what = "plain"
    <3>1. /\ said[j] = Bare(node) /\ Readable(node)
      BY <1>7, <2>1
    <3>2. name = TextOf(node) /\ guard = <<>>
      BY <3>1, BareIs, BareFits
    <3>3. LinkTo(name, guard)
      BY <1>1, <2>1, <3>2 DEF Plain
    <3>4. AlternativeFits(said[j], names) <=> FindState(target, name) # kNoState
      BY <1>9, <3>1, <3>2, BareFits
    <3>5. FindState(target, name) = kNoState => Ends("UnknownState")
      BY <3>3 DEF LinkTo
    <3> QED
      BY <3>3, <3>4, <3>5
  <2>2. CASE what = "alternative"
    <3>1. node = said[j]
      BY <1>7, <2>2
    <3>2. AlternativeStatus(node) = "Ok" <=> AlternativeFits(node, names)
      BY <1>2, <1>8, <1>9, AlternativeIsFit DEF Building
    <3>3. /\ AlternativeStatus(node) # "Ok" => Ends(AlternativeStatus(node))
          /\ AlternativeStatus(node) = "Ok" => LinkTo(TextOf(Child(node, "target")), Guard(Child(node, "when")))
      BY <1>1, <2>2 DEF AlternativeEntry
    <3>4. guard = Guard(Child(node, "when")) /\ name = TextOf(Child(node, "target"))
      BY <1>8, <3>1, ChoiceIs DEF Choice
    <3> QED
      BY <3>1, <3>2, <3>3, <3>4
  <2> QED
    BY <2>1, <2>2
<1>12. CASE ~AlternativeFits(said[j], names)
  BY <1>10, <1>11, <1>12 DEF JudgedLinking
<1>13. CASE AlternativeFits(said[j], names)
  <2>1. LinkTo(name, guard)
    BY <1>11, <1>13
  <2>2. FindState(target, name) # kNoState
    BY <1>9, <1>13 DEF AlternativeFits
  <2>3. Takes(answer)
    BY <1>7, <2>1, <2>2, Zenon DEF LinkTo
  <2>4. PICK taken : taken = answer
    OBVIOUS
  <2>5. CASE taken.status = "Ok"
    <3> DEFINE rest == Tail(todo)
    <3>1. rest = From(turns, j) \o after /\ AlternativesRead(root, target, i, p, j - 1)
      BY <1>7, Zenon
    <3>2. GoesOn(taken.model, <<>>)
      BY <2>3, <2>4, <2>5, Zenon DEF Takes, Unless
    <3> HIDE DEF rest
    <3>3. LinkingAt(root, taken.model, rest)
      BY <1>2, <1>4, <1>13, <2>4, <2>5, <3>1, AlternativeTaken, Zenon
    <3> QED
      BY <1>2, <3>2, <3>3, Zenon DEF JudgedLinking, rest
  <2>6. CASE taken.status # "Ok"
    <3>1. Ends(taken.status)
      BY <2>3, <2>4, <2>6, Zenon DEF Takes, Unless
    <3>2. ~MachineWellFormed(root)
      BY <1>2, <1>4, <1>7, <1>13, <2>4, <2>6, AlternativeRefused, Zenon
    <3> QED
      BY <2>6, <3>1, <3>2 DEF JudgedLinking
  <2> QED
    BY <2>5, <2>6
<1> QED
  BY <1>12, <1>13

\* The turns of the last pass are right.
LEMMA LinkingTurns ==
  ASSUME LoadInv, LinkingAt(source.root, target, todo), Links \/ Pair \/ Plain \/ AlternativeEntry
  PROVE  JudgedLinking
BY LinksTurn, PairTurn, AlternativeTurns

\* A part of the first passes, and what is built when it comes.
DeclaringPart(root, m, what) ==
  LET triggers == Child(root, "triggers")
      states   == Child(root, "states") IN
  \/ what = "root" /\ Head(todo).node = root /\ Tail(todo) = <<>> /\ m = EmptyModel
  \/ /\ MachineRootStatus(root) = "Ok"
     /\ \/ /\ what = "triggers" /\ m = EmptyModel
           /\ Head(todo).node = triggers /\ Tail(todo) = <<Part("states", states)>>
        \/ /\ m.states = EmptyFunction /\ m.conditions = <<>>
           /\ \/ /\ what = "trigger"
                 /\ \E k \in 0 .. Len(triggers.items) - 1 :
                      /\ TriggersRead(root, m, k) /\ Head(todo).node = triggers.items[k + 1]
                      /\ Tail(todo) = From(Parts("trigger", triggers.items), k + 1)
                                        \o <<Part("states", states)>>
              \/ /\ what = "states" /\ TriggersRead(root, m, Len(triggers.items))
                 /\ Head(todo).node = states /\ Tail(todo) = <<>>
        \/ /\ what = "state" /\ TriggersRead(root, m, Len(triggers.items)) /\ Unlinked(m)
           /\ \E k \in 0 .. Len(states.items) - 1 :
                /\ StatesRead(root, m, k) /\ Head(todo).node = states.items[k + 1]
                /\ Tail(todo) = From(Parts("state", states.items), k + 1)
                                  \o Parts("links", states.items)

\* The next part of those that are left for a list of nodes.
LEMMA PartsLeft ==
  ASSUME NEW what \in {"trigger", "state", "links"}, NEW nodes \in Seq(Nodes),
         NEW rest \in Seq(MachinePart)
  PROVE  /\ Len(nodes) \in Nat /\ Parts(what, nodes) \in Seq(MachinePart)
         /\ From(Parts(what, nodes), 0) = Parts(what, nodes)
         /\ From(Parts(what, nodes), Len(nodes)) \o rest = rest
         /\ \A k \in 0 .. Len(nodes) - 1 :
              LET left == From(Parts(what, nodes), k) \o rest IN
              /\ left # <<>> /\ Head(left).what = what /\ Head(left).node = nodes[k + 1]
              /\ Tail(left) = From(Parts(what, nodes), k + 1) \o rest
<1> DEFINE parts == Parts(what, nodes)
<1>1. /\ parts \in Seq(MachinePart) /\ Len(parts) = Len(nodes) /\ Len(nodes) \in Nat
      /\ \A i \in 1 .. Len(nodes) : parts[i].what = what /\ parts[i].node = nodes[i]
  BY PartsAre
<1> HIDE DEF parts
<1>2. From(parts, 0) = parts /\ From(parts, Len(parts)) \o rest = rest
  BY <1>1, FromMore
<1>3. ASSUME NEW k \in 0 .. Len(nodes) - 1
      PROVE  LET left == From(parts, k) \o rest IN
             /\ left # <<>> /\ Head(left).what = what /\ Head(left).node = nodes[k + 1]
             /\ Tail(left) = From(parts, k + 1) \o rest
  <2>1. parts \in Seq(MachinePart) /\ rest \in Seq(MachinePart) /\ k \in 0 .. Len(parts) - 1
    BY <1>1
  <2>2. /\ From(parts, k) \o rest # <<>> /\ Head(From(parts, k) \o rest) = parts[k + 1]
        /\ Tail(From(parts, k) \o rest) = From(parts, k + 1) \o rest
    BY ONLY <2>1, FromOn
  <2>3. k + 1 \in 1 .. Len(nodes)
    BY <1>1
  <2> QED
    BY <1>1, <2>2, <2>3
<1> QED
  BY <1>1, <1>2, <1>3 DEF parts

\* What every turn of a machine file starts from.
LEMMA InMachine ==
  ASSUME LoadInv, stage = "parsing", file = "machine"
  PROVE  /\ source.root \in Node /\ Building(target)
         /\ \A key : Child(source.root, key) \in Node
         /\ \A key : <<Part("states", Child(source.root, key))>> \in Seq(MachinePart)
         /\ \A key : IsList(Child(source.root, key)) => Child(source.root, key).items \in Seq(Nodes)
<1>1. source.root \in Node
  BY SourcesAssumption DEF LoadInv, Node
<1>2. Building(target)
  BY DEF LoadInv, Reading, Whole
<1>3. \A key : Child(source.root, key) \in Node
  BY <1>1, ChildIsNode
<1>4. \A node \in Node : Part("states", node) \in MachinePart
  BY DEF Part, MachinePart, Node, kNoState, kNoTrigger
<1>5. \A node \in Node : <<Part("states", node)>> \in Seq(MachinePart)
  BY <1>4
<1> QED
  BY <1>1, <1>2, <1>3, <1>5, ItemsAreNodes

\* Which part of the first passes it is that comes.
LEMMA DeclaringComes ==
  ASSUME LoadInv, stage = "parsing", file = "machine", DeclaringAt(source.root, target, todo),
         NEW what, Comes(what)
  PROVE  DeclaringPart(source.root, target, what)
<1> DEFINE root     == source.root
           triggers == Child(root, "triggers")
           states   == Child(root, "states")
           last     == <<Part("states", states)>>
           links    == Parts("links", states.items)
<1>1. /\ todo # <<>> /\ Head(todo).what = what
  BY DEF Comes
<1>2. /\ root \in Node /\ Building(target) /\ last \in Seq(MachinePart)
      /\ IsList(triggers) => triggers.items \in Seq(Nodes)
      /\ IsList(states) => states.items \in Seq(Nodes)
  BY InMachine
<1>3. CASE todo = <<Part("root", root)>> /\ target = EmptyModel
  <2>1. Head(todo).what = "root" /\ Head(todo).node = root /\ Tail(todo) = <<>>
    BY <1>3 DEF Part
  <2> QED
    BY <1>1, <1>3, <2>1 DEF DeclaringPart
<1>4. CASE /\ MachineRootStatus(root) = "Ok" /\ target = EmptyModel
           /\ todo = <<Part("triggers", triggers), Part("states", states)>>
  <2>1. Head(todo).what = "triggers" /\ Head(todo).node = triggers /\ Tail(todo) = last
    BY <1>4 DEF Part
  <2> QED
    BY <1>1, <1>4, <2>1 DEF DeclaringPart
<1>5. CASE /\ MachineRootStatus(root) = "Ok" /\ target.states = EmptyFunction /\ target.conditions = <<>>
           /\ \E k \in 0 .. Len(triggers.items) :
                /\ todo = From(Parts("trigger", triggers.items), k) \o last
                /\ TriggersRead(root, target, k)
  <2>1. PICK k \in 0 .. Len(triggers.items) :
                /\ todo = From(Parts("trigger", triggers.items), k) \o last
                /\ TriggersRead(root, target, k)
    BY <1>5
  <2> DEFINE nodes == triggers.items
             parts == Parts("trigger", nodes)
  <2>2. nodes \in Seq(Nodes) /\ Len(nodes) \in Nat
    BY <1>2, <2>1 DEF TriggersRead
  <2>3. /\ From(parts, Len(nodes)) \o last = last
        /\ \A n \in 0 .. Len(nodes) - 1 :
             LET left == From(parts, n) \o last IN
             /\ left # <<>> /\ Head(left).what = "trigger" /\ Head(left).node = nodes[n + 1]
             /\ Tail(left) = From(parts, n + 1) \o last
    <3> HIDE DEF nodes, last
    <3>1. "trigger" \in {"trigger", "state", "links"} /\ nodes \in Seq(Nodes) /\ last \in Seq(MachinePart)
      BY <1>2, <2>2
    <3>2. From(Parts("trigger", nodes), Len(nodes)) \o last = last
      BY ONLY <3>1, PartsLeft
    <3>3. \A n \in 0 .. Len(nodes) - 1 :
             LET left == From(Parts("trigger", nodes), n) \o last IN
             /\ left # <<>> /\ Head(left).what = "trigger" /\ Head(left).node = nodes[n + 1]
             /\ Tail(left) = From(Parts("trigger", nodes), n + 1) \o last
      BY ONLY <3>1, PartsLeft, Zenon
    <3> QED
      BY <3>2, <3>3
  <2>4. CASE k = Len(nodes)
    <3>1. todo = last
      BY <2>1, <2>3, <2>4
    <3>2. Head(todo).what = "states" /\ Head(todo).node = states /\ Tail(todo) = <<>>
      BY <3>1 DEF Part
    <3> QED
      BY <1>1, <1>5, <2>1, <2>4, <3>2 DEF DeclaringPart
  <2>5. CASE k # Len(nodes)
    <3>1. k \in 0 .. Len(nodes) - 1
      BY <2>1, <2>2, <2>5
    <3>2. /\ Head(todo).what = "trigger" /\ Head(todo).node = nodes[k + 1]
          /\ Tail(todo) = From(parts, k + 1) \o last
      BY <2>1, <2>3, <3>1, Zenon
    <3> QED
      BY <1>1, <1>5, <2>1, <3>1, <3>2, Zenon DEF DeclaringPart
  <2> QED
    BY <2>4, <2>5
<1>6. CASE /\ MachineRootStatus(root) = "Ok" /\ TriggersRead(root, target, Len(triggers.items))
           /\ Unlinked(target)
           /\ \E k \in 0 .. Len(states.items) - 1 :
                /\ todo = From(Parts("state", states.items), k) \o links
                /\ StatesRead(root, target, k)
  <2>1. PICK k \in 0 .. Len(states.items) - 1 :
                /\ todo = From(Parts("state", states.items), k) \o links
                /\ StatesRead(root, target, k)
    BY <1>6
  <2> DEFINE nodes == states.items
             parts == Parts("state", nodes)
  <2>2. nodes \in Seq(Nodes)
    BY <1>2, <2>1 DEF StatesRead
  <2>3. links \in Seq(MachinePart)
    BY <2>2, PartsAre
  <2>4. LET left == From(parts, k) \o links IN
        /\ left # <<>> /\ Head(left).what = "state" /\ Head(left).node = nodes[k + 1]
        /\ Tail(left) = From(parts, k + 1) \o links
    <3> HIDE DEF nodes, links
    <3> QED
      BY <2>1, <2>2, <2>3, PartsLeft, Zenon DEF nodes
  <2>5. /\ Head(todo).what = "state" /\ Head(todo).node = nodes[k + 1]
        /\ Tail(todo) = From(parts, k + 1) \o links
    BY <2>1, <2>4
  <2> QED
    BY <1>1, <1>6, <2>1, <2>5, Zenon DEF DeclaringPart
<1> QED
  BY <1>3, <1>4, <1>5, <1>6 DEF DeclaringAt

\* A turn of any pass that is right.
JudgedMachine ==
  \/ \E answer : answer # "Ok" /\ Ends(answer) /\ ~MachineWellFormed(source.root)
  \/ \E with, parts : /\ GoesOn(with, parts)
                      /\ \/ DeclaringAt(source.root, with, parts \o Tail(todo))
                         \/ LinkingAt(source.root, with, parts \o Tail(todo))

\* What is refused at the root of a document is not well formed.
LEMMA RootIsFit ==
  ASSUME NEW root \in Node, MachineWellFormed(root)
  PROVE  MachineRootStatus(root) = "Ok"
<1> DEFINE name == Child(Child(root, "fsm"), "name")
<1>1. /\ IsMap(root) /\ Child(root, "io") = Absent /\ Child(Child(root, "fsm"), "initial") = Absent
      /\ SaysNothingOr(name, FitText)
  BY DEF MachineWellFormed
<1>2. FitStatus(name, "NameTooLong") = "Ok"
  <2>1. name \in Node /\ "NameTooLong" \in {"NameTooLong", "ChannelTooLong"}
    BY ChildIsNode
  <2> HIDE DEF name
  <2> QED
    BY <1>1, <2>1, FitsIfOk
<1> QED
  BY <1>1, <1>2 DEF MachineRootStatus, Defined

\* A section of a well-formed document is a list, and not empty.
LEMMA SectionIsFit ==
  ASSUME NEW root \in Node, MachineWellFormed(root), NEW section \in {"triggers", "states"}
  PROVE  SectionStatus(Child(root, section)) = "Ok"
<1> DEFINE node == Child(root, section)
<1>1. IsList(node) /\ (Len(node.items) \in 1 .. kMaxTriggers \/ Len(node.items) \in 1 .. kMaxStates)
  BY DEF MachineWellFormed, NamedList
<1>2. Len(node.items) > 0
  <2> DEFINE n == Len(node.items)
  <2>1. n \in 1 .. kMaxTriggers \/ n \in 1 .. kMaxStates
    BY <1>1
  <2> HIDE DEF n
  <2>2. n > 0
    BY <2>1, CapacityAssumption
  <2> QED
    BY <2>2 DEF n
<1> QED
  BY <1>1, <1>2 DEF SectionStatus

\* The root comes, and the list of triggers after it.
LEMMA OpeningTurns ==
  ASSUME LoadInv, stage = "parsing", file = "machine", DeclaringAt(source.root, target, todo),
         MachineRoot \/ Triggers
  PROVE  JudgedMachine
<1> DEFINE root     == source.root
           triggers == Child(root, "triggers")
           states   == Child(root, "states")
           last     == <<Part("states", states)>>
<1>1. /\ root \in Node /\ Building(target) /\ last \in Seq(MachinePart)
      /\ IsList(triggers) => triggers.items \in Seq(Nodes)
  BY InMachine
<1>2. CASE MachineRoot
  <2>1. Comes("root")
    BY <1>2 DEF MachineRoot
  <2>2. Head(todo).node = root /\ Tail(todo) = <<>> /\ target = EmptyModel
    BY <2>1, DeclaringComes DEF DeclaringPart
  <2>3. IF MachineRootStatus(root) # "Ok" THEN Ends(MachineRootStatus(root))
        ELSE GoesOn(target, <<Part("triggers", triggers), Part("states", states)>>)
    BY <1>2, <2>2 DEF MachineRoot
  <2>4. CASE MachineRootStatus(root) # "Ok"
    BY <1>1, <2>3, <2>4, RootIsFit DEF JudgedMachine
  <2>5. CASE MachineRootStatus(root) = "Ok"
    <3> DEFINE parts == <<Part("triggers", triggers), Part("states", states)>>
    <3>1. parts \o Tail(todo) = parts
      <4>1. \A a, b : <<a, b>> \o <<>> = <<a, b>>
        OBVIOUS
      <4> QED
        BY <2>2, <4>1
    <3>2. DeclaringAt(root, target, parts)
      BY <2>2, <2>5 DEF DeclaringAt
    <3> HIDE DEF parts
    <3>3. GoesOn(target, parts)
      BY <2>3, <2>5 DEF parts
    <3> QED
      BY <3>1, <3>2, <3>3 DEF JudgedMachine
  <2> QED
    BY <2>4, <2>5
<1>3. CASE Triggers
  <2>1. Comes("triggers")
    BY <1>3 DEF Triggers
  <2>2. /\ MachineRootStatus(root) = "Ok" /\ target = EmptyModel
        /\ Head(todo).node = triggers /\ Tail(todo) = last
    BY <2>1, DeclaringComes DEF DeclaringPart
  <2>3. IF SectionStatus(triggers) # "Ok" THEN Ends("SchemaError")
        ELSE GoesOn(target, Parts("trigger", triggers.items))
    BY <1>3, <2>2 DEF Triggers
  <2>4. CASE SectionStatus(triggers) # "Ok"
    BY <1>1, <2>3, <2>4, SectionIsFit DEF JudgedMachine
  <2>5. CASE SectionStatus(triggers) = "Ok"
    <3> DEFINE nodes == triggers.items
               parts == Parts("trigger", nodes)
               k     == 0
    <3>1. IsList(triggers) /\ Len(nodes) > 0 /\ nodes \in Seq(Nodes)
      BY <1>1, <2>5 DEF SectionStatus
    <3>2. Len(nodes) \in Nat /\ From(parts, k) = parts
      <4> HIDE DEF nodes
      <4>1. "trigger" \in {"trigger", "state", "links"} /\ nodes \in Seq(Nodes) /\ last \in Seq(MachinePart)
        BY <1>1, <3>1
      <4> HIDE DEF last
      <4> QED
        BY <4>1, PartsLeft
    <3>3. TriggersRead(root, target, k) /\ target.states = EmptyFunction /\ target.conditions = <<>>
      BY <2>2, <3>1, <3>2 DEF TriggersRead, EmptyModel, EmptyFunction
    <3>4. k \in 0 .. Len(nodes)
      BY <3>2
    <3>5. parts \o Tail(todo) = From(parts, k) \o last
      BY <2>2, <3>2
    <3> HIDE DEF k, parts
    <3>6. DeclaringAt(root, target, parts \o Tail(todo))
      BY <2>2, <3>3, <3>4, <3>5 DEF DeclaringAt, parts
    <3> QED
      BY <2>3, <2>5, <3>6 DEF JudgedMachine, parts
  <2> QED
    BY <2>4, <2>5
<1> QED
  BY <1>2, <1>3

\* Nothing before what is left is what is left.
LEMMA Rested ==
  ASSUME NEW X, NEW s, s \in Seq(X), s # <<>>
  PROVE  <<>> \o Tail(s) = Tail(s)
<1> DEFINE rest == Tail(s)
<1>1. rest \in Seq(X)
  OBVIOUS
<1> HIDE DEF rest
<1>2. <<>> \o rest = rest
  BY <1>1, ConcatEmptySeq
<1> QED
  BY <1>2 DEF rest

\* A trigger comes.
LEMMA TriggerTurn ==
  ASSUME LoadInv, stage = "parsing", file = "machine", DeclaringAt(source.root, target, todo),
         TriggerEntry
  PROVE  JudgedMachine
<1> DEFINE root     == source.root
           triggers == Child(root, "triggers")
           nodes    == triggers.items
           states   == Child(root, "states")
           last     == <<Part("states", states)>>
           entry    == Head(todo).node
           answer   == DeclareTrigger(target, NameOf(entry), ChannelIn(entry))
           fine     == /\ EntryStatus(entry) = "Ok" /\ answer.status = "Ok"
                       /\ Defined(Child(entry, "channel")) => Readable(Child(entry, "channel"))
<1>1. Comes("trigger")
  BY DEF TriggerEntry
<1>2. root \in Node /\ Building(target)
  BY InMachine
<1>3. /\ MachineRootStatus(root) = "Ok" /\ target.states = EmptyFunction /\ target.conditions = <<>>
      /\ \E k \in 0 .. Len(nodes) - 1 :
           /\ TriggersRead(root, target, k) /\ entry = nodes[k + 1]
           /\ Tail(todo) = From(Parts("trigger", nodes), k + 1) \o last
  BY <1>1, DeclaringComes DEF DeclaringPart
<1>4. PICK k \in 0 .. Len(nodes) - 1 :
           /\ TriggersRead(root, target, k) /\ entry = nodes[k + 1]
           /\ Tail(todo) = From(Parts("trigger", nodes), k + 1) \o last
  BY <1>3
<1>5. /\ k < Len(nodes) /\ k + 1 \in 0 .. Len(nodes)
  <2>1. k \in 0 .. Len(nodes) /\ k \in 0 .. Len(nodes) - 1
    BY <1>4 DEF TriggersRead
  <2> DEFINE n == Len(nodes)
  <2>2. k \in 0 .. n /\ k \in 0 .. n - 1
    BY <2>1
  <2> HIDE DEF n
  <2>3. n \in Int
    <3>1. IsList(triggers)
      BY <1>4 DEF TriggersRead
    <3>2. nodes \in Seq(Nodes)
      BY <3>1, InMachine
    <3> HIDE DEF nodes
    <3> QED
      BY <3>2 DEF n
  <2>4. k < n /\ k + 1 \in 0 .. n
    BY <2>2, <2>3
  <2> QED
    BY <2>4 DEF n
<1>6. /\ ~fine => ~MachineWellFormed(root)
      /\ fine => /\ TriggersRead(root, answer.model, k + 1)
                 /\ answer.model.states = target.states /\ answer.model.conditions = target.conditions
  <2>1. nodes = Entries(root, "triggers")
    BY DEF Entries
  <2>2. Entries(root, "triggers")[k + 1] = entry /\ k < Len(Entries(root, "triggers"))
    BY <1>4, <1>5, <2>1
  <2>3. PICK e : e = entry
    OBVIOUS
  <2>4. LET a == DeclareTrigger(target, NameOf(e), ChannelIn(e))
            f == /\ EntryStatus(e) = "Ok" /\ a.status = "Ok"
                 /\ Defined(Child(e, "channel")) => Readable(Child(e, "channel")) IN
        /\ ~f => ~MachineWellFormed(root)
        /\ f => /\ TriggersRead(root, a.model, k + 1)
                /\ a.model.states = target.states /\ a.model.conditions = target.conditions
    <3>1. Entries(root, "triggers")[k + 1] = e
      BY <2>2, <2>3
    <3>2. root \in Node /\ Building(target) /\ TriggersRead(root, target, k)
          /\ k < Len(Entries(root, "triggers"))
      BY <1>2, <1>4, <2>2
    <3> HIDE DEF root
    <3> QED
      BY ONLY <3>1, <3>2, TriggerJudged
  <2> QED
    BY <2>3, <2>4
<1>7. \/ ~fine /\ \E refusal : refusal # "Ok" /\ Ends(refusal)
      \/ fine /\ GoesOn(answer.model, <<>>)
  <2>1. IF EntryStatus(entry) # "Ok" THEN Ends(EntryStatus(entry))
        ELSE IF Defined(Child(entry, "channel")) /\ ~Readable(Child(entry, "channel"))
        THEN Ends("ParseError")
        ELSE Takes(answer)
    BY DEF TriggerEntry
  <2> HIDE DEF entry, answer
  <2> QED
    BY <2>1 DEF Takes, Unless
<1>8. CASE ~fine
  BY <1>6, <1>7, <1>8 DEF JudgedMachine
<1>9. CASE fine
  <2> DEFINE made == answer.model
             rest == <<>> \o Tail(todo)
  <2>1. /\ TriggersRead(root, made, k + 1) /\ made.states = EmptyFunction /\ made.conditions = <<>>
    BY <1>3, <1>6, <1>9
  <2>2. rest = From(Parts("trigger", nodes), k + 1) \o last
    <3> DEFINE left == From(Parts("trigger", nodes), k + 1) \o last
    <3>1. todo \in Seq(MachinePart) /\ todo # <<>>
      BY <1>1 DEF LoadInv, Reading, Comes, Piece
    <3>2. <<>> \o Tail(todo) = Tail(todo)
      BY <3>1, Rested
    <3> QED
      BY <1>4, <3>2, SMTT(30)
  <2> HIDE DEF made, rest
  <2>3. DeclaringAt(root, made, rest)
    BY <1>3, <1>5, <2>1, <2>2 DEF DeclaringAt
  <2>4. GoesOn(made, <<>>)
    BY <1>7, <1>9 DEF made
  <2> QED
    BY <2>3, <2>4 DEF JudgedMachine, rest
<1> QED
  BY <1>8, <1>9

\* The list of states comes.
LEMMA StatesTurn ==
  ASSUME LoadInv, stage = "parsing", file = "machine", DeclaringAt(source.root, target, todo),
         States
  PROVE  JudgedMachine
<1> DEFINE root   == source.root
           states == Child(root, "states")
           nodes  == states.items
           parts  == Parts("state", nodes)
           links  == Parts("links", nodes)
           k      == 0
<1>1. Comes("states")
  BY DEF States
<1>2. /\ root \in Node /\ (IsList(states) => nodes \in Seq(Nodes))
  BY InMachine
<1>3. /\ MachineRootStatus(root) = "Ok" /\ target.states = EmptyFunction /\ target.conditions = <<>>
      /\ TriggersRead(root, target, Len(Child(root, "triggers").items))
      /\ Head(todo).node = states /\ Tail(todo) = <<>>
  BY <1>1, DeclaringComes DEF DeclaringPart
<1>4. IF SectionStatus(states) # "Ok" THEN Ends("SchemaError") ELSE GoesOn(target, Passes(nodes))
  BY <1>3 DEF States
<1>5. CASE SectionStatus(states) # "Ok"
  BY <1>2, <1>4, <1>5, SectionIsFit DEF JudgedMachine
<1>6. CASE SectionStatus(states) = "Ok"
  <2>1. IsList(states) /\ Len(nodes) > 0 /\ nodes \in Seq(Nodes)
    BY <1>2, <1>6 DEF SectionStatus
  <2>2. /\ Len(nodes) \in Nat /\ From(parts, k) = parts
        /\ parts \in Seq(MachinePart) /\ links \in Seq(MachinePart)
    <3> HIDE DEF nodes
    <3>1. {"state", "links"} \subseteq {"trigger", "state", "links"} /\ nodes \in Seq(Nodes)
          /\ <<>> \in Seq(MachinePart)
      BY <2>1
    <3> QED
      BY <3>1, PartsLeft
  <2>3. StatesRead(root, target, k) /\ Unlinked(target) /\ k \in 0 .. Len(nodes) - 1
    <3>1. DOMAIN EmptyFunction = {}
      BY DEF EmptyFunction
    <3>2. Unlinked(target)
      BY <1>3, <3>1 DEF Unlinked
    <3>3. k \in 0 .. Len(nodes) - 1 /\ k \in 0 .. Len(nodes)
      BY <2>1, <2>2
    <3>4. DOMAIN target.states = 0 .. k - 1
      BY <1>3, <3>1
    <3> QED
      BY <2>1, <3>2, <3>3, <3>4 DEF StatesRead
  <2>4. Passes(nodes) \o Tail(todo) = From(parts, k) \o links
    <3> HIDE DEF parts, links
    <3>1. parts \o links \in Seq(MachinePart)
      BY <2>2, ConcatProperties
    <3>2. (parts \o links) \o <<>> = parts \o links
      BY <3>1, ConcatEmptySeq
    <3>3. Passes(nodes) = parts \o links
      BY SMTT(30) DEF Passes, parts, links
    <3> QED
      BY <1>3, <2>2, <3>2, <3>3
  <2> HIDE DEF k
  <2>5. DeclaringAt(root, target, Passes(nodes) \o Tail(todo))
    BY <1>3, <2>3, <2>4 DEF DeclaringAt
  <2> QED
    BY <1>4, <1>6, <2>5 DEF JudgedMachine
<1> QED
  BY <1>5, <1>6

\* A state comes.  After the last of them, all are declared and none is linked.
LEMMA StateTurn ==
  ASSUME LoadInv, stage = "parsing", file = "machine", DeclaringAt(source.root, target, todo),
         StateEntry
  PROVE  JudgedMachine
<1> DEFINE root     == source.root
           states   == Child(root, "states")
           nodes    == states.items
           parts    == Parts("state", nodes)
           links    == Parts("links", nodes)
           count    == Len(Child(root, "triggers").items)
           entry    == Head(todo).node
           answer   == DeclareState(target, NameOf(entry))
           fine     == EntryStatus(entry) = "Ok" /\ answer.status = "Ok"
<1>1. Comes("state")
  BY DEF StateEntry
<1>2. root \in Node /\ Building(target)
  BY InMachine
<1>3. /\ MachineRootStatus(root) = "Ok" /\ TriggersRead(root, target, count) /\ Unlinked(target)
      /\ \E k \in 0 .. Len(nodes) - 1 :
           /\ StatesRead(root, target, k) /\ entry = nodes[k + 1]
           /\ Tail(todo) = From(parts, k + 1) \o links
  <2>1. DeclaringPart(root, target, "state")
    BY <1>1, DeclaringComes
  <2> QED
    BY <2>1 DEF DeclaringPart
<1>4. PICK k \in 0 .. Len(nodes) - 1 :
           /\ StatesRead(root, target, k) /\ entry = nodes[k + 1]
           /\ Tail(todo) = From(parts, k + 1) \o links
  BY <1>3
<1>5. nodes \in Seq(Nodes)
  <2>1. IsList(states)
    BY <1>4 DEF StatesRead
  <2> QED
    BY <2>1, InMachine
<1>6. /\ k < Len(nodes) /\ k + 1 \in 0 .. Len(nodes) /\ Len(nodes) \in Nat
  <2> HIDE DEF nodes
  <2>1. k \in 0 .. Len(nodes) - 1 /\ Len(nodes) \in Nat
    BY <1>4, <1>5
  <2> QED
    BY <2>1
<1>7. /\ ~fine => ~MachineWellFormed(root)
      /\ fine => /\ StatesRead(root, answer.model, k + 1) /\ Unlinked(answer.model)
                 /\ answer.model.triggers = target.triggers
  <2>1. nodes = Entries(root, "states")
    BY DEF Entries
  <2>2. Entries(root, "states")[k + 1] = entry /\ k < Len(Entries(root, "states"))
    BY <1>4, <1>6, <2>1
  <2> HIDE DEF entry
  <2> QED
    BY <1>2, <1>3, <1>4, <2>2, StateJudged
<1>8. \/ ~fine /\ \E refusal : refusal # "Ok" /\ Ends(refusal)
      \/ fine /\ GoesOn(answer.model, <<>>)
  <2>1. IF EntryStatus(entry) # "Ok" THEN Ends(EntryStatus(entry)) ELSE Takes(answer)
    BY DEF StateEntry
  <2> HIDE DEF entry, answer
  <2> QED
    BY <2>1 DEF Takes, Unless
<1>9. CASE ~fine
  BY <1>7, <1>8, <1>9 DEF JudgedMachine
<1>10. CASE fine
  <2> DEFINE made == answer.model
             rest == <<>> \o Tail(todo)
             n    == k + 1
  <2>1. /\ StatesRead(root, made, n) /\ Unlinked(made) /\ made.triggers = target.triggers
    BY <1>7, <1>10
  <2>2. TriggersRead(root, made, count)
    BY <1>3, <2>1 DEF TriggersRead
  <2>3. rest = From(parts, n) \o links
    <3>1. todo \in Seq(MachinePart) /\ todo # <<>>
      BY <1>1 DEF LoadInv, Reading, Comes, Piece
    <3>2. <<>> \o Tail(todo) = Tail(todo)
      BY <3>1, Rested
    <3> QED
      BY <1>4, <3>2
  <2>4. GoesOn(made, <<>>)
    BY <1>8, <1>10
  <2>5. Building(made)
    BY <1>2, <1>10, StateDeclared, StateKeepsSound DEF Building
  <2>6. n \in 0 .. Len(nodes)
    BY <1>6
  <2> HIDE DEF made, rest, n, count
  <2>7. CASE n # Len(nodes)
    <3>1. n \in 0 .. Len(nodes) - 1
      <4> HIDE DEF nodes
      <4> QED
        BY <1>6, <2>6, <2>7
    <3>2. DeclaringAt(root, made, rest)
      BY <1>3, <2>1, <2>2, <2>3, <3>1, Zenon DEF DeclaringAt, count
    <3> QED
      BY <2>4, <3>2, Zenon DEF JudgedMachine, rest
  <2>8. CASE n = Len(nodes)
    <3>1. AllRead(root, made)
      BY <1>3, <2>1, <2>2, <2>8 DEF AllRead, Entries, count
    <3>2. LinksRead(root, made, 1)
      BY <1>2, <2>1, <2>5, <3>1, NothingLinked
    <3>3. rest = From(links, 0)
      <4> HIDE DEF nodes
      <4>1. {"state", "links"} \subseteq {"trigger", "state", "links"} /\ nodes \in Seq(Nodes)
        BY <1>5
      <4>2. links \in Seq(MachinePart) /\ From(links, 0) = links
        <5>1. <<>> \in Seq(MachinePart)
          OBVIOUS
        <5> QED
          BY <4>1, <5>1, PartsLeft
      <4> HIDE DEF links
      <4>3. From(parts, Len(nodes)) \o links = links
        BY <4>1, <4>2, PartsLeft, SMTT(30)
      <4> QED
        BY <2>3, <2>8, <4>2, <4>3
    <3>4. LinkingAt(root, made, rest)
      <4>1. PICK i \in 1 .. Len(nodes) + 1 : i = 1 /\ i - 1 = 0
        BY <1>6
      <4>2. rest = From(links, i - 1) /\ LinksRead(root, made, i)
        BY <3>2, <3>3, <4>1
      <4> HIDE DEF links, nodes
      <4>3. \E h \in 1 .. Len(nodes) + 1 : rest = From(links, h - 1) /\ LinksRead(root, made, h)
        BY <4>2
      <4> QED
        BY <3>1, <4>3 DEF LinkingAt, Entries, links, nodes
    <3> QED
      BY <2>4, <3>4 DEF JudgedMachine, rest
  <2> QED
    BY <2>7, <2>8
<1> QED
  BY <1>9, <1>10

\* Every turn of every pass is right.
LEMMA MachineTurns ==
  ASSUME LoadInv, stage = "parsing", file = "machine",
         DeclaringAt(source.root, target, todo) \/ LinkingAt(source.root, target, todo),
         \/ MachineRoot \/ Triggers \/ TriggerEntry \/ States \/ StateEntry
         \/ Links \/ Pair \/ Plain \/ AlternativeEntry
  PROVE  JudgedMachine
<1> DEFINE first == {"root", "triggers", "trigger", "states", "state"}
           last  == {"links", "pair", "plain", "alternative"}
<1>1. source.root \in Node /\ Building(target)
  BY InMachine
<1>2. DeclaringAt(source.root, target, todo) => \A what \in last : ~Comes(what)
  <2> SUFFICES ASSUME DeclaringAt(source.root, target, todo), NEW what \in last, Comes(what)
               PROVE  FALSE
    OBVIOUS
  <2>1. DeclaringPart(source.root, target, what)
    BY DeclaringComes
  <2> QED
    BY <2>1 DEF DeclaringPart
<1>3. LinkingAt(source.root, target, todo) => \A what \in first : ~Comes(what)
  <2> SUFFICES ASSUME LinkingAt(source.root, target, todo), NEW what \in first, Comes(what)
               PROVE  FALSE
    OBVIOUS
  <2>1. LinkingPart(source.root, target, what)
    BY <1>1, LinkingComes
  <2>2. what \in last
    BY <2>1, Zenon DEF LinkingPart
  <2> QED
    BY <2>2
<1>4. CASE MachineRoot \/ Triggers \/ TriggerEntry \/ States \/ StateEntry
  <2>1. \E what \in first : Comes(what)
    BY <1>4 DEF MachineRoot, Triggers, TriggerEntry, States, StateEntry
  <2>2. DeclaringAt(source.root, target, todo)
    BY <1>3, <2>1
  <2> QED
    BY <1>4, <2>2, OpeningTurns, TriggerTurn, StatesTurn, StateTurn
<1>5. CASE Links \/ Pair \/ Plain \/ AlternativeEntry
  <2>1. \E what \in last : Comes(what)
    BY <1>5 DEF Links, Pair, Plain, AlternativeEntry
  <2>2. LinkingAt(source.root, target, todo)
    BY <1>2, <2>1
  <2>3. JudgedLinking
    BY <1>5, <2>2, LinkingTurns
  <2> QED
    BY <2>3 DEF JudgedLinking, JudgedMachine
<1> QED
  BY <1>4, <1>5

\* When nothing is left of the last pass, all entries are linked.
LEMMA AllIsLinked ==
  ASSUME NEW root \in Node, NEW m, Building(m), LinkingAt(root, m, <<>>)
  PROVE  AllRead(root, m) /\ LinksRead(root, m, Len(Entries(root, "states")) + 1)
<1> DEFINE items == Entries(root, "states")
           links == Parts("links", items)
<1>1. AllRead(root, m)
  BY DEF LinkingAt
<1>2. /\ items \in Seq(Nodes) /\ Len(items) \in Nat
      /\ links \in Seq(MachinePart) /\ Len(links) = Len(items)
      /\ \A i \in 1 .. Len(items) : i - 1 \in Nat /\ items[i] \in Node
      /\ \A i \in 0 .. Len(items) : From(links, i) \in Seq(MachinePart)
  BY <1>1, LinksLeft
<1>3. ASSUME NEW i \in 1 .. Len(items) + 1, <<>> = From(links, i - 1)
      PROVE  i = Len(items) + 1
  <2> DEFINE k == i - 1
  <2> HIDE DEF links
  <2>1. k \in 0 .. Len(links) /\ i = k + 1
    BY <1>2
  <2>2. i # Len(items) + 1 => k \in 0 .. Len(links) - 1
    BY <1>2, <2>1
  <2> HIDE DEF k
  <2>3. From(links, k) = <<>>
    BY <1>3 DEF k
  <2> QED
    BY <1>2, <2>2, <2>3, FromAlone
<1>4. ASSUME NEW i \in 1 .. Len(items), NEW p \in 1 .. Len(PairsOf(items[i])), Mapped(items[i])
      PROVE  LET pairs == PairParts(items[i], i - 1) IN
             /\ From(pairs, p - 1) \o From(links, i) # <<>>
             /\ From(pairs, p) \o From(links, i) \in Seq(MachinePart)
             /\ PairsOf(items[i])[p][2] \in Nodes
  <2> DEFINE entry == items[i]
             pairs == PairParts(entry, i - 1)
             r     == From(links, i)
             k     == p - 1
  <2>1. entry \in Node /\ Mapped(entry) /\ i - 1 \in Nat /\ p \in 1 .. Len(PairsOf(entry))
        /\ r \in Seq(MachinePart)
    BY <1>2, <1>4
  <2> HIDE DEF entry
  <2>2. pairs \in Seq(MachinePart) /\ Len(pairs) = Len(PairsOf(entry))
    BY <2>1, PairPartsAre
  <2>3. Len(PairsOf(entry)) \in Nat /\ PairsOf(entry)[p][2] \in Nodes
    BY <2>1, EntrySays
  <2> HIDE DEF pairs, r
  <2>4. From(pairs, p) \in Seq(MachinePart)
    <3>1. p \in 0 .. Len(pairs)
      BY <2>1, <2>2, <2>3
    <3> QED
      BY <2>2, <3>1, FromAlone
  <2>5. From(pairs, p) \o r \in Seq(MachinePart)
    BY <2>1, <2>4, ConcatProperties
  <2>6. k \in 0 .. Len(pairs) - 1 /\ pairs \in Seq(MachinePart) /\ r \in Seq(MachinePart)
    BY <2>1, <2>2, <2>3
  <2> HIDE DEF k
  <2>7. From(pairs, k) \o r # <<>>
    BY ONLY <2>6, FromOn
  <2> QED
    BY <2>3, <2>5, <2>7 DEF pairs, entry, r, k
<1>5. ASSUME NEW i \in 1 .. Len(items), NEW p \in 1 .. Len(PairsOf(items[i])),
             NEW pair, pair = PairsOf(items[i])[p], NEW j \in 1 .. Len(Alternatives(pair[2])),
             NEW after, after = From(PairParts(items[i], i - 1), p) \o From(links, i),
             NEW turns, turns = Turns(pair[2], i - 1, FindTrigger(m, TextOf(pair[1]))),
             AlternativesRead(root, m, i, p, j - 1)
      PROVE  From(turns, j - 1) \o after # <<>>
  <2> DEFINE k == j - 1
             node == pair[2]
             from == i - 1
             trigger == FindTrigger(m, TextOf(pair[1]))
  <2>1. Mapped(items[i]) /\ Alternatives(node) # <<>>
    BY <1>5 DEF AlternativesRead, PairsFit
  <2>2. after \in Seq(MachinePart) /\ node \in Nodes
    BY <1>4, <1>5, <2>1
  <2>3. trigger \in Nat /\ from \in Nat
    BY <1>2, IdsAreNaturals DEF Building
  <2>4. turns = Turns(node, from, trigger) /\ j \in 1 .. Len(Alternatives(node))
    BY <1>5
  <2> HIDE DEF node, trigger, from
  <2>5. turns \in Seq(MachinePart) /\ Len(turns) = Len(Alternatives(node))
    BY <2>1, <2>2, <2>3, <2>4, TurnsAre
  <2>6. k \in 0 .. Len(turns) - 1 /\ turns \in Seq(MachinePart) /\ after \in Seq(MachinePart)
    BY <2>2, <2>4, <2>5
  <2> HIDE DEF k
  <2>7. From(turns, k) \o after # <<>>
    BY ONLY <2>6, FromOn
  <2> QED
    BY <2>7 DEF k
<1>6. \/ \E i \in 1 .. Len(items) + 1 : <<>> = From(links, i - 1) /\ LinksRead(root, m, i)
      \/ \E i \in 1 .. Len(items) : \E p \in 1 .. Len(PairsOf(items[i])) :
           \/ /\ <<>> = From(PairParts(items[i], i - 1), p - 1) \o From(links, i)
              /\ PairsRead(root, m, i, p - 1)
           \/ LET pair == PairsOf(items[i])[p] IN
              \E j \in 1 .. Len(Alternatives(pair[2])) :
                /\ <<>> = From(Turns(pair[2], i - 1, FindTrigger(m, TextOf(pair[1]))), j - 1)
                            \o (From(PairParts(items[i], i - 1), p) \o From(links, i))
                /\ AlternativesRead(root, m, i, p, j - 1)
  BY Zenon DEF LinkingAt
<1> HIDE DEF items, links
<1>7. ASSUME NEW i \in 1 .. Len(items), NEW p \in 1 .. Len(PairsOf(items[i])),
             <<>> = From(PairParts(items[i], i - 1), p - 1) \o From(links, i),
             PairsRead(root, m, i, p - 1)
      PROVE  FALSE
  <2>1. Mapped(items[i])
    BY <1>7 DEF PairsRead, PairsFit, items
  <2> QED
    BY <1>4, <1>7, <2>1
<1>8. \E i \in 1 .. Len(items) + 1 : <<>> = From(links, i - 1) /\ LinksRead(root, m, i)
  BY <1>5, <1>6, <1>7
<1> QED
  BY <1>1, <1>3, <1>8 DEF items

\* The first passes are not over before the last one has begun.
LEMMA DeclaringGoesOn ==
  ASSUME NEW root \in Node, NEW m, DeclaringAt(root, m, <<>>)
  PROVE  FALSE
<1> DEFINE triggers == Child(root, "triggers")
           states   == Child(root, "states")
           last     == <<Part("states", states)>>
<1>1. /\ IsList(triggers) => triggers.items \in Seq(Nodes)
      /\ IsList(states) => states.items \in Seq(Nodes)
  BY ChildIsNode, ItemsAreNodes
<1>2. ASSUME NEW k \in 0 .. Len(triggers.items), TriggersRead(root, m, k)
      PROVE  From(Parts("trigger", triggers.items), k) \o last # <<>>
  <2> DEFINE nodes == triggers.items
             left  == From(Parts("trigger", nodes), k)
  <2>1. nodes \in Seq(Nodes)
    BY <1>1, <1>2 DEF TriggersRead
  <2>2. left \in Seq(MachinePart)
    <3> HIDE DEF nodes
    <3>1. Parts("trigger", nodes) \in Seq(MachinePart) /\ Len(Parts("trigger", nodes)) = Len(nodes)
      BY <2>1, PartsAre
    <3>2. k \in 0 .. Len(Parts("trigger", nodes))
      BY <3>1 DEF nodes
    <3> QED
      BY <3>1, <3>2, FromAlone
  <2>3. last \in Seq(MachinePart) /\ Len(last) = 1
    <3>1. Part("states", states) \in MachinePart
      BY ChildIsNode DEF Part, MachinePart, Node, kNoState, kNoTrigger
    <3> QED
      BY <3>1
  <2> HIDE DEF left, last
  <2>4. Len(left \o last) = Len(left) + Len(last) /\ Len(left) \in Nat
    BY <2>2, <2>3, ConcatProperties
  <2> QED
    BY <2>3, <2>4 DEF left
<1>3. ASSUME NEW k \in 0 .. Len(states.items) - 1, StatesRead(root, m, k)
      PROVE  From(Parts("state", states.items), k) \o Parts("links", states.items) # <<>>
  <2> DEFINE nodes == states.items
             links == Parts("links", nodes)
  <2>1. nodes \in Seq(Nodes)
    BY <1>1, <1>3 DEF StatesRead
  <2> HIDE DEF nodes
  <2>2. links \in Seq(MachinePart)
    BY <2>1, PartsAre
  <2> HIDE DEF links
  <2>3. k \in 0 .. Len(nodes) - 1
    BY DEF nodes
  <2>4. From(Parts("state", nodes), k) \o links # <<>>
    BY <2>1, <2>2, <2>3, PartsLeft
  <2> QED
    BY <2>4 DEF nodes, links
<1>4. last # <<>> /\ <<Part("root", root)>> # <<>> /\ <<Part("triggers", triggers), Part("states", states)>> # <<>>
  OBVIOUS
<1> QED
  BY <1>2, <1>3, <1>4 DEF DeclaringAt

\* The root of a document that is read says nothing it must not.
LEMMA RootIsRead ==
  ASSUME NEW root \in Node, MachineRootStatus(root) = "Ok"
  PROVE  /\ IsMap(root) /\ Child(root, "io") = Absent
         /\ Child(Child(root, "fsm"), "initial") = Absent
         /\ SaysNothingOr(Child(Child(root, "fsm"), "name"), FitText)
<1> DEFINE fsm  == Child(root, "fsm")
           name == Child(fsm, "name")
<1>1. /\ IsMap(root) /\ Child(root, "io") = Absent /\ Child(fsm, "initial") = Absent
      /\ FitStatus(name, "NameTooLong") = "Ok"
  BY DEF MachineRootStatus, Defined
<1>2. name \in Node
  BY ChildIsNode
<1> HIDE DEF name
<1>3. SaysNothingOr(name, FitText)
  BY <1>1, <1>2, FitsIfOk
<1> QED
  BY <1>1, <1>3 DEF name

\* Two ids of an index do not have the same key.
LEMMA KeysDiffer ==
  ASSUME NEW index, NEW keys, Inverts(index, keys), NEW a \in DOMAIN keys, NEW b \in DOMAIN keys,
         keys[a] = keys[b]
  PROVE  a = b
BY DEF Inverts

\* A section whose entries are declared is a list of names that fit its table.
LEMMA ListIsNamed ==
  ASSUME NEW node, IsList(node), NEW items \in Seq(Nodes), items = node.items, Len(items) > 0,
         NEW most \in Nat, NEW table, DOMAIN table = 0 .. Len(items) - 1,
         Cardinality(DOMAIN table) <= most, NEW index, Inverts(index, NamesOf(table)),
         \A i \in 1 .. Len(items) : /\ table[i - 1].name = NameOf(items[i])
                                    /\ FitName(Child(items[i], "name"))
  PROVE  NamedList(node, most)
<1>1. /\ Len(items) \in Nat /\ DOMAIN items = 1 .. Len(items)
      /\ \A i \in 1 .. Len(items) : i - 1 \in DOMAIN table
  OBVIOUS
<1>2. Len(items) \in 1 .. most
  <2>1. Cardinality(0 .. Len(items) - 1) = Len(items)
    BY <1>1, FS_Interval
  <2> QED
    BY <1>1, <2>1
<1>3. ASSUME NEW i \in DOMAIN items, NEW j \in DOMAIN items, NameOf(items[i]) = NameOf(items[j])
      PROVE  i = j
  <2>1. i - 1 \in DOMAIN NamesOf(table) /\ j - 1 \in DOMAIN NamesOf(table)
    BY <1>1 DEF NamesOf
  <2>2. NamesOf(table)[i - 1] = NameOf(items[i]) /\ NamesOf(table)[j - 1] = NameOf(items[j])
    BY <1>1 DEF NamesOf
  <2>3. i - 1 = j - 1
    BY <1>3, <2>1, <2>2, KeysDiffer
  <2> QED
    BY <1>1, <2>3
<1> QED
  BY <1>1, <1>2, <1>3 DEF NamedList

\* A list of lists one of which says something says something.
LEMMA OneIsEnough ==
  ASSUME NEW X, NEW s \in Seq(Seq(X)), NEW k \in 1 .. Len(s), s[k] # <<>>
  PROVE  FlattenSeq(s) \in Seq(X) /\ Len(FlattenSeq(s)) > 0
<1>1. /\ FlattenSeq(s) \in Seq(X) /\ \A n \in 0 .. Len(s) :
              /\ FlattenSeq(First(s, n)) \in Seq(X)
              /\ Len(FlattenSeq(First(s, n))) <= Len(FlattenSeq(s))
      /\ \A n \in 1 .. Len(s) : FlattenSeq(First(s, n)) = FlattenSeq(First(s, n - 1)) \o s[n]
  BY FlattenFirst
<1>2. k \in 0 .. Len(s) /\ k - 1 \in 0 .. Len(s) /\ s[k] \in Seq(X)
  OBVIOUS
<1> DEFINE before == FlattenSeq(First(s, k - 1))
           more   == s[k]
<1>3. before \in Seq(X) /\ more \in Seq(X) /\ more # <<>> /\ FlattenSeq(First(s, k)) = before \o more
  BY <1>1, <1>2
<1> HIDE DEF before, more
<1>4. Len(before \o more) = Len(before) + Len(more) /\ Len(before) \in Nat /\ Len(more) \in Nat \ {0}
  BY <1>3
<1>5. Len(before \o more) <= Len(FlattenSeq(s)) /\ Len(FlattenSeq(s)) \in Nat
  BY <1>1, <1>2, <1>3
<1> QED
  BY <1>1, <1>4, <1>5

\* What the first passes declare is well formed and is what the document says.
LEMMA TablesSay ==
  ASSUME NEW root \in Node, NEW m, Building(m), AllRead(root, m)
  PROVE  LET triggers == Entries(root, "triggers")
             states   == Entries(root, "states") IN
         /\ NamedList(Child(root, "triggers"), kMaxTriggers) /\ NamedList(Child(root, "states"), kMaxStates)
         /\ ChannelsFit(triggers)
         /\ DOMAIN m.triggers = {i - 1 : i \in DOMAIN triggers}
         /\ DOMAIN m.states = {i - 1 : i \in DOMAIN states}
         /\ \A i \in DOMAIN triggers :
              /\ m.triggers[i - 1] = [name |-> NameOf(triggers[i]), channel |-> ListensOn(triggers[i])]
              /\ FindTriggerForChannel(m, ListensOn(triggers[i])) = i - 1
         /\ \A i \in DOMAIN states : m.states[i - 1].name = NameOf(states[i])
<1> DEFINE triggers == Entries(root, "triggers")
           states   == Entries(root, "states")
<1>1. /\ WithinCapacities(m) /\ Indexed(m)
  BY DEF Building, Built
<1>2. /\ IsList(Child(root, "triggers")) /\ triggers = Child(root, "triggers").items
      /\ triggers \in Seq(Nodes) /\ Len(triggers) > 0
      /\ DOMAIN m.triggers = 0 .. Len(triggers) - 1
      /\ \A i \in 1 .. Len(triggers) :
           /\ m.triggers[i - 1] = [name |-> NameOf(triggers[i]), channel |-> ListensOn(triggers[i])]
           /\ FitName(Child(triggers[i], "name")) /\ SaysNothingOr(Child(triggers[i], "channel"), FitText)
  BY ChildIsNode, ItemsAreNodes DEF AllRead, TriggersRead, Entries
<1>3. /\ IsList(Child(root, "states")) /\ states = Child(root, "states").items
      /\ states \in Seq(Nodes) /\ Len(states) > 0
      /\ DOMAIN m.states = 0 .. Len(states) - 1
      /\ \A i \in 1 .. Len(states) : /\ m.states[i - 1].name = NameOf(states[i])
                                     /\ FitName(Child(states[i], "name"))
  BY ChildIsNode, ItemsAreNodes DEF AllRead, StatesRead, Entries
<1> HIDE DEF triggers, states
<1>4. /\ DOMAIN triggers = 1 .. Len(triggers) /\ Len(triggers) \in Nat
      /\ DOMAIN states = 1 .. Len(states) /\ Len(states) \in Nat
  BY <1>2, <1>3
<1>5. ASSUME NEW n \in Nat PROVE 0 .. n - 1 = {i - 1 : i \in 1 .. n}
  <2>1. ASSUME NEW id \in 0 .. n - 1 PROVE \E i \in 1 .. n : id = i - 1
    <3>1. id + 1 \in 1 .. n /\ id = (id + 1) - 1
      OBVIOUS
    <3> QED
      BY <3>1
  <2>2. \A i \in 1 .. n : i - 1 \in 0 .. n - 1
    OBVIOUS
  <2> QED
    BY <2>1, <2>2
<1>6. \A i \in 1 .. Len(triggers) : /\ m.triggers[i - 1].name = NameOf(triggers[i])
                                    /\ m.triggers[i - 1].channel = ListensOn(triggers[i])
                                    /\ i - 1 \in DOMAIN m.triggers
  <2> SUFFICES ASSUME NEW i \in 1 .. Len(triggers)
               PROVE  /\ m.triggers[i - 1].name = NameOf(triggers[i])
                      /\ m.triggers[i - 1].channel = ListensOn(triggers[i])
                      /\ i - 1 \in DOMAIN m.triggers
    OBVIOUS
  <2>1. m.triggers[i - 1] = [name |-> NameOf(triggers[i]), channel |-> ListensOn(triggers[i])]
    BY <1>2
  <2>2. i - 1 \in DOMAIN m.triggers
    BY <1>2, <1>4
  <2> QED
    BY <2>1, <2>2
<1>7. NamedList(Child(root, "triggers"), kMaxTriggers)
  <2> DEFINE node  == Child(root, "triggers")
             table == m.triggers
             index == m.triggerIndex
             most  == kMaxTriggers
  <2>1. /\ IsList(node) /\ triggers \in Seq(Nodes) /\ triggers = node.items /\ Len(triggers) > 0
        /\ most \in Nat /\ DOMAIN table = 0 .. Len(triggers) - 1
        /\ Cardinality(DOMAIN table) <= most /\ Inverts(index, NamesOf(table))
        /\ \A i \in 1 .. Len(triggers) : /\ table[i - 1].name = NameOf(triggers[i])
                                         /\ FitName(Child(triggers[i], "name"))
    BY <1>1, <1>2, <1>6, CapacityAssumption DEF WithinCapacities, Indexed
  <2> HIDE DEF node, table, index, most
  <2>2. NamedList(node, most)
    BY ONLY <2>1, ListIsNamed
  <2> QED
    BY <2>2 DEF node, most
<1>8. NamedList(Child(root, "states"), kMaxStates)
  <2> DEFINE node  == Child(root, "states")
             table == m.states
             index == m.stateIndex
             most  == kMaxStates
  <2>1. /\ IsList(node) /\ states \in Seq(Nodes) /\ states = node.items /\ Len(states) > 0
        /\ most \in Nat /\ DOMAIN table = 0 .. Len(states) - 1
        /\ Cardinality(DOMAIN table) <= most /\ Inverts(index, NamesOf(table))
        /\ \A i \in 1 .. Len(states) : /\ table[i - 1].name = NameOf(states[i])
                                       /\ FitName(Child(states[i], "name"))
    BY <1>1, <1>3, CapacityAssumption DEF WithinCapacities, Indexed
  <2> HIDE DEF node, table, index, most
  <2>2. NamedList(node, most)
    BY ONLY <2>1, ListIsNamed
  <2> QED
    BY <2>2 DEF node, most
<1>9. /\ Inverts(m.channelIndex, ChannelsOf(m.triggers)) /\ DOMAIN ChannelsOf(m.triggers) = DOMAIN m.triggers
      /\ \A i \in 1 .. Len(triggers) : ChannelsOf(m.triggers)[i - 1] = ListensOn(triggers[i])
  BY <1>1, <1>6 DEF Indexed, ChannelsOf
<1>10. ChannelsFit(triggers)
  <2>1. ASSUME NEW i \in DOMAIN triggers, NEW j \in DOMAIN triggers,
               ListensOn(triggers[i]) = ListensOn(triggers[j])
        PROVE  i = j
    <3>1. /\ i - 1 \in DOMAIN ChannelsOf(m.triggers) /\ j - 1 \in DOMAIN ChannelsOf(m.triggers)
          /\ ChannelsOf(m.triggers)[i - 1] = ChannelsOf(m.triggers)[j - 1]
      BY <1>4, <1>6, <1>9, <2>1
    <3>2. i - 1 = j - 1
      BY <1>9, <3>1, KeysDiffer
    <3> QED
      BY <1>4, <3>2
  <2>2. \A i \in DOMAIN triggers : SaysNothingOr(Child(triggers[i], "channel"), FitText)
    BY <1>2, <1>4
  <2> QED
    BY <2>1, <2>2 DEF ChannelsFit
<1>11. ASSUME NEW i \in DOMAIN triggers
       PROVE  FindTriggerForChannel(m, ListensOn(triggers[i])) = i - 1
  <2>1. i - 1 \in DOMAIN ChannelsOf(m.triggers) /\ ChannelsOf(m.triggers)[i - 1] = ListensOn(triggers[i])
    BY <1>4, <1>6, <1>9
  <2>2. ListensOn(triggers[i]) \in DOMAIN m.channelIndex /\ m.channelIndex[ListensOn(triggers[i])] = i - 1
    BY <1>9, <2>1 DEF Inverts
  <2> QED
    BY <2>2 DEF FindTriggerForChannel, Lookup
<1>12. /\ DOMAIN m.triggers = {i - 1 : i \in DOMAIN triggers}
       /\ DOMAIN m.states = {i - 1 : i \in DOMAIN states}
  BY <1>2, <1>3, <1>4, <1>5
<1> QED
  BY <1>2, <1>3, <1>4, <1>7, <1>8, <1>10, <1>11, <1>12 DEF triggers, states

\* What an entry that is linked says fits the lists of its state.
LEMMA EntryFits ==
  ASSUME NEW root \in Node, NEW m, Building(m), AllRead(root, m),
         NEW i \in 1 .. Len(Entries(root, "states")),
         LinksRead(root, m, Len(Entries(root, "states")) + 1)
  PROVE  LET entry == Entries(root, "states")[i] IN
         /\ TransitionsFit(entry, NamesIn(root, "triggers"), NamesIn(root, "states"))
         /\ Cardinality(TriggersOf(entry)) <= kMaxTransitionsPerState
         /\ \A name \in TriggersOf(entry) : Len(AlternativesFor(entry, name)) <= kMaxAlternatives
         /\ \A t \in DOMAIN m.triggers :
              Says(m, i - 1, t) = Spelt(AlternativesFor(entry, m.triggers[t].name))
<1> DEFINE items == Entries(root, "states")
           n     == Len(items)
           entry == items[i]
           s     == i - 1
           lists == m.states[s].transitions
<1>1. /\ n \in Nat /\ i \in 1 .. n /\ entry \in Node /\ s \in DOMAIN m.states
  BY NamesAreFound
<1>2. /\ TransitionsFit(entry, NamesIn(root, "triggers"), NamesIn(root, "states"))
      /\ \A t \in DOMAIN m.triggers :
           /\ Says(m, s, t) = Spelt(AlternativesFor(entry, m.triggers[t].name))
           /\ t \in DOMAIN lists => m.triggers[t].name \in TriggersOf(entry)
  <2>1. i \in 1 .. (n + 1) - 1 /\ i < n + 1
    BY <1>1
  <2> QED
    BY <2>1 DEF LinksRead, Linked
<1>3. Mapped(entry)
  BY <1>2, FitIsMapped
<1>4. /\ Built(m, Conditions) /\ Sound(m, kMaxConditionsPerGuard)
      /\ IsFiniteSet(DOMAIN lists) /\ Cardinality(DOMAIN lists) <= kMaxTransitionsPerState
      /\ \A t \in DOMAIN lists : /\ t \in DOMAIN m.triggers /\ lists[t] \in Seq(Alternative)
                                 /\ Len(lists[t]) \in 1 .. kMaxAlternatives
  BY <1>1 DEF Building, Built, Sound, WithinCapacities, WellTyped
<1> HIDE DEF items, entry, s, lists
<1>5. ASSUME NEW t \in DOMAIN m.triggers
      PROVE  /\ t \in DOMAIN lists => DOMAIN Says(m, s, t) = DOMAIN lists[t]
             /\ t \notin DOMAIN lists => DOMAIN Says(m, s, t) = {}
  BY DEF Says, Lookup, lists
<1>6. ASSUME NEW name \in TriggersOf(entry)
      PROVE  \E t \in DOMAIN lists : /\ m.triggers[t].name = name
                                     /\ Len(AlternativesFor(entry, name)) <= kMaxAlternatives
  <2> DEFINE pairs == PairsOf(entry)
             about == About(entry, name)
             said  == AlternativesFor(entry, name)
             node  == Child(entry, "transitions")
  <2>1. /\ Len(pairs) \in Nat /\ DOMAIN pairs = 1 .. Len(pairs)
        /\ about \in Seq(Seq(Choice)) /\ Len(about) = Len(pairs)
    BY <1>1, <1>3, EntrySays
  <2>2. PICK p \in 1 .. Len(pairs) : TextOf(pairs[p][1]) = name
    BY <2>1 DEF TriggersOf
  <2>3. PairFits(pairs[p], NamesIn(root, "triggers"), NamesIn(root, "states"))
    <3>1. pairs = IF Defined(node) THEN node.pairs ELSE <<>>
      BY DEF PairsOf
    <3>2. Defined(node)
      BY <2>1, <2>2, <3>1
    <3> QED
      BY <1>2, <2>1, <3>1, <3>2 DEF TransitionsFit
  <2>4. name \in NamesIn(root, "triggers") /\ Alternatives(pairs[p][2]) # <<>>
    BY <2>2, <2>3 DEF PairFits
  <2>5. PICK t \in DOMAIN m.triggers : m.triggers[t].name = name
    BY <2>4, TriggerOf
  <2>6. about[p] = Alternatives(pairs[p][2])
    BY <2>1, <2>2 DEF About
  <2>7. said = FlattenSeq(about)
    BY DEF AlternativesFor
  <2> HIDE DEF pairs, about, said
  <2>8. said \in Seq(Choice) /\ Len(said) > 0
    BY <2>1, <2>2, <2>4, <2>6, <2>7, OneIsEnough
  <2>9. DOMAIN Says(m, s, t) = 1 .. Len(said)
    <3>1. Says(m, s, t) = Spelt(said)
      BY <1>2, <2>5 DEF said
    <3> QED
      BY <2>8, <3>1 DEF Spelt
  <2>10. t \in DOMAIN lists
    <3>1. Len(said) \in Nat /\ 1 \in 1 .. Len(said)
      BY <2>8
    <3> QED
      BY <1>5, <2>9, <3>1
  <2>11. lists[t] \in Seq(Alternative) /\ Len(lists[t]) <= kMaxAlternatives
    BY <1>4, <2>10, CapacityAssumption
  <2>12. 1 .. Len(said) = 1 .. Len(lists[t]) /\ Len(said) \in Nat /\ Len(lists[t]) \in Nat
    BY <1>5, <2>8, <2>9, <2>10, <2>11
  <2>13. Len(said) = Len(lists[t])
    BY <2>12
  <2> QED
    BY <2>5, <2>10, <2>11, <2>13 DEF said
<1>7. Cardinality(TriggersOf(entry)) <= kMaxTransitionsPerState
  <2> DEFINE T     == TriggersOf(entry)
             S     == DOMAIN lists
             names == [t \in S |-> m.triggers[t].name]
  <2>1. names \in [S -> T] /\ \A y \in T : \E x \in S : names[x] = y
    BY <1>2, <1>4, <1>6
  <2>2. IsFiniteSet(S) /\ Cardinality(S) <= kMaxTransitionsPerState
    BY <1>4
  <2> HIDE DEF T, S, names
  <2>3. IsFiniteSet(T) /\ Cardinality(T) <= Cardinality(S)
    BY <2>1, <2>2, FewerThanThings
  <2>4. Cardinality(T) \in Nat /\ Cardinality(S) \in Nat /\ kMaxTransitionsPerState \in Nat
    BY <2>2, <2>3, FS_CardinalityType, CapacityAssumption
  <2> QED
    BY <2>2, <2>3, <2>4 DEF T
<1>8. \A name \in TriggersOf(entry) : Len(AlternativesFor(entry, name)) <= kMaxAlternatives
  BY <1>6
<1> QED
  BY <1>2, <1>7, <1>8 DEF entry, items, s

\* A machine file that is read to its end is well formed, its model valid, and
\* says what the file says.
LEMMA MachineCompletes ==
  ASSUME NEW root \in Node, NEW m, Building(m), LinkingAt(root, m, <<>>)
  PROVE  MachineWellFormed(root) /\ ModelSays(m, root) /\ Validate(m) = "Ok"
<1> DEFINE triggers == Entries(root, "triggers")
           states   == Entries(root, "states")
           n        == Len(states)
<1>1. AllRead(root, m) /\ LinksRead(root, m, n + 1)
  BY AllIsLinked
<1>2. /\ NamedList(Child(root, "triggers"), kMaxTriggers) /\ NamedList(Child(root, "states"), kMaxStates)
      /\ ChannelsFit(triggers)
      /\ DOMAIN m.triggers = {i - 1 : i \in DOMAIN triggers}
      /\ DOMAIN m.states = {i - 1 : i \in DOMAIN states}
      /\ \A i \in DOMAIN triggers :
           /\ m.triggers[i - 1] = [name |-> NameOf(triggers[i]), channel |-> ListensOn(triggers[i])]
           /\ FindTriggerForChannel(m, ListensOn(triggers[i])) = i - 1
      /\ \A i \in DOMAIN states : m.states[i - 1].name = NameOf(states[i])
  BY <1>1, TablesSay
<1>3. n \in Nat \ {0} /\ DOMAIN states = 1 .. n
  BY <1>1, NamesAreFound
<1>4. ASSUME NEW i \in 1 .. n
      PROVE  /\ TransitionsFit(states[i], NamesIn(root, "triggers"), NamesIn(root, "states"))
             /\ Cardinality(TriggersOf(states[i])) <= kMaxTransitionsPerState
             /\ \A name \in TriggersOf(states[i]) : Len(AlternativesFor(states[i], name)) <= kMaxAlternatives
             /\ \A t \in DOMAIN m.triggers :
                  Says(m, i - 1, t) = Spelt(AlternativesFor(states[i], m.triggers[t].name))
  BY <1>1, EntryFits
<1>5. Len(FlattenSeq(Pools(root, n))) <= kMaxConditions
  <2>1. (n + 1) - 1 = n /\ n + 1 \in 1 .. n + 1
    BY <1>3
  <2>2. m.conditions = FlattenSeq(Pools(root, n)) \o <<>>
    BY <1>1, <2>1 DEF LinksRead, Linked
  <2>3. FlattenSeq(Pools(root, n)) \in Seq(Read)
    <3> DEFINE i == n + 1
               none == [t \in DOMAIN m.triggers |-> <<>>]
    <3>1. Linked(root, m, i, none, <<>>) /\ i \in 1 .. Len(Entries(root, "states")) + 1 /\ i - 1 = n
      BY <1>1, <1>3 DEF LinksRead
    <3> HIDE DEF i, none
    <3>2. FlattenSeq(Pools(root, i - 1)) \in Seq(Read)
      BY <1>1, <3>1, LinkedSoFar
    <3> QED
      BY <3>1, <3>2
  <2>4. Len(m.conditions) <= kMaxConditions
    BY CapacityAssumption DEF Building, Built, WithinCapacities
  <2>5. m.conditions = FlattenSeq(Pools(root, n))
    BY <2>2, <2>3, ConcatEmptySeq
  <2> QED
    BY <2>4, <2>5
<1>6. StatesFit(root)
  <2>1. [i \in DOMAIN states |-> FlattenSeq(GuardsOf(states[i]))] = Pools(root, n)
    BY <1>3 DEF Pools
  <2> QED
    BY <1>3, <1>4, <1>5, <2>1 DEF StatesFit
<1>7. MachineWellFormed(root)
  BY <1>1, <1>2, <1>6, RootIsRead DEF MachineWellFormed, AllRead
<1>8. ModelSays(m, root)
  BY <1>2, <1>3, <1>4 DEF ModelSays
<1>9. Validate(m) = "Ok"
  <2>1. DOMAIN m.states # {}
    BY <1>2, <1>3
  <2> QED
    BY <2>1, SoundIsValid DEF Building
<1> QED
  BY <1>7, <1>8, <1>9

-----------------------------------------------------------------------------
(* A load as a whole. *)

\* Where a load stands: what is left of the document, and what is built of it.
StandsAt(t, rest) ==
  IF file = "machine" THEN DeclaringAt(source.root, t, rest) \/ LinkingAt(source.root, t, rest)
                      ELSE SetupAt(source.root, t, rest)

\* What should be accepted.
WellFormed ==
  IF file = "machine" THEN MachineWellFormed(source.root) ELSE SetupWellFormed(source.root)

\* What should be said by what is loaded.
SaysAll(t) == IF file = "machine" THEN ModelSays(t, source.root) ELSE SetupSays(t, source.root)

\* A turn that is right, or the end of a load.
Judged ==
  \/ \E answer : answer # "Ok" /\ Ends(answer) /\ ~WellFormed
  \/ Ends("Ok") /\ WellFormed /\ SaysAll(target)
  \/ \E with, parts : GoesOn(with, parts) /\ StandsAt(with, parts \o Tail(todo))

\* While a load goes on nothing is refused yet, and what is built is what is read so
\* far of the document.
ReadingInv ==
  /\ stage # "done" => status = "Ok"
  /\ stage = "parsing" => StandsAt(target, todo)
  /\ OkIffWellFormed /\ SaysTheDocument

\* A turn that is right keeps that.
LEMMA JudgedKeepsReading ==
  ASSUME LoadInv, ReadingInv, stage = "parsing", Judged
  PROVE  ReadingInv'
<1>1. source.given = "tree" /\ status = "Ok"
  BY DEF LoadInv, Reading, ReadingInv
<1>2. ASSUME NEW answer, answer # "Ok", Ends(answer), ~WellFormed
      PROVE  ReadingInv'
  BY <1>2 DEF Ends, ReadingInv, OkIffWellFormed, SaysTheDocument, WellFormed
<1>3. ASSUME Ends("Ok"), WellFormed, SaysAll(target)
      PROVE  ReadingInv'
  BY <1>1, <1>3 DEF Ends, ReadingInv, OkIffWellFormed, SaysTheDocument, WellFormed, SaysAll
<1>4. ASSUME NEW with, NEW parts, GoesOn(with, parts), StandsAt(with, parts \o Tail(todo))
      PROVE  ReadingInv'
  <2>1. StandsAt(target, todo)'
    BY <1>4 DEF GoesOn, StandsAt
  <2>2. stage' = "parsing" /\ status' = "Ok"
    BY <1>1, <1>4 DEF GoesOn
  <2> QED
    BY <2>1, <2>2 DEF ReadingInv, OkIffWellFormed, SaysTheDocument
<1> QED
  BY <1>2, <1>3, <1>4 DEF Judged

\* A call that is refused at once was not given a document.
LEMMA RefusedAtOnce ==
  ASSUME LoadInv, ReadingInv, RefuseNull \/ RefuseSource
  PROVE  ReadingInv'
<1>1. source.given # "tree" /\ source' = source
  BY DEF RefuseNull, RefuseSource, Ends
<1>2. stage' = "done" /\ status' # "Ok"
  BY DEF RefuseNull, RefuseSource, Ends
<1> QED
  BY <1>1, <1>2 DEF ReadingInv, OkIffWellFormed, SaysTheDocument

\* A document is opened at its root.
LEMMA OpenedAtRoot ==
  ASSUME LoadInv, ReadingInv, Open
  PROVE  ReadingInv'
<1>1. /\ stage' = "parsing" /\ status' = "Ok" /\ file' = file /\ source' = source
      /\ target' = Empty /\ todo' = <<Part("root", source.root)>>
  BY DEF Open, ReadingInv
<1>2. StandsAt(Empty, <<Part("root", source.root)>>)
  BY DEF StandsAt, Empty, DeclaringAt, SetupAt
<1>3. StandsAt(target, todo)'
  BY <1>1, <1>2 DEF StandsAt
<1> QED
  BY <1>1, <1>3 DEF ReadingInv, OkIffWellFormed, SaysTheDocument

\* All of a document is read: it is accepted, and rightly.
LEMMA CompleteIsJudged ==
  ASSUME LoadInv, ReadingInv, Complete
  PROVE  Judged
<1>1. stage = "parsing" /\ todo = <<>> /\ StandsAt(target, <<>>) /\ file \in {"machine", "setup"}
  BY DEF Complete, ReadingInv, LoadInv
<1>2. source.root \in Node
  BY SourcesAssumption DEF LoadInv, Node
<1>3. CASE file = "machine"
  <2>1. Building(target)
    BY <1>1, <1>3, InMachine
  <2>2. LinkingAt(source.root, target, <<>>)
    BY <1>1, <1>2, <1>3, DeclaringGoesOn DEF StandsAt
  <2>3. MachineWellFormed(source.root) /\ ModelSays(target, source.root) /\ Validate(target) = "Ok"
    BY <1>2, <2>1, <2>2, MachineCompletes
  <2>4. Ends("Ok")
    BY <1>3, <2>3 DEF Complete
  <2> QED
    BY <1>3, <2>3, <2>4 DEF Judged, WellFormed, SaysAll
<1>4. CASE file = "setup"
  <2>1. SetupWellFormed(source.root) /\ SetupSays(target, source.root)
    BY <1>1, <1>2, <1>4, SetupCompletes DEF StandsAt
  <2>2. Ends("Ok")
    BY <1>4 DEF Complete
  <2> QED
    BY <1>4, <2>1, <2>2 DEF Judged, WellFormed, SaysAll
<1> QED
  BY <1>1, <1>3, <1>4

\* Every turn is right.
LEMMA TurnIsJudged ==
  ASSUME LoadInv, ReadingInv,
         \/ MachineRoot \/ Triggers \/ TriggerEntry \/ States \/ StateEntry
         \/ Links \/ Pair \/ Plain \/ AlternativeEntry
         \/ SetupRoot \/ SetupName \/ SetupInitial \/ SetupIo \/ SetupField
  PROVE  stage = "parsing" /\ Judged
<1>1. CASE \/ MachineRoot \/ Triggers \/ TriggerEntry \/ States \/ StateEntry
           \/ Links \/ Pair \/ Plain \/ AlternativeEntry
  <2>1. \E what : /\ Comes(what)
                  /\ \/ what \in {"triggers", "states", "trigger", "state", "links", "pair", "plain", "alternative"}
                     \/ file = "machine"
    BY <1>1 DEF MachineRoot, Triggers, TriggerEntry, States, StateEntry,
                Links, Pair, Plain, AlternativeEntry
  <2>2. stage = "parsing" /\ file = "machine"
    BY <2>1, PartOfMachine DEF Comes
  <2>3. DeclaringAt(source.root, target, todo) \/ LinkingAt(source.root, target, todo)
    BY <2>2 DEF ReadingInv, StandsAt
  <2>4. JudgedMachine
    BY <1>1, <2>2, <2>3, MachineTurns
  <2> QED
    BY <2>2, <2>4 DEF JudgedMachine, Judged, StandsAt, WellFormed
<1>2. CASE SetupRoot \/ SetupName \/ SetupInitial \/ SetupIo \/ SetupField
  <2>1. \E what : /\ Comes(what)
                  /\ what \in {"name", "initial", "io", "field"} \/ file = "setup"
    BY <1>2 DEF SetupRoot, SetupName, SetupInitial, SetupIo, SetupField
  <2>2. stage = "parsing" /\ file = "setup"
    BY <2>1, PartOfSetup DEF Comes
  <2>3. SetupAt(source.root, target, todo)
    BY <2>2 DEF ReadingInv, StandsAt
  <2>4. JudgedSetup
    BY <1>2, <2>2, <2>3, SetupTurns
  <2> QED
    BY <2>2, <2>4 DEF JudgedSetup, Judged, StandsAt, WellFormed
<1> QED
  BY <1>1, <1>2

\* Every step is a turn that is right, or begins or ends a load rightly.
LEMMA ReadingStep == LoadInv /\ ReadingInv /\ [Next]_vars => ReadingInv'
<1> SUFFICES ASSUME LoadInv, ReadingInv, [Next]_vars
             PROVE  ReadingInv'
  OBVIOUS
<1>1. CASE RefuseNull \/ RefuseSource
  BY <1>1, RefusedAtOnce
<1>2. CASE Open
  BY <1>2, OpenedAtRoot
<1>3. CASE Complete
  <2>1. stage = "parsing"
    BY <1>3 DEF Complete
  <2> QED
    BY <1>3, <2>1, CompleteIsJudged, JudgedKeepsReading
<1>4. CASE \/ MachineRoot \/ Triggers \/ TriggerEntry \/ States \/ StateEntry
           \/ Links \/ Pair \/ Plain \/ AlternativeEntry
           \/ SetupRoot \/ SetupName \/ SetupInitial \/ SetupIo \/ SetupField
  BY <1>4, TurnIsJudged, JudgedKeepsReading
<1>5. CASE UNCHANGED vars
  BY <1>5 DEF vars, ReadingInv, StandsAt, OkIffWellFormed, SaysTheDocument
<1> QED
  BY <1>1, <1>2, <1>3, <1>4, <1>5 DEF Next

\* So it holds of every load.
LEMMA ReadingHolds == Spec => []ReadingInv
<1>1. Init => LoadInv /\ ReadingInv
  <2>1. Init => ReadingInv
    BY DEF Init, ReadingInv, OkIffWellFormed, SaysTheDocument
  <2> QED
    BY <2>1, InitLoad
<1>2. LoadInv /\ ReadingInv /\ [Next]_vars => (LoadInv /\ ReadingInv)'
  BY LoadStep, ReadingStep
<1> QED
  BY <1>1, <1>2, PTL DEF Spec

\* The passes accept a document exactly when it is well formed as a whole: wherever
\* a reference points, and whatever the capacities.
THEOREM AcceptsWellFormed == Spec => []OkIffWellFormed
<1>1. ReadingInv => OkIffWellFormed
  BY DEF ReadingInv
<1> QED
  BY <1>1, ReadingHolds, PTL

\* What was loaded says what the document says, alternative by alternative and
\* guard by guard, and nothing of what the target held before.
THEOREM SaysWhatIsWritten == Spec => []SaysTheDocument
<1>1. ReadingInv => SaysTheDocument
  BY DEF ReadingInv
<1> QED
  BY <1>1, ReadingHolds, PTL
=============================================================================
