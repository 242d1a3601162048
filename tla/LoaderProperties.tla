-------------------------- MODULE LoaderProperties --------------------------
(***************************************************************************)
(* What makes a load correct.  A document is read here without passes: by  *)
(* what it says as a whole.                                                *)
(***************************************************************************)
EXTENDS Loader, SequencesExt

Statuses == {"Ok", "InvalidArgument", "FileNotFound", "FileNotReadable", "ParseError",
             "SchemaError", "NameTooLong", "ChannelTooLong", "DuplicateName",
             "CapacityExceeded", "UnknownState", "UnknownTrigger"}

\* What the code's fixed-capacity objects can hold.
FitsModel(m) ==
  /\ WithinCapacities(m)
  /\ \A s \in DOMAIN m.states : \A t \in DOMAIN m.states[s].transitions :
       \A i \in DOMAIN m.states[s].transitions[t] :
         m.states[s].transitions[t][i].count <= kMaxConditionsPerGuard

FitsSetup(s) ==
  /\ s.name \notin LongNames /\ s.initial \notin LongNames
  /\ \A field \in Fields : s.io[field] \notin LongNames

\* At every step of a load what is built is within its capacities, the guard of
\* each alternative included, and nothing is left to do when the call is over.
TypeOK ==
  /\ file \in {"machine", "setup"} /\ source \in Sources /\ former \in Formers[file]
  /\ stage \in {"called", "parsing", "done"} /\ status \in Statuses
  /\ stage # "parsing" => todo = <<>>
  /\ \A i \in DOMAIN todo : todo[i].node = Absent \/ todo[i].node \in Nodes
  /\ \/ target = former
     \/ IF file = "machine" THEN FitsModel(target) ELSE FitsSetup(target)

\* No call leaves part of a document behind, in whichever pass it was refused or
\* thrown out of: the target is complete and valid, its indices the inverses of
\* its tables, as Runtime assumes of what it is given; or it is empty, or, if no
\* document was given, what it was.
NothingHalfLoaded ==
  stage = "done" =>
    IF status = "Ok"
    THEN file = "machine" => Validate(target) = "Ok" /\ WithinCapacities(target) /\ Indexed(target)
    ELSE target = IF source.given = "null" THEN former ELSE Empty

-----------------------------------------------------------------------------
(* The document as a whole. *)

FitText(node) == Readable(node) /\ TextOf(node) \notin LongNames
FitName(node) == FitText(node) /\ TextOf(node) # NoName

SaysNothingOr(node, Good(_)) == node = Absent \/ Good(node)

\* A list of things with a name each.
NamedList(node, most) ==
  /\ IsList(node) /\ Len(node.items) \in 1 .. most
  /\ \A i \in DOMAIN node.items : FitName(Child(node.items[i], "name"))
  /\ \A i, j \in DOMAIN node.items : NameOf(node.items[i]) = NameOf(node.items[j]) => i = j

Entries(root, section) == Child(root, section).items
NamesIn(root, section) == {NameOf(Entries(root, section)[i]) : i \in DOMAIN Entries(root, section)}

ListensOn(entry) == ChannelOf(NameOf(entry), ChannelIn(entry))

ChannelsFit(entries) ==
  /\ \A i \in DOMAIN entries : SaysNothingOr(Child(entries[i], "channel"), FitText)
  /\ \A i, j \in DOMAIN entries : ListensOn(entries[i]) = ListensOn(entries[j]) => i = j

\* The alternatives that follow a trigger's name, in order.
Alternatives(node) ==
  CASE node.kind = "scalar" -> <<Map(<<<<Scalar("target"), node>>>>)>>
    [] node.kind = "map"    -> <<node>>
    [] node.kind = "sequence" -> node.items
    [] OTHER -> <<>>

PairsOf(entry) ==
  LET transitions == Child(entry, "transitions") IN
  IF Defined(transitions) THEN transitions.pairs ELSE <<>>

TriggersOf(entry) == {TextOf(PairsOf(entry)[i][1]) : i \in DOMAIN PairsOf(entry)}

\* What each pair of the entry says for a trigger.
About(entry, trigger) ==
  [i \in DOMAIN PairsOf(entry) |->
     IF TextOf(PairsOf(entry)[i][1]) = trigger THEN Alternatives(PairsOf(entry)[i][2]) ELSE <<>>]

\* Everything the entry says for a trigger, should it name it twice.
AlternativesFor(entry, trigger) == FlattenSeq(About(entry, trigger))

GuardIn(alternative) ==
  LET nodes == ComparisonsIn(Child(alternative, "when")) IN
  [i \in DOMAIN nodes |-> Readings[TextOf(nodes[i])]]

\* The conditions that stand in some alternatives, and in all of an entry.
GuardsIn(alternatives) == [i \in DOMAIN alternatives |-> GuardIn(alternatives[i])]
GuardsOf(entry) ==
  [i \in DOMAIN PairsOf(entry) |-> FlattenSeq(GuardsIn(Alternatives(PairsOf(entry)[i][2])))]

GuardFits(when) ==
  \/ ~Defined(when)
  \/ LET nodes == ComparisonsIn(when) IN
     /\ Len(nodes) \in 1 .. kMaxConditionsPerGuard
     /\ \A i \in DOMAIN nodes : Readable(nodes[i]) /\ TextOf(nodes[i]) \in DOMAIN Readings

AlternativeFits(node, states) ==
  /\ Readable(Child(node, "target")) /\ TextOf(Child(node, "target")) \in states
  /\ GuardFits(Child(node, "when"))

PairFits(pair, triggers, states) ==
  LET alternatives == Alternatives(pair[2]) IN
  /\ Readable(pair[1]) /\ TextOf(pair[1]) \in triggers
  /\ alternatives # <<>>
  /\ \A i \in DOMAIN alternatives : AlternativeFits(alternatives[i], states)

TransitionsFit(entry, triggers, states) ==
  LET node == Child(entry, "transitions") IN
  \/ ~Defined(node)
  \/ IsMap(node) /\ \A i \in DOMAIN node.pairs : PairFits(node.pairs[i], triggers, states)

\* The references of a document resolve wherever the states stand in the file,
\* and what it says fits the tables when it is all there.
StatesFit(root) ==
  LET entries == Entries(root, "states") IN
  /\ \A i \in DOMAIN entries :
       /\ TransitionsFit(entries[i], NamesIn(root, "triggers"), NamesIn(root, "states"))
       /\ Cardinality(TriggersOf(entries[i])) <= kMaxTransitionsPerState
       /\ \A trigger \in TriggersOf(entries[i]) :
            Len(AlternativesFor(entries[i], trigger)) <= kMaxAlternatives
  /\ Len(FlattenSeq([i \in DOMAIN entries |-> FlattenSeq(GuardsOf(entries[i]))])) <= kMaxConditions

MachineWellFormed(root) ==
  /\ IsMap(root) /\ Child(root, "io") = Absent
  /\ Child(Child(root, "fsm"), "initial") = Absent
  /\ SaysNothingOr(Child(Child(root, "fsm"), "name"), FitText)
  /\ NamedList(Child(root, "triggers"), kMaxTriggers)
  /\ ChannelsFit(Entries(root, "triggers"))
  /\ NamedList(Child(root, "states"), kMaxStates)
  /\ StatesFit(root)

SetupWellFormed(root) ==
  /\ IsMap(root) /\ Child(root, "states") = Absent /\ Child(root, "triggers") = Absent
  /\ FitName(Child(Child(root, "fsm"), "initial"))
  /\ SaysNothingOr(Child(Child(root, "fsm"), "name"), FitText)
  /\ SaysNothingOr(Child(root, "io"), IsMap)
  /\ \A field \in Fields : SaysNothingOr(Child(Child(root, "io"), field), FitText)

\* The passes accept a document exactly when it is well formed as a whole: a
\* reference may point forward, a name is refused only if it is nowhere
\* declared, no capacity is reached early or late, and validate() refuses
\* nothing that the passes let through.
OkIffWellFormed ==
  stage = "done" =>
    (status = "Ok" <=>
       /\ source.given = "tree"
       /\ IF file = "machine" THEN MachineWellFormed(source.root)
                              ELSE SetupWellFormed(source.root))

\* What alternatives that are written say, by name and with their guards.
Spelt(alternatives) ==
  [i \in DOMAIN alternatives |-> [target |-> TextOf(Child(alternatives[i], "target")),
                                  guard  |-> GuardIn(alternatives[i])]]

ModelSays(m, root) ==
  LET triggers == Entries(root, "triggers")
      states   == Entries(root, "states") IN
  /\ DOMAIN m.triggers = {i - 1 : i \in DOMAIN triggers}
  /\ \A i \in DOMAIN triggers :
       /\ m.triggers[i - 1] = [name |-> NameOf(triggers[i]), channel |-> ListensOn(triggers[i])]
       /\ FindTriggerForChannel(m, ListensOn(triggers[i])) = i - 1
  /\ DOMAIN m.states = {i - 1 : i \in DOMAIN states}
  /\ \A i \in DOMAIN states :
       /\ m.states[i - 1].name = NameOf(states[i])
       /\ \A t \in DOMAIN m.triggers :
            Says(m, i - 1, t) = Spelt(AlternativesFor(states[i], m.triggers[t].name))

SetupSays(s, root) ==
  LET said(node) == IF Defined(node) THEN TextOf(node) ELSE NoName
      fsm        == Child(root, "fsm") IN
  /\ s.name = said(Child(fsm, "name")) /\ s.initial = said(Child(fsm, "initial"))
  /\ \A field \in Fields : s.io[field] = said(Child(Child(root, "io"), field))

\* What was loaded says what the document says and nothing of what the target
\* held before: every state and trigger by name, channels defaulted, and the
\* alternatives of each pair in file order with all of their guard.
SaysTheDocument ==
  stage = "done" /\ status = "Ok" =>
    IF file = "machine" THEN ModelSays(target, source.root) ELSE SetupSays(target, source.root)
=============================================================================
