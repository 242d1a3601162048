------------------------------- MODULE MCLint -------------------------------
(***************************************************************************)
(* Models to analyse, built by the operations of Model.  Graphs: four       *)
(* states with up to three, two, one and one ways out.  Guarded: one state *)
(* whose trigger has one alternative with up to three comparisons, of any  *)
(* kind, against every number there is, or with texts that have spaces, or *)
(* on more names than an Args holds; or several with overlapping guards.   *)
(***************************************************************************)
EXTENDS Lint

Lowest == -2

Nth(i) == "s" \o ToString(i)

Empty(states, triggers) ==
  LET named  == FoldLeft(LAMBDA m, i : DeclareState(m, Nth(i)).model,
                         EmptyModel, [i \in 1 .. states |-> i])
  IN FoldLeft(LAMBDA m, i : DeclareTrigger(m, Nth(i), "").model,
              named, [i \in 1 .. triggers |-> i])

Linked(m, moves) ==
  FoldLeft(LAMBDA built, t : AddTransition(built, t[1], t[2], t[3], t[4]).model, m, moves)

\* Every alternative on the first trigger, none with a guard; nobody lists the
\* second.
Graph(edges) ==
  LET list(s) == [i \in 1 .. Cardinality(edges[s]) |->
                    <<s, i - 1, SetToSeq(edges[s])[i], <<>>>>]
  IN Linked(Empty(4, 2), FlattenSeq([i \in 1 .. 4 |-> list(i - 1)]))

\* A graph of four states with one that branches three ways and one that branches
\* two ways; the search starts in any of them, or in none.
Degree == <<3, 2, 1, 1>>
Graphs ==
  {Graph(edges) : edges \in {e \in [0 .. 3 -> SUBSET (0 .. 3)] :
                               \A s \in 0 .. 3 : Cardinality(e[s]) <= Degree[s + 1]}}

Compare(arg, op, n) == [arg |-> arg, op |-> op, numeric |-> TRUE, number |-> n, literal |-> ""]
Is(arg, op, w)      == [arg |-> arg, op |-> op, numeric |-> FALSE, number |-> 0, literal |-> w]

\* Texts that a guard can have and an input cannot.
WithSpaces == {"a b", "x y"}

Comparisons ==
  {Compare("x", op, n) : op \in {"==", "!=", "<", "<=", ">", ">="}, n \in kIntMin .. kIntMax}
  \cup {Is("x", op, w) : op \in {"==", "!="}, w \in {"a", "b"}}
  \cup {Compare("y", ">", 0), Compare("z", ">", 0)}
  \cup {Is("x", "==", "a b"), Is("x", "!=", "a b"), Compare("x y", "<", 1)}

\* One state besides a second one, and a list of alternatives that go there.
Guarded(guards) ==
  Linked(Empty(2, 1), [i \in DOMAIN guards |-> <<0, 0, i % 2, guards[i]>>] \o <<<<1, 0, 0, <<>>>>>>)

Overlapping ==
  {<<>>, <<Compare("x", ">", 0)>>, <<Compare("x", ">", -1)>>, <<Is("x", "==", "a")>>,
   <<Compare("y", ">", 0), Compare("x", ">", 0)>>, <<Compare("x", "<", 0), Compare("x", ">", 0)>>}

GuardedModels ==
  {Guarded(<<SetToSeq(guard)>>) : guard \in {{a, b, c} : a, b, c \in Comparisons}}
  \cup {Guarded(guards) : guards \in SeqOf(Overlapping, 3)}

AllModels == Graphs \cup GuardedModels

\* Up to two of x, y and z, each empty, a word, or a number.
Values == {EmptyValue, Word("a"), Word("b"), Word("c")} \cup {Number(n) : n \in kIntMin .. kIntMax}
AllArguments ==
  UNION {[keys -> Values] : keys \in {k \in SUBSET {"x", "y", "z"} : Cardinality(k) <= kMaxArguments}}

\* A start, two places where nothing goes on, and a guard that cannot hold.
WarnedModels ==
  {Linked(Empty(3, 1), <<<<0, 0, 1, <<Compare("x", "<", 0), Compare("x", ">", 0)>>>>,
                         <<0, 0, 2, <<>>>>>>)}
=============================================================================
