------------------------------ MODULE MCLoader ------------------------------
(***************************************************************************)
(* Documents: every family varies one part of a document that would load,  *)
(* from what loads to what no pass accepts.                                *)
(***************************************************************************)
EXTENDS LoaderProperties

\* A mapping with such keys, in this order.
Of(pairs) == Map([i \in DOMAIN pairs |-> <<Scalar(pairs[i][1]), pairs[i][2]>>])

Alone(key, node) == Of(<<<<key, node>>>>)
Named(text)      == Alone("name", Scalar(text))
ListOf(S, sizes) == {List(items) : items \in UNION {[1 .. n -> S] : n \in sizes}}

Beyond(number) == [arg |-> "x", op |-> ">", numeric |-> TRUE, number |-> number, literal |-> ""]

MCReadings == ("x > 1" :> Beyond(1)) @@ ("x > 2" :> Beyond(2))

-----------------------------------------------------------------------------

ABC == List(<<Named("a"), Named("b"), Named("c")>>)
ST  == List(<<Named("s"), Named("t")>>)

Unlikely == {Blank, Scalar("s"), List(<<>>), Of(<<>>)}

Heads == Unlikely \cup {Alone("initial", node) : node \in
                          {Blank, Scalar("s"), Scalar(""), Scalar("long"), List(<<>>)}}
                  \cup {Named("s"), Named("long"), Alone("name", List(<<>>))}
                  \cup {Of(<<<<"name", name>>, <<"initial", Scalar("s")>>>>) :
                          name \in {Blank, Scalar("s"), Scalar("long"), List(<<>>)}}

TriggerEntries ==
  {Scalar("a"), Of(<<>>), Alone("name", List(<<>>)), Alone("name", Blank)}
  \cup {Named(text) : text \in {"a", "b", "", "long"}}
  \cup {Of(<<<<"name", Scalar("a")>>, <<"channel", channel>>>>) :
          channel \in {Blank, Scalar("b"), Scalar(""), Scalar("long"), List(<<>>)}}

StateEntries ==
  {Scalar("s"), Of(<<>>), Alone("name", List(<<>>))}
  \cup {Named(text) : text \in {"s", "t", "", "long"}}

\* What a document may say beside a list of triggers and a list of states.
Machines ==
  {Of(<<<<"fsm", head>>, <<"triggers", ABC>>, <<"states", ST>>>>) : head \in Heads}
  \cup {Of(<<<<"io", io>>, <<"triggers", ABC>>, <<"states", ST>>>>) : io \in {Blank, Of(<<>>)}}
  \cup {Of(<<<<"triggers", ABC>>, <<"states", node>>>>) :
          node \in Unlikely \cup ListOf(StateEntries, 1 .. 2)
                           \cup ListOf({Named(text) : text \in {"s", "t", "u"}}, {3})}
  \cup {Of(<<<<"triggers", node>>, <<"states", ST>>>>) :
          node \in Unlikely \cup ListOf(TriggerEntries, 1 .. 2)
                           \cup ListOf({Named(text) : text \in {"a", "b", "c", "d"}}, 3 .. 4)}
  \cup {Alone("triggers", ABC), Alone("states", ST)}

Comparisons == {Scalar("x > 1"), Scalar("x > 2")}

Whens == Comparisons \cup {Blank, Scalar("x"), Scalar("long"), Of(<<>>)}
           \cup ListOf(Comparisons, 0 .. 2)
           \cup {List(<<Scalar("x > 1"), Scalar("x > 2"), last>>) :
                   last \in {Scalar("x > 1"), Scalar("x"), Of(<<>>)}}

To(name)         == Alone("target", Scalar(name))
When(when, name) == Of(<<<<"when", when>>, <<"target", Scalar(name)>>>>)

AnyAlternative ==
  {Scalar("t"), Of(<<>>), Alone("when", Scalar("x > 1")), Alone("target", List(<<>>)),
   To("t"), To("u")} \cup {When(when, "t") : when \in Whens}

Both == When(List(<<Scalar("x > 1"), Scalar("x > 2")>>), "t")

Outcomes ==
  {Blank, Scalar("s"), Scalar("t"), Scalar("u")} \cup AnyAlternative
  \cup ListOf({To("s"), Both, Scalar("t")}, 0 .. 3)

Some == {Scalar("t"), Scalar("u"), To("s"), Both, List(<<To("s"), Both>>)}

Keys == {Blank, List(<<>>), Scalar("a"), Scalar("b"), Scalar("d")}

Transitions ==
  Unlikely \cup {Map(<<<<key, Scalar("t")>>>>) : key \in Keys}
  \cup {Alone("a", outcome) : outcome \in Outcomes}
  \cup {Of(<<<<"a", first>>, <<key, second>>>>) : key \in {"a", "b"}, first, second \in Some}
  \cup {Of(<<<<"c", last>>, <<"b", Scalar("t")>>, <<key, Scalar("s")>>>>) :
          key \in {"a", "b", "c"}, last \in Some}

\* Two states: what leads from the first, which is linked first, to either.
Linked(first, second) ==
  Of(<<<<"triggers", ABC>>,
       <<"states", List(<<Of(<<<<"name", Scalar("s")>>, <<"transitions", first>>>>),
                          Of(<<<<"name", Scalar("t")>>, <<"transitions", second>>>>)>>)>>>>)

Linkeds ==
  {Linked(transitions, Of(<<>>)) : transitions \in Transitions}
  \cup {Linked(Alone("a", first), Alone("b", second)) : first, second \in Some}

Ios ==
  Unlikely \cup {Alone(field, node) : field \in Fields,
                                      node \in {Blank, Scalar("s"), Scalar("long"), List(<<>>)}}
  \cup {Of(<<<<"endpoint", Scalar("s")>>, <<"identity", Scalar("t")>>>>)}

Setups ==
  {Alone("fsm", head) : head \in Heads}
  \cup {Of(<<<<"fsm", Alone("initial", Scalar("s"))>>, <<"io", io>>>>) : io \in Ios}

-----------------------------------------------------------------------------

RECURSIVE Within(_)
Within(node) ==
  {node} \cup (IF IsList(node) THEN UNION {Within(node.items[i]) : i \in DOMAIN node.items}
               ELSE IF IsMap(node)
               THEN UNION {Within(node.pairs[i][1]) \cup Within(node.pairs[i][2]) :
                             i \in DOMAIN node.pairs}
               ELSE {})

Roots    == Unlikely \cup Machines \cup Linkeds \cup Setups
AllNodes == UNION {Within(root) : root \in Roots}

Given(how)  == [given |-> how, root |-> Blank]
Tree(root)  == [given |-> "tree", root |-> root]

AllSources == {Given(how) : how \in {"null", "missing", "unreadable", "malformed"}}
                \cup {Tree(root) : root \in Roots}

\* By these names TLC evaluates the two sets only once.
MCNodes   == AllNodes
MCSources == AllSources

MCFormers ==
  ("machine" :> {EmptyModel, DeclareState(EmptyModel, "u").model})
  @@ ("setup" :> {EmptySetup, [EmptySetup EXCEPT !.initial = "u", !.io["identity"] = "u"]})
=============================================================================
