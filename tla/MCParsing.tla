------------------------------ MODULE MCParsing ------------------------------
(***************************************************************************)
(* Every short text over the characters each scanner tells apart, and some *)
(* longer ones at the boundaries.  Integers are 5 bits wide: -12 .. 11.    *)
(***************************************************************************)
EXTENDS ParsingProperties, TLC

Upto(n, characters) == UNION {[1 .. k -> characters] : k \in 0 .. n}

Comparisons ==
  {left \o op \o right :
     left  \in {<<"a">>, <<"a", " ">>, <<"a", "a", "a">>},
     op    \in LongOperators \cup ShortOperators,
     right \in {<<"-", "1", "2">>, <<" ", "1", "2">>, <<"+", "1", "1">>, <<"-", "1", "3">>,
                <<"a", "=", "1">>, <<"a", " ", "a">>, <<"a", ">", "=", "1">>, <<"-">>,
                <<"\"", "\\">>, <<"\\", "\"">>, <<"<", ">">>}}

SomeTexts ==
  [args   |-> Upto(6, {" ", "=", "a", "b"})
                \cup {<<"a", "=", "\t", "b", "=", "a", "\n">>, <<"a", "=", " ", "b", "=", " ", "c", "=">>},
   number |-> Upto(5, {"+", "-", "0", "1", "2"}) \cup {<<"1", "a">>, <<"-", "9", "9", "9">>},
   guard  |-> Upto(5, {" ", "=", "!", "<", "a", "1", "-"}) \cup Comparisons]

\* The hypothesis of GuardsReadBack.
ASSUME NoEntityBegins == PlainGuards

SomeFormers == {NoArguments, [map |-> <<"a">> :> <<"1">>, raw |-> <<"a", "=", "1">>]}
=============================================================================
