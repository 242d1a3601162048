------------------------------- MODULE Parsing -------------------------------
(***************************************************************************)
(* How text becomes arguments, integers and guards: Args::parse, parse_int *)
(* and parse_condition, and append_condition and emit_escaped, which turn  *)
(* a guard back into text.  Condition, Loader and Diagram begin where this *)
(* module ends.                                                            *)
(*                                                                         *)
(* A text is a sequence of characters, a character a string of length one. *)
(* One behaviour is one call: a step per word, or per digit.  A guard that *)
(* was accepted is printed and parsed a second time.                       *)
(***************************************************************************)
EXTENDS Integers, FiniteSets, Sequences

CONSTANTS
  Texts,          \* the texts of a behaviour, by task
  Formers,        \* what the Args that is parsed into may hold already
  kIntMax,        \* 2147483647; TLC's own integers need it smaller
  kMaxNameLength, \* limits.hpp: the characters a name holds
  kMaxArguments   \* limits.hpp: the pairs an Args holds

Tasks == {"args", "number", "guard"}

NoArguments == [map |-> <<>>, raw |-> <<>>]

Fits(name) == Len(name) <= kMaxNameLength

\* What an Args can hold.
Holdable(a) ==
  /\ DOMAIN a = DOMAIN NoArguments
  /\ \A key \in DOMAIN a.map : Fits(key)
  /\ IsFiniteSet(DOMAIN a.map) /\ Cardinality(DOMAIN a.map) <= kMaxArguments

ASSUME TextAssumption ==
  /\ Texts \in [Tasks -> SUBSET Seq(STRING)]
  /\ \A former \in Formers : Holdable(former)
ASSUME WidthAssumption == kIntMax \in Nat \ {0}
ASSUME LengthAssumption == kMaxNameLength \in Nat \ {0} /\ kMaxArguments \in Nat

VARIABLES
  task,      \* what is parsed
  text,      \* what it is parsed from
  stage,     \* where the call is
  at,        \* the position of the character that is looked at next
  status,    \* what the call returned
  args,      \* the Args that is parsed into
  number,    \* the int32 that is being converted
  condition, \* the Condition that is parsed into
  accepted   \* the guard that was printed, once it was

vars == <<task, text, stage, at, status, args, number, condition, accepted>>

kIntMin == -kIntMax - 1

Spaces == {" ", "\t", "\r", "\n"}
Digits == <<"0", "1", "2", "3", "4", "5", "6", "7", "8", "9">>

IsDigit(c)    == \E d \in 1 .. 10 : Digits[d] = c
DigitValue(c) == (CHOOSE d \in 1 .. 10 : Digits[d] = c) - 1

\* An operator is the text it is written as; a single "=" is read as equality.
LongOperators  == {<<"=", "=">>, <<"!", "=">>, <<"<", "=">>, <<">", "=">>}
ShortOperators == {<<"<">>, <<">">>, <<"=">>}
Equal          == <<"=", "=">>
Meaning(op)    == IF op = <<"=">> THEN Equal ELSE op
IsOrdering(op) == op[1] \in {"<", ">"}

\* The first position of `t`, from `i` on, where a character of S stands, or one
\* past the end.
FirstIn(t, i, S) ==
  CHOOSE j \in i .. Len(t) + 1 :
    /\ j = Len(t) + 1 \/ t[j] \in S
    /\ \A k \in i .. j - 1 : t[k] \notin S

FirstNotIn(t, i, S) == FirstIn(t, i, {t[k] : k \in 1 .. Len(t)} \ S)

NoNumber    == [of |-> <<>>, negative |-> FALSE, value |-> 0, out |-> 0]
NoCondition == [arg |-> <<>>, op |-> Equal, numeric |-> FALSE, number |-> 0, literal |-> <<>>]

Init ==
  /\ task \in Tasks /\ text \in Texts[task]
  /\ stage = CASE task = "args" -> "clear" [] task = "number" -> "sign" [] OTHER -> "split"
  /\ args \in IF task = "args" THEN Formers ELSE {NoArguments}
  /\ at = 1 /\ status = "none" /\ number = NoNumber
  /\ condition = NoCondition /\ accepted = NoCondition

Return(s) == stage' = "done" /\ status' = s

-----------------------------------------------------------------------------
(* Args::parse *)

NextWord == FirstNotIn(text, at, Spaces)
WordEnd  == FirstIn(text, NextWord, Spaces)
Token    == SubSeq(text, NextWord, WordEnd - 1)
Equals   == FirstIn(Token, 1, {"="})
Key      == SubSeq(Token, 1, Equals - 1)
Value    == SubSeq(Token, Equals + 1, Len(Token))

\* A mistake WordStatus must not make: the last value of a key is kept.
LastWins ==
  IF Equals > Len(Token) \/ Equals = 1 THEN "ArgumentError"
  ELSE IF ~Fits(Key) THEN "NameTooLong"
  ELSE IF Key \notin DOMAIN args.map /\ Cardinality(DOMAIN args.map) >= kMaxArguments
       THEN "CapacityExceeded"
  ELSE "Ok"

WordStatus ==
  IF Equals > Len(Token) \/ Equals = 1 THEN "ArgumentError"
  ELSE IF ~Fits(Key) THEN "NameTooLong"
  ELSE IF Key \in DOMAIN args.map THEN "DuplicateName"
  ELSE IF Cardinality(DOMAIN args.map) >= kMaxArguments THEN "CapacityExceeded"
  ELSE "Ok"

\* clear(), then raw_ = text.
ClearArgs ==
  /\ stage = "clear"
  /\ args' = [NoArguments EXCEPT !.raw = text]
  /\ stage' = "words"
  /\ UNCHANGED <<task, text, at, status, number, condition, accepted>>

\* A mistake Refused must not make: what was stored before is kept.
KeepsStored(s) == IF s = "ArgumentError" THEN NoArguments ELSE args

\* Args::clear, on whichever way out.
Refused(s) == NoArguments

ParseWord ==
  /\ stage = "words" /\ NextWord <= Len(text)
  /\ IF WordStatus = "Ok"
     THEN /\ args' = [args EXCEPT !.map =
                        [key \in DOMAIN @ \cup {Key} |-> IF key = Key THEN Value ELSE @[key]]]
          /\ at' = WordEnd
          /\ UNCHANGED <<stage, status>>
     ELSE args' = Refused(WordStatus) /\ Return(WordStatus) /\ UNCHANGED at
  /\ UNCHANGED <<task, text, number, condition, accepted>>

EndOfWords ==
  /\ stage = "words" /\ NextWord > Len(text)
  /\ Return("Ok")
  /\ UNCHANGED <<task, text, at, args, number, condition, accepted>>

-----------------------------------------------------------------------------
(* parse_int, of a text of its own or of the right side of a guard *)

Converted == IF task = "guard" THEN number.of ELSE text

\* To a guard, a right side that is no integer is a word.
NotANumber ==
  IF task = "guard"
  THEN stage' = "literal" /\ UNCHANGED <<status, condition>>
  ELSE Return("NotANumber") /\ UNCHANGED condition

\* `out` is assigned on success only.
IsANumber(n) ==
  /\ number' = [number EXCEPT !.out = n]
  /\ Return("Ok")
  /\ condition' = IF task = "guard"
                  THEN [condition EXCEPT !.numeric = TRUE, !.number = n] ELSE condition

ReadSign ==
  /\ stage = "sign"
  /\ LET signed == Converted # <<>> /\ Converted[1] \in {"+", "-"} IN
     IF Len(Converted) = (IF signed THEN 1 ELSE 0)
     THEN NotANumber /\ UNCHANGED <<number, at>>
     ELSE /\ stage' = "digits" /\ at' = IF signed THEN 2 ELSE 1
          /\ number' = [number EXCEPT !.negative = Converted[1] = "-"]
          /\ UNCHANGED <<status, condition>>
  /\ UNCHANGED <<task, text, args, accepted>>

\* A mistake TooLarge must not make: only the final value is looked at.
OnlyAtTheEnd(value) == FALSE

\* One more than kIntMax may yet get a minus sign.
TooLarge(value) == value > kIntMax + 1

ReadDigit ==
  /\ stage = "digits" /\ at <= Len(Converted)
  /\ LET c     == Converted[at]
         value == number.value * 10 + DigitValue(c)
     IN  IF ~IsDigit(c)
         THEN NotANumber /\ UNCHANGED <<number, at>>
         ELSE /\ number' = [number EXCEPT !.value = value]
              /\ at' = at + 1
              /\ IF TooLarge(value)
                 THEN NotANumber ELSE UNCHANGED <<stage, status, condition>>
  /\ UNCHANGED <<task, text, args, accepted>>

\* A mistake InRange must not make: the bounds are taken to be symmetric.
Symmetric(n) == n <= kIntMax /\ n >= -kIntMax

InRange(n) == n <= kIntMax /\ n >= kIntMin

CheckRange ==
  /\ stage = "digits" /\ at > Len(Converted)
  /\ LET signed == IF number.negative THEN -number.value ELSE number.value IN
     IF InRange(signed) THEN IsANumber(signed) ELSE NotANumber /\ UNCHANGED number
  /\ UNCHANGED <<task, text, at, args, accepted>>

-----------------------------------------------------------------------------
(* parse_condition *)

Trimmed(t) ==
  LET written == {i \in DOMAIN t : t[i] \notin Spaces} IN
  IF written = {} THEN <<>>
  ELSE LET first == CHOOSE i \in written : \A j \in written : i <= j
           last  == CHOOSE i \in written : \A j \in written : i >= j
       IN  SubSeq(t, first, last)

StandsAt(t, i, op) == i + Len(op) - 1 <= Len(t) /\ SubSeq(t, i, i + Len(op) - 1) = op

\* A mistake OperatorsAt must not make: the short operators are tried first.
ShortestAt(t, i) ==
  LET short == {op \in ShortOperators : StandsAt(t, i, op)} IN
  IF short # {} THEN short ELSE {op \in LongOperators : StandsAt(t, i, op)}

\* The longest match wins, so "<=" is not read as "<".
OperatorsAt(t, i) ==
  LET long == {op \in LongOperators : StandsAt(t, i, op)} IN
  IF long # {} THEN long ELSE {op \in ShortOperators : StandsAt(t, i, op)}

\* Where the first operator stands, if any does.
Positions(t) ==
  {i \in DOMAIN t : OperatorsAt(t, i) # {} /\ \A j \in 1 .. i - 1 : OperatorsAt(t, j) = {}}

\* What is left of the operator and what is right of it, and the operator.
Splits(t) ==
  {[left |-> Trimmed(SubSeq(t, 1, i - 1)), op |-> op,
    right |-> Trimmed(SubSeq(t, i + Len(op), Len(t)))] :
     i \in Positions(t), op \in UNION {OperatorsAt(t, i) : i \in Positions(t)}}

Split ==
  /\ stage = "split"
  /\ LET sides == {s \in Splits(Trimmed(text)) : s.left # <<>> /\ s.right # <<>>} IN
     \/ /\ sides = {}
        /\ Return("SchemaError") /\ UNCHANGED <<condition, number>>
     \/ \E s \in sides :
          IF Fits(s.left)
          THEN /\ condition' = [NoCondition EXCEPT !.arg = s.left, !.op = Meaning(s.op)]
               /\ number' = [NoNumber EXCEPT !.of = s.right]
               /\ stage' = "sign" /\ UNCHANGED status
          ELSE Return("NameTooLong") /\ UNCHANGED <<condition, number>>
  /\ UNCHANGED <<task, text, at, args, accepted>>

\* A word is compared for equality only.
ParseLiteral ==
  /\ stage = "literal"
  /\ IF IsOrdering(condition.op) THEN Return("SchemaError") /\ UNCHANGED condition
     ELSE IF ~Fits(number.of) THEN Return("NameTooLong") /\ UNCHANGED condition
     ELSE condition' = [condition EXCEPT !.literal = number.of] /\ Return("Ok")
  /\ UNCHANGED <<task, text, at, args, number, accepted>>

-----------------------------------------------------------------------------
(* append_condition *)

\* The digits of the natural numbers up to one, as append_int collects them.
Decimals(most) ==
  LET decimal[n \in 0 .. most] ==
        IF n < 10 THEN <<Digits[n + 1]>> ELSE Append(decimal[n \div 10], Digits[(n % 10) + 1])
  IN  decimal

Decimal(n) == Decimals(n)[n]

\* A mistake Integer must not make: the negation is done in 32 bits, where the
\* least integer has none.
ClippedInteger(n) ==
  IF n < 0 THEN <<"-">> \o Decimal(IF n = kIntMin THEN kIntMax ELSE -n) ELSE Decimal(n)

Integer(n) == IF n < 0 THEN <<"-">> \o Decimal(-n) ELSE Decimal(n)

Printed(c) ==
  c.arg \o <<" ">> \o c.op \o <<" ">> \o (IF c.numeric THEN Integer(c.number) ELSE c.literal)

\* Where a guard is printed: in a finding of the linter, or in a diagram, which
\* spells some characters in another way.
Places == {"finding", "mermaid", "dot"}

Quote     == "\""
Backslash == "\\"
Special   == {"<", ">", Quote, Backslash}

\* A mistake Spelling must not make: dot is not told of a backslash.
OnlyQuotes(place, c) == IF place = "dot" /\ c = Quote THEN <<Backslash, c>> ELSE <<c>>

Spelling(place, c) ==
  CASE place = "mermaid" /\ c = "<"  -> <<"#", "l", "t", ";">>
    [] place = "mermaid" /\ c = ">"  -> <<"#", "g", "t", ";">>
    [] place = "mermaid" /\ c = Quote -> <<"#", "q", "u", "o", "t", ";">>
    [] place = "dot" /\ c \in {Quote, Backslash} -> <<Backslash, c>>
    [] OTHER -> <<c>>

\* How each initial part of a text is spelled.
Spelled(place, t) ==
  LET spelled[n \in 0 .. Len(t)] ==
        IF n = 0 THEN <<>> ELSE spelled[n - 1] \o Spelling(place, t[n])
  IN  spelled

Escaped(place, t) == Spelled(place, t)[Len(t)]

\* How a tool reads a label: an entity in Mermaid begins with "#", an escape in
\* dot with a backslash, and either stands for what is spelled like it.
Begins(place) == CASE place = "mermaid" -> {"#"} [] place = "dot" -> {Backslash} [] OTHER -> {}

Read(place, seen, c) ==
  LET entity  == Append(seen.entity, c)
      spelled == {d \in Special : Spelling(place, d) = entity}
  IN  IF seen.entity = <<>> /\ c \notin Begins(place) THEN [seen EXCEPT !.text = Append(@, c)]
      ELSE IF seen.entity # <<>> /\ spelled # {}
      THEN [entity |-> <<>>, text |-> Append(seen.text, CHOOSE d \in spelled : TRUE)]
      ELSE [seen EXCEPT !.entity = entity]

Seen(place, t) ==
  LET seen[n \in 0 .. Len(t)] ==
        IF n = 0 THEN [entity |-> <<>>, text |-> <<>>] ELSE Read(place, seen[n - 1], t[n])
  IN  seen

Shown(place, t) == Seen(place, t)[Len(t)].text

\* The guard that was accepted is printed, and what is shown of it parsed: it is
\* what a reader of a finding or of a diagram copies back into a file.
PrintGuard ==
  /\ task = "guard" /\ stage = "done" /\ status = "Ok" /\ accepted = NoCondition
  /\ accepted' = condition
  /\ \E place \in Places : text' = Shown(place, Escaped(place, Printed(condition)))
  /\ stage' = "split" /\ at' = 1 /\ status' = "none"
  /\ condition' = NoCondition /\ number' = NoNumber
  /\ UNCHANGED <<task, args>>

-----------------------------------------------------------------------------

Next ==
  \/ ClearArgs \/ ParseWord \/ EndOfWords
  \/ ReadSign \/ ReadDigit \/ CheckRange
  \/ Split \/ ParseLiteral \/ PrintGuard

Spec == Init /\ [][Next]_vars
=============================================================================
