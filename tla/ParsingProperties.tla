-------------------------- MODULE ParsingProperties --------------------------
(***************************************************************************)
(* What a text says, read off the text as a whole, and that the scanners   *)
(* of Parsing find just that.                                              *)
(***************************************************************************)
EXTENDS Parsing

\* What the members hold: names and tables within their capacities, and an
\* accumulator that leaves room in 64 bits, whatever the digits; an integer that
\* is handed out fits its type, and no scanner runs past the end of its text.
TypeOK ==
  /\ task \in Tasks
  /\ at \in Nat \ {0} /\ (task # "guard" => at <= Len(text) + 1)
  /\ stage \in {"clear", "words", "sign", "digits", "split", "literal", "done"}
  /\ Holdable(args)
  /\ number.negative \in BOOLEAN
  /\ number.value \in 0 .. 10 * (kIntMax + 1) + 9
  /\ number.out \in kIntMin .. kIntMax
  /\ \A c \in {condition, accepted} :
       Fits(c.arg) /\ Fits(c.literal) /\ c.number \in kIntMin .. kIntMax

\* A text that is refused half way leaves none of its pairs behind, and none of
\* what the object held before: the runtime hands args_ to guards as it is.
RefusedArgsLeaveNothing ==
  task = "args" /\ stage = "done" /\ status # "Ok" => args = NoArguments

-----------------------------------------------------------------------------
(* Arguments: the words between white space, each "key=value". *)

Word(t, i, j) ==
  /\ i <= j
  /\ \A k \in i .. j : t[k] \notin Spaces
  /\ i > 1 => t[i - 1] \in Spaces
  /\ j < Len(t) => t[j + 1] \in Spaces

\* The words of a text, by where they begin and end.
Words(t) == {w \in (DOMAIN t) \X (DOMAIN t) : Word(t, w[1], w[2])}

WrittenAt(t, w) == SubSeq(t, w[1], w[2])

\* The words that stand before one.
Before(t, w) == {v \in Words(t) : v[1] < w[1]}

\* A word says a pair if it has a key and an "=", the first of which ends the key.
Pairs(w) ==
  {[key |-> SubSeq(w, 1, e - 1), value |-> SubSeq(w, e + 1, Len(w))] :
     e \in {d \in 2 .. Len(w) : w[d] = "=" /\ \A k \in 1 .. d - 1 : w[k] # "="}}

KeyOf(w) == (CHOOSE p \in Pairs(w) : TRUE).key

\* What is wrong with a word, after the ones before it.
Fault(t, w) ==
  LET word == WrittenAt(t, w) IN
  IF Pairs(word) = {} THEN "ArgumentError"
  ELSE IF ~Fits(KeyOf(word)) THEN "NameTooLong"
  ELSE IF \E v \in Before(t, w) : \E p \in Pairs(WrittenAt(t, v)) : p.key = KeyOf(word)
       THEN "DuplicateName"
  ELSE IF Cardinality(Before(t, w)) >= kMaxArguments THEN "CapacityExceeded"
  ELSE "Ok"

\* An Args holds the pairs the text says, one for each word and no other, or
\* answers what is wrong with the first word that has something wrong.
ArgsAsWritten ==
  task = "args" /\ stage = "done" =>
    LET faulty == {w \in Words(text) : Fault(text, w) # "Ok"}
    IN  IF faulty = {}
        THEN /\ status = "Ok" /\ args.raw = text
             /\ {[key |-> key, value |-> args.map[key]] : key \in DOMAIN args.map}
                  = UNION {Pairs(WrittenAt(text, w)) : w \in Words(text)}
        ELSE \E w \in faulty : status = Fault(text, w) /\ \A v \in faulty : w[1] <= v[1]

-----------------------------------------------------------------------------
(* Integers *)

Unsigned(t) == IF t # <<>> /\ t[1] \in {"+", "-"} THEN Tail(t) ELSE t

IsNumeral(t) == Unsigned(t) # <<>> /\ \A i \in DOMAIN Unsigned(t) : IsDigit(Unsigned(t)[i])

\* What each initial part of a row of digits is worth.
Worth(digits) ==
  LET worth[n \in 0 .. Len(digits)] ==
        IF n = 0 THEN 0 ELSE 10 * worth[n - 1] + DigitValue(digits[n])
  IN  worth

Magnitude(t) == Worth(Unsigned(t))[Len(Unsigned(t))]
Denoted(t)   == IF t[1] = "-" THEN -Magnitude(t) ELSE Magnitude(t)

\* The integers that fit an int32, both bounds included.
IsInt32(t) == IsNumeral(t) /\ Denoted(t) \in kIntMin .. kIntMax

\* Exactly the numerals that fit are integers, and each is the one it denotes:
\* the accumulator is never a digit behind, and -2147483648 is one of them.
NumbersAsWritten ==
  task = "number" /\ stage = "done" =>
    /\ status = "Ok" <=> IsInt32(text)
    /\ status = "Ok" => number.out = Denoted(text)

-----------------------------------------------------------------------------
(* Guards: read from the first "<", ">" or "=" outwards. *)

Anchors(t) == {i \in DOMAIN t : t[i] \in {"<", ">", "="}}
Anchor(t)  == CHOOSE i \in Anchors(t) : \A j \in Anchors(t) : i <= j

OperatorFrom(t) ==
  IF t[Anchor(t)] = "=" /\ Anchor(t) > 1 /\ t[Anchor(t) - 1] = "!"
  THEN Anchor(t) - 1 ELSE Anchor(t)
OperatorTo(t) ==
  IF OperatorFrom(t) = Anchor(t) /\ Anchor(t) < Len(t) /\ t[Anchor(t) + 1] = "="
  THEN Anchor(t) + 1 ELSE Anchor(t)

Reads(s, c) == [status |-> s, condition |-> c]

Comparison(left, op, right) ==
  LET read == [NoCondition EXCEPT !.arg = left, !.op = Meaning(op)] IN
  IF left = <<>> \/ right = <<>> THEN Reads("SchemaError", NoCondition)
  ELSE IF Len(left) > kMaxNameLength THEN Reads("NameTooLong", NoCondition)
  ELSE IF IsInt32(right)
       THEN Reads("Ok", [read EXCEPT !.numeric = TRUE, !.number = Denoted(right)])
  ELSE IF op[1] \in {"<", ">"} THEN Reads("SchemaError", read)
  ELSE IF Len(right) > kMaxNameLength THEN Reads("NameTooLong", read)
  ELSE Reads("Ok", [read EXCEPT !.literal = right])

Reading(t) ==
  IF Anchors(t) = {} THEN Reads("SchemaError", NoCondition)
  ELSE Comparison(Trimmed(SubSeq(t, 1, OperatorFrom(t) - 1)),
                  SubSeq(t, OperatorFrom(t), OperatorTo(t)),
                  Trimmed(SubSeq(t, OperatorTo(t) + 1, Len(t))))

\* A guard compares what the text says with the operator it says, an integer as
\* an integer and anything else as a word; so no word that is compared is an
\* integer, which is what Condition takes for granted.
GuardAsWritten ==
  task = "guard" /\ stage = "done" =>
    Reads(status, condition) = Reading(text)

\* Guards in which no character begins an entity of Mermaid's: emit_escaped spells
\* three characters as entities, and leaves "#" as it is.
PlainGuards == \A t \in Texts["guard"] : \A i \in DOMAIN t : t[i] # "#"

\* A guard that is printed, by the linter or in a diagram, says what it said:
\* parsed again it is the same guard, the least integer and words that hold
\* operators, quotes or backslashes included.
GuardReadsBack ==
  accepted # NoCondition /\ stage = "done" => status = "Ok" /\ condition = accepted
=============================================================================
