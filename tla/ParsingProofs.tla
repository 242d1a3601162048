---------------------------- MODULE ParsingProofs ----------------------------
(***************************************************************************)
(* What Parsing keeps for every text, capacity and width of an integer.    *)
(***************************************************************************)
EXTENDS ParsingProperties, FiniteSetTheorems, SequenceTheorems, WellFoundedInduction, TLAPS

USE TextAssumption, WidthAssumption, LengthAssumption

\* The characters of a text: the strings, among them the ones that are written
\* here.  They are named because no prover sees that a literal is a string.
Characters ==
  STRING \cup {"0", "1", "2", "3", "4", "5", "6", "7", "8", "9", "-", " ", "=", "!", "<", ">"}
         \cup {"\"", "\\", "#", ";", "l", "t", "g", "q", "u", "o"}

LEMMA Letters ==
  /\ {"0", "1", "2", "3", "4", "5", "6", "7", "8", "9", "-", " ", "=", "!", "<", ">"} \subseteq Characters
  /\ {"\"", "\\", "#", ";", "l", "t", "g", "q", "u", "o"} \subseteq Characters
BY DEF Characters

LEMMA TextOfInit == Init => text \in Seq(Characters)
<1> SUFFICES ASSUME Init PROVE text \in Seq(Characters)
  OBVIOUS
<1>1. STRING \subseteq Characters
  BY DEF Characters
<1>2. text \in Seq(STRING)
  BY DEF Init, Tasks
<1> QED BY <1>1, <1>2, SeqMonotonic

\* A set of natural numbers has a least: what induction is done with here.
LEMMA LeastOf ==
  ASSUME NEW S \in SUBSET Nat, S # {}
  PROVE  \E j \in S : \A k \in S : j <= k
<1> DEFINE less == {p \in Nat \X Nat : p[1] < p[2]}
<1>1. IsWellFoundedOn(less, Nat)
  BY NatLessThanWellFounded DEF OpToRel
<1>2. PICK j \in S : \A k \in S : <<k, j>> \notin less
  <2> HIDE DEF less
  <2> QED BY <1>1, WFMin
<1>3. ASSUME NEW k \in S PROVE j <= k
  <2>1. k \in Nat /\ j \in Nat /\ <<k, j>> \notin less
    BY <1>2, <1>3
  <2>2. <<k, j>> \in Nat \X Nat /\ <<k, j>>[1] = k /\ <<k, j>>[2] = j
    BY <2>1
  <2>3. ~(k < j)
    BY <2>1, <2>2
  <2> QED BY <2>1, <2>3
<1> QED BY <1>3

\* The scan of a text stops at a position of the text, or one past its end, and
\* at the first such position.
LEMMA FirstInText ==
  ASSUME NEW t \in Seq(Characters), NEW i \in 1 .. Len(t) + 1, NEW S
  PROVE  /\ FirstIn(t, i, S) \in i .. Len(t) + 1
         /\ FirstIn(t, i, S) = Len(t) + 1 \/ t[FirstIn(t, i, S)] \in S
         /\ \A k \in i .. FirstIn(t, i, S) - 1 : t[k] \notin S
<1> DEFINE stops == {j \in i .. Len(t) + 1 : j = Len(t) + 1 \/ t[j] \in S}
<1>1. Len(t) \in Nat
  OBVIOUS
<1>2. stops \in SUBSET Nat /\ Len(t) + 1 \in stops
  BY <1>1
<1>3. PICK j \in stops : \A k \in stops : j <= k
  <2> HIDE DEF stops
  <2> QED BY <1>2, LeastOf
<1>4. \A k \in i .. j - 1 : t[k] \notin S
  <2> SUFFICES ASSUME NEW k \in i .. j - 1, t[k] \in S PROVE FALSE
    OBVIOUS
  <2>1. k \in stops
    BY <1>1, <1>3
  <2> QED BY <1>1, <1>3, <2>1
<1>5. /\ j \in i .. Len(t) + 1
      /\ j = Len(t) + 1 \/ t[j] \in S
      /\ \A k \in i .. j - 1 : t[k] \notin S
  BY <1>3, <1>4
<1> HIDE DEF stops
<1> QED BY <1>5 DEF FirstIn

\* A digit is worth less than ten.
LEMMA DigitBelowTen ==
  ASSUME NEW c, IsDigit(c)
  PROVE  DigitValue(c) \in 0 .. 9
<1>1. \E d \in 1 .. 10 : Digits[d] = c
  BY DEF IsDigit
<1>2. (CHOOSE d \in 1 .. 10 : Digits[d] = c) \in 1 .. 10
  BY <1>1
<1> QED BY <1>2 DEF DigitValue

\* An Args with one more pair than it held, for which it has room.
LEMMA OneMorePair ==
  ASSUME NEW a, Holdable(a), NEW key, NEW map,
         Fits(key), key \notin DOMAIN a.map,
         Cardinality(DOMAIN a.map) < kMaxArguments,
         DOMAIN map = DOMAIN a.map \cup {key}
  PROVE  Holdable([a EXCEPT !.map = map])
<1> DEFINE b == [a EXCEPT !.map = map]
<1>1. b.map = map /\ DOMAIN b = DOMAIN NoArguments
  BY DEF Holdable, NoArguments
<1>2. IsFiniteSet(DOMAIN map) /\ Cardinality(DOMAIN map) = Cardinality(DOMAIN a.map) + 1
  BY FS_AddElement DEF Holdable
<1>3. Cardinality(DOMAIN a.map) \in Nat
  BY FS_CardinalityType DEF Holdable
<1>4. Cardinality(DOMAIN map) <= kMaxArguments
  BY <1>2, <1>3
<1>5. \A k \in DOMAIN map : Fits(k)
  BY DEF Holdable
<1> HIDE DEF b
<1>6. Holdable(b)
  BY <1>1, <1>2, <1>4, <1>5 DEF Holdable
<1> QED BY <1>6 DEF b

LEMMA NothingIsHoldable == Holdable(NoArguments)
<1>1. DOMAIN NoArguments.map = {}
  BY DEF NoArguments
<1> QED BY <1>1, FS_EmptySet DEF Holdable

-----------------------------------------------------------------------------

\* What TypeOK needs to be inductive: the text is one, and the accumulator was
\* not too large before the digit that is read next.
Scanning ==
  /\ DOMAIN accepted = DOMAIN NoCondition
  /\ task # "guard" => text \in Seq(Characters)
  /\ stage \in {"clear", "words"} => task = "args"
  /\ stage \in {"split", "literal"} => task = "guard"
  /\ stage \in {"sign", "digits"} => number.value <= kIntMax + 1
  /\ DOMAIN number = DOMAIN NoNumber
  /\ DOMAIN condition = DOMAIN NoCondition

Inv == TypeOK /\ Scanning

LEMMA InitInv == Init => Inv
<1> SUFFICES ASSUME Init PROVE Inv
  OBVIOUS
<1>1. /\ text \in Seq(Characters) /\ task \in Tasks /\ at = 1 /\ Len(text) \in Nat
      /\ stage \in {"clear", "words"} => task = "args"
      /\ stage \in {"split", "literal"} => task = "guard"
  BY TextOfInit DEF Init, Tasks
<1>2. Holdable(args)
  BY NothingIsHoldable DEF Init
<1>3. /\ stage \in {"clear", "sign", "split"}
      /\ number = NoNumber /\ condition = NoCondition /\ accepted = NoCondition
  BY DEF Init
<1>4. /\ Fits(<<>>) /\ 0 \in kIntMin .. kIntMax
      /\ 0 \in 0 .. 10 * (kIntMax + 1) + 9
  BY DEF Fits, kIntMin
<1>5. TypeOK
  BY <1>1, <1>2, <1>3, <1>4 DEF TypeOK, NoNumber, NoCondition
<1>6. Scanning
  BY <1>1, <1>3 DEF Scanning, NoNumber
<1> QED BY <1>5, <1>6 DEF Inv

LEMMA StepArgs ==
  ASSUME Inv, ClearArgs \/ ParseWord \/ EndOfWords
  PROVE  Inv'
<1> USE DEF Inv
<1>1. CASE ClearArgs
  <2>1. Holdable(args')
    <3>1. [NoArguments EXCEPT !.raw = text].map = NoArguments.map
      BY DEF NoArguments
    <3>2. DOMAIN [NoArguments EXCEPT !.raw = text] = DOMAIN NoArguments
      OBVIOUS
    <3> QED BY <1>1, <3>1, <3>2, NothingIsHoldable DEF ClearArgs, Holdable
  <2> QED BY <1>1, <2>1 DEF ClearArgs, TypeOK, Scanning
<1>2. CASE EndOfWords
  BY <1>2 DEF EndOfWords, Return, TypeOK, Scanning
<1>3. CASE ParseWord
  <2>1. CASE WordStatus # "Ok"
    BY <1>3, <2>1, NothingIsHoldable DEF ParseWord, Refused, Return, TypeOK, Scanning
  <2>2. CASE WordStatus = "Ok" /\ task # "guard"
    <3>1. /\ Fits(Key) /\ Key \notin DOMAIN args.map
          /\ Cardinality(DOMAIN args.map) < kMaxArguments
      <4>1. Cardinality(DOMAIN args.map) \in Nat
        BY FS_CardinalityType DEF TypeOK, Holdable
      <4> QED BY <2>2, <4>1 DEF WordStatus
    <3>2. Holdable(args')
      <4> DEFINE map == [key \in DOMAIN args.map \cup {Key} |->
                           IF key = Key THEN Value ELSE args.map[key]]
      <4>1. args' = [args EXCEPT !.map = map]
        BY <1>3, <2>2 DEF ParseWord
      <4>2. DOMAIN map = DOMAIN args.map \cup {Key}
        OBVIOUS
      <4> HIDE DEF map
      <4> QED BY <3>1, <4>1, <4>2, OneMorePair DEF TypeOK
    <3>3. text \in Seq(Characters) /\ at \in 1 .. Len(text) + 1
      BY <2>2 DEF TypeOK, Scanning
    <3>4. NextWord \in at .. Len(text) + 1
      BY <3>3, FirstInText DEF NextWord, FirstNotIn
    <3>5. WordEnd \in 1 .. Len(text) + 1
      BY <3>3, <3>4, FirstInText DEF WordEnd
    <3>6. at' \in Nat \ {0} /\ at' <= Len(text) + 1
      BY <1>3, <2>2, <3>3, <3>5 DEF ParseWord
    <3> QED BY <1>3, <2>2, <3>2, <3>6 DEF ParseWord, TypeOK, Scanning
  <2>3. task # "guard"
    BY <1>3 DEF ParseWord, Scanning
  <2> QED BY <1>3, <2>1, <2>2, <2>3 DEF ParseWord
<1> QED BY <1>1, <1>2, <1>3

-----------------------------------------------------------------------------

NumberOK(n) ==
  /\ DOMAIN n = DOMAIN NoNumber /\ n.negative \in BOOLEAN
  /\ n.value \in 0 .. 10 * (kIntMax + 1) + 9 /\ n.out \in kIntMin .. kIntMax

ConditionOK(c) ==
  /\ DOMAIN c = DOMAIN NoCondition
  /\ Fits(c.arg) /\ Fits(c.literal) /\ c.number \in kIntMin .. kIntMax

\* The part of the invariant that parse_int and parse_condition can disturb.
LEMMA Disturbed ==
  ASSUME Inv, UNCHANGED <<task, args>>,
         text' = text \/ task = "guard",
         at' \in Nat \ {0}, task # "guard" => at' <= Len(text) + 1,
         stage' \in {"split", "sign", "digits", "literal", "done"},
         stage' \in {"split", "literal"} => task = "guard",
         NumberOK(number'), stage' \in {"sign", "digits"} => number'.value <= kIntMax + 1,
         ConditionOK(condition'), ConditionOK(accepted')
  PROVE  Inv'
BY DEF Inv, TypeOK, Scanning, NumberOK, ConditionOK

LEMMA Initially ==
  /\ NumberOK(NoNumber) /\ NoNumber.value <= kIntMax + 1
  /\ ConditionOK(NoCondition)
BY DEF NumberOK, ConditionOK, NoNumber, NoCondition, Fits, kIntMin

LEMMA StepNumber ==
  ASSUME Inv, ReadSign \/ ReadDigit \/ CheckRange
  PROVE  Inv'
<1>1. /\ stage \in {"sign", "digits"} /\ UNCHANGED <<task, text, args, accepted>>
      /\ NumberOK(number) /\ number.value <= kIntMax + 1
      /\ ConditionOK(condition) /\ ConditionOK(accepted')
      /\ at \in Nat \ {0} /\ (task # "guard" => at <= Len(text) + 1)
      /\ task # "guard" => Converted = text /\ Len(text) \in Nat
  <2>1. stage \in {"sign", "digits"} /\ UNCHANGED <<task, text, args, accepted>>
    BY DEF ReadSign, ReadDigit, CheckRange
  <2>2. NumberOK(number) /\ number.value <= kIntMax + 1
    BY <2>1 DEF Inv, TypeOK, Scanning, NumberOK
  <2>3. ConditionOK(condition) /\ ConditionOK(accepted)
    BY DEF Inv, TypeOK, Scanning, ConditionOK
  <2>4. /\ at \in Nat \ {0} /\ (task # "guard" => at <= Len(text) + 1)
        /\ task # "guard" => Converted = text /\ Len(text) \in Nat
    BY DEF Inv, TypeOK, Scanning, Converted
  <2> QED BY <2>1, <2>2, <2>3, <2>4
<1>2. NotANumber => /\ stage' \in {"literal", "done"} /\ condition' = condition
                    /\ stage' = "literal" => task = "guard"
  BY DEF NotANumber, Return
<1>3. CASE ReadSign
  <2>1. /\ at' \in Nat \ {0} /\ (task # "guard" => at' <= Len(text) + 1)
    <3>1. at' \in {at, 1, 2}
      BY <1>3 DEF ReadSign
    <3>2. at' = 2 => \/ at = 2
                     \/ Converted # <<>> /\ Len(Converted) # 1
      BY <1>3 DEF ReadSign
    <3>3. task # "guard" => text \in Seq(Characters)
      BY DEF Inv, Scanning
    <3>4. task # "guard" /\ text # <<>> => Len(text) >= 1
      BY <3>3, EmptySeq
    <3> QED BY <1>1, <3>1, <3>2, <3>4
  <2>2. /\ NumberOK(number') /\ number'.value <= kIntMax + 1
    <3>1. number' = number \/ number' = [number EXCEPT !.negative = Converted[1] = "-"]
      BY <1>3 DEF ReadSign
    <3> QED BY <1>1, <3>1 DEF NumberOK, NoNumber
  <2>3. /\ stage' \in {"digits", "literal", "done"} /\ condition' = condition
        /\ stage' = "literal" => task = "guard"
    BY <1>2, <1>3 DEF ReadSign
  <2> QED BY <1>1, <2>1, <2>2, <2>3, Disturbed
<1>4. CASE ReadDigit
  <2> DEFINE value == number.value * 10 + DigitValue(Converted[at])
  <2>1. CASE ~IsDigit(Converted[at])
    <3>1. NotANumber /\ UNCHANGED <<number, at>>
      BY <1>4, <2>1 DEF ReadDigit
    <3> QED BY <1>1, <1>2, <3>1, Disturbed
  <2>2. CASE IsDigit(Converted[at])
    <3>1. value \in 0 .. 10 * (kIntMax + 1) + 9
      <4>1. DigitValue(Converted[at]) \in 0 .. 9
        BY <2>2, DigitBelowTen
      <4>2. number.value \in Nat /\ number.value <= kIntMax + 1 /\ kIntMax \in Nat
        BY <1>1 DEF NumberOK
      <4> HIDE DEF value
      <4>3. ASSUME NEW v \in Nat, NEW d \in 0 .. 9, v <= kIntMax + 1
            PROVE  v * 10 + d \in 0 .. 10 * (kIntMax + 1) + 9
        BY <4>2, <4>3
      <4> QED BY <4>1, <4>2, <4>3 DEF value
    <3>2. /\ number' = [number EXCEPT !.value = value] /\ at' = at + 1
          /\ IF TooLarge(value) THEN NotANumber ELSE UNCHANGED <<stage, status, condition>>
      BY <1>4, <2>2 DEF ReadDigit
    <3>3. at <= Len(Converted) /\ stage = "digits"
      BY <1>4 DEF ReadDigit
    <3> HIDE DEF value
    <3>4. NumberOK(number') /\ number'.value = value
      BY <1>1, <3>1, <3>2 DEF NumberOK, NoNumber
    <3>5. stage' = "digits" => number'.value <= kIntMax + 1
      BY <1>2, <3>1, <3>2, <3>4 DEF TooLarge
    <3>6. at' \in Nat \ {0} /\ (task # "guard" => at' <= Len(text) + 1)
      BY <1>1, <3>2, <3>3
    <3> QED BY <1>1, <1>2, <3>2, <3>3, <3>4, <3>5, <3>6, Disturbed
  <2> QED BY <2>1, <2>2
<1>5. CASE CheckRange
  <2> DEFINE signed == IF number.negative THEN -number.value ELSE number.value
  <2>1. stage = "digits" /\ UNCHANGED at
    BY <1>5 DEF CheckRange
  <2>2. CASE InRange(signed)
    <3>1. IsANumber(signed)
      BY <1>5, <2>2 DEF CheckRange
    <3>2. signed \in kIntMin .. kIntMax
      BY <1>1, <2>2 DEF InRange, NumberOK, kIntMin
    <3> HIDE DEF signed
    <3>3. NumberOK(number')
      BY <1>1, <3>1, <3>2 DEF IsANumber, NumberOK, NoNumber
    <3>4. ConditionOK(condition')
      BY <1>1, <3>1, <3>2 DEF IsANumber, ConditionOK, NoCondition
    <3>5. stage' = "done"
      BY <3>1 DEF IsANumber, Return
    <3> QED BY <1>1, <2>1, <3>3, <3>4, <3>5, Disturbed
  <2>3. CASE ~InRange(signed)
    <3>1. NotANumber /\ UNCHANGED number
      BY <1>5, <2>3 DEF CheckRange
    <3> QED BY <1>1, <1>2, <2>1, <3>1, Disturbed
  <2> QED BY <2>2, <2>3
<1> QED BY <1>3, <1>4, <1>5

LEMMA StepGuard ==
  ASSUME Inv, Split \/ ParseLiteral \/ PrintGuard
  PROVE  Inv'
<1>1. /\ task = "guard" /\ UNCHANGED <<task, args>>
      /\ NumberOK(number) /\ ConditionOK(condition) /\ ConditionOK(accepted)
      /\ at \in Nat \ {0}
  <2>1. /\ stage \in {"split", "literal", "done"} /\ UNCHANGED <<task, args>>
        /\ stage = "done" => task = "guard"
    BY DEF Split, ParseLiteral, PrintGuard
  <2>2. /\ task = "guard" /\ NumberOK(number) /\ ConditionOK(condition)
        /\ at \in Nat \ {0}
    BY <2>1 DEF Inv, TypeOK, Scanning, NumberOK, ConditionOK
  <2>3. ConditionOK(accepted)
    BY DEF Inv, TypeOK, Scanning, ConditionOK
  <2> QED BY <2>1, <2>2, <2>3
<1>2. CASE Split
  <2>1. UNCHANGED <<text, at, accepted>>
    BY <1>2 DEF Split
  <2>2. CASE stage' = "done" /\ UNCHANGED <<condition, number>>
    BY <1>1, <2>1, <2>2, Disturbed
  <2>3. CASE \E s \in Splits(Trimmed(text)) :
               /\ Fits(s.left)
               /\ condition' = [NoCondition EXCEPT !.arg = s.left, !.op = Meaning(s.op)]
               /\ number' = [NoNumber EXCEPT !.of = s.right]
               /\ stage' = "sign"
    <3>1. NumberOK(number') /\ number'.value <= kIntMax + 1
      BY <2>3, Initially DEF NumberOK, NoNumber
    <3>2. ConditionOK(condition')
      BY <2>3, Initially DEF ConditionOK, NoCondition
    <3> QED BY <1>1, <2>1, <2>3, <3>1, <3>2, Disturbed
  <2> QED BY <1>2, <2>2, <2>3 DEF Split, Return
<1>3. CASE ParseLiteral
  <2>1. UNCHANGED <<text, at, accepted, number>> /\ stage' = "done"
    BY <1>3 DEF ParseLiteral, Return
  <2>2. ConditionOK(condition')
    BY <1>1, <1>3 DEF ParseLiteral, ConditionOK, NoCondition
  <2> QED BY <1>1, <2>1, <2>2, Disturbed
<1>4. CASE PrintGuard
  <2>1. /\ accepted' = condition /\ stage' = "split" /\ at' = 1
        /\ condition' = NoCondition /\ number' = NoNumber
    BY <1>4 DEF PrintGuard
  <2> QED BY <1>1, <2>1, Initially, Disturbed
<1> QED BY <1>2, <1>3, <1>4

LEMMA StepInv == Inv /\ [Next]_vars => Inv'
<1>1. ASSUME Inv, UNCHANGED vars PROVE Inv'
  BY <1>1 DEF Inv, TypeOK, Scanning, vars, Converted
<1> QED BY <1>1, StepArgs, StepNumber, StepGuard DEF Next

\* For every text, capacity and width of an integer: the accumulator of
\* parse_int stays below ten times the first value past the bounds, so it has
\* room in 64 bits; what it hands out fits; names and tables keep within their
\* capacities; and no scanner leaves its text.
THEOREM TypeCorrect == Spec => []TypeOK
<1>1. Inv => TypeOK
  BY DEF Inv
<1> QED BY <1>1, InitInv, StepInv, PTL DEF Spec

-----------------------------------------------------------------------------

\* Whatever the object held and however far parse came: refused, it is empty.
THEOREM RefusedLeavesNothing == Spec => []RefusedArgsLeaveNothing
<1> DEFINE Quiet == /\ stage \in {"clear", "words"} => task = "args" /\ status = "none"
                    /\ task = "args" => stage \in {"clear", "words", "done"}
                    /\ RefusedArgsLeaveNothing
<1>1. Init => Quiet
  BY DEF Init, Tasks, RefusedArgsLeaveNothing
<1>2. Quiet /\ [Next]_vars => Quiet'
  <2> SUFFICES ASSUME Quiet, [Next]_vars PROVE Quiet'
    OBVIOUS
  <2>1. CASE ClearArgs \/ ParseWord \/ EndOfWords
    BY <2>1 DEF ClearArgs, ParseWord, EndOfWords, Refused, Return, RefusedArgsLeaveNothing
  <2>2. CASE ReadSign \/ ReadDigit \/ CheckRange
    BY <2>2 DEF ReadSign, ReadDigit, CheckRange, IsANumber, NotANumber, Return,
                RefusedArgsLeaveNothing
  <2>3. CASE Split \/ ParseLiteral \/ PrintGuard
    BY <2>3 DEF Split, ParseLiteral, PrintGuard, Return, RefusedArgsLeaveNothing
  <2>4. CASE UNCHANGED vars
    BY <2>4 DEF vars, RefusedArgsLeaveNothing
  <2> QED BY <2>1, <2>2, <2>3, <2>4 DEF Next
<1>3. Quiet => RefusedArgsLeaveNothing
  OBVIOUS
<1> QED BY <1>1, <1>2, <1>3, PTL DEF Spec

-----------------------------------------------------------------------------
(* Integers: parse_int reads what a row of digits is worth.                 *)

\* There is a function that Worth can be.
LEMMA WorthIs ==
  ASSUME NEW d \in Seq(Characters)
  PROVE  Worth(d) = [n \in 0 .. Len(d) |->
                       IF n = 0 THEN 0 ELSE 10 * Worth(d)[n - 1] + DigitValue(d[n])]
<1> DEFINE Is(f, k) == f = [n \in 0 .. k |->
                              IF n = 0 THEN 0 ELSE 10 * f[n - 1] + DigitValue(d[n])]
           without  == {k \in 0 .. Len(d) : ~ \E f : Is(f, k)}
<1>1. Len(d) \in Nat
  OBVIOUS
<1>2. without = {}
  <2> SUFFICES ASSUME without # {} PROVE FALSE
    OBVIOUS
  <2>1. PICK k \in without : \A j \in without : k <= j
    <3>1. without \in SUBSET Nat
      BY <1>1
    <3> HIDE DEF without
    <3> QED BY <3>1, LeastOf
  <2>2. k \in 0 .. Len(d) /\ ~ \E f : Is(f, k)
    BY <2>1
  <2>3. k # 0
    <3>1. Is([n \in 0 .. 0 |-> 0], 0)
      OBVIOUS
    <3> HIDE DEF Is
    <3> QED BY <2>2, <3>1
  <2>4. k - 1 \in 0 .. Len(d) /\ ~(k <= k - 1) /\ k \in Nat
    BY <1>1, <2>2, <2>3
  <2>5. k - 1 \notin without
    BY <2>1, <2>4
  <2>6. PICK g : Is(g, k - 1)
    BY <2>4, <2>5
  <2> DEFINE f == [n \in 0 .. k |-> IF n = k THEN 10 * g[k - 1] + DigitValue(d[k]) ELSE g[n]]
  <2>7. ASSUME NEW n \in 0 .. k
        PROVE  f[n] = IF n = 0 THEN 0 ELSE 10 * f[n - 1] + DigitValue(d[n])
    <3>1. n = k \/ n \in 0 .. k - 1
      BY <2>4
    <3>2. n # 0 => n - 1 \in 0 .. k - 1 /\ n - 1 \in 0 .. k /\ n - 1 # k
      BY <2>4, <2>7
    <3>3. CASE n = k
      <4>1. f[n] = 10 * g[k - 1] + DigitValue(d[k]) /\ f[n - 1] = g[k - 1]
        BY <2>3, <3>2, <3>3
      <4> QED BY <2>3, <3>3, <4>1
    <3>4. CASE n # k
      <4>1. n \in 0 .. k - 1 /\ f[n] = g[n] /\ (n # 0 => f[n - 1] = g[n - 1])
        BY <3>1, <3>2, <3>4
      <4>2. g[n] = IF n = 0 THEN 0 ELSE 10 * g[n - 1] + DigitValue(d[n])
        BY <2>6, <4>1
      <4> QED BY <4>1, <4>2
    <3> QED BY <3>3, <3>4
  <2>8. Is(f, k)
    <3>1. f = [n \in 0 .. k |-> f[n]]
      OBVIOUS
    <3> HIDE DEF f
    <3> QED BY <2>7, <3>1
  <2> HIDE DEF Is
  <2> QED BY <2>2, <2>8
<1>3. \E f : Is(f, Len(d))
  <2>1. Len(d) \in 0 .. Len(d)
    BY <1>1
  <2> HIDE DEF Is
  <2> QED BY <1>2, <2>1
<1> QED BY <1>3 DEF Worth

\* What a numeral is without its sign.
LEMMA UnsignedIs ==
  ASSUME NEW t \in Seq(Characters)
  PROVE  LET signs == IF t # <<>> /\ t[1] \in {"+", "-"} THEN 1 ELSE 0 IN
         /\ Unsigned(t) \in Seq(Characters) /\ signs \in 0 .. Len(t)
         /\ Len(Unsigned(t)) = Len(t) - signs
         /\ DOMAIN Unsigned(t) = 1 .. Len(t) - signs
         /\ \A i \in 1 .. Len(t) - signs : Unsigned(t)[i] = t[i + signs]
         /\ Unsigned(t) = <<>> <=> Len(t) = signs
<1>1. Len(t) \in Nat /\ (t # <<>> => Len(t) >= 1)
  BY EmptySeq
<1>2. CASE t # <<>> /\ t[1] \in {"+", "-"}
  <2>1. Unsigned(t) = Tail(t)
    BY <1>2 DEF Unsigned
  <2>2. /\ Tail(t) \in Seq(Characters) /\ Len(Tail(t)) = Len(t) - 1
        /\ \A i \in 1 .. Len(t) - 1 : Tail(t)[i] = t[i + 1]
    BY <1>1, <1>2, HeadTailProperties
  <2>3. Tail(t) = <<>> <=> Len(Tail(t)) = 0
    BY <2>2, EmptySeq
  <2>4. DOMAIN Tail(t) = 1 .. Len(t) - 1
    BY <2>2
  <2> QED BY <1>1, <1>2, <2>1, <2>2, <2>3, <2>4
<1>3. CASE ~(t # <<>> /\ t[1] \in {"+", "-"})
  <2>1. Unsigned(t) = t
    BY <1>3 DEF Unsigned
  <2> QED BY <1>1, <1>3, <2>1, EmptySeq
<1> QED BY <1>2, <1>3

\* Each digit more is worth what the table of digits says.
LEMMA OneMoreDigit ==
  ASSUME NEW d \in Seq(Characters), NEW n \in 1 .. Len(d)
  PROVE  Worth(d)[0] = 0 /\ Worth(d)[n] = 10 * Worth(d)[n - 1] + DigitValue(d[n])
<1>1. Len(d) \in Nat
  OBVIOUS
<1>2. 0 \in 0 .. Len(d) /\ n \in 0 .. Len(d) /\ n # 0
  BY <1>1
<1> QED BY <1>2, WorthIs

LEMMA NoDigits ==
  ASSUME NEW d \in Seq(Characters)
  PROVE  Worth(d)[0] = 0
<1>1. 0 \in 0 .. Len(d)
  OBVIOUS
<1> QED BY <1>1, WorthIs

\* Further digits make a number no smaller: what is too large stays so.
LEMMA WorthGrows ==
  ASSUME NEW d \in Seq(Characters), \A i \in DOMAIN d : IsDigit(d[i]),
         NEW n \in 0 .. Len(d), Worth(d)[n] \in Nat
  PROVE  Worth(d)[Len(d)] \in Nat /\ Worth(d)[n] <= Worth(d)[Len(d)]
<1> DEFINE smaller == {m \in n .. Len(d) : ~(Worth(d)[m] \in Nat /\ Worth(d)[n] <= Worth(d)[m])}
<1>1. Len(d) \in Nat /\ n \in Nat /\ DOMAIN d = 1 .. Len(d)
  OBVIOUS
<1>2. smaller = {}
  <2> SUFFICES ASSUME smaller # {} PROVE FALSE
    OBVIOUS
  <2>1. PICK m \in smaller : \A k \in smaller : m <= k
    <3>1. smaller \in SUBSET Nat
      BY <1>1
    <3> HIDE DEF smaller
    <3> QED BY <3>1, LeastOf
  <2>2. m \in n .. Len(d) /\ m # n
    BY <2>1
  <2>3. m - 1 \in n .. Len(d) /\ ~(m <= m - 1) /\ m \in 1 .. Len(d)
    BY <1>1, <2>2
  <2>4. Worth(d)[m - 1] \in Nat /\ Worth(d)[n] <= Worth(d)[m - 1]
    BY <2>1, <2>3
  <2>5. Worth(d)[m] = 10 * Worth(d)[m - 1] + DigitValue(d[m])
    BY <2>3, OneMoreDigit
  <2>6. DigitValue(d[m]) \in 0 .. 9
    BY <1>1, <2>3, DigitBelowTen
  <2>7. ASSUME NEW w \in Nat, NEW v \in Nat, NEW c \in 0 .. 9, w <= v
        PROVE  10 * v + c \in Nat /\ w <= 10 * v + c
    BY <2>7
  <2>8. Worth(d)[m] \in Nat /\ Worth(d)[n] <= Worth(d)[m]
    BY <2>4, <2>5, <2>6, <2>7
  <2> QED BY <2>1, <2>8
<1>3. Len(d) \in n .. Len(d)
  BY <1>1
<1> QED BY <1>2, <1>3

\* Half way through a numeral: what was read is its sign, and what its first
\* digits are worth.
Halfway(t) ==
  LET signs == IF t # <<>> /\ t[1] \in {"+", "-"} THEN 1 ELSE 0 IN
  /\ number.value \in Nat
  /\ stage = "sign" => at = 1 /\ number.value = 0
  /\ stage = "digits" =>
       /\ Len(t) > signs /\ at \in signs + 1 .. Len(t) + 1
       /\ number.negative = (t[1] = "-")
       /\ \A i \in signs + 1 .. at - 1 : IsDigit(t[i])
       /\ number.value = Worth(Unsigned(t))[at - 1 - signs]

\* parse_int reads on, or finds that the text is no integer, or the integer that
\* it denotes.
LEMMA ConversionGoesOn ==
  ASSUME Converted \in Seq(Characters), Halfway(Converted), DOMAIN number = DOMAIN NoNumber,
         ReadSign \/ ReadDigit \/ CheckRange
  PROVE  \/ stage' = "digits" /\ Halfway(Converted)' /\ UNCHANGED <<status, condition>>
         \/ NotANumber /\ ~IsInt32(Converted) /\ stage' # "digits"
         \/ IsANumber(Denoted(Converted)) /\ IsInt32(Converted)
<1> DEFINE t     == Converted
           signs == IF t # <<>> /\ t[1] \in {"+", "-"} THEN 1 ELSE 0
           d     == Unsigned(t)
<1>1. /\ d \in Seq(Characters) /\ signs \in 0 .. Len(t) /\ signs \in {0, 1}
      /\ Len(t) \in Nat /\ Len(d) = Len(t) - signs /\ DOMAIN d = 1 .. Len(d)
      /\ \A i \in 1 .. Len(d) : d[i] = t[i + signs]
      /\ d = <<>> <=> Len(t) = signs
  BY UnsignedIs
<1>2. t = <<>> <=> Len(t) = 0
  BY EmptySeq
<1>3. number.of' = number.of /\ UNCHANGED <<task, text>> => t' = t
  BY DEF Converted
<1>4. NotANumber => stage' # "digits"
  BY DEF NotANumber, Return
<1> HIDE DEF t, d, signs
<1>5. CASE ReadSign
  <2>1. UNCHANGED <<task, text>> /\ stage = "sign" /\ number.value = 0
    BY <1>5 DEF ReadSign, Halfway
  <2>2. CASE Len(t) = signs
    <3>1. NotANumber
      BY <1>5, <2>2 DEF ReadSign, t, signs
    <3>2. ~IsInt32(t)
      BY <1>1, <2>2 DEF IsInt32, IsNumeral, d
    <3> QED BY <1>4, <3>1, <3>2 DEF t
  <2>3. CASE Len(t) # signs
    <3>1. /\ stage' = "digits" /\ at' = signs + 1
          /\ number' = [number EXCEPT !.negative = t[1] = "-"]
          /\ UNCHANGED <<status, condition>>
      BY <1>5, <2>3 DEF ReadSign, t, signs
    <3>2. /\ number'.of = number.of /\ number'.value = 0
          /\ number'.negative = (t[1] = "-")
      BY <2>1, <3>1 DEF NoNumber
    <3>3. t' = t
      BY <1>3, <2>1, <3>2
    <3>4. Worth(d)[0] = 0
      BY <1>1, NoDigits
    <3>5. signs' = signs /\ d' = d
      BY <3>3 DEF signs, d
    <3>6. Halfway(t)'
      <4>1. at' - 1 - signs = 0 /\ at' \in signs + 1 .. Len(t) + 1 /\ Len(t) > signs
        BY <1>1, <2>3, <3>1
      <4>2. \A i \in signs + 1 .. at' - 1 : IsDigit(t[i])
        BY <1>1, <3>1
      <4> QED BY <3>1, <3>2, <3>3, <3>4, <4>1, <4>2 DEF Halfway, d, signs
    <3> QED BY <3>1, <3>6 DEF t
  <2> QED BY <2>2, <2>3
<1>6. ASSUME stage = "digits"
      PROVE  /\ Len(t) > signs /\ at \in signs + 1 .. Len(t) + 1
             /\ number.negative = (t[1] = "-")
             /\ \A i \in signs + 1 .. at - 1 : IsDigit(t[i])
             /\ number.value = Worth(d)[at - 1 - signs] /\ number.value \in Nat
  BY <1>6 DEF Halfway, t, d, signs
<1>7. CASE ReadDigit
  <2> DEFINE c     == t[at]
             n     == at - signs
             value == number.value * 10 + DigitValue(c)
  <2>1. UNCHANGED <<task, text>> /\ stage = "digits" /\ at <= Len(t)
    BY <1>7 DEF ReadDigit, t
  <2>2. n \in 1 .. Len(d) /\ d[n] = c /\ n - 1 = at - 1 - signs /\ n + signs = at
    BY <1>1, <1>6, <2>1
  <2>3. CASE ~IsDigit(c)
    <3>1. NotANumber
      BY <1>7, <2>3 DEF ReadDigit, t
    <3>2. ~IsInt32(t)
      BY <1>1, <2>2, <2>3 DEF IsInt32, IsNumeral, d
    <3> QED BY <1>4, <3>1, <3>2 DEF t
  <2>4. CASE IsDigit(c)
    <3>1. /\ number' = [number EXCEPT !.value = value] /\ at' = at + 1
          /\ IF TooLarge(value) THEN NotANumber ELSE UNCHANGED <<stage, status, condition>>
      BY <1>7, <2>4 DEF ReadDigit, t
    <3>2. value = Worth(d)[n]
      <4>1. Worth(d)[n] = 10 * Worth(d)[n - 1] + DigitValue(c)
        BY <1>1, <2>2, OneMoreDigit
      <4>2. number.value = Worth(d)[n - 1] /\ number.value \in Nat
        BY <1>6, <2>1, <2>2
      <4>3. DigitValue(c) \in 0 .. 9
        BY <2>4, DigitBelowTen
      <4> QED BY <4>1, <4>2, <4>3
    <3>3. value \in Nat
      <4>1. DigitValue(c) \in 0 .. 9 /\ number.value \in Nat
        BY <1>6, <2>1, <2>4, DigitBelowTen
      <4> QED BY <4>1
    <3> HIDE DEF value
    <3>4. CASE TooLarge(value)
      <4>1. ASSUME IsInt32(t) PROVE FALSE
        <5>1. \A i \in DOMAIN d : IsDigit(d[i])
          BY <4>1 DEF IsInt32, IsNumeral, d
        <5>2. Magnitude(t) \in Nat /\ value <= Magnitude(t)
          <6>1. n \in 0 .. Len(d)
            BY <1>1, <2>2
          <6> QED BY <1>1, <3>2, <3>3, <5>1, <6>1, WorthGrows DEF Magnitude, d
        <5>3. value > kIntMax + 1 /\ Denoted(t) \in kIntMin .. kIntMax
          BY <3>4, <4>1 DEF TooLarge, IsInt32
        <5>4. Denoted(t) = Magnitude(t) \/ Denoted(t) = -Magnitude(t)
          BY DEF Denoted
        <5> QED BY <3>3, <5>2, <5>3, <5>4 DEF kIntMin
      <4> QED BY <1>4, <3>1, <3>4, <4>1 DEF t
    <3>5. CASE ~TooLarge(value)
      <4>1. /\ stage' = "digits" /\ number'.of = number.of /\ number'.value = value
            /\ number'.negative = number.negative
        BY <2>1, <3>1, <3>5 DEF NoNumber
      <4>2. t' = t
        BY <1>3, <2>1, <4>1
      <4>3. signs' = signs /\ d' = d
        BY <4>2 DEF signs, d
      <4>4. /\ at' \in signs + 1 .. Len(t) + 1 /\ at' - 1 - signs = n
            /\ \A i \in signs + 1 .. at' - 1 : IsDigit(t[i])
        <5>1. at' - 1 = at
          BY <1>6, <2>1, <3>1
        <5>2. \A i \in signs + 1 .. at : i = at \/ i \in signs + 1 .. at - 1
          BY <1>1, <1>6, <2>1
        <5>3. \A i \in signs + 1 .. at' - 1 : IsDigit(t[i])
          BY <1>6, <2>1, <2>4, <5>1, <5>2
        <5>4. at' \in signs + 1 .. Len(t) + 1 /\ at' - 1 - signs = n
          <6>1. at \in signs + 1 .. Len(t) + 1 /\ at <= Len(t) /\ at' = at + 1
            BY <1>6, <2>1, <3>1
          <6>2. Len(t) \in Nat /\ signs \in {0, 1}
            BY <1>1
          <6> QED BY <6>1, <6>2
        <5> QED BY <5>3, <5>4
      <4>5. Halfway(t)'
        BY <1>6, <2>1, <3>2, <3>3, <4>1, <4>2, <4>3, <4>4 DEF Halfway, d, signs
      <4> QED BY <3>1, <3>5, <4>1, <4>5 DEF t
    <3> QED BY <3>4, <3>5
  <2> QED BY <2>3, <2>4
<1>8. CASE CheckRange
  <2> DEFINE signed == IF number.negative THEN -number.value ELSE number.value
  <2>1. stage = "digits" /\ at = Len(t) + 1
    <3>1. stage = "digits" /\ at > Len(t)
      BY <1>8 DEF CheckRange, t
    <3> QED BY <1>1, <1>6, <3>1
  <2>2. IsNumeral(t)
    <3>1. \A i \in DOMAIN d : IsDigit(d[i])
      <4> TAKE i \in DOMAIN d
      <4>1. i + signs \in signs + 1 .. at - 1 /\ d[i] = t[i + signs]
        BY <1>1, <2>1
      <4> QED BY <1>6, <2>1, <4>1
    <3>2. d # <<>>
      BY <1>1, <1>6, <2>1
    <3> QED BY <3>1, <3>2 DEF IsNumeral, d
  <2>3. number.value = Magnitude(t)
    <3>1. at - 1 - signs = Len(d)
      BY <1>1, <2>1
    <3> QED BY <1>6, <2>1, <3>1 DEF Magnitude, d
  <2>4. signed = Denoted(t) /\ number.value \in Nat
    BY <1>6, <2>1, <2>3 DEF Denoted
  <2>5. IF InRange(signed) THEN IsANumber(signed) ELSE NotANumber
    BY <1>8 DEF CheckRange
  <2>6. InRange(signed) <=> IsInt32(t)
    <3>1. signed \in Int
      BY <2>4
    <3> HIDE DEF signed
    <3> QED BY <2>2, <2>4, <3>1 DEF InRange, IsInt32, kIntMin
  <2> QED BY <1>4, <2>4, <2>5, <2>6 DEF t
<1> QED BY <1>5, <1>7, <1>8

Converting ==
  task = "number" =>
    /\ text \in Seq(Characters) /\ stage \in {"sign", "digits", "done"}
    /\ stage # "done" => Halfway(text)
    /\ NumbersAsWritten

\* parse_int finds every integer that fits an int32, the least one and those with
\* leading zeros included, and no other text: what is accepted is what the
\* numeral denotes, for every width of an integer.
THEOREM NumbersRead == Spec => []NumbersAsWritten
<1>1. Init => Converting
  <2> SUFFICES ASSUME Init, task = "number" PROVE Converting
    BY DEF Converting
  <2>1. /\ text \in Seq(Characters) /\ stage = "sign" /\ at = 1 /\ number = NoNumber
    BY TextOfInit DEF Init, Tasks
  <2>2. Halfway(text)
    BY <2>1 DEF Halfway, NoNumber
  <2> QED BY <2>1, <2>2 DEF Converting, NumbersAsWritten
<1>2. Inv /\ Converting /\ [Next]_vars => Converting'
  <2> SUFFICES ASSUME Inv, Converting, [Next]_vars, task' = "number" PROVE Converting'
    BY DEF Converting
  <2>1. CASE UNCHANGED vars
    BY <2>1 DEF vars, Converting, Halfway, NumbersAsWritten
  <2>2. CASE ReadSign \/ ReadDigit \/ CheckRange
    <3>1. /\ task = "number" /\ text' = text /\ Converted = text /\ Converted' = text
          /\ stage \in {"sign", "digits"} /\ DOMAIN number = DOMAIN NoNumber
      BY <2>2 DEF ReadSign, ReadDigit, CheckRange, Converted, Inv, Scanning
    <3>2. text \in Seq(Characters) /\ Halfway(text)
      BY <3>1 DEF Converting
    <3>3. \/ stage' = "digits" /\ Halfway(Converted)'
          \/ NotANumber /\ ~IsInt32(Converted)
          \/ IsANumber(Denoted(Converted)) /\ IsInt32(Converted)
      BY <2>2, <3>1, <3>2, ConversionGoesOn
    <3>4. CASE stage' = "digits" /\ Halfway(Converted)'
      <4>1. Halfway(text)'
        BY <3>1, <3>4 DEF Halfway
      <4> QED BY <3>1, <3>2, <3>4, <4>1 DEF Converting, NumbersAsWritten
    <3>5. CASE NotANumber /\ ~IsInt32(Converted)
      <4>1. stage' = "done" /\ status' = "NotANumber"
        BY <3>1, <3>5 DEF NotANumber, Return
      <4> QED BY <3>1, <3>2, <3>5, <4>1 DEF Converting, NumbersAsWritten
    <3>6. CASE IsANumber(Denoted(Converted)) /\ IsInt32(Converted)
      <4>1. stage' = "done" /\ status' = "Ok" /\ number'.out = Denoted(text)
        BY <3>1, <3>6 DEF IsANumber, Return, NoNumber
      <4> QED BY <3>1, <3>2, <3>6, <4>1 DEF Converting, NumbersAsWritten
    <3> QED BY <3>3, <3>4, <3>5, <3>6
  <2>3. CASE ClearArgs \/ ParseWord \/ EndOfWords \/ Split \/ ParseLiteral \/ PrintGuard
    BY <2>3 DEF ClearArgs, ParseWord, EndOfWords, Split, ParseLiteral, PrintGuard, Inv, Scanning
  <2> QED BY <2>1, <2>2, <2>3 DEF Next
<1>3. Converting => NumbersAsWritten
  BY DEF Converting, NumbersAsWritten
<1> QED BY <1>1, <1>2, <1>3, InitInv, StepInv, PTL DEF Spec

-----------------------------------------------------------------------------
(* Arguments: the scan takes one word after another, and leaves none out.    *)

LEMMA FirstNotSpace ==
  ASSUME NEW t \in Seq(Characters), NEW i \in 1 .. Len(t) + 1
  PROVE  /\ FirstNotIn(t, i, Spaces) \in i .. Len(t) + 1
         /\ FirstNotIn(t, i, Spaces) = Len(t) + 1 \/ t[FirstNotIn(t, i, Spaces)] \notin Spaces
         /\ \A k \in i .. FirstNotIn(t, i, Spaces) - 1 : t[k] \in Spaces
<1> DEFINE written == {t[k] : k \in 1 .. Len(t)} \ Spaces
           stop    == FirstIn(t, i, written)
<1>1. /\ stop \in i .. Len(t) + 1
      /\ stop = Len(t) + 1 \/ t[stop] \in written
      /\ \A k \in i .. stop - 1 : t[k] \notin written
  <2> HIDE DEF written
  <2> QED BY FirstInText
<1>2. ASSUME NEW k \in i .. stop - 1 PROVE t[k] \in Spaces
  <2>1. t[k] \notin written /\ k \in 1 .. Len(t)
    <3>1. Len(t) \in Nat
      OBVIOUS
    <3> HIDE DEF written, stop
    <3> QED BY <1>1, <1>2, <3>1
  <2> QED BY <2>1
<1>3. stop = FirstNotIn(t, i, Spaces)
  BY DEF FirstNotIn
<1> QED BY <1>1, <1>2, <1>3

\* Where a scan may begin: nothing of a word lies behind it.
Boundary(t, i) == i \in 1 .. Len(t) + 1 /\ (i = 1 \/ i = Len(t) + 1 \/ t[i] \in Spaces)

\* From there the scan finds a word, and it is the next one.
LEMMA NextIsAWord ==
  ASSUME NEW t \in Seq(Characters), NEW i, Boundary(t, i),
         NEW b, b = FirstNotIn(t, i, Spaces), b <= Len(t),
         NEW e, e = FirstIn(t, b, Spaces)
  PROVE  /\ b \in i .. Len(t) /\ e \in b + 1 .. Len(t) + 1 /\ Boundary(t, e)
         /\ <<b, e - 1>> \in Words(t)
         /\ \A v \in Words(t) : v[1] \in i .. e - 1 => v = <<b, e - 1>>
<1>1. Len(t) \in Nat /\ DOMAIN t = 1 .. Len(t) /\ i \in 1 .. Len(t) + 1
  BY DEF Boundary
<1>2. /\ b \in i .. Len(t) /\ b \in 1 .. Len(t) + 1 /\ t[b] \notin Spaces
      /\ \A k \in i .. b - 1 : t[k] \in Spaces
  <2>1. /\ b \in i .. Len(t) + 1
        /\ b = Len(t) + 1 \/ t[b] \notin Spaces
        /\ \A k \in i .. b - 1 : t[k] \in Spaces
    BY <1>1, FirstNotSpace
  <2> QED BY <1>1, <2>1
<1>3. /\ e \in b .. Len(t) + 1
      /\ e = Len(t) + 1 \/ t[e] \in Spaces
      /\ \A k \in b .. e - 1 : t[k] \notin Spaces
  BY <1>2, FirstInText
<1>4. e \in b + 1 .. Len(t) + 1 /\ Boundary(t, e)
  <2>1. e # b
    BY <1>1, <1>2, <1>3
  <2> QED BY <1>1, <1>2, <1>3, <2>1 DEF Boundary
<1>5. <<b, e - 1>> \in Words(t)
  <2>1. b \in 1 .. Len(t) /\ e - 1 \in 1 .. Len(t) /\ b <= e - 1
    BY <1>1, <1>2, <1>4
  <2>2. b > 1 => t[b - 1] \in Spaces
    <3>1. b = i => b = 1
      BY <1>1, <1>2 DEF Boundary
    <3>2. b # i => b - 1 \in i .. b - 1
      BY <1>1, <1>2
    <3> QED BY <1>2, <3>1, <3>2
  <2>3. e - 1 < Len(t) => t[(e - 1) + 1] \in Spaces
    <3>1. (e - 1) + 1 = e /\ (e - 1 < Len(t) => e # Len(t) + 1)
      BY <1>1, <1>4
    <3> QED BY <1>3, <3>1
  <2>4. Word(t, b, e - 1)
    BY <1>3, <2>1, <2>2, <2>3 DEF Word
  <2> QED BY <1>1, <2>1, <2>4 DEF Words
<1>6. ASSUME NEW v \in Words(t), v[1] \in i .. e - 1 PROVE v = <<b, e - 1>>
  <2>1. /\ v[1] \in 1 .. Len(t) /\ v[2] \in 1 .. Len(t) /\ v = <<v[1], v[2]>>
        /\ v[1] <= v[2] /\ \A k \in v[1] .. v[2] : t[k] \notin Spaces
        /\ v[1] > 1 => t[v[1] - 1] \in Spaces
        /\ v[2] < Len(t) => t[v[2] + 1] \in Spaces
    BY <1>1 DEF Words, Word
  <2>2. v[1] = b
    <3>1. v[1] \in i .. b - 1 \/ v[1] = b \/ (v[1] - 1 \in b .. e - 1 /\ v[1] > 1)
      BY <1>1, <1>2, <1>4, <1>6, <2>1
    <3>2. t[v[1]] \notin Spaces
      BY <2>1
    <3> QED BY <1>2, <1>3, <2>1, <3>1, <3>2
  <2>3. v[2] = e - 1
    <3>1. \/ v[2] = e - 1
          \/ v[2] + 1 \in b .. e - 1 /\ v[2] < Len(t)
          \/ e \in v[1] .. v[2] /\ e # Len(t) + 1
      BY <1>1, <1>2, <1>4, <2>1, <2>2
    <3> QED BY <1>3, <2>1, <3>1
  <2> QED BY <2>1, <2>2, <2>3
<1> QED BY <1>2, <1>4, <1>5, <1>6

\* A word says the pair that its first "=" parts, or none.
LEMMA PairOfWord ==
  ASSUME NEW w \in Seq(Characters), w # <<>>, NEW e, e = FirstIn(w, 1, {"="})
  PROVE  /\ e > Len(w) \/ e = 1 => Pairs(w) = {}
         /\ ~(e > Len(w) \/ e = 1) =>
              Pairs(w) = {[key |-> SubSeq(w, 1, e - 1), value |-> SubSeq(w, e + 1, Len(w))]}
<1>1. Len(w) \in Nat /\ 1 \in 1 .. Len(w) + 1
  OBVIOUS
<1>2. /\ e \in 1 .. Len(w) + 1
      /\ e = Len(w) + 1 \/ w[e] = "="
      /\ \A k \in 1 .. e - 1 : w[k] # "="
  <2>1. /\ e \in 1 .. Len(w) + 1
        /\ e = Len(w) + 1 \/ w[e] \in {"="}
        /\ \A k \in 1 .. e - 1 : w[k] \notin {"="}
    BY <1>1, FirstInText
  <2> QED BY <2>1
<1> DEFINE first == {d \in 2 .. Len(w) : w[d] = "=" /\ \A k \in 1 .. d - 1 : w[k] # "="}
<1>3. ASSUME NEW d \in first PROVE d = e /\ e # 1 /\ e <= Len(w)
  <2>1. d \in 2 .. Len(w) /\ w[d] = "=" /\ \A k \in 1 .. d - 1 : w[k] # "="
    BY <1>3
  <2>2. d = e \/ d \in 1 .. e - 1 \/ (e \in 1 .. d - 1 /\ e # Len(w) + 1)
    BY <1>1, <1>2, <2>1
  <2>3. d = e
    BY <1>2, <2>1, <2>2
  <2> QED BY <1>1, <2>1, <2>3
<1>4. ~(e > Len(w) \/ e = 1) => e \in first
  BY <1>1, <1>2
<1>5. Pairs(w) = {[key |-> SubSeq(w, 1, d - 1), value |-> SubSeq(w, d + 1, Len(w))] : d \in first}
  BY DEF Pairs
<1> HIDE DEF first
<1>6. e > Len(w) \/ e = 1 => first = {}
  <2>1. e \in Int
    BY <1>1, <1>2
  <2> QED BY <1>1, <1>3, <2>1
<1>7. ~(e > Len(w) \/ e = 1) => first = {e}
  BY <1>3, <1>4
<1> QED BY <1>5, <1>6, <1>7

\* The pairs that are stored, and the words that were read.
Stored(a) == {[key |-> key, value |-> a.map[key]] : key \in DOMAIN a.map}
Done      == {w \in Words(text) : w[1] < at}

\* Between two words: every word so far was right, and the pairs are theirs.
Gathering ==
  task = "args" =>
    /\ text \in Seq(Characters) /\ stage \in {"clear", "words", "done"}
    /\ stage = "clear" => at = 1
    /\ stage = "words" =>
         /\ Boundary(text, at) /\ args.raw = text
         /\ \A w \in Done : Fault(text, w) = "Ok"
         /\ Stored(args) = UNION {Pairs(WrittenAt(text, w)) : w \in Done}
         /\ IsFiniteSet(Done) /\ Cardinality(DOMAIN args.map) = Cardinality(Done)
    /\ ArgsAsWritten

\* What WordStatus says of the next word is what is wrong with it.
LEMMA StatusIsFault ==
  ASSUME Gathering, task = "args", stage = "words", NextWord <= Len(text)
  PROVE  /\ Before(text, <<NextWord, WordEnd - 1>>) = Done
         /\ Fault(text, <<NextWord, WordEnd - 1>>) = WordStatus
         /\ WordStatus = "Ok" =>
              Pairs(WrittenAt(text, <<NextWord, WordEnd - 1>>)) = {[key |-> Key, value |-> Value]}
<1> DEFINE w == <<NextWord, WordEnd - 1>>
<1>1. text \in Seq(Characters) /\ Boundary(text, at) /\ Len(text) \in Nat
  BY DEF Gathering
<1>2. /\ NextWord \in at .. Len(text) /\ WordEnd \in NextWord + 1 .. Len(text) + 1
      /\ w \in Words(text)
      /\ \A v \in Words(text) : v[1] \in at .. WordEnd - 1 => v = w
  BY <1>1, NextIsAWord DEF NextWord, WordEnd
<1>3. at \in 1 .. Len(text) + 1
  BY <1>1 DEF Boundary
<1>4. Before(text, w) = Done
  <2>1. ASSUME NEW v \in Words(text) PROVE v[1] < w[1] <=> v[1] < at
    <3>1. v[1] \in 1 .. Len(text)
      BY <1>1 DEF Words
    <3>2. w[1] = NextWord
      OBVIOUS
    <3> HIDE DEF w
    <3>3. v[1] \in at .. WordEnd - 1 => v = w
      BY <1>2
    <3> QED BY <1>1, <1>2, <1>3, <3>1, <3>2, <3>3
  <2> HIDE DEF w
  <2> QED BY <2>1 DEF Before, Done
<1>5. Token \in Seq(Characters) /\ Token # <<>> /\ WrittenAt(text, w) = Token
  <2>1. \A k \in NextWord .. WordEnd - 1 : text[k] \in Characters
    BY <1>1, <1>2, <1>3
  <2>2. NextWord \in Int /\ WordEnd - 1 \in Int /\ NextWord <= WordEnd - 1
    BY <1>1, <1>2, <1>3
  <2>3. /\ SubSeq(text, NextWord, WordEnd - 1) \in Seq(Characters)
        /\ Len(SubSeq(text, NextWord, WordEnd - 1)) = (WordEnd - 1) - NextWord + 1
    BY <2>1, <2>2, SubSeqProperties
  <2>4. Len(Token) # 0 /\ Token \in Seq(Characters)
    BY <2>2, <2>3 DEF Token
  <2> QED BY <2>4, EmptySeq DEF Token, WrittenAt
<1> HIDE DEF w
<1>6. /\ Equals > Len(Token) \/ Equals = 1 => Pairs(Token) = {}
      /\ ~(Equals > Len(Token) \/ Equals = 1) =>
           Pairs(Token) = {[key |-> Key, value |-> Value]}
  BY <1>5, PairOfWord DEF Equals, Key, Value
<1>7. ~(Equals > Len(Token) \/ Equals = 1) => KeyOf(Token) = Key
  <2>1. ASSUME NEW S, NEW k, NEW v, S = {[key |-> k, value |-> v]}
        PROVE  (CHOOSE p \in S : TRUE).key = k
    <3>1. (CHOOSE p \in S : TRUE) = [key |-> k, value |-> v]
      BY <2>1
    <3>2. [key |-> k, value |-> v].key = k
      OBVIOUS
    <3> QED BY <3>1, <3>2, Zenon
  <2> QED BY <1>6, <2>1 DEF KeyOf
<1>8. Key \in DOMAIN args.map
        <=> \E v \in Done : \E p \in Pairs(WrittenAt(text, v)) : p.key = Key
  <2>1. Stored(args) = UNION {Pairs(WrittenAt(text, v)) : v \in Done}
    BY DEF Gathering
  <2>2. ASSUME NEW k \in DOMAIN args.map
        PROVE  [key |-> k, value |-> args.map[k]] \in Stored(args)
    BY DEF Stored
  <2>3. ASSUME NEW p \in Stored(args) PROVE p.key \in DOMAIN args.map
    BY <2>3 DEF Stored
  <2>4. ASSUME Key \in DOMAIN args.map PROVE \E p \in Stored(args) : p.key = Key
    BY <2>2, <2>4
  <2> QED BY <2>1, <2>3, <2>4
<1>9. Cardinality(DOMAIN args.map) = Cardinality(Done)
  BY DEF Gathering
<1>10. Fault(text, w) = WordStatus
  <2>1. CASE Equals > Len(Token) \/ Equals = 1
    BY <1>5, <1>6, <2>1 DEF Fault, WordStatus
  <2>2. CASE ~(Equals > Len(Token) \/ Equals = 1)
    <3>1. Pairs(Token) # {} /\ KeyOf(Token) = Key
      BY <1>6, <1>7, <2>2
    <3>2. Fault(text, w) =
            IF ~Fits(Key) THEN "NameTooLong"
            ELSE IF \E v \in Done : \E p \in Pairs(WrittenAt(text, v)) : p.key = Key
                 THEN "DuplicateName"
            ELSE IF Cardinality(Done) >= kMaxArguments THEN "CapacityExceeded"
            ELSE "Ok"
      BY <1>4, <1>5, <3>1 DEF Fault
    <3> QED BY <1>8, <1>9, <2>2, <3>2 DEF WordStatus
  <2> QED BY <2>1, <2>2
<1>11. WordStatus = "Ok" => ~(Equals > Len(Token) \/ Equals = 1)
  BY DEF WordStatus
<1> QED BY <1>4, <1>5, <1>6, <1>10, <1>11 DEF w

\* A word that is right is one word more that was read, and one pair.
LEMMA OneMoreWord ==
  ASSUME Inv, Gathering, task = "args", stage = "words", ParseWord, WordStatus = "Ok"
  PROVE  Gathering'
<1> DEFINE w   == <<NextWord, WordEnd - 1>>
           map == [key \in DOMAIN args.map \cup {Key} |->
                     IF key = Key THEN Value ELSE args.map[key]]
<1>1. /\ NextWord <= Len(text) /\ args' = [args EXCEPT !.map = map] /\ at' = WordEnd
      /\ UNCHANGED <<task, text, stage>>
  BY DEF ParseWord
<1>2. text \in Seq(Characters) /\ Boundary(text, at) /\ Len(text) \in Nat /\ args.raw = text
  BY DEF Gathering
<1>3. /\ NextWord \in at .. Len(text) /\ WordEnd \in NextWord + 1 .. Len(text) + 1
      /\ Boundary(text, WordEnd) /\ w \in Words(text)
      /\ \A v \in Words(text) : v[1] \in at .. WordEnd - 1 => v = w
  BY <1>1, <1>2, NextIsAWord DEF NextWord, WordEnd
<1>4. /\ Fault(text, w) = "Ok"
      /\ Pairs(WrittenAt(text, w)) = {[key |-> Key, value |-> Value]}
  BY <1>1, StatusIsFault
<1>5. w[1] = NextWord
  OBVIOUS
<1>6. at \in 1 .. Len(text) + 1
  BY <1>2 DEF Boundary
<1>7. DOMAIN args = {"map", "raw"} /\ Key \notin DOMAIN args.map
  BY DEF Inv, TypeOK, Holdable, NoArguments, WordStatus
<1>8. args'.map = map /\ args'.raw = text
  BY <1>1, <1>2, <1>7
<1> HIDE DEF w
<1>9. Done' = Done \cup {w} /\ w \notin Done
  <2>1. ASSUME NEW v \in Words(text) PROVE v[1] < WordEnd <=> v[1] < at \/ v = w
    <3>1. v[1] \in 1 .. Len(text)
      BY <1>2 DEF Words
    <3>2. v[1] \in at .. WordEnd - 1 => v = w
      BY <1>3
    <3> QED BY <1>2, <1>3, <1>5, <1>6, <3>1, <3>2
  <2>2. ~(w[1] < at)
    BY <1>2, <1>3, <1>5, <1>6
  <2> QED BY <1>1, <1>3, <2>1, <2>2 DEF Done
<1>10. Stored(args)' = Stored(args) \cup {[key |-> Key, value |-> Value]}
  <2>1. /\ DOMAIN map = DOMAIN args.map \cup {Key} /\ map[Key] = Value
        /\ \A key \in DOMAIN args.map : map[key] = args.map[key]
    BY <1>7
  <2> HIDE DEF map
  <2> QED BY <1>8, <2>1 DEF Stored
<1>11. Stored(args)' = UNION {Pairs(WrittenAt(text, v)) : v \in Done'}
  <2>1. Stored(args) = UNION {Pairs(WrittenAt(text, v)) : v \in Done}
    BY DEF Gathering
  <2> QED BY <1>4, <1>9, <1>10, <2>1
<1>12. IsFiniteSet(Done') /\ Cardinality(DOMAIN args'.map) = Cardinality(Done')
  <2>1. /\ IsFiniteSet(Done) /\ Cardinality(DOMAIN args.map) = Cardinality(Done)
        /\ IsFiniteSet(DOMAIN args.map)
    BY DEF Gathering, Inv, TypeOK, Holdable
  <2>2. DOMAIN args'.map = DOMAIN args.map \cup {Key}
    BY <1>8
  <2> HIDE DEF map
  <2>3. /\ IsFiniteSet(Done \cup {w}) /\ Cardinality(Done \cup {w}) = Cardinality(Done) + 1
    BY <1>9, <2>1, FS_AddElement
  <2>4. Cardinality(DOMAIN args.map \cup {Key}) = Cardinality(DOMAIN args.map) + 1
    BY <1>7, <2>1, FS_AddElement
  <2> QED BY <1>9, <2>1, <2>2, <2>3, <2>4
<1>13. \A v \in Done' : Fault(text, v) = "Ok"
  BY <1>4, <1>9 DEF Gathering
<1>14. ArgsAsWritten' /\ task' = "args" /\ stage' = "words" /\ text' = text
  BY <1>1 DEF ArgsAsWritten
<1> HIDE DEF map
<1> QED BY <1>1, <1>2, <1>3, <1>8, <1>11, <1>12, <1>13, <1>14 DEF Gathering

\* Whatever the text, an Args holds a pair for each word of it and no other, or
\* answers what is wrong with the first word that has something wrong: no word is
\* skipped, split or read twice, whatever white space stands between them.
THEOREM ArgumentsRead == Spec => []ArgsAsWritten
<1>1. Init => Gathering
  BY TextOfInit DEF Init, Gathering, ArgsAsWritten, Tasks
<1>2. Inv /\ Gathering /\ [Next]_vars => Gathering'
  <2> SUFFICES ASSUME Inv, Gathering, [Next]_vars, task' = "args" PROVE Gathering'
    BY DEF Gathering
  <2>1. CASE UNCHANGED vars
    BY <2>1 DEF vars, Gathering, ArgsAsWritten, Done
  <2>2. CASE ClearArgs
    <3>1. /\ task = "args" /\ text \in Seq(Characters) /\ Len(text) \in Nat /\ stage' = "words"
          /\ UNCHANGED <<task, text>> /\ at' = 1 /\ args' = [NoArguments EXCEPT !.raw = text]
      BY <2>2 DEF ClearArgs, Gathering
    <3>2. args'.raw = text /\ args'.map = <<>> /\ DOMAIN args'.map = {}
      BY <3>1 DEF NoArguments
    <3>3. Done' = {}
      BY <3>1 DEF Done, Words
    <3>4. Boundary(text, 1)
      BY <3>1 DEF Boundary
    <3>5. Stored(args)' = {} /\ IsFiniteSet({}) /\ Cardinality({}) = 0
      BY <3>2, FS_EmptySet DEF Stored
    <3> QED BY <3>1, <3>2, <3>3, <3>4, <3>5 DEF Gathering, ArgsAsWritten
  <2>3. CASE ParseWord
    <3>1. /\ task = "args" /\ stage = "words" /\ NextWord <= Len(text)
          /\ UNCHANGED <<task, text>>
      BY <2>3 DEF ParseWord
    <3>2. CASE WordStatus = "Ok"
      BY <2>3, <3>1, <3>2, OneMoreWord
    <3>3. CASE WordStatus # "Ok"
      <4> DEFINE w      == <<NextWord, WordEnd - 1>>
                 faulty == {v \in Words(text) : Fault(text, v) # "Ok"}
      <4>1. stage' = "done" /\ status' = WordStatus
        BY <2>3, <3>3 DEF ParseWord, Return
      <4>2. text \in Seq(Characters) /\ Boundary(text, at) /\ Len(text) \in Nat
        BY <3>1 DEF Gathering
      <4>3. Before(text, w) = Done /\ Fault(text, w) = WordStatus
        BY <3>1, StatusIsFault
      <4>4. w \in Words(text) /\ NextWord \in at .. Len(text)
        BY <3>1, <4>2, NextIsAWord DEF NextWord, WordEnd
      <4>5. w[1] \in Int
        BY <4>2, <4>4 DEF Words
      <4> HIDE DEF w
      <4>6. ASSUME NEW v \in faulty PROVE w[1] <= v[1]
        <5>1. v \in Words(text) /\ Fault(text, v) # "Ok" /\ v[1] \in Int
          BY <4>2, <4>6 DEF Words
        <5>2. v \notin Before(text, w)
          BY <3>1, <4>3, <5>1 DEF Gathering
        <5> QED BY <4>5, <5>1, <5>2 DEF Before
      <4>7. w \in faulty
        BY <3>3, <4>3, <4>4
      <4> HIDE DEF faulty
      <4>8. \E v \in faulty : status' = Fault(text, v) /\ \A u \in faulty : v[1] <= u[1]
        BY <4>1, <4>3, <4>6, <4>7
      <4>9. ArgsAsWritten'
        BY <3>1, <4>7, <4>8 DEF ArgsAsWritten, faulty
      <4> QED BY <3>1, <4>1, <4>2, <4>9 DEF Gathering
    <3> QED BY <3>2, <3>3
  <2>4. CASE EndOfWords
    <3>1. /\ task = "args" /\ stage = "words" /\ NextWord > Len(text)
          /\ UNCHANGED <<task, text, args>> /\ stage' = "done" /\ status' = "Ok"
      BY <2>4 DEF EndOfWords, Return
    <3>2. text \in Seq(Characters) /\ Boundary(text, at) /\ Len(text) \in Nat
      BY <3>1 DEF Gathering
    <3>3. Words(text) = Done
      <4>1. NextWord = Len(text) + 1 /\ at \in 1 .. Len(text) + 1
              /\ \A k \in at .. NextWord - 1 : text[k] \in Spaces
        BY <3>1, <3>2, FirstNotSpace DEF NextWord, Boundary
      <4>2. ASSUME NEW v \in Words(text) PROVE v[1] < at
        <5>1. v[1] \in 1 .. Len(text) /\ text[v[1]] \notin Spaces
          BY <3>2 DEF Words, Word
        <5> QED BY <3>2, <4>1, <5>1
      <4> QED BY <4>2 DEF Done
    <3>4. /\ args.raw = text /\ \A w \in Words(text) : Fault(text, w) = "Ok"
          /\ Stored(args) = UNION {Pairs(WrittenAt(text, w)) : w \in Words(text)}
      BY <3>1, <3>3 DEF Gathering
    <3>5. ArgsAsWritten'
      BY <3>1, <3>4 DEF ArgsAsWritten, Stored
    <3> QED BY <3>1, <3>2, <3>5 DEF Gathering
  <2>5. CASE ReadSign \/ ReadDigit \/ CheckRange \/ Split \/ ParseLiteral \/ PrintGuard
    BY <2>5 DEF ReadSign, ReadDigit, CheckRange, Split, ParseLiteral, PrintGuard,
                Inv, Scanning, Gathering
  <2> QED BY <2>1, <2>2, <2>3, <2>4, <2>5 DEF Next
<1>3. Gathering => ArgsAsWritten
  BY DEF Gathering, ArgsAsWritten
<1> QED BY <1>1, <1>2, <1>3, InitInv, StepInv, PTL DEF Spec

-----------------------------------------------------------------------------
(* Guards: what is trimmed, and where the operator is.                       *)

\* What a slice of a text is made of.
LEMMA SliceIs ==
  ASSUME NEW t \in Seq(Characters), NEW i \in 1 .. Len(t) + 1, NEW j \in i - 1 .. Len(t)
  PROVE  /\ SubSeq(t, i, j) \in Seq(Characters) /\ Len(SubSeq(t, i, j)) = j - i + 1
         /\ DOMAIN SubSeq(t, i, j) = 1 .. j - i + 1
         /\ \A k \in 1 .. j - i + 1 : SubSeq(t, i, j)[k] = t[k + i - 1]
<1>1. Len(t) \in Nat /\ i \in Int /\ j \in Int
  OBVIOUS
<1>2. \A k \in i .. j : t[k] \in Characters
  BY <1>1
<1>3. /\ SubSeq(t, i, j) \in Seq(Characters)
      /\ Len(SubSeq(t, i, j)) = IF i <= j THEN j - i + 1 ELSE 0
      /\ \A k \in 1 .. j - i + 1 : SubSeq(t, i, j)[k] = t[i + k - 1]
  BY <1>1, <1>2, SubSeqProperties
<1>4. Len(SubSeq(t, i, j)) = j - i + 1
  BY <1>1, <1>3
<1>5. ASSUME NEW k \in 1 .. j - i + 1 PROVE SubSeq(t, i, j)[k] = t[k + i - 1]
  <2>1. k + i - 1 = i + k - 1
    BY <1>1
  <2> QED BY <1>3, <2>1
<1>6. DOMAIN SubSeq(t, i, j) = 1 .. Len(SubSeq(t, i, j))
  BY <1>3
<1> QED BY <1>3, <1>4, <1>5, <1>6

\* The first and the last character that is written in i .. j of a text.
Edges(t, i, j, p, q) ==
  /\ p \in i .. j /\ q \in p .. j /\ t[p] \notin Spaces /\ t[q] \notin Spaces
  /\ \A k \in i .. j : k < p \/ q < k => t[k] \in Spaces

LEMMA EdgesExist ==
  ASSUME NEW t, NEW i \in Nat, NEW j \in Nat, \E k \in i .. j : t[k] \notin Spaces
  PROVE  \E p, q : Edges(t, i, j, p, q)
<1> DEFINE written == {k \in i .. j : t[k] \notin Spaces}
           behind  == {j - k : k \in written}
<1>1. PICK p \in written : \A k \in written : p <= k
  <2>1. written \in SUBSET Nat /\ written # {}
    OBVIOUS
  <2> HIDE DEF written
  <2> QED BY <2>1, LeastOf
<1>2. PICK r \in behind : \A k \in behind : r <= k
  <2>1. behind \in SUBSET Nat /\ behind # {}
    OBVIOUS
  <2> HIDE DEF behind
  <2> QED BY <2>1, LeastOf
<1>3. PICK q \in written : r = j - q
  BY <1>2
<1>4. \A k \in written : k <= q
  <2> TAKE k \in written
  <2>1. j - k \in behind
    OBVIOUS
  <2>2. j - q <= j - k
    BY <1>2, <1>3, <2>1
  <2> QED BY <2>2
<1>5. \A k \in i .. j : k < p \/ q < k => k \notin written
  BY <1>1, <1>4
<1>6. p \in i .. j /\ q \in p .. j
  BY <1>1, <1>3, <1>4
<1>7. Edges(t, i, j, p, q)
  BY <1>1, <1>3, <1>5, <1>6 DEF Edges
<1> QED BY <1>7

\* A slice is trimmed to what lies between its edges.
LEMMA SliceTrimmed ==
  ASSUME NEW t \in Seq(Characters), NEW i \in 1 .. Len(t) + 1, NEW j \in i - 1 .. Len(t)
  PROVE  /\ \A p, q : Edges(t, i, j, p, q) => Trimmed(SubSeq(t, i, j)) = SubSeq(t, p, q)
         /\ (\A k \in i .. j : t[k] \in Spaces) => Trimmed(SubSeq(t, i, j)) = <<>>
<1> DEFINE s       == SubSeq(t, i, j)
           written == {k \in DOMAIN s : s[k] \notin Spaces}
<1>1. /\ s \in Seq(Characters) /\ Len(s) = j - i + 1 /\ DOMAIN s = 1 .. j - i + 1
      /\ \A k \in 1 .. j - i + 1 : s[k] = t[k + i - 1]
      /\ Len(t) \in Nat
  BY SliceIs
<1> HIDE DEF s
<1>2. ASSUME \A k \in i .. j : t[k] \in Spaces PROVE Trimmed(s) = <<>>
  <2>1. ASSUME NEW k \in DOMAIN s PROVE s[k] \in Spaces
    <3>1. k + i - 1 \in i .. j /\ s[k] = t[k + i - 1]
      BY <1>1
    <3> QED BY <1>2, <3>1
  <2> QED BY <2>1 DEF Trimmed
<1>3. ASSUME NEW p, NEW q, Edges(t, i, j, p, q) PROVE Trimmed(s) = SubSeq(t, p, q)
  <2> DEFINE a == p - i + 1
             b == q - i + 1
  <2>1. /\ p \in i .. j /\ q \in p .. j /\ t[p] \notin Spaces /\ t[q] \notin Spaces
        /\ \A k \in i .. j : k < p \/ q < k => t[k] \in Spaces
    BY <1>3 DEF Edges
  <2>2. /\ a \in 1 .. j - i + 1 /\ b \in 1 .. j - i + 1 /\ a + i - 1 = p /\ b + i - 1 = q
    <3>1. i \in Int /\ j \in Int /\ p \in i .. j /\ q \in p .. j
      BY <1>1, <2>1
    <3> QED BY <3>1
  <2>3. a \in written /\ b \in written
    BY <1>1, <2>1, <2>2
  <2>4. ASSUME NEW k \in written PROVE a <= k /\ k <= b
    <3>1. k + i - 1 \in i .. j /\ t[k + i - 1] \notin Spaces /\ k \in 1 .. j - i + 1
      BY <1>1
    <3>2. ~(k + i - 1 < p) /\ ~(q < k + i - 1)
      BY <2>1, <3>1
    <3> QED BY <1>1, <2>1, <3>1, <3>2
  <2>5. \A k \in written : k \in Int
    BY <1>1
  <2>6. a \in Int /\ b \in Int
    BY <1>1, <2>1
  <2> HIDE DEF written, a, b
  <2>7. (CHOOSE k \in written : \A l \in written : k <= l) = a
    <3>1. \A k \in written : (\A l \in written : k <= l) => k = a
      BY <2>3, <2>4, <2>5, <2>6
    <3> QED BY <2>3, <2>4, <3>1
  <2>8. (CHOOSE k \in written : \A l \in written : k >= l) = b
    <3>1. \A k \in written : (\A l \in written : k >= l) => k = b
      BY <2>3, <2>4, <2>5, <2>6
    <3>2. \A l \in written : b >= l
      BY <2>4, <2>5, <2>6
    <3> QED BY <2>3, <3>1, <3>2
  <2>9. Trimmed(s) = SubSeq(s, a, b)
    BY <2>3, <2>7, <2>8 DEF Trimmed, written
  <2>10. SubSeq(s, a, b) = SubSeq(t, i + a - 1, i + b - 1)
    <3>1. i \in 1 .. Len(t) /\ j \in 1 .. Len(t)
      BY <1>1, <2>1
    <3> QED BY <2>2, <3>1, SubSeqOfSubSeq DEF s
  <2>11. i + a - 1 = p /\ i + b - 1 = q
    BY <1>1, <2>2, <2>6
  <2> QED BY <2>9, <2>10, <2>11
<1> QED BY <1>2, <1>3 DEF s

\* What is trimmed of a slice does not depend on the white space around it.
LEMMA TrimmedWithin ==
  ASSUME NEW t \in Seq(Characters), NEW p \in 1 .. Len(t), NEW q \in p .. Len(t),
         NEW i \in 1 .. q - p + 2, NEW j \in i - 1 .. q - p + 1,
         NEW ii \in 1 .. i + p - 1, NEW jj \in j + p - 1 .. Len(t),
         \A k \in ii .. jj : k < i + p - 1 \/ j + p - 1 < k => t[k] \in Spaces
  PROVE  Trimmed(SubSeq(SubSeq(t, p, q), i, j)) = Trimmed(SubSeq(t, ii, jj))
<1> DEFINE u == SubSeq(t, p, q)
<1>1. Len(t) \in Nat /\ p \in Int /\ q \in Int /\ i \in Int /\ j \in Int /\ ii \in Int /\ jj \in Int
  OBVIOUS
<1>2. /\ u \in Seq(Characters) /\ Len(u) = q - p + 1
      /\ \A k \in 1 .. q - p + 1 : u[k] = t[k + p - 1]
  <2>1. p \in 1 .. Len(t) + 1 /\ q \in p - 1 .. Len(t)
    BY <1>1
  <2> QED BY <2>1, SliceIs
<1> HIDE DEF u
<1>3. i \in 1 .. Len(u) + 1 /\ j \in i - 1 .. Len(u)
  BY <1>1, <1>2
<1>4. ii \in 1 .. Len(t) + 1 /\ jj \in ii - 1 .. Len(t)
  BY <1>1
<1>5. CASE \A k \in ii .. jj : t[k] \in Spaces
  <2>1. ASSUME NEW k \in i .. j PROVE u[k] \in Spaces
    <3>1. k + p - 1 \in ii .. jj /\ k \in 1 .. q - p + 1
      BY <1>1
    <3> QED BY <1>2, <1>5, <3>1
  <2>2. Trimmed(SubSeq(u, i, j)) = <<>>
    BY <1>2, <1>3, <2>1, SliceTrimmed
  <2>3. Trimmed(SubSeq(t, ii, jj)) = <<>>
    BY <1>4, <1>5, SliceTrimmed
  <2> QED BY <2>2, <2>3 DEF u
<1>6. CASE \E k \in ii .. jj : t[k] \notin Spaces
  <2>1. ii \in Nat /\ jj \in Nat
    BY <1>1
  <2>2. PICK a, b : Edges(t, ii, jj, a, b)
    BY <1>6, <2>1, EdgesExist
  <2>3. /\ a \in ii .. jj /\ b \in a .. jj /\ t[a] \notin Spaces /\ t[b] \notin Spaces
        /\ \A k \in ii .. jj : k < a \/ b < k => t[k] \in Spaces
    BY <2>2 DEF Edges
  <2>4. a \in i + p - 1 .. j + p - 1 /\ b \in i + p - 1 .. j + p - 1
    BY <1>1, <2>3
  <2> DEFINE m == a - p + 1
             n == b - p + 1
  <2>5. /\ m \in 1 .. q - p + 1 /\ n \in 1 .. q - p + 1 /\ m + p - 1 = a /\ n + p - 1 = b
        /\ p + m - 1 = a /\ p + n - 1 = b /\ m \in i .. j /\ n \in m .. j
    BY <1>1, <2>3, <2>4
  <2> HIDE DEF m, n
  <2>6. ASSUME NEW k \in i .. j, k < m \/ n < k PROVE u[k] \in Spaces
    <3>1. /\ k + p - 1 \in ii .. jj /\ k \in 1 .. q - p + 1
          /\ k + p - 1 < a \/ b < k + p - 1
      BY <1>1, <2>3, <2>5, <2>6
    <3> QED BY <1>2, <2>3, <3>1
  <2>7. Edges(u, i, j, m, n)
    BY <1>2, <2>3, <2>5, <2>6 DEF Edges
  <2>8. Trimmed(SubSeq(u, i, j)) = SubSeq(u, m, n)
    <3>1. u \in Seq(Characters)
      BY <1>2
    <3>2. \A x, y : Edges(u, i, j, x, y) => Trimmed(SubSeq(u, i, j)) = SubSeq(u, x, y)
      BY <1>3, <3>1, SliceTrimmed, Zenon
    <3> QED BY <2>7, <3>2
  <2>9. Trimmed(SubSeq(t, ii, jj)) = SubSeq(t, a, b)
    BY <1>4, <2>2, SliceTrimmed
  <2>10. SubSeq(u, m, n) = SubSeq(t, p + m - 1, p + n - 1)
    <3>1. p \in 1 .. Len(t) /\ q \in 1 .. Len(t)
      BY <1>1
    <3> QED BY <2>5, <3>1, SubSeqOfSubSeq DEF u
  <2> QED BY <2>5, <2>8, <2>9, <2>10 DEF u
<1> QED BY <1>5, <1>6 DEF u

LEMMA OneCharacter ==
  ASSUME NEW s \in Seq(Characters), NEW c, Len(s) = 1, s[1] = c
  PROVE  s = <<c>>
<1>1. s = [k \in 1 .. 1 |-> s[k]]
  OBVIOUS
<1>2. \A k \in 1 .. 1 : s[k] = c
  OBVIOUS
<1> QED BY <1>1, <1>2

LEMMA TwoCharacters ==
  ASSUME NEW s \in Seq(Characters), NEW c, NEW d, Len(s) = 2, s[1] = c, s[2] = d
  PROVE  s = <<c, d>>
<1>1. s = [k \in 1 .. 2 |-> s[k]]
  OBVIOUS
<1>2. <<c, d>> = [k \in 1 .. 2 |-> IF k = 1 THEN c ELSE d]
  OBVIOUS
<1>3. \A k \in 1 .. 2 : s[k] = IF k = 1 THEN c ELSE d
  OBVIOUS
<1> QED BY <1>1, <1>2, <1>3

LEMMA StandsIs ==
  ASSUME NEW u \in Seq(Characters), NEW i \in 1 .. Len(u), NEW c, NEW d
  PROVE  /\ StandsAt(u, i, <<c>>) <=> u[i] = c
         /\ StandsAt(u, i, <<c, d>>) <=> i < Len(u) /\ u[i] = c /\ u[i + 1] = d
<1>1. Len(u) \in Nat /\ i \in Int /\ Len(<<c>>) = 1 /\ Len(<<c, d>>) = 2
  OBVIOUS
<1>2. StandsAt(u, i, <<c>>) <=> u[i] = c
  <2> DEFINE s == SubSeq(u, i, i)
  <2>1. i + 1 - 1 = i /\ i \in 1 .. Len(u) + 1 /\ i \in i - 1 .. Len(u)
    BY <1>1
  <2>2. /\ s \in Seq(Characters) /\ Len(s) = i - i + 1
        /\ \A k \in 1 .. i - i + 1 : s[k] = u[k + i - 1]
    BY <2>1, SliceIs
  <2> HIDE DEF s
  <2>3. i - i + 1 = 1 /\ 1 + i - 1 = i
    BY <1>1
  <2>4. Len(s) = 1 /\ s[1] = u[i]
    BY <2>2, <2>3
  <2>5. u[i] = c => s = <<c>>
    BY <2>2, <2>4, OneCharacter
  <2>6. s = <<c>> => u[i] = c
    BY <2>4
  <2>7. StandsAt(u, i, <<c>>) <=> i <= Len(u) /\ s = <<c>>
    BY <1>1, <2>1 DEF StandsAt, s
  <2> QED BY <1>1, <2>5, <2>6, <2>7
<1>3. StandsAt(u, i, <<c, d>>) <=> i < Len(u) /\ u[i] = c /\ u[i + 1] = d
  <2> DEFINE s == SubSeq(u, i, i + 1)
  <2>1. i + 2 - 1 = i + 1
    BY <1>1
  <2>2. StandsAt(u, i, <<c, d>>) <=> i + 1 <= Len(u) /\ s = <<c, d>>
    BY <1>1, <2>1 DEF StandsAt
  <2>3. CASE i < Len(u)
    <3>1. i \in 1 .. Len(u) + 1 /\ i + 1 \in i - 1 .. Len(u) /\ i + 1 <= Len(u)
      BY <1>1, <2>3
    <3>2. /\ s \in Seq(Characters) /\ Len(s) = (i + 1) - i + 1
          /\ \A k \in 1 .. (i + 1) - i + 1 : s[k] = u[k + i - 1]
      BY <3>1, SliceIs
    <3> HIDE DEF s
    <3>3. (i + 1) - i + 1 = 2 /\ 1 + i - 1 = i /\ 2 + i - 1 = i + 1
      BY <1>1
    <3>4. Len(s) = 2 /\ s[1] = u[i] /\ s[2] = u[i + 1]
      BY <3>2, <3>3
    <3>5. u[i] = c /\ u[i + 1] = d => s = <<c, d>>
      BY <3>2, <3>4, TwoCharacters
    <3>6. s = <<c, d>> => u[i] = c /\ u[i + 1] = d
      BY <3>4
    <3> QED BY <2>2, <2>3, <3>1, <3>5, <3>6
  <2>4. CASE ~(i < Len(u))
    <3>1. ~(i + 1 <= Len(u))
      BY <1>1, <2>4
    <3> QED BY <2>2, <2>4, <3>1
  <2> QED BY <2>3, <2>4
<1> QED BY <1>2, <1>3

\* The longest operator that begins at a position, if one does.
LEMMA OperatorsIs ==
  ASSUME NEW u \in Seq(Characters), NEW i \in 1 .. Len(u)
  PROVE  OperatorsAt(u, i) =
           IF i < Len(u) /\ u[i + 1] = "=" /\ u[i] \in {"=", "!", "<", ">"} THEN {<<u[i], "=">>}
           ELSE IF u[i] \in {"<", ">", "="} THEN {<<u[i]>>}
           ELSE {}
<1> DEFINE long  == {op \in LongOperators : StandsAt(u, i, op)}
           short == {op \in ShortOperators : StandsAt(u, i, op)}
<1>1. ASSUME NEW c \in {"=", "!", "<", ">"}
      PROVE  StandsAt(u, i, <<c, "=">>) <=> i < Len(u) /\ u[i] = c /\ u[i + 1] = "="
  BY StandsIs
<1>2. ASSUME NEW c \in {"<", ">", "="} PROVE StandsAt(u, i, <<c>>) <=> u[i] = c
  BY StandsIs
<1>3. long = IF i < Len(u) /\ u[i + 1] = "=" /\ u[i] \in {"=", "!", "<", ">"}
             THEN {<<u[i], "=">>} ELSE {}
  <2>1. LongOperators = {<<c, "=">> : c \in {"=", "!", "<", ">"}}
    BY DEF LongOperators
  <2>2. \A op : op \in long <=> \E c \in {"=", "!", "<", ">"} :
                                  op = <<c, "=">> /\ i < Len(u) /\ u[i] = c /\ u[i + 1] = "="
    BY <1>1, <2>1
  <2> HIDE DEF long
  <2> QED BY <2>2
<1>4. short = IF u[i] \in {"<", ">", "="} THEN {<<u[i]>>} ELSE {}
  <2>1. ShortOperators = {<<c>> : c \in {"<", ">", "="}}
    BY DEF ShortOperators
  <2>2. \A op : op \in short <=> \E c \in {"<", ">", "="} : op = <<c>> /\ u[i] = c
    BY <1>2, <2>1
  <2> HIDE DEF short
  <2> QED BY <2>2
<1>5. OperatorsAt(u, i) = IF long # {} THEN long ELSE short
  BY DEF OperatorsAt
<1> HIDE DEF long, short
<1> QED BY <1>3, <1>4, <1>5

LEMMA AnchorIs ==
  ASSUME NEW u \in Seq(Characters), Anchors(u) # {}
  PROVE  /\ Anchor(u) \in 1 .. Len(u) /\ u[Anchor(u)] \in {"<", ">", "="}
         /\ \A k \in 1 .. Anchor(u) - 1 : u[k] \notin {"<", ">", "="}
<1>1. Len(u) \in Nat /\ DOMAIN u = 1 .. Len(u)
  OBVIOUS
<1>2. Anchors(u) \in SUBSET Nat
  BY <1>1 DEF Anchors
<1>3. \E i \in Anchors(u) : \A j \in Anchors(u) : i <= j
  BY <1>2, LeastOf
<1>4. Anchor(u) \in Anchors(u) /\ \A j \in Anchors(u) : Anchor(u) <= j
  <2> HIDE DEF Anchors
  <2> QED BY <1>3 DEF Anchor
<1>5. ASSUME NEW k \in 1 .. Anchor(u) - 1 PROVE k \notin Anchors(u) /\ k \in 1 .. Len(u)
  BY <1>1, <1>2, <1>4 DEF Anchors
<1> QED BY <1>1, <1>4, <1>5 DEF Anchors

\* The first operator is the one read outwards from the first of its characters.
LEMMA OperatorSpan ==
  ASSUME NEW u \in Seq(Characters), Anchors(u) # {}
  PROVE  /\ OperatorFrom(u) \in 1 .. Len(u) /\ OperatorTo(u) \in OperatorFrom(u) .. Len(u)
         /\ Anchor(u) \in OperatorFrom(u) .. OperatorTo(u)
         /\ Positions(u) = {OperatorFrom(u)}
         /\ OperatorsAt(u, OperatorFrom(u)) = {SubSeq(u, OperatorFrom(u), OperatorTo(u))}
<1> DEFINE a    == Anchor(u)
           from == OperatorFrom(u)
           to   == OperatorTo(u)
<1>1. /\ Len(u) \in Nat /\ DOMAIN u = 1 .. Len(u)
      /\ a \in 1 .. Len(u) /\ u[a] \in {"<", ">", "="}
      /\ \A k \in 1 .. a - 1 : u[k] \notin {"<", ">", "="}
  BY AnchorIs
<1>2. /\ from = IF u[a] = "=" /\ a > 1 /\ u[a - 1] = "!" THEN a - 1 ELSE a
      /\ to = IF from = a /\ a < Len(u) /\ u[a + 1] = "=" THEN a + 1 ELSE a
  BY DEF OperatorFrom, OperatorTo
<1> HIDE DEF a, from, to
<1>3. from \in 1 .. Len(u) /\ to \in from .. Len(u) /\ a \in from .. to
  BY <1>1, <1>2
<1>4. ASSUME NEW k \in 1 .. from - 1 PROVE OperatorsAt(u, k) = {}
  <2>1. /\ k \in 1 .. Len(u) /\ k \in 1 .. a - 1 /\ u[k] \notin {"<", ">", "="}
        /\ k + 1 \in 1 .. a - 1 \/ k + 1 = a
    BY <1>1, <1>3
  <2>2. ~(u[k + 1] = "=" /\ u[k] = "!")
    <3> SUFFICES ASSUME u[k + 1] = "=", u[k] = "!" PROVE FALSE
      OBVIOUS
    <3>1. k + 1 = a /\ a - 1 = k /\ a > 1
      BY <1>1, <2>1
    <3>2. from = k
      BY <1>2, <3>1
    <3> QED BY <1>1, <1>3, <3>2
  <2> QED BY <2>1, <2>2, OperatorsIs
<1>5. OperatorsAt(u, from) = {SubSeq(u, from, to)}
  <2> DEFINE s == SubSeq(u, from, to)
  <2>1. s \in Seq(Characters) /\ Len(s) = to - from + 1
        /\ \A k \in 1 .. to - from + 1 : s[k] = u[k + from - 1]
    <3>1. from \in 1 .. Len(u) + 1 /\ to \in from - 1 .. Len(u)
      BY <1>1, <1>3
    <3> QED BY <3>1, SliceIs
  <2> HIDE DEF s
  <2>2. CASE from # a
    <3>1. u[a] = "=" /\ u[from] = "!" /\ from = a - 1 /\ to = a /\ from + 1 = a
      BY <1>1, <1>2, <2>2
    <3>2. OperatorsAt(u, from) = {<<u[from], "=">>}
      <4>1. from < Len(u) /\ u[from + 1] = "=" /\ u[from] \in {"=", "!", "<", ">"}
        BY <1>1, <3>1
      <4> QED BY <1>3, <4>1, OperatorsIs
    <3>3. to - from + 1 = 2 /\ 1 + from - 1 = from /\ 2 + from - 1 = a /\ 2 \in 1 .. 2
      BY <1>1, <3>1
    <3>4. /\ Len(s) = 2 /\ s[1] = u[from]
          /\ s[2] = "="
      <4> HIDE DEF s
      <4>1. \A k \in 1 .. 2 : s[k] = u[k + from - 1]
        BY <2>1, <3>3
      <4>2. s[1] = u[1 + from - 1] /\ s[2] = u[2 + from - 1]
        BY <4>1
      <4> QED BY <2>1, <3>1, <3>3, <4>2
    <3> QED BY <2>1, <3>2, <3>4, TwoCharacters DEF s
  <2>3. CASE from = a /\ to = a + 1
    <3>1. a < Len(u) /\ u[a + 1] = "="
      BY <1>1, <1>2, <2>3
    <3>2. OperatorsAt(u, from) = {<<u[from], "=">>}
      BY <1>1, <2>3, <3>1, OperatorsIs
    <3>3. to - from + 1 = 2 /\ 1 + from - 1 = from /\ 2 + from - 1 = a + 1
      BY <1>1, <2>3
    <3>4. /\ Len(s) = 2 /\ s[1] = u[from]
          /\ s[2] = "="
      BY <2>1, <3>1, <3>3
    <3> QED BY <2>1, <3>2, <3>4, TwoCharacters DEF s
  <2>4. CASE from = a /\ to = a
    <3>1. ~(a < Len(u) /\ u[a + 1] = "=")
      BY <1>1, <1>2, <2>4
    <3>2. OperatorsAt(u, from) = {<<u[from]>>}
      BY <1>1, <2>4, <3>1, OperatorsIs
    <3>3. to - from + 1 = 1 /\ 1 + from - 1 = from
      BY <1>1, <2>4
    <3>4. Len(s) = 1 /\ s[1] = u[from]
      BY <2>1, <3>3
    <3> QED BY <2>1, <3>2, <3>4, OneCharacter DEF s
  <2> QED BY <1>2, <2>2, <2>3, <2>4 DEF s
<1>6. Positions(u) = {from}
  <2>1. from \in Positions(u)
    BY <1>1, <1>3, <1>4, <1>5 DEF Positions
  <2>2. ASSUME NEW i \in Positions(u) PROVE i = from
    <3>1. /\ i \in 1 .. Len(u) /\ OperatorsAt(u, i) # {}
          /\ \A j \in 1 .. i - 1 : OperatorsAt(u, j) = {}
      BY <1>1 DEF Positions
    <3>2. i = from \/ i \in 1 .. from - 1 \/ from \in 1 .. i - 1
      BY <1>1, <1>3, <3>1
    <3> QED BY <1>4, <1>5, <3>1, <3>2
  <2> QED BY <2>1, <2>2
<1> QED BY <1>3, <1>5, <1>6 DEF a, from, to

\* The two sides of a text with an operator, as a set of one, or of none.
Sides(t) ==
  IF Anchors(t) = {} THEN {}
  ELSE {[left  |-> Trimmed(SubSeq(t, 1, OperatorFrom(t) - 1)),
         op    |-> SubSeq(t, OperatorFrom(t), OperatorTo(t)),
         right |-> Trimmed(SubSeq(t, OperatorTo(t) + 1, Len(t)))]}

LEMMA SplitsIs ==
  ASSUME NEW u \in Seq(Characters)
  PROVE  Splits(u) = Sides(u)
<1>1. Len(u) \in Nat /\ DOMAIN u = 1 .. Len(u)
  OBVIOUS
<1>2. CASE Anchors(u) = {}
  <2>1. ASSUME NEW i \in 1 .. Len(u) PROVE OperatorsAt(u, i) = {}
    <3>1. u[i] \notin {"<", ">", "="}
      BY <1>1, <1>2 DEF Anchors
    <3>2. ~(i < Len(u) /\ u[i + 1] = "=")
      <4> SUFFICES ASSUME i < Len(u), u[i + 1] = "=" PROVE FALSE
        OBVIOUS
      <4>1. i + 1 \in 1 .. Len(u)
        BY <1>1
      <4> QED BY <1>1, <1>2, <4>1 DEF Anchors
    <3> QED BY <3>1, <3>2, OperatorsIs
  <2>2. Positions(u) = {}
    BY <1>1, <2>1 DEF Positions
  <2> QED BY <1>2, <2>2 DEF Splits, Sides
<1>3. CASE Anchors(u) # {}
  <2> DEFINE from == OperatorFrom(u)
             to   == OperatorTo(u)
             op   == SubSeq(u, from, to)
  <2>1. /\ from \in 1 .. Len(u) /\ to \in from .. Len(u)
        /\ Positions(u) = {from} /\ OperatorsAt(u, from) = {op}
    BY <1>3, OperatorSpan
  <2>2. Len(op) = to - from + 1
    <3>1. from \in 1 .. Len(u) + 1 /\ to \in from - 1 .. Len(u)
      BY <1>1, <2>1
    <3> QED BY <3>1, SliceIs
  <2> HIDE DEF from, to, op
  <2>3. from + Len(op) = to + 1
    BY <1>1, <2>1, <2>2
  <2>4. UNION {OperatorsAt(u, i) : i \in Positions(u)} = {op}
    BY <2>1
  <2>5. Splits(u) = {[left |-> Trimmed(SubSeq(u, 1, from - 1)), op |-> op,
                      right |-> Trimmed(SubSeq(u, from + Len(op), Len(u)))]}
    BY <2>1, <2>4 DEF Splits
  <2> QED BY <1>3, <2>3, <2>5 DEF Sides, from, to, op
<1> QED BY <1>2, <1>3

\* White space around a text says nothing.
LEMMA SidesOfTrimmed ==
  ASSUME NEW t \in Seq(Characters)
  PROVE  Trimmed(t) \in Seq(Characters) /\ Sides(Trimmed(t)) = Sides(t)
<1>1. Len(t) \in Nat /\ DOMAIN t = 1 .. Len(t) /\ 1 \in 1 .. Len(t) + 1 /\ Len(t) \in 1 - 1 .. Len(t)
  OBVIOUS
<1>2. SubSeq(t, 1, Len(t)) = t
  BY SubSeqFull
<1>3. CASE \A k \in 1 .. Len(t) : t[k] \in Spaces
  <2>1. Trimmed(t) = <<>>
    BY <1>1, <1>2, <1>3, SliceTrimmed
  <2>2. Anchors(t) = {}
    BY <1>1, <1>3 DEF Anchors, Spaces
  <2>3. Anchors(<<>>) = {}
    BY DEF Anchors
  <2> QED BY <2>1, <2>2, <2>3 DEF Sides
<1>4. CASE \E k \in 1 .. Len(t) : t[k] \notin Spaces
  <2>1. PICK p, q : Edges(t, 1, Len(t), p, q)
    BY <1>1, <1>4, EdgesExist
  <2> DEFINE u == SubSeq(t, p, q)
  <2>2. /\ p \in 1 .. Len(t) /\ q \in p .. Len(t)
        /\ \A k \in 1 .. Len(t) : k < p \/ q < k => t[k] \in Spaces
    BY <2>1 DEF Edges
  <2>3. Trimmed(t) = u
    BY <1>1, <1>2, <2>1, SliceTrimmed
  <2>4. /\ u \in Seq(Characters) /\ Len(u) = q - p + 1 /\ DOMAIN u = 1 .. q - p + 1
        /\ \A k \in 1 .. q - p + 1 : u[k] = t[k + p - 1]
    <3>1. p \in 1 .. Len(t) + 1 /\ q \in p - 1 .. Len(t)
      BY <1>1, <2>2
    <3> QED BY <3>1, SliceIs
  <2> HIDE DEF u
  <2>5. ASSUME NEW k \in 1 .. Len(t), t[k] \in {"<", ">", "=", "!"} PROVE k \in p .. q
    <3>1. t[k] \notin Spaces
      BY <2>5 DEF Spaces
    <3> QED BY <1>1, <2>2, <3>1
  <2>6. CASE Anchors(t) = {}
    <3>1. ASSUME NEW k \in 1 .. q - p + 1 PROVE u[k] \notin {"<", ">", "="}
      <4>1. k + p - 1 \in 1 .. Len(t)
        BY <1>1, <2>2
      <4> QED BY <1>1, <2>4, <2>6, <4>1 DEF Anchors
    <3>2. Anchors(u) = {}
      BY <2>4, <3>1 DEF Anchors
    <3> QED BY <2>3, <2>4, <2>6, <3>2 DEF Sides
  <2>7. CASE Anchors(t) # {}
    <3> DEFINE a == Anchor(t)
               b == Anchor(u)
    <3>1. /\ a \in 1 .. Len(t) /\ t[a] \in {"<", ">", "="}
          /\ \A k \in 1 .. a - 1 : t[k] \notin {"<", ">", "="}
      BY <2>7, AnchorIs
    <3>2. a \in p .. q
      BY <2>5, <3>1
    <3>3. Anchors(u) # {}
      <4>1. a - p + 1 \in 1 .. q - p + 1 /\ (a - p + 1) + p - 1 = a
        BY <1>1, <2>2, <3>2
      <4>2. u[a - p + 1] = t[a]
        BY <2>4, <4>1
      <4> QED BY <2>4, <3>1, <4>1, <4>2 DEF Anchors
    <3>4. /\ b \in 1 .. q - p + 1 /\ u[b] \in {"<", ">", "="}
          /\ \A k \in 1 .. b - 1 : u[k] \notin {"<", ">", "="}
      BY <2>4, <3>3, AnchorIs
    <3> HIDE DEF a, b
    <3>5. b + p - 1 = a
      <4>1. u[b] = t[b + p - 1] /\ b + p - 1 \in 1 .. Len(t)
        BY <1>1, <2>2, <2>4, <3>4
      <4>2. ~(b + p - 1 < a)
        BY <1>1, <2>2, <3>1, <3>4, <4>1
      <4>3. ~(a < b + p - 1)
        <5> SUFFICES ASSUME a < b + p - 1 PROVE FALSE
          OBVIOUS
        <5>1. a - p + 1 \in 1 .. b - 1 /\ a - p + 1 \in 1 .. q - p + 1 /\ (a - p + 1) + p - 1 = a
          BY <1>1, <2>2, <3>2, <3>4
        <5> QED BY <2>4, <3>1, <3>4, <5>1
      <4> QED BY <1>1, <2>2, <3>1, <3>4, <4>2, <4>3
    <3> DEFINE from == OperatorFrom(t)
               to   == OperatorTo(t)
               x    == OperatorFrom(u)
               y    == OperatorTo(u)
    <3>6. /\ from = IF t[a] = "=" /\ a > 1 /\ t[a - 1] = "!" THEN a - 1 ELSE a
          /\ to = IF from = a /\ a < Len(t) /\ t[a + 1] = "=" THEN a + 1 ELSE a
          /\ x = IF u[b] = "=" /\ b > 1 /\ u[b - 1] = "!" THEN b - 1 ELSE b
          /\ y = IF x = b /\ b < Len(u) /\ u[b + 1] = "=" THEN b + 1 ELSE b
      BY DEF OperatorFrom, OperatorTo, a, b
    <3> HIDE DEF from, to, x, y
    <3>7. u[b] = t[a]
      BY <2>4, <3>4, <3>5
    <3>8. b > 1 /\ u[b - 1] = "!" <=> a > 1 /\ t[a - 1] = "!"
      <4>1. ASSUME b > 1 PROVE a > 1 /\ u[b - 1] = t[a - 1]
        <5>1. b - 1 \in 1 .. q - p + 1 /\ (b - 1) + p - 1 = a - 1 /\ a > 1
          BY <1>1, <2>2, <3>4, <3>5, <4>1
        <5> QED BY <2>4, <5>1
      <4>2. ASSUME a > 1, t[a - 1] = "!" PROVE b > 1
        <5>1. a - 1 \in 1 .. Len(t)
          BY <1>1, <3>1, <4>2
        <5>2. a - 1 \in p .. q
          BY <2>5, <4>2, <5>1
        <5> QED BY <1>1, <2>2, <3>4, <3>5, <5>2
      <4> QED BY <4>1, <4>2
    <3>9. b < Len(u) /\ u[b + 1] = "=" <=> a < Len(t) /\ t[a + 1] = "="
      <4>1. ASSUME b < Len(u) PROVE a < Len(t) /\ u[b + 1] = t[a + 1]
        <5>1. b + 1 \in 1 .. q - p + 1 /\ (b + 1) + p - 1 = a + 1 /\ a < Len(t)
          BY <1>1, <2>2, <2>4, <3>4, <3>5, <4>1
        <5> QED BY <2>4, <5>1
      <4>2. ASSUME a < Len(t), t[a + 1] = "=" PROVE b < Len(u)
        <5>1. a + 1 \in 1 .. Len(t)
          BY <1>1, <3>1, <4>2
        <5>2. a + 1 \in p .. q
          BY <2>5, <4>2, <5>1
        <5> QED BY <1>1, <2>2, <2>4, <3>4, <3>5, <5>2
      <4> QED BY <4>1, <4>2
    <3>10. x + p - 1 = from
      BY <1>1, <2>2, <3>1, <3>4, <3>5, <3>6, <3>7, <3>8
    <3>11. y + p - 1 = to
      <4>1. x = b <=> from = a
        BY <1>1, <2>2, <3>1, <3>4, <3>5, <3>6, <3>10
      <4> QED BY <1>1, <2>2, <3>1, <3>4, <3>5, <3>6, <3>9, <4>1
    <3>12. x \in 1 .. q - p + 1 /\ y \in x .. q - p + 1
      BY <2>4, <3>3, OperatorSpan DEF x, y
    <3>13. SubSeq(u, x, y) = SubSeq(t, from, to)
      <4>1. /\ p \in 1 .. Len(t) /\ q \in 1 .. Len(t)
            /\ x \in 1 .. q - p + 1 /\ y \in 1 .. q - p + 1
            /\ p + x - 1 = from /\ p + y - 1 = to
        BY <1>1, <2>2, <3>10, <3>11, <3>12
      <4>2. SubSeq(SubSeq(t, p, q), x, y) = SubSeq(t, p + x - 1, p + y - 1)
        BY <4>1, SubSeqOfSubSeq
      <4> QED BY <4>1, <4>2 DEF u
    <3>14. Trimmed(SubSeq(u, 1, x - 1)) = Trimmed(SubSeq(t, 1, from - 1))
      <4> DEFINE j  == x - 1
                 jj == from - 1
      <4>1. /\ 1 \in 1 .. q - p + 2 /\ j \in 1 - 1 .. q - p + 1
            /\ 1 \in 1 .. 1 + p - 1 /\ jj \in j + p - 1 .. Len(t) /\ j + p - 1 = jj /\ 1 + p - 1 = p
        BY <1>1, <2>2, <3>10, <3>12
      <4>2. jj <= Len(t)
        BY <1>1, <4>1
      <4> HIDE DEF j, jj
      <4>3. \A k \in 1 .. jj : k < 1 + p - 1 \/ j + p - 1 < k => t[k] \in Spaces
        BY <1>1, <2>2, <4>1, <4>2
      <4>4. Trimmed(SubSeq(SubSeq(t, p, q), 1, j)) = Trimmed(SubSeq(t, 1, jj))
        BY <2>2, <4>1, <4>3, TrimmedWithin, Zenon
      <4> QED BY <4>4 DEF j, jj, u
    <3>15. Trimmed(SubSeq(u, y + 1, Len(u))) = Trimmed(SubSeq(t, to + 1, Len(t)))
      <4> DEFINE i  == y + 1
                 ii == to + 1
                 j  == Len(u)
                 jj == Len(t)
      <4>1. /\ i \in 1 .. q - p + 2 /\ j \in i - 1 .. q - p + 1
            /\ ii \in 1 .. i + p - 1 /\ jj \in j + p - 1 .. Len(t) /\ i + p - 1 = ii /\ j + p - 1 = q
        BY <1>1, <2>2, <2>4, <3>11, <3>12
      <4>2. jj = Len(t)
        OBVIOUS
      <4> HIDE DEF i, ii, j, jj
      <4>3. \A k \in ii .. jj : k < i + p - 1 \/ j + p - 1 < k => t[k] \in Spaces
        BY <1>1, <2>2, <4>1, <4>2
      <4>4. Trimmed(SubSeq(SubSeq(t, p, q), i, j)) = Trimmed(SubSeq(t, ii, jj))
        BY <2>2, <4>1, <4>3, TrimmedWithin, Zenon
      <4> QED BY <4>4 DEF i, ii, j, jj, u
    <3> QED BY <2>3, <2>4, <2>7, <3>3, <3>13, <3>14, <3>15 DEF Sides, from, to, x, y
  <2> QED BY <2>6, <2>7
<1> QED BY <1>3, <1>4

-----------------------------------------------------------------------------
(* Guards: what is printed, and what is shown of it, are texts.              *)

\* There is a function that Spelled can be.
LEMMA SpelledIs ==
  ASSUME NEW t \in Seq(Characters), NEW place
  PROVE  Spelled(place, t) = [n \in 0 .. Len(t) |->
                       IF n = 0 THEN <<>> ELSE Spelled(place, t)[n - 1] \o Spelling(place, t[n])]
<1> DEFINE Is(f, k) == f = [n \in 0 .. k |->
                              IF n = 0 THEN <<>> ELSE f[n - 1] \o Spelling(place, t[n])]
           without  == {k \in 0 .. Len(t) : ~ \E f : Is(f, k)}
<1>1. Len(t) \in Nat
  OBVIOUS
<1>2. without = {}
  <2> SUFFICES ASSUME without # {} PROVE FALSE
    OBVIOUS
  <2>1. PICK k \in without : \A j \in without : k <= j
    <3>1. 0 .. Len(t) \subseteq Nat
      BY <1>1
    <3>2. without \in SUBSET Nat
      BY <3>1, Zenon
    <3> HIDE DEF without
    <3> QED BY <3>2, LeastOf
  <2>2. k \in 0 .. Len(t) /\ ~ \E f : Is(f, k)
    BY <2>1
  <2>3. k # 0
    <3>1. Is([n \in 0 .. 0 |-> <<>>], 0)
      OBVIOUS
    <3> HIDE DEF Is
    <3> QED BY <2>2, <3>1
  <2>4. k - 1 \in 0 .. Len(t) /\ ~(k <= k - 1) /\ k \in Nat
    BY <1>1, <2>2, <2>3
  <2>5. k - 1 \notin without
    BY <2>1, <2>4
  <2>6. PICK g : Is(g, k - 1)
    BY <2>4, <2>5
  <2> DEFINE f == [n \in 0 .. k |-> IF n = k THEN g[k - 1] \o Spelling(place, t[k]) ELSE g[n]]
  <2>7. ASSUME NEW n \in 0 .. k
        PROVE  f[n] = IF n = 0 THEN <<>> ELSE f[n - 1] \o Spelling(place, t[n])
    <3>1. n = k \/ n \in 0 .. k - 1
      BY <2>4
    <3>2. n # 0 => n - 1 \in 0 .. k - 1 /\ n - 1 \in 0 .. k /\ n - 1 # k
      BY <2>4, <2>7
    <3>3. CASE n = k
      <4>1. f[n] = g[k - 1] \o Spelling(place, t[k]) /\ f[n - 1] = g[k - 1]
        BY <2>3, <3>2, <3>3
      <4> QED BY <2>3, <3>3, <4>1
    <3>4. CASE n # k
      <4>1. n \in 0 .. k - 1 /\ f[n] = g[n] /\ (n # 0 => f[n - 1] = g[n - 1])
        BY <3>1, <3>2, <3>4
      <4>2. g[n] = IF n = 0 THEN <<>> ELSE g[n - 1] \o Spelling(place, t[n])
        BY <2>6, <4>1
      <4> QED BY <4>1, <4>2
    <3> QED BY <3>3, <3>4
  <2>8. Is(f, k)
    <3>1. f = [n \in 0 .. k |-> f[n]]
      OBVIOUS
    <3> HIDE DEF f
    <3> QED BY <2>7, <3>1
  <2> HIDE DEF Is
  <2> QED BY <2>2, <2>8
<1>3. \E f : Is(f, Len(t))
  <2>1. Len(t) \in 0 .. Len(t)
    BY <1>1
  <2> HIDE DEF Is
  <2> QED BY <1>2, <2>1
<1> QED BY <1>3 DEF Spelled

\* And one that Seen can be.
LEMMA SeenIs ==
  ASSUME NEW t \in Seq(Characters), NEW place
  PROVE  Seen(place, t) = [n \in 0 .. Len(t) |->
                       IF n = 0 THEN [entity |-> <<>>, text |-> <<>>] ELSE Read(place, Seen(place, t)[n - 1], t[n])]
<1> DEFINE Is(f, k) == f = [n \in 0 .. k |->
                              IF n = 0 THEN [entity |-> <<>>, text |-> <<>>] ELSE Read(place, f[n - 1], t[n])]
           without  == {k \in 0 .. Len(t) : ~ \E f : Is(f, k)}
<1>1. Len(t) \in Nat
  OBVIOUS
<1>2. without = {}
  <2> SUFFICES ASSUME without # {} PROVE FALSE
    OBVIOUS
  <2>1. PICK k \in without : \A j \in without : k <= j
    <3>1. 0 .. Len(t) \subseteq Nat
      BY <1>1
    <3>2. without \in SUBSET Nat
      BY <3>1, Zenon
    <3> HIDE DEF without
    <3> QED BY <3>2, LeastOf
  <2>2. k \in 0 .. Len(t) /\ ~ \E f : Is(f, k)
    BY <2>1
  <2>3. k # 0
    <3>1. Is([n \in 0 .. 0 |-> [entity |-> <<>>, text |-> <<>>]], 0)
      OBVIOUS
    <3> HIDE DEF Is
    <3> QED BY <2>2, <3>1
  <2>4. k - 1 \in 0 .. Len(t) /\ ~(k <= k - 1) /\ k \in Nat
    BY <1>1, <2>2, <2>3
  <2>5. k - 1 \notin without
    BY <2>1, <2>4
  <2>6. PICK g : Is(g, k - 1)
    BY <2>4, <2>5
  <2> DEFINE f == [n \in 0 .. k |-> IF n = k THEN Read(place, g[k - 1], t[k]) ELSE g[n]]
  <2>7. ASSUME NEW n \in 0 .. k
        PROVE  f[n] = IF n = 0 THEN [entity |-> <<>>, text |-> <<>>] ELSE Read(place, f[n - 1], t[n])
    <3>1. n = k \/ n \in 0 .. k - 1
      BY <2>4
    <3>2. n # 0 => n - 1 \in 0 .. k - 1 /\ n - 1 \in 0 .. k /\ n - 1 # k
      BY <2>4, <2>7
    <3>3. CASE n = k
      <4>1. f[n] = Read(place, g[k - 1], t[k]) /\ f[n - 1] = g[k - 1]
        BY <2>3, <3>2, <3>3
      <4> QED BY <2>3, <3>3, <4>1
    <3>4. CASE n # k
      <4>1. n \in 0 .. k - 1 /\ f[n] = g[n] /\ (n # 0 => f[n - 1] = g[n - 1])
        BY <3>1, <3>2, <3>4
      <4>2. g[n] = IF n = 0 THEN [entity |-> <<>>, text |-> <<>>] ELSE Read(place, g[n - 1], t[n])
        BY <2>6, <4>1
      <4> QED BY <4>1, <4>2
    <3> QED BY <3>3, <3>4
  <2>8. Is(f, k)
    <3>1. f = [n \in 0 .. k |-> f[n]]
      OBVIOUS
    <3> HIDE DEF f
    <3> QED BY <2>7, <3>1
  <2> HIDE DEF Is
  <2> QED BY <2>2, <2>8
<1>3. \E f : Is(f, Len(t))
  <2>1. Len(t) \in 0 .. Len(t)
    BY <1>1
  <2> HIDE DEF Is
  <2> QED BY <1>2, <2>1
<1> QED BY <1>3 DEF Seen

\* And one that Decimals can be: a quotient comes before what is divided.
LEMMA DecimalsAre ==
  ASSUME NEW most \in Nat
  PROVE  Decimals(most) =
           [n \in 0 .. most |->
              IF n < 10 THEN <<Digits[n + 1]>>
              ELSE Append(Decimals(most)[n \div 10], Digits[(n % 10) + 1])]
<1> DEFINE Is(f, k) == f = [n \in 0 .. k |-> IF n < 10 THEN <<Digits[n + 1]>>
                                             ELSE Append(f[n \div 10], Digits[(n % 10) + 1])]
           without  == {k \in 0 .. most : ~ \E f : Is(f, k)}
<1>1. without = {}
  <2> SUFFICES ASSUME without # {} PROVE FALSE
    OBVIOUS
  <2>1. PICK k \in without : \A j \in without : k <= j
    <3>1. 0 .. most \subseteq Nat
      OBVIOUS
    <3>2. without \in SUBSET Nat
      BY <3>1, Zenon
    <3> HIDE DEF without
    <3> QED BY <3>2, LeastOf
  <2>2. k \in 0 .. most /\ ~ \E f : Is(f, k)
    BY <2>1
  <2>3. k # 0
    <3>1. Is([n \in 0 .. 0 |-> <<Digits[n + 1]>>], 0)
      OBVIOUS
    <3> HIDE DEF Is
    <3> QED BY <2>2, <3>1
  <2>4. k - 1 \in 0 .. most /\ ~(k <= k - 1) /\ k \in Nat
    BY <2>2, <2>3
  <2>5. k - 1 \notin without
    BY <2>1, <2>4
  <2>6. PICK g : Is(g, k - 1)
    BY <2>4, <2>5
  <2> DEFINE last == IF k < 10 THEN <<Digits[k + 1]>>
                     ELSE Append(g[k \div 10], Digits[(k % 10) + 1])
             f    == [n \in 0 .. k |-> IF n = k THEN last ELSE g[n]]
  <2>7. ASSUME NEW n \in 0 .. k
        PROVE  f[n] = IF n < 10 THEN <<Digits[n + 1]>>
                      ELSE Append(f[n \div 10], Digits[(n % 10) + 1])
    <3>1. n = k \/ n \in 0 .. k - 1
      BY <2>4
    <3>2. n >= 10 => n \div 10 \in 0 .. n - 1
      BY <2>4
    <3>3. n >= 10 => n \div 10 \in 0 .. k /\ n \div 10 # k /\ f[n \div 10] = g[n \div 10]
      BY <2>4, <3>2
    <3>4. n \in Nat /\ (~(n < 10) => n >= 10)
      BY <2>4
    <3>5. CASE n = k
      <4>1. f[n] = last
        BY <3>5
      <4> HIDE DEF f
      <4> QED BY <3>3, <3>4, <3>5, <4>1
    <3>6. CASE n # k
      <4>1. n \in 0 .. k - 1 /\ f[n] = g[n]
        BY <3>1, <3>6
      <4>2. g[n] = IF n < 10 THEN <<Digits[n + 1]>> ELSE Append(g[n \div 10], Digits[(n % 10) + 1])
        BY <2>6, <4>1
      <4> HIDE DEF f
      <4> QED BY <3>3, <3>4, <4>1, <4>2
    <3> QED BY <3>5, <3>6
  <2>8. Is(f, k)
    <3>1. f = [n \in 0 .. k |-> f[n]]
      OBVIOUS
    <3> HIDE DEF f
    <3> QED BY <2>7, <3>1
  <2> HIDE DEF Is
  <2> QED BY <2>2, <2>8
<1>2. \E f : Is(f, most)
  <2>1. most \in 0 .. most
    OBVIOUS
  <2> HIDE DEF Is
  <2> QED BY <1>1, <2>1
<1> QED BY <1>2 DEF Decimals

LEMMA DigitOf ==
  ASSUME NEW n \in 0 .. 9
  PROVE  /\ Digits[n + 1] \in Characters /\ IsDigit(Digits[n + 1]) /\ DigitValue(Digits[n + 1]) = n
         /\ Digits[n + 1] \notin Spaces \cup {"+", "-", "<", ">", "=", "#"}
<1>1. n \in {0, 1, 2, 3, 4, 5, 6, 7, 8, 9}
  OBVIOUS
<1>2. n + 1 \in 1 .. 10
  OBVIOUS
<1>3. \A d \in 1 .. 10 : Digits[d] = Digits[n + 1] => d = n + 1
  <2> TAKE d \in 1 .. 10
  <2>1. d \in {1, 2, 3, 4, 5, 6, 7, 8, 9, 10}
    OBVIOUS
  <2> QED BY <1>1, <2>1 DEF Digits
<1>4. (CHOOSE d \in 1 .. 10 : Digits[d] = Digits[n + 1]) = n + 1
  BY <1>2, <1>3
<1>5. Digits[n + 1] \in {"0", "1", "2", "3", "4", "5", "6", "7", "8", "9"}
  BY <1>1 DEF Digits
<1>6. Digits[n + 1] \notin Spaces
  BY <1>5 DEF Spaces
<1>7. Digits[n + 1] \notin {"+", "-", "<", ">", "=", "#"}
  BY <1>1 DEF Digits
<1>8. IsDigit(Digits[n + 1])
  BY <1>2 DEF IsDigit
<1>9. DigitValue(Digits[n + 1]) = n
  <2>1. DigitValue(Digits[n + 1]) = (n + 1) - 1
    BY <1>4 DEF DigitValue
  <2> QED BY <2>1
<1> QED BY <1>5, <1>6, <1>7, <1>8, <1>9, Letters

\* What the first digits are worth does not depend on those behind them.
LEMMA WorthOfPrefix ==
  ASSUME NEW d \in Seq(Characters), NEW e \in Seq(Characters), Len(e) <= Len(d),
         \A i \in 1 .. Len(e) : d[i] = e[i]
  PROVE  \A n \in 0 .. Len(e) : Worth(d)[n] = Worth(e)[n]
<1> DEFINE differ == {n \in 0 .. Len(e) : Worth(d)[n] # Worth(e)[n]}
<1>1. Len(d) \in Nat /\ Len(e) \in Nat
  OBVIOUS
<1>2. differ = {}
  <2> SUFFICES ASSUME differ # {} PROVE FALSE
    OBVIOUS
  <2>1. PICK n \in differ : \A k \in differ : n <= k
    <3>1. differ \in SUBSET Nat
      BY <1>1
    <3> HIDE DEF differ
    <3> QED BY <3>1, LeastOf
  <2>2. n \in 0 .. Len(e) /\ Worth(d)[n] # Worth(e)[n]
    BY <2>1
  <2>3. n # 0
    BY <2>2, NoDigits
  <2>4. n \in 1 .. Len(d) /\ n \in 1 .. Len(e) /\ n - 1 \in 0 .. Len(e) /\ ~(n <= n - 1)
    BY <1>1, <2>2, <2>3
  <2>5. n - 1 \notin differ
    BY <2>1, <2>4
  <2>6. Worth(d)[n - 1] = Worth(e)[n - 1]
    BY <2>4, <2>5
  <2>7. /\ Worth(d)[n] = 10 * Worth(d)[n - 1] + DigitValue(d[n])
        /\ Worth(e)[n] = 10 * Worth(e)[n - 1] + DigitValue(e[n])
    BY <2>4, OneMoreDigit
  <2> QED BY <2>2, <2>4, <2>6, <2>7
<1> QED BY <1>2

\* A row of digits that reads as a number.
Spells(d, n) ==
  /\ d \in Seq(Characters) /\ d # <<>>
  /\ \A i \in 1 .. Len(d) : IsDigit(d[i]) /\ d[i] \notin Spaces \cup {"+", "-", "<", ">", "=", "#"}
  /\ Worth(d)[Len(d)] = n

LEMMA OneDigit ==
  ASSUME NEW n \in 0 .. 9
  PROVE  Spells(<<Digits[n + 1]>>, n)
<1> DEFINE c == Digits[n + 1]
           d == <<c>>
<1>1. /\ c \in Characters /\ IsDigit(c) /\ DigitValue(c) = n
      /\ c \notin Spaces \cup {"+", "-", "<", ">", "=", "#"}
  BY DigitOf
<1> HIDE DEF c
<1>2. d \in Seq(Characters) /\ Len(d) = 1 /\ d[1] = c
  <2>1. \A S : c \in S => <<c>> \in Seq(S)
    OBVIOUS
  <2> QED BY <1>1, <2>1
<1> HIDE DEF d
<1>3. 1 \in 1 .. Len(d) /\ 1 - 1 = 0 /\ \A i \in 1 .. Len(d) : i = 1
  BY <1>2
<1>4. Worth(d)[1] = 10 * Worth(d)[1 - 1] + DigitValue(d[1]) /\ Worth(d)[0] = 0
  BY <1>2, <1>3, OneMoreDigit
<1>5. Worth(d)[Len(d)] = n
  BY <1>1, <1>2, <1>3, <1>4
<1> QED BY <1>1, <1>2, <1>3, <1>5 DEF Spells, d, c

LEMMA DigitMore ==
  ASSUME NEW m \in Nat, NEW e, Spells(e, m), NEW n \in 0 .. 9
  PROVE  Spells(Append(e, Digits[n + 1]), 10 * m + n)
<1> DEFINE c == Digits[n + 1]
           d == Append(e, c)
<1>1. /\ c \in Characters /\ IsDigit(c) /\ DigitValue(c) = n
      /\ c \notin Spaces \cup {"+", "-", "<", ">", "=", "#"}
  BY DigitOf
<1> HIDE DEF c
<1>2. /\ e \in Seq(Characters) /\ Len(e) \in Nat /\ Worth(e)[Len(e)] = m
      /\ \A i \in 1 .. Len(e) : IsDigit(e[i]) /\ e[i] \notin Spaces \cup {"+", "-", "<", ">", "=", "#"}
  BY DEF Spells
<1>3. /\ d \in Seq(Characters) /\ d # <<>> /\ Len(d) = Len(e) + 1 /\ d[Len(e) + 1] = c
      /\ \A i \in 1 .. Len(e) : d[i] = e[i]
  BY <1>1, <1>2, AppendProperties
<1> HIDE DEF d
<1>4. /\ Len(e) + 1 \in 1 .. Len(d) /\ (Len(e) + 1) - 1 = Len(e) /\ Len(e) \in 0 .. Len(e)
      /\ Len(e) <= Len(d) /\ \A i \in 1 .. Len(d) : i \in 1 .. Len(e) \/ i = Len(e) + 1
  BY <1>2, <1>3
<1>5. Worth(d)[Len(e)] = Worth(e)[Len(e)]
  BY <1>2, <1>3, <1>4, WorthOfPrefix
<1>6. Worth(d)[Len(e) + 1] = 10 * Worth(d)[(Len(e) + 1) - 1] + DigitValue(d[Len(e) + 1])
  BY <1>3, <1>4, OneMoreDigit
<1>7. Worth(d)[Len(d)] = 10 * m + n
  BY <1>1, <1>2, <1>3, <1>4, <1>5, <1>6
<1> QED BY <1>1, <1>2, <1>3, <1>4, <1>7 DEF Spells, d, c

\* append_int collects the digits of the number.
LEMMA DecimalSpells ==
  ASSUME NEW most \in Nat
  PROVE  \A n \in 0 .. most : Spells(Decimals(most)[n], n)
<1> DEFINE wrong == {n \in 0 .. most : ~Spells(Decimals(most)[n], n)}
<1>1. wrong = {}
  <2> SUFFICES ASSUME wrong # {} PROVE FALSE
    OBVIOUS
  <2>1. PICK n \in wrong : \A k \in wrong : n <= k
    <3>1. wrong \in SUBSET Nat
      OBVIOUS
    <3> HIDE DEF wrong
    <3> QED BY <3>1, LeastOf
  <2>2. n \in 0 .. most /\ ~Spells(Decimals(most)[n], n) /\ n \in Nat
    BY <2>1
  <2>3. Decimals(most)[n] = IF n < 10 THEN <<Digits[n + 1]>>
                            ELSE Append(Decimals(most)[n \div 10], Digits[(n % 10) + 1])
    BY <2>2, DecimalsAre
  <2>4. CASE n < 10
    <3>1. n \in 0 .. 9
      BY <2>2, <2>4
    <3> QED BY <2>2, <2>3, <2>4, <3>1, OneDigit
  <2>5. CASE ~(n < 10)
    <3>1. /\ n \div 10 \in 0 .. n - 1 /\ n % 10 \in 0 .. 9 /\ n = 10 * (n \div 10) + (n % 10)
      BY <2>2, <2>5
    <3> DEFINE m == n \div 10
               r == n % 10
    <3>2. m \in Nat /\ m \in 0 .. most /\ ~(n <= m) /\ r \in 0 .. 9 /\ n = 10 * m + r
      BY <2>2, <3>1
    <3>3. Decimals(most)[n] = Append(Decimals(most)[m], Digits[r + 1])
      BY <2>3, <2>5
    <3> HIDE DEF m, r
    <3>4. Spells(Decimals(most)[m], m)
      BY <2>1, <3>2
    <3> QED BY <2>2, <3>2, <3>3, <3>4, DigitMore
  <2> QED BY <2>4, <2>5
<1> QED BY <1>1

\* An integer that is printed reads back.
LEMMA IntegerReads ==
  ASSUME NEW n \in kIntMin .. kIntMax
  PROVE  /\ Integer(n) \in Seq(Characters) /\ Integer(n) # <<>>
         /\ \A i \in 1 .. Len(Integer(n)) : Integer(n)[i] \notin Spaces \cup {"<", ">", "=", "#"}
         /\ IsInt32(Integer(n)) /\ Denoted(Integer(n)) = n
<1>1. kIntMax \in Nat /\ n \in Int
  BY DEF kIntMin
<1>2. CASE n < 0
  <2> DEFINE m == -n
             d == Decimal(m)
             t == <<"-">> \o d
  <2>1. m \in Nat /\ -m = n
    BY <1>1, <1>2
  <2>2. Integer(n) = t
    BY <1>2 DEF Integer
  <2> HIDE DEF m
  <2>3. Spells(d, m)
    <3>1. m \in 0 .. m
      BY <2>1
    <3> QED BY <2>1, <3>1, DecimalSpells DEF Decimal
  <2> HIDE DEF d
  <2>4. /\ d \in Seq(Characters) /\ d # <<>> /\ Len(d) \in Nat /\ Worth(d)[Len(d)] = m
        /\ \A i \in 1 .. Len(d) : IsDigit(d[i]) /\ d[i] \notin Spaces \cup {"+", "-", "<", ">", "=", "#"}
    BY <2>3 DEF Spells
  <2>5. <<"-">> \in Seq(Characters) /\ Len(<<"-">>) = 1 /\ <<"-">>[1] = "-"
    <3>1. \A S : \A c \in S : <<c>> \in Seq(S)
      OBVIOUS
    <3>2. "-" \in Characters
      BY Letters
    <3>3. <<"-">> \in Seq(Characters)
      BY <3>1, <3>2
    <3>4. Len(<<"-">>) = 1
      OBVIOUS
    <3>5. <<"-">>[1] = "-"
      OBVIOUS
    <3> QED BY <3>3, <3>4, <3>5
  <2>6. /\ t \in Seq(Characters) /\ Len(t) = 1 + Len(d)
        /\ \A i \in 1 .. 1 + Len(d) : t[i] = IF i <= 1 THEN <<"-">>[i] ELSE d[i - 1]
    BY <2>4, <2>5, ConcatProperties
  <2> HIDE DEF t
  <2>7. t[1] = "-" /\ t # <<>>
    BY <2>4, <2>5, <2>6
  <2>8. ASSUME NEW i \in 1 .. Len(d) PROVE t[i + 1] = d[i]
    <3>1. i + 1 \in 1 .. 1 + Len(d) /\ ~(i + 1 <= 1) /\ (i + 1) - 1 = i
      BY <2>4
    <3> QED BY <2>6, <3>1
  <2>9. Unsigned(t) = d
    <3>1. Unsigned(t) = Tail(t)
      BY <2>7 DEF Unsigned
    <3>2. Tail(t) \in Seq(Characters) /\ Len(Tail(t)) = Len(d) /\ \A i \in 1 .. Len(d) : Tail(t)[i] = t[i + 1]
      BY <2>4, <2>6, <2>7, HeadTailProperties
    <3> QED BY <2>4, <2>8, <3>1, <3>2, SeqEqual
  <2>10. IsNumeral(t) /\ Denoted(t) = n
    BY <2>1, <2>4, <2>7, <2>9 DEF IsNumeral, Denoted, Magnitude
  <2>11. \A i \in 1 .. Len(t) : t[i] \notin Spaces \cup {"<", ">", "=", "#"}
    <3> TAKE i \in 1 .. Len(t)
    <3>1. i = 1 \/ (i - 1 \in 1 .. Len(d) /\ (i - 1) + 1 = i)
      BY <2>4, <2>6
    <3> QED BY <2>4, <2>7, <2>8, <3>1 DEF Spaces
  <2> QED BY <2>2, <2>6, <2>7, <2>10, <2>11 DEF IsInt32
<1>3. CASE ~(n < 0)
  <2> DEFINE d == Decimal(n)
  <2>1. n \in Nat /\ n \in 0 .. n
    BY <1>1, <1>3
  <2>2. Integer(n) = d
    BY <1>3 DEF Integer
  <2>3. Spells(d, n)
    BY <2>1, DecimalSpells DEF Decimal
  <2> HIDE DEF d
  <2>4. /\ d \in Seq(Characters) /\ d # <<>> /\ Len(d) \in Nat /\ Len(d) # 0 /\ Worth(d)[Len(d)] = n
        /\ \A i \in 1 .. Len(d) : IsDigit(d[i]) /\ d[i] \notin Spaces \cup {"+", "-", "<", ">", "=", "#"}
    BY <2>3, EmptySeq DEF Spells
  <2>5. 1 \in 1 .. Len(d)
    BY <2>4
  <2>6. Unsigned(d) = d /\ d[1] # "-"
    BY <2>4, <2>5 DEF Unsigned
  <2>7. IsNumeral(d) /\ Denoted(d) = n
    BY <2>4, <2>6 DEF IsNumeral, Denoted, Magnitude
  <2> QED BY <2>2, <2>4, <2>7 DEF IsInt32
<1> QED BY <1>2, <1>3

-----------------------------------------------------------------------------
(* Guards: what is shown of a text is that text.                             *)

LEMMA Marks ==
  /\ Quote \notin {"<", ">", "#"} /\ Backslash \notin {"<", ">", "#", Quote}
  /\ Quote \in Characters /\ Backslash \in Characters
<1>1. Quote \notin {"<", ">", "#"} /\ Backslash \notin {"<", ">", "#", Quote}
  BY Zenon DEF Quote, Backslash
<1>2. Quote \in Characters /\ Backslash \in Characters
  BY Zenon, Letters DEF Quote, Backslash
<1> QED BY <1>1, <1>2

\* Characters make a text.
LEMMA Rows ==
  /\ \A c \in Characters : <<c>> \in Seq(Characters) /\ <<Backslash, c>> \in Seq(Characters)
  /\ <<"#", "l", "t", ";">> \in Seq(Characters)
  /\ <<"#", "g", "t", ";">> \in Seq(Characters)
  /\ <<"#", "q", "u", "o", "t", ";">> \in Seq(Characters)
<1>1. \A S : \A c \in S : <<c>> \in Seq(S)
  OBVIOUS
<1>2. \A S : \A c, d \in S : <<c, d>> \in Seq(S)
  OBVIOUS
<1>3. \A S : \A c, d, e, f \in S : <<c, d, e, f>> \in Seq(S)
  OBVIOUS
<1>4. \A S : \A c, d, e, f, g, h \in S : <<c, d, e, f, g, h>> \in Seq(S)
  OBVIOUS
<1>5. /\ "#" \in Characters /\ "l" \in Characters /\ "t" \in Characters /\ ";" \in Characters
      /\ "g" \in Characters /\ "q" \in Characters /\ "u" \in Characters /\ "o" \in Characters
      /\ Backslash \in Characters
  BY Letters, Marks
<1>6. <<"#", "l", "t", ";">> \in Seq(Characters)
  BY <1>3, <1>5
<1>7. <<"#", "g", "t", ";">> \in Seq(Characters)
  BY <1>3, <1>5
<1>8. <<"#", "q", "u", "o", "t", ";">> \in Seq(Characters)
  BY <1>4, <1>5
<1>9. \A c \in Characters : <<c>> \in Seq(Characters) /\ <<Backslash, c>> \in Seq(Characters)
  BY <1>1, <1>2, <1>5
<1> QED BY <1>6, <1>7, <1>8, <1>9

\* A character is spelled as itself, or begins like no other and is told from the
\* others by its length and its second character.
LEMMA SpellingIs ==
  ASSUME NEW place \in Places, NEW c \in Characters
  PROVE  /\ Spelling(place, c) \in Seq(Characters)
         /\ \/ Spelling(place, c) = <<c>> /\ (c \notin Begins(place) \/ c = "#")
            \/ /\ c \in Special /\ Spelling(place, c)[1] \in Begins(place)
               /\ \/ place = "mermaid" /\ c = "<" /\ Len(Spelling(place, c)) = 4 /\ Spelling(place, c)[2] = "l"
                  \/ place = "mermaid" /\ c = ">" /\ Len(Spelling(place, c)) = 4 /\ Spelling(place, c)[2] = "g"
                  \/ place = "mermaid" /\ c = Quote /\ Len(Spelling(place, c)) = 6 /\ Spelling(place, c)[2] = "q"
                  \/ place = "dot" /\ c \in {Quote, Backslash} /\ Len(Spelling(place, c)) = 2 /\ Spelling(place, c)[2] = c
<1>1. CASE place = "mermaid" /\ c = "<"
  <2> DEFINE s == <<"#", "l", "t", ";">>
  <2>1. Spelling(place, c) = s
    BY <1>1, Marks DEF Spelling
  <2>2. s \in Seq(Characters) /\ Len(s) = 4
    BY Rows
  <2>3. s[1] = "#"
    OBVIOUS
  <2>4. s[2] = "l"
    OBVIOUS
  <2>5. c \in Special /\ "#" \in Begins(place)
    BY <1>1 DEF Special, Begins
  <2> HIDE DEF s
  <2> QED BY <1>1, <2>1, <2>2, <2>3, <2>4, <2>5
<1>2. CASE place = "mermaid" /\ c = ">"
  <2> DEFINE s == <<"#", "g", "t", ";">>
  <2>1. Spelling(place, c) = s
    BY <1>2, Marks DEF Spelling
  <2>2. s \in Seq(Characters) /\ Len(s) = 4
    BY Rows
  <2>3. s[1] = "#"
    OBVIOUS
  <2>4. s[2] = "g"
    OBVIOUS
  <2>5. c \in Special /\ "#" \in Begins(place)
    BY <1>2 DEF Special, Begins
  <2> HIDE DEF s
  <2> QED BY <1>2, <2>1, <2>2, <2>3, <2>4, <2>5
<1>3. CASE place = "mermaid" /\ c = Quote
  <2> DEFINE s == <<"#", "q", "u", "o", "t", ";">>
  <2>1. Spelling(place, c) = s
    BY <1>3, Marks DEF Spelling
  <2>2. s \in Seq(Characters) /\ Len(s) = 6
    BY Rows
  <2>3. s[1] = "#"
    OBVIOUS
  <2>4. s[2] = "q"
    OBVIOUS
  <2>5. c \in Special /\ "#" \in Begins(place)
    BY <1>3 DEF Special, Begins
  <2> HIDE DEF s
  <2> QED BY <1>3, <2>1, <2>2, <2>3, <2>4, <2>5
<1>4. CASE place = "dot" /\ c \in {Quote, Backslash}
  <2> DEFINE s == <<Backslash, c>>
  <2>1. Spelling(place, c) = s
    BY <1>4, Marks DEF Spelling
  <2>2. s \in Seq(Characters) /\ Len(s) = 2
    BY Rows, Letters
  <2>3. s[1] = Backslash
    OBVIOUS
  <2>4. s[2] = c
    OBVIOUS
  <2>5. c \in Special /\ Backslash \in Begins(place)
    BY <1>4 DEF Special, Begins
  <2> HIDE DEF s
  <2> QED BY <1>4, <2>1, <2>2, <2>3, <2>4, <2>5
<1>5. CASE /\ ~(place = "mermaid" /\ c \in {"<", ">", Quote})
           /\ ~(place = "dot" /\ c \in {Quote, Backslash})
  <2>1. Spelling(place, c) = <<c>>
    BY <1>5 DEF Spelling
  <2>2. Spelling(place, c) \in Seq(Characters)
    BY <2>1, Rows, Letters
  <2>3. c \notin Begins(place) \/ c = "#"
    BY <1>5 DEF Begins, Places
  <2> QED BY <2>1, <2>2, <2>3
<1> QED BY <1>1, <1>2, <1>3, <1>4, <1>5

LEMMA SpellingTyped ==
  ASSUME NEW place \in Places, NEW c \in Characters
  PROVE  Spelling(place, c) \in Seq(Characters) /\ Len(Spelling(place, c)) \in Nat
<1>1. Spelling(place, c) \in Seq(Characters)
  BY SpellingIs
<1> QED BY <1>1, LenProperties

LEMMA SpecialLetters == Special \subseteq Characters
BY Letters, Marks DEF Special

\* Character by character.
LEMMA OneMoreSpelled ==
  ASSUME NEW t \in Seq(Characters), NEW place \in Places
  PROVE  /\ Spelled(place, t)[0] = <<>>
         /\ \A n \in 1 .. Len(t) :
              Spelled(place, t)[n] = Spelled(place, t)[n - 1] \o Spelling(place, t[n])
<1> DEFINE f == Spelled(place, t)
<1>1. f = [n \in 0 .. Len(t) |-> IF n = 0 THEN <<>> ELSE f[n - 1] \o Spelling(place, t[n])]
  BY SpelledIs
<1> HIDE DEF f
<1>2. Len(t) \in Nat
  OBVIOUS
<1>3. f[0] = <<>>
  BY <1>1, <1>2
<1>4. ASSUME NEW n \in 1 .. Len(t) PROVE f[n] = f[n - 1] \o Spelling(place, t[n])
  <2>1. n \in 0 .. Len(t) /\ n # 0
    BY <1>2
  <2> QED BY <1>1, <2>1
<1> QED BY <1>3, <1>4 DEF f

LEMMA OneMoreSeen ==
  ASSUME NEW e \in Seq(Characters), NEW place
  PROVE  /\ Seen(place, e)[0] = [entity |-> <<>>, text |-> <<>>]
         /\ \A n \in 1 .. Len(e) : Seen(place, e)[n] = Read(place, Seen(place, e)[n - 1], e[n])
<1> DEFINE f == Seen(place, e)
<1>1. f = [n \in 0 .. Len(e) |-> IF n = 0 THEN [entity |-> <<>>, text |-> <<>>]
                                  ELSE Read(place, f[n - 1], e[n])]
  BY SeenIs
<1> HIDE DEF f
<1>2. Len(e) \in Nat
  OBVIOUS
<1>3. f[0] = [entity |-> <<>>, text |-> <<>>]
  BY <1>1, <1>2
<1>4. ASSUME NEW n \in 1 .. Len(e) PROVE f[n] = Read(place, f[n - 1], e[n])
  <2>1. n \in 0 .. Len(e) /\ n # 0
    BY <1>2
  <2> QED BY <1>1, <2>1
<1> QED BY <1>3, <1>4 DEF f

\* What is spelled is a text.
LEMMA SpelledTyped ==
  ASSUME NEW t \in Seq(Characters), NEW place \in Places
  PROVE  \A n \in 0 .. Len(t) : Spelled(place, t)[n] \in Seq(Characters)
<1> DEFINE wrong == {n \in 0 .. Len(t) : Spelled(place, t)[n] \notin Seq(Characters)}
<1>1. Len(t) \in Nat
  OBVIOUS
<1>2. wrong = {}
  <2> SUFFICES ASSUME wrong # {} PROVE FALSE
    OBVIOUS
  <2>1. PICK n \in wrong : \A k \in wrong : n <= k
    <3>1. wrong \in SUBSET Nat
      BY <1>1
    <3> HIDE DEF wrong
    <3> QED BY <3>1, LeastOf
  <2>2. n \in 0 .. Len(t) /\ Spelled(place, t)[n] \notin Seq(Characters)
    BY <2>1
  <2>3. n # 0
    BY <2>2, OneMoreSpelled, EmptySeq
  <2>4. n \in 1 .. Len(t) /\ n - 1 \in 0 .. Len(t) /\ ~(n <= n - 1)
    BY <1>1, <2>2, <2>3
  <2>5. Spelled(place, t)[n - 1] \in Seq(Characters)
    BY <2>1, <2>4
  <2>6. t[n] \in Characters
    BY <2>4, ElementOfSeq
  <2>7. Spelling(place, t[n]) \in Seq(Characters)
    BY <2>6, SpellingTyped
  <2>8. Spelled(place, t)[n] = Spelled(place, t)[n - 1] \o Spelling(place, t[n])
    BY <2>4, OneMoreSpelled
  <2>9. Spelled(place, t)[n - 1] \o Spelling(place, t[n]) \in Seq(Characters)
    BY <2>5, <2>7, ConcatProperties
  <2> QED BY <2>2, <2>8, <2>9
<1> QED BY <1>2

\* What is spelled of an initial part of a text is how the whole begins.
LEMMA SpelledBegins ==
  ASSUME NEW t \in Seq(Characters), NEW place \in Places
  PROVE  /\ Escaped(place, t) \in Seq(Characters)
         /\ \A n \in 0 .. Len(t) :
              /\ Len(Spelled(place, t)[n]) <= Len(Escaped(place, t))
              /\ \A i \in 1 .. Len(Spelled(place, t)[n]) :
                   Escaped(place, t)[i] = Spelled(place, t)[n][i]
<1> DEFINE f     == Spelled(place, t)
           e     == Escaped(place, t)
           ok(n) == Len(f[n]) <= Len(e) /\ \A i \in 1 .. Len(f[n]) : e[i] = f[n][i]
           wrong == {m \in 0 .. Len(t) : ~ok(Len(t) - m)}
<1>1. Len(t) \in Nat /\ e = f[Len(t)]
  BY DEF Escaped
<1>2. \A n \in 0 .. Len(t) : f[n] \in Seq(Characters) /\ Len(f[n]) \in Nat
  BY SpelledTyped
<1>3. ASSUME NEW n \in 1 .. Len(t), ok(n) PROVE ok(n - 1)
  <2> DEFINE s == Spelling(place, t[n])
  <2>1. n \in 0 .. Len(t) /\ n - 1 \in 0 .. Len(t)
    BY <1>1
  <2>2. t[n] \in Characters
    BY ElementOfSeq
  <2>3. s \in Seq(Characters) /\ Len(s) \in Nat
    BY <2>2, SpellingTyped
  <2>4. f[n] = f[n - 1] \o s
    BY OneMoreSpelled
  <2> HIDE DEF s, f, e
  <2>5. /\ f[n - 1] \in Seq(Characters) /\ Len(f[n - 1]) \in Nat
        /\ f[n] \in Seq(Characters) /\ Len(f[n]) \in Nat
    BY <1>2, <2>1
  <2>6. /\ Len(f[n]) = Len(f[n - 1]) + Len(s)
        /\ \A i \in 1 .. Len(f[n - 1]) + Len(s) :
             f[n][i] = IF i <= Len(f[n - 1]) THEN f[n - 1][i] ELSE s[i - Len(f[n - 1])]
    BY <2>3, <2>4, <2>5, ConcatProperties
  <2>7. e \in Seq(Characters) /\ Len(e) \in Nat
    <3>1. Len(t) \in 0 .. Len(t)
      BY <1>1
    <3> QED BY <1>1, <1>2, <3>1
  <2>8. Len(f[n - 1]) <= Len(e)
    BY <1>3, <2>3, <2>5, <2>6, <2>7
  <2>9. ASSUME NEW i \in 1 .. Len(f[n - 1]) PROVE e[i] = f[n - 1][i]
    <3>1. i \in 1 .. Len(f[n]) /\ i \in 1 .. Len(f[n - 1]) + Len(s) /\ i <= Len(f[n - 1])
      BY <2>3, <2>5, <2>6
    <3> QED BY <1>3, <2>6, <3>1
  <2> QED BY <2>8, <2>9
<1>4. e \in Seq(Characters)
  <2>1. Len(t) \in 0 .. Len(t)
    BY <1>1
  <2> HIDE DEF e, f
  <2> QED BY <1>1, <1>2, <2>1
<1> HIDE DEF ok
<1>5. ok(Len(t))
  <2> HIDE DEF e, f
  <2>1. Len(e) \in Nat
    BY <1>4
  <2> QED BY <1>1, <2>1 DEF ok
<1>6. wrong = {}
  <2> SUFFICES ASSUME wrong # {} PROVE FALSE
    OBVIOUS
  <2>1. PICK m \in wrong : \A k \in wrong : m <= k
    <3>1. wrong \in SUBSET Nat
      BY <1>1
    <3> HIDE DEF wrong
    <3> QED BY <3>1, LeastOf
  <2>2. m \in 0 .. Len(t) /\ ~ok(Len(t) - m) /\ Len(t) - 0 = Len(t)
    BY <1>1, <2>1
  <2>3. m # 0
    BY <1>5, <2>2
  <2>4. /\ m - 1 \in 0 .. Len(t) /\ ~(m <= m - 1)
        /\ Len(t) - (m - 1) \in 1 .. Len(t) /\ (Len(t) - (m - 1)) - 1 = Len(t) - m
    BY <1>1, <2>2, <2>3
  <2>5. ok(Len(t) - (m - 1))
    BY <2>1, <2>4
  <2>6. ok((Len(t) - (m - 1)) - 1)
    BY <1>3, <2>4, <2>5
  <2> QED BY <2>2, <2>4, <2>6
<1>7. ASSUME NEW n \in 0 .. Len(t) PROVE ok(n)
  <2>1. Len(t) - n \in 0 .. Len(t) /\ Len(t) - (Len(t) - n) = n
    BY <1>1
  <2> QED BY <1>6, <2>1
<1> QED BY <1>4, <1>7 DEF ok

\* What a reader has seen: characters, and the beginning of an entity.
SeenOK(seen) == seen \in [entity : Seq(Characters), text : Seq(Characters)]

LEMMA SeenTyped ==
  ASSUME NEW e \in Seq(Characters), NEW place \in Places
  PROVE  Shown(place, e) \in Seq(Characters)
<1> DEFINE f     == Seen(place, e)
           wrong == {n \in 0 .. Len(e) : ~SeenOK(f[n])}
<1>1. Len(e) \in Nat
  OBVIOUS
<1>2. ASSUME NEW seen, NEW c \in Characters, SeenOK(seen) PROVE SeenOK(Read(place, seen, c))
  <2> DEFINE entity  == Append(seen.entity, c)
             spelled == {d \in Special : Spelling(place, d) = entity}
             d       == CHOOSE d \in spelled : TRUE
  <2>1. /\ seen.entity \in Seq(Characters) /\ seen.text \in Seq(Characters)
        /\ seen \in [entity : Seq(Characters), text : Seq(Characters)]
    BY <1>2 DEF SeenOK
  <2>2. entity \in Seq(Characters) /\ Append(seen.text, c) \in Seq(Characters)
    BY <2>1, AppendProperties
  <2>3. spelled # {} => d \in Characters
    <3>1. spelled # {} => d \in spelled
      OBVIOUS
    <3>2. spelled \subseteq Characters
      BY SpecialLetters
    <3> QED BY <3>1, <3>2
  <2> HIDE DEF d
  <2>4. spelled # {} => Append(seen.text, d) \in Seq(Characters)
    <3> HIDE DEF spelled
    <3> QED BY <2>1, <2>3, AppendProperties
  <2>5. Read(place, seen, c) =
          IF seen.entity = <<>> /\ c \notin Begins(place) THEN [seen EXCEPT !.text = Append(@, c)]
          ELSE IF seen.entity # <<>> /\ spelled # {} THEN [entity |-> <<>>, text |-> Append(seen.text, d)]
          ELSE [seen EXCEPT !.entity = entity]
    BY DEF Read, d
  <2> HIDE DEF entity, spelled
  <2>6. <<>> \in Seq(Characters)
    BY EmptySeq
  <2> DEFINE r == Read(place, seen, c)
  <2> HIDE DEF r
  <2>7. r = [seen EXCEPT !.text = Append(@, c)] => SeenOK(r)
    BY <2>1, <2>2 DEF SeenOK
  <2>8. r = [entity |-> <<>>, text |-> Append(seen.text, d)] /\ spelled # {} => SeenOK(r)
    BY <2>4, <2>6 DEF SeenOK
  <2>9. r = [seen EXCEPT !.entity = entity] => SeenOK(r)
    BY <2>1, <2>2 DEF SeenOK
  <2> QED BY <2>5, <2>7, <2>8, <2>9 DEF r
<1>3. SeenOK(f[0])
  <2>1. f[0] = [entity |-> <<>>, text |-> <<>>]
    BY OneMoreSeen
  <2>2. <<>> \in Seq(Characters)
    BY EmptySeq
  <2> HIDE DEF f
  <2> QED BY <2>1, <2>2 DEF SeenOK
<1>4. wrong = {}
  <2> SUFFICES ASSUME wrong # {} PROVE FALSE
    OBVIOUS
  <2>1. PICK n \in wrong : \A k \in wrong : n <= k
    <3>1. wrong \in SUBSET Nat
      BY <1>1
    <3> HIDE DEF wrong
    <3> QED BY <3>1, LeastOf
  <2>2. n \in 0 .. Len(e) /\ ~SeenOK(f[n])
    BY <2>1
  <2>3. n # 0
    BY <1>3, <2>2
  <2>4. n \in 1 .. Len(e) /\ n - 1 \in 0 .. Len(e) /\ ~(n <= n - 1)
    BY <1>1, <2>2, <2>3
  <2>5. SeenOK(f[n - 1])
    BY <2>1, <2>4
  <2>6. f[n] = Read(place, f[n - 1], e[n]) /\ e[n] \in Characters
    BY <2>4, OneMoreSeen, ElementOfSeq
  <2> HIDE DEF f
  <2> QED BY <1>2, <2>2, <2>5, <2>6
<1>5. Len(e) \in 0 .. Len(e)
  BY <1>1
<1>6. SeenOK(f[Len(e)])
  BY <1>4, <1>5
<1> QED BY <1>6 DEF SeenOK, Shown

\* How a character is spelled is read as that character.
LEMMA SpellingRead ==
  ASSUME NEW e \in Seq(Characters), NEW place \in Places, NEW c \in Characters, c # "#",
         NEW x \in Seq(Characters), NEW p \in 0 .. Len(e),
         p + Len(Spelling(place, c)) <= Len(e),
         \A k \in 1 .. Len(Spelling(place, c)) : e[p + k] = Spelling(place, c)[k],
         Seen(place, e)[p] = [entity |-> <<>>, text |-> x]
  PROVE  Seen(place, e)[p + Len(Spelling(place, c))] = [entity |-> <<>>, text |-> Append(x, c)]
<1> DEFINE f == Seen(place, e)
           s == Spelling(place, c)
<1>1. s \in Seq(Characters) /\ Len(s) \in Nat /\ Len(e) \in Nat
  BY SpellingTyped
<1>2. ASSUME NEW k \in 1 .. Len(s)
      PROVE  p + k \in 1 .. Len(e) /\ f[p + k] = Read(place, f[p + (k - 1)], s[k])
  <2>1. p + k \in 1 .. Len(e) /\ (p + k) - 1 = p + (k - 1)
    BY <1>1
  <2>2. f[p + k] = Read(place, f[(p + k) - 1], e[p + k])
    BY <2>1, OneMoreSeen
  <2> QED BY <2>1, <2>2
<1>3. CASE s = <<c>> /\ c \notin Begins(place)
  <2>1. Len(s) = 1 /\ s[1] = c /\ 1 \in 1 .. Len(s) /\ p + (1 - 1) = p
    BY <1>3
  <2>2. f[p + 1] = Read(place, [entity |-> <<>>, text |-> x], c)
    BY <1>2, <2>1
  <2>3. f[p + 1] = [[entity |-> <<>>, text |-> x] EXCEPT !.text = Append(@, c)]
    BY <1>3, <2>2 DEF Read
  <2> QED BY <2>1, <2>3
<1>4. CASE /\ c \in Special /\ s[1] \in Begins(place)
           /\ \/ place = "mermaid" /\ c = "<" /\ Len(s) = 4 /\ s[2] = "l"
              \/ place = "mermaid" /\ c = ">" /\ Len(s) = 4 /\ s[2] = "g"
              \/ place = "mermaid" /\ c = Quote /\ Len(s) = 6 /\ s[2] = "q"
              \/ place = "dot" /\ c \in {Quote, Backslash} /\ Len(s) = 2 /\ s[2] = c
  <2> DEFINE spelled(m) == {d \in Special : Spelling(place, d) = m}
  <2>1. Len(s) >= 2
    <3> HIDE DEF s
    <3> QED BY <1>1, <1>4
  <2>2. ASSUME NEW d \in Special
        PROVE  \/ Len(Spelling(place, d)) = 1
               \/ place = "mermaid" /\ d = "<" /\ Len(Spelling(place, d)) = 4 /\ Spelling(place, d)[2] = "l"
               \/ place = "mermaid" /\ d = ">" /\ Len(Spelling(place, d)) = 4 /\ Spelling(place, d)[2] = "g"
               \/ place = "mermaid" /\ d = Quote /\ Len(Spelling(place, d)) = 6 /\ Spelling(place, d)[2] = "q"
               \/ place = "dot" /\ d \in {Quote, Backslash} /\ Len(Spelling(place, d)) = 2 /\ Spelling(place, d)[2] = d
    <3>1. d \in Characters
      BY SpecialLetters
    <3>2. Spelling(place, d) = <<d>> => Len(Spelling(place, d)) = 1
      OBVIOUS
    <3> QED BY <3>1, <3>2, SpellingIs
  <2>3. ASSUME NEW k \in 2 .. Len(s) - 1 PROVE spelled(SubSeq(s, 1, k)) = {}
    <3> SUFFICES ASSUME NEW d \in Special, Spelling(place, d) = SubSeq(s, 1, k) PROVE FALSE
      BY DEF Special
    <3>1. 1 \in 1 .. Len(s) + 1 /\ k \in 1 - 1 .. Len(s) /\ k - 1 + 1 = k /\ 2 \in 1 .. k /\ 2 + 1 - 1 = 2
      BY <1>1
    <3>2. Len(SubSeq(s, 1, k)) = k /\ SubSeq(s, 1, k)[2] = s[2]
      BY <1>1, <3>1, SliceIs
    <3>3. Len(Spelling(place, d)) = k /\ Spelling(place, d)[2] = s[2]
      BY <3>2
    <3>4. k \in Nat /\ 2 <= k /\ k < Len(s)
      BY <1>1
    <3> DEFINE r == Spelling(place, d)
    <3>5. \/ Len(r) = 1
          \/ place = "mermaid" /\ d = "<" /\ Len(r) = 4 /\ r[2] = "l"
          \/ place = "mermaid" /\ d = ">" /\ Len(r) = 4 /\ r[2] = "g"
          \/ place = "mermaid" /\ d = Quote /\ Len(r) = 6 /\ r[2] = "q"
          \/ place = "dot" /\ d \in {Quote, Backslash} /\ Len(r) = 2 /\ r[2] = d
      BY <2>2
    <3>6. Len(r) = k /\ r[2] = s[2]
      BY <3>3
    <3> HIDE DEF r, s
    <3>7. Len(r) \in {4, 6} => place = "mermaid" /\ c = Quote
      BY <1>1, <1>4, <3>4, <3>6
    <3>8. (Len(r) = 4 /\ r[2] \in {"l", "g"}) \/ Len(r) = 6
      BY <1>1, <1>4, <3>4, <3>5, <3>6
    <3>9. Len(s) = 6 /\ s[2] = "q"
      BY <1>4, <3>7, <3>8, Marks
    <3> QED BY <1>1, <3>4, <3>6, <3>8, <3>9
  <2>4. spelled(s) = {c}
    <3>1. c \in spelled(s)
      BY <1>4 DEF Special
    <3>2. ASSUME NEW d \in spelled(s) PROVE d = c
      <4>1. d \in Special /\ Len(Spelling(place, d)) = Len(s) /\ Spelling(place, d)[2] = s[2]
        BY <3>2 DEF Special
      <4> DEFINE r == Spelling(place, d)
      <4>2. \/ Len(r) = 1
            \/ place = "mermaid" /\ d = "<" /\ Len(r) = 4 /\ r[2] = "l"
            \/ place = "mermaid" /\ d = ">" /\ Len(r) = 4 /\ r[2] = "g"
            \/ place = "mermaid" /\ d = Quote /\ Len(r) = 6 /\ r[2] = "q"
            \/ place = "dot" /\ d \in {Quote, Backslash} /\ Len(r) = 2 /\ r[2] = d
        BY <2>2, <4>1
      <4>3. Len(r) = Len(s) /\ r[2] = s[2]
        BY <4>1
      <4> HIDE DEF r, s
      <4>4. CASE place = "dot"
        <5>1. Len(s) = 2 /\ s[2] = c
          BY <1>4, <4>4
        <5>2. Len(r) = 2 => r[2] = d
          BY <4>2, <4>4
        <5> QED BY <4>3, <5>1, <5>2
      <4>5. CASE place # "dot"
        <5>1. Len(r) # 1
          BY <1>1, <2>1, <4>3
        <5>2. d \in {"<", ">", Quote} /\ (d = "<" => r[2] = "l") /\ (d = ">" => r[2] = "g") /\ (d = Quote => r[2] = "q")
          BY <4>2, <4>5, <5>1, Marks
        <5>3. c \in {"<", ">", Quote} /\ (c = "<" => s[2] = "l") /\ (c = ">" => s[2] = "g") /\ (c = Quote => s[2] = "q")
          BY <1>4, <4>5, Marks
        <5> QED BY <4>3, <5>2, <5>3
      <4> QED BY <4>4, <4>5
    <3> QED BY <3>1, <3>2
  <2> DEFINE begun(k) == f[p + k] = [entity |-> SubSeq(s, 1, k), text |-> x]
             wrong    == {k \in 1 .. Len(s) - 1 : ~begun(k)}
  <2>5. ASSUME NEW k \in 1 .. Len(s)
        PROVE  /\ SubSeq(s, 1, k) \in Seq(Characters) /\ SubSeq(s, 1, k) # <<>>
               /\ k > 1 => Append(SubSeq(s, 1, k - 1), s[k]) = SubSeq(s, 1, k)
    <3>1. /\ 1 \in 1 .. Len(s) + 1 /\ k \in 1 - 1 .. Len(s) /\ k - 1 + 1 = k
          /\ 1 \in 1 .. Len(s) /\ k \in 1 .. Len(s)
      BY <1>1
    <3>2. SubSeq(s, 1, k) \in Seq(Characters) /\ Len(SubSeq(s, 1, k)) = k
      BY <1>1, <3>1, SliceIs
    <3>3. SubSeq(s, 1, k) # <<>>
      BY <3>1, <3>2, EmptySeq
    <3>4. ASSUME k > 1 PROVE Append(SubSeq(s, 1, k - 1), s[k]) = SubSeq(s, 1, k)
      <4> DEFINE a == SubSeq(s, 1, k - 1)
                 b == SubSeq(s, 1, k)
      <4>1. k - 1 \in 1 - 1 .. Len(s) /\ k - 1 - 1 + 1 = k - 1
        BY <1>1, <3>4
      <4>2. a \in Seq(Characters) /\ Len(a) = k - 1 /\ \A i \in 1 .. k - 1 : a[i] = s[i + 1 - 1]
        BY <1>1, <3>1, <4>1, SliceIs
      <4>3. b \in Seq(Characters) /\ Len(b) = k /\ \A i \in 1 .. k : b[i] = s[i + 1 - 1]
        BY <1>1, <3>1, SliceIs
      <4> HIDE DEF a, b
      <4>4. s[k] \in Characters
        BY <1>1, ElementOfSeq
      <4>5. /\ Append(a, s[k]) \in Seq(Characters) /\ Len(Append(a, s[k])) = k
            /\ \A i \in 1 .. k - 1 : Append(a, s[k])[i] = a[i]
            /\ Append(a, s[k])[k] = s[k]
        <5>1. (k - 1) + 1 = k
          BY <1>1
        <5> QED BY <4>2, <4>4, <5>1, AppendProperties
      <4>6. ASSUME NEW i \in 1 .. k PROVE Append(a, s[k])[i] = b[i]
        <5>1. i \in 1 .. k - 1 \/ i = k
          BY <1>1
        <5>2. i + 1 - 1 = i
          BY <1>1
        <5> QED BY <4>2, <4>3, <4>5, <5>1, <5>2
      <4> QED BY <4>3, <4>5, <4>6, SeqEqual DEF a, b
    <3> QED BY <3>2, <3>3, <3>4
  <2>6. begun(1)
    <3>1. 1 \in 1 .. Len(s) /\ p + (1 - 1) = p
      BY <1>1, <2>1
    <3>2. f[p + 1] = Read(place, [entity |-> <<>>, text |-> x], s[1])
      BY <1>2, <3>1
    <3>3. f[p + 1] = [[entity |-> <<>>, text |-> x] EXCEPT !.entity = Append(<<>>, s[1])]
      BY <1>4, <3>2 DEF Read
    <3>4. Append(<<>>, s[1]) = SubSeq(s, 1, 1)
      <4>1. s[1] \in Characters
        BY <1>1, <3>1, ElementOfSeq
      <4>2. Append(<<>>, s[1]) \in Seq(Characters) /\ Len(Append(<<>>, s[1])) = 1 /\ Append(<<>>, s[1])[1] = s[1]
        BY <4>1, EmptySeq, AppendProperties
      <4>3. 1 \in 1 .. Len(s) + 1 /\ 1 \in 1 - 1 .. Len(s) /\ 1 - 1 + 1 = 1 /\ 1 + 1 - 1 = 1
        BY <1>1, <2>1
      <4>4. SubSeq(s, 1, 1) \in Seq(Characters) /\ Len(SubSeq(s, 1, 1)) = 1 /\ SubSeq(s, 1, 1)[1] = s[1]
        BY <1>1, <4>3, SliceIs
      <4> QED BY <4>2, <4>4, SeqEqual
    <3> QED BY <3>3, <3>4
  <2>7. ASSUME NEW k \in 2 .. Len(s), begun(k - 1)
        PROVE  f[p + k] = IF k = Len(s) THEN [entity |-> <<>>, text |-> Append(x, c)]
                          ELSE [entity |-> SubSeq(s, 1, k), text |-> x]
    <3> DEFINE a == SubSeq(s, 1, k - 1)
               b == SubSeq(s, 1, k)
    <3>1. k \in 1 .. Len(s) /\ k > 1 /\ k - 1 \in 1 .. Len(s)
      BY <1>1
    <3>2. a # <<>> /\ Append(a, s[k]) = b
      BY <2>5, <3>1
    <3>3. f[p + k] = Read(place, [entity |-> a, text |-> x], s[k])
      BY <1>2, <2>7, <3>1
    <3>4. f[p + k] = IF spelled(b) # {} THEN [entity |-> <<>>, text |-> Append(x, CHOOSE d \in spelled(b) : TRUE)]
                     ELSE [[entity |-> a, text |-> x] EXCEPT !.entity = b]
      <4> HIDE DEF a, b, s, f
      <4> QED BY <3>2, <3>3 DEF Read
    <3>5. CASE k = Len(s)
      <4>1. b = s
        BY <1>1, <3>5, SubSeqFull
      <4>2. spelled(b) = {c}
        BY <2>4, <4>1
      <4> HIDE DEF spelled, a, b, s, f
      <4>3. (CHOOSE d \in spelled(b) : TRUE) = c
        BY <4>2
      <4> QED BY <3>4, <3>5, <4>2, <4>3
    <3>6. CASE k # Len(s)
      <4>1. k \in 2 .. Len(s) - 1
        BY <1>1, <3>6
      <4>2. spelled(b) = {}
        BY <2>3, <4>1
      <4> HIDE DEF spelled, a, s, f
      <4> QED BY <3>4, <3>6, <4>2
    <3> QED BY <3>5, <3>6
  <2>8. wrong = {}
    <3> SUFFICES ASSUME wrong # {} PROVE FALSE
      OBVIOUS
    <3>1. PICK k \in wrong : \A j \in wrong : k <= j
      <4>1. wrong \in SUBSET Nat
        BY <1>1
      <4> HIDE DEF wrong
      <4> QED BY <4>1, LeastOf
    <3>2. k \in 1 .. Len(s) - 1 /\ ~begun(k)
      BY <3>1
    <3> HIDE DEF begun
    <3>3. k # 1
      BY <2>6, <3>2
    <3>4. k \in 2 .. Len(s) /\ k - 1 \in 1 .. Len(s) - 1 /\ ~(k <= k - 1) /\ k # Len(s)
      BY <1>1, <3>2, <3>3
    <3>5. begun(k - 1)
      BY <3>1, <3>4
    <3>6. begun(k)
      BY <2>7, <3>4, <3>5 DEF begun
    <3> QED BY <3>2, <3>6
  <2>9. Len(s) \in 2 .. Len(s) /\ Len(s) - 1 \in 1 .. Len(s) - 1
    BY <1>1, <2>1
  <2>10. begun(Len(s) - 1)
    BY <2>8, <2>9
  <2> HIDE DEF begun
  <2> QED BY <2>7, <2>9, <2>10
<1> QED BY <1>3, <1>4, SpellingIs

\* A text without Mermaid's own escape is shown as it is, wherever it is printed.
LEMMA ShownAsPrinted ==
  ASSUME NEW t \in Seq(Characters), NEW place \in Places, \A i \in 1 .. Len(t) : t[i] # "#"
  PROVE  Shown(place, Escaped(place, t)) = t
<1> DEFINE e     == Escaped(place, t)
           l(n)  == Len(Spelled(place, t)[n])
           a(n)  == SubSeq(t, 1, n)
           wrong == {n \in 0 .. Len(t) : Seen(place, e)[l(n)] # [entity |-> <<>>, text |-> a(n)]}
<1>1. /\ e \in Seq(Characters) /\ Len(t) \in Nat
      /\ \A n \in 0 .. Len(t) : /\ Spelled(place, t)[n] \in Seq(Characters) /\ l(n) \in Nat /\ l(n) <= Len(e)
                                /\ \A i \in 1 .. l(n) : e[i] = Spelled(place, t)[n][i]
  <2>1. e \in Seq(Characters)
    BY SpelledBegins
  <2>2. ASSUME NEW n \in 0 .. Len(t)
        PROVE  /\ Spelled(place, t)[n] \in Seq(Characters) /\ l(n) \in Nat /\ l(n) <= Len(e)
               /\ \A i \in 1 .. l(n) : e[i] = Spelled(place, t)[n][i]
    <3>1. Spelled(place, t)[n] \in Seq(Characters)
      BY SpelledTyped
    <3>2. /\ l(n) <= Len(e)
          /\ \A i \in 1 .. l(n) : e[i] = Spelled(place, t)[n][i]
      BY SpelledBegins
    <3> QED BY <3>1, <3>2
  <2> QED BY <2>1, <2>2
<1> HIDE DEF e
<1>2. Seen(place, e)[l(0)] = [entity |-> <<>>, text |-> a(0)]
  <2>1. a(0) = <<>>
    BY SubSeqEmpty
  <2>2. Spelled(place, t)[0] = <<>>
    BY OneMoreSpelled
  <2>3. l(0) = 0
    BY <2>2
  <2> QED BY <1>1, <2>1, <2>3, OneMoreSeen
<1>3. wrong = {}
  <2> SUFFICES ASSUME wrong # {} PROVE FALSE
    OBVIOUS
  <2>1. PICK n \in wrong : \A k \in wrong : n <= k
    <3>1. wrong \in SUBSET Nat
      BY <1>1
    <3> HIDE DEF wrong
    <3> QED BY <3>1, LeastOf
  <2>2. n \in 0 .. Len(t) /\ Seen(place, e)[l(n)] # [entity |-> <<>>, text |-> a(n)]
    BY <2>1
  <2>3. n # 0
    BY <1>2, <2>2
  <2>4. n \in 1 .. Len(t) /\ n - 1 \in 0 .. Len(t) /\ ~(n <= n - 1)
    BY <1>1, <2>2, <2>3
  <2>5. Seen(place, e)[l(n - 1)] = [entity |-> <<>>, text |-> a(n - 1)]
    BY <2>1, <2>4
  <2> DEFINE c == t[n]
             s == Spelling(place, c)
             f == Spelled(place, t)[n - 1]
             g == Spelled(place, t)[n]
  <2>6. c \in Characters /\ c # "#"
    BY <2>4, ElementOfSeq
  <2>7. s \in Seq(Characters) /\ Len(s) \in Nat
    BY <2>6, SpellingTyped
  <2>8. g = f \o s
    BY <2>4, OneMoreSpelled
  <2>9. /\ f \in Seq(Characters) /\ l(n - 1) = Len(f) /\ Len(f) \in Nat /\ Len(f) <= Len(e)
        /\ l(n) = Len(g) /\ Len(g) <= Len(e) /\ \A i \in 1 .. Len(g) : e[i] = g[i]
    BY <1>1, <2>2, <2>4
  <2>10. a(n - 1) \in Seq(Characters) /\ Append(a(n - 1), c) = a(n)
    <3>1. /\ 1 \in 1 .. Len(t) /\ n \in 1 .. Len(t) /\ 1 \in 1 .. Len(t) + 1
          /\ n - 1 \in 1 - 1 .. Len(t) /\ n \in 1 - 1 .. Len(t) /\ n - 1 - 1 + 1 = n - 1 /\ n - 1 + 1 = n
      BY <1>1, <2>4
    <3>2. a(n - 1) \in Seq(Characters) /\ Len(a(n - 1)) = n - 1 /\ \A i \in 1 .. n - 1 : a(n - 1)[i] = t[i + 1 - 1]
      BY <3>1, SliceIs
    <3>3. a(n) \in Seq(Characters) /\ Len(a(n)) = n /\ \A i \in 1 .. n : a(n)[i] = t[i + 1 - 1]
      BY <3>1, SliceIs
    <3> HIDE DEF a
    <3>4. /\ Append(a(n - 1), c) \in Seq(Characters) /\ Len(Append(a(n - 1), c)) = n
          /\ \A i \in 1 .. n - 1 : Append(a(n - 1), c)[i] = a(n - 1)[i]
          /\ Append(a(n - 1), c)[n] = c
      <4> HIDE DEF c
      <4> QED BY <2>6, <3>1, <3>2, AppendProperties
    <3>5. ASSUME NEW i \in 1 .. n PROVE Append(a(n - 1), c)[i] = a(n)[i]
      <4>1. (i \in 1 .. n - 1 \/ i = n) /\ i + 1 - 1 = i
        BY <3>1
      <4> QED BY <3>2, <3>3, <3>4, <4>1
    <3> QED BY <3>2, <3>3, <3>4, <3>5, SeqEqual
  <2> HIDE DEF c, f, g, a
  <2>11. /\ Len(g) = Len(f) + Len(s)
         /\ \A i \in 1 .. Len(f) + Len(s) : g[i] = IF i <= Len(f) THEN f[i] ELSE s[i - Len(f)]
    <3> HIDE DEF s
    <3> QED BY <2>7, <2>8, <2>9, ConcatProperties
  <2>12. ASSUME NEW k \in 1 .. Len(s) PROVE e[Len(f) + k] = s[k]
    <3>1. /\ Len(f) + k \in 1 .. Len(f) + Len(s) /\ ~(Len(f) + k <= Len(f)) /\ (Len(f) + k) - Len(f) = k
      BY <2>7, <2>9
    <3> HIDE DEF s
    <3> QED BY <2>9, <2>11, <3>1
  <2>13. Len(f) \in 0 .. Len(e) /\ Len(f) + Len(s) <= Len(e)
    <3>1. Len(e) \in Nat
      BY <1>1
    <3> QED BY <2>9, <2>11, <3>1
  <2>14. Seen(place, e)[Len(f)] = [entity |-> <<>>, text |-> a(n - 1)]
    BY <2>5, <2>9
  <2>15. Seen(place, e)[Len(f) + Len(s)] = [entity |-> <<>>, text |-> Append(a(n - 1), c)]
    <3>1. /\ Len(f) + Len(Spelling(place, c)) <= Len(e)
          /\ \A k \in 1 .. Len(Spelling(place, c)) : e[Len(f) + k] = Spelling(place, c)[k]
      BY <2>12, <2>13
    <3>2. Seen(place, e)[Len(f) + Len(Spelling(place, c))] = [entity |-> <<>>, text |-> Append(a(n - 1), c)]
      <4>1. e \in Seq(Characters)
        BY <1>1
      <4> HIDE DEF s, l, wrong
      <4> QED BY ONLY place \in Places, <4>1, <2>6, <2>10, <2>13, <2>14, <3>1, SpellingRead
    <3> QED BY <3>2
  <2>16. l(n) = Len(f) + Len(s)
    BY <2>9, <2>11
  <2> QED BY <2>2, <2>10, <2>15, <2>16 DEF a
<1>4. Len(t) \in 0 .. Len(t) /\ a(Len(t)) = t /\ l(Len(t)) = Len(e)
  BY <1>1, SubSeqFull DEF Escaped, e
<1>5. Seen(place, e)[Len(e)] = [entity |-> <<>>, text |-> t]
  BY <1>3, <1>4
<1> QED BY <1>5 DEF Shown, e

-----------------------------------------------------------------------------
(* Guards: what is read is what is written.                                  *)

\* What is trimmed begins and ends with a character that is written.
LEMMA TrimmedIs ==
  ASSUME NEW t \in Seq(Characters), NEW i \in 1 .. Len(t) + 1, NEW j \in i - 1 .. Len(t)
  PROVE  LET x == Trimmed(SubSeq(t, i, j)) IN
         /\ x \in Seq(Characters)
         /\ x # <<>> => x[1] \notin Spaces /\ x[Len(x)] \notin Spaces
         /\ \A k \in 1 .. Len(x) : \E m \in i .. j : x[k] = t[m]
<1> DEFINE x == Trimmed(SubSeq(t, i, j))
<1>1. Len(t) \in Nat /\ i \in Nat /\ j \in Nat
  OBVIOUS
<1>2. CASE \A k \in i .. j : t[k] \in Spaces
  <2>1. x = <<>>
    BY <1>2, SliceTrimmed
  <2> HIDE DEF x
  <2> QED BY <2>1, EmptySeq DEF x
<1>3. CASE \E k \in i .. j : t[k] \notin Spaces
  <2>1. PICK p, q : Edges(t, i, j, p, q)
    BY <1>1, <1>3, EdgesExist
  <2>2. x = SubSeq(t, p, q)
    BY <2>1, SliceTrimmed
  <2>3. p \in i .. j /\ q \in p .. j /\ t[p] \notin Spaces /\ t[q] \notin Spaces
    BY <2>1 DEF Edges
  <2>4. p \in 1 .. Len(t) + 1 /\ q \in p - 1 .. Len(t)
    BY <1>1, <2>3
  <2>5. /\ x \in Seq(Characters) /\ Len(x) = q - p + 1
        /\ \A k \in 1 .. q - p + 1 : x[k] = t[k + p - 1]
    BY <2>2, <2>4, SliceIs
  <2> HIDE DEF x
  <2>6. /\ 1 \in 1 .. q - p + 1 /\ 1 + p - 1 = p
        /\ q - p + 1 \in 1 .. q - p + 1 /\ (q - p + 1) + p - 1 = q
    BY <1>1, <2>3
  <2>7. x[1] \notin Spaces /\ x[Len(x)] \notin Spaces
    BY <2>3, <2>5, <2>6
  <2>8. ASSUME NEW k \in 1 .. Len(x) PROVE \E m \in i .. j : x[k] = t[m]
    <3>1. k + p - 1 \in i .. j /\ k \in 1 .. q - p + 1
      BY <1>1, <2>3, <2>5
    <3> QED BY <2>5, <3>1
  <2> QED BY <2>5, <2>7, <2>8 DEF x
<1> QED BY <1>2, <1>3

\* One side of a comparison: nothing, or a text between two written characters.
Side(x, t) ==
  /\ x \in Seq(Characters)
  /\ x # <<>> => x[1] \notin Spaces /\ x[Len(x)] \notin Spaces
  /\ \A k \in 1 .. Len(x) : \E m \in 1 .. Len(t) : x[k] = t[m]

LEMMA SidesAre ==
  ASSUME NEW t \in Seq(Characters), NEW s \in Sides(t)
  PROVE  /\ Side(s.left, t) /\ Side(s.right, t)
         /\ s.op \in LongOperators \cup ShortOperators
         /\ \A k \in 1 .. Len(s.left) : s.left[k] \notin {"<", ">", "="}
<1> DEFINE from  == OperatorFrom(t)
           to    == OperatorTo(t)
           left  == Trimmed(SubSeq(t, 1, from - 1))
           right == Trimmed(SubSeq(t, to + 1, Len(t)))
<1>1. /\ Anchors(t) # {}
      /\ s = [left |-> left, op |-> SubSeq(t, from, to), right |-> right]
  BY DEF Sides
<1>2. /\ from \in 1 .. Len(t) /\ to \in from .. Len(t) /\ Anchor(t) \in from .. to
      /\ OperatorsAt(t, from) = {SubSeq(t, from, to)}
  BY <1>1, OperatorSpan
<1>3. /\ Anchor(t) \in 1 .. Len(t)
      /\ \A k \in 1 .. Anchor(t) - 1 : t[k] \notin {"<", ">", "="}
  BY <1>1, AnchorIs
<1>4. SubSeq(t, from, to) \in LongOperators \cup ShortOperators
  <2> HIDE DEF from, to
  <2> QED BY <1>2 DEF OperatorsAt
<1> HIDE DEF from, to
<1>5. /\ Len(t) \in Nat /\ 1 \in 1 .. Len(t) + 1 /\ from - 1 \in 1 - 1 .. Len(t)
      /\ to + 1 \in 1 .. Len(t) + 1 /\ Len(t) \in (to + 1) - 1 .. Len(t)
  BY <1>2
<1>6. /\ left \in Seq(Characters)
      /\ left # <<>> => left[1] \notin Spaces /\ left[Len(left)] \notin Spaces
      /\ \A k \in 1 .. Len(left) : \E m \in 1 .. from - 1 : left[k] = t[m]
  BY <1>5, TrimmedIs
<1>7. /\ right \in Seq(Characters)
      /\ right # <<>> => right[1] \notin Spaces /\ right[Len(right)] \notin Spaces
      /\ \A k \in 1 .. Len(right) : \E m \in to + 1 .. Len(t) : right[k] = t[m]
  BY <1>5, TrimmedIs
<1> HIDE DEF left, right
<1>8. \A m \in 1 .. from - 1 : m \in 1 .. Len(t) /\ m \in 1 .. Anchor(t) - 1
  BY <1>2, <1>3
<1>9. \A m \in to + 1 .. Len(t) : m \in 1 .. Len(t)
  BY <1>2
<1>10. Side(left, t)
  BY <1>6, <1>8 DEF Side
<1>11. Side(right, t)
  BY <1>7, <1>9 DEF Side
<1>12. \A k \in 1 .. Len(left) : left[k] \notin {"<", ">", "="}
  BY <1>3, <1>6, <1>8
<1> QED BY <1>1, <1>4, <1>10, <1>11, <1>12

\* What a text says, by its two sides.
LEMMA ReadingIs ==
  ASSUME NEW t
  PROVE  /\ Sides(t) = {} => Reading(t) = Reads("SchemaError", NoCondition)
         /\ \A s \in Sides(t) : Sides(t) = {s} /\ Reading(t) = Comparison(s.left, s.op, s.right)
<1>1. CASE Anchors(t) = {}
  BY <1>1 DEF Sides, Reading
<1>2. CASE Anchors(t) # {}
  <2> DEFINE left  == Trimmed(SubSeq(t, 1, OperatorFrom(t) - 1))
             op    == SubSeq(t, OperatorFrom(t), OperatorTo(t))
             right == Trimmed(SubSeq(t, OperatorTo(t) + 1, Len(t)))
  <2>1. Sides(t) = {[left |-> left, op |-> op, right |-> right]}
    BY <1>2 DEF Sides
  <2>2. Reading(t) = Comparison(left, op, right)
    BY <1>2 DEF Reading
  <2> HIDE DEF left, op, right
  <2>3. ASSUME NEW s \in Sides(t)
        PROVE  Sides(t) = {s} /\ Reading(t) = Comparison(s.left, s.op, s.right)
    <3>1. s = [left |-> left, op |-> op, right |-> right]
      BY <2>1
    <3>2. s.left = left /\ s.op = op /\ s.right = right
      BY <3>1
    <3> QED BY <2>1, <2>2, <3>1, <3>2
  <2> QED BY <2>1, <2>3
<1> QED BY <1>1, <1>2

\* A guard that a text says.
Guard(c, t) ==
  /\ Side(c.arg, t) /\ c.arg # <<>> /\ Fits(c.arg)
  /\ \A k \in 1 .. Len(c.arg) : c.arg[k] \notin {"<", ">", "="}
  /\ c.op \in LongOperators \cup {<<"<">>, <<">">>}
  /\ \/ /\ c = [NoCondition EXCEPT !.arg = c.arg, !.op = c.op, !.numeric = TRUE, !.number = c.number]
        /\ c.number \in kIntMin .. kIntMax
     \/ /\ c = [NoCondition EXCEPT !.arg = c.arg, !.op = c.op, !.literal = c.literal]
        /\ Side(c.literal, t) /\ c.literal # <<>> /\ Fits(c.literal)
        /\ ~IsInt32(c.literal) /\ ~IsOrdering(c.op)

LEMMA MeaningIs ==
  ASSUME NEW op \in LongOperators \cup ShortOperators
  PROVE  /\ Meaning(op) \in LongOperators \cup {<<"<">>, <<">">>}
         /\ IsOrdering(Meaning(op)) <=> op[1] \in {"<", ">"}
<1>1. CASE op = <<"=">>
  <2>1. Meaning(op) = <<"=", "=">>
    BY <1>1 DEF Meaning, Equal
  <2> QED BY <1>1, <2>1 DEF LongOperators, IsOrdering
<1>2. CASE op # <<"=">>
  <2>1. Meaning(op) = op
    BY <1>2 DEF Meaning
  <2> QED BY <1>2, <2>1 DEF LongOperators, ShortOperators, IsOrdering
<1> QED BY <1>1, <1>2

LEMMA AcceptedIs ==
  ASSUME NEW t \in Seq(Characters), NEW c, Reading(t) = Reads("Ok", c)
  PROVE  Guard(c, t)
<1>1. "Ok" # "SchemaError" /\ "Ok" # "NameTooLong"
  OBVIOUS
<1>2. Sides(t) # {}
  <2> SUFFICES ASSUME Sides(t) = {} PROVE FALSE
    OBVIOUS
  <2>1. Reading(t) = Reads("SchemaError", NoCondition)
    BY ReadingIs
  <2> QED BY <1>1, <2>1 DEF Reads
<1>3. PICK s \in Sides(t) : TRUE
  BY <1>2
<1>4. Comparison(s.left, s.op, s.right) = Reads("Ok", c)
  BY <1>3, ReadingIs
<1>5. /\ Side(s.left, t) /\ Side(s.right, t)
      /\ s.op \in LongOperators \cup ShortOperators
      /\ \A k \in 1 .. Len(s.left) : s.left[k] \notin {"<", ">", "="}
  BY SidesAre
<1>6. /\ Meaning(s.op) \in LongOperators \cup {<<"<">>, <<">">>}
      /\ IsOrdering(Meaning(s.op)) <=> s.op[1] \in {"<", ">"}
  BY <1>5, MeaningIs
<1> DEFINE read == [NoCondition EXCEPT !.arg = s.left, !.op = Meaning(s.op)]
<1>7. /\ s.left # <<>> /\ s.right # <<>> /\ Fits(s.left)
      /\ \/ IsInt32(s.right) /\ c = [read EXCEPT !.numeric = TRUE, !.number = Denoted(s.right)]
         \/ /\ ~IsInt32(s.right) /\ ~(s.op[1] \in {"<", ">"}) /\ Fits(s.right)
            /\ c = [read EXCEPT !.literal = s.right]
  <2>2. s.left \in Seq(Characters) /\ Len(s.left) \in Nat /\ s.right \in Seq(Characters) /\ Len(s.right) \in Nat
    BY <1>5 DEF Side
  <2>3. /\ (Len(s.left) > kMaxNameLength) = ~(Len(s.left) <= kMaxNameLength)
        /\ (Len(s.right) > kMaxNameLength) = ~(Len(s.right) <= kMaxNameLength)
    BY <2>2
  <2> HIDE DEF read
  <2>4. Comparison(s.left, s.op, s.right) =
          IF s.left = <<>> \/ s.right = <<>> THEN Reads("SchemaError", NoCondition)
          ELSE IF ~Fits(s.left) THEN Reads("NameTooLong", NoCondition)
          ELSE IF IsInt32(s.right)
               THEN Reads("Ok", [read EXCEPT !.numeric = TRUE, !.number = Denoted(s.right)])
          ELSE IF s.op[1] \in {"<", ">"} THEN Reads("SchemaError", read)
          ELSE IF ~Fits(s.right) THEN Reads("NameTooLong", read)
          ELSE Reads("Ok", [read EXCEPT !.literal = s.right])
    BY <2>3 DEF Comparison, Fits, read
  <2>5. \A x, y, d, e : Reads(x, d) = Reads(y, e) => x = y /\ d = e
    BY DEF Reads
  <2> HIDE DEF Reads
  <2> QED BY <1>1, <1>4, <2>4, <2>5
<1>8. CASE IsInt32(s.right) /\ c = [read EXCEPT !.numeric = TRUE, !.number = Denoted(s.right)]
  <2>1. /\ c.arg = s.left /\ c.op = Meaning(s.op) /\ c.number = Denoted(s.right)
        /\ c = [NoCondition EXCEPT !.arg = c.arg, !.op = c.op, !.numeric = TRUE, !.number = c.number]
    BY <1>8 DEF NoCondition
  <2>2. c.number \in kIntMin .. kIntMax
    BY <1>8, <2>1 DEF IsInt32
  <2> QED BY <1>5, <1>6, <1>7, <2>1, <2>2 DEF Guard
<1>9. CASE /\ ~IsInt32(s.right) /\ ~(s.op[1] \in {"<", ">"}) /\ Fits(s.right)
           /\ c = [read EXCEPT !.literal = s.right]
  <2>1. /\ c.arg = s.left /\ c.op = Meaning(s.op) /\ c.literal = s.right
        /\ c = [NoCondition EXCEPT !.arg = c.arg, !.op = c.op, !.literal = c.literal]
    BY <1>9 DEF NoCondition
  <2> QED BY <1>5, <1>6, <1>7, <1>9, <2>1 DEF Guard
<1> QED BY <1>7, <1>8, <1>9

\* What is printed of a guard.
RightOf(c) == IF c.numeric THEN Integer(c.number) ELSE c.literal

LEMMA RightIs ==
  ASSUME NEW t \in Seq(Characters), NEW c, Guard(c, t)
  PROVE  /\ RightOf(c) \in Seq(Characters) /\ RightOf(c) # <<>>
         /\ RightOf(c)[1] \notin Spaces /\ RightOf(c)[Len(RightOf(c))] \notin Spaces
         /\ (\A m \in 1 .. Len(t) : t[m] # "#") => \A k \in 1 .. Len(RightOf(c)) : RightOf(c)[k] # "#"
         /\ \/ /\ c = [NoCondition EXCEPT !.arg = c.arg, !.op = c.op, !.numeric = TRUE, !.number = c.number]
               /\ IsInt32(RightOf(c)) /\ Denoted(RightOf(c)) = c.number
            \/ /\ c = [NoCondition EXCEPT !.arg = c.arg, !.op = c.op, !.literal = c.literal]
               /\ ~IsInt32(RightOf(c)) /\ ~IsOrdering(c.op) /\ Fits(RightOf(c)) /\ RightOf(c) = c.literal
<1>1. CASE /\ c = [NoCondition EXCEPT !.arg = c.arg, !.op = c.op, !.numeric = TRUE, !.number = c.number]
           /\ c.number \in kIntMin .. kIntMax
  <2> DEFINE n == c.number
             r == Integer(n)
  <2>1. c.numeric = TRUE
    BY <1>1 DEF NoCondition
  <2>2. RightOf(c) = r
    BY <2>1 DEF RightOf
  <2>3. /\ r \in Seq(Characters) /\ r # <<>> /\ IsInt32(r) /\ Denoted(r) = n
        /\ \A i \in 1 .. Len(r) : r[i] \notin Spaces \cup {"<", ">", "=", "#"}
    BY <1>1, IntegerReads
  <2> HIDE DEF r
  <2>4. 1 \in 1 .. Len(r) /\ Len(r) \in 1 .. Len(r)
    BY <2>3, EmptySeq
  <2>5. \A i \in 1 .. Len(r) : r[i] \notin Spaces /\ r[i] # "#"
    BY <2>3
  <2> QED BY <1>1, <2>2, <2>3, <2>4, <2>5
<1>2. CASE /\ c = [NoCondition EXCEPT !.arg = c.arg, !.op = c.op, !.literal = c.literal]
           /\ Side(c.literal, t) /\ c.literal # <<>> /\ Fits(c.literal)
           /\ ~IsInt32(c.literal) /\ ~IsOrdering(c.op)
  <2>1. c.numeric = FALSE
    BY <1>2 DEF NoCondition
  <2>2. RightOf(c) = c.literal
    BY <2>1 DEF RightOf
  <2>3. /\ c.literal \in Seq(Characters) /\ c.literal[1] \notin Spaces
        /\ c.literal[Len(c.literal)] \notin Spaces
        /\ \A k \in 1 .. Len(c.literal) : \E m \in 1 .. Len(t) : c.literal[k] = t[m]
    BY <1>2 DEF Side
  <2>4. (\A m \in 1 .. Len(t) : t[m] # "#") => \A k \in 1 .. Len(c.literal) : c.literal[k] # "#"
    BY <2>3
  <2> QED BY <1>2, <2>2, <2>3, <2>4
<1> QED BY <1>1, <1>2 DEF Guard

\* Where what is printed of a guard stands.
LEMMA PrintedIs ==
  ASSUME NEW t \in Seq(Characters), NEW c, Guard(c, t)
  PROVE  /\ Printed(c) \in Seq(Characters)
         /\ Len(Printed(c)) = Len(c.arg) + 2 + Len(c.op) + Len(RightOf(c))
         /\ \A k \in 1 .. Len(c.arg) : Printed(c)[k] = c.arg[k]
         /\ Printed(c)[Len(c.arg) + 1] = " "
         /\ \A k \in 1 .. Len(c.op) : Printed(c)[Len(c.arg) + 1 + k] = c.op[k]
         /\ Printed(c)[Len(c.arg) + 2 + Len(c.op)] = " "
         /\ \A k \in 1 .. Len(RightOf(c)) : Printed(c)[Len(c.arg) + 2 + Len(c.op) + k] = RightOf(c)[k]
         /\ c.arg \in Seq(Characters) /\ c.op \in Seq(Characters)
<1> DEFINE a == c.arg
           o == c.op
           r == RightOf(c)
           b == <<" ">>
           p == a \o b
           q == p \o o
           u == q \o b
           v == u \o r
<1>1. a \in Seq(Characters) /\ Len(a) \in Nat
  BY DEF Guard, Side
<1>2. o \in Seq(Characters) /\ Len(o) \in Nat
  <2>1. \A S : /\ \A d \in S : <<d>> \in Seq(S)
               /\ \A d, e \in S : <<d, e>> \in Seq(S)
    OBVIOUS
  <2>2. {"!", "=", "<", ">"} \subseteq Characters
    BY Letters
  <2>3. o \in {<<"=", "=">>, <<"!", "=">>, <<"<", "=">>, <<">", "=">>, <<"<">>, <<">">>}
    BY DEF Guard, LongOperators
  <2> HIDE DEF o
  <2>4. \A d \in {"!", "=", "<", ">"} : <<d>> \in Seq(Characters) /\ <<d, "=">> \in Seq(Characters)
    BY <2>1, <2>2
  <2>5. o \in Seq(Characters)
    BY <2>3, <2>4
  <2> QED BY <2>5
<1>3. r \in Seq(Characters) /\ Len(r) \in Nat
  <2>1. r \in Seq(Characters)
    BY RightIs
  <2> HIDE DEF r
  <2> QED BY <2>1
<1>4. b \in Seq(Characters) /\ Len(b) = 1 /\ b[1] = " "
  <2>1. " " \in Characters
    BY Letters
  <2>2. b \in Seq(Characters)
    BY <2>1, Rows
  <2> QED BY <2>2
<1>5. Printed(c) = v
  <2> HIDE DEF a, o, b
  <2> QED BY DEF Printed, RightOf, a, o, b, r
<1> HIDE DEF a, o, r, b
<1>6. /\ p \in Seq(Characters) /\ Len(p) = Len(a) + 1
      /\ \A i \in 1 .. Len(a) + 1 : p[i] = IF i <= Len(a) THEN a[i] ELSE b[i - Len(a)]
  <2> DEFINE n == Len(a)
             m == 1
  <2>1. a \in Seq(Characters) /\ b \in Seq(Characters) /\ Len(a) = n /\ Len(b) = m
    BY <1>1, <1>4
  <2>2. /\ p \in Seq(Characters) /\ Len(p) = Len(a) + Len(b)
        /\ \A i \in 1 .. Len(a) + Len(b) : p[i] = IF i <= Len(a) THEN a[i] ELSE b[i - Len(a)]
    BY <2>1, ConcatProperties
  <2> HIDE DEF n, m, p
  <2>3. /\ p \in Seq(Characters) /\ Len(p) = n + m
        /\ \A i \in 1 .. n + m : p[i] = IF i <= n THEN a[i] ELSE b[i - n]
    BY <2>1, <2>2
  <2> QED BY <2>3 DEF n, m
<1> HIDE DEF p
<1>7. /\ q \in Seq(Characters) /\ Len(q) = Len(a) + 1 + Len(o)
      /\ \A i \in 1 .. Len(a) + 1 + Len(o) : q[i] = IF i <= Len(a) + 1 THEN p[i] ELSE o[i - (Len(a) + 1)]
  <2> DEFINE n == Len(a) + 1
             m == Len(o)
  <2>1. p \in Seq(Characters) /\ o \in Seq(Characters) /\ Len(p) = n /\ Len(o) = m
    BY <1>2, <1>6
  <2>2. /\ q \in Seq(Characters) /\ Len(q) = Len(p) + Len(o)
        /\ \A i \in 1 .. Len(p) + Len(o) : q[i] = IF i <= Len(p) THEN p[i] ELSE o[i - Len(p)]
    BY <2>1, ConcatProperties
  <2> HIDE DEF n, m, q
  <2>3. /\ q \in Seq(Characters) /\ Len(q) = n + m
        /\ \A i \in 1 .. n + m : q[i] = IF i <= n THEN p[i] ELSE o[i - n]
    BY <2>1, <2>2
  <2> QED BY <2>3 DEF n, m
<1> HIDE DEF q
<1>8. /\ u \in Seq(Characters) /\ Len(u) = Len(a) + 1 + Len(o) + 1
      /\ \A i \in 1 .. Len(a) + 1 + Len(o) + 1 :
           u[i] = IF i <= Len(a) + 1 + Len(o) THEN q[i] ELSE b[i - (Len(a) + 1 + Len(o))]
  <2> DEFINE n == Len(a) + 1 + Len(o)
             m == 1
  <2>1. q \in Seq(Characters) /\ b \in Seq(Characters) /\ Len(q) = n /\ Len(b) = m
    BY <1>4, <1>7
  <2>2. /\ u \in Seq(Characters) /\ Len(u) = Len(q) + Len(b)
        /\ \A i \in 1 .. Len(q) + Len(b) : u[i] = IF i <= Len(q) THEN q[i] ELSE b[i - Len(q)]
    BY <2>1, ConcatProperties
  <2> HIDE DEF n, m, u
  <2>3. /\ u \in Seq(Characters) /\ Len(u) = n + m
        /\ \A i \in 1 .. n + m : u[i] = IF i <= n THEN q[i] ELSE b[i - n]
    BY <2>1, <2>2
  <2> QED BY <2>3 DEF n, m
<1> HIDE DEF u
<1>9. /\ v \in Seq(Characters) /\ Len(v) = Len(a) + 1 + Len(o) + 1 + Len(r)
      /\ \A i \in 1 .. Len(a) + 1 + Len(o) + 1 + Len(r) :
           v[i] = IF i <= Len(a) + 1 + Len(o) + 1 THEN u[i] ELSE r[i - (Len(a) + 1 + Len(o) + 1)]
  <2> DEFINE n == Len(a) + 1 + Len(o) + 1
             m == Len(r)
  <2>1. u \in Seq(Characters) /\ r \in Seq(Characters) /\ Len(u) = n /\ Len(r) = m
    BY <1>3, <1>8
  <2>2. /\ v \in Seq(Characters) /\ Len(v) = Len(u) + Len(r)
        /\ \A i \in 1 .. Len(u) + Len(r) : v[i] = IF i <= Len(u) THEN u[i] ELSE r[i - Len(u)]
    BY <2>1, ConcatProperties
  <2> HIDE DEF n, m, v
  <2>3. /\ v \in Seq(Characters) /\ Len(v) = n + m
        /\ \A i \in 1 .. n + m : v[i] = IF i <= n THEN u[i] ELSE r[i - n]
    BY <2>1, <2>2
  <2> QED BY <2>3 DEF n, m
<1> HIDE DEF v
<1>10. Len(v) = Len(a) + 2 + Len(o) + Len(r)
  BY <1>1, <1>2, <1>3, <1>9
<1>11. ASSUME NEW k \in 1 .. Len(a) PROVE v[k] = a[k]
  <2>1. /\ k \in 1 .. Len(a) + 1 + Len(o) + 1 + Len(r) /\ k <= Len(a) + 1 + Len(o) + 1
        /\ k \in 1 .. Len(a) + 1 + Len(o) + 1 /\ k <= Len(a) + 1 + Len(o)
        /\ k \in 1 .. Len(a) + 1 + Len(o) /\ k <= Len(a) + 1 /\ k \in 1 .. Len(a) + 1 /\ k <= Len(a)
    BY <1>1, <1>2, <1>3
  <2> QED BY <1>6, <1>7, <1>8, <1>9, <2>1
<1>12. v[Len(a) + 1] = " "
  <2> DEFINE k == Len(a) + 1
  <2>1. /\ k \in 1 .. Len(a) + 1 + Len(o) + 1 + Len(r) /\ k <= Len(a) + 1 + Len(o) + 1
        /\ k \in 1 .. Len(a) + 1 + Len(o) + 1 /\ k <= Len(a) + 1 + Len(o)
        /\ k \in 1 .. Len(a) + 1 + Len(o) /\ k <= Len(a) + 1 /\ k \in 1 .. Len(a) + 1 /\ ~(k <= Len(a))
        /\ k - Len(a) = 1
    BY <1>1, <1>2, <1>3
  <2> HIDE DEF k
  <2>2. v[k] = " "
    BY <1>4, <1>6, <1>7, <1>8, <1>9, <2>1
  <2> QED BY <2>2 DEF k
<1>13. ASSUME NEW j \in 1 .. Len(o) PROVE v[Len(a) + 1 + j] = o[j]
  <2> DEFINE k == Len(a) + 1 + j
  <2>1. /\ k \in 1 .. Len(a) + 1 + Len(o) + 1 + Len(r) /\ k <= Len(a) + 1 + Len(o) + 1
        /\ k \in 1 .. Len(a) + 1 + Len(o) + 1 /\ k <= Len(a) + 1 + Len(o)
        /\ k \in 1 .. Len(a) + 1 + Len(o) /\ ~(k <= Len(a) + 1) /\ k - (Len(a) + 1) = j
    BY <1>1, <1>2, <1>3
  <2> HIDE DEF k
  <2>2. v[k] = o[j]
    BY <1>7, <1>8, <1>9, <2>1
  <2> QED BY <2>2 DEF k
<1>14. v[Len(a) + 2 + Len(o)] = " "
  <2> DEFINE k == Len(a) + 2 + Len(o)
  <2>1. /\ k \in 1 .. Len(a) + 1 + Len(o) + 1 + Len(r) /\ k <= Len(a) + 1 + Len(o) + 1
        /\ k \in 1 .. Len(a) + 1 + Len(o) + 1 /\ ~(k <= Len(a) + 1 + Len(o))
        /\ k - (Len(a) + 1 + Len(o)) = 1
    BY <1>1, <1>2, <1>3
  <2> HIDE DEF k
  <2>2. v[k] = " "
    BY <1>4, <1>8, <1>9, <2>1
  <2> QED BY <2>2 DEF k
<1>15. ASSUME NEW j \in 1 .. Len(r) PROVE v[Len(a) + 2 + Len(o) + j] = r[j]
  <2> DEFINE k == Len(a) + 2 + Len(o) + j
  <2>1. /\ k \in 1 .. Len(a) + 1 + Len(o) + 1 + Len(r) /\ ~(k <= Len(a) + 1 + Len(o) + 1)
        /\ k - (Len(a) + 1 + Len(o) + 1) = j
    BY <1>1, <1>2, <1>3
  <2> HIDE DEF k
  <2>2. v[k] = r[j]
    BY <1>9, <2>1
  <2> QED BY <2>2 DEF k
<1> QED BY <1>1, <1>2, <1>5, <1>9, <1>10, <1>11, <1>12, <1>13, <1>14, <1>15 DEF a, o, r

LEMMA OperatorIs ==
  ASSUME NEW op \in LongOperators \cup {<<"<">>, <<">">>}
  PROVE  /\ Meaning(op) = op
         /\ \/ Len(op) = 1 /\ op[1] \in {"<", ">"}
            \/ Len(op) = 2 /\ op[1] \in {"=", "!", "<", ">"} /\ op[2] = "="
<1>1. op \in {<<"=", "=">>, <<"!", "=">>, <<"<", "=">>, <<">", "=">>, <<"<">>, <<">">>}
  BY DEF LongOperators
<1>2. op # <<"=">>
  <2>1. <<"=">>[1] = "=" /\ Len(<<"=">>) = 1
    OBVIOUS
  <2>2. op = <<"=">> => Len(op) = 1 /\ op[1] = "="
    BY <2>1
  <2>3. Len(op) = 1 => op[1] # "="
    BY <1>1
  <2> QED BY <2>2, <2>3
<1>3. Meaning(op) = op
  BY <1>2 DEF Meaning
<1>4. CASE op \in {<<"<">>, <<">">>}
  BY <1>3, <1>4
<1>5. CASE op \in {<<d, "=">> : d \in {"=", "!", "<", ">"}}
  BY <1>3, <1>5
<1>6. op \in {<<"<">>, <<">">>} \/ op \in {<<d, "=">> : d \in {"=", "!", "<", ">"}}
  BY <1>1
<1> QED BY <1>4, <1>5, <1>6

\* The operator of a printed guard is found where it was printed.
LEMMA PrintedOperator ==
  ASSUME NEW t \in Seq(Characters), NEW c, Guard(c, t)
  PROVE  /\ Anchors(Printed(c)) # {}
         /\ OperatorFrom(Printed(c)) = Len(c.arg) + 2
         /\ OperatorTo(Printed(c)) = Len(c.arg) + 1 + Len(c.op)
<1> DEFINE u  == Printed(c)
           la == Len(c.arg)
           lo == Len(c.op)
           lr == Len(RightOf(c))
           S  == {"<", ">", "="}
<1>1. /\ \A k \in 1 .. la : u[k] = c.arg[k]
      /\ u[la + 1] = " "
      /\ \A k \in 1 .. lo : u[la + 1 + k] = c.op[k]
      /\ u[la + 2 + lo] = " "
  <2>1. \A k \in 1 .. la : u[k] = c.arg[k]
    BY PrintedIs
  <2>2. u[la + 1] = " "
    BY PrintedIs
  <2>3. \A k \in 1 .. lo : u[la + 1 + k] = c.op[k]
    BY PrintedIs
  <2>4. u[la + 2 + lo] = " "
    BY PrintedIs
  <2> QED BY <2>1, <2>2, <2>3, <2>4
<1>2. /\ u \in Seq(Characters) /\ Len(u) = la + 2 + lo + lr
      /\ la \in Nat /\ lo \in Nat /\ lr \in Nat /\ lo \in {1, 2}
      /\ DOMAIN u = 1 .. Len(u)
  <2>1. u \in Seq(Characters) /\ c.arg \in Seq(Characters) /\ c.op \in Seq(Characters)
    BY PrintedIs
  <2>2. Len(u) = la + 2 + lo + lr
    BY PrintedIs
  <2>3. RightOf(c) \in Seq(Characters)
    BY RightIs
  <2>4. lo \in {1, 2}
    BY OperatorIs DEF Guard
  <2> HIDE DEF u
  <2> QED BY <2>1, <2>2, <2>3, <2>4
<1>3. \A k \in 1 .. la : c.arg[k] \notin S
  BY DEF Guard
<1>4. \/ lo = 1 /\ c.op[1] \in {"<", ">"}
      \/ lo = 2 /\ c.op[1] \in {"=", "!", "<", ">"} /\ c.op[2] = "="
  BY OperatorIs DEF Guard
<1> HIDE DEF u, la, lo, lr
<1>5. ASSUME NEW k \in 1 .. la + 1 PROVE u[k] \notin S
  <2>1. k \in 1 .. la \/ k = la + 1
    BY <1>2
  <2>2. " " \notin S
    OBVIOUS
  <2> QED BY <1>1, <1>3, <2>1, <2>2
<1>6. /\ u[la + 2] = c.op[1] /\ lo \in {1, 2}
      /\ lo = 2 => u[la + 3] = "="
      /\ lo = 1 => u[la + 3] = " " /\ u[la + 2] \in {"<", ">"}
  <2>1. lo \in {1, 2} /\ lo \in Nat /\ 1 \in 1 .. lo /\ la + 1 + 1 = la + 2
    BY <1>2
  <2>2. u[la + 2] = c.op[1]
    BY <1>1, <2>1
  <2>3. ASSUME lo = 2 PROVE u[la + 3] = "="
    <3>1. 2 \in 1 .. lo /\ la + 1 + 2 = la + 3
      BY <1>2, <2>3
    <3>2. c.op[2] = "="
      BY <1>4, <2>3
    <3> QED BY <1>1, <3>1, <3>2
  <2>4. ASSUME lo = 1 PROVE u[la + 3] = " " /\ u[la + 2] \in {"<", ">"}
    <3>1. la + 2 + lo = la + 3
      BY <1>2, <2>4
    <3>2. c.op[1] \in {"<", ">"}
      BY <1>4, <2>4
    <3> QED BY <1>1, <2>2, <3>1, <3>2
  <2> QED BY <2>1, <2>2, <2>3, <2>4
<1>7. ASSUME NEW n \in 1 .. Len(u), u[n] \in S, \A k \in 1 .. n - 1 : u[k] \notin S
      PROVE  Anchors(u) # {} /\ Anchor(u) = n
  <2>1. n \in Anchors(u)
    BY <1>2, <1>7 DEF Anchors
  <2>2. /\ Anchor(u) \in 1 .. Len(u) /\ u[Anchor(u)] \in S
        /\ \A k \in 1 .. Anchor(u) - 1 : u[k] \notin S
    BY <1>2, <2>1, AnchorIs
  <2>3. n \in Nat /\ Anchor(u) \in Nat
    BY <1>2, <2>2
  <2>4. ~(n < Anchor(u)) /\ ~(Anchor(u) < n)
    <3>1. n < Anchor(u) => n \in 1 .. Anchor(u) - 1
      BY <2>3
    <3>2. Anchor(u) < n => Anchor(u) \in 1 .. n - 1
      BY <2>2, <2>3
    <3> QED BY <1>7, <2>2, <3>1, <3>2
  <2> QED BY <2>1, <2>3, <2>4
<1>8. CASE u[la + 2] \in S
  <2>1. la + 2 \in 1 .. Len(u) /\ (la + 2) - 1 = la + 1
    BY <1>2
  <2>2. Anchors(u) # {} /\ Anchor(u) = la + 2
    BY <1>5, <1>7, <1>8, <2>1
  <2>3. u[(la + 2) - 1] # "!"
    BY <1>1, <2>1
  <2>4. OperatorFrom(u) = la + 2
    BY <2>2, <2>3 DEF OperatorFrom
  <2>5. (la + 2) + 1 = la + 3 /\ (lo = 2 => la + 2 < Len(u))
    BY <1>2
  <2>6. CASE lo = 2
    <3>1. OperatorTo(u) = (la + 2) + 1
      BY <1>6, <2>2, <2>4, <2>5, <2>6 DEF OperatorTo
    <3>2. (la + 2) + 1 = la + 1 + lo
      BY <1>2, <2>6
    <3> QED BY <2>2, <2>4, <3>1, <3>2 DEF u, la, lo
  <2>7. CASE lo = 1
    <3>1. u[(la + 2) + 1] # "="
      BY <1>6, <2>5, <2>7
    <3>2. OperatorTo(u) = la + 2
      BY <2>2, <2>4, <3>1 DEF OperatorTo
    <3>3. la + 2 = la + 1 + lo
      BY <1>2, <2>7
    <3> QED BY <2>2, <2>4, <3>2, <3>3 DEF u, la, lo
  <2> QED BY <1>6, <2>6, <2>7
<1>9. CASE u[la + 2] \notin S
  <2>1. lo = 2 /\ u[la + 2] = "!" /\ u[la + 3] = "="
    BY <1>4, <1>6, <1>9
  <2>2. la + 3 \in 1 .. Len(u) /\ (la + 3) - 1 = la + 2 /\ la + 3 > 1 /\ la + 2 # la + 3
    BY <1>2, <2>1
  <2>3. ASSUME NEW k \in 1 .. (la + 3) - 1 PROVE u[k] \notin S
    <3>1. k \in 1 .. la + 1 \/ k = la + 2
      BY <1>2
    <3> QED BY <1>5, <1>9, <3>1
  <2>4. u[la + 3] \in S
    BY <2>1
  <2>5. Anchors(u) # {} /\ Anchor(u) = la + 3
    BY <1>7, <2>2, <2>3, <2>4
  <2>6. OperatorFrom(u) = la + 2
    BY <2>1, <2>2, <2>5 DEF OperatorFrom
  <2>7. OperatorTo(u) = la + 3
    BY <2>2, <2>5, <2>6 DEF OperatorTo
  <2>8. la + 3 = la + 1 + lo
    BY <1>2, <2>1
  <2> QED BY <2>5, <2>6, <2>7, <2>8 DEF u, la, lo
<1> QED BY <1>8, <1>9

\* Two texts that are equal from one place of the one on.
LEMMA SliceEquals ==
  ASSUME NEW u \in Seq(Characters), NEW x \in Seq(Characters), NEW o \in Nat, o + Len(x) <= Len(u),
         \A k \in 1 .. Len(x) : u[o + k] = x[k]
  PROVE  SubSeq(u, o + 1, o + Len(x)) = x
<1>1. Len(x) \in Nat /\ Len(u) \in Nat
  OBVIOUS
<1>2. o + 1 \in 1 .. Len(u) + 1 /\ o + Len(x) \in (o + 1) - 1 .. Len(u) /\ (o + Len(x)) - (o + 1) + 1 = Len(x)
  BY <1>1
<1>3. /\ SubSeq(u, o + 1, o + Len(x)) \in Seq(Characters) /\ Len(SubSeq(u, o + 1, o + Len(x))) = Len(x)
      /\ \A k \in 1 .. Len(x) : SubSeq(u, o + 1, o + Len(x))[k] = u[k + (o + 1) - 1]
  BY <1>2, SliceIs
<1>4. ASSUME NEW k \in 1 .. Len(x) PROVE SubSeq(u, o + 1, o + Len(x))[k] = x[k]
  <2>1. k + (o + 1) - 1 = o + k
    BY <1>1
  <2> QED BY <1>3, <2>1
<1> QED BY <1>3, <1>4, SeqEqual

\* A text between two written characters, behind the first `o` characters of a
\* slice i .. j in which there is white space around it.
Framed(u, x, o, i, j) ==
  /\ x # <<>> /\ x[1] \notin Spaces /\ x[Len(x)] \notin Spaces
  /\ o \in Nat /\ i \in 1 .. o + 1 /\ j \in o + Len(x) .. Len(u)
  /\ \A k \in 1 .. Len(x) : u[o + k] = x[k]
  /\ \A k \in i .. j : k <= o \/ o + Len(x) < k => u[k] \in Spaces

\* It is what is left when the slice is trimmed.
LEMMA SpaceTrimmed ==
  ASSUME NEW u \in Seq(Characters), NEW x \in Seq(Characters), NEW o, NEW i, NEW j,
         Framed(u, x, o, i, j)
  PROVE  Trimmed(SubSeq(u, i, j)) = x
<1> USE DEF Framed
<1>1. Len(x) \in Nat /\ Len(u) \in Nat /\ Len(x) # 0 /\ i \in Nat /\ j \in Nat
  BY EmptySeq
<1>2. 1 \in 1 .. Len(x) /\ Len(x) \in 1 .. Len(x)
  BY <1>1
<1>3. u[o + 1] \notin Spaces /\ u[o + Len(x)] \notin Spaces
  BY <1>2
<1>4. ASSUME NEW k \in i .. j, k < o + 1 \/ o + Len(x) < k PROVE u[k] \in Spaces
  <2>1. k <= o \/ o + Len(x) < k
    BY <1>1, <1>4
  <2> QED BY <2>1
<1>5. o + 1 \in i .. j /\ o + Len(x) \in o + 1 .. j
  BY <1>1
<1>6. Edges(u, i, j, o + 1, o + Len(x))
  BY <1>3, <1>4, <1>5 DEF Edges
<1>7. i \in 1 .. Len(u) + 1 /\ j \in i - 1 .. Len(u)
  BY <1>1
<1>8. \A p, q : Edges(u, i, j, p, q) => Trimmed(SubSeq(u, i, j)) = SubSeq(u, p, q)
  BY <1>7, SliceTrimmed
<1>9. o + Len(x) <= Len(u)
  BY <1>1
<1>10. SubSeq(u, o + 1, o + Len(x)) = x
  BY <1>9, SliceEquals
<1> QED BY <1>6, <1>8, <1>10

\* A guard that is printed says what it says.
LEMMA PrintedReads ==
  ASSUME NEW t \in Seq(Characters), NEW c, Guard(c, t)
  PROVE  Reading(Printed(c)) = Reads("Ok", c)
<1> DEFINE u  == Printed(c)
           a  == c.arg
           r  == RightOf(c)
           la == Len(a)
           lo == Len(c.op)
           lr == Len(r)
<1>1. /\ u \in Seq(Characters) /\ a \in Seq(Characters) /\ c.op \in Seq(Characters)
      /\ r \in Seq(Characters)
  BY PrintedIs, RightIs
<1>2. Len(u) = la + 2 + lo + lr
  BY PrintedIs
<1>3. \A k \in 1 .. la : u[k] = a[k]
  BY PrintedIs
<1>4. u[la + 1] = " "
  BY PrintedIs
<1>5. \A k \in 1 .. lo : u[la + 1 + k] = c.op[k]
  BY PrintedIs
<1>6. u[la + 2 + lo] = " "
  BY PrintedIs
<1>7. \A k \in 1 .. lr : u[la + 2 + lo + k] = r[k]
  BY PrintedIs
<1>8. /\ a # <<>> /\ a[1] \notin Spaces /\ a[la] \notin Spaces /\ Fits(a)
  BY DEF Guard, Side
<1>9. /\ r # <<>> /\ r[1] \notin Spaces /\ r[lr] \notin Spaces
  BY RightIs
<1>10. /\ Anchors(u) # {} /\ OperatorFrom(u) = la + 2 /\ OperatorTo(u) = la + 1 + lo
  BY PrintedOperator
<1>11. " " \in Spaces
  BY DEF Spaces
<1>12. Meaning(c.op) = c.op
  BY OperatorIs DEF Guard
<1>13. \/ /\ c = [NoCondition EXCEPT !.arg = a, !.op = c.op, !.numeric = TRUE, !.number = c.number]
          /\ IsInt32(r) /\ Denoted(r) = c.number
       \/ /\ c = [NoCondition EXCEPT !.arg = a, !.op = c.op, !.literal = c.literal]
          /\ ~IsInt32(r) /\ ~IsOrdering(c.op) /\ Fits(r) /\ r = c.literal
  BY RightIs
<1>14. Reading(u) = Comparison(Trimmed(SubSeq(u, 1, (la + 2) - 1)), SubSeq(u, la + 2, la + 1 + lo),
                               Trimmed(SubSeq(u, (la + 1 + lo) + 1, Len(u))))
  BY <1>10 DEF Reading
<1> HIDE DEF u, r
<1>15. la \in Nat /\ lo \in Nat /\ lr \in Nat /\ lr # 0
  BY <1>1, <1>9, EmptySeq
<1> HIDE DEF a, la, lo, lr
<1>16. Trimmed(SubSeq(u, 1, (la + 2) - 1)) = a
  <2>1. /\ 0 \in Nat /\ 1 \in 1 .. 0 + 1 /\ la + 1 \in 0 + la .. Len(u) /\ (la + 2) - 1 = la + 1
        /\ \A k \in 1 .. la : 0 + k = k
        /\ \A k \in 1 .. la + 1 : k <= 0 \/ 0 + la < k => k = la + 1
    BY <1>2, <1>15
  <2>2. Framed(u, a, 0, 1, la + 1)
    BY <1>3, <1>4, <1>8, <1>11, <2>1 DEF Framed, la
  <2> QED BY <1>1, <2>1, <2>2, SpaceTrimmed
<1>17. SubSeq(u, la + 2, la + 1 + lo) = c.op
  <2>1. la + 1 \in Nat /\ (la + 1) + 1 = la + 2 /\ (la + 1) + lo = la + 1 + lo /\ (la + 1) + lo <= Len(u)
    BY <1>2, <1>15
  <2> QED BY <1>1, <1>5, <2>1, SliceEquals DEF lo
<1>18. Trimmed(SubSeq(u, (la + 1 + lo) + 1, Len(u))) = r
  <2> DEFINE o == la + 2 + lo
  <2>1. /\ o \in Nat /\ o \in 1 .. o + 1 /\ Len(u) \in o + lr .. Len(u) /\ (la + 1 + lo) + 1 = o
        /\ \A k \in o .. Len(u) : k <= o \/ o + lr < k => k = o
    BY <1>2, <1>15
  <2>2. u[o] = " " /\ \A k \in 1 .. lr : u[o + k] = r[k]
    BY <1>6, <1>7
  <2> HIDE DEF o
  <2>3. Framed(u, r, o, o, Len(u))
    BY <1>9, <1>11, <2>1, <2>2 DEF Framed, lr
  <2> QED BY <1>1, <2>1, <2>3, SpaceTrimmed
<1>19. Reading(u) = Comparison(a, c.op, r)
  BY <1>14, <1>16, <1>17, <1>18
<1>20. Comparison(a, c.op, r) = Reads("Ok", c)
  <2>1. ~(Len(a) > kMaxNameLength) /\ (Fits(r) => ~(Len(r) > kMaxNameLength))
    BY <1>1, <1>8 DEF Fits
  <2>2. ~IsOrdering(c.op) => ~(c.op[1] \in {"<", ">"})
    BY DEF IsOrdering
  <2> DEFINE read == [NoCondition EXCEPT !.arg = a, !.op = c.op]
  <2>3. CASE /\ c = [NoCondition EXCEPT !.arg = a, !.op = c.op, !.numeric = TRUE, !.number = c.number]
             /\ IsInt32(r) /\ Denoted(r) = c.number
    <3>1. Comparison(a, c.op, r) = Reads("Ok", [read EXCEPT !.numeric = TRUE, !.number = c.number])
      BY <1>8, <1>9, <1>12, <2>1, <2>3 DEF Comparison
    <3>2. [read EXCEPT !.numeric = TRUE, !.number = c.number] = c
      BY <2>3 DEF NoCondition
    <3> QED BY <3>1, <3>2
  <2>4. CASE /\ c = [NoCondition EXCEPT !.arg = a, !.op = c.op, !.literal = c.literal]
             /\ ~IsInt32(r) /\ ~IsOrdering(c.op) /\ Fits(r) /\ r = c.literal
    <3>1. Comparison(a, c.op, r) = Reads("Ok", [read EXCEPT !.literal = c.literal])
      BY <1>8, <1>9, <1>12, <2>1, <2>2, <2>4 DEF Comparison
    <3>2. [read EXCEPT !.literal = c.literal] = c
      BY <2>4 DEF NoCondition
    <3> QED BY <3>1, <3>2
  <2> QED BY <1>13, <2>3, <2>4
<1> QED BY <1>19, <1>20 DEF u

\* Half way through a guard: its two sides are found, and of the right one it is
\* not known yet, or known not to be the case, that it is an integer.
Halves(s) ==
  /\ s.left # <<>> /\ s.right # <<>> /\ Fits(s.left)
  /\ condition = [NoCondition EXCEPT !.arg = s.left, !.op = Meaning(s.op)]
  /\ number.of = s.right

Guarding ==
  task = "guard" =>
    /\ text \in Seq(Characters)
    /\ stage \in {"split", "sign", "digits", "literal", "done"}
    /\ stage = "split" => at = 1 /\ condition = NoCondition
    /\ stage \in {"sign", "digits", "literal"} => \E s \in Sides(text) : Halves(s)
    /\ stage \in {"sign", "digits"} => Halfway(number.of)
    /\ stage = "literal" => ~IsInt32(number.of)
    /\ GuardAsWritten

\* The outcomes of a comparison, by what is right of the operator.
LEMMA ComparisonIs ==
  ASSUME NEW t \in Seq(Characters), NEW s \in Sides(t)
  PROVE  LET read == [NoCondition EXCEPT !.arg = s.left, !.op = Meaning(s.op)] IN
         /\ s.left = <<>> \/ s.right = <<>> => Reading(t) = Reads("SchemaError", NoCondition)
         /\ s.left # <<>> /\ s.right # <<>> /\ ~Fits(s.left) => Reading(t) = Reads("NameTooLong", NoCondition)
         /\ s.left # <<>> /\ s.right # <<>> /\ Fits(s.left) =>
              /\ IsInt32(s.right) =>
                   Reading(t) = Reads("Ok", [read EXCEPT !.numeric = TRUE, !.number = Denoted(s.right)])
              /\ ~IsInt32(s.right) /\ IsOrdering(Meaning(s.op)) => Reading(t) = Reads("SchemaError", read)
              /\ ~IsInt32(s.right) /\ ~IsOrdering(Meaning(s.op)) /\ ~Fits(s.right) =>
                   Reading(t) = Reads("NameTooLong", read)
              /\ ~IsInt32(s.right) /\ ~IsOrdering(Meaning(s.op)) /\ Fits(s.right) =>
                   Reading(t) = Reads("Ok", [read EXCEPT !.literal = s.right])
<1> DEFINE read == [NoCondition EXCEPT !.arg = s.left, !.op = Meaning(s.op)]
<1>1. Reading(t) = Comparison(s.left, s.op, s.right)
  BY ReadingIs
<1>2. /\ Side(s.left, t) /\ Side(s.right, t) /\ s.op \in LongOperators \cup ShortOperators
  BY SidesAre
<1>3. IsOrdering(Meaning(s.op)) <=> s.op[1] \in {"<", ">"}
  BY <1>2, MeaningIs
<1>4. Len(s.left) \in Nat /\ Len(s.right) \in Nat
  <2>1. s.left \in Seq(Characters) /\ s.right \in Seq(Characters)
    BY <1>2 DEF Side
  <2> QED BY <2>1, LenProperties
<1>5. /\ Len(s.left) > kMaxNameLength <=> ~Fits(s.left)
      /\ Len(s.right) > kMaxNameLength <=> ~Fits(s.right)
  BY <1>4 DEF Fits
<1>6. Comparison(s.left, s.op, s.right) =
        IF s.left = <<>> \/ s.right = <<>> THEN Reads("SchemaError", NoCondition)
        ELSE IF Len(s.left) > kMaxNameLength THEN Reads("NameTooLong", NoCondition)
        ELSE IF IsInt32(s.right)
             THEN Reads("Ok", [read EXCEPT !.numeric = TRUE, !.number = Denoted(s.right)])
        ELSE IF s.op[1] \in {"<", ">"} THEN Reads("SchemaError", read)
        ELSE IF Len(s.right) > kMaxNameLength THEN Reads("NameTooLong", read)
        ELSE Reads("Ok", [read EXCEPT !.literal = s.right])
  BY DEF Comparison
<1> HIDE DEF read
<1> QED BY <1>1, <1>3, <1>5, <1>6 DEF read

LEMMA SplitReads ==
  ASSUME Guarding, Split
  PROVE  Guarding'
<1>1. UNCHANGED <<task, text, at, args, accepted>> /\ stage = "split"
  BY DEF Split
<1> SUFFICES ASSUME task = "guard" PROVE Guarding'
  BY <1>1 DEF Guarding
<1>2. text \in Seq(Characters) /\ at = 1 /\ condition = NoCondition
  BY <1>1 DEF Guarding
<1>3. Splits(Trimmed(text)) = Sides(text)
  BY <1>2, SidesOfTrimmed, SplitsIs
<1> DEFINE sides == {s \in Sides(text) : s.left # <<>> /\ s.right # <<>>}
<1>4. \/ sides = {} /\ Return("SchemaError") /\ UNCHANGED <<condition, number>>
      \/ \E s \in sides :
           \/ /\ Fits(s.left) /\ stage' = "sign"
              /\ condition' = [NoCondition EXCEPT !.arg = s.left, !.op = Meaning(s.op)]
              /\ number' = [NoNumber EXCEPT !.of = s.right]
           \/ ~Fits(s.left) /\ Return("NameTooLong") /\ UNCHANGED <<condition, number>>
  BY <1>3 DEF Split
<1>5. CASE sides = {} /\ Return("SchemaError") /\ UNCHANGED <<condition, number>>
  <2>1. Reading(text) = Reads("SchemaError", NoCondition)
    <3>1. CASE Sides(text) = {}
      BY <3>1, ReadingIs
    <3>2. ASSUME NEW s \in Sides(text) PROVE Reading(text) = Reads("SchemaError", NoCondition)
      <4>1. s.left = <<>> \/ s.right = <<>>
        BY <1>5
      <4> QED BY <1>2, <4>1, ComparisonIs
    <3> QED BY <3>1, <3>2
  <2> QED BY <1>1, <1>2, <1>5, <2>1 DEF Guarding, GuardAsWritten, Return
<1>6. ASSUME NEW s \in sides, ~Fits(s.left), Return("NameTooLong"), UNCHANGED <<condition, number>>
      PROVE  Guarding'
  <2>1. Reading(text) = Reads("NameTooLong", NoCondition)
    BY <1>2, <1>6, ComparisonIs
  <2> QED BY <1>1, <1>2, <1>6, <2>1 DEF Guarding, GuardAsWritten, Return
<1>7. ASSUME NEW s \in sides, Fits(s.left), stage' = "sign",
             condition' = [NoCondition EXCEPT !.arg = s.left, !.op = Meaning(s.op)],
             number' = [NoNumber EXCEPT !.of = s.right]
      PROVE  Guarding'
  <2>1. number'.of = s.right /\ number'.value = 0
    BY <1>7 DEF NoNumber
  <2>2. Halves(s)'
    BY <1>7, <2>1 DEF Halves
  <2>3. Halfway(number.of)'
    BY <1>1, <1>2, <1>7, <2>1 DEF Halfway
  <2>4. s \in Sides(text')
    BY <1>1
  <2> QED BY <1>1, <1>2, <1>7, <2>2, <2>3, <2>4 DEF Guarding, GuardAsWritten
<1> QED BY <1>4, <1>5, <1>6, <1>7

LEMMA ConversionReads ==
  ASSUME Inv, Guarding, ReadSign \/ ReadDigit \/ CheckRange
  PROVE  Guarding'
<1>1. /\ UNCHANGED <<task, text, args, accepted>> /\ stage \in {"sign", "digits"}
      /\ number'.of = number.of /\ DOMAIN number = DOMAIN NoNumber
  <2>1. UNCHANGED <<task, text, args, accepted>> /\ stage \in {"sign", "digits"}
    BY DEF ReadSign, ReadDigit, CheckRange
  <2>2. DOMAIN number = DOMAIN NoNumber
    BY DEF Inv, Scanning
  <2>3. \/ number' = number \/ \E b : number' = [number EXCEPT !.negative = b]
        \/ \E v : number' = [number EXCEPT !.value = v] \/ \E n : number' = [number EXCEPT !.out = n]
    BY DEF ReadSign, ReadDigit, CheckRange, IsANumber
  <2>4. number'.of = number.of
    BY <2>2, <2>3 DEF NoNumber
  <2> QED BY <2>1, <2>2, <2>4
<1> SUFFICES ASSUME task = "guard" PROVE Guarding'
  BY <1>1 DEF Guarding
<1>2. text \in Seq(Characters) /\ Halfway(number.of) /\ Converted = number.of /\ Converted' = number.of
  BY <1>1 DEF Guarding, Converted
<1>3. PICK s \in Sides(text) : Halves(s)
  BY <1>1 DEF Guarding
<1>4. number.of \in Seq(Characters) /\ number.of = s.right
  BY <1>2, <1>3, SidesAre DEF Halves, Side
<1>5. \/ stage' = "digits" /\ Halfway(number.of)' /\ UNCHANGED <<status, condition>>
      \/ NotANumber /\ ~IsInt32(number.of)
      \/ IsANumber(Denoted(number.of)) /\ IsInt32(number.of)
  BY <1>1, <1>2, <1>4, ConversionGoesOn DEF Halfway
<1>6. CASE stage' = "digits" /\ Halfway(number.of)' /\ UNCHANGED <<status, condition>>
  <2>1. Halves(s)' /\ s \in Sides(text')
    BY <1>1, <1>3, <1>6 DEF Halves
  <2> QED BY <1>1, <1>2, <1>6, <2>1 DEF Guarding, GuardAsWritten
<1>7. CASE NotANumber /\ ~IsInt32(number.of)
  <2>1. stage' = "literal" /\ UNCHANGED <<status, condition>>
    BY <1>7 DEF NotANumber
  <2>2. Halves(s)' /\ s \in Sides(text')
    BY <1>1, <1>3, <2>1 DEF Halves
  <2> QED BY <1>1, <1>2, <1>7, <2>1, <2>2 DEF Guarding, GuardAsWritten
<1>8. CASE IsANumber(Denoted(number.of)) /\ IsInt32(number.of)
  <2>1. /\ stage' = "done" /\ status' = "Ok"
        /\ condition' = [condition EXCEPT !.numeric = TRUE, !.number = Denoted(s.right)]
    BY <1>4, <1>8 DEF IsANumber, Return
  <2>2. Reading(text) = Reads("Ok", [[NoCondition EXCEPT !.arg = s.left, !.op = Meaning(s.op)]
                                       EXCEPT !.numeric = TRUE, !.number = Denoted(s.right)])
    BY <1>2, <1>3, <1>4, <1>8, ComparisonIs DEF Halves
  <2>3. Reading(text) = Reads("Ok", condition')
    BY <1>3, <2>1, <2>2 DEF Halves
  <2> QED BY <1>1, <1>2, <2>1, <2>3 DEF Guarding, GuardAsWritten
<1> QED BY <1>5, <1>6, <1>7, <1>8

LEMMA LiteralReads ==
  ASSUME Guarding, ParseLiteral
  PROVE  Guarding'
<1>1. UNCHANGED <<task, text, at, args, number, accepted>> /\ stage = "literal" /\ stage' = "done"
  BY DEF ParseLiteral, Return
<1> SUFFICES ASSUME task = "guard" PROVE Guarding'
  BY <1>1 DEF Guarding
<1>2. text \in Seq(Characters) /\ ~IsInt32(number.of)
  BY <1>1 DEF Guarding
<1>3. PICK s \in Sides(text) : Halves(s)
  BY <1>1 DEF Guarding
<1> DEFINE read == [NoCondition EXCEPT !.arg = s.left, !.op = Meaning(s.op)]
<1>4. condition = read /\ number.of = s.right /\ read.op = Meaning(s.op)
  BY <1>3 DEF Halves, NoCondition
<1>5. /\ IsOrdering(read.op) => Reading(text) = Reads("SchemaError", read)
      /\ ~IsOrdering(read.op) /\ ~Fits(s.right) => Reading(text) = Reads("NameTooLong", read)
      /\ ~IsOrdering(read.op) /\ Fits(s.right) => Reading(text) = Reads("Ok", [read EXCEPT !.literal = s.right])
  BY <1>2, <1>3, <1>4, ComparisonIs DEF Halves
<1> HIDE DEF read
<1>6. Reading(text) = Reads(status', condition')
  BY <1>4, <1>5 DEF ParseLiteral, Return
<1> QED BY <1>1, <1>2, <1>6 DEF Guarding, GuardAsWritten

LEMMA PrintingIsText ==
  ASSUME Guarding, PrintGuard
  PROVE  /\ text \in Seq(Characters) /\ Guard(condition, text)
         /\ Printed(condition) \in Seq(Characters)
         /\ \E place \in Places : text' = Shown(place, Escaped(place, Printed(condition)))
<1>1. task = "guard" /\ stage = "done" /\ status = "Ok"
  BY DEF PrintGuard
<1>2. text \in Seq(Characters) /\ Reading(text) = Reads("Ok", condition)
  BY <1>1 DEF Guarding, GuardAsWritten
<1>3. Guard(condition, text)
  BY <1>2, AcceptedIs
<1>4. Printed(condition) \in Seq(Characters)
  BY <1>2, <1>3, PrintedIs
<1>5. \E place \in Places : text' = Shown(place, Escaped(place, Printed(condition)))
  BY DEF PrintGuard
<1> QED BY <1>2, <1>3, <1>4, <1>5

LEMMA GuardingKept ==
  /\ Init => Guarding
  /\ Inv /\ Guarding /\ [Next]_vars => Guarding'
<1>1. Init => Guarding
  <2> SUFFICES ASSUME Init, task = "guard" PROVE Guarding
    BY DEF Guarding
  <2>1. /\ text \in Seq(Characters) /\ stage = "split" /\ at = 1 /\ condition = NoCondition
    BY TextOfInit DEF Init
  <2> QED BY <2>1 DEF Guarding, GuardAsWritten
<1>2. Inv /\ Guarding /\ [Next]_vars => Guarding'
  <2> SUFFICES ASSUME Inv, Guarding, [Next]_vars PROVE Guarding'
    OBVIOUS
  <2>1. CASE UNCHANGED vars
    BY <2>1 DEF vars, Guarding, GuardAsWritten, Halves, Halfway
  <2>2. CASE ClearArgs \/ ParseWord \/ EndOfWords
    BY <2>2 DEF ClearArgs, ParseWord, EndOfWords, Inv, Scanning, Guarding
  <2>3. CASE PrintGuard
    <3>1. PICK place \in Places : text' = Shown(place, Escaped(place, Printed(condition)))
      BY <2>3, PrintingIsText
    <3>2. Escaped(place, Printed(condition)) \in Seq(Characters)
      BY <2>3, PrintingIsText, SpelledBegins
    <3>3. text' \in Seq(Characters)
      BY <3>1, <3>2, SeenTyped
    <3>4. stage' = "split" /\ at' = 1 /\ condition' = NoCondition
      BY <2>3 DEF PrintGuard
    <3> QED BY <3>3, <3>4 DEF Guarding, GuardAsWritten
  <2> QED BY <2>1, <2>2, <2>3, SplitReads, ConversionReads, LiteralReads DEF Next
<1> QED BY <1>1, <1>2

\* parse_condition reads out of every text what it says: the first operator, what
\* is left of it, and what is right of it as an integer if it is one that fits.
THEOREM GuardsRead == Spec => []GuardAsWritten
<1>1. Guarding => GuardAsWritten
  BY DEF Guarding, GuardAsWritten
<1> QED BY <1>1, GuardingKept, InitInv, StepInv, PTL DEF Spec

-----------------------------------------------------------------------------
(* Guards: one that is printed says what it said.                            *)

\* The guard that is parsed for the second time is the one that was accepted.
Copied ==
  /\ task = "guard" => \A i \in 1 .. Len(text) : text[i] # "#"
  /\ accepted # NoCondition => task = "guard" /\ Reading(text) = Reads("Ok", accepted)

LEMMA PrintedPlain ==
  ASSUME NEW t \in Seq(Characters), NEW c, Guard(c, t)
  PROVE  (\A i \in 1 .. Len(t) : t[i] # "#")
            => \A i \in 1 .. Len(Printed(c)) : Printed(c)[i] # "#"
<1> DEFINE u  == Printed(c)
           la == Len(c.arg)
           lo == Len(c.op)
           lr == Len(RightOf(c))
<1>1. /\ u \in Seq(Characters) /\ c.arg \in Seq(Characters) /\ c.op \in Seq(Characters)
      /\ RightOf(c) \in Seq(Characters)
  BY PrintedIs, RightIs
<1>2. Len(u) = la + 2 + lo + lr
  BY PrintedIs
<1>3. \A k \in 1 .. la : u[k] = c.arg[k]
  BY PrintedIs
<1>4. u[la + 1] = " "
  BY PrintedIs
<1>5. \A k \in 1 .. lo : u[la + 1 + k] = c.op[k]
  BY PrintedIs
<1>6. u[la + 2 + lo] = " "
  BY PrintedIs
<1>7. \A k \in 1 .. lr : u[la + 2 + lo + k] = RightOf(c)[k]
  BY PrintedIs
<1> SUFFICES ASSUME \A i \in 1 .. Len(t) : t[i] # "#"
             PROVE  \A i \in 1 .. Len(u) : u[i] # "#"
  BY DEF u
<1>8. \A k \in 1 .. la : c.arg[k] # "#"
  BY DEF Guard, Side
<1>9. \A k \in 1 .. lo : c.op[k] # "#"
  <2>1. \/ lo = 1 /\ c.op[1] \in {"<", ">"}
        \/ lo = 2 /\ c.op[1] \in {"=", "!", "<", ">"} /\ c.op[2] = "="
    BY OperatorIs DEF Guard
  <2> HIDE DEF lo
  <2>2. \A k \in 1 .. lo : k = 1 \/ (k = 2 /\ lo = 2)
    BY <2>1
  <2> QED BY <2>1, <2>2
<1>10. \A k \in 1 .. lr : RightOf(c)[k] # "#"
  BY RightIs
<1>11. la \in Nat /\ lo \in Nat /\ lr \in Nat
  BY <1>1, LenProperties
<1> HIDE DEF u, la, lo, lr
<1>12. ASSUME NEW i \in 1 .. Len(u) PROVE u[i] # "#"
  <2>1. \/ i \in 1 .. la \/ i = la + 1 \/ i = la + 2 + lo
        \/ i - (la + 1) \in 1 .. lo /\ i = la + 1 + (i - (la + 1))
        \/ i - (la + 2 + lo) \in 1 .. lr /\ i = la + 2 + lo + (i - (la + 2 + lo))
    BY <1>2, <1>11
  <2>2. CASE i \in 1 .. la
    BY <1>3, <1>8, <2>2
  <2>3. CASE i = la + 1 \/ i = la + 2 + lo
    BY <1>4, <1>6, <2>3
  <2>4. CASE i - (la + 1) \in 1 .. lo /\ i = la + 1 + (i - (la + 1))
    <3> DEFINE k == i - (la + 1)
    <3>1. k \in 1 .. lo /\ i = la + 1 + k
      BY <2>4
    <3> HIDE DEF k
    <3> QED BY <1>5, <1>9, <3>1
  <2>5. CASE i - (la + 2 + lo) \in 1 .. lr /\ i = la + 2 + lo + (i - (la + 2 + lo))
    <3> DEFINE k == i - (la + 2 + lo)
    <3>1. k \in 1 .. lr /\ i = la + 2 + lo + k
      BY <2>5
    <3> HIDE DEF k
    <3> QED BY <1>7, <1>10, <3>1
  <2> QED BY <2>1, <2>2, <2>3, <2>4, <2>5
<1> QED BY <1>12

\* What the linter and the diagrams print of a guard is parsed as that guard: for
\* every guard without "#", which Mermaid reads as the beginning of an entity.
THEOREM GuardsReadBack ==
  ASSUME PlainGuards
  PROVE  Spec => []GuardReadsBack
<1>1. Init => Copied
  <2> SUFFICES ASSUME Init PROVE Copied
    OBVIOUS
  <2>1. ASSUME task = "guard" PROVE \A i \in 1 .. Len(text) : text[i] # "#"
    <3>1. text \in Texts["guard"] /\ text \in Seq(Characters)
      BY <2>1, TextOfInit DEF Init
    <3>2. DOMAIN text = 1 .. Len(text)
      BY <3>1
    <3> QED BY <3>1, <3>2, PlainGuards DEF PlainGuards
  <2> QED BY <2>1 DEF Copied, Init
<1>2. Guarding /\ Copied /\ [Next]_vars => Copied'
  <2> SUFFICES ASSUME Guarding, Copied, [Next]_vars PROVE Copied'
    OBVIOUS
  <2>1. CASE UNCHANGED <<task, text, accepted>>
    BY <2>1 DEF Copied
  <2>2. CASE PrintGuard
    <3> DEFINE u == Printed(condition)
    <3>1. /\ task = "guard" /\ task' = task /\ accepted' = condition
      BY <2>2 DEF PrintGuard
    <3>2. /\ text \in Seq(Characters) /\ Guard(condition, text) /\ u \in Seq(Characters)
          /\ \A i \in 1 .. Len(text) : text[i] # "#"
      BY <2>2, <3>1, PrintingIsText DEF Copied
    <3>3. PICK place \in Places : text' = Shown(place, Escaped(place, u))
      BY <2>2, PrintingIsText
    <3>4. \A i \in 1 .. Len(u) : u[i] # "#"
      BY <3>2, PrintedPlain
    <3>5. text' = u
      BY <3>2, <3>3, <3>4, ShownAsPrinted
    <3>6. Reading(u) = Reads("Ok", condition)
      BY <3>2, PrintedReads
    <3> HIDE DEF u
    <3> QED BY <3>1, <3>4, <3>5, <3>6 DEF Copied
  <2> QED BY <2>1, <2>2 DEF Next, vars, ClearArgs, ParseWord, EndOfWords, ReadSign, ReadDigit,
                            CheckRange, Split, ParseLiteral
<1>3. Guarding /\ Copied => GuardReadsBack
  <2> SUFFICES ASSUME Guarding, Copied, accepted # NoCondition, stage = "done"
               PROVE  status = "Ok" /\ condition = accepted
    BY DEF GuardReadsBack
  <2>1. Reads(status, condition) = Reads("Ok", accepted)
    BY DEF Guarding, GuardAsWritten, Copied
  <2> QED BY <2>1 DEF Reads
<1> QED BY <1>1, <1>2, <1>3, GuardingKept, InitInv, StepInv, PTL DEF Spec
=============================================================================
