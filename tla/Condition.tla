------------------------------ MODULE Condition ------------------------------
(***************************************************************************)
(* One guard condition, "argument op literal", and the arguments a trigger *)
(* carried (fms::Condition, fms::Args).                                    *)
(*                                                                         *)
(* The text of a value is abstracted to what a comparison can tell apart:  *)
(* whether it parses as an int32, the integer if it does, and the word     *)
(* otherwise.  The empty value ("pedal=") is the word "".                  *)
(***************************************************************************)
EXTENDS Integers

Number(n) == [numeric |-> TRUE,  number |-> n, word |-> ""]
Word(w)   == [numeric |-> FALSE, number |-> 0, word |-> w]

EmptyValue == Word("")

\* Args::none(): nothing was sent.
NoArgs == <<>>

\* An argument that was not sent reads as the empty value.
Text(args, key) == IF key \in DOMAIN args THEN args[key] ELSE EmptyValue

\* The comparison of Condition::evaluate between two integers.
Compares(op, actual, number) ==
  \/ op = "==" /\ actual = number
  \/ op = "!=" /\ actual # number
  \/ op = "<"  /\ actual < number
  \/ op = "<=" /\ actual <= number
  \/ op = ">"  /\ actual > number
  \/ op = ">=" /\ actual >= number

\* Condition::evaluate.  A word literal never parses as an integer, so it
\* differs from every numeric value.
Holds(condition, args) ==
  LET value == Text(args, condition.arg) IN
  /\ value # EmptyValue
  /\ IF condition.numeric
     THEN value.numeric /\ Compares(condition.op, value.number, condition.number)
     ELSE (value = Word(condition.literal)) <=> (condition.op # "!=")
=============================================================================
