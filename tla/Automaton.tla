------------------------------ MODULE Automaton ------------------------------
(***************************************************************************)
(* What the whole program promises to whoever is at the other end of its   *)
(* port: after the initial state is published, every input gets one answer *)
(* in the order they arrive - the state the configuration leads to, or an  *)
(* error that changes nothing - until the session ends.                    *)
(***************************************************************************)
EXTENDS Integers, Sequences

CONSTANTS
  Initial,    \* the name of the initial state
  Input,      \* what may arrive
  Moves,      \* [state -> [Input -> state, or Refused]]
  Refused

VARIABLES
  phase,      \* "off", "on" or "over"
  state,      \* the last state published
  queue,      \* the inputs that arrived and are not answered
  answers     \* publications since the first: [states, errors]

vars == <<phase, state, queue, answers>>

Init ==
  /\ phase = "off" /\ state = "" /\ queue = <<>>
  /\ answers = [states |-> 0, errors |-> 0]

Arrive(input) == queue' = Append(queue, input) /\ UNCHANGED <<phase, state, answers>>

Begin == phase = "off" /\ phase' = "on" /\ state' = Initial /\ UNCHANGED <<queue, answers>>

Answered(input) ==
  /\ phase = "on" /\ queue # <<>> /\ input = Head(queue)
  /\ queue' = Tail(queue)
  /\ UNCHANGED phase

Accept(input) ==
  /\ Answered(input)
  /\ Moves[state][input] # Refused
  /\ state' = Moves[state][input]
  /\ answers' = [answers EXCEPT !.states = @ + 1]

Reject(input) ==
  /\ Answered(input)
  /\ Moves[state][input] = Refused
  /\ answers' = [answers EXCEPT !.errors = @ + 1]
  /\ UNCHANGED state

End == phase = "on" /\ phase' = "over" /\ UNCHANGED <<state, queue, answers>>

Next ==
  \/ Begin \/ End
  \/ \E input \in Input : Arrive(input) \/ Accept(input) \/ Reject(input)

Spec == Init /\ [][Next]_vars
=============================================================================
