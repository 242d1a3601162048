------------------------------ MODULE MCRuntime ------------------------------
(***************************************************************************)
(* A small car, built by the operations a loader uses, and what may arrive *)
(* for it: an input of every kind the runtime tells apart.                 *)
(***************************************************************************)
EXTENDS RuntimeProperties, SequencesExt

Pedal(op, n) == [arg |-> "pedal", op |-> op, numeric |-> TRUE, number |-> n, literal |-> ""]

\* standing --throttle[pedal > 30]--> moving --throttle[pedal > 80]--> sprint;
\* any other throttle keeps it moving; the brake stops it, and a standing car
\* has none.
Named(m, names) == FoldLeft(LAMBDA built, name : DeclareState(built, name).model, m, names)
Raised(m, triggers) ==
  FoldLeft(LAMBDA built, t : DeclareTrigger(built, t[1], t[2]).model, m, triggers)
Linked(m, moves) ==
  FoldLeft(LAMBDA built, t : AddTransition(built, t[1], t[2], t[3], t[4]).model, m, moves)

Car ==
  Linked(Raised(Named(EmptyModel, <<"standing", "moving", "sprint">>),
                <<<<"throttle", "">>, <<"brake", "car/brake">>>>),
         <<<<0, 0, 1, <<Pedal(">", 30)>>>>, <<1, 0, 2, <<Pedal(">", 80)>>>>,
           <<1, 0, 1, <<>>>>, <<1, 1, 0, <<>>>>, <<2, 1, 0, <<>>>>>>)

\* Another file: the same names under other ids, and no sprint.
Cart ==
  Linked(Raised(Named(EmptyModel, <<"moving", "standing">>), <<<<"throttle", "">>>>),
         <<<<1, 0, 0, <<>>>>, <<0, 0, 1, <<Pedal("<=", 30)>>>>>>)

Standing == [initial |-> "standing"]
Sprint   == [initial |-> "sprint"]

Parsed(args) == [status |-> "Ok", args |-> args]
Malformed    == [status |-> "ArgumentError", args |-> NoArgs]

PedalAt(n) == "pedal" :> Number(n)

On(channel, text) == [channel |-> channel, text |-> text]

CarInputs ==
  {On("throttle", Parsed(PedalAt(20))), On("throttle", Parsed(PedalAt(90))),
   On("throttle", Malformed), On("car/brake", Parsed(NoArgs)),
   On("brake", Parsed(NoArgs))}

\* What the car answers, state by state, read off the table above by hand.
CarMoves ==
  [state \in {"standing", "moving", "sprint"} |->
    [input \in CarInputs |->
      IF input.channel = "throttle" /\ input.text # Malformed
      THEN CASE input.text = Parsed(PedalAt(90)) /\ state = "standing" -> "moving"
             [] input.text = Parsed(PedalAt(90)) /\ state = "moving"   -> "sprint"
             [] input.text = Parsed(PedalAt(20)) /\ state = "moving"   -> "moving"
             [] OTHER -> "refused"
      ELSE IF input.channel = "car/brake" /\ state # "standing"
      THEN "standing" ELSE "refused"]]

\* TLC builds a function when it first needs it; compared with itself here, a
\* model is built before the workers share it.
ASSUME ModelsAreBuilt == \A m \in {Car, Cart} : m = m

OneModel  == {Car}
TwoModels == {Car, Cart, EmptyModel}
OneSetup  == {Standing}
Racing    == {Sprint, EmptySetup}
=============================================================================
