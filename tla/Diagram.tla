------------------------------- MODULE Diagram -------------------------------
(***************************************************************************)
(* fms::diagram::render: a model as arrows between states, for Mermaid or  *)
(* for dot.  The two differ in punctuation and escapes only, which are left *)
(* out; a picture is what either of them draws.  It is a set: the order of *)
(* the arrows is what a drawing cannot show.                               *)
(***************************************************************************)
EXTENDS Model

Formats == {"mermaid", "dot"}

\* What a label says after the trigger's name.
Always       == [when |-> "always",    guard |-> <<>>]
Otherwise    == [when |-> "otherwise", guard |-> <<>>]
Guarded(g)   == [when |-> "guard",     guard |-> g]

\* A mistake Label must not make: a fallback looks like the only way.
PlainLabel(m, alternative, siblings) ==
  IF alternative.count = 0 THEN Always ELSE Guarded(GuardOf(m, alternative))

Label(m, alternative, siblings) ==
  IF alternative.count > 0 THEN Guarded(GuardOf(m, alternative))
  ELSE IF siblings THEN Otherwise ELSE Always

Arrows(m) ==
  UNION {UNION {
    LET alternatives == m.states[s].transitions[t] IN
    {[from |-> StateName(m, s), to |-> StateName(m, alternatives[i].target),
      trigger |-> m.triggers[t].name,
      label |-> Label(m, alternatives[i], Len(alternatives) > 1)] : i \in DOMAIN alternatives}
    : t \in DOMAIN m.states[s].transitions} : s \in DOMAIN m.states}

\* The entry arrow is drawn for a state the model has.
Picture(m, initial) ==
  [entry  |-> {StateName(m, s) : s \in {initial} \cap DOMAIN m.states},
   arrows |-> Arrows(m)]

-----------------------------------------------------------------------------
(* A reader of the picture, who has nothing but the arrows. *)

\* The arrows to follow from a state, for a trigger with these arguments.
GuardHolds(guard, args) == \A i \in DOMAIN guard : Holds(guard[i], args)

Followed(picture, from, trigger, args) ==
  LET leaving == {a \in picture.arrows : a.from = from /\ a.trigger = trigger}
      guarded == {a \in leaving : a.label.when = "guard" /\ GuardHolds(a.label.guard, args)}
  IN  {a \in leaving : a.label.when = "always"} \cup
      IF guarded # {} THEN guarded ELSE {a \in leaving : a.label.when = "otherwise"}

\* Where a picture can say what order says: the fallback, if there is one, comes
\* last, and no two guards hold at once.
Drawable(m, s, t, args) ==
  LET alternatives == m.states[s].transitions[t] IN
  /\ \A i \in DOMAIN alternatives : alternatives[i].count = 0 => i = Len(alternatives)
  /\ \A i, j \in DOMAIN alternatives :
       /\ alternatives[i].count > 0 /\ alternatives[j].count > 0 /\ i # j
       => ~(AlternativeHolds(m, alternatives[i], args) /\ AlternativeHolds(m, alternatives[j], args))

\* A reader of the picture goes where the machine goes.
ReadsLike(picture, m, arguments) ==
  \A s \in DOMAIN m.states, args \in arguments :
    \A t \in DOMAIN m.states[s].transitions :
      Drawable(m, s, t, args) =>
        {a.to : a \in Followed(picture, m.states[s].name, m.triggers[t].name, args)}
          = LET taken == Evaluate(m, s, t, args) IN
            IF taken.decision = "Accepted" THEN {StateName(m, taken.target)} ELSE {}
=============================================================================
