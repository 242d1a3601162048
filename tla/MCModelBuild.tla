---------------------------- MODULE MCModelBuild ----------------------------
EXTENDS ModelBuild

At(n) == [arg |-> "pedal", op |-> ">", numeric |-> TRUE, number |-> n, literal |-> ""]

OfferedGuards == {<<>>, <<At(1)>>, <<At(2), At(3)>>}
=============================================================================
