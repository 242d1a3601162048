CONSTANTS
  Texts          <- SomeTexts
  Formers        <- SomeFormers
  kIntMax        = 11
  kMaxNameLength = 2
  kMaxArguments  = 2
SPECIFICATION Spec
INVARIANTS
  TypeOK
  RefusedArgsLeaveNothing
  ArgsAsWritten
  NumbersAsWritten
  GuardAsWritten
  GuardReadsBack
\* A behaviour is one call, and one more for a guard that is printed.
CHECK_DEADLOCK FALSE
