\* One of the two methods that read the caller's object again.
CONSTANTS
  EchoCalls = {c1, c2}
  FieldValues = {v1, v2}
  FirstValues = {v1}
  MaxWrites = 2
SPECIFICATION EchoSpec
INVARIANT CreateRejectsSubstitutes
CHECK_DEADLOCK FALSE
