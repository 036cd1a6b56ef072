\* Every method, two calls with one object, two writes to it, answers mixed up.
CONSTANTS
  EchoCalls = {c1, c2}
  FieldValues = {v1, v2}
  FirstValues = {v1}
  MaxWrites = 2
SPECIFICATION EchoSpec
INVARIANT AnsweredAsAsked
CHECK_DEADLOCK FALSE
