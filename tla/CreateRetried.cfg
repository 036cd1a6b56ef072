\* One program, every combination of options, three calls of create at most.
CONSTANTS
  Sizes <- MCSizes
  MaxCalls = 3
SPECIFICATION Spec
INVARIANT
  IInv
  StableKeyMakesOneSession
  OnePolicyPerRequest
CHECK_DEADLOCK FALSE
