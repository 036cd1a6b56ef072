SPECIFICATION Spec
CONSTANTS
  Roots = {r1, r2}
  Pages <- MCPages
  Chunks = {d1, d2}
  Keys = {k1, k2}
  MaxCalls = 3
  MaxElsewhere = 1
INVARIANTS
  IInv
  ReportedIsDone
PROPERTIES
  ImplementsLog
CHECK_DEADLOCK FALSE
