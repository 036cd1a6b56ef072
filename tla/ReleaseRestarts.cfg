\* Two commits of one version: faults, repeated attempts and restarts.
CONSTANTS
  LastCommit = 2
  VersionOf <- BothOne
  RefName = "tag"
  Faults = TRUE
  MaxAttempts = 2
  MaxRestarts = 1
SPECIFICATION Spec
INVARIANT IInv AdmittedAsSigned PromotedIsCoherent
PROPERTY ImplementsLedger
CHECK_DEADLOCK FALSE
