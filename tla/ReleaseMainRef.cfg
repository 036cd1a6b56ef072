\* Two versions and nothing that goes wrong; the run was dispatched on main.
CONSTANTS
  LastCommit = 2
  VersionOf <- OneEach
  RefName = "main"
  Faults = FALSE
  MaxAttempts = 1
  MaxRestarts = 0
SPECIFICATION FairSpec
PROPERTY SignedIsPublished
CHECK_DEADLOCK FALSE
