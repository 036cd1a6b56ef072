SPECIFICATION Spec
CONSTANTS
  Now <- MCNow
  HttpStatus <- MCHttpStatus
  Twice <- MCTwice
  Modulus = 64
  BASE = 5
  VendorNames <- MCVendorNames
  GenericWords <- MCGenericWords
CHECK_DEADLOCK FALSE
INVARIANTS
  AcceptedConforms
  AcceptedCoheres
  ConformingAccepted
  AcceptedIsSendable
  CursorsReplay
