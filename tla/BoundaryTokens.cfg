SPECIFICATION Spec
CONSTANTS
  Modulus = 64
  BASE = 5
  VendorNames <- MCVendorNames
  GenericWords <- MCGenericWords
CHECK_DEADLOCK FALSE
INVARIANT
  TokensAreDetected
