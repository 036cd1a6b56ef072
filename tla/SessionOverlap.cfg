\* Three operations of one handle, all overlapping, with two other changes.
CONSTANTS
  o1 = o1
  o2 = o2
  o3 = o3
  Calls <- MCCalls
  MaxChanges = 3
SPECIFICATION Spec
SYMMETRY MCSymmetry
INVARIANT
  IInv
PROPERTY
  NeverOlderThanAtCall
  OnlySuccessReplaces
CHECK_DEADLOCK FALSE
