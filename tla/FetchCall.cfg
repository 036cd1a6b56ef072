\* Every operation, with a fetch that heeds its signal and one that answers late.
\* The three attempts of a read fill its total deadline exactly, as in the code.
CONSTANTS
  Operations <- MCOperations
  ReadDeadline = 2
  ReadTotal = 6
  WriteDeadline = 3
  BackoffUnit = 1
  MaxBytes = 1
  Lateness = 1
  Horizon = 9
SPECIFICATION FairSpec
INVARIANT
  IInv
  WritesSentOnce
  WithinTotalDeadline
  TraceWellFormed
  NoTimerOrListenerLeft
  NoBodyLeftOpen
  ResultIsClean
  ErrorNamesItsCause
PROPERTY
  NeverResentAfterAnswer
  CancellationWins
  Settles
