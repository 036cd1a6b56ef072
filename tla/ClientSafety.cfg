\* Three calls and two closers in every order, with and without a transport.
CONSTANTS
  c1 = c1
  c2 = c2
  c3 = c3
  w1 = w1
  w2 = w2
  Calls <- MCCalls
  Closers <- MCClosers
  FetchMissing = TRUE
SPECIFICATION FairSpec
INVARIANT
  IInv
  NoUseAfterRelease
  TransportReleasedOnce
  CloseResolvedExactlyWhenIdle
  NoStrandedCloser
PROPERTY
  ClosingOnlyDrains
  EveryCloserResumes
  ImplementsLifecycle
