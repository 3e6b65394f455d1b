SPECIFICATION FairSpec
CONSTANTS
  Invocations <- Considered
  MaxPackets = 2
CHECK_DEADLOCK FALSE
INVARIANT TypeOK
INVARIANT OneReceiver
INVARIANT NeverSmashed
INVARIANT NotFoundIsTrue
INVARIANT ExitCodeTells
INVARIANT NothingLeft
PROPERTY Terminates
