SPECIFICATION FairSpec
CONSTANTS
  Null = Null
  Chat = Chat
  Ops = {o1}
  MaxAttempts = 2
  MaxActive = 1
  CommitMayFail = TRUE
INVARIANT AckedIsStored
PROPERTIES
  TerminalIsFinal
  Settles
