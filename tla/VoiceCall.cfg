\* A client that has ended its last session stays as it is.
SPECIFICATION Spec
CONSTANTS
  MaxAttempts = 1
  MaxQueue = 1
  MaxControl = 2
  Chunks = 2
  MaxStarts = 2
  MaxTurns = 5
  MaxFrames = 2
INVARIANTS
  MicInSession
  InterruptedIsSilent
  HeardInOrder
PROPERTIES
  EndingSettles
  SlotSpec
CHECK_DEADLOCK FALSE
