SPECIFICATION WakeSpec
CONSTANTS
  MaxWaiting = 3
INVARIANTS
  ShownIsTrue
  CaptureIsOwned
  NotStranded
PROPERTY OptOutDeafens
