SPECIFICATION RouterSpec
CONSTANTS
  None = None
  Providers <- MCProviders
  Models <- MCModels
  Adapters = {"cloud", "open"}
  Calls <- MCCalls
  Healths <- MCHealths
  Spendings <- MCSpendings
  Budget <- MCBudget
  Unit = 4
  MaxAttempts = 3
INVARIANTS
  NothingLeaks
  GatesAgree
  NeverDegrades
  AttemptsTellTheStory
\* An invocation ends and nothing follows it.
CHECK_DEADLOCK FALSE
