SPECIFICATION Spec
CONSTANTS
  open = open
  dated = dated
  Null = Null
  Requests = {r1, r2}
  Workflows = {dated}
  ExpiresAt <- MCExpiresAt
  Policies <- AllSettings
  MaxTime = 1
SYMMETRY Symmetry
INVARIANTS
  StepsAreAPath
  EnvelopeMatchesWorkflow
  CancelTakesTask
