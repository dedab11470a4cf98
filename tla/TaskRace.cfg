SPECIFICATION Spec
CONSTANTS
  plain = plain
  dated = dated
  Null = Null
  Requests = {r1, r2, r3}
  TaskIds = {t1, t2}
  Keys = {k1}
  Bodies = {plain, dated}
  ExpiresAt <- MCExpiresAt
  MaxTime = 1
  MaxVersion = 4
SYMMETRY Symmetry
INVARIANTS
  IdempotentCreate
  AtMostOneClaim
  CancelledNeverRuns
  AttemptAgrees
  HistoryComplete
PROPERTY ImplementsLifecycle
