SPECIFICATION Spec
CONSTANTS
  Null = Null
  Keep = Keep
  Scrubbed = Scrubbed
  Memories = {m1, m2}
  Contents = {a, b}
  Classes = {"TEMPORARY_CONTEXT", "HISTORICAL_DECISION"}
  Deadlines = {1}
  MaxTime = 1
  MaxVersion = 2
  Calls = {q1, q2}
SYMMETRY Symmetry
INVARIANTS
  HistoryIsTrue
  DeletedIsScrubbed
  NoActiveTwins
  ExpiredIsNotAnswered
PROPERTY NeverComesBack
\* The clock and the versions are bounded; in the end every row is deleted.
CHECK_DEADLOCK FALSE
