SPECIFICATION Spec
CONSTANTS
  Null = Null
  Conversations = {c1, c2}
  Calls = {q1, q2, q3}
  Keys = {k1, k2}
  Bodies = {b1, b2}
  CommitMayFail = TRUE
SYMMETRY Symmetry
INVARIANTS
  OncePerKey
  SequencesOrdered
  RepliesSeeHistory
\* Every call of submit is made once.
CHECK_DEADLOCK FALSE
