SPECIFICATION Spec
CONSTANTS
  Null = Null
  Handlers = {h1, h2, h3}
  Turns = {t1, t2}
  Texts = {x, y}
  MaxReconnects = 1
  MaxCredentials = 2
  MaxTyped = 1
SYMMETRY Symmetry
INVARIANTS
  AnsweredOnce
  SpeakingAgrees
PROPERTIES
  TerminalIsFinal
  LeasePasses
\* Every connection is opened once; after the last one nothing is left to do.
CHECK_DEADLOCK FALSE
