SPECIFICATION FairSpec
CONSTANTS
  Pages = {a, b}
  Start = b
  Special = {b}
  Opens = {o1,o2}
  Manual = {m1}
  Writers = {w1}
  MaxTyped = 2
  None = None
INVARIANTS
  TypeOK
  OneSaveAtATime
  BodiesStayHome
  ConflictHasACause
PROPERTIES
  FlushedBeforeOpen
  EveryDraftIsAnswered
CHECK_DEADLOCK FALSE
