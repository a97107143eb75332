SPECIFICATION FairSpec
CONSTANTS
  Moves = {1, 2}
  Saves = {e1}
  Pages = {p1, p2}
  Structured = {p1}
  Initial = x0
  Outside = {}
  None = None
INVARIANTS
  WriteAhead
  CommittedIsComplete
PROPERTIES
  ReplacedIsInJournal
  EveryMoveEnds
CHECK_DEADLOCK FALSE
