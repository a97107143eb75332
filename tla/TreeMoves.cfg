SPECIFICATION Spec
CONSTANTS
  Pages = {1, 2, 3}
  Drops = {d1}
  Keys = {k1}
  Compactions = {c1}
  Renames = {n1}
  Undos = {u1}
  Recoveries = {r1}
  MaxChanges = 3
  One = 2
  MinGap = 1
  Step = 3
  Doubles <- SmallDoubles
  Trees <- StartTrees
  Orders <- StartOrders
  None = None
INVARIANTS
  DropLandsWhereShown
PROPERTIES
  OnlyOvertakenMovesMakeCycles
  CompactionMovesNoPage
CHECK_DEADLOCK FALSE
