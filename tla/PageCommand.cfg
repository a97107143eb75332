SPECIFICATION CommandSpec
CONSTANTS
  Calls = {c1, c2, c3}
  Pages = {p1, p2}
  Structured = {p1}
  Roots = {r1}
  Foreign = {x1}
  MaxUndo = 1
  None = None
SYMMETRY CallSymmetry
INVARIANTS
  OneWriterPerPage
  SettlementSafety
  BlockedLeavesNoTrace
  QuietRuntimeMatchesDisk
PROPERTIES
  GuardedWriteExtendsBase
CHECK_DEADLOCK FALSE
