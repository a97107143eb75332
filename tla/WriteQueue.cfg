SPECIFICATION FairSpec
CONSTANTS
  Calls = {c1, c2}
  Pages = {p1, p2}
  Structured = {p2}
  Roots = {r1, r2}
  Foreign = {x1}
  None = None
INVARIANTS
  GuardedWriteKeepsWorkspace
PROPERTIES
  NewerNeverOverwritten
  ImplementsLines
CHECK_DEADLOCK FALSE
