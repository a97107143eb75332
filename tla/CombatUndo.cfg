SPECIFICATION Spec
CONSTANTS
  None = None
  N = 2
  Attacks = {a1,a2}
  Undos = {u1,u2}
  Edits = {e1}
  Saves = {}
  MaxHp = 1
  MaxRound = 2
  MaxRestarts = 1
SYMMETRY CombatSymmetry
INVARIANTS
  AtMostOneReversal
  LogTellsWhatHappened
  UnchangedLeftNothing
PROPERTIES
  HealthMovesAsLogged
CHECK_DEADLOCK FALSE
