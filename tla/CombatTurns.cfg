SPECIFICATION FairSpec
CONSTANTS
  None = None
  N = 2
  Attacks = {a1,a2}
  Undos = {}
  Edits = {}
  Saves = {s1}
  MaxHp = 1
  MaxRound = 2
  MaxRestarts = 0
INVARIANTS
  OvertakenAttackNeverLands
PROPERTIES
  EveryActionReturns
CHECK_DEADLOCK FALSE
