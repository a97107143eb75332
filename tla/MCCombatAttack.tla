--------------------------- MODULE MCCombatAttack ---------------------------
EXTENDS CombatAttack, TLC

CombatSymmetry ==
  Permutations(Attacks) \cup Permutations(Undos) \cup Permutations(Saves)
=============================================================================
