--------------------------- MODULE MCPageCommand ---------------------------
EXTENDS PageCommand, TLC
CallSymmetry == Permutations(Calls)
=============================================================================
