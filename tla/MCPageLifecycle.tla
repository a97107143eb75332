-------------------------- MODULE MCPageLifecycle --------------------------
EXTENDS PageLifecycle, TLC
CONSTANTS folder, card

\* A folder with a card in it.
FolderWithCard == (folder :> None) @@ (card :> folder)

LifecycleSymmetry == Permutations(Deletes) \cup Permutations(Undos)
=============================================================================
