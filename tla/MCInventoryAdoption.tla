------------------------ MODULE MCInventoryAdoption ------------------------
EXTENDS InventoryAdoption, TLC
CONSTANTS sword, hero, rogue

\* Two actors with the same item.
Shared == (hero :> {sword}) @@ (rogue :> {sword})

ActorSymmetry == Permutations(Actors)
=============================================================================
