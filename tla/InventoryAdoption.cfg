SPECIFICATION AdoptionSpec
CONSTANTS
  sword = sword
  hero = hero
  rogue = rogue
  Items = {sword}
  Actors = {hero,rogue}
  ItemsOf <- Shared
  Pages = {sword,hero,rogue}
  Passing = {}
  Manual = {}
  Restores = {r1}
  Adoptions = {m1}
  Cleanups = {c1}
  Sweeps = {}
  Saves = {s1}
  Deletions = {}
  Keep = 1
  MaxRestarts = 0
  None = None
SYMMETRY ActorSymmetry
INVARIANTS
  AdoptionTypeOK
  ActorsFollowItems
  UnresolvedKeepsSource
PROPERTIES
  AdoptionReplacesItsSource
CHECK_DEADLOCK FALSE
