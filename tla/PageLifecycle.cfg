SPECIFICATION Spec
CONSTANTS
  folder = folder
  card = card
  Pages = {folder, card}
  Tree <- FolderWithCard
  Creates = {n1}
  Places = {folder}
  Deletes = {d1, d2}
  Undos = {u1}
  Saves = {s1}
  None = None
SYMMETRY LifecycleSymmetry
INVARIANTS
  ListMatchesFiles
PROPERTIES
  TrashHoldsWhatIsRemoved
  FailedDeleteLeavesFiles
CHECK_DEADLOCK FALSE
