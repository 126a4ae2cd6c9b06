SPECIFICATION Spec
CONSTANTS
  None = None
  m1 = m1
  m2 = m2
  Ids <- MCIds
  Networks <- MCNetworks
  Tiles <- MCTiles
  Unreadable <- MCUnreadable
  Maps = {"a"}
  Qualities = {"high", "low"}
  Capacity = 4
  MaxEdits = 4
INVARIANTS ReadsItsOwnImages TraversalMatchesTheTable
