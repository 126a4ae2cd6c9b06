\* A stage of one prim of each kind under nested instancers: two edits, any frames, settings and syncs between.
SPECIFICATION Spec
CONSTANTS
  mesh = mesh
  ball = ball
  hair = hair
  cloud = cloud
  lamp = lamp
  cull = cull
  inner = inner
  outer = outer
  Nowhere = Nowhere
  Absent = Absent
  Nothing = Nothing
  Unseen = Unseen
  Blocked = Blocked
  Prims <- PrimsDef
  Instancers <- InstancersDef
  Kind <- KindDef
  Parent <- ParentDef
  Authored <- AuthoredDef
  Openings <- OpeningsDef
  AskedFor <- AskedForDef
  Moves <- MovesDef
  Divisions <- DivisionsDef
  Cameras = {1, 2}
  MaxEdits = 2
INVARIANTS
  PublishedIsCurrent
  PlacementsFollowTheStage
PROPERTIES
  Settles
CHECK_DEADLOCK FALSE
