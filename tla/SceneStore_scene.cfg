\* Prims, lights and cull volumes published, moved, hidden, toggled and removed.
SPECIFICATION Spec
CONSTANTS
  None = None
  Meshes = {1}
  Splats = {2}
  Materials = {}
  Lights = {3}
  Volumes = {5, 6, 7}
  Transforms <- MCTransforms
  Networks <- NoNetworks
  Programs <- OneProgram
  Compilation <- NoCompilation
  MeshEntries <- SceneMeshes
  SplatEntries <- SceneSplats
  MaterialEntries <- NoneAtAll
  LightEntries <- SceneLights
  VolumeEntries <- CullVolumeEntries
  Selections = {"all", "some"}
  IncludesRprim <- HidesFirst
  IncludesPurpose <- NoGuides
  MaxCullVolumes = 2
  MaxRevision = 5
INVARIANTS
  MasksNameTheTable
PROPERTIES
  RevisionCoversContent
  CullRevisionCoversTable
  NumberingNeedsRevision
CHECK_DEADLOCK FALSE
