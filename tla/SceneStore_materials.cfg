\* Materials edited and removed while they compile, and shared indices.
SPECIFICATION FairSpec
CONSTANTS
  None = None
  Meshes = {4}
  Splats = {}
  Materials = {1, 2, 3}
  Lights = {}
  Volumes = {}
  Transforms <- MCTransforms
  Networks <- MCNetworks
  Programs <- MCPrograms
  Compilation <- MCCompilation
  MeshEntries <- MaterialMeshes
  SplatEntries <- NoneAtAll
  MaterialEntries <- MaterialMaterials
  LightEntries <- NoneAtAll
  VolumeEntries <- NoneAtAll
  Selections = {"all"}
  IncludesRprim <- AllPrims
  IncludesPurpose <- AllPurposes
  MaxCullVolumes = 2
  MaxRevision = 5
INVARIANTS
  NoStaleCompile
  ResolvesToItsProgram
  DrawnIsCompiled
PROPERTIES
  BoundIsCompiled
CHECK_DEADLOCK FALSE
