\* A reference render: bindings, edits, publications, uploads and frames that fail.
SPECIFICATION FairSpec
CONSTANTS
  None = None
  Modes = {"reference"}
  RenderExtent <- NoBackend
  Interrupts <- AnyInterrupt
  Faults <- FrameFaults
  Cameras = {"left"}
  Extents = {"full"}
  Selections = {"render"}
  Qualities = {"high", "low"}
  Aovs = {"color", "depth"}
  Guides = {"depth"}
  Edits = {"scene", "cull", "quality", "bind"}
  TargetSamples = 3
  SamplesPerFrame = 2
  MaxEdits = 3
  UploadFaults = TRUE
INVARIANTS
  ShownIsOneFraming
  TracesLiveResources
PROPERTIES
  Converges
CHECK_DEADLOCK FALSE
