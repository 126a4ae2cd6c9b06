\* Reconstruction on, off and at another extent; a backend that declines.
SPECIFICATION FairSpec
CONSTANTS
  None = None
  Modes = {"reference", "native", "upscaled"}
  RenderExtent <- Upscaling
  Interrupts <- NoInterrupts
  Faults <- EarlyFaults
  Cameras = {"left", "right"}
  Extents = {"full", "wide"}
  Selections = {"render", "guides"}
  Qualities = {"high"}
  Aovs = {"color", "depth"}
  Guides = {"depth"}
  Edits = {"mode", "camera", "scene", "extent", "selection", "allocate"}
  TargetSamples = 2
  SamplesPerFrame = 1
  MaxEdits = 3
  UploadFaults = FALSE
INVARIANTS
  BackendHistoryMatches
  MotionFromLastFrame
  FilmHoldsWhatWasCounted
PROPERTIES
  ConvergedIsCurrent
  ViewportSpec
CHECK_DEADLOCK FALSE
