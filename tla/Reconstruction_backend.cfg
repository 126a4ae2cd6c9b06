\* Every answer of NGX, the compiler and the driver, over two render extents and two scenes.
SPECIFICATION Spec
CONSTANTS
  None = None
  Outputs = {"full"}
  Settings <- FewSettings
  Revisions = {1, 2}
  Faults = {"create", "sizing", "trace", "kernel", "pipeline", "set", "format", "image",
            "resize", "submit", "evaluate"}
INVARIANTS
  EvaluatesWhatWasPlanned
  KeepsOnlyTheFrameBefore
