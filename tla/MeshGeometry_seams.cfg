\* A quad beside a triangle.
SPECIFICATION MeshSpec
CONSTANTS
  MaxRate = 8
  Inputs <- MixedInputs
INVARIANT
  SharedEdgesMatch
CHECK_DEADLOCK FALSE
