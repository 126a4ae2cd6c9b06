\* Cages of quads, triangles and both, near, far, clipped and unseen, under several budgets.
SPECIFICATION MeshSpec
CONSTANTS
  MaxRate = 8
  Inputs <- ManyInputs
INVARIANTS
  SidesAgree
  DomainsCoveredOnce
  BudgetHolds
  ArraysDescribeTheMesh
CHECK_DEADLOCK FALSE
