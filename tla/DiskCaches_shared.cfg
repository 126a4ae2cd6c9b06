\* Three threads of two processes compile, save, are killed and start again, on a disk that fails.
SPECIFICATION FairSpec
CONSTANTS
  None = None
  Failed = Failed
  one = one
  two = two
  w1 = w1
  w2 = w2
  w3 = w3
  Processes = {one, two}
  Workers = {w1, w2, w3}
  ProcessOf <- AllProcesses
  Sources = {kernel, broken}
  Invalid = {broken}
  Builds = {old, new}
  DiskFaults = TRUE
  MaxAsks = 2
  MaxEnds = 1
  MaxDamage = 1
INVARIANTS
  EntriesAreWhole
  SavedIsOneSession
PROPERTIES
  MemoSpec
CHECK_DEADLOCK FALSE
