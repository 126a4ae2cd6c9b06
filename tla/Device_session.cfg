\* Two delegates of a process, one after the other, on each of three machines.
SPECIFICATION Spec
CONSTANTS
  None = None
  Keys <- Variables
  Flags = {"trace"}
  DeviceKey = "device"
  Environments <- TwoEnvironments
  Hosts <- FewHosts
  Machines <- SomeMachines
  Pipelines = {"extend"}
  Images = {"placeholder"}
  Buffers = {"tables"}
  Ids = {1, 2, 3, 4, 5, 6}
  MaxDelegates = 2
  Faults = {"refuse", "lose"}
INVARIANTS
  EveryHandleHasOneOwner
  ParentsOutliveChildren
  ChoosesWhatWasProbed
CHECK_DEADLOCK FALSE
