\* Four scenes published in any order, thrown out of wherever every key stays true.
SPECIFICATION Spec
CONSTANTS
  None = None
  sheet = sheet
  bent = bent
  hair = hair
  blown = blown
  mist = mist
  bark = bark
  snow = snow
  sky = sky
  dusk = dusk
  push = push
  pull = pull
  cutout = cutout
  wood = wood
  ice = ice
  Addresses = {a1, a2, a3}
  Meshes = {sheet, bent, hair, blown}
  Curves = {hair, blown}
  Clouds = {mist}
  Images = {bark, snow, sky, dusk}
  Programs = {push, pull}
  Libraries = {cutout}
  Displacers = {wood, ice}
  ProgramOf <- AllPrograms
  SlotsOf <- AllSlots
  TopologyOf <- AllTopologies
  Scenes <- AllScenes
  Faults <- KeyedFaults
SYMMETRY Interchangeable
INVARIANTS
  HeldIsItsGeometry
  EachStructureHasOneOwner
  HitFindsItsGeometry
  BuildsBesideWantedOnly
  PoolHoldsItsKey
  PublishesWhatItWasGiven
PROPERTIES
  ReorderBuildsNothing
