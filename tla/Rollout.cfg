SPECIFICATION Spec
CONSTANTS
  NoURI = NoURI
  Specs <- RolloutSpecs
  Bases <- RolloutBases
INVARIANTS
  TypeOK
  UserOverridesBase
  ModelReachable
  VolumesFollowURI
  RefusalExplained
  GatewaysAttached
PROPERTIES
  UpdateSettles
CHECK_DEADLOCK FALSE
