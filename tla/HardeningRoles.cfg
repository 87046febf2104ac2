SPECIFICATION EngineSpec
CONSTANTS
  Clusters <- SameNameClusters
  Profiles = {"zeal-default"}
  Packs <- MCPacks
  Waivers <- MCWaivers
  Required = {"configmaps", "secrets"}
  NeededCaps = {"SYS_ADMIN"}
  MaxTime = 1
INVARIANT RoleFindingsAreItsOwn
CHECK_DEADLOCK FALSE
