SPECIFICATION EngineSpec
CONSTANTS
  Clusters <- MCClusters
  Profiles = {"zeal-default", "cis"}
  Packs <- MCPacks
  Waivers <- MCWaivers
  Required = {"configmaps", "secrets"}
  NeededCaps = {"SYS_ADMIN"}
  MaxTime = 1
INVARIANTS EnablersFired WebhookAgrees OneStory
PROPERTIES FixClears FixesOnlyHelp FixesReachZero RescansHonest
CHECK_DEADLOCK FALSE
