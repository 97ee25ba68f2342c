SPECIFICATION FairSpec
CONSTANTS
  NoEngine = NoEngine
  NoOne = NoOne
  Sources = {1, 2, 3, 4, 5}
  Clusters = {1}
  Configs = {0, 1}
  NoConfig = 0
  MaxCreates = 1
  MaxDeletes = 1
  Reconcilers = {r1}
  First = {r1}
  Shard <- AllSources
  DefaultCluster = 1
  Fleets <- LifeFleets
  Requests <- LifeRequests
  LifecycleTargets = {"PAUSED", "ACTIVE"}
  Offers <- LifeOffers
  MaxGen = 1
  MaxFaults = 1
INVARIANTS TypeOK
PROPERTIES WantedConnectorsStay WantedSlotsStay FreshGenerations ImplementsLife Converges
CHECK_DEADLOCK FALSE
