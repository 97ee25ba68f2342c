SPECIFICATION Spec
CONSTANTS
  NoEngine = NoEngine
  NoOne = NoOne
  Sources = {1}
  Clusters = {1}
  Configs = {0, 1}
  NoConfig = 0
  MaxCreates = 1
  MaxDeletes = 1
  Reconcilers = {r1}
  First = {r1}
  Shard <- AllSources
  DefaultCluster = 1
  Fleets <- Returning
  Requests <- ReturnRequests
  LifecycleTargets = {}
  Offers <- ReturnOffers
  MaxGen = 1
  MaxFaults = 0
PROPERTY FreshGenerations
CHECK_DEADLOCK FALSE
