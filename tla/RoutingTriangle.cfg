SPECIFICATION Spec
CONSTANTS
  Peis = {1, 2, 3}
  Links <- Triangle
  METRIC_COST = 1
  METRIC_GIVEUP = 4
  DELETED = 251
  MaxSeq <- ThreeUpTo1
  MaxQueue = 1
  HostInfos = {}
  Restarting = {}
  MaxRestarts = 0
CHECK_DEADLOCK FALSE
INVARIANTS
  TypeOK
  RouteBackedByTable
  OwnRoute
  SeqHonest
  ClusterCurrent
PROPERTIES
  RouteSwitchImproves
