SPECIFICATION Spec
CONSTANTS
  Peis = {1, 2, 3}
  Links <- Line
  METRIC_COST = 1
  METRIC_GIVEUP = 4
  DELETED = 251
  MaxSeq <- TwoUpTo2
  MaxQueue = 1
  HostInfos <- OneAboutThree
  Restarting = {3}
  MaxRestarts = 1
CHECK_DEADLOCK FALSE
INVARIANTS
  LostMeansNowhere
  OfferedIsKnown
