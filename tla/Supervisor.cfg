CONSTANTS
  Execs = {1, 2}
  Spawns = {1, 2}
  Pids = {1, 2}
  Races = FALSE
SPECIFICATION FairSpec
INVARIANT OneProcess OffWhenIdle
PROPERTY KeepsRunning StopsInTheEnd
CHECK_DEADLOCK FALSE
