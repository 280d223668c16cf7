CONSTANTS
  Hosts = {a, b}
  Autohosts = {1}
  MAX_CONNECTIONS = 3
  MAX_AUTO = 2
  MAX_FORCED = 3
  MAX_ID = 3
  MAX_LIVES = 2
  Moving = FALSE
  Desperate = FALSE
SPECIFICATION Spec
INVARIANT MarkNamesConnection
