\* A reliable, a link level and a large message; queues, pool and loop detection at their limits.
SPECIFICATION Spec
CONSTANTS
  m1 = m1  m2 = m2  m3 = m3
  c1 = c1  c2 = c2
  p1 = p1  p2 = p2
  NoMessage = NoMessage
  NoConn = NoConn
  Messages <- const_Three
  LinkLevel <- const_Second
  Reliable <- const_First
  Bulk <- const_Third
  Hooked <- const_Three
  Conns <- const_TwoConns
  Bluetooth <- const_OneConn
  Packages <- const_TwoPackages
  BigEndian = TRUE
  MAX_QUEUE_SIZE = 1
  PENDING_MAX_RETRIES = 0
  MAX_ACK_PACKAGES = 2
  LOOPINFO_SIZE = 2
INVARIANTS PackageHeldOnce HookCalledOnce
PROPERTY QuietOnceAnswered
CHECK_DEADLOCK FALSE
