\* Two reliable messages over one connection that may close and open again.
SPECIFICATION FairSpec
CONSTANTS
  m1 = m1  m2 = m2  m3 = m3
  c1 = c1  c2 = c2
  p1 = p1  p2 = p2
  NoMessage = NoMessage
  NoConn = NoConn
  Messages <- const_Two
  LinkLevel = {}
  Reliable <- const_Two
  Bulk = {}
  Hooked <- const_Two
  Conns <- const_OneConn
  Bluetooth = {}
  Packages <- const_TwoPackages
  BigEndian = FALSE
  MAX_QUEUE_SIZE = 2
  PENDING_MAX_RETRIES = 0
  MAX_ACK_PACKAGES = 2
  LOOPINFO_SIZE = 12
INVARIANTS TypeOK SuccessMeansDelivered DeliveredOnce UnansweredIsHeld
PROPERTIES OnlyRefusalsMislay ImplementsService
CHECK_DEADLOCK FALSE
