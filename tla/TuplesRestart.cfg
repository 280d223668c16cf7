CONSTANTS
  o = o
  s = s
  a = a
  P = P
  AnyHost = AnyHost
  Hosts = {o, s}
  Names = {a}
  OwnerOf <- OneName
  Prototypes = {P}
  Covers <- NoNames
  TargetOf <- ToAnyone
  Typed = {}
  Interests <- OthersWant
  BigEndian = TRUE
  TRIES = 4
  Uses = {"delete", "unsubscribe"}
  MaxWrites <- TwoWrites
  Mishaps = {"fail", "crash", "refuse", "lose", "shutdown", "drop"}
  MaxMishaps = 2
SPECIFICATION Spec
INVARIANT TypeOK GivenMeansSubscribed
CHECK_DEADLOCK FALSE
