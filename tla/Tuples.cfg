CONSTANTS
  o = o
  s = s
  a = a
  P = P
  AnyHost = AnyHost
  Hosts = {o, s}
  Names = {a}
  OwnerOf <- OneName
  Prototypes = {P}
  Covers <- AllNames
  TargetOf <- ToOwner
  Typed = {}
  Interests <- OthersWant
  BigEndian = FALSE
  TRIES = 4
  Uses = {"remote", "append"}
  MaxWrites <- ThreeWrites
  Mishaps = {"refuse", "fail"}
  MaxMishaps = 3
SPECIFICATION FairSpec
INVARIANT SameNumberSameValue
PROPERTY Converges ImplementsRegister
CHECK_DEADLOCK FALSE
