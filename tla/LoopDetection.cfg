SPECIFICATION Spec
CONSTANTS
  Ids <- const_Ids
  LOOPINFO_SIZE = 4
  HASH_SIZE = 2
INVARIANTS RepeatedIffRemembered PrevPointersExact ChainsEnd
PROPERTY ImplementsMemory
