\* Two messages to a receiver with two buffers for both.
SPECIFICATION Spec
CONSTANTS
  short = short  long = long
  Messages <- const_Messages
  LenOf <- const_LenOf
  q1 = q1  q2 = q2
  SeqIds = {q1, q2}
  NBuffers = 2
SYMMETRY SeqSymmetry
INVARIANTS ToldWhenAnswered SuccessMeansAssembled InBounds WholeUnlessShared BuffersDistinct
CHECK_DEADLOCK FALSE
