\* Five keys that share a bucket until the table grows.
SPECIFICATION Spec
CONSTANTS
  k1 = k1  k2 = k2  k3 = k3  k4 = k4  k5 = k5
  Keys <- const_Keys
  v1 = v1  v2 = v2
  Values = {v1, v2}
  NoKey = NoKey
  Hash <- const_Hash
SYMMETRY Symmetry
PROPERTY ImplementsDictionary
