SPECIFICATION FairSpec
CONSTANTS
  a = a
  b = b
  c = c
  K = K
  L = L
  Free = Free
  Supervisors <- MCThree
  KeyOf <- MCTwoKeys
  Early = 1
  Valid = 2
  Handoff = 1
  Crashable <- MCOnlyA
  Failing <- MCOnlyA
INVARIANTS TypeOK
PROPERTIES WaitsEnd PublishedInOrder
