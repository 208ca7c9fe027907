SPECIFICATION StorySpec
CONSTANTS
  a = a
  b = b
  Supervisors <- MCTwo
  Settle = 1
  Recovery = 2
  Sustained = 2
  Readings <- MCPaging
  Unlabelled = TRUE
  Pausing = TRUE
  MaxTime = 5
  MaxBoots = 2
  StartsTime = 3
  Stories = {"starts", "pressure"}
SYMMETRY MCSymmetry
INVARIANT TypeOK
PROPERTIES StartSpacing RecoveryWindow
CHECK_DEADLOCK FALSE
