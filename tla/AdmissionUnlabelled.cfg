SPECIFICATION StorySpec
CONSTANTS
  a = a
  b = b
  Supervisors <- MCTwo
  Settle = 1
  Recovery = 3
  Sustained = 1
  Readings <- MCPaging
  Unlabelled = TRUE
  Pausing = FALSE
  MaxTime = 6
  MaxBoots = 1
  StartsTime = 1
  Stories = {"any"}
SYMMETRY MCSymmetry
PROPERTY RecoveryWindow
CHECK_DEADLOCK FALSE
