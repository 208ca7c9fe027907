SPECIFICATION Spec
CONSTANTS
  a = a
  b = b
  c = c
  S = S
  T = T
  server = server
  NoResource = NoResource
  Free = Free
  Runs <- MCTwo
  Sessions <- MCTwoSessions
  SessionOf <- MCSessionOf
  Resources <- MCResources
  ResourceOf <- MCAllFinite
  MaxJobs = 1
  MaxWaiting = 2
  Crashable <- MCOnlyA
  Signalable <- MCOnlyB
  Forking <- MCOnlyA
  Agents <- MCNoAgents
  Recycling <- MCOnlyA
  Failing <- MCOnlyB
  Pausing = TRUE
INVARIANTS TypeOK WorkAccounted OwnEntry FinishedMeansEmpty SlotBound WithheldNeverRuns
PROPERTY Refinement
CHECK_DEADLOCK FALSE
