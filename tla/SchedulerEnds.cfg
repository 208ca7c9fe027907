SPECIFICATION FairSpec
CONSTANTS
  a = a
  b = b
  c = c
  S = S
  T = T
  server = server
  NoResource = NoResource
  Free = Free
  Runs <- MCTwo
  Sessions <- MCTwoSessions
  SessionOf <- MCSessionOf
  Resources <- MCResources
  ResourceOf <- MCAllFinite
  MaxJobs = 1
  MaxWaiting = 2
  Crashable <- MCOnlyA
  Signalable <- MCTwo
  Forking <- MCOnlyA
  Agents <- MCAgentA
  Recycling <- MCOnlyA
  Failing <- MCNobody
  Pausing = FALSE
PROPERTIES CancelHonoured DeadEntriesPruned EveryRunEnds
CHECK_DEADLOCK FALSE
