SPECIFICATION FairSpec
CONSTANTS
  a = a
  b = b
  c = c
  S = S
  T = T
  server = server
  NoResource = NoResource
  Free = Free
  Runs <- MCThree
  Sessions <- MCTwoSessions
  SessionOf <- MCSessionOf
  Resources <- MCResources
  ResourceOf <- MCMixed
  MaxJobs = 1
  MaxWaiting = 2
  Crashable <- MCOnlyA
  Signalable <- MCNobody
  Forking <- MCNobody
  Agents <- MCNoAgents
  Recycling <- MCNobody
  Failing <- MCNobody
  Pausing = FALSE
INVARIANT OneHolder WaitingBound
PROPERTY EveryRunEnds
CHECK_DEADLOCK FALSE
