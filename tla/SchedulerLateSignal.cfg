SPECIFICATION FairSpec
CONSTANTS
  a = a
  b = b
  c = c
  S = S
  T = T
  server = server
  NoResource = NoResource
  Free = Free
  Runs <- MCTwo
  Sessions <- MCTwoSessions
  SessionOf <- MCSessionOf
  Resources <- MCResources
  ResourceOf <- MCAllFinite
  MaxJobs = 1
  MaxWaiting = 2
  Crashable <- MCNobody
  Signalable <- MCTwo
  Forking <- MCNobody
  Agents <- MCNoAgents
  Recycling <- MCNobody
  Failing <- MCNobody
  Pausing = FALSE
PROPERTY CancelledNeverStarts
CHECK_DEADLOCK FALSE
