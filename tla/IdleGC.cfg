SPECIFICATION Spec
CONSTANTS
  A = A
  B = B
  a = a
  b = b
  project = project
  server = server
  Agents <- MCAgents
  Sessions <- MCSessions
  AgentOf <- MCAgentOf
  ProjectOf <- MCProjectOf
  Helpers <- MCHelpers
  OwnerOf <- MCOwnerOf
  DevServers <- MCHelpers
  Parents <- MCFirstSession
  Stopping <- MCFirstSession
  Failing <- MCSecondSession
  Ending <- MCSecondAgent
  Racing = FALSE
  Grace = 2
  LockWait = 1
  Passes = 2
CONSTRAINT Unmarked
INVARIANT TypeOK
PROPERTIES IdleWhenGranted GraceHonoured ProjectRespected
