SPECIFICATION Spec
CONSTANTS
  A = A
  B = B
  a = a
  b = b
  project = project
  server = server
  Agents <- MCAgents
  Sessions <- MCSessions
  AgentOf <- MCAgentOf
  ProjectOf <- MCProjectOf
  Helpers <- MCHelpers
  OwnerOf <- MCOwnerOf
  DevServers <- MCHelpers
  Parents <- MCFirstSession
  Stopping <- MCNobody
  Failing <- MCNobody
  Ending <- MCSecondAgent
  Racing = TRUE
  Grace = 2
  LockWait = 1
  Passes = 3
PROPERTY ProjectRespected
