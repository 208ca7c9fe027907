SPECIFICATION UpkeepSpec
CONSTANTS
  pidA = pidA
  pidB = pidB
  pidC = pidC
  pidX = pidX
  pidRoot = pidRoot
  pidChild = pidChild
  boxS = boxS
  boxT = boxT
  row1 = row1
  row2 = row2
  row3 = row3
  delivery = delivery
  measured = measured
  job1 = job1
  job2 = job2
  text1 = text1
  text2 = text2
  textBad = textBad
  inst1 = inst1
  inst2 = inst2
  agent1 = agent1
  agent2 = agent2
  prob1 = prob1
  prob2 = prob2
  Pids <- MCPids
  Init1 = launchd
  Uses = 2
  Moves = 2
  RecoveryGrace = 3
  Lease = 2
  Fresh = 1
  Claimant = pidC
  Agent = pidA
  Runner = pidX
  Root = pidRoot
  Child = pidChild
  Scopes <- MCScopes
  Origin = pidA
  Guests = {pidB}
  Services = {boxS, boxT}
  OrphanGrace = 2
  Observation = 1
  Trouble = 2
  Events <- MCEvents
  KindOf <- MCKindOf
  JobOf <- MCJobOf
  WallOf <- MCWallOf
  Exported = {delivery}
  Legacy = {row1}
  NoEvent = NoEvent
  Backlog = 2
  InboxSize = 1
  RawDays = 1
  CheckpointDays = 2
  RawRows = 2
  JobsKept = 1
  Batch = 2
  Sends = 4
  Days = 3
  Roles = {"queue", "feedback"}
  Others = {"x"}
  Generated <- MCGenerated
  GroupLimit = 2
  Width = 2
  Upgrades = 1
  Installers = {inst1, inst2}
  Files <- MCFiles
  Dirs <- MCDirs
  DirOf <- MCDirOf
  Texts = {text1, text2, textBad}
  Malformed = {textBad}
  Edits = 1
  Faults = 1
  Attempts = 1
  Unowned = Unowned
  Agents = {agent1, agent2}
  Problems = {prob1, prob2}
  Reportings = 4
  Changes = 2
  NoAgent = NoAgent
  queuedJob = queuedJob
  chat1 = chat1
  chat2 = chat2
  Work = {queuedJob}
  Keys = {chat1, chat2}
  NoKey = NoKey
  KeyOf <- MCKeyOf
  WorkKinds <- MCWorkKinds
INVARIANTS UpkeepTypeOK StoppedIsFinal HistoryExact InstallationWhole OnePost AnswersTrue
PROPERTIES GraceUninterrupted WholeAttempt DisposalJustified MergeExact EditsKept
CHECK_DEADLOCK FALSE
