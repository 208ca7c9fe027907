SPECIFICATION MeasurementSpec
CONSTANTS
  pidL = pidL
  pidM = pidM
  pidN = pidN
  job1 = job1
  job2 = job2
  task1 = task1
  task2 = task2
  task3 = task3
  probe1 = probe1
  Pids <- MCPids
  Init1 = launchd
  Uses = 2
  Leader = pidL
  Births = 2
  Gap = 0
  Registered = pidL
  Forks = 2
  Usages <- MCUsages
  Request = 8
  Window = 2
  Startup = 1
  Horizon = 4
  Jobs <- MCJobs
  Revisions = {1, 2}
  Workers = {1, 2}
  Sizes <- MCSizes
  Prior = 20
  Runs = 4
  Upsets = 1
  Tasks <- MCTasks
  MemoryOf <- MCMemoryOf
  Trees <- MCTrees
  Probes <- MCProbes
  Policies <- MCPolicies
  Memory = 5
  Elsewhere = 1
  SharedPages = 1
  InactivePages = 1
CONSTRAINT Undecided
INVARIANTS MeasurementTypeOK CertifiedMeansMeasured OwnTreeMeasured AllowanceCoversPeaks NothingOvercommitted
PROPERTIES RequestCoversGrowth
CHECK_DEADLOCK FALSE
