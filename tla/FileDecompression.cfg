\* Up to three jobs on two files, a fault at any step
CONSTANTS
  MaxJobs = 3
  MaxFiles = 2
  MaxBlocks = 2
  FaultPoints = {"launch", "open", "decode", "write", "escape"}
SPECIFICATION Spec
INVARIANTS
  TypeOK
  SuccessMeansAll
  OneWorkerPerFile
  TasksWithinJobs
  NothingInFlight
PROPERTIES
  NoFileAfterClear
  RunReturns
