SPECIFICATION Spec
CONSTANTS
  Files <- MCFiles
  Versions <- MCVersions
  Commands <- MCCommands
  Source <- MCSource
  Includes <- MCIncludes
  CompDbs <- MCCompDbs
  InitialProjects <- MCInitialProjects
  KeysInTables = FALSE
  Threads = 2
  Thresholds = {30, 100}
  Faults = {"deadlock"}
  MaxRuns = 2
  MaxEdits = 1
INVARIANT CleanupComplete
CHECK_DEADLOCK FALSE
