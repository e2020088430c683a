SPECIFICATION Spec
CONSTANTS
  Files <- MCFiles
  Versions <- MCVersions
  Commands <- MCCommands
  Source <- MCSource
  Includes <- MCIncludes
  CompDbs <- MCCompDbs
  InitialProjects <- MCInitialProjects
  KeysInTables = FALSE
  Threads = 2
  Thresholds = {30, 100}
  Faults = {"crash", "deadlock", "dberror"}
  MaxRuns = 3
  MaxEdits = 1
INVARIANT InSync
INVARIANT AstMatchesStored
INVARIANT FileMetricsComplete
PROPERTY CleanedAfterDependants
PROPERTY DryRunReadOnly
PROPERTY RunEnds
CHECK_DEADLOCK FALSE
