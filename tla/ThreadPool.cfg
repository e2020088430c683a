SPECIFICATION Spec
CONSTANTS
  ThreadCount = 3
  NoJob = NoJob
  Jobs = {j1, j2, j3}
INVARIANTS ExactlyOnce WaitDrains
PROPERTY ImplementsPool
