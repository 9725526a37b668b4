SPECIFICATION Spec
CONSTANTS
  Pools <- MCPools
  MaxThreads = 3
  MaxJobs = 4
  MaxBatches = 2
INVARIANTS
  Separate
PROPERTIES
  ImplementsParallelFor
  Terminates
