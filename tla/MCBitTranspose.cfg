CONSTANTS
  Jobs <- MCJobs
  Builds <- MCBuilds
SPECIFICATION TransSpec
INVARIANTS
  BuffersOK
  Transposed
  Restored
