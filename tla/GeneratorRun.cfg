CONSTANTS
  Runs <- MCRuns
  Cpus = 2
  Names = {n1, n2, n3}
SPECIFICATION Spec
INVARIANTS
  TypeOK
  FilesAreOwn
  NothingRunsOn
  FilesLeft
PROPERTIES
  Exits
  ReplacesAsAWhole
CHECK_DEADLOCK FALSE
