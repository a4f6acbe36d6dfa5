CONSTANTS
  Callers = {c1}
  Requests <- AllRequests
  HeapLimit = 100
  MayFail = TRUE
SPECIFICATION Spec
INVARIANTS
  TypeOK
  NoFreedBlockUsed
  NothingHeldWhenIdle
  NoBlockForgotten
PROPERTIES
  ML25WritesOnlyWhenSure
  KeepsContract
