CONSTANTS
  Callers = {c1, c2}
  Requests <- EquivalentRequests
  HeapLimit = 20
  MayFail = TRUE
SPECIFICATION Spec
INVARIANTS
  ContractionEquivalentToEval
