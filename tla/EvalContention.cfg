CONSTANTS
  Callers = {c1, c2}
  Requests <- FewRequests
  HeapLimit = 25
  MayFail = FALSE
SPECIFICATION Spec
PROPERTIES
  EveryCallReturns
  KeepsContract
