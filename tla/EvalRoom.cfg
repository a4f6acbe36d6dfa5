CONSTANTS
  Callers = {c1, c2}
  Requests <- FewRequests
  HeapLimit = 34
  MayFail = FALSE
SPECIFICATION Spec
INVARIANTS
  EnoughRoomSuffices
