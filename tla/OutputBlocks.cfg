CONSTANTS
  Calls <- MCCalls
  MaxTemporaries = 1
SPECIFICATION BlocksSpec
INVARIANTS OrdersAgree AddedOnce AssignmentsKept
CHECK_DEADLOCK FALSE
