CONSTANTS
  MaxOrder = 3
  SizeBits = 10
  Inputs <- AllInputs
  Entries <- AllEntries
SPECIFICATION Spec
INVARIANTS
  SizedIffEvaluated
  WritesTheToldSize
  ReadsItsBuffer
  SizeCountsComponents
CHECK_DEADLOCK FALSE
