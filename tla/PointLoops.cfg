CONSTANTS
  NFeatures = 2
  Grids <- MCGrids
  DensThreshold <- MCDensThreshold
  SigmaThreshold2 <- MCSigmaThreshold2
  TauThreshold <- MCTauThreshold
SPECIFICATION Spec
INVARIANTS
  ArgumentsPhysical
  StreamingIsSum
  ContractionIsSum
CHECK_DEADLOCK FALSE
