CONSTANTS
  Batches <- MCBatches
  MaxOrder <- MCMaxOrder
SPECIFICATION DefinitionsSpec
INVARIANTS TypeOK WellDefined ExactlyNeeded
PROPERTY Terminates
CHECK_DEADLOCK FALSE
