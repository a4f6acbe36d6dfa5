CONSTANTS
  Handles = {h1, h2}
  Blocks = {b1, b2}
SPECIFICATION HandleSpec
INVARIANTS
  HandleTypeOK
  HandlesOwnTheirBlocks
  AnswersMatchMetadata
PROPERTIES
  LostOnlyByReinit
