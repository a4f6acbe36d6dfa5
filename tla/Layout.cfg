CONSTANTS
  N25 = 2
  N26 = 3
  MaxPoints = 3
  MaxComponents = 3
  Shapes <- SmallShapes
SPECIFICATION Spec
INVARIANTS
  InBounds
  LayoutCorrect
PROPERTIES
  ReplacedBySame
CHECK_DEADLOCK FALSE
