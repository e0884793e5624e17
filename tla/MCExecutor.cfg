CONSTANTS
  MaxNode = 8
  Programs <- MCPrograms
SPECIFICATION Spec
INVARIANTS
  OperandsIntact
  DeliversUnlessFaulty
PROPERTIES
  Implements
CHECK_DEADLOCK FALSE
