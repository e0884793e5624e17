CONSTANTS
  MaxNode = 14
  Programs <- MCPrograms
  Passes <- MCPasses
  Values <- MCValues
  Plus <- MCPlus
  Zero = 0
  Times <- MCTimes
  Unit = 1
  Negative <- MCNegative
SPECIFICATION Spec
INVARIANTS
  VisitsEachOnce
  ValuePreserved
  TypesExact
  BinaryAgain
  NoDeadCode
  DepthExact
  ReleaseEmpties
PROPERTIES
  OperandsFirst
CHECK_DEADLOCK FALSE
