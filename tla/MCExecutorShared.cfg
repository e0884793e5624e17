CONSTANTS
  MaxNode = 8
  Programs <- MCSharedPrograms
SPECIFICATION Spec
INVARIANTS
  EveryOutputDelivered
CHECK_DEADLOCK FALSE
