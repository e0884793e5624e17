CONSTANTS
  MaxNode = 6
  Programs <- MCConcretePrograms
SPECIFICATION Spec
INVARIANTS
  DifferencesDelivered
CHECK_DEADLOCK FALSE
