CONSTANTS
  Child = {c1, c2, c3}
  Group = group
  MaxIndex = 5
  MaxGrow = 2
  Scale = {30, 40}
  DefaultScale = 30
SYMMETRY Symmetry
SPECIFICATION Spec
INVARIANTS
  TypeOK
  IndicesDisjoint
  MapsCoverNodes
PROPERTIES
  CountersMonotonic
  SharesPool
CHECK_DEADLOCK FALSE
