CONSTANTS
  Child = {c1, c2}
  Group = group
  MaxIndex = 5
  MaxGrow = 2
  Scale = {30, 40}
  DefaultScale = 30
SPECIFICATION ReloadingSpec
INVARIANTS
  IndicesDisjoint
CHECK_DEADLOCK FALSE
