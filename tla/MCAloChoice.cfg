CONSTANTS
  Child = {c1, c2}
  Group = group
  Scales = {}
  MaxDepth = 15
  MaxConditions = 4
SPECIFICATION Spec
INVARIANT SealFits
CHECK_DEADLOCK FALSE
