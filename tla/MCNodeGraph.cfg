CONSTANTS
  MaxNode = 4
  Vector <- MCVector
  Name = {a}
  Assigned <- MCAssigned
  Slots <- MCSlots
SPECIFICATION Spec
INVARIANTS
  TypeOK
  UsesMirrorOperands
  NoDanglingPointer
  SinksExact
  SourcesExact
  TextRoundTrip
  OutputsHaveOneOperand
CHECK_DEADLOCK FALSE
