CONSTANTS
  Libraries = {"SEAL", "Concrete"}
  Handle = {a, b}
  Builder = {a}
  Name = {x}
  Para <- MCPara
  Calls <- MCCalls
  MaxKey = 2
  MaxVersion = 1
  MaxLibs = 2
  MaxTexts = 2
SPECIFICATION Spec
INVARIANTS
  TypeOK
  PairedKeys
  AdapterForLibs

  
CHECK_DEADLOCK FALSE
