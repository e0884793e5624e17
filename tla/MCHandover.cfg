CONSTANTS
  Libraries = {"SEAL", "OpenFHE"}
  Server = s
  Owner = o
  Reader = r
  Handle <- MCHandle
  Builder <- MCBuilder
  Name = {x, y}
  Para <- MCPara
  Calls <- MCCalls
  MaxKey = 1
  MaxVersion = 1
  MaxLibs = 4
  MaxTexts = 12
SPECIFICATION HandoverSpec
INVARIANTS
  NoCrash
  ReadsRight
PROPERTIES
  EventuallyRead
