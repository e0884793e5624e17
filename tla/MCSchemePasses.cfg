CONSTANTS
  MaxNode = 26
  Programs <- MCPrograms
  Modulus = 13
  Rotation = 7
  Configs <- MCConfigs
  StdParms <- MCStdParms
SPECIFICATION Spec
INVARIANTS
  ValidateSilent
  EncodesMatch
  RelinearizedInTime
  ParametersLast
  ComputesProgram
CHECK_DEADLOCK FALSE
