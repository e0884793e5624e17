CONSTANTS
  Bases = {3, 7}
  Rows = 8
  Tables <- MCTables
  Plain = {0, 4, 260}
  Second <- MCSecond
  Prime = 10007
  Blind = 37
  Divisions <- MCDivisions
  Roots <- MCRoots
  Libraries = {"SEAL", "OpenFHE"}
SPECIFICATION Spec
INVARIANTS
  SelectsRows
  AnswersQuery
PROPERTIES
  DivideConverges
CHECK_DEADLOCK FALSE
