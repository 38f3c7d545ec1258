CONSTANTS
  Keys = {k1, k2}
  Cases = {c1, c2}
  Null = Null
  Missing = Missing
  Unreadable = Unreadable
  Grid = 2
  Whole = 4
  Steps = 2
  JsonTables <- MCJsonTables
  ParquetTables <- MCParquetTables
SPECIFICATION Spec
INVARIANTS JsonGradeExact ParquetGradeExact
CHECK_DEADLOCK FALSE
