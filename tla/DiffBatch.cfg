SPECIFICATION Spec
CONSTANTS
  Engines = {"postgres", "mysql"}
  Schemas <- MCSchemas
  RowSets <- MCRowSets
  RowCaps = {2}
  ColumnTypes <- MCColumnTypes
INVARIANT OrderIsSafe
INVARIANT SecondPassIsIndexes
INVARIANT RowsConverge
CHECK_DEADLOCK FALSE
