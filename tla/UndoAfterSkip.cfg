SPECIFICATION Spec
CONSTANTS
  Tables <- MCTables
  Columns <- MCColumns
  RowIds = {1, 2}
  MaxWidth = 5
  Rounding = {1, 2, 5}
  Texts = {3, 4}
  Asked <- MCAsked
  Constraints <- MCConstraints
  Bare <- MCBare
  MaxSteps = 3
  Decisions <- AllDecisions
  InitialDbs <- AllDbs
  MaxRuns = 2
  MaxWrites = 0
  MaxHolds = 0
  MaxCleanups = 0
INVARIANTS UndoRestoresAfterSkip
CHECK_DEADLOCK FALSE
