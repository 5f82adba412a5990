SPECIFICATION Spec
CONSTANTS
  Tables <- MCTables
  Columns <- MCColumns
  RowIds = {1, 2}
  MaxWidth = 2
  Rounding = {1, 2}
  Texts = {}
  Asked <- MCAsked
  Constraints <- MCConstraints
  Bare <- MCBare
  MaxSteps = 3
  Decisions <- NarrowAndDrop
  InitialDbs <- FitDbs
  MaxRuns = 1
  MaxWrites = 1
  MaxHolds = 0
  MaxCleanups = 0
PROPERTIES DropsAreBackedUp
CHECK_DEADLOCK FALSE
