SPECIFICATION FairSpec
CONSTANTS
  Tables <- MCTables
  Columns <- MCColumns
  RowIds = {1, 2}
  MaxWidth = 2
  Rounding = {1, 2}
  Texts = {}
  Asked <- MCAsked
  Constraints <- MCConstraints
  Bare <- MCBare
  MaxSteps = 3
  Decisions <- FewDecisions
  InitialDbs <- FewDbs
  MaxRuns = 2
  MaxWrites = 1
  MaxHolds = 1
  MaxCleanups = 1
INVARIANTS OnlyLockedTablesDiffer
PROPERTIES PromiseKept RunsEnd
CHECK_DEADLOCK FALSE
