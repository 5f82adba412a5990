SPECIFICATION RSpec
CONSTANTS
  ProfileOrder <- MCProfiles
  SortedProfiles <- MCSorted
  RoutineNames = {"p", "q"}
  Excluded = {}
  InitialModules <- MCModules
  Changing <- MCChanging
  MaxOpens = 2
  MaxStarts = 2
  MaxEvents = 1
INVARIANT RefreshIsAlone
CHECK_DEADLOCK FALSE
