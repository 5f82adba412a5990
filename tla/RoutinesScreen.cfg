SPECIFICATION RSpec
CONSTANTS
  ProfileOrder <- MCProfiles
  SortedProfiles <- MCSorted
  RoutineNames = {"p", "q"}
  Excluded = {}
  InitialModules <- MCModules
  Changing <- MCChanging
  MaxOpens = 2
  MaxStarts = 2
  MaxEvents = 1
INVARIANTS TypeOK PlanIsCurrent ClaimsOnlyCommitted
PROPERTIES SignaturesKept BusyEnds RepairsSkipSigned
CHECK_DEADLOCK FALSE
