\* The findings browser, its comparisons and its reports.
SPECIFICATION FairSpec
CONSTANTS
    Profiles = {"a", "b"}
    Exclusions = {"none", "log"}
    AtLaunch = "none"
    Findings <- MCFindings
    Outcomes <- MCOutcomes
    Consolidable <- MCConsolidable
    Texts <- MCTexts
    NoText = ""
    Matches <- MCMatches
    MaxRuns = 2
    MaxReports = 2
    MaxScreens = 1
    MaxClock = 1
INVARIANTS TypeOK FolderOfOneResult FilterHides
PROPERTIES NewestIsShown BusyEnds
CHECK_DEADLOCK FALSE
