\* The decision screen and the files it leaves.
SPECIFICATION Spec
CONSTANTS
    ProfileOrder <- MCProfileOrder
    Provider <- MCProvider
    Session <- MCSession
    Alphabet <- MCAlphabet
    Fold <- MCFold
    Key <- MCKey
    Losing <- MCLosing
    Invalid <- MCInvalid
    FoldPiece <- MCFoldPiece
    Comparisons <- MCComparisons
    Nameless = {"nodb"}
    Spelling <- MCSpelling
    FillValues = {"one"}
    MaxEdits = 3
    MaxFailures = 1
    MaxClock = 1
INVARIANTS TypeOK DropsWereConfirmed ReportedIsComplete StepsFitTheComparison DecidedFindingsGo OnlyTickedChange
CHECK_DEADLOCK FALSE
