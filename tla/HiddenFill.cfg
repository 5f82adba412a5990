\* A fill value typed for one definition ends in the script of another.
SPECIFICATION Spec
CONSTANTS
    ProfileOrder <- MCProfileOrder
    Provider <- MCProvider
    Session <- MCSession
    Alphabet <- MCAlphabet
    Fold <- MCFold
    Key <- MCKey
    Losing <- MCLosing
    Invalid <- MCInvalid
    FoldPiece <- MCFoldPiece
    Comparisons <- FillComparison
    Nameless = {"nodb"}
    Spelling <- MCSpelling
    FillValues = {"one"}
    MaxEdits = 4
    MaxFailures = 1
    MaxClock = 1
INVARIANT NoHiddenFill
CHECK_DEADLOCK FALSE
