\* One column, its values and the step that changes its definition.
SPECIFICATION Spec
CONSTANTS
    Changes <- MCChanges
    Drifted <- MCDrifted
    Contents <- MCContents
INVARIANTS TypeOK OnlyAcceptedLoss NothingInvented ChecksForesee
CHECK_DEADLOCK FALSE
