SPECIFICATION Spec
CONSTANTS
  ProfileOrder <- MCProfiles
  Provider <- MCProvider
  Session <- MCSession
  Alphabet <- MCAlphabet
  Fold <- MCFold
  Catalogs <- MCCatalogs
  Selections <- MCSelections
  Exclusions <- MCExclusions
  MaxChanges = 1
INVARIANTS TypeOK FindingsAreTheDifferences FilterOnlyHides
CHECK_DEADLOCK FALSE
