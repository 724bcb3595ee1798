SPECIFICATION Spec
CONSTANTS
  Programs <- MCPrograms
  MaxTokens = 20
INVARIANTS
  MatchesRescanning
PROPERTIES
  ExpansionEnds
CHECK_DEADLOCK FALSE
