SPECIFICATION SpecEither
CONSTANTS
  GP_MAX = 3
  FP_MAX = 2
  MaxArgs = 4
  Calls <- AgreedCalls
  Win64Calls <- MCWin64Calls
INVARIANTS LayoutsAgree ArgumentsArrive VariadicArrive Win64Delivers Win64Returns
