SPECIFICATION SpecEither
CONSTANTS
  GP_MAX = 3
  FP_MAX = 2
  MaxArgs = 4
  Calls <- FramedCalls
  Win64Calls <- NoMsCalls
INVARIANT VariadicFloatsArrive
