SPECIFICATION Spec
CONSTANTS
  WordBits = 4
  HalfBits = 3
  Fuel = 11
  Iterations = 8
  MaxPasses = 4
  Levels = {0, 1, 2}
  Labels = {L1, L2, L3, L4, L5}
  None = None
  L1 = L1
  L2 = L2
  L3 = L3
  L4 = L4
  L5 = L5
  Functions <- Small
  Handwritten <- ByName
  Inputs <- Memory
INVARIANTS MeaningPreserved AllocatableCode ReachesFixedPoint
CHECK_DEADLOCK FALSE
