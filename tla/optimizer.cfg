SPECIFICATION Spec
CONSTANTS
  WordBits = 4
  HalfBits = 2
  Fuel = 1
  MaxIter = 3
  Labels = {L1, L2}
  None = None
  L1 = L1
  L2 = L2
  Programs <- Lowered
  Inputs <- Memory
INVARIANTS BehaviourPreserved PassesConverge
CHECK_DEADLOCK FALSE
