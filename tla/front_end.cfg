SPECIFICATION SpecEither
CONSTANTS
  WordBits = 8
  HalfBits = 4
  Fuel = 1
  Iterations = 20
  Labels = {L1}
  L1 = L1
  None = None
  Idents = {"x", "y", "i", "c", "d", "h", "k", "u", "l", "v", "b", "a", "p", "s", "sp", "S", "m", "n", "f", "g"}
  NumberTokens <- Numbers
  Null = Null
  Tombstone = Tombstone
  \* All three collide on the last bucket of four and wrap around; of eight
  \* buckets, 3 and 11 collide on one and 7 starts at the last.
  Keys = {3, 7, 11}
  Values = {1, 2}
  Hash <- KeyIsHash
  InitSize = 4
INVARIANTS BodiesMean TypesMean LayoutIsPsABI ConstantsMean InitializersMean EmittedOnce SearchesEnd PresentKeysFound
CHECK_DEADLOCK FALSE
