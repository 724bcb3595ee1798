SPECIFICATION SpecEither
CONSTANTS
  a = a
  b = b
  L1 = L1
  L2 = L2
  L3 = L3
  None = None
  VRegs = {a, b}
  Labels = {L1, L2, L3}
  ProgLen = 6
  Menu <- Emitted
  Begun <- Begins
  Analyzed <- MCAnalyzed
  MaxChanges = 1
  MaxLen = 12
  NumVRegs = 2
  MaxPos = 12
  Shapes <- Scalars
  CallSets <- EveryCallSet
  NumGp = 1
  NumScratch = 1
  NumFp = 0
  Bases <- FrameStarts
INVARIANTS
  IntervalsCoverLiveness
  LoopLivenessIsFixed
  ResultsClobberNothing
  CallsClobberNothing
  AnalysesAgreeWithPaths
  SweepsSettle
CONSTRAINT Promising
