SPECIFICATION Spec
CONSTANTS
  NumVRegs = 4
  MaxPos = 4
  NumGp = 1
  NumScratch = 1
  NumFp = 0
  Shapes <- AllShapes
  CallSets <- NoCalls
  Bases <- FrameBases
INVARIANTS
  SharedSlotsApart
