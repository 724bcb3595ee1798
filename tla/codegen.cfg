SPECIFICATION SpecEither
CONSTANTS
  WordBits = 4
  HalfBits = 3
  ByteBits = 2
  Fuel = 1
  Labels = {L1, L2}
  None = None
  L1 = L1
  L2 = L2
  Spilled = Spilled
  ScratchRegs = {"r11"}
  Functions <- Legalized
  Symbols <- SymbolsOf
  Homes <- HomesOf
  Inputs <- Memories
  NumVRegs = 4
  MaxPos = 4
  NumGp = 1
  NumScratch = 1
  NumFp = 0
  Shapes <- AllShapes
  CallSets <- OneCall
  Bases <- FrameBases
INVARIANTS
  ValuesWhereBelieved
  TextMeansFunction
  RegistersAreSound
  FrameIsSound
PROPERTIES
  SlotsTakenFromTheDead
