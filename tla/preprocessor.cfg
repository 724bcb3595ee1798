SPECIFICATION SpecOne
CONSTANTS
  Names = {"X", "E"}
  Length = 6
  Programs <- ProgramSets
  ObjectMacros <- MCMacroTable
  Identifiers <- MCIdentifiers
  Numbers <- MCNumbers
  Quoted <- MCQuoted
  Disk <- MCDisk
  IncludePaths <- MCIncludePaths
  Units <- MCUnits
  Files <- MCFiles
  IntBits = 8
  WordBits = 16
  MaxPieces = 4
  MaxPuncts = 3
INVARIANTS
  EmbedsResource
  TokensAndLines
  LiteralsMean
PROPERTY SelectsGroups
