SPECIFICATION SpecEither
CONSTANTS
  MaxInputs = 2
  Environments <- MCEnvironments
  ArgumentLists <- MCArgumentLists
INVARIANTS
  NoTmpfileLeft
  StagesReadCompleteFiles
  ExitStatusHonest
  CommandLineObeyed
PROPERTIES
  DriverEnds
CHECK_DEADLOCK FALSE
