SPECIFICATION Spec
CONSTANTS
  Arena <- MCArena
  Capacities <- MCCapacities
  Lengths <- MCLengths
  SizeFields <- MCSizeFields
  CommandCodes <- MCCommandCodes
  Counts <- MCCounts
  ReseedInterval = 2
  MaxFill = 2
  DrbgMayFail = TRUE
INVARIANTS
  TypeOK
  RequestIntactUntilRead
  OnlyResponseWritten
  NoRandomBytesOnError
  NeverFillsUnseeded
PROPERTY
  ImplementsService
