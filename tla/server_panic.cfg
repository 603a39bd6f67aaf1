SPECIFICATION SafeSpec
CONSTANTS
  Arena <- MCArena
  Capacities <- MCCapacities
  Lengths <- MCLengths
  SizeFields <- MCSizeFields
  CommandCodes <- MCCommandCodes
  Counts <- MCCounts
  ReseedInterval = 2
  MaxFill = 2
  DrbgMayFail = FALSE
INVARIANT NeverPanics
