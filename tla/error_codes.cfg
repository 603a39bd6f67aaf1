SPECIFICATION ValuesSpec
CONSTANTS
  Capacity = 1
  Lists <- MCLists
  Outcomes <- MCOutcomes
  Inputs <- MCInputs
  Counts <- MCCounts
  FieldValues <- MCFieldValues
  FlagsUsed <- MCFlagsUsed
  MaxDest = 8
INVARIANT HandleErrorsNamedBack
CHECK_DEADLOCK FALSE
