SPECIFICATION ValuesSpec
CONSTANTS
  Capacity = 3
  Lists <- MCLists
  Outcomes <- MCOutcomes
  Inputs <- MCInputs
  Counts <- MCCounts
  FieldValues <- MCFieldValues
  FlagsUsed <- MCFlagsUsed
  MaxDest = 20
INVARIANTS
  EqualMeansSameElements
  PanicsOnlyInEntries
  FieldsKeepApart
  OnlyWarningsWarn
  ParameterErrorsNamedBack
  FilledInOrder
  InputUsedOnce
PROPERTIES
  ImplementsSequence
  ErrorsKeptApart
CHECK_DEADLOCK FALSE
