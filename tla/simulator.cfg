SPECIFICATION SimulatorSpec
CONSTANTS
  MaxCalls = 3
  RespRoom = 2
  CmdLens <- MCCmdLens
  AnswerSizes <- MCAnswerSizes
  Words <- MCWords
INVARIANTS
  SimulatorTypeOK
  PoweredUpInOrder
  OwnSimulator
  OverlongNotMistaken
PROPERTIES
  ImplementsExchange
  CallComesBack
  RunReturns
