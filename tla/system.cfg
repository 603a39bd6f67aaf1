SPECIFICATION SystemSpec
CONSTANTS
  CmdBufferSize <- MCBufferSize
  RespBufferSize <- MCBufferSize
  MaxBlob <- MCMaxBlob
  Responses <- MCNoResponses
  Jobs <- MCJobs
  RandomBytes <- MCRandomBytes
  ReseedInterval = 2
  MaxFill = 3
  DrbgMayFail = TRUE
INVARIANTS
  SizesAgree
  ServerErrorsArrive
  PanicsOnlyWithServer
PROPERTIES
  CallsComeBack
  ImplementsCall
