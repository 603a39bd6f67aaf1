SPECIFICATION Spec
CONSTANTS
  CmdBufferSize <- MCCmdBufferSize
  RespBufferSize <- MCRespBufferSize
  MaxBlob <- MCMaxBlob
  Jobs <- MCJobs
  Responses <- MCResponses
INVARIANTS
  TypeOK
  SentCommandIsJob
  RefusedIffTooLarge
  AcceptsExactlyWellFormed
  ErrorCodeWins
PROPERTY
  ImplementsCall
