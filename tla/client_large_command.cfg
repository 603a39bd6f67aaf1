SPECIFICATION Spec
CONSTANTS
  CmdBufferSize <- MCCmdBufferSize
  RespBufferSize <- MCRespBufferSize
  MaxBlob <- MCMaxBlob
  Jobs <- MCJobs
  Responses <- MCResponses
INVARIANT LargeCommandRefused
