----------------------------- MODULE MCTpmServer -----------------------------
(***************************************************************************)
(* The instance of TpmServer for TLC.  Lengths and capacities sit on both  *)
(* sides of every boundary execute_command tests: the ends of the request  *)
(* fields (2, 6, 10, 12), of the response code (10) and of the longest     *)
(* response that can succeed (12); the arena has bytes no response reaches. *)
(***************************************************************************)
EXTENDS TpmServer

MCArena == 14
MCCapacities == {0, 5, 9, 10, 11, 12, 13}
MCLengths == {1, 2, 5, 6, 9, 10, 11, 12, 13}
\* The lengths of complete requests, and a size of no request.
MCSizeFields == {0, 10, 12, 13}
\* TPM2_CC_GetRandom and TPM2_CC_Startup, which has no handler.
MCCommandCodes == {CcGetRandom, 324}
\* No byte, the longest fill the DRBG accepts (2), one more, and the largest
\* u16, which no response has room for.
MCCounts == {0, 2, 3, 65535}
=============================================================================
