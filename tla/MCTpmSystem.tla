---------------------------- MODULE MCTpmSystem -----------------------------
(***************************************************************************)
(* The instance of TpmSystem for TLC: GetRandom for no byte up to one more *)
(* than the DRBG fills at once and for more than the response has room     *)
(* for, with and without a session, and a command with no handler.         *)
(***************************************************************************)
EXTENDS TpmSystem

MCBufferSize == 40
MCMaxBlob == 3
\* The only answers are the server's.
MCNoResponses == {}
MCRandomBytes == {0, 1, 2}

GetRandom(n, sessions) ==
  [code |-> 379, handles |-> <<>>, sessions |-> sessions,
   params |-> Prim(BE2(n)), respHandles |-> 0, resp |-> "tpm2b"]
Startup ==
  [code |-> 324, handles |-> <<>>, sessions |-> <<>>,
   params |-> Prim(BE2(0)), respHandles |-> 0, resp |-> "unit"]

MCJobs ==
  {GetRandom(n, sessions) : n \in {0, 1, 2, 3, 4, 31, 65535},
                            sessions \in {<<>>, <<<<7>>>>}}
  \cup {Startup}
=============================================================================
