----------------------------- MODULE MCTpmClient -----------------------------
(***************************************************************************)
(* The instance of TpmClient for TLC: buffers of 40 bytes instead of 4096, *)
(* commands whose every field ends on both sides of the end of the buffer, *)
(* and, for each shape of response, sound responses, responses with one or *)
(* two things wrong, and responses meant for another job.                  *)
(***************************************************************************)
EXTENDS TpmClient

MCCmdBufferSize == 40
MCRespBufferSize == 40
MCMaxBlob == 2

Handle(n) == FlattenSeq([i \in 1 .. n |-> Prim(BE4(i))])
Passwords == {<<>>, <<<<7>>>>, <<<<7>>, <<8, 9>>>>, <<<<7>>, <<>>, <<9>>>>}

\* Commands of every length around CmdBufferSize, cut in every kind of field.
CommandJobs ==
  [code : {287}, handles : {Handle(n) : n \in {0, 1, 7, 8}},
   sessions : {<<>>, <<<<7>>>>, <<<<7>>, <<8, 9>>>>},
   params : {Prim(Zeros(n)) : n \in {0, 1, 3, 10, 30}}
             \cup {Prim(Zeros(n)) \o Tpm2b(<<6, 6>>) : n \in {0, 9, 10, 26}},
   respHandles : {0}, resp : {"unit"}]

\* Commands with every shape of response, and three sessions.
ResponseJobs ==
  [code : {379}, handles : {<<>>}, sessions : Passwords,
   params : {<<>>}, respHandles : {0, 1}, resp : Shapes]

MCJobs == CommandJobs \cup ResponseJobs

-----------------------------------------------------------------------------
Auth == <<0, 0, 1, 0, 0>>
Auths == {<<>>, Auth, Auth \o Auth, Auth \o Auth \o Auth,
          <<0, 0, 3, 0, 0>>, <<0, 1, 7, 1, 0, 0>>, <<0, 0, 1, 0, 1, 7>>,
          Auth \o <<0, 0, 1, 0>>}
Bodies ==
  {handle \o size \o param \o auths \o junk :
     handle \in {<<>>, <<0, 0, 0, 77>>}, size \in {<<>>, <<0, 0, 0, 9>>},
     param \in {<<>>, <<0, 0>>, <<0, 2, 5, 6>>, <<0, 3, 5, 6, 7>>, <<0, 9>>},
     auths \in Auths, junk \in {<<>>, <<0>>}}
ShortBodies == {<<>>, <<0, 2, 5, 6>>, Auth}

MCResponses ==
  {Header(tag, HeaderSize + Len(body), 0) \o body :
     tag \in {TagNoSessions, TagSessions}, body \in Bodies}
  \cup
  {Header(TagNoSessions, size, rc) \o body :
     size \in {0, 9, 10, 13, 14, 15, 40, 41}, rc \in {0, 322},
     body \in ShortBodies}
  \cup
  {<<>>, BE2(TagNoSessions) \o <<255, 255, 255, 255>> \o BE4(0)}
=============================================================================
