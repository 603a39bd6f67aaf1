----------------------------- MODULE TpmClient ------------------------------
(***************************************************************************)
(* run_command_with_handles: one command marshaled into a fixed buffer,    *)
(* exchanged with a TPM, and its response unmarshaled.                     *)
(*                                                                         *)
(* A job is what the type parameters and arguments of the call amount to:  *)
(* the fields of the handles and of the parameters, in the order the       *)
(* derived Marshalable writes them, the passwords of the sessions, and the *)
(* shape of the response.  A field carries the outcome of the call when    *)
(* the buffer has no room for it.  The TPM, or whatever stands between,    *)
(* may answer anything at all.                                             *)
(***************************************************************************)
EXTENDS TpmBytes, SequencesExt

CONSTANTS
  CmdBufferSize,   \* CMD_BUFFER_SIZE
  RespBufferSize,  \* RESP_BUFFER_SIZE
  MaxBlob,         \* MAX_BUFFER_SIZE of the Tpm2b types in a response
  Jobs,            \* the commands called
  Responses        \* the bytes a TPM may write to the response buffer

HeaderSize == 10   \* tag, size, code
TagNoSessions == 32769
TagSessions == 32770
RcMemory == 2308
TcsGeneralFailure == 8194
TcsBadParameter == 8195
TcsOutOfMemory == 8197
TcsTpmUnexpected == 8208
RsPw == BE4(1073741833)

\* What a call may end in: Ok, a TssError (its four bytes), or a panic.
Pending == [kind |-> "none", code |-> BE4(0), handles |-> <<>>, value |-> <<>>]
Ok(handles, value) == [Pending EXCEPT !.kind = "ok", !.handles = handles,
                                      !.value = value]
Error(code) == [Pending EXCEPT !.kind = "error", !.code = code]
Panic == [Pending EXCEPT !.kind = "panic"]
OutOfRoom == Error(BE4(RcMemory))

\* A primitive field checks for room; so does the size of a Tpm2b, but its
\* contents are copied into whatever room there is.
Prim(bytes) == <<[bytes |-> bytes, refusal |-> OutOfRoom]>>
Tpm2b(bytes) ==
  Prim(BE2(Len(bytes))) \o <<[bytes |-> bytes, refusal |-> Panic]>>

\* TpmsAuthCommand of a password session.
AuthCommand(password) ==
  Prim(RsPw) \o Tpm2b(<<>>) \o Prim(<<0>>) \o Tpm2b(password)

Field == [bytes : Seq(Octet), refusal : {OutOfRoom, Panic}]
Shapes == {"unit", "u32", "tpm2b"}
Job == [code : 0 .. U32Large, handles : Seq(Field),
        sessions : Seq(Seq(Octet)), params : Seq(Field),
        respHandles : Nat, resp : Shapes]
NoJob == [code |-> 0, handles |-> <<>>, sessions |-> <<>>, params |-> <<>>,
          respHandles |-> 0, resp |-> "unit"]

ASSUME SizeAssumption ==
  /\ CmdBufferSize \in HeaderSize .. U32Large - 1
  /\ RespBufferSize \in HeaderSize .. U32Large - 1
  /\ MaxBlob \in 0 .. U16Max
\* A password comes from Tpm2bAuth::from_bytes.
ASSUME JobAssumption ==
  \A j \in Jobs :
    /\ j \in Job
    /\ Len(j.sessions) <= 3
    /\ \A i \in DOMAIN j.sessions : Len(j.sessions[i]) <= U16Max
ASSUME ResponseAssumption ==
  \A r \in Responses : r \in Seq(Octet) /\ Len(r) <= RespBufferSize

VARIABLES
  pc,       \* the next step
  job,      \* the call
  cmd,      \* cmd_buffer[..written]
  todo,     \* fields of the current part that are still to be marshaled
  authAt,   \* where the authorization area starts
  done,     \* sessions marshaled, and then sessions validated
  resp,     \* resp_buffer, once the TPM has answered
  rest,     \* the UnmarshalBuf over the response
  handles,  \* resp_handles
  value,    \* resp
  result    \* what the call returned

vars == <<pc, job, cmd, todo, authAt, done, resp, rest, handles, value, result>>
sent == <<job, cmd, todo, authAt>>        \* settled once the command is sent
received == <<resp, rest, handles, value>> \* empty until then
-----------------------------------------------------------------------------
Init ==
  /\ pc = "idle" /\ job = NoJob /\ result = Pending
  /\ cmd = <<>> /\ todo = <<>> /\ authAt = 0 /\ done = 0
  /\ resp = <<>> /\ rest = <<>> /\ handles = <<>> /\ value = <<>>

\* run_command or run_command_with_handles is called.
Call(j) ==
  /\ pc = "idle"
  /\ pc' = "header"
  /\ job' = j
  /\ UNCHANGED <<cmd, todo, authAt, done, received, result>>

Return(outcome) == pc' = "returned" /\ result' = outcome

\* The call's buffers are gone with its stack frame.
Collect ==
  /\ pc = "returned"
  /\ pc' = "idle" /\ job' = NoJob /\ result' = Pending
  /\ cmd' = <<>> /\ todo' = <<>> /\ authAt' = 0 /\ done' = 0
  /\ resp' = <<>> /\ rest' = <<>> /\ handles' = <<>> /\ value' = <<>>
-----------------------------------------------------------------------------
(* The command.                                                            *)

\* Faulty Room: the last byte of the buffer is lost, or one more is used.
RoomButOne(n) == Len(cmd) + n < CmdBufferSize
RoomAndOne(n) == Len(cmd) + n <= CmdBufferSize + 1

\* buffer.len() >= self.len(), of the buffer from written on.
Room(n) == Len(cmd) + n <= CmdBufferSize

Header(tag, size, code) == BE2(tag) \o BE4(size) \o BE4(code)
\* CmdHeader::new is given is_empty() for its has_sessions, and inverts it.
CommandTag(j) == IF j.sessions = <<>> THEN TagNoSessions ELSE TagSessions

MarshalHeader ==
  /\ pc = "header"
  /\ cmd' = Header(CommandTag(job), 0, job.code)
  /\ todo' = job.handles
  /\ pc' = "handles"
  /\ UNCHANGED <<job, authAt, done, received, result>>

\* Faulty MarshalField: a field is cut where the buffer ends.
MarshalFieldCut ==
  /\ pc \in {"handles", "auth", "params"} /\ todo # <<>>
  /\ LET all == cmd \o Head(todo).bytes
     IN cmd' = SubSeq(all, 1, Min({Len(all), CmdBufferSize}))
  /\ todo' = Tail(todo)
  /\ UNCHANGED <<pc, job, authAt, done, received, result>>

\* The next field of a derived try_marshal; an error or a panic ends the call.
MarshalField ==
  /\ pc \in {"handles", "auth", "params"} /\ todo # <<>>
  /\ IF Room(Len(Head(todo).bytes))
     THEN /\ cmd' = cmd \o Head(todo).bytes
          /\ todo' = Tail(todo)
          /\ UNCHANGED <<pc, result>>
     ELSE Return(Head(todo).refusal) /\ UNCHANGED <<cmd, todo>>
  /\ UNCHANGED <<job, authAt, done, received>>

SkipAuthArea ==
  /\ pc = "handles" /\ todo = <<>> /\ job.sessions = <<>>
  /\ pc' = "params"
  /\ todo' = job.params
  /\ UNCHANGED <<job, cmd, authAt, done, received, result>>

\* Room for the size of the area is sliced off, not checked for.
OpenAuthArea ==
  /\ pc = "handles" /\ todo = <<>> /\ job.sessions # <<>>
  /\ authAt' = Len(cmd)
  /\ IF Room(4)
     THEN /\ cmd' = cmd \o Zeros(4)
          /\ todo' = AuthCommand(job.sessions[1])
          /\ done' = 1
          /\ pc' = "auth" /\ UNCHANGED result
     ELSE Return(Panic) /\ UNCHANGED <<cmd, todo, done>>
  /\ UNCHANGED <<job, received>>

NextSession ==
  /\ pc = "auth" /\ todo = <<>> /\ done < Len(job.sessions)
  /\ todo' = AuthCommand(job.sessions[done + 1])
  /\ done' = done + 1
  /\ UNCHANGED <<pc, job, cmd, authAt, received, result>>

\* buffer[at..at + Len(bytes)] = bytes, counting from 0.
Patch(buffer, at, bytes) ==
  SubSeq(buffer, 1, at) \o bytes \o After(buffer, at + Len(bytes))

\* Faulty CloseAuthArea: the size counts its own four bytes.
CloseAuthAreaWithSize ==
  /\ pc = "auth" /\ todo = <<>> /\ done = Len(job.sessions)
  /\ cmd' = Patch(cmd, authAt, BE4(Len(cmd) - authAt))
  /\ todo' = job.params
  /\ done' = 0
  /\ pc' = "params"
  /\ UNCHANGED <<job, authAt, received, result>>

\* marshal_auth_size: the bytes of the sessions, without the size itself.
CloseAuthArea ==
  /\ pc = "auth" /\ todo = <<>> /\ done = Len(job.sessions)
  /\ cmd' = Patch(cmd, authAt, BE4(Len(cmd) - authAt - 4))
  /\ todo' = job.params
  /\ done' = 0
  /\ pc' = "params"
  /\ UNCHANGED <<job, authAt, received, result>>

\* Faulty MarshalSize: the size of what follows the header.
MarshalBodySize ==
  /\ pc = "params" /\ todo = <<>>
  /\ cmd' = Patch(cmd, 0, Header(CommandTag(job), Len(cmd) - HeaderSize, job.code))
  /\ pc' = "sent"
  /\ UNCHANGED <<job, todo, authAt, done, received, result>>

\* The header is marshaled again, over the first, now with the size.
MarshalSize ==
  /\ pc = "params" /\ todo = <<>>
  /\ cmd' = Patch(cmd, 0, Header(CommandTag(job), Len(cmd), job.code))
  /\ pc' = "sent"
  /\ UNCHANGED <<job, todo, authAt, done, received, result>>
-----------------------------------------------------------------------------
(* Tpm::transact.                                                          *)

\* The TPM writes r to the front of the zeroed response buffer.
Transact(r) ==
  /\ pc = "sent"
  /\ pc' = "answered"
  /\ resp' = r \o Zeros(RespBufferSize - Len(r))
  /\ UNCHANGED <<sent, done, rest, handles, value, result>>

TransactFails ==
  /\ pc = "sent"
  /\ Return(Error(BE4(TcsGeneralFailure)))
  /\ UNCHANGED <<sent, done, received>>
-----------------------------------------------------------------------------
(* The response.                                                           *)

RespTag(r) == U16(r)
RespSize(r) == U32(After(r, 2))
RespCode(r) == SubSeq(r, 7, HeaderSize)

\* Faulty ReadHeader: a response whose size is wrong has no code to report.
ReadHeaderSizeFirst ==
  /\ pc = "answered"
  /\ IF RespCode(resp) = BE4(0) \/ RespSize(resp) < HeaderSize
     THEN pc' = "size" /\ UNCHANGED result
     ELSE Return(Error(RespCode(resp)))
  /\ UNCHANGED <<sent, done, received>>

\* read_response_header: a response code other than 0 is the call's error.
ReadHeader ==
  /\ pc = "answered"
  /\ IF RespCode(resp) = BE4(0)
     THEN pc' = "size" /\ UNCHANGED result
     ELSE Return(Error(RespCode(resp)))
  /\ UNCHANGED <<sent, done, received>>

\* resp_buffer[read..resp_size] panics when it ends before it starts.
CheckSize ==
  /\ pc = "size"
  /\ IF RespSize(resp) > RespBufferSize
     THEN Return(Error(BE4(TcsOutOfMemory))) /\ UNCHANGED rest
     ELSE IF RespSize(resp) < HeaderSize
     THEN Return(Panic) /\ UNCHANGED rest
     ELSE /\ rest' = SubSeq(resp, HeaderSize + 1, RespSize(resp))
          /\ pc' = "respHandles" /\ UNCHANGED result
  /\ UNCHANGED <<sent, done, resp, handles, value>>

\* n bytes come off the UnmarshalBuf, or the call ends with Memory.
Unmarshal(n, next) ==
  IF CanGet(rest, n)
  THEN rest' = After(rest, n) /\ pc' = next /\ UNCHANGED result
  ELSE Return(OutOfRoom) /\ UNCHANGED rest

ReadHandles ==
  /\ pc = "respHandles"
  /\ Unmarshal(4 * job.respHandles, "paramSize")
  /\ handles' = Got(rest, 4 * job.respHandles)
  /\ UNCHANGED <<sent, done, resp, value>>

\* The tag of the response decides whether a parameter size precedes the
\* parameters; the size is not compared with anything.
ReadParamSize ==
  /\ pc = "paramSize"
  /\ IF RespTag(resp) = TagSessions THEN Unmarshal(4, "resp")
     ELSE pc' = "resp" /\ UNCHANGED <<rest, result>>
  /\ UNCHANGED <<sent, done, resp, handles, value>>

ParamLen(shape) ==
  CASE shape = "unit" -> 0
    [] shape = "u32" -> 4
    [] shape = "tpm2b" -> Tpm2bLen(rest)

\* A Tpm2b that does not fit its type is an error of the same kind.
ReadResp ==
  /\ pc = "resp"
  /\ IF job.resp = "tpm2b" /\ Tpm2bLen(rest) > 2 + MaxBlob
     THEN Return(OutOfRoom) /\ UNCHANGED rest
     ELSE Unmarshal(ParamLen(job.resp), "sessions")
  /\ value' = Got(rest, ParamLen(job.resp))
  /\ UNCHANGED <<sent, done, resp, handles>>

\* Faulty ReadSession: the sizes are not looked at.
ReadSessionAttributes ==
  /\ pc = "sessions" /\ done < Len(job.sessions)
  /\ LET attributes == Tpm2bLen(rest) + 1
         all == attributes + Tpm2bLen(After(rest, attributes))
     IN IF ~CanGet(rest, all) THEN Return(OutOfRoom) /\ UNCHANGED <<rest, done>>
        ELSE IF rest[attributes] # 1
        THEN Return(Error(BE4(TcsBadParameter))) /\ UNCHANGED <<rest, done>>
        ELSE /\ rest' = After(rest, all) /\ done' = done + 1
             /\ UNCHANGED <<pc, result>>
  /\ UNCHANGED <<sent, resp, handles, value>>

\* TpmsAuthResponse (nonce, attributes, hmac), then validate_auth_response:
\* both empty, and nothing but continueSession.
ReadSession ==
  /\ pc = "sessions" /\ done < Len(job.sessions)
  /\ LET nonce == Tpm2bLen(rest)
         hmac == Tpm2bLen(After(rest, nonce + 1))
         all == nonce + 1 + hmac
     IN IF ~CanGet(rest, all) \/ nonce > 2 + MaxBlob \/ hmac > 2 + MaxBlob
        THEN Return(OutOfRoom) /\ UNCHANGED <<rest, done>>
        ELSE IF nonce # 2 \/ rest[nonce + 1] # 1 \/ hmac # 2
        THEN Return(Error(BE4(TcsBadParameter))) /\ UNCHANGED <<rest, done>>
        ELSE /\ rest' = After(rest, all) /\ done' = done + 1
             /\ UNCHANGED <<pc, result>>
  /\ UNCHANGED <<sent, resp, handles, value>>

\* Nothing of the response may be left over.
Finish ==
  /\ pc = "sessions" /\ done = Len(job.sessions)
  /\ Return(IF rest = <<>> THEN Ok(handles, value)
                           ELSE Error(BE4(TcsTpmUnexpected)))
  /\ UNCHANGED <<sent, done, received>>

-----------------------------------------------------------------------------
Step ==
  \/ MarshalHeader \/ MarshalField \/ SkipAuthArea \/ OpenAuthArea
  \/ NextSession \/ CloseAuthArea \/ MarshalSize
  \/ ReadHeader \/ CheckSize \/ ReadHandles \/ ReadParamSize \/ ReadResp
  \/ ReadSession \/ Finish

Next ==
  \/ \E j \in Jobs : Call(j)
  \/ Step
  \/ \E r \in Responses : Transact(r)
  \/ TransactFails
  \/ Collect

Spec == Init /\ [][Next]_vars
-----------------------------------------------------------------------------
(* Properties.                                                             *)

Steps == {"idle", "header", "handles", "auth", "params", "sent", "answered",
          "size", "respHandles", "paramSize", "resp", "sessions", "returned"}

\* Every variable has its type, and neither buffer outgrows its array.
TypeOK ==
  /\ pc \in Steps
  /\ job \in Jobs \cup {NoJob}
  /\ cmd \in Seq(Octet) /\ Len(cmd) <= CmdBufferSize
  /\ todo \in Seq(Field)
  /\ authAt \in 0 .. CmdBufferSize
  /\ done \in 0 .. 3
  /\ resp \in Seq(Octet) /\ Len(resp) \in {0, RespBufferSize}
  /\ rest \in Seq(Octet) /\ Len(rest) <= RespBufferSize
  /\ handles \in Seq(Octet) /\ value \in Seq(Octet)
  /\ result.kind \in {"none", "ok", "error", "panic"}

\* The command a job stands for, as a TPM takes it apart.
FieldBytes(fields) == FlattenSeq([i \in DOMAIN fields |-> fields[i].bytes])
AuthBytes(password) ==
  RsPw \o <<0, 0>> \o <<0>> \o BE2(Len(password)) \o password
AuthArea(j) ==
  LET auths == FlattenSeq([i \in DOMAIN j.sessions |-> AuthBytes(j.sessions[i])])
  IN IF j.sessions = <<>> THEN <<>> ELSE BE4(Len(auths)) \o auths
Command(j) ==
  LET body == FieldBytes(j.handles) \o AuthArea(j) \o FieldBytes(j.params)
      tag == IF j.sessions = <<>> THEN TagNoSessions ELSE TagSessions
  IN Header(tag, HeaderSize + Len(body), j.code) \o body

\* What transact is given is the whole command: the size in the header is its
\* length, the tag says whether there is an authorization area, and the size
\* of the area ends it where the parameters start.
SentCommandIsJob == pc = "sent" => cmd = Command(job)

\* A call comes back without having asked the TPM exactly when its command is
\* longer than the buffer; test_command_too_large.
RefusedIffTooLarge ==
  pc = "returned" =>
    (resp = <<>> /\ result # Error(BE4(TcsGeneralFailure))
      <=> Len(Command(job)) > CmdBufferSize)

\* A response as the job wants it, measured from its ends: handles and sizes
\* in front, one sound TpmsAuthResponse (0, 0, 1, 0, 0) per session behind,
\* and the parameters are all that is left between.
Lead(j, r) ==
  HeaderSize + 4 * j.respHandles + (IF RespTag(r) = TagSessions THEN 4 ELSE 0)
Trail(j) == [i \in 1 .. 5 * Len(j.sessions) |-> IF i % 5 = 3 THEN 1 ELSE 0]
Params(j, r) == SubSeq(r, Lead(j, r) + 1, RespSize(r) - Len(Trail(j)))
IsValue(shape, v) ==
  CASE shape = "unit" -> v = <<>>
    [] shape = "u32" -> Len(v) = 4
    [] shape = "tpm2b" -> \E n \in 0 .. MaxBlob :
                            Len(v) = n + 2 /\ SubSeq(v, 1, 2) = BE2(n)
WellFormed(j, r) ==
  /\ RespCode(r) = BE4(0)
  /\ RespSize(r) \in Lead(j, r) + Len(Trail(j)) .. RespBufferSize
  /\ IsValue(j.resp, Params(j, r))
  /\ SubSeq(r, RespSize(r) - Len(Trail(j)) + 1, RespSize(r)) = Trail(j)

Reading(j, r) ==
  Ok(SubSeq(r, HeaderSize + 1, HeaderSize + 4 * j.respHandles), Params(j, r))

\* The call returns Ok for exactly the well-formed responses, with the handles
\* and the parameters at their places, and every session validated.
AcceptsExactlyWellFormed ==
  pc = "returned" /\ resp # <<>> =>
    IF WellFormed(job, resp) THEN result = Reading(job, resp)
                             ELSE result.kind # "ok"

\* The TPM's error reaches the caller even when the rest of the header was
\* never filled in, as fill_error leaves it.
ErrorCodeWins ==
  pc = "returned" /\ resp # <<>> /\ RespCode(resp) # BE4(0) =>
    result = Error(RespCode(resp))

\* "no panics": whatever the TPM answers, the call returns Ok or an error.
ResponseNeverPanics ==
  pc = "returned" /\ resp # <<>> => result.kind \in {"ok", "error"}

\* test_command_too_large: a command larger than the buffer is an error.
LargeCommandRefused ==
  pc = "returned" /\ resp = <<>> => result.kind = "error"

\* The call as its caller and the TPM see it.
Phase ==
  CASE pc \in {"header", "handles", "auth", "params"} -> "called"
    [] pc = "sent" -> "asked"
    [] pc \in {"answered", "size", "respHandles", "paramSize", "resp",
              "sessions"} -> "answered"
    [] OTHER -> pc
Promise == INSTANCE TpmCall WITH
  phase <- Phase, answer <- resp,
  request <- IF Phase \in {"asked", "answered"} THEN cmd ELSE <<>>

\* run_command_with_handles asks the TPM once and with the whole command, or
\* not at all, and returns what TpmCall has it return.
ImplementsCall == Promise!Spec
=============================================================================
