--------------------------- MODULE TpmClientProofs ---------------------------
(***************************************************************************)
(* Proofs about TpmClient, for buffers of any size, any set of commands    *)
(* and any responses.  AcceptsExactlyWellFormed measures a response from   *)
(* both its ends and looks at it once, when the call returns; the call     *)
(* reads it from the front, part by part.  IInv says, for each step, which *)
(* part of the response has been read and what was found there.            *)
(*                                                                         *)
(* The command that is sent comes second: marshaled field by field, its    *)
(* sizes patched in when they are known, it is the command of the job, and *)
(* it is refused exactly when it is longer than the buffer.                *)
(***************************************************************************)
EXTENDS TpmClient, TpmFlattenProofs

Sending == {"header", "handles", "auth", "params", "sent"}
Unmarshaling == {"respHandles", "paramSize", "resp", "sessions"}
Receiving == {"answered", "size"} \cup Unmarshaling

\* The call, and how far its command has been marshaled.
Progress ==
  /\ IF pc = "idle" THEN resp = <<>> ELSE job \in Jobs
  /\ pc \notin {"auth", "sessions", "returned"} => done = 0
  /\ pc \in {"auth", "sessions"} => done <= Len(job.sessions)
  /\ pc \in {"handles", "auth", "params"} => Len(cmd) >= HeaderSize
  /\ pc = "auth" => authAt + 4 <= Len(cmd)
  /\ pc \in Sending => resp = <<>>
  /\ pc \in Receiving => Len(resp) = RespBufferSize

\* The bytes of the response from a, counting from 0, up to b.
Piece(a, b) == SubSeq(resp, a + 1, b)
Size == RespSize(resp)
\* The end of the handles, of the parameter size, and of the parameters.
HandlesEnd == HeaderSize + 4 * job.respHandles
ParamsAt == Lead(job, resp)
ParamsEnd == ParamsAt + Len(value)
AuthByte(i) == IF i % 5 = 3 THEN 1 ELSE 0

\* What of the response has been read, and what is left.
ReadSoFar ==
  /\ pc \in {"size"} \cup Unmarshaling => RespCode(resp) = BE4(0)
  /\ pc \in Unmarshaling => Size \in HeaderSize .. RespBufferSize
  /\ pc = "respHandles" => rest = Piece(HeaderSize, Size)
  /\ pc = "paramSize" => HandlesEnd <= Size /\ rest = Piece(HandlesEnd, Size)
  /\ pc = "resp" => ParamsAt <= Size /\ rest = Piece(ParamsAt, Size)
  /\ pc \in {"paramSize", "resp", "sessions"} =>
       handles = Piece(HeaderSize, HandlesEnd)
  /\ pc = "sessions" =>
       /\ ParamsEnd + 5 * done <= Size
       /\ rest = Piece(ParamsEnd + 5 * done, Size)
       /\ value = Piece(ParamsAt, ParamsEnd) /\ IsValue(job.resp, value)
       /\ \A i \in 1 .. 5 * done : resp[ParamsEnd + i] = AuthByte(i)

IInv ==
  /\ TypeOK /\ Progress /\ ReadSoFar
  /\ ErrorCodeWins /\ AcceptsExactlyWellFormed
-----------------------------------------------------------------------------
(* Bytes.                                                                  *)

LEMMA SizeTypes ==
  /\ CmdBufferSize \in Nat /\ CmdBufferSize >= 10 /\ CmdBufferSize < U32Large
  /\ RespBufferSize \in Nat /\ RespBufferSize >= 10 /\ RespBufferSize < U32Large
  /\ MaxBlob \in 0 .. U16Max
  /\ HeaderSize = 10
<1>1. U32Large \in Nat
  BY SMT DEF U32Large
<1>2. QED BY <1>1, SizeAssumption DEF HeaderSize

LEMMA JobTypes ==
  ASSUME NEW j \in Jobs
  PROVE  /\ j.code \in 0 .. U32Large /\ j.handles \in Seq(Field)
         /\ j.params \in Seq(Field) /\ j.sessions \in Seq(Seq(Octet))
         /\ j.respHandles \in Nat /\ j.resp \in Shapes
         /\ Len(j.sessions) \in 0 .. 3
         /\ \A i \in 1 .. Len(j.sessions) :
              j.sessions[i] \in Seq(Octet) /\ Len(j.sessions[i]) <= U16Max
<1>1. /\ j \in Job /\ Len(j.sessions) <= 3
      /\ \A i \in DOMAIN j.sessions : Len(j.sessions[i]) <= U16Max
  BY JobAssumption
<1>2. /\ j.code \in 0 .. U32Large /\ j.handles \in Seq(Field)
      /\ j.params \in Seq(Field) /\ j.sessions \in Seq(Seq(Octet))
      /\ j.respHandles \in Nat /\ j.resp \in Shapes
  BY <1>1 DEF Job
<1>3. Len(j.sessions) \in 0 .. 3 /\ DOMAIN j.sessions = 1 .. Len(j.sessions)
  <2>1. Len(j.sessions) \in Nat /\ DOMAIN j.sessions = 1 .. Len(j.sessions)
    BY <1>2, LenProperties, Zenon
  <2>2. Len(j.sessions) <= 3
    BY <1>1
  <2>3. \A n \in Nat : n <= 3 => n \in 0 .. 3
    OBVIOUS
  <2>4. QED BY <2>1, <2>2, <2>3, Zenon
<1>4. \A i \in 1 .. Len(j.sessions) : j.sessions[i] \in Seq(Octet)
  BY <1>2, ElementOfSeq
<1>5. QED BY <1>1, <1>2, <1>3, <1>4

\* The bounds as inequalities, which is how the solver can use them.
LEMMA OctetBound == \A b : b \in Octet <=> b \in Nat /\ b <= 255
BY SMT DEF Octet

LEMMA U16Bound == U16Max \in Nat /\ U16Max <= 65535 /\ U16Max >= 65535
BY SMT DEF U16Max

LEMMA U32Bound == U32Large \in Nat /\ U32Large <= 2147483647 /\ U32Large >= 2147483647
BY SMT DEF U32Large

LEMMA BE2Type ==
  ASSUME NEW v \in 0 .. U16Max
  PROVE  /\ BE2(v) \in Seq(Octet) /\ Len(BE2(v)) = 2
         /\ U16(BE2(v)) = v
<1>1. v \in Nat /\ v <= 65535
  BY U16Bound
<1>2. /\ v \div 256 \in Nat /\ v \div 256 <= 255
      /\ v % 256 \in Nat /\ v % 256 <= 255
      /\ 256 * (v \div 256) + (v % 256) = v
  BY <1>1, SMT
<1>3. QED BY <1>2, OctetBound DEF BE2, U16

LEMMA BE4Type ==
  ASSUME NEW v \in 0 .. U32Large
  PROVE  BE4(v) \in Seq(Octet) /\ Len(BE4(v)) = 4
<1>1. v \in Nat /\ v <= 2147483647
  BY U32Bound, SMT
<1>2. /\ v \div 16777216 \in Nat /\ v \div 16777216 <= 255
      /\ (v \div 65536) % 256 \in Nat /\ (v \div 65536) % 256 <= 255
      /\ (v \div 256) % 256 \in Nat /\ (v \div 256) % 256 <= 255
      /\ v % 256 \in Nat /\ v % 256 <= 255
  BY <1>1, SMT
<1>3. QED BY <1>2, OctetBound, SMT DEF BE4

LEMMA ConcatOctets ==
  ASSUME NEW s \in Seq(Octet), NEW t \in Seq(Octet)
  PROVE  s \o t \in Seq(Octet) /\ Len(s \o t) = Len(s) + Len(t)
BY ConcatProperties

LEMMA ThreeParts ==
  ASSUME NEW s \in Seq(Octet), NEW t \in Seq(Octet), NEW u \in Seq(Octet)
  PROVE  /\ s \o t \o u \in Seq(Octet)
         /\ Len(s \o t \o u) = Len(s) + Len(t) + Len(u)
<1>1. s \o t \in Seq(Octet) /\ Len(s \o t) = Len(s) + Len(t)
  BY ConcatOctets
<1>2. (s \o t) \o u \in Seq(Octet) /\ Len((s \o t) \o u) = Len(s \o t) + Len(u)
  BY <1>1, ConcatOctets, Zenon
<1>3. QED BY <1>1, <1>2

LEMMA HeaderType ==
  ASSUME NEW tag \in {TagNoSessions, TagSessions},
         NEW size \in 0 .. U32Large, NEW code \in 0 .. U32Large
  PROVE  Header(tag, size, code) \in Seq(Octet) /\ Len(Header(tag, size, code)) = 10
<1>1. tag \in 0 .. U16Max
  BY U16Bound, SMT DEF TagNoSessions, TagSessions
<1>2. /\ BE2(tag) \in Seq(Octet) /\ Len(BE2(tag)) = 2
      /\ BE4(size) \in Seq(Octet) /\ Len(BE4(size)) = 4
      /\ BE4(code) \in Seq(Octet) /\ Len(BE4(code)) = 4
  BY <1>1, BE2Type, BE4Type
<1>3. /\ Header(tag, size, code) \in Seq(Octet)
      /\ Len(Header(tag, size, code)) = Len(BE2(tag)) + Len(BE4(size)) + Len(BE4(code))
  BY <1>2, ThreeParts, Zenon DEF Header
<1>4. QED BY <1>2, <1>3

\* Bytes written over bytes that are there change neither type nor length.
LEMMA PatchType ==
  ASSUME NEW buffer \in Seq(Octet), NEW at \in Nat, NEW bytes \in Seq(Octet),
         at + Len(bytes) <= Len(buffer)
  PROVE  Patch(buffer, at, bytes) \in Seq(Octet)
         /\ Len(Patch(buffer, at, bytes)) = Len(buffer)
<1> DEFINE front == SubSeq(buffer, 1, at)
           back == After(buffer, at + Len(bytes))
<1>1. front \in Seq(Octet) /\ Len(front) = at
  BY SubSeqProperties
<1>2. back \in Seq(Octet) /\ Len(back) = Len(buffer) - at - Len(bytes)
  BY SubSeqProperties DEF After
<1>3. Patch(buffer, at, bytes) = front \o bytes \o back
  BY DEF Patch
<1> HIDE DEF front, back
<1>4. /\ front \o bytes \o back \in Seq(Octet)
      /\ Len(front \o bytes \o back) = Len(front) + Len(bytes) + Len(back)
  BY <1>1, <1>2, ThreeParts
<1>5. Len(front) + Len(bytes) + Len(back) = Len(buffer)
  BY <1>1, <1>2
<1>6. QED BY <1>3, <1>4, <1>5, Zenon

LEMMA ZerosType ==
  ASSUME NEW n \in Nat
  PROVE  Zeros(n) \in Seq(Octet) /\ Len(Zeros(n)) = n
         /\ \A i \in 1 .. n : Zeros(n)[i] = 0
<1>1. 0 \in Octet
  BY OctetBound
<1>2. QED BY <1>1 DEF Zeros

LEMMA PrimType ==
  ASSUME NEW bytes \in Seq(Octet)
  PROVE  Prim(bytes) \in Seq(Field)
BY DEF Prim, Field

LEMMA Tpm2bType ==
  ASSUME NEW bytes \in Seq(Octet), Len(bytes) <= U16Max
  PROVE  Tpm2b(bytes) \in Seq(Field)
<1>1. Len(bytes) \in 0 .. U16Max
  BY U16Bound
<1>2. Prim(BE2(Len(bytes))) \in Seq(Field)
  BY <1>1, BE2Type, PrimType
<1>3. <<[bytes |-> bytes, refusal |-> Panic]>> \in Seq(Field)
  BY DEF Field
<1>4. QED BY <1>2, <1>3, ConcatProperties DEF Tpm2b

LEMMA AuthCommandType ==
  ASSUME NEW password \in Seq(Octet), Len(password) <= U16Max
  PROVE  AuthCommand(password) \in Seq(Field)
<1>1. RsPw \in Seq(Octet)
  <2>1. 1073741833 \in 0 .. U32Large
    BY U32Bound, SMT
  <2>2. QED BY <2>1, BE4Type DEF RsPw
<1>2. <<0>> \in Seq(Octet) /\ <<>> \in Seq(Octet) /\ Len(<<>>) = 0
  BY OctetBound
<1>3. /\ Prim(RsPw) \in Seq(Field) /\ Prim(<<0>>) \in Seq(Field)
      /\ Tpm2b(<<>>) \in Seq(Field) /\ Tpm2b(password) \in Seq(Field)
  <2>1. Len(<<>>) <= U16Max
    BY <1>2, U16Bound
  <2>2. QED BY <1>1, <1>2, <2>1, PrimType, Tpm2bType
<1>4. QED BY <1>3, ConcatProperties DEF AuthCommand
-----------------------------------------------------------------------------
(* IInv is inductive: the command.                                         *)

LEMMA Outcomes ==
  /\ OutOfRoom = Error(BE4(RcMemory)) /\ Panic.kind = "panic"
  /\ \A c : Error(c).kind = "error"
  /\ \A h, v : Ok(h, v).kind = "ok"
BY DEF OutOfRoom, Error, Panic, Ok, Pending

\* Before the TPM has answered nothing is claimed of a response.
LEMMA Unanswered ==
  ASSUME resp' = <<>>, pc' \in Sending \cup {"idle", "returned"}
  PROVE  ReadSoFar' /\ ErrorCodeWins' /\ AcceptsExactlyWellFormed'
BY DEF ReadSoFar, ErrorCodeWins, AcceptsExactlyWellFormed, Sending, Unmarshaling

\* A step that sends or gives up has to keep what is said of the command.
LEMMA SendingStep ==
  ASSUME IInv, pc \in Sending \cup {"idle"}, resp = <<>>, UNCHANGED received,
         pc' \in Sending \cup {"returned"},
         job' \in Jobs,
         cmd' \in Seq(Octet), Len(cmd') <= CmdBufferSize,
         todo' \in Seq(Field), authAt' \in 0 .. CmdBufferSize,
         done' \in 0 .. 3,
         result'.kind \in {"none", "ok", "error", "panic"},
         pc' \in Sending \ {"auth"} => done' = 0,
         pc' = "auth" => authAt' + 4 <= Len(cmd') /\ done' <= Len(job'.sessions),
         pc' \in {"handles", "auth", "params"} => Len(cmd') >= HeaderSize
  PROVE  IInv'
<1>1. resp' = <<>> /\ rest' = rest /\ handles' = handles /\ value' = value
  BY DEF received
<1>2. TypeOK'
  BY <1>1 DEF IInv, TypeOK, Steps, Sending
<1>3. Progress'
  BY <1>1 DEF Progress, Sending, Receiving, Unmarshaling
<1>4. ReadSoFar' /\ ErrorCodeWins' /\ AcceptsExactlyWellFormed'
  BY <1>1, Unanswered
<1>5. QED BY <1>2, <1>3, <1>4 DEF IInv

\* What IInv gives of a command that is being marshaled.
LEMMA SendingState ==
  ASSUME IInv, pc \in Sending
  PROVE  /\ job \in Jobs /\ cmd \in Seq(Octet) /\ Len(cmd) <= CmdBufferSize
         /\ todo \in Seq(Field) /\ authAt \in 0 .. CmdBufferSize /\ done \in 0 .. 3
         /\ resp = <<>> /\ result.kind \in {"none", "ok", "error", "panic"}
         /\ pc # "auth" => done = 0
         /\ pc = "auth" => authAt + 4 <= Len(cmd) /\ done <= Len(job.sessions)
         /\ pc \in {"handles", "auth", "params"} => Len(cmd) >= HeaderSize
BY DEF IInv, TypeOK, Progress, Sending

LEMMA CallStep ==
  ASSUME IInv, NEW j \in Jobs, Call(j)
  PROVE  IInv'
<1>1. /\ pc = "idle" /\ pc' = "header" /\ job' = j
      /\ UNCHANGED <<cmd, todo, authAt, done, received, result>>
  BY DEF Call
<1>2. resp = <<>> /\ done = 0
  BY <1>1 DEF IInv, Progress
<1>3. QED
  BY <1>1, <1>2, SendingStep DEF IInv, TypeOK, Sending

LEMMA MarshalHeaderStep ==
  ASSUME IInv, MarshalHeader
  PROVE  IInv'
<1>1. /\ pc = "header" /\ pc' = "handles" /\ todo' = job.handles
      /\ cmd' = Header(CommandTag(job), 0, job.code)
      /\ UNCHANGED <<job, authAt, done, received, result>>
  BY DEF MarshalHeader
<1>2. CommandTag(job) \in {TagNoSessions, TagSessions}
  BY DEF CommandTag
<1>3. job \in Jobs /\ done = 0 /\ resp = <<>>
  BY <1>1, SendingState DEF Sending
<1>4. cmd' \in Seq(Octet) /\ Len(cmd') = 10
  BY <1>1, <1>2, <1>3, JobTypes, U32Bound, HeaderType
<1>5. Len(cmd') <= CmdBufferSize /\ Len(cmd') >= HeaderSize
  BY <1>4, SizeTypes
<1>6. todo' \in Seq(Field)
  BY <1>1, <1>3, JobTypes
<1>7. QED
  BY <1>1, <1>3, <1>4, <1>5, <1>6, SendingState, SendingStep DEF Sending

LEMMA MarshalFieldStep ==
  ASSUME IInv, MarshalField
  PROVE  IInv'
<1> DEFINE field == Head(todo)
<1>1. /\ job \in Jobs /\ cmd \in Seq(Octet) /\ todo \in Seq(Field) /\ resp = <<>>
      /\ Len(cmd) >= HeaderSize /\ Len(cmd) <= CmdBufferSize
      /\ pc = "auth" => authAt + 4 <= Len(cmd) /\ done <= Len(job.sessions)
      /\ pc # "auth" => done = 0
      /\ authAt \in 0 .. CmdBufferSize /\ done \in 0 .. 3
      /\ result.kind \in {"none", "ok", "error", "panic"}
      /\ pc \in Sending
  BY SendingState DEF MarshalField, Sending
<1>2. /\ todo # <<>> /\ UNCHANGED <<job, authAt, done, received>>
  BY DEF MarshalField
<1>3. /\ field \in Field /\ Tail(todo) \in Seq(Field)
  BY <1>1, <1>2, HeadTailProperties
<1>4. field.bytes \in Seq(Octet) /\ field.refusal \in {OutOfRoom, Panic}
  BY <1>3 DEF Field
<1> HIDE DEF field
<1>5. CASE Room(Len(field.bytes))
  <2>1. /\ cmd' = cmd \o field.bytes /\ todo' = Tail(todo)
        /\ UNCHANGED <<pc, result>>
    BY <1>5 DEF MarshalField, field
  <2>2. /\ cmd' \in Seq(Octet) /\ Len(cmd') = Len(cmd) + Len(field.bytes)
    BY <1>1, <1>4, <2>1, ConcatOctets
  <2>3. Len(cmd) \in Nat /\ Len(field.bytes) \in Nat
    BY <1>1, <1>4
  <2>4. Len(cmd') <= CmdBufferSize /\ Len(cmd') >= HeaderSize
        /\ (authAt + 4 <= Len(cmd) => authAt + 4 <= Len(cmd'))
    BY <1>1, <1>5, <2>2, <2>3, SizeTypes DEF Room
  <2>5. QED
    BY <1>1, <1>2, <1>3, <2>1, <2>2, <2>4, SendingStep DEF Sending
<1>6. CASE ~Room(Len(field.bytes))
  <2>1. /\ pc' = "returned" /\ result' = field.refusal /\ UNCHANGED <<cmd, todo>>
    BY <1>6 DEF MarshalField, field, Return
  <2>2. result'.kind \in {"error", "panic"}
    BY <1>4, <2>1, Outcomes
  <2>3. QED
    BY <1>1, <1>2, <2>1, <2>2, SendingStep DEF Sending
<1>7. QED BY <1>5, <1>6

LEMMA SkipAuthAreaStep ==
  ASSUME IInv, SkipAuthArea
  PROVE  IInv'
<1>1. /\ pc = "handles" /\ pc' = "params" /\ todo' = job.params
      /\ UNCHANGED <<job, cmd, authAt, done, received, result>>
  BY DEF SkipAuthArea
<1>2. job \in Jobs
  BY <1>1, SendingState DEF Sending
<1>3. todo' \in Seq(Field)
  BY <1>1, <1>2, JobTypes
<1>4. QED
  BY <1>1, <1>2, <1>3, SendingState, SendingStep DEF Sending

LEMMA OpenAuthAreaStep ==
  ASSUME IInv, OpenAuthArea
  PROVE  IInv'
<1>1. /\ pc = "handles" /\ job.sessions # <<>> /\ authAt' = Len(cmd)
      /\ UNCHANGED <<job, received>>
  BY DEF OpenAuthArea
<1>2. /\ job \in Jobs /\ cmd \in Seq(Octet) /\ todo \in Seq(Field) /\ resp = <<>>
      /\ Len(cmd) >= HeaderSize /\ Len(cmd) <= CmdBufferSize /\ done = 0
  BY <1>1, SendingState DEF Sending
<1>3. Len(cmd) \in Nat /\ Len(cmd) \in 0 .. CmdBufferSize
  BY <1>2, SizeTypes
<1>4. CASE Room(4)
  <2>1. /\ cmd' = cmd \o Zeros(4) /\ todo' = AuthCommand(job.sessions[1])
        /\ done' = 1 /\ pc' = "auth" /\ UNCHANGED result
    BY <1>4 DEF OpenAuthArea
  <2>2. Zeros(4) \in Seq(Octet) /\ Len(Zeros(4)) = 4
    BY ZerosType
  <2>3. cmd' \in Seq(Octet) /\ Len(cmd') = Len(cmd) + 4
    BY <1>2, <2>1, <2>2, ConcatOctets
  <2>4. Len(cmd') <= CmdBufferSize /\ Len(cmd') >= HeaderSize
        /\ authAt' + 4 <= Len(cmd')
    BY <1>1, <1>2, <1>3, <1>4, <2>3, SizeTypes DEF Room
  <2>5. /\ Len(job.sessions) >= 1 /\ job.sessions[1] \in Seq(Octet)
        /\ Len(job.sessions[1]) <= U16Max
    <3>1. Len(job.sessions) # 0 /\ Len(job.sessions) \in 0 .. 3
      BY <1>1, <1>2, JobTypes, EmptySeq
    <3>2. 1 \in 1 .. Len(job.sessions)
      BY <3>1
    <3>3. job.sessions[1] \in Seq(Octet) /\ Len(job.sessions[1]) <= U16Max
      BY <1>2, <3>2, JobTypes, Zenon
    <3>4. QED BY <3>2, <3>3
  <2>6. todo' \in Seq(Field)
    BY <2>1, <2>5, AuthCommandType
  <2>7. QED
    BY <1>1, <1>2, <1>3, <2>1, <2>3, <2>4, <2>5, <2>6, SendingState, SendingStep
    DEF Sending
<1>5. CASE ~Room(4)
  <2>1. /\ pc' = "returned" /\ result' = Panic /\ UNCHANGED <<cmd, todo, done>>
    BY <1>5 DEF OpenAuthArea, Return
  <2>2. result'.kind \in {"error", "panic"}
    BY <2>1, Outcomes
  <2>3. QED
    BY <1>1, <1>2, <1>3, <2>1, <2>2, SendingStep DEF Sending
<1>6. QED BY <1>4, <1>5

LEMMA NextSessionStep ==
  ASSUME IInv, NextSession
  PROVE  IInv'
<1>1. /\ pc = "auth" /\ done < Len(job.sessions)
      /\ todo' = AuthCommand(job.sessions[done + 1]) /\ done' = done + 1
      /\ UNCHANGED <<pc, job, cmd, authAt, received, result>>
  BY DEF NextSession
<1>2. job \in Jobs /\ done \in 0 .. 3
  BY <1>1, SendingState DEF Sending
<1>3. Len(job.sessions) \in 0 .. 3
  BY <1>2, JobTypes
<1>4. done + 1 \in 1 .. Len(job.sessions) /\ done + 1 \in 0 .. 3
  BY <1>1, <1>2, <1>3
<1>5. todo' \in Seq(Field)
  BY <1>1, <1>2, <1>4, JobTypes, AuthCommandType
<1>6. QED
  BY <1>1, <1>2, <1>3, <1>4, <1>5, SendingState, SendingStep DEF Sending

LEMMA CloseAuthAreaStep ==
  ASSUME IInv, CloseAuthArea
  PROVE  IInv'
<1> DEFINE size == Len(cmd) - authAt - 4
<1>1. /\ pc = "auth" /\ pc' = "params" /\ todo' = job.params /\ done' = 0
      /\ cmd' = Patch(cmd, authAt, BE4(size))
      /\ UNCHANGED <<job, authAt, received, result>>
  BY DEF CloseAuthArea
<1>2. /\ job \in Jobs /\ cmd \in Seq(Octet) /\ authAt \in 0 .. CmdBufferSize
      /\ Len(cmd) <= CmdBufferSize /\ authAt + 4 <= Len(cmd)
      /\ Len(cmd) >= HeaderSize
  BY <1>1, SendingState DEF Sending
<1>3. Len(cmd) \in Nat
  BY <1>2
<1>4. size \in 0 .. U32Large /\ authAt \in Nat
  BY <1>2, <1>3, SizeTypes, U32Bound
<1>5. BE4(size) \in Seq(Octet) /\ Len(BE4(size)) = 4
  BY <1>4, BE4Type
<1>6. cmd' \in Seq(Octet) /\ Len(cmd') = Len(cmd)
  BY <1>1, <1>2, <1>4, <1>5, PatchType
<1>7. todo' \in Seq(Field)
  BY <1>1, <1>2, JobTypes
<1>8. QED
  BY <1>1, <1>2, <1>6, <1>7, SendingState, SendingStep DEF Sending

LEMMA MarshalSizeStep ==
  ASSUME IInv, MarshalSize
  PROVE  IInv'
<1> DEFINE header == Header(CommandTag(job), Len(cmd), job.code)
<1>1. /\ pc = "params" /\ pc' = "sent" /\ cmd' = Patch(cmd, 0, header)
      /\ UNCHANGED <<job, todo, authAt, done, received, result>>
  BY DEF MarshalSize
<1>2. /\ job \in Jobs /\ cmd \in Seq(Octet)
      /\ Len(cmd) <= CmdBufferSize /\ Len(cmd) >= HeaderSize
  BY <1>1, SendingState DEF Sending
<1>3. Len(cmd) \in Nat
  BY <1>2
<1>4. Len(cmd) \in 0 .. U32Large /\ 10 <= Len(cmd)
  BY <1>2, <1>3, SizeTypes, U32Bound
<1>5. header \in Seq(Octet) /\ Len(header) = 10
  BY <1>2, <1>4, JobTypes, HeaderType DEF CommandTag
<1> HIDE DEF header
<1>6. cmd' \in Seq(Octet) /\ Len(cmd') = Len(cmd)
  <2>1. 0 + Len(header) <= Len(cmd)
    BY <1>4, <1>5
  <2>2. QED BY <1>1, <1>2, <1>5, <2>1, PatchType
<1>7. QED
  BY <1>1, <1>2, <1>6, SendingState, SendingStep DEF Sending
-----------------------------------------------------------------------------
(* Parts of the response.                                                  *)

LEMMA PieceOf ==
  ASSUME NEW r \in Seq(Octet), NEW a \in Nat, NEW b \in Nat,
         a <= b, b <= Len(r)
  PROVE  /\ SubSeq(r, a + 1, b) \in Seq(Octet)
         /\ Len(SubSeq(r, a + 1, b)) = b - a
         /\ \A i \in 1 .. b - a : SubSeq(r, a + 1, b)[i] = r[a + i]
<1>1. \A i \in a + 1 .. b : r[i] \in Octet
  BY ElementOfSeq
<1>2. /\ SubSeq(r, a + 1, b) \in Seq(Octet)
      /\ Len(SubSeq(r, a + 1, b)) = IF a + 1 <= b THEN b - (a + 1) + 1 ELSE 0
      /\ \A i \in 1 .. b - (a + 1) + 1 : SubSeq(r, a + 1, b)[i] = r[a + 1 + i - 1]
  BY <1>1, SubSeqProperties
<1>3. QED BY <1>2

\* A prefix of a part, and what stays of it, are parts again.
LEMMA PieceOfPiece ==
  ASSUME NEW r \in Seq(Octet), NEW a \in Nat, NEW b \in Nat, NEW n \in Nat,
         a + n <= b, b <= Len(r)
  PROVE  /\ CanGet(SubSeq(r, a + 1, b), n)
         /\ Got(SubSeq(r, a + 1, b), n) = SubSeq(r, a + 1, a + n)
         /\ After(SubSeq(r, a + 1, b), n) = SubSeq(r, (a + n) + 1, b)
<1> DEFINE s == SubSeq(r, a + 1, b)
           front == SubSeq(r, a + 1, a + n)
           back == SubSeq(r, (a + n) + 1, b)
<1>1. /\ s \in Seq(Octet) /\ Len(s) = b - a
      /\ \A i \in 1 .. b - a : s[i] = r[a + i]
  BY PieceOf
<1>2. /\ front \in Seq(Octet) /\ Len(front) = n
      /\ \A i \in 1 .. n : front[i] = r[a + i]
  BY PieceOf
<1>3. /\ back \in Seq(Octet) /\ Len(back) = b - (a + n)
      /\ \A i \in 1 .. b - (a + n) : back[i] = r[(a + n) + i]
  BY PieceOf
<1> HIDE DEF s, front, back
<1>4. /\ SubSeq(s, 0 + 1, n) \in Seq(Octet) /\ Len(SubSeq(s, 0 + 1, n)) = n - 0
      /\ \A i \in 1 .. n - 0 : SubSeq(s, 0 + 1, n)[i] = s[0 + i]
  BY <1>1, PieceOf
<1>5. /\ SubSeq(s, n + 1, b - a) \in Seq(Octet)
      /\ Len(SubSeq(s, n + 1, b - a)) = b - a - n
      /\ \A i \in 1 .. b - a - n : SubSeq(s, n + 1, b - a)[i] = s[n + i]
  BY <1>1, PieceOf
<1>6. SubSeq(s, 1, n) = front
  BY <1>1, <1>2, <1>4, SeqEqual
<1>7. SubSeq(s, n + 1, Len(s)) = back
  BY <1>1, <1>3, <1>5, SeqEqual
<1>8. CanGet(s, n)
  BY <1>1 DEF CanGet
<1>9. QED BY <1>6, <1>7, <1>8 DEF Got, After, s, front, back

\* The bytes of a sized field: none, four, or as many as its first two say.
LEMMA ValueLength ==
  ASSUME NEW shape \in Shapes, NEW v \in Seq(Octet)
  PROVE  IsValue(shape, v) <=>
           /\ shape = "unit" => Len(v) = 0
           /\ shape = "u32" => Len(v) = 4
           /\ shape = "tpm2b" =>
                Len(v) >= 2 /\ Len(v) = 2 + U16(v) /\ U16(v) <= MaxBlob
<1>1. CASE shape = "unit"
  BY <1>1, EmptySeq DEF IsValue
<1>2. CASE shape = "u32"
  BY <1>2 DEF IsValue
<1>3. CASE shape = "tpm2b"
  <2>1. IsValue(shape, v) <=>
          \E n \in 0 .. MaxBlob : Len(v) = n + 2 /\ SubSeq(v, 1, 2) = BE2(n)
    BY <1>3 DEF IsValue
  <2>2. ASSUME NEW n \in 0 .. MaxBlob, Len(v) = n + 2, SubSeq(v, 1, 2) = BE2(n)
        PROVE  U16(v) = n
    <3>1. n \in 0 .. U16Max
      BY SizeTypes, U16Bound
    <3>2. v[1] = BE2(n)[1] /\ v[2] = BE2(n)[2]
      BY <2>2, SizeTypes
    <3>3. U16(v) = U16(BE2(n))
      BY <3>2 DEF U16
    <3>4. QED BY <3>1, <3>3, BE2Type
  <2>3. ASSUME Len(v) >= 2, Len(v) = 2 + U16(v), U16(v) <= MaxBlob
        PROVE  U16(v) \in 0 .. MaxBlob /\ SubSeq(v, 1, 2) = BE2(U16(v))
    <3>1. v[1] \in Nat /\ v[1] <= 255 /\ v[2] \in Nat /\ v[2] <= 255
      BY <2>3, OctetBound, ElementOfSeq
    <3>2. U16(v) \in Nat /\ U16(v) \div 256 = v[1] /\ U16(v) % 256 = v[2]
      <4>1. U16(v) = 256 * v[1] + v[2]
        BY DEF U16
      <4> DEFINE n == U16(v)  a == v[1]  b == v[2]
      <4>2. n = 256 * a + b /\ a \in Nat /\ b \in Nat /\ b <= 255
        BY <3>1, <4>1
      <4> HIDE DEF n, a, b
      <4>3. n \in Nat /\ n \div 256 = a /\ n % 256 = b
        BY <4>2, SMT
      <4>4. QED BY <4>3 DEF n, a, b
    <3>3. BE2(U16(v)) = <<v[1], v[2]>>
      BY <3>2 DEF BE2
    <3>4. SubSeq(v, 1, 2) = <<v[1], v[2]>>
      <4> DEFINE s == SubSeq(v, 0 + 1, 2)
      <4>1. /\ s \in Seq(Octet) /\ Len(s) = 2 - 0
            /\ \A i \in 1 .. 2 - 0 : s[i] = v[0 + i]
        BY <2>3, PieceOf
      <4> HIDE DEF s
      <4>2. s = <<s[1], s[2]>> /\ s[1] = v[1] /\ s[2] = v[2]
        BY <4>1
      <4>3. QED BY <4>2 DEF s
    <3>5. QED BY <2>3, <3>2, <3>3, <3>4, SizeTypes
  <2>4. QED BY <1>3, <2>1, <2>2, <2>3, SizeTypes
<1>4. QED BY <1>1, <1>2, <1>3 DEF Shapes

\* Of two values of the same shape that start alike neither is the longer.
LEMMA SameLength ==
  ASSUME NEW shape \in Shapes, NEW u \in Seq(Octet), NEW v \in Seq(Octet),
         IsValue(shape, u), IsValue(shape, v),
         Len(u) >= 2 /\ Len(v) >= 2 => u[1] = v[1] /\ u[2] = v[2]
  PROVE  Len(u) = Len(v)
BY ValueLength DEF Shapes, U16

-----------------------------------------------------------------------------
(* What a well-formed response is, byte by byte.                           *)

LEMMA LeadType ==
  ASSUME NEW j \in Jobs, NEW r
  PROVE  /\ Lead(j, r) \in Nat /\ Lead(j, r) >= 10 + 4 * j.respHandles
         /\ Lead(j, r) = 10 + 4 * j.respHandles
                            + (IF RespTag(r) = TagSessions THEN 4 ELSE 0)
<1>1. j.respHandles \in Nat
  BY JobTypes
<1>2. QED BY <1>1, SizeTypes DEF Lead

LEMMA TrailType ==
  ASSUME NEW j \in Jobs
  PROVE  /\ Len(j.sessions) \in Nat /\ Len(j.sessions) <= 3
         /\ Trail(j) \in Seq(Octet) /\ Len(Trail(j)) = 5 * Len(j.sessions)
         /\ \A i \in 1 .. 5 * Len(j.sessions) : Trail(j)[i] = AuthByte(i)
<1> DEFINE n == 5 * Len(j.sessions)
<1>1. Len(j.sessions) \in Nat /\ Len(j.sessions) <= 3
  <2>1. Len(j.sessions) \in 0 .. 3
    BY JobTypes, Zenon
  <2>2. \A k \in 0 .. 3 : k \in Nat /\ k <= 3
    OBVIOUS
  <2>3. QED BY <2>1, <2>2, Zenon
<1>2. n \in Nat
  BY <1>1
<1>3. Trail(j) = [i \in 1 .. n |-> AuthByte(i)]
  BY DEF Trail, AuthByte
<1>4. \A i \in 1 .. n : AuthByte(i) \in Octet
  BY OctetBound DEF AuthByte
<1> HIDE DEF n
<1>5. Trail(j) \in Seq(Octet) /\ Len(Trail(j)) = n
      /\ \A i \in 1 .. n : Trail(j)[i] = AuthByte(i)
  BY <1>2, <1>3, <1>4
<1>6. QED BY <1>1, <1>5 DEF n

\* The size of a response is a number, whatever its bytes are.
LEMMA SizeIsNat ==
  ASSUME NEW r \in Seq(Octet), Len(r) >= 10
  PROVE  RespSize(r) \in Nat
<1> DEFINE t == SubSeq(r, 2 + 1, Len(r))
<1>1. t \in Seq(Octet) /\ Len(t) >= 4
  BY PieceOf
<1> HIDE DEF t
<1>2. t[1] \in Nat /\ t[2] \in Nat /\ t[3] \in Nat /\ t[4] \in Nat
  <2>1. Len(t) \in Nat /\ \A k \in 1 .. 4 : k \in 1 .. Len(t)
    BY <1>1
  <2>2. \A k \in 1 .. 4 : t[k] \in Nat
    BY <1>1, <2>1, OctetBound, ElementOfSeq
  <2>3. QED BY <2>2
<1>3. U32(t) \in Nat
  <2>1. U32Large \in Nat
    BY U32Bound, SMT
  <2>2. CASE t[1] > 127
    BY <2>1, <2>2, SMT DEF U32
  <2>3. CASE ~(t[1] > 127)
    <3>1. U32(t) = 16777216 * t[1] + 65536 * t[2] + 256 * t[3] + t[4]
      BY <2>3, SMT DEF U32
    <3> DEFINE w == t[1]  x == t[2]  y == t[3]  z == t[4]
    <3>2. w \in Nat /\ x \in Nat /\ y \in Nat /\ z \in Nat
      BY <1>2
    <3> HIDE DEF w, x, y, z
    <3>3. 16777216 * w + 65536 * x + 256 * y + z \in Nat
      BY <3>2, SMT
    <3>4. QED BY <3>1, <3>3, SMT DEF w, x, y, z
  <2>4. QED BY <2>2, <2>3
<1>4. QED BY <1>3 DEF RespSize, After, t

\* The last bytes of a well-formed response are those of its sessions, and
\* the parameters are what is left before them.
LEMMA WellFormedParts ==
  ASSUME NEW j \in Jobs, NEW r \in Seq(Octet), Len(r) = RespBufferSize,
         WellFormed(j, r)
  PROVE  LET n == 5 * Len(j.sessions)
             v == SubSeq(r, Lead(j, r) + 1, RespSize(r) - n)
         IN /\ RespSize(r) \in Nat /\ RespSize(r) <= RespBufferSize
            /\ Lead(j, r) + n <= RespSize(r)
            /\ v \in Seq(Octet) /\ Len(v) = RespSize(r) - n - Lead(j, r)
            /\ \A i \in 1 .. Len(v) : v[i] = r[Lead(j, r) + i]
            /\ IsValue(j.resp, v)
            /\ \A i \in 1 .. n : r[RespSize(r) - n + i] = AuthByte(i)
<1> DEFINE n == 5 * Len(j.sessions)
           size == RespSize(r)
           lead == Lead(j, r)
           v == SubSeq(r, lead + 1, size - n)
<1>1. lead \in Nat /\ n \in Nat /\ size \in Nat
  BY LeadType, TrailType, SizeTypes, SizeIsNat
<1>2. lead + n <= size /\ size <= RespBufferSize
  BY <1>1, TrailType, SizeTypes DEF WellFormed
<1>3. IsValue(j.resp, v)
  BY TrailType DEF WellFormed, Params
<1>4. SubSeq(r, (size - n) + 1, size) = Trail(j)
  BY TrailType DEF WellFormed
<1> HIDE DEF n, size, lead
<1>5. size - n \in Nat /\ lead <= size - n /\ size - n <= Len(r) /\ size <= Len(r)
  BY <1>1, <1>2
<1>6. /\ v \in Seq(Octet) /\ Len(v) = size - n - lead
      /\ \A i \in 1 .. size - n - lead : v[i] = r[lead + i]
  BY <1>1, <1>5, PieceOf
<1>7. \A i \in 1 .. size - (size - n) :
        SubSeq(r, (size - n) + 1, size)[i] = r[(size - n) + i]
  BY <1>1, <1>5, PieceOf
<1>8. \A i \in 1 .. n : r[size - n + i] = AuthByte(i)
  <2>1. size - (size - n) = n
    BY <1>1
  <2>2. \A i \in 1 .. n : Trail(j)[i] = AuthByte(i)
    BY TrailType DEF n
  <2>3. QED BY <1>4, <1>7, <2>1, <2>2
<1>9. QED BY <1>1, <1>2, <1>3, <1>6, <1>8 DEF n, size, lead
-----------------------------------------------------------------------------
(* IInv is inductive: the exchange and the response.                       *)

LEMMA TransactStep ==
  ASSUME IInv, NEW r \in Seq(Octet), Len(r) <= RespBufferSize, Transact(r)
  PROVE  IInv'
<1>1. /\ pc = "sent" /\ pc' = "answered"
      /\ resp' = r \o Zeros(RespBufferSize - Len(r))
      /\ UNCHANGED <<sent, done, rest, handles, value, result>>
  BY DEF Transact
<1>2. UNCHANGED <<job, cmd, todo, authAt>>
  BY <1>1 DEF sent
<1>3. job \in Jobs /\ done = 0
  BY <1>1, SendingState DEF Sending
<1>4. r \in Seq(Octet) /\ Len(r) <= RespBufferSize /\ Len(r) \in Nat
  OBVIOUS
<1>5. RespBufferSize - Len(r) \in Nat
  BY <1>4, SizeTypes
<1>6. resp' \in Seq(Octet) /\ Len(resp') = RespBufferSize
  <2> DEFINE zeros == Zeros(RespBufferSize - Len(r))
  <2>1. zeros \in Seq(Octet) /\ Len(zeros) = RespBufferSize - Len(r)
    BY <1>5, ZerosType
  <2> HIDE DEF zeros
  <2>2. r \o zeros \in Seq(Octet) /\ Len(r \o zeros) = Len(r) + Len(zeros)
    BY <1>4, <2>1, ConcatOctets
  <2>3. Len(r) + Len(zeros) = RespBufferSize
    BY <1>4, <2>1, SizeTypes
  <2>4. QED BY <1>1, <2>2, <2>3 DEF zeros
<1>7. TypeOK'
  BY <1>1, <1>2, <1>6 DEF IInv, TypeOK, Steps
<1>8. Progress'
  BY <1>1, <1>2, <1>3, <1>6 DEF Progress, Sending, Receiving, Unmarshaling
<1>9. ReadSoFar' /\ ErrorCodeWins' /\ AcceptsExactlyWellFormed'
  BY <1>1 DEF ReadSoFar, ErrorCodeWins, AcceptsExactlyWellFormed, Unmarshaling
<1>10. QED BY <1>7, <1>8, <1>9 DEF IInv

LEMMA TransactFailsStep ==
  ASSUME IInv, TransactFails
  PROVE  IInv'
<1>1. /\ pc = "sent" /\ pc' = "returned"
      /\ result' = Error(BE4(TcsGeneralFailure))
      /\ UNCHANGED <<job, cmd, todo, authAt, done, received>>
  BY DEF TransactFails, Return, sent
<1>2. result'.kind = "error"
  BY <1>1, Outcomes
<1>3. QED
  BY <1>1, <1>2, SendingState, SendingStep DEF Sending

\* What IInv gives of a response that is being read.
LEMMA ReceivingState ==
  ASSUME IInv, pc \in Receiving
  PROVE  /\ job \in Jobs /\ resp \in Seq(Octet) /\ Len(resp) = RespBufferSize
         /\ rest \in Seq(Octet) /\ Len(rest) <= RespBufferSize
         /\ handles \in Seq(Octet) /\ value \in Seq(Octet)
         /\ result.kind \in {"none", "ok", "error", "panic"}
         /\ done \in 0 .. 3
         /\ IF pc = "sessions" THEN done <= Len(job.sessions) ELSE done = 0
         /\ ReadSoFar
BY DEF IInv, TypeOK, Progress, Receiving, Unmarshaling

\* A step that reads on has only to keep what is said of the response.
LEMMA ReceivingStep ==
  ASSUME IInv, pc \in Receiving, UNCHANGED <<sent, resp>>,
         pc' \in Receiving \cup {"returned"},
         rest' \in Seq(Octet), Len(rest') <= RespBufferSize,
         handles' \in Seq(Octet), value' \in Seq(Octet), done' \in 0 .. 3,
         result'.kind \in {"none", "ok", "error", "panic"},
         pc' \in Receiving \ {"sessions"} => done' = 0,
         pc' = "sessions" => done' <= Len(job.sessions),
         ReadSoFar',
         pc' = "returned" => ErrorCodeWins' /\ AcceptsExactlyWellFormed'
  PROVE  IInv'
<1>1. UNCHANGED <<job, cmd, todo, authAt, resp>>
  BY DEF sent
<1>2. TypeOK'
  BY <1>1 DEF IInv, TypeOK, Steps, Receiving, Unmarshaling
<1>3. Progress'
  BY <1>1, ReceivingState DEF Progress, Sending, Receiving, Unmarshaling
<1>4. ErrorCodeWins' /\ AcceptsExactlyWellFormed'
  BY DEF ErrorCodeWins, AcceptsExactlyWellFormed
<1>5. QED BY <1>2, <1>3, <1>4 DEF IInv

\* A call that refuses its response may do so, if the response is not
\* well-formed and the error is that of the TPM if it sent one.
LEMMA RefusingStep ==
  ASSUME IInv, pc \in Receiving, UNCHANGED <<sent, done, resp>>,
         rest' \in Seq(Octet), Len(rest') <= RespBufferSize,
         handles' \in Seq(Octet), value' \in Seq(Octet),
         pc' = "returned", result'.kind \in {"error", "panic"},
         ~WellFormed(job, resp),
         RespCode(resp) = BE4(0) \/ result' = Error(RespCode(resp))
  PROVE  IInv'
<1>1. UNCHANGED <<job, resp, done>>
  BY DEF sent
<1>2. ReadSoFar'
  BY DEF ReadSoFar, Unmarshaling
<1>3. ErrorCodeWins' /\ AcceptsExactlyWellFormed'
  BY <1>1 DEF ErrorCodeWins, AcceptsExactlyWellFormed
<1>4. done' \in 0 .. 3
  BY <1>1, ReceivingState
<1>5. QED
  BY <1>2, <1>3, <1>4, ReceivingStep DEF Receiving, Unmarshaling

LEMMA ReadHeaderStep ==
  ASSUME IInv, ReadHeader
  PROVE  IInv'
<1>1. /\ pc = "answered" /\ UNCHANGED <<sent, done, received>>
  BY DEF ReadHeader
<1>2. UNCHANGED <<job, cmd, todo, authAt, done, resp, rest, handles, value>>
  BY <1>1 DEF sent, received
<1>3. CASE RespCode(resp) = BE4(0)
  <2>1. pc' = "size" /\ UNCHANGED result
    BY <1>3 DEF ReadHeader
  <2>2. ReadSoFar'
    BY <1>2, <1>3, <2>1 DEF ReadSoFar, Unmarshaling
  <2>3. QED
    BY <1>1, <1>2, <2>1, <2>2, ReceivingState, ReceivingStep
    DEF Receiving, Unmarshaling
<1>4. CASE RespCode(resp) # BE4(0)
  <2>1. pc' = "returned" /\ result' = Error(RespCode(resp))
    BY <1>4 DEF ReadHeader, Return
  <2>2. ~WellFormed(job, resp)
    BY <1>4 DEF WellFormed
  <2>3. QED
    BY <1>1, <1>2, <2>1, <2>2, Outcomes, ReceivingState, RefusingStep
    DEF Receiving
<1>5. QED BY <1>3, <1>4

LEMMA CheckSizeStep ==
  ASSUME IInv, CheckSize
  PROVE  IInv'
<1>1. /\ pc = "size" /\ UNCHANGED <<sent, done, resp, handles, value>>
  BY DEF CheckSize
<1>2. UNCHANGED <<job, cmd, todo, authAt>>
  BY <1>1 DEF sent
<1>3. /\ RespCode(resp) = BE4(0) /\ resp \in Seq(Octet)
      /\ Len(resp) = RespBufferSize /\ job \in Jobs
  BY <1>1, ReceivingState DEF ReadSoFar, Receiving
<1>4. Size \in Nat
  BY <1>3, SizeTypes, SizeIsNat DEF Size
<1>5. CASE Size > RespBufferSize \/ Size < HeaderSize
  <2>1. /\ pc' = "returned" /\ UNCHANGED rest
        /\ result' = Error(BE4(TcsOutOfMemory)) \/ result' = Panic
    BY <1>5 DEF CheckSize, Return, Size
  <2>2. ~WellFormed(job, resp)
    <3>1. SUFFICES ASSUME WellFormed(job, resp) PROVE FALSE
      OBVIOUS
    <3>2. Lead(job, resp) + 5 * Len(job.sessions) <= Size /\ Size <= RespBufferSize
      BY <1>3, <3>1, WellFormedParts DEF Size
    <3>3. Lead(job, resp) \in Nat /\ Lead(job, resp) >= 10
      BY <1>3, LeadType, JobTypes
    <3>4. Len(job.sessions) \in Nat
      BY <1>3, TrailType
    <3>5. QED BY <1>4, <1>5, <3>2, <3>3, <3>4, SizeTypes
  <2>3. QED
    BY <1>1, <1>3, <2>1, <2>2, Outcomes, ReceivingState, RefusingStep
    DEF Receiving
<1>6. CASE ~(Size > RespBufferSize \/ Size < HeaderSize)
  <2>1. /\ rest' = SubSeq(resp, HeaderSize + 1, Size)
        /\ pc' = "respHandles" /\ UNCHANGED result
    BY <1>6 DEF CheckSize, Size
  <2>2. Size >= 10 /\ Size <= RespBufferSize
    BY <1>4, <1>6, SizeTypes
  <2>3. rest' \in Seq(Octet) /\ Len(rest') = Size - 10
    BY <1>3, <1>4, <2>1, <2>2, SizeTypes, PieceOf
  <2>4. Len(rest') <= RespBufferSize
    BY <1>4, <2>2, <2>3, SizeTypes
  <2>5. ReadSoFar'
    BY <1>1, <1>2, <1>3, <1>4, <2>1, <2>2, SizeTypes
    DEF ReadSoFar, Unmarshaling, Size, Piece
  <2>6. QED
    BY <1>1, <2>1, <2>3, <2>4, <2>5, ReceivingState, ReceivingStep
    DEF Receiving, Unmarshaling
<1>7. QED BY <1>5, <1>6

\* While the response is taken apart: where its parts are, as numbers.
LEMMA Layout ==
  ASSUME IInv, pc \in Unmarshaling
  PROVE  /\ job \in Jobs /\ resp \in Seq(Octet) /\ Len(resp) = RespBufferSize
         /\ RespCode(resp) = BE4(0)
         /\ RespBufferSize \in Nat /\ Size \in Nat
         /\ Size >= 10 /\ Size <= RespBufferSize
         /\ job.respHandles \in Nat
         /\ HandlesEnd \in Nat /\ HandlesEnd = 10 + 4 * job.respHandles
         /\ ParamsAt \in Nat /\ ParamsAt >= HandlesEnd
         /\ ParamsAt = HandlesEnd
                       + (IF RespTag(resp) = TagSessions THEN 4 ELSE 0)
<1>1. /\ job \in Jobs /\ resp \in Seq(Octet) /\ Len(resp) = RespBufferSize
      /\ RespCode(resp) = BE4(0) /\ Size \in HeaderSize .. RespBufferSize
  BY ReceivingState DEF ReadSoFar, Receiving
<1>2. Size \in Nat /\ Size >= 10 /\ Size <= RespBufferSize /\ RespBufferSize \in Nat
  BY <1>1, SizeTypes
<1>3. job.respHandles \in Nat
  BY <1>1, JobTypes
<1>4. HandlesEnd \in Nat /\ HandlesEnd = 10 + 4 * job.respHandles
  BY <1>3, SizeTypes DEF HandlesEnd
<1>5. /\ ParamsAt \in Nat /\ ParamsAt >= HandlesEnd
      /\ ParamsAt = HandlesEnd
                    + (IF RespTag(resp) = TagSessions THEN 4 ELSE 0)
  BY <1>1, <1>3, <1>4, LeadType DEF ParamsAt
<1>6. QED BY <1>1, <1>2, <1>3, <1>4, <1>5

\* The handles, the parameter size and the parameters come off the front.
LEMMA TakenOff ==
  ASSUME IInv, pc \in Unmarshaling, NEW a \in Nat, NEW n \in Nat,
         a <= Size, rest = Piece(a, Size)
  PROVE  /\ CanGet(rest, n) <=> a + n <= Size
         /\ CanGet(rest, n) =>
              /\ Got(rest, n) = Piece(a, a + n)
              /\ After(rest, n) = Piece(a + n, Size)
              /\ After(rest, n) \in Seq(Octet)
              /\ Len(After(rest, n)) = Size - (a + n)
              /\ Len(After(rest, n)) <= RespBufferSize
         /\ Got(rest, n) \in Seq(Octet)
         /\ Len(rest) = Size - a
<1>1. /\ resp \in Seq(Octet) /\ Len(resp) = RespBufferSize
      /\ RespBufferSize \in Nat /\ Size \in Nat /\ Size <= RespBufferSize
  BY Layout
<1>2. rest \in Seq(Octet) /\ Len(rest) = Size - a
  BY <1>1, PieceOf DEF Piece
<1>3. CanGet(rest, n) <=> a + n <= Size
  BY <1>1, <1>2 DEF CanGet
<1>4. CASE a + n <= Size
  <2>1. /\ Got(rest, n) = Piece(a, a + n)
        /\ After(rest, n) = Piece(a + n, Size)
    <3>1. Size <= Len(resp)
      BY <1>1
    <3> DEFINE b == Size
    <3>2. b \in Nat /\ a + n <= b /\ b <= Len(resp) /\ resp \in Seq(Octet)
      BY <1>1, <1>4, <3>1
    <3>3. rest = SubSeq(resp, a + 1, b)
      BY DEF Piece
    <3> HIDE DEF b
    <3>4. /\ Got(SubSeq(resp, a + 1, b), n) = SubSeq(resp, a + 1, a + n)
          /\ After(SubSeq(resp, a + 1, b), n) = SubSeq(resp, (a + n) + 1, b)
      BY <3>2, PieceOfPiece
    <3>5. QED BY <3>3, <3>4, Zenon DEF Piece, b
  <2>2. /\ Piece(a + n, Size) \in Seq(Octet)
        /\ Len(Piece(a + n, Size)) = Size - (a + n)
        /\ Piece(a, a + n) \in Seq(Octet)
    <3>1. a + n \in Nat /\ a <= a + n /\ a + n <= Len(resp) /\ Size <= Len(resp)
      BY <1>1, <1>4
    <3>2. QED BY <1>1, <1>4, <3>1, PieceOf DEF Piece
  <2>3. Size - (a + n) <= RespBufferSize
    BY <1>1
  <2>4. QED BY <1>2, <1>3, <2>1, <2>2, <2>3
<1>5. CASE ~(a + n <= Size)
  <2>1. Got(rest, n) = <<>>
    BY <1>3, <1>5 DEF Got
  <2>2. QED BY <1>2, <1>3, <1>5, <2>1
<1>6. QED BY <1>4, <1>5

\* A response that ends within its handles or sizes is not well-formed.
LEMMA TooShort ==
  ASSUME IInv, pc \in Unmarshaling, Size < ParamsAt
  PROVE  ~WellFormed(job, resp)
<1>1. /\ job \in Jobs /\ resp \in Seq(Octet) /\ Len(resp) = RespBufferSize
      /\ Size \in Nat /\ ParamsAt \in Nat
  BY Layout
<1>2. Len(job.sessions) \in Nat
  BY <1>1, TrailType
<1>3. WellFormed(job, resp) => ParamsAt + 5 * Len(job.sessions) <= Size
  BY <1>1, WellFormedParts DEF ParamsAt, Size
<1>4. QED BY <1>1, <1>2, <1>3

LEMMA ReadHandlesStep ==
  ASSUME IInv, ReadHandles
  PROVE  IInv'
<1> DEFINE n == 4 * job.respHandles
<1>1. /\ pc = "respHandles" /\ Unmarshal(n, "paramSize")
      /\ handles' = Got(rest, n) /\ UNCHANGED <<sent, done, resp, value>>
  BY DEF ReadHandles
<1>2. UNCHANGED <<job, cmd, todo, authAt, done>> /\ pc \in Unmarshaling
  BY <1>1 DEF sent, Unmarshaling
<1>3. /\ RespCode(resp) = BE4(0) /\ Size \in Nat /\ Size >= 10
      /\ Size <= RespBufferSize /\ RespBufferSize \in Nat
      /\ n \in Nat /\ HandlesEnd = 10 + n /\ HandlesEnd \in Nat
      /\ ParamsAt \in Nat /\ ParamsAt >= HandlesEnd
  BY <1>2, Layout
<1>4. rest = Piece(10, Size)
  BY <1>1, ReceivingState, SizeTypes DEF ReadSoFar, Receiving, Unmarshaling
<1>5. /\ CanGet(rest, n) <=> HandlesEnd <= Size
      /\ CanGet(rest, n) =>
           /\ Got(rest, n) = Piece(10, HandlesEnd)
           /\ After(rest, n) = Piece(HandlesEnd, Size)
           /\ After(rest, n) \in Seq(Octet)
           /\ Len(After(rest, n)) <= RespBufferSize
      /\ Got(rest, n) \in Seq(Octet)
  BY <1>2, <1>3, <1>4, TakenOff
<1> HIDE DEF n
<1>6. CASE CanGet(rest, n)
  <2>1. rest' = After(rest, n) /\ pc' = "paramSize" /\ UNCHANGED result
    BY <1>1, <1>6 DEF Unmarshal
  <2>2. HandlesEnd' = HandlesEnd /\ Size' = Size
    BY <1>1, <1>2 DEF HandlesEnd, Size
  <2>3. ReadSoFar'
    BY <1>1, <1>3, <1>5, <1>6, <2>1, <2>2, SizeTypes
    DEF ReadSoFar, Unmarshaling, Piece
  <2>4. QED
    BY <1>1, <1>2, <1>5, <1>6, <2>1, <2>3, ReceivingState, ReceivingStep
    DEF Receiving, Unmarshaling
<1>7. CASE ~CanGet(rest, n)
  <2>1. pc' = "returned" /\ result' = OutOfRoom /\ UNCHANGED rest
    BY <1>1, <1>7 DEF Unmarshal, Return
  <2>2. ~WellFormed(job, resp)
    BY <1>2, <1>3, <1>5, <1>7, TooShort
  <2>3. QED
    BY <1>1, <1>2, <1>3, <1>5, <2>1, <2>2, Outcomes, ReceivingState, RefusingStep
    DEF Receiving
<1>8. QED BY <1>6, <1>7

LEMMA ReadParamSizeStep ==
  ASSUME IInv, ReadParamSize
  PROVE  IInv'
<1>1. pc = "paramSize" /\ UNCHANGED <<sent, done, resp, handles, value>>
  BY DEF ReadParamSize
<1>2. UNCHANGED <<job, cmd, todo, authAt, done>> /\ pc \in Unmarshaling
  BY <1>1 DEF sent, Unmarshaling
<1>3. /\ RespCode(resp) = BE4(0) /\ Size \in Nat /\ Size >= 10
      /\ Size <= RespBufferSize /\ RespBufferSize \in Nat
      /\ HandlesEnd \in Nat /\ ParamsAt \in Nat
      /\ ParamsAt = HandlesEnd
                    + (IF RespTag(resp) = TagSessions THEN 4 ELSE 0)
  BY <1>2, Layout
<1>4. /\ HandlesEnd <= Size /\ rest = Piece(HandlesEnd, Size)
      /\ handles = Piece(HeaderSize, HandlesEnd)
  BY <1>1, ReceivingState DEF ReadSoFar, Receiving, Unmarshaling
<1>5. /\ HandlesEnd' = HandlesEnd /\ Size' = Size /\ ParamsAt' = ParamsAt
      /\ handles' = Piece(HeaderSize, HandlesEnd)'
  BY <1>1, <1>2, <1>4 DEF HandlesEnd, Size, ParamsAt, Piece
<1>6. /\ CanGet(rest, 4) <=> HandlesEnd + 4 <= Size
      /\ CanGet(rest, 4) =>
           /\ After(rest, 4) = Piece(HandlesEnd + 4, Size)
           /\ After(rest, 4) \in Seq(Octet)
           /\ Len(After(rest, 4)) <= RespBufferSize
  BY <1>2, <1>3, <1>4, TakenOff
<1>7. ASSUME pc' = "resp", UNCHANGED result, ParamsAt <= Size,
             rest' = Piece(ParamsAt, Size), rest' \in Seq(Octet),
             Len(rest') <= RespBufferSize
      PROVE  IInv'
  <2>1. ReadSoFar'
    BY <1>1, <1>3, <1>5, <1>7, SizeTypes DEF ReadSoFar, Unmarshaling, Piece
  <2>2. QED
    BY <1>1, <1>2, <1>7, <2>1, ReceivingState, ReceivingStep
    DEF Receiving, Unmarshaling
<1>8. CASE RespTag(resp) = TagSessions /\ CanGet(rest, 4)
  <2>1. rest' = After(rest, 4) /\ pc' = "resp" /\ UNCHANGED result
    BY <1>8 DEF ReadParamSize, Unmarshal
  <2>2. QED BY <1>3, <1>6, <1>7, <1>8, <2>1
<1>9. CASE RespTag(resp) = TagSessions /\ ~CanGet(rest, 4)
  <2>1. pc' = "returned" /\ result' = OutOfRoom /\ UNCHANGED rest
    BY <1>9 DEF ReadParamSize, Unmarshal, Return
  <2>2. ~WellFormed(job, resp)
    BY <1>2, <1>3, <1>6, <1>9, TooShort
  <2>3. QED
    BY <1>1, <1>2, <1>3, <2>1, <2>2, Outcomes, ReceivingState, RefusingStep
    DEF Receiving
<1>10. CASE RespTag(resp) # TagSessions
  <2>1. pc' = "resp" /\ UNCHANGED <<rest, result>>
    BY <1>10 DEF ReadParamSize
  <2>2. rest \in Seq(Octet) /\ Len(rest) <= RespBufferSize
    BY <1>2, ReceivingState DEF Receiving
  <2>3. QED BY <1>3, <1>4, <1>7, <1>10, <2>1, <2>2
<1>11. QED BY <1>8, <1>9, <1>10

LEMMA Tpm2bLenType ==
  ASSUME NEW s \in Seq(Octet)
  PROVE  /\ Tpm2bLen(s) \in Nat /\ Tpm2bLen(s) >= 2 /\ Len(s) \in Nat
         /\ Len(s) >= 2 => U16(s) \in Nat /\ Tpm2bLen(s) = 2 + U16(s)
         /\ Len(s) < 2 => Tpm2bLen(s) = 2
<1>1. Len(s) \in Nat
  OBVIOUS
<1>2. CASE Len(s) >= 2
  <2>1. s[1] \in Nat /\ s[2] \in Nat
    BY <1>2, OctetBound, ElementOfSeq
  <2>2. U16(s) \in Nat
    BY <2>1 DEF U16
  <2>3. Tpm2bLen(s) = 2 + U16(s)
    BY <1>2 DEF Tpm2bLen, CanGet
  <2>4. QED BY <1>1, <1>2, <2>2, <2>3
<1>3. CASE Len(s) < 2
  BY <1>1, <1>3 DEF Tpm2bLen, CanGet
<1>4. QED BY <1>1, <1>2, <1>3

\* The parameters of a well-formed response are there to be read.
LEMMA ValueFits ==
  ASSUME IInv, pc = "resp", WellFormed(job, resp)
  PROVE  /\ CanGet(rest, ParamLen(job.resp))
         /\ job.resp = "tpm2b" => Tpm2bLen(rest) <= 2 + MaxBlob
<1> DEFINE n == 5 * Len(job.sessions)
           v == SubSeq(resp, ParamsAt + 1, Size - n)
<1>1. /\ job \in Jobs /\ resp \in Seq(Octet) /\ Len(resp) = RespBufferSize
      /\ RespBufferSize \in Nat /\ Size \in Nat /\ Size <= RespBufferSize
      /\ ParamsAt \in Nat
  BY Layout DEF Unmarshaling
<1>2. n \in Nat
  BY <1>1, TrailType
<1>3. /\ ParamsAt + n <= Size /\ v \in Seq(Octet) /\ Len(v) = Size - n - ParamsAt
      /\ \A i \in 1 .. Len(v) : v[i] = resp[ParamsAt + i]
      /\ IsValue(job.resp, v)
  BY <1>1, WellFormedParts DEF ParamsAt, Size
<1>4. ParamsAt <= Size /\ rest = SubSeq(resp, ParamsAt + 1, Size)
  BY ReceivingState DEF ReadSoFar, Receiving, Unmarshaling, Piece
<1>5. /\ rest \in Seq(Octet) /\ Len(rest) = Size - ParamsAt
      /\ \A i \in 1 .. Size - ParamsAt : rest[i] = resp[ParamsAt + i]
  BY <1>1, <1>4, PieceOf
<1> HIDE DEF n, v
<1>6. Len(v) \in Nat /\ Len(v) <= Len(rest)
      /\ \A i \in 1 .. Len(v) : v[i] = rest[i]
  <2>1. Len(v) \in Nat /\ Len(v) <= Size - ParamsAt
    BY <1>1, <1>2, <1>3
  <2>2. Len(v) <= Len(rest)
    BY <1>5, <2>1
  <2>3. ASSUME NEW i \in 1 .. Len(v)
        PROVE  v[i] = rest[i]
    <3>1. i \in 1 .. Size - ParamsAt
      BY <1>1, <2>1
    <3>2. QED BY <1>3, <1>5, <3>1, Zenon
  <2>4. QED BY <2>1, <2>2, <2>3
<1>7. job.resp \in Shapes
  BY <1>1, JobTypes
<1>8. CASE job.resp = "unit"
  BY <1>5, <1>8 DEF ParamLen, CanGet
<1>9. CASE job.resp = "u32"
  BY <1>3, <1>6, <1>7, <1>9, ValueLength DEF ParamLen, CanGet
<1>10. CASE job.resp = "tpm2b"
  <2>1. Len(v) >= 2 /\ Len(v) = 2 + U16(v) /\ U16(v) <= MaxBlob
    BY <1>3, <1>7, <1>10, ValueLength
  <2>2. v[1] = rest[1] /\ v[2] = rest[2] /\ Len(rest) >= 2
    BY <1>5, <1>6, <2>1
  <2>3. U16(v) = U16(rest)
    BY <2>2 DEF U16
  <2>4. Tpm2bLen(rest) = Len(v) /\ Tpm2bLen(rest) <= 2 + MaxBlob
    BY <1>5, <2>1, <2>2, <2>3, Tpm2bLenType, SizeTypes
  <2>5. ParamLen(job.resp) = Tpm2bLen(rest)
    BY <1>10 DEF ParamLen
  <2>6. QED BY <1>6, <1>10, <2>4, <2>5 DEF CanGet
<1>11. QED BY <1>7, <1>8, <1>9, <1>10 DEF Shapes

LEMMA ReadRespStep ==
  ASSUME IInv, ReadResp
  PROVE  IInv'
<1> DEFINE n == ParamLen(job.resp)
           unfit == job.resp = "tpm2b" /\ Tpm2bLen(rest) > 2 + MaxBlob
<1>1. /\ pc = "resp" /\ value' = Got(rest, n)
      /\ UNCHANGED <<sent, done, resp, handles>>
      /\ IF unfit THEN Return(OutOfRoom) /\ UNCHANGED rest
         ELSE Unmarshal(n, "sessions")
  BY DEF ReadResp
<1>2. UNCHANGED <<job, cmd, todo, authAt, done>> /\ pc \in Unmarshaling
  BY <1>1 DEF sent, Unmarshaling
<1>3. /\ RespCode(resp) = BE4(0) /\ Size \in Nat /\ Size >= 10
      /\ Size <= RespBufferSize /\ RespBufferSize \in Nat
      /\ Len(resp) = RespBufferSize /\ resp \in Seq(Octet)
      /\ ParamsAt \in Nat /\ job \in Jobs /\ job.resp \in Shapes
  BY <1>2, Layout, JobTypes
<1>4. /\ ParamsAt <= Size /\ rest = Piece(ParamsAt, Size) /\ done = 0
      /\ handles = Piece(HeaderSize, HandlesEnd)
      /\ rest \in Seq(Octet) /\ Len(rest) <= RespBufferSize
  BY <1>1, ReceivingState DEF ReadSoFar, Receiving, Unmarshaling
<1>5. n \in Nat
  BY <1>3, <1>4, Tpm2bLenType DEF ParamLen, Shapes
<1>6. /\ CanGet(rest, n) <=> ParamsAt + n <= Size
      /\ CanGet(rest, n) =>
           /\ Got(rest, n) = Piece(ParamsAt, ParamsAt + n)
           /\ After(rest, n) = Piece(ParamsAt + n, Size)
           /\ After(rest, n) \in Seq(Octet)
           /\ Len(After(rest, n)) <= RespBufferSize
      /\ Got(rest, n) \in Seq(Octet) /\ Len(rest) = Size - ParamsAt
  BY <1>2, <1>3, <1>4, <1>5, TakenOff
<1>7. CASE ~unfit /\ CanGet(rest, n)
  <2>1. rest' = After(rest, n) /\ pc' = "sessions" /\ UNCHANGED result
    BY <1>1, <1>7 DEF Unmarshal
  <2>2. /\ value' \in Seq(Octet) /\ Len(value') = n
        /\ \A i \in 1 .. n : value'[i] = rest[i]
    <3>1. /\ Piece(ParamsAt, ParamsAt + n) \in Seq(Octet)
          /\ Len(Piece(ParamsAt, ParamsAt + n)) = n
          /\ \A i \in 1 .. n : Piece(ParamsAt, ParamsAt + n)[i] = resp[ParamsAt + i]
      <4> HIDE DEF n
      <4>1. ParamsAt + n <= Len(resp)
        <5>1. ParamsAt + n <= Size
          BY <1>6, <1>7
        <5>2. QED BY <1>3, <1>5, <5>1
      <4> DEFINE b == ParamsAt + n
      <4>2. b \in Nat /\ ParamsAt <= b /\ b <= Len(resp) /\ b - ParamsAt = n
        BY <1>3, <1>5, <4>1
      <4> HIDE DEF b
      <4>3. /\ SubSeq(resp, ParamsAt + 1, b) \in Seq(Octet)
            /\ Len(SubSeq(resp, ParamsAt + 1, b)) = b - ParamsAt
            /\ \A i \in 1 .. b - ParamsAt :
                 SubSeq(resp, ParamsAt + 1, b)[i] = resp[ParamsAt + i]
        BY <1>3, <4>2, PieceOf
      <4>4. QED BY <4>2, <4>3, Zenon DEF Piece, b
    <3>2. \A i \in 1 .. Size - ParamsAt : rest[i] = resp[ParamsAt + i]
      BY <1>3, <1>4, PieceOf DEF Piece
    <3>3. n <= Size - ParamsAt
      BY <1>3, <1>5, <1>6, <1>7
    <3>4. value' = Piece(ParamsAt, ParamsAt + n)
      BY <1>1, <1>6, <1>7, Zenon
    <3>5. ASSUME NEW i \in 1 .. n
          PROVE  value'[i] = rest[i]
      <4> HIDE DEF n
      <4>1. i \in 1 .. Size - ParamsAt
        BY <1>3, <1>5, <3>3
      <4>2. QED BY <3>1, <3>2, <3>4, <4>1, Zenon
    <3>6. QED BY <3>1, <3>4, <3>5, Zenon
  <2>3. IsValue(job.resp, value')
    <3>1. CASE job.resp = "unit"
      BY <1>3, <2>2, <3>1, ValueLength DEF ParamLen
    <3>2. CASE job.resp = "u32"
      BY <1>3, <2>2, <3>2, ValueLength DEF ParamLen
    <3>3. CASE job.resp = "tpm2b"
      <4>1. n = Tpm2bLen(rest) /\ n <= 2 + MaxBlob /\ n <= Len(rest)
        BY <1>4, <1>5, <1>7, <3>3, Tpm2bLenType, SizeTypes DEF ParamLen, CanGet
      <4>2. n = 2 + U16(rest) /\ n >= 2 /\ U16(rest) \in Nat
        BY <1>4, <4>1, Tpm2bLenType
      <4>3. U16(value') = U16(rest)
        BY <1>5, <2>2, <4>2 DEF U16
      <4>4. U16(rest) <= MaxBlob
        BY <4>1, <4>2, SizeTypes, U16Bound
      <4>5. QED BY <1>3, <2>2, <3>3, <4>2, <4>3, <4>4, ValueLength
    <3>4. QED BY <1>3, <3>1, <3>2, <3>3 DEF Shapes
  <2>4. /\ HandlesEnd' = HandlesEnd /\ Size' = Size /\ ParamsAt' = ParamsAt
        /\ ParamsEnd' = ParamsAt + n
    BY <1>1, <1>2, <2>2 DEF HandlesEnd, Size, ParamsAt, ParamsEnd
  <2>5. ReadSoFar'
    <3>1. done' = 0 /\ RespCode(resp') = BE4(0) /\ Size \in HeaderSize .. RespBufferSize
      BY <1>1, <1>2, <1>3, <1>4, SizeTypes
    <3>2. handles' = Piece(HeaderSize, HandlesEnd)'
      BY <1>1, <1>2, <1>4, <2>4 DEF Piece
    <3>3. /\ rest' = SubSeq(resp', (ParamsAt + n) + 1, Size)
          /\ value' = SubSeq(resp', ParamsAt + 1, ParamsAt + n)
      BY <1>1, <1>6, <1>7, <2>1 DEF Piece
    <3>4. IsValue(job'.resp, value')
      BY <1>2, <2>3
    <3>5. ParamsAt + n + 5 * 0 <= Size /\ ParamsAt + n + 5 * 0 = ParamsAt + n
          /\ 1 .. 5 * 0 = {}
      BY <1>3, <1>5, <1>6, <1>7
    <3>6. QED
      BY <2>1, <2>4, <3>1, <3>2, <3>3, <3>4, <3>5
      DEF ReadSoFar, Unmarshaling, Piece
  <2>6. done' \in 0 .. 3 /\ done' <= Len(job.sessions)
    BY <1>2, <1>3, <1>4, TrailType
  <2>7. QED
    BY <1>1, <1>2, <1>4, <1>6, <1>7, <2>1, <2>2, <2>5, <2>6,
       ReceivingState, ReceivingStep
    DEF Receiving, Unmarshaling
<1>8. CASE ~(~unfit /\ CanGet(rest, n))
  <2>1. pc' = "returned" /\ result' = OutOfRoom /\ UNCHANGED rest
    BY <1>1, <1>8 DEF Unmarshal, Return
  <2>2. Tpm2bLen(rest) \in Nat /\ MaxBlob \in Nat
    BY <1>4, Tpm2bLenType, SizeTypes, U16Bound
  <2>3. ~WellFormed(job, resp)
    BY <1>1, <1>8, <2>2, ValueFits
  <2>4. QED
    BY <1>1, <1>2, <1>3, <1>4, <1>6, <2>1, <2>3, Outcomes, ReceivingState,
       RefusingStep
    DEF Receiving
<1>9. QED BY <1>7, <1>8

\* Where the sessions of the response are, once its parameters are read.
LEMMA SessionsAt ==
  ASSUME IInv, pc = "sessions"
  PROVE  /\ job \in Jobs /\ resp \in Seq(Octet) /\ Len(resp) = RespBufferSize
         /\ RespBufferSize \in Nat /\ Size \in Nat /\ Size <= RespBufferSize
         /\ Size >= 10 /\ RespCode(resp) = BE4(0)
         /\ ParamsAt \in Nat /\ Len(value) \in Nat /\ ParamsEnd \in Nat
         /\ ParamsEnd = ParamsAt + Len(value)
         /\ value \in Seq(Octet) /\ value = SubSeq(resp, ParamsAt + 1, ParamsEnd)
         /\ \A i \in 1 .. Len(value) : value[i] = resp[ParamsAt + i]
         /\ IsValue(job.resp, value)
         /\ done \in 0 .. 3 /\ done <= Len(job.sessions)
         /\ Len(job.sessions) \in Nat /\ Len(job.sessions) <= 3
         /\ ParamsEnd + 5 * done <= Size
         /\ rest \in Seq(Octet) /\ Len(rest) = Size - (ParamsEnd + 5 * done)
         /\ Len(rest) <= RespBufferSize
         /\ rest = SubSeq(resp, (ParamsEnd + 5 * done) + 1, Size)
         /\ \A i \in 1 .. Len(rest) : rest[i] = resp[ParamsEnd + 5 * done + i]
         /\ \A i \in 1 .. 5 * done : resp[ParamsEnd + i] = AuthByte(i)
         /\ handles = Piece(HeaderSize, HandlesEnd)
<1>1. /\ job \in Jobs /\ resp \in Seq(Octet) /\ Len(resp) = RespBufferSize
      /\ RespBufferSize \in Nat /\ Size \in Nat /\ Size <= RespBufferSize
      /\ Size >= 10 /\ RespCode(resp) = BE4(0) /\ ParamsAt \in Nat
  BY Layout DEF Unmarshaling
<1>2. /\ done \in 0 .. 3 /\ done <= Len(job.sessions)
      /\ value \in Seq(Octet) /\ rest \in Seq(Octet) /\ Len(rest) <= RespBufferSize
      /\ ParamsEnd + 5 * done <= Size
      /\ rest = SubSeq(resp, (ParamsEnd + 5 * done) + 1, Size)
      /\ value = SubSeq(resp, ParamsAt + 1, ParamsEnd) /\ IsValue(job.resp, value)
      /\ \A i \in 1 .. 5 * done : resp[ParamsEnd + i] = AuthByte(i)
      /\ handles = Piece(HeaderSize, HandlesEnd)
  BY ReceivingState DEF ReadSoFar, Receiving, Unmarshaling, Piece
<1>3. Len(job.sessions) \in Nat /\ Len(job.sessions) <= 3
  BY <1>1, TrailType
<1>4. Len(value) \in Nat /\ ParamsEnd \in Nat /\ ParamsEnd = ParamsAt + Len(value)
  BY <1>1, <1>2 DEF ParamsEnd
<1>5. \A i \in 1 .. Len(value) : value[i] = resp[ParamsAt + i]
  <2>1. /\ ParamsAt <= ParamsEnd /\ ParamsEnd <= Len(resp)
        /\ ParamsEnd - ParamsAt = Len(value)
    BY <1>1, <1>2, <1>4
  <2>2. \A i \in 1 .. ParamsEnd - ParamsAt :
          SubSeq(resp, ParamsAt + 1, ParamsEnd)[i] = resp[ParamsAt + i]
    BY <1>1, <1>4, <2>1, PieceOf
  <2>3. QED BY <1>2, <2>1, <2>2, Zenon
<1>6. /\ Len(rest) = Size - (ParamsEnd + 5 * done)
      /\ \A i \in 1 .. Len(rest) : rest[i] = resp[ParamsEnd + 5 * done + i]
  <2> DEFINE a == ParamsEnd + 5 * done
  <2>1. a \in Nat /\ a <= Size /\ Size <= Len(resp)
    BY <1>1, <1>2, <1>4
  <2>2. rest = SubSeq(resp, a + 1, Size)
    BY <1>2
  <2> HIDE DEF a
  <2>3. /\ Len(SubSeq(resp, a + 1, Size)) = Size - a
        /\ \A i \in 1 .. Size - a : SubSeq(resp, a + 1, Size)[i] = resp[a + i]
    BY <1>1, <2>1, PieceOf
  <2>4. Len(rest) = Size - a /\ \A i \in 1 .. Len(rest) : rest[i] = resp[a + i]
    BY <2>2, <2>3, Zenon
  <2>5. QED BY <2>4 DEF a
<1>7. QED BY <1>1, <1>2, <1>3, <1>4, <1>5, <1>6

\* If the response is well-formed, the sessions follow what has been read as
\* the parameters, and nothing follows them.
LEMMA SessionsFollow ==
  ASSUME IInv, pc = "sessions", WellFormed(job, resp)
  PROVE  /\ Size = ParamsEnd + 5 * Len(job.sessions)
         /\ \A i \in 1 .. 5 * Len(job.sessions) : resp[ParamsEnd + i] = AuthByte(i)
<1> DEFINE n == 5 * Len(job.sessions)
           v == SubSeq(resp, ParamsAt + 1, Size - n)
<1>1. /\ job \in Jobs /\ resp \in Seq(Octet) /\ Len(resp) = RespBufferSize
      /\ Size \in Nat /\ ParamsAt \in Nat
      /\ Len(value) \in Nat /\ ParamsEnd = ParamsAt + Len(value)
      /\ value \in Seq(Octet) /\ IsValue(job.resp, value)
      /\ \A i \in 1 .. Len(value) : value[i] = resp[ParamsAt + i]
      /\ n \in Nat
  <2>1. n \in Nat
    <3>1. Len(job.sessions) \in Nat
      BY SessionsAt, Zenon
    <3>2. QED BY <3>1
  <2>2. QED BY SessionsAt, <2>1, Zenon
<1>2. /\ ParamsAt + n <= Size /\ v \in Seq(Octet) /\ Len(v) = Size - n - ParamsAt
      /\ \A i \in 1 .. Len(v) : v[i] = resp[ParamsAt + i]
      /\ IsValue(job.resp, v)
      /\ \A i \in 1 .. n : resp[Size - n + i] = AuthByte(i)
  BY <1>1, WellFormedParts DEF ParamsAt, Size
<1>3. job.resp \in Shapes
  BY <1>1, JobTypes
<1> HIDE DEF n, v
<1>4. Len(v) >= 2 /\ Len(value) >= 2 => v[1] = value[1] /\ v[2] = value[2]
  BY <1>1, <1>2
<1>5. Len(v) = Len(value)
  BY <1>1, <1>2, <1>3, <1>4, SameLength
<1>6. Size - n = ParamsEnd /\ Size = ParamsEnd + n
  BY <1>1, <1>2, <1>5
<1>7. \A i \in 1 .. n : resp[ParamsEnd + i] = AuthByte(i)
  BY <1>2, <1>6
<1>8. QED BY <1>6, <1>7 DEF n

\* The five bytes of a sound TpmsAuthResponse.
LEMMA SoundSession ==
  ASSUME NEW s \in Seq(Octet), Len(s) >= 5
  PROVE  /\ Tpm2bLen(s) = 2 => s[1] = 0 /\ s[2] = 0
         /\ Tpm2bLen(After(s, 3)) = 2 => s[4] = 0 /\ s[5] = 0
         /\ (\A i \in 1 .. 5 : s[i] = AuthByte(i)) =>
              Tpm2bLen(s) = 2 /\ s[3] = 1 /\ Tpm2bLen(After(s, 3)) = 2
<1> DEFINE t == SubSeq(s, 3 + 1, Len(s))
<1>1. Len(s) \in Nat
  OBVIOUS
<1>2. /\ t \in Seq(Octet) /\ Len(t) = Len(s) - 3
      /\ \A i \in 1 .. Len(s) - 3 : t[i] = s[3 + i]
  BY <1>1, PieceOf
<1> HIDE DEF t
<1>3. t[1] = s[4] /\ t[2] = s[5] /\ Len(t) >= 2
  BY <1>1, <1>2
<1>4. /\ s[1] \in Nat /\ s[2] \in Nat /\ s[4] \in Nat /\ s[5] \in Nat
  BY <1>1, OctetBound, ElementOfSeq
<1>5. Tpm2bLen(s) = 2 + (256 * s[1] + s[2])
  BY <1>1, Tpm2bLenType DEF U16
<1>6. Tpm2bLen(t) = 2 + (256 * s[4] + s[5])
  BY <1>2, <1>3, Tpm2bLenType DEF U16
<1>7. After(s, 3) = t
  BY DEF After, t
<1>8. AuthByte(1) = 0 /\ AuthByte(2) = 0 /\ AuthByte(3) = 1
      /\ AuthByte(4) = 0 /\ AuthByte(5) = 0
  BY DEF AuthByte
<1>9. \A a, b \in Nat : 2 + (256 * a + b) = 2 <=> a = 0 /\ b = 0
  OBVIOUS
<1>10. Tpm2bLen(s) = 2 <=> s[1] = 0 /\ s[2] = 0
  BY <1>4, <1>5, <1>9
<1>11. Tpm2bLen(t) = 2 <=> s[4] = 0 /\ s[5] = 0
  BY <1>4, <1>6, <1>9
<1>12. ASSUME \A i \in 1 .. 5 : s[i] = AuthByte(i)
       PROVE  s[1] = 0 /\ s[2] = 0 /\ s[3] = 1 /\ s[4] = 0 /\ s[5] = 0
  BY <1>8, <1>12
<1>13. QED BY <1>7, <1>10, <1>11, <1>12

\* The sessions read and the one that follows them are sound together.
LEMMA OneMoreSession ==
  ASSUME NEW at \in Nat, NEW k \in 0 .. 3,
         \A i \in 1 .. 5 * k : resp[at + i] = AuthByte(i),
         \A i \in 1 .. 5 : resp[at + 5 * k + i] = AuthByte(i)
  PROVE  \A i \in 1 .. 5 * (k + 1) : resp[at + i] = AuthByte(i)
<1> TAKE i \in 1 .. 5 * (k + 1)
<1>1. CASE i <= 5 * k
  BY <1>1
<1>2. CASE i > 5 * k
  <2> DEFINE m == i - 5 * k
  <2>1. m \in 1 .. 5 /\ i = 5 * k + m /\ at + i = at + 5 * k + m
    BY <1>2
  <2>2. AuthByte(i) = AuthByte(m)
    <3>1. i % 5 = m % 5
      BY <2>1, SMT
    <3>2. QED BY <3>1 DEF AuthByte
  <2> HIDE DEF m
  <2>3. resp[at + 5 * k + m] = AuthByte(m)
    BY <2>1
  <2>4. QED BY <2>1, <2>2, <2>3
<1>3. QED BY <1>1, <1>2

LEMMA ReadSessionStep ==
  ASSUME IInv, ReadSession
  PROVE  IInv'
<1> DEFINE nonce == Tpm2bLen(rest)
           hmac == Tpm2bLen(After(rest, nonce + 1))
           all == nonce + 1 + hmac
           refused == \/ ~CanGet(rest, all) \/ nonce > 2 + MaxBlob
                      \/ hmac > 2 + MaxBlob
                      \/ nonce # 2 \/ rest[nonce + 1] # 1 \/ hmac # 2
<1>1. /\ pc = "sessions" /\ done < Len(job.sessions)
      /\ UNCHANGED <<sent, resp, handles, value>>
      /\ IF refused
         THEN /\ pc' = "returned" /\ UNCHANGED <<rest, done>>
              /\ \/ result' = OutOfRoom \/ result' = Error(BE4(TcsBadParameter))
         ELSE /\ rest' = After(rest, all) /\ done' = done + 1
              /\ UNCHANGED <<pc, result>>
  BY DEF ReadSession, Return
<1>2. UNCHANGED <<job, cmd, todo, authAt>>
  BY <1>1 DEF sent
<1>3. /\ resp \in Seq(Octet) /\ Len(resp) = RespBufferSize
      /\ RespBufferSize \in Nat /\ Size \in Nat /\ Size <= RespBufferSize
      /\ Size >= 10 /\ RespCode(resp) = BE4(0) /\ ParamsEnd \in Nat
      /\ done \in 0 .. 3 /\ Len(job.sessions) \in Nat /\ Len(job.sessions) <= 3
      /\ ParamsEnd + 5 * done <= Size
      /\ rest \in Seq(Octet) /\ Len(rest) = Size - (ParamsEnd + 5 * done)
      /\ Len(rest) <= RespBufferSize
      /\ rest = Piece(ParamsEnd + 5 * done, Size)
      /\ \A i \in 1 .. Len(rest) : rest[i] = resp[ParamsEnd + 5 * done + i]
      /\ \A i \in 1 .. 5 * done : resp[ParamsEnd + i] = AuthByte(i)
      /\ handles = Piece(HeaderSize, HandlesEnd)
      /\ value = Piece(ParamsAt, ParamsEnd) /\ IsValue(job.resp, value)
  BY <1>1, SessionsAt DEF Piece
<1>4. handles \in Seq(Octet) /\ value \in Seq(Octet)
  BY <1>1, ReceivingState DEF Receiving, Unmarshaling
<1>5. MaxBlob \in Nat
  BY SizeTypes, U16Bound
<1>6. CASE ~refused
  <2>1. nonce = 2 /\ hmac = 2 /\ all = 5 /\ rest[3] = 1 /\ 5 <= Len(rest)
    BY <1>6 DEF CanGet
  <2>2. /\ rest' = After(rest, 5) /\ done' = done + 1 /\ pc' = "sessions"
        /\ UNCHANGED <<pc, result>>
    BY <1>1, <1>6, <2>1
  <2>3. \A i \in 1 .. 5 : rest[i] = AuthByte(i)
    <3>1. Tpm2bLen(rest) = 2 /\ Tpm2bLen(After(rest, 3)) = 2
      BY <2>1
    <3>2. rest[1] = 0 /\ rest[2] = 0 /\ rest[4] = 0 /\ rest[5] = 0
      BY <1>3, <2>1, <3>1, SoundSession
    <3>3. QED BY <2>1, <3>2 DEF AuthByte
  <2>4. \A i \in 1 .. 5 : resp[ParamsEnd + 5 * done + i] = AuthByte(i)
    <3> TAKE i \in 1 .. 5
    <3>1. i \in 1 .. Len(rest)
      BY <1>3, <2>1
    <3>2. QED BY <1>3, <2>3, <3>1, Zenon
  <2>5. \A i \in 1 .. 5 * (done + 1) : resp[ParamsEnd + i] = AuthByte(i)
    BY <1>3, <2>4, OneMoreSession
  <2>6. /\ ParamsEnd + 5 * done \in Nat
        /\ ParamsEnd + 5 * done + 5 <= Size
        /\ ParamsEnd + 5 * done + 5 = ParamsEnd + 5 * (done + 1)
    BY <1>3, <2>1
  <2>7. /\ After(rest, 5) = Piece(ParamsEnd + 5 * (done + 1), Size)
        /\ After(rest, 5) \in Seq(Octet) /\ Len(After(rest, 5)) <= RespBufferSize
    <3>1. CanGet(rest, 5)
      BY <2>1 DEF CanGet
    <3>2. /\ After(rest, 5) = Piece(ParamsEnd + 5 * done + 5, Size)
          /\ After(rest, 5) \in Seq(Octet) /\ Len(After(rest, 5)) <= RespBufferSize
      BY <1>1, <1>3, <2>6, <3>1, TakenOff DEF Unmarshaling
    <3>3. QED BY <2>6, <3>2
  <2>8. /\ HandlesEnd' = HandlesEnd /\ Size' = Size /\ ParamsAt' = ParamsAt
        /\ ParamsEnd' = ParamsEnd
    BY <1>1, <1>2 DEF HandlesEnd, Size, ParamsAt, ParamsEnd
  <2>9. ReadSoFar'
    <3>1. RespCode(resp') = BE4(0) /\ Size' \in HeaderSize .. RespBufferSize
      BY <1>1, <1>3, <2>8, SizeTypes
    <3>2. /\ handles' = Piece(HeaderSize, HandlesEnd)'
          /\ value' = Piece(ParamsAt, ParamsEnd)' /\ IsValue(job.resp, value)'
      BY <1>1, <1>2, <1>3, <2>8 DEF Piece
    <3>3. rest' = Piece(ParamsEnd + 5 * done, Size)'
      BY <1>1, <2>2, <2>7, <2>8 DEF Piece
    <3>4. (ParamsEnd + 5 * done <= Size)'
      BY <2>2, <2>6, <2>8
    <3>5. \A i \in 1 .. 5 * done' : resp'[ParamsEnd' + i] = AuthByte(i)
      BY <1>1, <2>2, <2>5, <2>8
    <3>6. QED
      BY <2>2, <3>1, <3>2, <3>3, <3>4, <3>5
      DEF ReadSoFar, Unmarshaling, AuthByte
  <2>10. done' \in 0 .. 3 /\ done' <= Len(job.sessions)
    BY <1>1, <1>3, <2>2
  <2>11. QED
    BY <1>1, <1>2, <1>4, <2>2, <2>7, <2>9, <2>10, ReceivingState, ReceivingStep
    DEF Receiving, Unmarshaling
<1>7. CASE refused
  <2>1. /\ pc' = "returned" /\ UNCHANGED <<rest, done>>
        /\ result' = OutOfRoom \/ result' = Error(BE4(TcsBadParameter))
    BY <1>1, <1>7
  <2>2. ~WellFormed(job, resp)
    <3>1. SUFFICES ASSUME WellFormed(job, resp) PROVE ~refused
      BY <1>7
    <3>2. /\ Size = ParamsEnd + 5 * Len(job.sessions)
          /\ \A i \in 1 .. 5 * Len(job.sessions) :
               resp[ParamsEnd + i] = AuthByte(i)
      BY <1>1, <3>1, SessionsFollow
    <3>3. Len(rest) >= 5
      BY <1>1, <1>3, <3>2
    <3>4. \A i \in 1 .. 5 : rest[i] = AuthByte(i)
      <4> TAKE i \in 1 .. 5
      <4>1. rest[i] = resp[ParamsEnd + 5 * done + i]
        BY <1>3, <3>3
      <4>2. 5 * done + i \in 1 .. 5 * Len(job.sessions)
            /\ ParamsEnd + 5 * done + i = ParamsEnd + (5 * done + i)
        BY <1>1, <1>3
      <4>3. resp[ParamsEnd + (5 * done + i)] = AuthByte(5 * done + i)
        BY <3>2, <4>2
      <4>4. (5 * done + i) % 5 = i % 5
        BY <1>3, SMT
      <4>5. AuthByte(5 * done + i) = AuthByte(i)
        BY <4>4 DEF AuthByte
      <4>6. QED BY <4>1, <4>2, <4>3, <4>5
    <3>5. nonce = 2 /\ rest[3] = 1 /\ Tpm2bLen(After(rest, 3)) = 2
      BY <1>3, <3>3, <3>4, SoundSession
    <3>6. hmac = 2 /\ all = 5
      BY <3>5
    <3>7. QED BY <1>3, <1>5, <3>3, <3>5, <3>6 DEF CanGet
  <2>3. QED
    BY <1>1, <1>2, <1>3, <1>4, <2>1, <2>2, Outcomes, RefusingStep
    DEF Receiving, Unmarshaling
<1>8. QED BY <1>6, <1>7

LEMMA FinishStep ==
  ASSUME IInv, Finish
  PROVE  IInv'
<1> DEFINE n == 5 * Len(job.sessions)
<1>1. /\ pc = "sessions" /\ pc' = "returned" /\ done = Len(job.sessions)
      /\ UNCHANGED <<sent, done, received>>
      /\ result' = IF rest = <<>> THEN Ok(handles, value)
                                  ELSE Error(BE4(TcsTpmUnexpected))
  BY DEF Finish, Return
<1>2. UNCHANGED <<job, cmd, todo, authAt, done, resp, rest, handles, value>>
  BY <1>1 DEF sent, received
<1>3. /\ job \in Jobs /\ resp \in Seq(Octet) /\ Len(resp) = RespBufferSize
      /\ Size \in Nat /\ Size <= RespBufferSize /\ RespCode(resp) = BE4(0)
      /\ ParamsAt \in Nat /\ ParamsEnd \in Nat /\ Len(value) \in Nat
      /\ ParamsEnd = ParamsAt + Len(value)
      /\ value = Piece(ParamsAt, ParamsEnd) /\ IsValue(job.resp, value)
      /\ n \in Nat /\ ParamsEnd + n <= Size
      /\ rest \in Seq(Octet) /\ Len(rest) = Size - (ParamsEnd + n)
      /\ \A i \in 1 .. n : resp[ParamsEnd + i] = AuthByte(i)
      /\ handles = Piece(HeaderSize, HandlesEnd)
  <2>1. 5 * done = n /\ n \in Nat
    BY <1>1, SessionsAt
  <2> HIDE DEF n
  <2>2. QED BY <1>1, <2>1, SessionsAt DEF Piece
<1>4. /\ rest \in Seq(Octet) /\ Len(rest) <= RespBufferSize
      /\ handles \in Seq(Octet) /\ value \in Seq(Octet)
  BY <1>1, ReceivingState DEF Receiving, Unmarshaling
<1>5. CASE rest # <<>>
  <2>1. ~WellFormed(job, resp)
    <3>1. Len(rest) # 0
      BY <1>3, <1>5, EmptySeq
    <3>2. Size # ParamsEnd + n
      <4>1. /\ Len(rest) = Size - (ParamsEnd + n) /\ Size \in Nat
            /\ n \in Nat /\ ParamsEnd \in Nat
        BY <1>3
      <4> HIDE DEF n
      <4>2. ParamsEnd + n \in Nat
        BY <4>1
      <4>3. \A x, y \in Nat : x = y => x - y = 0
        OBVIOUS
      <4>4. QED BY <3>1, <4>1, <4>2, <4>3, Zenon
    <3>3. WellFormed(job, resp) => Size = ParamsEnd + 5 * Len(job.sessions)
      BY <1>1, SessionsFollow
    <3>4. QED BY <3>2, <3>3
  <2>2. QED
    BY <1>1, <1>2, <1>3, <1>4, <1>5, <2>1, Outcomes, RefusingStep
    DEF Receiving, Unmarshaling
<1>6. CASE rest = <<>>
  <2>1. Size - n = ParamsEnd /\ Size = ParamsEnd + n
    <3>1. Len(rest) = 0
      BY <1>6, EmptySeq
    <3> HIDE DEF n
    <3>2. QED BY <1>3, <3>1
  <2>2. Params(job, resp) = value
    <3>1. RespSize(resp) - Len(Trail(job)) = ParamsEnd
      BY <1>3, <2>1, TrailType DEF Size
    <3>2. QED BY <1>3, <3>1 DEF Params, Piece, ParamsAt
  <2>3. SubSeq(resp, RespSize(resp) - Len(Trail(job)) + 1, RespSize(resp)) = Trail(job)
    <3> DEFINE last == SubSeq(resp, ParamsEnd + 1, ParamsEnd + n)
               trail == Trail(job)
    <3>1. RespSize(resp) - Len(trail) = ParamsEnd /\ RespSize(resp) = ParamsEnd + n
      BY <1>3, <2>1, TrailType DEF Size
    <3>2. /\ trail \in Seq(Octet) /\ Len(trail) = n
          /\ \A i \in 1 .. n : trail[i] = AuthByte(i)
      BY <1>3, TrailType
    <3> HIDE DEF n, trail
    <3>3. ParamsEnd + n \in Nat /\ ParamsEnd <= ParamsEnd + n
          /\ ParamsEnd + n <= Len(resp) /\ ParamsEnd + n - ParamsEnd = n
      BY <1>3, <2>1
    <3>4. /\ last \in Seq(Octet) /\ Len(last) = n
          /\ \A i \in 1 .. n : last[i] = resp[ParamsEnd + i]
      BY <1>3, <3>3, PieceOf
    <3> HIDE DEF last
    <3>5. \A i \in 1 .. Len(last) : last[i] = trail[i]
      BY <1>3, <3>2, <3>4
    <3>6. last = trail
      BY <3>2, <3>4, <3>5, SeqEqual
    <3>7. QED BY <3>1, <3>6 DEF last, trail
  <2>4. RespSize(resp) \in Lead(job, resp) + Len(Trail(job)) .. RespBufferSize
    <3>1. Size \in ParamsAt + n .. RespBufferSize
      <4> HIDE DEF n
      <4>1. ParamsAt + n <= Size
        BY <1>3, <2>1
      <4>2. QED BY <1>3, <4>1, SizeTypes
    <3>2. Len(Trail(job)) = n
      BY <1>3, TrailType
    <3>3. QED BY <3>1, <3>2, Zenon DEF Size, ParamsAt
  <2>5. WellFormed(job, resp)
    BY <1>3, <2>2, <2>3, <2>4 DEF WellFormed
  <2>6. handles = SubSeq(resp, 11, 10 + 4 * job.respHandles)
    <3>1. HeaderSize + 1 = 11 /\ HandlesEnd = 10 + 4 * job.respHandles
      BY SizeTypes DEF HandlesEnd
    <3>2. QED BY <1>3, <3>1 DEF Piece
  <2>7. result' = Ok(SubSeq(resp, 11, 10 + 4 * job.respHandles), Params(job, resp))
    BY <1>1, <1>6, <2>2, <2>6
  <2>8. ErrorCodeWins' /\ AcceptsExactlyWellFormed'
    <3>1. result' = Reading(job, resp)
      BY <2>7 DEF Reading, HeaderSize
    <3>2. QED BY <1>2, <1>3, <2>5, <3>1 DEF ErrorCodeWins, AcceptsExactlyWellFormed
  <2>9. ReadSoFar'
    BY <1>1 DEF ReadSoFar, Unmarshaling
  <2>10. result'.kind = "ok" /\ done' \in 0 .. 3
    <3>1. result'.kind = "ok"
      BY <2>7, Outcomes
    <3>2. done' \in 0 .. 3
      BY <1>1, <1>2, SessionsAt
    <3>3. QED BY <3>1, <3>2
  <2>11. QED
    BY <1>1, <1>2, <1>4, <2>8, <2>9, <2>10, ReceivingStep
    DEF Receiving, Unmarshaling
<1>7. QED BY <1>5, <1>6

LEMMA CollectStep ==
  ASSUME IInv, Collect
  PROVE  IInv'
<1>1. /\ pc' = "idle" /\ job' = NoJob /\ result' = Pending
      /\ cmd' = <<>> /\ todo' = <<>> /\ authAt' = 0 /\ done' = 0
      /\ resp' = <<>> /\ rest' = <<>> /\ handles' = <<>> /\ value' = <<>>
  BY DEF Collect
<1>2. TypeOK'
  BY <1>1, SizeTypes, EmptySeq DEF TypeOK, Steps, Pending
<1>3. Progress'
  BY <1>1 DEF Progress, Sending, Receiving, Unmarshaling
<1>4. QED
  BY <1>1, <1>2, <1>3, Unanswered DEF IInv

LEMMA InitIInv == Init => IInv
<1> SUFFICES ASSUME Init PROVE IInv
  OBVIOUS
<1>1. /\ pc = "idle" /\ job = NoJob /\ result = Pending
      /\ cmd = <<>> /\ todo = <<>> /\ authAt = 0 /\ done = 0
      /\ resp = <<>> /\ rest = <<>> /\ handles = <<>> /\ value = <<>>
  BY DEF Init
<1>2. TypeOK
  BY <1>1, SizeTypes, EmptySeq DEF TypeOK, Steps, Pending
<1>3. Progress /\ ReadSoFar /\ ErrorCodeWins /\ AcceptsExactlyWellFormed
  BY <1>1 DEF Progress, ReadSoFar, ErrorCodeWins, AcceptsExactlyWellFormed,
              Sending, Receiving, Unmarshaling
<1>4. QED BY <1>2, <1>3 DEF IInv

LEMMA IInvStep == IInv /\ [Next]_vars => IInv'
<1> SUFFICES ASSUME IInv, [Next]_vars PROVE IInv'
  OBVIOUS
<1>1. ASSUME NEW j \in Jobs, Call(j) PROVE IInv'
  BY <1>1, CallStep
<1>2. CASE MarshalHeader
  BY <1>2, MarshalHeaderStep
<1>3. CASE MarshalField
  BY <1>3, MarshalFieldStep
<1>4. CASE SkipAuthArea
  BY <1>4, SkipAuthAreaStep
<1>5. CASE OpenAuthArea
  BY <1>5, OpenAuthAreaStep
<1>6. CASE NextSession
  BY <1>6, NextSessionStep
<1>7. CASE CloseAuthArea
  BY <1>7, CloseAuthAreaStep
<1>8. CASE MarshalSize
  BY <1>8, MarshalSizeStep
<1>9. ASSUME NEW r \in Responses, Transact(r) PROVE IInv'
  BY <1>9, ResponseAssumption, TransactStep
<1>10. CASE TransactFails
  BY <1>10, TransactFailsStep
<1>11. CASE ReadHeader
  BY <1>11, ReadHeaderStep
<1>12. CASE CheckSize
  BY <1>12, CheckSizeStep
<1>13. CASE ReadHandles
  BY <1>13, ReadHandlesStep
<1>14. CASE ReadParamSize
  BY <1>14, ReadParamSizeStep
<1>15. CASE ReadResp
  BY <1>15, ReadRespStep
<1>16. CASE ReadSession
  BY <1>16, ReadSessionStep
<1>17. CASE Finish
  BY <1>17, FinishStep
<1>18. CASE Collect
  BY <1>18, CollectStep
<1>19. CASE UNCHANGED vars
  <2>1. UNCHANGED <<pc, job, cmd, todo, authAt, done, resp, rest, handles, value,
                    result>>
    BY <1>19 DEF vars
  <2>2. TypeOK' /\ Progress'
    BY <2>1 DEF IInv, TypeOK, Progress
  <2>3. ReadSoFar'
    BY <2>1 DEF IInv, ReadSoFar, Piece, Size, HandlesEnd, ParamsAt, ParamsEnd
  <2>4. ErrorCodeWins' /\ AcceptsExactlyWellFormed'
    BY <2>1 DEF IInv, ErrorCodeWins, AcceptsExactlyWellFormed
  <2>5. QED BY <2>2, <2>3, <2>4 DEF IInv
<1>20. QED
  BY <1>1, <1>2, <1>3, <1>4, <1>5, <1>6, <1>7, <1>8, <1>9, <1>10, <1>11, <1>12,
     <1>13, <1>14, <1>15, <1>16, <1>17, <1>18, <1>19
  DEF Next, Step
-----------------------------------------------------------------------------
(* The theorems.                                                           *)

\* The invariant the others follow from: which part of the response has been
\* read, and what was found there.
THEOREM ReadPartByPart == Spec => []IInv
<1>1. Init => IInv
  BY InitIInv
<1>2. IInv /\ [Next]_vars => IInv'
  BY IInvStep
<1>3. QED BY <1>1, <1>2, PTL DEF Spec

\* run_command_with_handles keeps its variables' types: whatever the command
\* and the response, what it writes to a buffer or reads from one stays in it.
THEOREM TypeCorrect == Spec => []TypeOK
<1>1. IInv => TypeOK
  BY DEF IInv
<1>2. QED BY <1>1, ReadPartByPart, PTL

\* The response code of the TPM is the caller's error, whatever else is in
\* the response: read_response_header looks at the code before the size.
THEOREM CodeReachesCaller == Spec => []ErrorCodeWins
<1>1. IInv => ErrorCodeWins
  BY DEF IInv
<1>2. QED BY <1>1, ReadPartByPart, PTL

\* Reading from the front, part by part, with a check at each, accepts exactly
\* the responses that are well-formed as a whole, and returns their parts.
THEOREM FrontToBackIsWellFormed == Spec => []AcceptsExactlyWellFormed
<1>1. IInv => AcceptsExactlyWellFormed
  BY DEF IInv
<1>2. QED BY <1>1, ReadPartByPart, PTL
-----------------------------------------------------------------------------
(* The command.                                                            *)

\* The command up to its handles, before its size is known, and the first n of
\* its authorizations.
Begun(j) == Header(CommandTag(j), 0, j.code) \o FieldBytes(j.handles)
AuthsUpTo(j, n) == FlattenSeq([i \in 1 .. n |-> AuthBytes(j.sessions[i])])

\* What is in the buffer and what is still to come of the current part make up
\* the command so far, but for the sizes that are still zero.
Marshaled ==
  /\ pc = "handles" => cmd \o FieldBytes(todo) = Begun(job)
  /\ pc = "auth" =>
       /\ authAt = Len(Begun(job)) /\ done >= 1
       /\ cmd \o FieldBytes(todo) = Begun(job) \o Zeros(4) \o AuthsUpTo(job, done)
  /\ pc = "params" =>
       cmd \o FieldBytes(todo) =
         Begun(job) \o AuthArea(job) \o FieldBytes(job.params)
  /\ pc = "sent" => cmd = Command(job)
  /\ pc \in Receiving => Len(Command(job)) <= CmdBufferSize
-----------------------------------------------------------------------------
(* The bytes of fields.                                                    *)

Contents(fields) == [i \in DOMAIN fields |-> fields[i].bytes]

LEMMA FieldBytesOf == \A fields : FieldBytes(fields) = FlattenSeq(Contents(fields))
BY Zenon DEF FieldBytes, Contents

LEMMA ContentsType ==
  ASSUME NEW fields \in Seq(Field)
  PROVE  /\ Contents(fields) \in Seq(Seq(Octet))
         /\ Len(Contents(fields)) = Len(fields)
         /\ \A i \in 1 .. Len(fields) : Contents(fields)[i] = fields[i].bytes
<1>1. DOMAIN fields = 1 .. Len(fields) /\ Len(fields) \in Nat
  BY LenProperties
<1>2. \A i \in 1 .. Len(fields) : fields[i].bytes \in Seq(Octet)
  <2>1. \A i \in 1 .. Len(fields) : fields[i] \in Field
    BY ElementOfSeq
  <2>2. QED BY <2>1 DEF Field
<1> DEFINE bytes(i) == fields[i].bytes
<1>3. Contents(fields) = [i \in 1 .. Len(fields) |-> bytes(i)]
  BY <1>1, Zenon DEF Contents
<1>4. \A i \in 1 .. Len(fields) : bytes(i) \in Seq(Octet)
  BY <1>2
<1> HIDE DEF bytes
<1>5. /\ [i \in 1 .. Len(fields) |-> bytes(i)] \in Seq(Seq(Octet))
      /\ Len([i \in 1 .. Len(fields) |-> bytes(i)]) = Len(fields)
      /\ \A k \in 1 .. Len(fields) :
           [i \in 1 .. Len(fields) |-> bytes(i)][k] = bytes(k)
  BY <1>1, <1>4
<1>6. QED BY <1>3, <1>5 DEF bytes

LEMMA FieldBytesType ==
  ASSUME NEW fields \in Seq(Field)
  PROVE  FieldBytes(fields) \in Seq(Octet)
<1>1. Contents(fields) \in Seq(Seq(Octet))
  BY ContentsType
<1>2. QED BY <1>1, FieldBytesOf, FlattenType

LEMMA FieldBytesConcat ==
  ASSUME NEW s \in Seq(Field), NEW t \in Seq(Field)
  PROVE  FieldBytes(s \o t) = FieldBytes(s) \o FieldBytes(t)
<1> DEFINE a == Contents(s)
           b == Contents(t)
           c == Contents(s \o t)
<1>0. /\ s \o t \in Seq(Field) /\ Len(s \o t) = Len(s) + Len(t)
      /\ Len(s) \in Nat /\ Len(t) \in Nat
      /\ \A i \in 1 .. Len(s) : (s \o t)[i] = s[i]
      /\ \A i \in 1 .. Len(t) : (s \o t)[Len(s) + i] = t[i]
  BY ConcatParts
<1>1. /\ a \in Seq(Seq(Octet)) /\ Len(a) = Len(s)
      /\ \A i \in 1 .. Len(s) : a[i] = s[i].bytes
  BY ContentsType, Zenon
<1>2. /\ b \in Seq(Seq(Octet)) /\ Len(b) = Len(t)
      /\ \A i \in 1 .. Len(t) : b[i] = t[i].bytes
  BY ContentsType, Zenon
<1>3. /\ c \in Seq(Seq(Octet)) /\ Len(c) = Len(s) + Len(t)
      /\ \A i \in 1 .. Len(s) + Len(t) : c[i] = (s \o t)[i].bytes
  BY <1>0, ContentsType, Zenon
<1> HIDE DEF a, b, c
<1>4. c = a \o b
  <2>1. Len(c) = Len(a) + Len(b)
    BY <1>1, <1>2, <1>3
  <2>2. ASSUME NEW i \in 1 .. Len(a)
        PROVE  c[i] = a[i]
    <3>1. i \in 1 .. Len(s) /\ i \in 1 .. Len(s) + Len(t)
      BY <1>0, <1>1
    <3>2. c[i] = (s \o t)[i].bytes
      BY <1>3, <3>1
    <3>3. (s \o t)[i] = s[i]
      BY <1>0, <3>1
    <3>4. QED BY <1>1, <3>1, <3>2, <3>3
  <2>3. ASSUME NEW i \in 1 .. Len(b)
        PROVE  c[Len(a) + i] = b[i]
    <3>1. Len(s) + i \in 1 .. Len(s) + Len(t) /\ i \in 1 .. Len(t)
      BY <1>0, <1>2
    <3>2. c[Len(s) + i] = (s \o t)[Len(s) + i].bytes
      BY <1>3, <3>1
    <3>3. c[Len(s) + i] = t[i].bytes
      BY <1>0, <3>1, <3>2
    <3>4. QED BY <1>1, <1>2, <3>1, <3>3
  <2>4. QED BY <1>1, <1>2, <1>3, <2>1, <2>2, <2>3, ConcatIs
<1>5. FlattenSeq(a \o b) = FlattenSeq(a) \o FlattenSeq(b)
  BY <1>1, <1>2, FlattenConcat, Zenon
<1>6. QED BY <1>4, <1>5, FieldBytesOf DEF a, b, c

LEMMA FieldBytesEmpty == FieldBytes(<<>>) = <<>>
<1>1. Contents(<<>>) = <<>>
  <2>1. <<>> \in Seq(Field) /\ Len(<<>>) = 0
    BY EmptySeq
  <2>2. Contents(<<>>) \in Seq(Seq(Octet)) /\ Len(Contents(<<>>)) = 0
    BY <2>1, ContentsType
  <2>3. QED BY <2>2, EmptySeq
<1>2. QED BY <1>1, FieldBytesOf, FlattenEmpty

LEMMA FieldBytesOne ==
  ASSUME NEW field \in Field
  PROVE  FieldBytes(<<field>>) = field.bytes
<1>1. field.bytes \in Seq(Octet) /\ <<field>> \in Seq(Field)
  BY DEF Field
<1>2. /\ Contents(<<field>>) \in Seq(Seq(Octet)) /\ Len(Contents(<<field>>)) = 1
      /\ Contents(<<field>>)[1] = field.bytes
  <2>1. Len(<<field>>) = 1 /\ 1 \in 1 .. 1 /\ <<field>>[1] = field
    OBVIOUS
  <2>2. QED BY <1>1, <2>1, ContentsType
<1>3. Contents(<<field>>) = <<field.bytes>>
  <2> DEFINE c == Contents(<<field>>)
  <2> HIDE DEF c
  <2>1. c \in Seq(Seq(Octet)) /\ Len(c) = 1 /\ c[1] = field.bytes
    BY <1>2 DEF c
  <2>2. c = <<c[1]>>
    BY <2>1
  <2>3. QED BY <2>1, <2>2 DEF c
<1>4. FlattenSeq(<<field.bytes>>) = field.bytes
  BY <1>1, FlattenOne, Zenon
<1>5. QED BY <1>3, <1>4, FieldBytesOf

LEMMA FieldBytesHead ==
  ASSUME NEW fields \in Seq(Field), fields # <<>>
  PROVE  /\ Head(fields).bytes \in Seq(Octet) /\ Tail(fields) \in Seq(Field)
         /\ FieldBytes(fields) = Head(fields).bytes \o FieldBytes(Tail(fields))
<1>1. /\ Head(fields) \in Field /\ Tail(fields) \in Seq(Field)
      /\ fields = <<Head(fields)>> \o Tail(fields)
  BY HeadTailProperties
<1>2. <<Head(fields)>> \in Seq(Field)
  BY <1>1
<1>3. FieldBytes(<<Head(fields)>> \o Tail(fields))
        = FieldBytes(<<Head(fields)>>) \o FieldBytes(Tail(fields))
  BY <1>1, <1>2, FieldBytesConcat, Zenon
<1>4. FieldBytes(<<Head(fields)>>) = Head(fields).bytes
  BY <1>1, FieldBytesOne
<1>5. Head(fields).bytes \in Seq(Octet)
  BY <1>1 DEF Field
<1>6. QED BY <1>1, <1>3, <1>4, <1>5

LEMMA PrimBytes ==
  ASSUME NEW bytes \in Seq(Octet)
  PROVE  FieldBytes(Prim(bytes)) = bytes
<1>1. [bytes |-> bytes, refusal |-> OutOfRoom] \in Field
  BY DEF Field
<1>2. QED BY <1>1, FieldBytesOne DEF Prim

LEMMA Tpm2bBytes ==
  ASSUME NEW bytes \in Seq(Octet), Len(bytes) <= U16Max
  PROVE  FieldBytes(Tpm2b(bytes)) = BE2(Len(bytes)) \o bytes
<1> DEFINE size == BE2(Len(bytes))
           contents == [bytes |-> bytes, refusal |-> Panic]
<1>1. size \in Seq(Octet)
  <2>1. Len(bytes) \in 0 .. U16Max
    BY U16Bound
  <2>2. QED BY <2>1, BE2Type
<1>2. contents \in Field /\ contents.bytes = bytes
  BY DEF Field
<1>3. Tpm2b(bytes) = Prim(size) \o <<contents>>
  BY DEF Tpm2b
<1> HIDE DEF size, contents
<1>4. Prim(size) \in Seq(Field) /\ <<contents>> \in Seq(Field)
  BY <1>1, <1>2, PrimType
<1>5. FieldBytes(Prim(size) \o <<contents>>)
        = FieldBytes(Prim(size)) \o FieldBytes(<<contents>>)
  BY <1>4, FieldBytesConcat, Zenon
<1>6. FieldBytes(Prim(size)) = size /\ FieldBytes(<<contents>>) = bytes
  BY <1>1, <1>2, PrimBytes, FieldBytesOne
<1>7. QED BY <1>3, <1>5, <1>6 DEF size

\* A TpmsAuthCommand, as its fields are marshaled.
LEMMA AuthCommandBytes ==
  ASSUME NEW password \in Seq(Octet), Len(password) <= U16Max
  PROVE  /\ FieldBytes(AuthCommand(password)) = AuthBytes(password)
         /\ AuthBytes(password) \in Seq(Octet)
         /\ Len(AuthBytes(password)) <= 65544
<1> DEFINE nonce == Tpm2b(<<>>)
           hmac == Tpm2b(password)
           handle == Prim(RsPw)
           attributes == Prim(<<0>>)
           size == BE2(Len(password))
<1>1. RsPw \in Seq(Octet) /\ Len(RsPw) = 4
  <2>1. 1073741833 \in 0 .. U32Large
    BY U32Bound, SMT
  <2>2. QED BY <2>1, BE4Type DEF RsPw
<1>2. <<0>> \in Seq(Octet) /\ <<>> \in Seq(Octet) /\ Len(<<>>) = 0
      /\ <<0, 0>> \in Seq(Octet)
  BY OctetBound
<1>3. Len(<<>>) <= U16Max /\ Len(password) \in 0 .. U16Max
  BY <1>2, U16Bound
<1>4. size \in Seq(Octet) /\ Len(size) = 2
  BY <1>3, BE2Type
<1>5. /\ handle \in Seq(Field) /\ attributes \in Seq(Field)
      /\ nonce \in Seq(Field) /\ hmac \in Seq(Field)
  BY <1>1, <1>2, <1>3, PrimType, Tpm2bType
<1>6. /\ FieldBytes(handle) = RsPw /\ FieldBytes(attributes) = <<0>>
      /\ FieldBytes(hmac) = size \o password
  BY <1>1, <1>2, <1>3, PrimBytes, Tpm2bBytes
<1>7. FieldBytes(nonce) = <<0, 0>>
  <2>1. FieldBytes(nonce) = BE2(0) \o <<>>
    BY <1>2, <1>3, Tpm2bBytes
  <2>2. BE2(0) = <<0, 0>>
    BY SMT DEF BE2
  <2>3. QED BY <1>2, <2>1, <2>2, ConcatEmptySeq
<1>8. AuthCommand(password) = ((handle \o nonce) \o attributes) \o hmac
  BY DEF AuthCommand
<1> HIDE DEF nonce, hmac, handle, attributes, size
<1>9. FieldBytes(((handle \o nonce) \o attributes) \o hmac)
        = ((RsPw \o <<0, 0>>) \o <<0>>) \o (size \o password)
  <2>1. /\ handle \o nonce \in Seq(Field)
        /\ (handle \o nonce) \o attributes \in Seq(Field)
    BY <1>5, ConcatProperties
  <2>2. FieldBytes(((handle \o nonce) \o attributes) \o hmac)
          = FieldBytes((handle \o nonce) \o attributes) \o FieldBytes(hmac)
    BY <1>5, <2>1, FieldBytesConcat, Zenon
  <2>3. FieldBytes((handle \o nonce) \o attributes)
          = FieldBytes(handle \o nonce) \o FieldBytes(attributes)
    BY <1>5, <2>1, FieldBytesConcat, Zenon
  <2>4. FieldBytes(handle \o nonce) = FieldBytes(handle) \o FieldBytes(nonce)
    BY <1>5, FieldBytesConcat, Zenon
  <2>5. QED BY <1>6, <1>7, <2>2, <2>3, <2>4, Zenon
<1> DEFINE front == (RsPw \o <<0, 0>>) \o <<0>>
<1>10. front \in Seq(Octet) /\ Len(front) = 7
  <2>1. /\ front \in Seq(Octet)
        /\ Len(front) = Len(RsPw) + Len(<<0, 0>>) + Len(<<0>>)
    BY <1>1, <1>2, ThreeParts, ZenonT(60)
  <2>2. Len(<<0, 0>>) = 2 /\ Len(<<0>>) = 1
    OBVIOUS
  <2>3. QED BY <1>1, <2>1, <2>2
<1>11. AuthBytes(password) = (front \o size) \o password
  BY DEF AuthBytes, size
<1> HIDE DEF front
<1>12. (front \o size) \o password = front \o (size \o password)
  <2>1. front \in Seq(Octet) /\ size \in Seq(Octet) /\ password \in Seq(Octet)
    BY <1>4, <1>10
  <2>2. QED BY ONLY <2>1, ConcatThree, SMTT(30)
<1>13. /\ AuthBytes(password) \in Seq(Octet)
       /\ Len(AuthBytes(password)) = 7 + 2 + Len(password)
  <2>1. /\ front \o size \o password \in Seq(Octet)
        /\ Len(front \o size \o password)
             = Len(front) + Len(size) + Len(password)
    BY <1>4, <1>10, ThreeParts, ZenonT(60)
  <2>2. QED BY <1>4, <1>10, <1>11, <2>1
<1>14. Len(AuthBytes(password)) <= 65544
  BY <1>3, <1>13, U16Bound
<1>15. FieldBytes(AuthCommand(password)) = front \o (size \o password)
  BY <1>8, <1>9 DEF front
<1> HIDE DEF front
<1>16. FieldBytes(AuthCommand(password)) = AuthBytes(password)
  BY <1>11, <1>12, <1>15
<1>17. QED BY <1>13, <1>14, <1>16
-----------------------------------------------------------------------------
(* The authorization area.                                                 *)

LEMMA AuthType ==
  ASSUME NEW j \in Jobs, NEW i \in 1 .. Len(j.sessions)
  PROVE  /\ AuthBytes(j.sessions[i]) \in Seq(Octet)
         /\ Len(AuthBytes(j.sessions[i])) <= 65544
         /\ FieldBytes(AuthCommand(j.sessions[i])) = AuthBytes(j.sessions[i])
<1>1. j.sessions[i] \in Seq(Octet) /\ Len(j.sessions[i]) <= U16Max
  BY JobTypes, Zenon
<1>2. QED BY <1>1, AuthCommandBytes

LEMMA AuthsType ==
  ASSUME NEW j \in Jobs, NEW n \in 0 .. Len(j.sessions)
  PROVE  AuthsUpTo(j, n) \in Seq(Octet)
<1> DEFINE auth(i) == AuthBytes(j.sessions[i])
<1>1. \A i \in 1 .. n : auth(i) \in Seq(Octet)
  <2>1. \A i \in 1 .. n : i \in 1 .. Len(j.sessions)
    BY JobTypes
  <2>2. QED BY <2>1, AuthType
<1>2. n \in Nat
  BY JobTypes
<1> HIDE DEF auth
<1>3. [i \in 1 .. n |-> auth(i)] \in Seq(Seq(Octet))
  BY <1>1, <1>2
<1>4. QED BY <1>3, FlattenType DEF AuthsUpTo, auth

LEMMA NoAuths ==
  ASSUME NEW j
  PROVE  AuthsUpTo(j, 0) = <<>>
<1>1. [i \in 1 .. 0 |-> AuthBytes(j.sessions[i])] = <<>>
  OBVIOUS
<1>2. QED BY <1>1, FlattenEmpty DEF AuthsUpTo

\* One session more.
LEMMA AuthsNext ==
  ASSUME NEW j \in Jobs, NEW n \in Nat, n + 1 <= Len(j.sessions)
  PROVE  /\ AuthBytes(j.sessions[n + 1]) \in Seq(Octet)
         /\ Len(AuthBytes(j.sessions[n + 1])) <= 65544
         /\ AuthsUpTo(j, n + 1) = AuthsUpTo(j, n) \o AuthBytes(j.sessions[n + 1])
<1> DEFINE auth(i) == AuthBytes(j.sessions[i])
           next == auth(n + 1)
           before == [i \in 1 .. n |-> auth(i)]
           now == [i \in 1 .. n + 1 |-> auth(i)]
<1>1. \A i \in 1 .. n + 1 : auth(i) \in Seq(Octet) /\ Len(auth(i)) <= 65544
  <2>1. \A i \in 1 .. n + 1 : i \in 1 .. Len(j.sessions)
    BY JobTypes
  <2>2. QED BY <2>1, AuthType
<1>2. n + 1 \in 1 .. n + 1
  OBVIOUS
<1>3. AuthsUpTo(j, n) = FlattenSeq(before) /\ AuthsUpTo(j, n + 1) = FlattenSeq(now)
  BY DEF AuthsUpTo
<1> HIDE DEF auth
<1>4. /\ before \in Seq(Seq(Octet)) /\ Len(before) = n
      /\ now \in Seq(Seq(Octet)) /\ Len(now) = n + 1
      /\ \A i \in 1 .. n : before[i] = auth(i)
      /\ \A i \in 1 .. n + 1 : now[i] = auth(i)
  BY <1>1
<1>5. next \in Seq(Octet) /\ Len(next) <= 65544
  BY <1>1, <1>2
<1> HIDE DEF before, now
<1>6. now = Append(before, next)
  <2>1. /\ Append(before, next) \in Seq(Seq(Octet))
        /\ Len(Append(before, next)) = n + 1
        /\ \A i \in 1 .. n : Append(before, next)[i] = before[i]
        /\ Append(before, next)[n + 1] = next
    BY <1>4, <1>5, AppendProperties
  <2>2. ASSUME NEW i \in 1 .. n + 1
        PROVE  now[i] = Append(before, next)[i]
    BY <1>4, <2>1
  <2>3. QED BY <1>4, <2>1, <2>2, SeqEqual
<1>7. FlattenSeq(now) = FlattenSeq(before) \o next
  <2> HIDE DEF next
  <2>1. FlattenSeq(Append(before, next)) = FlattenSeq(before) \o next
    <3>1. before \in Seq(Seq(Octet)) /\ next \in Seq(Octet)
      BY <1>4, <1>5
    <3>2. QED BY <3>1, FlattenAppend
  <2>2. QED BY <1>6, <2>1, Zenon
<1>8. QED BY <1>3, <1>5, <1>7 DEF auth

\* There are three sessions at most, and the bytes of some are no more than
\* the bytes of all.
LEMMA AuthsLength ==
  ASSUME NEW j \in Jobs
  PROVE  /\ \A n \in 0 .. Len(j.sessions) :
              Len(AuthsUpTo(j, n)) <= Len(AuthsUpTo(j, Len(j.sessions)))
         /\ Len(AuthsUpTo(j, Len(j.sessions))) \in 0 .. U32Large
<1> DEFINE N == Len(j.sessions)
           L(n) == Len(AuthsUpTo(j, n))
<1>1. N \in 0 .. 3
  BY JobTypes
<1>2. L(0) = 0
  BY NoAuths, EmptySeq
<1>3. \A n \in 0 .. N : L(n) \in Nat
  BY AuthsType, LenProperties
<1>4. ASSUME NEW n \in Nat, n + 1 <= N
      PROVE  L(n) <= L(n + 1) /\ L(n + 1) <= L(n) + 65544
  <2> DEFINE next == AuthBytes(j.sessions[n + 1])
             before == AuthsUpTo(j, n)
  <2>1. /\ next \in Seq(Octet) /\ Len(next) <= 65544
        /\ AuthsUpTo(j, n + 1) = before \o next
    BY <1>4, AuthsNext
  <2>2. before \in Seq(Octet)
    <3>1. n \in 0 .. Len(j.sessions)
      BY <1>1, <1>4
    <3>2. QED BY <3>1, AuthsType
  <2> HIDE DEF next, before
  <2>3. Len(before \o next) = Len(before) + Len(next) /\ Len(next) \in Nat
        /\ Len(before) \in Nat
    BY <2>1, <2>2, ConcatOctets
  <2>4. QED BY <2>1, <2>3 DEF before
<1> HIDE DEF N, L
<1>5. /\ N >= 1 => L(0) <= L(1) /\ L(1) <= L(0) + 65544
      /\ N >= 2 => L(1) <= L(2) /\ L(2) <= L(1) + 65544
      /\ N >= 3 => L(2) <= L(3) /\ L(3) <= L(2) + 65544
  <2>1. /\ 0 + 1 = 1 /\ 1 + 1 = 2 /\ 2 + 1 = 3
        /\ 0 \in Nat /\ 1 \in Nat /\ 2 \in Nat
    OBVIOUS
  <2>2. QED BY <1>1, <1>4, <2>1
<1>6. ASSUME NEW n \in 0 .. N
      PROVE  L(n) <= L(N)
  <2>1. L(n) \in Nat /\ (n = 0 \/ n = 1 \/ n = 2 \/ n = 3)
        /\ (N = 0 \/ N = 1 \/ N = 2 \/ N = 3) /\ n <= N
    BY <1>1, <1>3
  <2>2. \A k \in 0 .. N : L(k) \in Nat
    BY <1>3
  <2>3. CASE N = 0
    BY <2>1, <2>2, <2>3
  <2>4. CASE N = 1
    BY <1>5, <2>1, <2>2, <2>4
  <2>5. CASE N = 2
    BY <1>5, <2>1, <2>2, <2>5
  <2>6. CASE N = 3
    BY <1>5, <2>1, <2>2, <2>6
  <2>7. QED BY <2>1, <2>3, <2>4, <2>5, <2>6
<1>7. L(N) <= 196632
  <2>1. L(N) \in Nat /\ (N = 0 \/ N = 1 \/ N = 2 \/ N = 3)
    BY <1>1, <1>3
  <2>2. \A k \in 0 .. N : L(k) \in Nat
    BY <1>3
  <2>3. QED BY <1>2, <1>5, <2>1, <2>2
<1>8. L(N) \in 0 .. U32Large
  BY <1>1, <1>3, <1>7, U32Bound
<1>9. QED BY <1>6, <1>8 DEF N, L

LEMMA AuthAreaOf ==
  ASSUME NEW j \in Jobs
  PROVE  /\ AuthArea(j) \in Seq(Octet)
         /\ j.sessions = <<>> => AuthArea(j) = <<>>
         /\ j.sessions # <<>> =>
              /\ Len(AuthArea(j)) = 4 + Len(AuthsUpTo(j, Len(j.sessions)))
              /\ AuthArea(j) = BE4(Len(AuthsUpTo(j, Len(j.sessions))))
                                \o AuthsUpTo(j, Len(j.sessions))
<1> DEFINE auths == AuthsUpTo(j, Len(j.sessions))
<1>1. DOMAIN j.sessions = 1 .. Len(j.sessions) /\ Len(j.sessions) \in 0 .. 3
  BY JobTypes, LenProperties
<1>2. auths = FlattenSeq([i \in DOMAIN j.sessions |-> AuthBytes(j.sessions[i])])
  BY <1>1 DEF AuthsUpTo
<1>3. AuthArea(j) = IF j.sessions = <<>> THEN <<>> ELSE BE4(Len(auths)) \o auths
  BY <1>2 DEF AuthArea
<1>4. auths \in Seq(Octet) /\ Len(auths) \in 0 .. U32Large
  <2>1. Len(j.sessions) \in 0 .. Len(j.sessions)
    BY <1>1
  <2>2. QED BY <2>1, AuthsType, AuthsLength
<1> HIDE DEF auths
<1>5. BE4(Len(auths)) \in Seq(Octet) /\ Len(BE4(Len(auths))) = 4
  BY <1>4, BE4Type
<1>6. BE4(Len(auths)) \o auths \in Seq(Octet)
      /\ Len(BE4(Len(auths)) \o auths) = 4 + Len(auths)
  BY <1>4, <1>5, ConcatOctets
<1>7. QED BY <1>3, <1>6, EmptySeq DEF auths
-----------------------------------------------------------------------------
(* The command as a whole.                                                 *)

LEMMA TagOf ==
  ASSUME NEW j
  PROVE  /\ CommandTag(j) \in {TagNoSessions, TagSessions}
         /\ Command(j) =
              Header(CommandTag(j), HeaderSize + Len(FieldBytes(j.handles)
                       \o AuthArea(j) \o FieldBytes(j.params)), j.code)
              \o (FieldBytes(j.handles) \o AuthArea(j) \o FieldBytes(j.params))
BY DEF CommandTag, Command

\* The header is ten bytes whatever the size in it.
LEMMA HeaderLength ==
  ASSUME NEW tag \in {TagNoSessions, TagSessions}, NEW size \in Nat,
         NEW code \in 0 .. U32Large
  PROVE  Header(tag, size, code) \in Seq(Int) /\ Len(Header(tag, size, code)) = 10
<1>1. code \in Nat /\ tag \in Nat
  BY U32Bound, SMT DEF TagNoSessions, TagSessions
<1>2. /\ BE2(tag) \in Seq(Int) /\ Len(BE2(tag)) = 2
      /\ BE4(size) \in Seq(Int) /\ Len(BE4(size)) = 4
      /\ BE4(code) \in Seq(Int) /\ Len(BE4(code)) = 4
  BY <1>1, SMT DEF BE2, BE4
<1> DEFINE a == BE2(tag)
           b == BE4(size)
           c == BE4(code)
<1>3. Header(tag, size, code) = (a \o b) \o c
  BY DEF Header
<1> HIDE DEF a, b, c
<1> DEFINE ab == a \o b
           abc == ab \o c
<1>4. /\ a \in Seq(Int) /\ Len(a) = 2 /\ b \in Seq(Int) /\ Len(b) = 4
      /\ c \in Seq(Int) /\ Len(c) = 4
  BY <1>2 DEF a, b, c
<1>5. ab \in Seq(Int) /\ Len(ab) = Len(a) + Len(b)
  BY <1>4, ConcatParts, Zenon
<1> HIDE DEF ab
<1>6. abc \in Seq(Int) /\ Len(abc) = Len(ab) + Len(c)
  <2>1. ab \in Seq(Int) /\ c \in Seq(Int)
    BY <1>4, <1>5
  <2>2. QED BY ONLY <2>1, ConcatParts
<1>7. Header(tag, size, code) = abc
  BY <1>3 DEF ab
<1> HIDE DEF abc
<1>8. QED BY <1>4, <1>5, <1>6, <1>7

LEMMA PartsType ==
  ASSUME NEW j \in Jobs
  PROVE  /\ FieldBytes(j.handles) \in Seq(Octet)
         /\ FieldBytes(j.params) \in Seq(Octet)
         /\ AuthArea(j) \in Seq(Octet)
         /\ Header(CommandTag(j), 0, j.code) \in Seq(Octet)
         /\ Len(Header(CommandTag(j), 0, j.code)) = 10
         /\ Begun(j) \in Seq(Octet)
         /\ Len(Begun(j)) = 10 + Len(FieldBytes(j.handles))
<1>1. FieldBytes(j.handles) \in Seq(Octet) /\ FieldBytes(j.params) \in Seq(Octet)
  BY JobTypes, FieldBytesType
<1>2. Header(CommandTag(j), 0, j.code) \in Seq(Octet)
      /\ Len(Header(CommandTag(j), 0, j.code)) = 10
  <2>1. 0 \in 0 .. U32Large
    BY U32Bound
  <2>2. QED BY <2>1, TagOf, JobTypes, HeaderType
<1>3. Begun(j) \in Seq(Octet) /\ Len(Begun(j)) = 10 + Len(FieldBytes(j.handles))
  BY <1>1, <1>2, ConcatOctets DEF Begun
<1>4. QED BY <1>1, <1>2, <1>3, AuthAreaOf

LEMMA CommandLength ==
  ASSUME NEW j \in Jobs
  PROVE  Len(Command(j)) = 10 + Len(FieldBytes(j.handles)) + Len(AuthArea(j))
                              + Len(FieldBytes(j.params))
<1> DEFINE h == FieldBytes(j.handles)
           a == AuthArea(j)
           p == FieldBytes(j.params)
           body == h \o a \o p
           header == Header(CommandTag(j), HeaderSize + Len(body), j.code)
<1>1. h \in Seq(Octet) /\ a \in Seq(Octet) /\ p \in Seq(Octet)
  BY PartsType
<1>2. Command(j) = header \o body
  BY TagOf
<1> HIDE DEF h, a, p
<1>3. body \in Seq(Octet) /\ Len(body) = Len(h) + Len(a) + Len(p)
  BY <1>1, ThreeParts
<1> HIDE DEF body
<1>4. body \in Seq(Int)
  BY <1>3, OctetBound, SeqMonotonic
<1>5. header \in Seq(Int) /\ Len(header) = 10
  <2>1. HeaderSize + Len(body) \in Nat
    BY <1>3, SizeTypes
  <2>2. QED BY <2>1, TagOf, JobTypes, HeaderLength
<1> HIDE DEF header
<1>6. Len(header \o body) = Len(header) + Len(body)
  BY <1>4, <1>5, ConcatParts, Zenon
<1>7. Len(h) \in Nat /\ Len(a) \in Nat /\ Len(p) \in Nat
  BY <1>1
<1>8. QED BY <1>2, <1>3, <1>5, <1>6, <1>7 DEF h, a, p

\* Bytes written over others of their number take their place.
Between(a, b, c) == (a \o b) \o c

LEMMA PatchBetween ==
  ASSUME NEW a \in Seq(Octet), NEW b \in Seq(Octet), NEW c \in Seq(Octet),
         NEW new \in Seq(Octet), Len(new) = Len(b)
  PROVE  Patch(Between(a, b, c), Len(a), new) = Between(a, new, c)
<1> DEFINE n == Len(a) + Len(b)
           ab == a \o b
           buffer == ab \o c
<1>1. /\ ab \in Seq(Octet) /\ Len(ab) = n
      /\ \A i \in 1 .. Len(a) : ab[i] = a[i]
      /\ Len(a) \in Nat /\ Len(b) \in Nat /\ Len(c) \in Nat
  BY ConcatParts
<1> HIDE DEF ab
<1>2. /\ buffer \in Seq(Octet) /\ Len(buffer) = n + Len(c)
      /\ \A i \in 1 .. n : buffer[i] = ab[i]
      /\ \A i \in 1 .. Len(c) : buffer[n + i] = c[i]
  <2>1. /\ buffer \in Seq(Octet) /\ Len(buffer) = Len(ab) + Len(c)
        /\ \A i \in 1 .. Len(ab) : buffer[i] = ab[i]
        /\ \A i \in 1 .. Len(c) : buffer[Len(ab) + i] = c[i]
    <3>1. ab \in Seq(Octet) /\ c \in Seq(Octet)
      BY <1>1
    <3>2. QED BY ONLY <3>1, ConcatParts
  <2>2. QED BY <1>1, <2>1
<1> HIDE DEF buffer
<1>3. SubSeq(buffer, 1, Len(a)) = a
  <2> DEFINE front == SubSeq(buffer, 0 + 1, Len(a))
  <2>1. /\ front \in Seq(Octet) /\ Len(front) = Len(a) - 0
        /\ \A i \in 1 .. Len(a) - 0 : front[i] = buffer[0 + i]
    BY <1>1, <1>2, PieceOf
  <2> HIDE DEF front
  <2>2. ASSUME NEW i \in 1 .. Len(a)
        PROVE  front[i] = a[i]
    BY <1>1, <1>2, <2>1
  <2>3. front = a
    BY <1>1, <2>1, <2>2, SeqEqual
  <2>4. QED BY <2>3 DEF front
<1>4. After(buffer, n) = c
  <2> DEFINE back == SubSeq(buffer, n + 1, Len(buffer))
  <2>1. /\ back \in Seq(Octet) /\ Len(back) = Len(buffer) - n
        /\ \A i \in 1 .. Len(buffer) - n : back[i] = buffer[n + i]
    BY <1>1, <1>2, PieceOf
  <2> HIDE DEF back
  <2>2. ASSUME NEW i \in 1 .. Len(c)
        PROVE  back[i] = c[i]
    BY <1>1, <1>2, <2>1
  <2>3. back = c
    BY <1>1, <1>2, <2>1, <2>2, SeqEqual
  <2>4. QED BY <2>3 DEF back, After
<1>5. Patch(buffer, Len(a), new) = (a \o new) \o c
  BY <1>3, <1>4 DEF Patch
<1>6. QED BY <1>5 DEF Between, buffer, ab
-----------------------------------------------------------------------------
(* Marshaled is inductive, given IInv.                                     *)

\* What the steps need of the state they start in.
LEMMA MarshalState ==
  ASSUME IInv, pc \in Sending
  PROVE  /\ job \in Jobs /\ cmd \in Seq(Octet) /\ todo \in Seq(Field)
         /\ FieldBytes(todo) \in Seq(Octet)
         /\ Len(cmd) \in Nat /\ Len(cmd) <= CmdBufferSize
         /\ resp = <<>> /\ Len(job.sessions) \in 0 .. 3
         /\ done \in Nat
         /\ pc = "auth" => done <= Len(job.sessions)
<1>1. job \in Jobs /\ cmd \in Seq(Octet) /\ todo \in Seq(Field)
  BY SendingState
<1>2. FieldBytes(todo) \in Seq(Octet)
  BY <1>1, FieldBytesType
<1>3. Len(cmd) \in Nat
  BY <1>1, LenProperties
<1>4. QED BY <1>1, <1>2, <1>3, SendingState, JobTypes

\* When nothing of a part is left, the buffer has all of it.
LEMMA NothingLeft ==
  ASSUME IInv, pc \in Sending, todo = <<>>
  PROVE  cmd \o FieldBytes(todo) = cmd
<1>1. cmd \o <<>> = cmd
  BY MarshalState, ConcatEmptySeq
<1>2. QED BY <1>1, FieldBytesEmpty

\* What is in the buffer and to come never exceeds the command.
LEMMA NoLongerThanCommand ==
  ASSUME IInv, Marshaled, pc \in {"handles", "auth", "params"}
  PROVE  /\ Len(cmd) + Len(FieldBytes(todo)) <= Len(Command(job))
         /\ pc = "handles" /\ job.sessions # <<>> =>
              Len(cmd) + Len(FieldBytes(todo)) + 4 <= Len(Command(job))
<1> DEFINE whole == cmd \o FieldBytes(todo)
           h == FieldBytes(job.handles)
           a == AuthArea(job)
           p == FieldBytes(job.params)
           begun == Begun(job)
<1>1. /\ job \in Jobs /\ cmd \in Seq(Octet) /\ FieldBytes(todo) \in Seq(Octet)
      /\ Len(job.sessions) \in 0 .. 3 /\ done \in Nat
      /\ pc = "auth" => done <= Len(job.sessions)
  BY MarshalState DEF Sending
<1>2. Len(whole) = Len(cmd) + Len(FieldBytes(todo))
  BY <1>1, ConcatOctets
<1>3. /\ h \in Seq(Octet) /\ a \in Seq(Octet) /\ p \in Seq(Octet)
      /\ begun \in Seq(Octet) /\ Len(begun) = 10 + Len(h)
      /\ Len(Command(job)) = 10 + Len(h) + Len(a) + Len(p)
  BY <1>1, PartsType, CommandLength
<1>4. Len(h) \in Nat /\ Len(a) \in Nat /\ Len(p) \in Nat
  BY <1>3
<1>5. job.sessions # <<>> =>
        Len(a) = 4 + Len(AuthsUpTo(job, Len(job.sessions)))
        /\ Len(AuthsUpTo(job, Len(job.sessions))) \in Nat
  BY <1>1, AuthAreaOf, AuthsLength
<1>6. CASE pc = "handles"
  <2>1. whole = begun
    BY <1>6 DEF Marshaled
  <2>2. QED BY <1>2, <1>3, <1>4, <1>5, <1>6, <2>1
<1>7. CASE pc = "auth"
  <2> DEFINE some == AuthsUpTo(job, done)
             all == AuthsUpTo(job, Len(job.sessions))
             zeros == Zeros(4)
  <2>1. whole = (begun \o zeros) \o some /\ done >= 1
    BY <1>7 DEF Marshaled
  <2>2. done \in 0 .. Len(job.sessions)
    BY <1>1, <1>7
  <2>3. some \in Seq(Octet) /\ Len(some) <= Len(all)
    BY <1>1, <2>2, AuthsType, AuthsLength
  <2>4. zeros \in Seq(Octet) /\ Len(zeros) = 4
    BY ZerosType
  <2>5. job.sessions # <<>>
    BY <1>1, <2>1, <2>2, EmptySeq
  <2> HIDE DEF some, all, zeros, whole, begun, h, a, p
  <2>6. Len((begun \o zeros) \o some) = Len(begun) + Len(zeros) + Len(some)
    BY <1>3, <2>3, <2>4, ThreeParts
  <2>7. Len(all) \in Nat /\ Len(a) = 4 + Len(all) /\ Len(some) \in Nat
    BY <1>5, <2>3, <2>5 DEF all
  <2>8. QED BY <1>2, <1>3, <1>4, <1>7, <2>1, <2>3, <2>4, <2>6, <2>7
<1>8. CASE pc = "params"
  <2>1. whole = (begun \o a) \o p
    BY <1>8 DEF Marshaled
  <2> HIDE DEF whole, begun, h, a, p
  <2>2. Len((begun \o a) \o p) = Len(begun) + Len(a) + Len(p)
    BY <1>3, ThreeParts
  <2>3. QED BY <1>2, <1>3, <1>4, <1>8, <2>1, <2>2
<1>9. QED BY <1>6, <1>7, <1>8

LEMMA HeaderMarshaled ==
  ASSUME IInv, MarshalHeader
  PROVE  Marshaled'
<1>1. /\ pc = "header" /\ pc' = "handles" /\ todo' = job.handles /\ job' = job
      /\ cmd' = Header(CommandTag(job), 0, job.code)
  BY DEF MarshalHeader
<1>2. cmd' \o FieldBytes(todo') = Begun(job')
  BY <1>1 DEF Begun
<1>3. QED BY <1>1, <1>2 DEF Marshaled, Receiving, Unmarshaling

LEMMA FieldMarshaled ==
  ASSUME IInv, Marshaled, MarshalField
  PROVE  Marshaled'
<1> DEFINE head == Head(todo).bytes
           tail == FieldBytes(Tail(todo))
<1>1. /\ pc \in {"handles", "auth", "params"} /\ todo # <<>>
      /\ UNCHANGED <<job, authAt, done>>
  BY DEF MarshalField
<1>2. cmd \in Seq(Octet) /\ todo \in Seq(Field)
  BY <1>1, MarshalState DEF Sending
<1>3. /\ head \in Seq(Octet) /\ Tail(todo) \in Seq(Field)
      /\ FieldBytes(todo) = head \o tail
  BY <1>1, <1>2, FieldBytesHead
<1>4. tail \in Seq(Octet)
  BY <1>3, FieldBytesType
<1>5. CASE Room(Len(head))
  <2>1. cmd' = cmd \o head /\ FieldBytes(todo') = tail /\ pc' = pc
    BY <1>5 DEF MarshalField
  <2> HIDE DEF head, tail
  <2>2. (cmd \o head) \o tail = cmd \o (head \o tail)
    <3>1. cmd \in Seq(Octet) /\ head \in Seq(Octet) /\ tail \in Seq(Octet)
      BY <1>2, <1>3, <1>4
    <3>2. QED BY ONLY <3>1, ConcatThree, SMTT(30)
  <2>3. cmd' \o FieldBytes(todo') = cmd \o FieldBytes(todo)
    BY <1>3, <2>1, <2>2
  <2>4. QED BY <1>1, <2>1, <2>3
             DEF Marshaled, Receiving, Unmarshaling, Begun, AuthsUpTo
<1>6. CASE ~Room(Len(head))
  <2>1. pc' = "returned"
    BY <1>6 DEF MarshalField, Return
  <2>2. QED BY <2>1 DEF Marshaled, Receiving, Unmarshaling
<1>7. QED BY <1>5, <1>6

LEMMA AuthAreaSkipped ==
  ASSUME IInv, Marshaled, SkipAuthArea
  PROVE  Marshaled'
<1>1. /\ pc = "handles" /\ todo = <<>> /\ job.sessions = <<>>
      /\ pc' = "params" /\ todo' = job.params /\ UNCHANGED <<job, cmd>>
  BY DEF SkipAuthArea
<1>2. job \in Jobs /\ AuthArea(job) = <<>> /\ Begun(job) \in Seq(Octet)
  BY <1>1, MarshalState, AuthAreaOf, PartsType DEF Sending
<1>3. cmd = Begun(job)
  BY <1>1, NothingLeft DEF Marshaled, Sending
<1>4. Begun(job) \o AuthArea(job) = cmd
  BY <1>2, <1>3, ConcatEmptySeq
<1>5. QED BY <1>1, <1>4 DEF Marshaled, Receiving, Unmarshaling

LEMMA AuthAreaOpened ==
  ASSUME IInv, Marshaled, OpenAuthArea
  PROVE  Marshaled'
<1>1. /\ pc = "handles" /\ todo = <<>> /\ job.sessions # <<>>
      /\ authAt' = Len(cmd) /\ job' = job
  BY DEF OpenAuthArea
<1>2. /\ job \in Jobs /\ Len(job.sessions) \in 0 .. 3 /\ Begun(job) \in Seq(Octet)
      /\ job.sessions \in Seq(Seq(Octet))
  BY <1>1, MarshalState, PartsType, JobTypes DEF Sending
<1>3. cmd = Begun(job)
  BY <1>1, NothingLeft DEF Marshaled, Sending
<1>4. CASE Room(4)
  <2> DEFINE first == AuthBytes(job.sessions[1])
             zeros == Zeros(4)
  <2>1. /\ cmd' = cmd \o zeros /\ todo' = AuthCommand(job.sessions[1])
        /\ done' = 1 /\ pc' = "auth"
    BY <1>4 DEF OpenAuthArea
  <2>2. 0 + 1 <= Len(job.sessions) /\ 0 + 1 = 1 /\ 1 \in 1 .. Len(job.sessions)
    BY <1>1, <1>2, EmptySeq
  <2>3. first \in Seq(Octet) /\ FieldBytes(todo') = first
    BY <1>2, <2>1, <2>2, AuthType
  <2>4. AuthsUpTo(job, 1) = first
    <3>1. AuthsUpTo(job, 0 + 1) = AuthsUpTo(job, 0) \o AuthBytes(job.sessions[0 + 1])
      BY <1>2, <2>2, AuthsNext
    <3>2. <<>> \o first = first
      BY <2>3, ConcatEmptySeq
    <3>3. QED BY <2>2, <3>1, <3>2, NoAuths
  <2>5. cmd' \o FieldBytes(todo') = Begun(job') \o zeros \o AuthsUpTo(job', done')
    BY <1>1, <1>3, <2>1, <2>3, <2>4
  <2>6. authAt' = Len(Begun(job')) /\ done' >= 1
    BY <1>1, <1>3, <2>1
  <2>7. QED BY <2>1, <2>5, <2>6 DEF Marshaled, Receiving, Unmarshaling
<1>5. CASE ~Room(4)
  <2>1. pc' = "returned"
    BY <1>5 DEF OpenAuthArea, Return
  <2>2. QED BY <2>1 DEF Marshaled, Receiving, Unmarshaling
<1>6. QED BY <1>4, <1>5

LEMMA SessionMarshaled ==
  ASSUME IInv, Marshaled, NextSession
  PROVE  Marshaled'
<1> DEFINE next == AuthBytes(job.sessions[done + 1])
           before == AuthsUpTo(job, done)
           begun == Begun(job) \o Zeros(4)
<1>1. /\ pc = "auth" /\ todo = <<>> /\ done < Len(job.sessions)
      /\ todo' = AuthCommand(job.sessions[done + 1]) /\ done' = done + 1
      /\ UNCHANGED <<pc, job, cmd, authAt>>
  BY DEF NextSession
<1>2. job \in Jobs /\ Len(job.sessions) \in 0 .. 3 /\ done \in Nat
  BY <1>1, MarshalState DEF Sending
<1>3. done + 1 <= Len(job.sessions) /\ done + 1 \in 1 .. Len(job.sessions)
      /\ done \in 0 .. Len(job.sessions)
  BY <1>1, <1>2
<1>4. /\ cmd = begun \o before /\ done >= 1 /\ authAt = Len(Begun(job))
  BY <1>1, NothingLeft DEF Marshaled, Sending
<1>5. /\ next \in Seq(Octet) /\ FieldBytes(todo') = next
      /\ AuthsUpTo(job, done + 1) = before \o next
  <2>1. next \in Seq(Octet) /\ FieldBytes(todo') = next
    BY <1>1, <1>2, <1>3, AuthType
  <2>2. AuthsUpTo(job, done + 1) = before \o next
    <3>1. job \in Jobs /\ done \in Nat /\ done + 1 <= Len(job.sessions)
      BY <1>2, <1>3
    <3>2. \A j \in Jobs : \A n \in Nat : n + 1 <= Len(j.sessions) =>
            AuthsUpTo(j, n + 1) = AuthsUpTo(j, n) \o AuthBytes(j.sessions[n + 1])
      BY AuthsNext
    <3>3. QED BY <3>1, <3>2, Zenon
  <2>3. QED BY <2>1, <2>2
<1>6. before \in Seq(Octet)
  BY <1>2, <1>3, AuthsType
<1>7. begun \in Seq(Octet)
  BY <1>2, PartsType, ZerosType, ConcatOctets
<1>8. cmd' \o FieldBytes(todo') = begun \o AuthsUpTo(job, done + 1)
  <2> HIDE DEF next, before, begun
  <2>1. (begun \o before) \o next = begun \o (before \o next)
    <3>1. begun \in Seq(Octet) /\ before \in Seq(Octet) /\ next \in Seq(Octet)
      BY <1>5, <1>6, <1>7
    <3>2. QED BY ONLY <3>1, ConcatThree, SMTT(30)
  <2>2. QED BY <1>1, <1>4, <1>5, <2>1
<1>9. done' >= 1
  BY <1>1, <1>2
<1>10. QED BY <1>1, <1>4, <1>8, <1>9 DEF Marshaled, Receiving, Unmarshaling

\* The size of the area takes the place of its four zeros.
LEMMA AuthAreaClosed ==
  ASSUME IInv, Marshaled, CloseAuthArea
  PROVE  Marshaled'
<1> DEFINE begun == Begun(job)
           zeros == Zeros(4)
           auths == AuthsUpTo(job, Len(job.sessions))
           size == BE4(Len(auths))
<1>1. /\ pc = "auth" /\ todo = <<>> /\ done = Len(job.sessions)
      /\ cmd' = Patch(cmd, authAt, BE4(Len(cmd) - authAt - 4))
      /\ todo' = job.params /\ pc' = "params" /\ job' = job
  BY DEF CloseAuthArea
<1>2. /\ job \in Jobs /\ Len(job.sessions) \in 0 .. 3
      /\ Len(job.sessions) \in 0 .. Len(job.sessions)
  BY <1>1, MarshalState DEF Sending
<1>3. cmd = (begun \o zeros) \o auths /\ authAt = Len(begun) /\ done >= 1
  BY <1>1, NothingLeft DEF Marshaled, Sending
<1>4. begun \in Seq(Octet)
  BY <1>2, PartsType
<1>5. zeros \in Seq(Octet) /\ Len(zeros) = 4
  BY ZerosType
<1>6. auths \in Seq(Octet) /\ Len(auths) \in 0 .. U32Large
  BY <1>2, AuthsType, AuthsLength
<1>7. AuthArea(job) = size \o auths
  <2>1. job.sessions # <<>>
    BY <1>1, <1>2, <1>3, EmptySeq
  <2>2. QED BY <1>2, <2>1, AuthAreaOf
<1> HIDE DEF begun, zeros, auths
<1>8. size \in Seq(Octet) /\ Len(size) = 4
  BY <1>6, BE4Type
<1>9. Len(cmd) - authAt - 4 = Len(auths)
  <2>1. Len((begun \o zeros) \o auths) = Len(begun) + Len(zeros) + Len(auths)
    BY <1>4, <1>5, <1>6, ThreeParts
  <2>2. Len(begun) \in Nat /\ Len(auths) \in Nat
    BY <1>4, <1>6
  <2>3. QED BY <1>3, <1>5, <2>1, <2>2
<1>10. cmd' = Patch((begun \o zeros) \o auths, Len(begun), size)
  BY <1>1, <1>3, <1>9
<1> HIDE DEF size
<1>11. cmd' = (begun \o size) \o auths
  <2>1. /\ begun \in Seq(Octet) /\ zeros \in Seq(Octet) /\ auths \in Seq(Octet)
        /\ size \in Seq(Octet) /\ Len(size) = Len(zeros)
    BY <1>4, <1>5, <1>6, <1>8
  <2>2. Patch((begun \o zeros) \o auths, Len(begun), size)
          = (begun \o size) \o auths
    <3>1. Patch(Between(begun, zeros, auths), Len(begun), size)
            = Between(begun, size, auths)
      BY ONLY <2>1, PatchBetween, ZenonT(60)
    <3>2. QED BY <3>1 DEF Between
  <2>3. QED BY <1>10, <2>2
<1>12. (begun \o size) \o auths = begun \o (size \o auths)
  <2>1. begun \in Seq(Octet) /\ size \in Seq(Octet) /\ auths \in Seq(Octet)
    BY <1>4, <1>6, <1>8
  <2>2. QED BY ONLY <2>1, ConcatThree, SMTT(30)
<1>13. cmd' = Begun(job) \o AuthArea(job)
  BY <1>7, <1>11, <1>12 DEF begun
<1>14. QED BY <1>1, <1>13 DEF Marshaled, Receiving, Unmarshaling

\* The header with the size takes the place of the first one.
LEMMA SizeMarshaled ==
  ASSUME IInv, Marshaled, MarshalSize
  PROVE  Marshaled' /\ Len(Command(job)) = Len(cmd)
<1> DEFINE h == FieldBytes(job.handles)
           a == AuthArea(job)
           p == FieldBytes(job.params)
           first == Header(CommandTag(job), 0, job.code)
           body == (h \o a) \o p
           header == Header(CommandTag(job), Len(cmd), job.code)
           none == <<>>
<1>1. /\ pc = "params" /\ todo = <<>> /\ pc' = "sent"
      /\ cmd' = Patch(cmd, 0, header) /\ job' = job
  BY DEF MarshalSize
<1>2. /\ job \in Jobs /\ Len(cmd) \in Nat /\ Len(cmd) <= CmdBufferSize
  BY <1>1, MarshalState DEF Sending
<1>3. /\ h \in Seq(Octet) /\ a \in Seq(Octet) /\ p \in Seq(Octet)
      /\ first \in Seq(Octet) /\ Len(first) = 10
      /\ Len(Command(job)) = 10 + Len(h) + Len(a) + Len(p)
      /\ Command(job) = Header(CommandTag(job), HeaderSize + Len(body), job.code)
                          \o body
  BY <1>2, PartsType, CommandLength, TagOf
<1>4. cmd = ((first \o h) \o a) \o p
  <2>1. cmd = Begun(job) \o AuthArea(job) \o FieldBytes(job.params)
    BY <1>1, NothingLeft DEF Marshaled, Sending
  <2>2. QED BY <2>1 DEF Begun
<1>5. header \in Seq(Octet) /\ Len(header) = 10
  <2>1. Len(cmd) \in 0 .. U32Large
    BY <1>2, SizeTypes, U32Bound
  <2>2. QED BY <1>2, <2>1, TagOf, JobTypes, HeaderType
<1>6. none \in Seq(Octet) /\ Len(none) = 0
  BY EmptySeq
<1> DEFINE command == Command(job)
<1> HIDE DEF h, a, p, first, header, none, command
<1>7. cmd = first \o body
  <2> DEFINE ha == h \o a
  <2>1. first \in Seq(Octet) /\ h \in Seq(Octet) /\ a \in Seq(Octet)
    BY <1>3
  <2>2. (first \o h) \o a = first \o ha
    BY ONLY <2>1, ConcatThree, SMTT(30)
  <2>3. ha \in Seq(Octet)
    BY <2>1, ConcatOctets
  <2> HIDE DEF ha
  <2>4. first \in Seq(Octet) /\ ha \in Seq(Octet) /\ p \in Seq(Octet)
    BY <1>3, <2>3
  <2>5. (first \o ha) \o p = first \o (ha \o p)
    BY ONLY <2>4, ConcatThree, SMTT(30)
  <2>6. QED BY <1>4, <2>2, <2>5 DEF ha
<1>8. body \in Seq(Octet) /\ Len(body) = Len(h) + Len(a) + Len(p)
  BY <1>3, ThreeParts
<1> HIDE DEF body
<1>9. Len(cmd) = 10 + Len(body)
  <2>1. Len(first \o body) = Len(first) + Len(body)
    BY <1>3, <1>8, ConcatOctets
  <2>2. QED BY <1>3, <1>7, <2>1
<1>10. none \o first = first /\ none \o header = header
  BY <1>3, <1>5, ConcatEmptySeq DEF none
<1>11. Patch(cmd, Len(none), header) = header \o body
  <2>1. /\ none \in Seq(Octet) /\ first \in Seq(Octet) /\ body \in Seq(Octet)
        /\ header \in Seq(Octet) /\ Len(header) = Len(first)
    BY <1>3, <1>5, <1>6, <1>8
  <2>2. Patch(Between(none, first, body), Len(none), header)
          = Between(none, header, body)
    BY ONLY <2>1, PatchBetween, ZenonT(60)
  <2>3. Between(none, first, body) = cmd /\ Between(none, header, body) = header \o body
    BY <1>7, <1>10 DEF Between
  <2>4. QED BY <2>2, <2>3
<1>12. cmd' = header \o body
  BY <1>1, <1>6, <1>11
<1>13. command = header \o body
  BY <1>3, <1>9, SizeTypes DEF header, command
<1>14. Len(command) = Len(cmd)
  <2>1. Len(header \o body) = Len(header) + Len(body)
    BY <1>5, <1>8, ConcatOctets
  <2>2. QED BY <1>5, <1>9, <1>13, <2>1
<1>15. cmd' = Command(job')
  BY <1>1, <1>12, <1>13 DEF command
<1>16. QED BY <1>1, <1>14, <1>15 DEF Marshaled, Receiving, Unmarshaling, command

\* The whole command is in the buffer when the TPM is asked.
LEMMA CommandSent ==
  ASSUME IInv, Marshaled, pc = "sent"
  PROVE  job \in Jobs /\ Len(Command(job)) <= CmdBufferSize /\ resp = <<>>
<1>1. job \in Jobs /\ Len(cmd) <= CmdBufferSize /\ resp = <<>>
  BY MarshalState DEF Sending
<1>2. cmd = Command(job)
  BY DEF Marshaled
<1>3. QED BY <1>1, <1>2

\* What the steps that read the response leave as it is.
LEMMA ReceivingKeeps ==
  ASSUME IInv,
         ReadHeader \/ CheckSize \/ ReadHandles \/ ReadParamSize \/ ReadResp
           \/ ReadSession \/ Finish
  PROVE  /\ pc \in Receiving /\ pc' \in Receiving \cup {"returned"}
         /\ UNCHANGED <<job, cmd, resp>>
<1>1. CASE ReadHeader
  BY <1>1 DEF ReadHeader, Return, sent, received, Receiving
<1>2. CASE CheckSize
  BY <1>2 DEF CheckSize, Return, sent, Receiving, Unmarshaling
<1>3. CASE ReadHandles
  BY <1>3 DEF ReadHandles, Unmarshal, Return, sent, Receiving, Unmarshaling
<1>4. CASE ReadParamSize
  BY <1>4 DEF ReadParamSize, Unmarshal, Return, sent, Receiving, Unmarshaling
<1>5. CASE ReadResp
  <2>1. /\ pc = "resp" /\ UNCHANGED <<sent, done, resp, handles>>
        /\ pc' = "returned" \/ Unmarshal(ParamLen(job.resp), "sessions")
    BY <1>5 DEF ReadResp, Return
  <2>2. pc' \in {"returned", "sessions"}
    BY <2>1 DEF Unmarshal, Return
  <2>3. QED BY <2>1, <2>2 DEF sent, Receiving, Unmarshaling
<1>6. CASE ReadSession
  <2>1. pc = "sessions" /\ UNCHANGED <<sent, resp, handles, value>>
    BY <1>6 DEF ReadSession
  <2>2. pc' = "returned" \/ pc' = pc
    BY <1>6 DEF ReadSession, Return
  <2>3. QED BY <2>1, <2>2 DEF sent, Receiving, Unmarshaling
<1>7. CASE Finish
  BY <1>7 DEF Finish, Return, sent, received, Receiving, Unmarshaling
<1>8. QED BY <1>1, <1>2, <1>3, <1>4, <1>5, <1>6, <1>7

LEMMA InitMarshaled == Init => Marshaled
BY DEF Init, Marshaled, Receiving, Unmarshaling

\* A call that begins, ends or is collected has nothing marshaled.
LEMMA NothingMarshaled ==
  ASSUME pc' \in {"idle", "header", "returned"}
  PROVE  Marshaled'
BY DEF Marshaled, Receiving, Unmarshaling

LEMMA TransactMarshaled ==
  ASSUME IInv, Marshaled, NEW r, Transact(r)
  PROVE  Marshaled'
<1>1. pc = "sent" /\ pc' = "answered" /\ job' = job
  BY DEF Transact, sent
<1>2. Len(Command(job')) <= CmdBufferSize
  BY <1>1, CommandSent
<1>3. QED BY <1>1, <1>2 DEF Marshaled

LEMMA ReceivingMarshaled ==
  ASSUME IInv, Marshaled,
         ReadHeader \/ CheckSize \/ ReadHandles \/ ReadParamSize \/ ReadResp
           \/ ReadSession \/ Finish
  PROVE  Marshaled'
<1>1. pc \in Receiving /\ pc' \in Receiving \cup {"returned"} /\ job' = job
  BY ReceivingKeeps
<1>2. Len(Command(job')) <= CmdBufferSize
  BY <1>1 DEF Marshaled
<1>3. QED BY <1>1, <1>2 DEF Marshaled, Receiving, Unmarshaling

LEMMA MarshaledStep == IInv /\ Marshaled /\ [Next]_vars => Marshaled'
<1> SUFFICES ASSUME IInv, Marshaled, [Next]_vars PROVE Marshaled'
  OBVIOUS
<1>1. ASSUME NEW j \in Jobs, Call(j) PROVE Marshaled'
  BY <1>1, NothingMarshaled DEF Call
<1>2. CASE MarshalHeader
  BY <1>2, HeaderMarshaled
<1>3. CASE MarshalField
  BY <1>3, FieldMarshaled
<1>4. CASE SkipAuthArea
  BY <1>4, AuthAreaSkipped
<1>5. CASE OpenAuthArea
  BY <1>5, AuthAreaOpened
<1>6. CASE NextSession
  BY <1>6, SessionMarshaled
<1>7. CASE CloseAuthArea
  BY <1>7, AuthAreaClosed
<1>8. CASE MarshalSize
  BY <1>8, SizeMarshaled
<1>9. ASSUME NEW r \in Responses, Transact(r) PROVE Marshaled'
  BY <1>9, TransactMarshaled
<1>10. CASE TransactFails
  BY <1>10, NothingMarshaled DEF TransactFails, Return
<1>11. CASE ReadHeader \/ CheckSize \/ ReadHandles \/ ReadParamSize \/ ReadResp
              \/ ReadSession \/ Finish
  BY <1>11, ReceivingMarshaled
<1>12. CASE Collect
  BY <1>12, NothingMarshaled DEF Collect
<1>13. CASE UNCHANGED vars
  <2>1. UNCHANGED <<pc, job, cmd, todo, authAt, done>>
    BY <1>13 DEF vars
  <2>2. QED BY <2>1 DEF Marshaled, Begun, AuthsUpTo
<1>14. QED
  BY <1>1, <1>2, <1>3, <1>4, <1>5, <1>6, <1>7, <1>8, <1>9, <1>10, <1>11, <1>12,
     <1>13
  DEF Next, Step
-----------------------------------------------------------------------------
(* Refused when it does not fit, and only then.                            *)

\* Running out of room is not the failure of the TPM to answer.
LEMMA RefusalsDiffer ==
  /\ OutOfRoom # Error(BE4(TcsGeneralFailure))
  /\ Panic # Error(BE4(TcsGeneralFailure))
<1>1. BE4(RcMemory)[3] = 9 /\ BE4(TcsGeneralFailure)[3] = 32
  BY SMT DEF BE4, RcMemory, TcsGeneralFailure
<1>2. \A c : Error(c).code = c /\ Error(c).kind = "error"
  BY DEF Error, Pending
<1>3. Panic.kind = "panic"
  BY Outcomes
<1>4. QED BY <1>1, <1>2, <1>3 DEF OutOfRoom

LEMMA FieldRefused ==
  ASSUME IInv, Marshaled, MarshalField, pc' = "returned"
  PROVE  RefusedIffTooLarge'
<1> DEFINE head == Head(todo).bytes
           tail == FieldBytes(Tail(todo))
<1>1. pc \in {"handles", "auth", "params"} /\ todo # <<>> /\ job' = job
  BY DEF MarshalField
<1>2. /\ cmd \in Seq(Octet) /\ todo \in Seq(Field) /\ resp = <<>>
      /\ Len(cmd) \in Nat /\ job \in Jobs
  BY <1>1, MarshalState DEF Sending
<1>3. /\ head \in Seq(Octet) /\ Tail(todo) \in Seq(Field)
      /\ FieldBytes(todo) = head \o tail
  BY <1>1, <1>2, FieldBytesHead
<1>4. tail \in Seq(Octet)
  BY <1>3, FieldBytesType
<1>5. /\ Len(FieldBytes(todo)) = Len(head) + Len(tail)
      /\ Len(head) \in Nat /\ Len(tail) \in Nat
  <2> HIDE DEF head, tail
  <2>1. QED BY <1>3, <1>4, ConcatOctets
<1>6. ~Room(Len(head)) /\ result' = Head(todo).refusal /\ resp' = resp
  BY <1>1 DEF MarshalField, Return, received
<1>7. result' # Error(BE4(TcsGeneralFailure))
  <2>1. Head(todo) \in Field
    BY <1>1, <1>2, HeadTailProperties
  <2>2. Head(todo).refusal \in {OutOfRoom, Panic}
    BY <2>1 DEF Field
  <2>3. QED BY <1>6, <2>2, RefusalsDiffer
<1>8. Len(Command(job)) > CmdBufferSize
  <2> DEFINE size == Len(Command(job))
  <2>1. Len(cmd) + Len(FieldBytes(todo)) <= size
    BY <1>1, NoLongerThanCommand
  <2>2. ~(Len(cmd) + Len(head) <= CmdBufferSize)
    BY <1>6 DEF Room
  <2>3. size \in Nat
    BY <1>2, CommandLength, PartsType, LenProperties
  <2> HIDE DEF size, head, tail
  <2>4. size > CmdBufferSize
    BY <1>2, <1>5, <2>1, <2>2, <2>3, SizeTypes
  <2>5. QED BY <2>4 DEF size
<1>9. QED BY <1>1, <1>2, <1>6, <1>7, <1>8 DEF RefusedIffTooLarge

LEMMA AuthAreaRefused ==
  ASSUME IInv, Marshaled, OpenAuthArea, pc' = "returned"
  PROVE  RefusedIffTooLarge'
<1>1. pc = "handles" /\ todo = <<>> /\ job.sessions # <<>> /\ UNCHANGED <<job, received>>
  BY DEF OpenAuthArea
<1>2. ~Room(4) /\ result' = Panic /\ resp' = resp
  BY <1>1 DEF OpenAuthArea, Return, received
<1>3. resp = <<>> /\ Len(cmd) \in Nat /\ job \in Jobs
  BY <1>1, MarshalState DEF Sending
<1>4. Len(FieldBytes(todo)) = 0
  BY <1>1, FieldBytesEmpty, EmptySeq
<1>5. Len(cmd) + Len(FieldBytes(todo)) + 4 <= Len(Command(job))
  BY <1>1, NoLongerThanCommand
<1>6. Len(Command(job)) \in Nat
  BY <1>3, CommandLength, PartsType, LenProperties
<1>7. Len(Command(job)) > CmdBufferSize
  BY <1>2, <1>3, <1>4, <1>5, <1>6, SizeTypes DEF Room
<1>8. QED BY <1>1, <1>2, <1>3, <1>7, RefusalsDiffer DEF RefusedIffTooLarge

LEMMA NotRefused ==
  ASSUME IInv, Marshaled, pc \in Receiving, UNCHANGED <<job, resp>>
  PROVE  RefusedIffTooLarge'
<1>1. Len(Command(job)) <= CmdBufferSize /\ job \in Jobs
  BY ReceivingState DEF Marshaled
<1>2. resp # <<>>
  BY ReceivingState, SizeTypes, EmptySeq
<1>3. Len(Command(job)) \in Nat
  BY <1>1, CommandLength, PartsType, LenProperties
<1>4. ~(Len(Command(job)) > CmdBufferSize)
  BY <1>1, <1>3, SizeTypes
<1>5. QED BY <1>2, <1>4 DEF RefusedIffTooLarge

LEMMA RefusedStep ==
  IInv /\ Marshaled /\ RefusedIffTooLarge /\ [Next]_vars => RefusedIffTooLarge'
<1> SUFFICES ASSUME IInv, Marshaled, RefusedIffTooLarge, [Next]_vars
             PROVE  RefusedIffTooLarge'
  OBVIOUS
<1> SUFFICES ASSUME pc' = "returned"
             PROVE  RefusedIffTooLarge'
  BY DEF RefusedIffTooLarge
<1>1. CASE MarshalField
  BY <1>1, FieldRefused
<1>2. CASE OpenAuthArea
  BY <1>2, AuthAreaRefused
<1>3. CASE TransactFails
  <2>1. /\ pc = "sent" /\ UNCHANGED <<job, resp>>
        /\ result' = Error(BE4(TcsGeneralFailure))
    BY <1>3 DEF TransactFails, Return, sent, received
  <2>2. Len(Command(job)) <= CmdBufferSize /\ job \in Jobs
    BY <2>1, CommandSent
  <2>3. Len(Command(job)) \in Nat
    BY <2>2, CommandLength, PartsType, LenProperties
  <2>4. ~(Len(Command(job)) > CmdBufferSize)
    BY <2>2, <2>3, SizeTypes
  <2>5. QED BY <2>1, <2>4 DEF RefusedIffTooLarge
<1>4. CASE ReadHeader \/ CheckSize \/ ReadHandles \/ ReadParamSize \/ ReadResp
             \/ ReadSession \/ Finish
  BY <1>4, ReceivingKeeps, NotRefused
<1>5. CASE UNCHANGED vars
  BY <1>5 DEF vars, RefusedIffTooLarge
<1>6. CASE MarshalHeader \/ SkipAuthArea \/ NextSession \/ CloseAuthArea
             \/ MarshalSize \/ Collect
  BY <1>6 DEF MarshalHeader, SkipAuthArea, NextSession, CloseAuthArea,
              MarshalSize, Collect
<1>7. ASSUME NEW j \in Jobs, Call(j) PROVE FALSE
  BY <1>7 DEF Call
<1>8. ASSUME NEW r \in Responses, Transact(r) PROVE FALSE
  BY <1>8 DEF Transact
<1>9. QED
  BY <1>1, <1>2, <1>3, <1>4, <1>5, <1>6, <1>7, <1>8 DEF Next, Step
-----------------------------------------------------------------------------
(* The call as TpmCall has it.                                             *)

LEMMA SameBE4 == \A n : Promise!BE4(n) = BE4(n)
BY DEF Promise!BE4, BE4

\* A field or the authorization area that does not fit ends the call.
LEMMA GivingUpRefuses ==
  ASSUME IInv, Marshaled, MarshalField \/ OpenAuthArea, pc' = "returned"
  PROVE  Promise!Refuse
<1>1. /\ pc \in {"handles", "auth", "params"} /\ UNCHANGED <<job, resp>>
      /\ result' \in {OutOfRoom, Panic}
  <2>1. CASE MarshalField
    <3>1. todo # <<>> /\ pc \in {"handles", "auth", "params"}
          /\ UNCHANGED <<job, received>> /\ result' = Head(todo).refusal
      BY <2>1 DEF MarshalField, Return
    <3>2. todo \in Seq(Field)
      BY <3>1, MarshalState DEF Sending
    <3>3. Head(todo) \in Field
      BY <3>1, <3>2, HeadTailProperties
    <3>4. QED BY <3>1, <3>3 DEF Field, received
  <2>2. CASE OpenAuthArea
    BY <2>2 DEF OpenAuthArea, Return, received
  <2>3. QED BY <2>1, <2>2
<1>2. resp = <<>> /\ job \in Jobs
  BY <1>1, SendingState DEF Sending
<1>3. ~Promise!Fits(job)
  <2>1. RefusedIffTooLarge'
    BY FieldRefused, AuthAreaRefused
  <2>2. Len(Command(job')) > CmdBufferSize
    BY <1>1, <1>2, <2>1, RefusalsDiffer DEF RefusedIffTooLarge
  <2>3. Len(Command(job)) \in Nat
    BY <1>2, CommandLength, PartsType, LenProperties
  <2>4. QED BY <1>1, <2>2, <2>3, SizeTypes DEF Promise!Fits
<1>4. QED BY <1>1, <1>3 DEF Promise!Refuse, Phase

\* The other steps that marshal are the call's own business, up to the last.
LEMMA MarshalingImplements ==
  ASSUME IInv, Marshaled, IInv', Marshaled',
         MarshalHeader \/ MarshalField \/ SkipAuthArea \/ OpenAuthArea
           \/ NextSession \/ CloseAuthArea \/ MarshalSize
  PROVE  [Promise!Next]_Promise!vars
<1>1. CASE pc' = "returned"
  <2>1. MarshalField \/ OpenAuthArea
    BY <1>1 DEF MarshalHeader, SkipAuthArea, NextSession, CloseAuthArea,
                MarshalSize
  <2>2. QED BY <1>1, <2>1, GivingUpRefuses DEF Promise!Next
<1>2. CASE MarshalSize
  <2>1. /\ pc = "params" /\ pc' = "sent"
        /\ job' = job /\ resp' = resp /\ result' = result
    BY <1>2 DEF MarshalSize, received
  <2>2. cmd' = Command(job') /\ Len(cmd') <= CmdBufferSize
    BY <2>1 DEF IInv, TypeOK, Marshaled
  <2>3. Promise!Ask
    BY <2>1, <2>2 DEF Promise!Ask, Promise!Fits, Phase
  <2>4. QED BY <2>3 DEF Promise!Next
<1>3. CASE pc' # "returned" /\ ~MarshalSize
  <2> DEFINE Called == {"header", "handles", "auth", "params"}
  <2>1. /\ pc \in Called /\ pc' \in Called
        /\ UNCHANGED <<job, resp, result>>
    <3>1. CASE MarshalHeader \/ SkipAuthArea \/ NextSession \/ CloseAuthArea
      BY <3>1 DEF MarshalHeader, SkipAuthArea, NextSession, CloseAuthArea, received
    <3>2. CASE MarshalField \/ OpenAuthArea
      BY <1>3, <3>2 DEF MarshalField, OpenAuthArea, Return, received
    <3>3. QED BY <1>3, <3>1, <3>2
  <2>2. Phase = "called" /\ Phase' = "called"
    BY <2>1 DEF Phase
  <2>3. QED BY <2>1, <2>2 DEF Promise!vars
<1>4. QED BY <1>1, <1>2, <1>3

\* A step that reads the response returns what is deserved or returns nothing.
LEMMA ReadingImplements ==
  ASSUME IInv, IInv',
         ReadHeader \/ CheckSize \/ ReadHandles \/ ReadParamSize \/ ReadResp
           \/ ReadSession \/ Finish
  PROVE  [Promise!Next]_Promise!vars
<1>1. /\ pc \in Receiving /\ pc' \in Receiving \cup {"returned"}
      /\ UNCHANGED <<job, cmd, resp>>
  BY ReceivingKeeps
<1>2. /\ Phase = "answered"
      /\ pc' # "returned" => Phase' = "answered"
      /\ pc' = "returned" => Phase' = "returned"
  BY <1>1 DEF Phase, Receiving, Unmarshaling
<1>3. IF pc' = "returned" THEN result'.kind \in {"ok", "error", "panic"}
                          ELSE result' = result
  <2>1. CASE ReadHeader
    BY <2>1, Outcomes DEF ReadHeader, Return
  <2>2. CASE CheckSize
    BY <2>2, Outcomes DEF CheckSize, Return
  <2>3. CASE ReadHandles
    BY <2>3, Outcomes DEF ReadHandles, Unmarshal, Return
  <2>4. CASE ReadParamSize
    BY <2>4, Outcomes DEF ReadParamSize, Unmarshal, Return
  <2>5. CASE ReadResp
    BY <2>5, Outcomes DEF ReadResp, Unmarshal, Return
  <2>6. CASE ReadSession
    <3>1. pc = "sessions"
      BY <2>6 DEF ReadSession
    <3>2. QED BY <2>6, <3>1, Outcomes DEF ReadSession, Return
  <2>7. CASE Finish
    BY <2>7, Outcomes DEF Finish, Return
  <2>8. QED BY <2>1, <2>2, <2>3, <2>4, <2>5, <2>6, <2>7
<1>4. CASE pc' = "returned"
  <2>1. resp # <<>>
    BY <1>1, ReceivingState, SizeTypes, EmptySeq
  <2>2. IF WellFormed(job, resp) THEN result' = Reading(job, resp)
        ELSE /\ RespCode(resp) # BE4(0) => result' = Error(RespCode(resp))
             /\ result'.kind \in {"error", "panic"}
    BY <1>1, <1>3, <1>4, <2>1 DEF IInv, AcceptsExactlyWellFormed, ErrorCodeWins
  <2>3. Promise!Return
    BY <1>1, <1>2, <1>4, <2>2, SameBE4 DEF Promise!Return
  <2>4. QED BY <2>3 DEF Promise!Next
<1>5. CASE pc' # "returned"
  BY <1>1, <1>2, <1>3, <1>5 DEF Promise!vars
<1>6. QED BY <1>4, <1>5

\* A call, an answer and its end are what TpmCall has them be.
LEMMA CallImplements ==
  ASSUME NEW j \in Jobs, Call(j)
  PROVE  Promise!Call
BY DEF Call, received, Promise!Call, Phase

LEMMA TransactImplements ==
  ASSUME NEW r \in Seq(Octet), Len(r) <= RespBufferSize, Transact(r)
  PROVE  Promise!Answer
<1>1. /\ pc = "sent" /\ pc' = "answered" /\ UNCHANGED <<job, cmd, result>>
      /\ resp' = r \o Zeros(RespBufferSize - Len(r))
  BY DEF Transact, sent
<1>2. resp' # <<>>
  <2>1. RespBufferSize - Len(r) \in Nat /\ Len(r) \in Nat
    BY SizeTypes, LenProperties
  <2>2. /\ Zeros(RespBufferSize - Len(r)) \in Seq(Octet)
        /\ Len(Zeros(RespBufferSize - Len(r))) = RespBufferSize - Len(r)
    BY <2>1, ZerosType
  <2>3. Len(resp') = Len(r) + (RespBufferSize - Len(r))
    BY <1>1, <2>2, ConcatOctets
  <2>4. Len(resp') # 0
    BY <2>1, <2>3, SizeTypes
  <2>5. QED BY <2>4, EmptySeq
<1>3. QED BY <1>1, <1>2 DEF Promise!Answer, Phase

LEMMA FailImplements ==
  ASSUME pc = "sent", pc' = "returned", UNCHANGED <<job, resp>>,
         result' \in {Error(BE4(TcsGeneralFailure)), Panic}
  PROVE  Promise!Fail
BY SameBE4 DEF Promise!Fail, Phase

LEMMA CollectImplements ==
  ASSUME Collect
  PROVE  Promise!Collect
BY DEF Collect, Promise!Collect, Phase

LEMMA StutterImplements ==
  ASSUME UNCHANGED <<pc, job, cmd, resp, result>>
  PROVE  UNCHANGED Promise!vars
BY DEF Promise!vars, Phase

LEMMA InitImplements == Init => Promise!Init
BY DEF Init, Promise!Init, Phase

LEMMA OwnStepImplements ==
  ASSUME IInv, Marshaled, IInv', Marshaled', Step
  PROVE  [Promise!Next]_Promise!vars
BY MarshalingImplements, ReadingImplements DEF Step

LEMMA StepImplements ==
  ASSUME IInv, Marshaled, IInv', Marshaled', [Next]_vars
  PROVE  [Promise!Next]_Promise!vars
<1>1. ASSUME NEW j \in Jobs, Call(j) PROVE Promise!Call
  BY <1>1, CallImplements
<1>2. CASE Step
  BY <1>2, OwnStepImplements
<1>3. ASSUME NEW r \in Responses, Transact(r) PROVE Promise!Answer
  BY <1>3, TransactImplements, ResponseAssumption
<1>4. CASE TransactFails
  <2>1. /\ pc = "sent" /\ pc' = "returned" /\ UNCHANGED <<job, resp>>
        /\ result' = Error(BE4(TcsGeneralFailure))
    BY <1>4 DEF TransactFails, Return, sent, received
  <2>2. QED BY <2>1, FailImplements DEF Promise!Next
<1>5. CASE Collect
  BY <1>5, CollectImplements DEF Promise!Next
<1>6. CASE UNCHANGED vars
  BY <1>6, StutterImplements DEF vars
<1>7. QED
  BY <1>1, <1>2, <1>3, <1>4, <1>5, <1>6 DEF Next, Promise!Next
-----------------------------------------------------------------------------
(* The theorems.                                                           *)

\* The invariant the others follow from: what has been marshaled and what is
\* still to come are the command of the job, but for sizes not yet known.
THEOREM MarshaledFieldByField == Spec => []Marshaled
<1>1. Init => Marshaled
  BY InitMarshaled
<1>2. IInv /\ Marshaled /\ [Next]_vars => Marshaled'
  BY MarshaledStep
<1>3. QED BY <1>1, <1>2, ReadPartByPart, PTL DEF Spec

\* What run_command_with_handles passes to transact is the command of the job,
\* its size, tag and authorization size those of the bytes that are there.
THEOREM SentWhole == Spec => []SentCommandIsJob
<1>1. Marshaled => SentCommandIsJob
  BY DEF Marshaled, SentCommandIsJob
<1>2. QED BY <1>1, MarshaledFieldByField, PTL

\* run_command_with_handles gives up before it asks the TPM exactly when the
\* command does not fit its buffer, wherever the buffer ends in it.
THEOREM RefusedExactly == Spec => []RefusedIffTooLarge
<1>1. Init => RefusedIffTooLarge
  BY DEF Init, RefusedIffTooLarge
<1>2. IInv /\ Marshaled /\ RefusedIffTooLarge /\ [Next]_vars => RefusedIffTooLarge'
  BY RefusedStep
<1>3. QED
  BY <1>1, <1>2, ReadPartByPart, MarshaledFieldByField, PTL DEF Spec

\* run_command_with_handles is TpmCall, whatever the jobs, the sizes of the
\* buffers and the answers: asked once with the whole command or not at all,
\* and the outcome a matter of the job and the answer.
THEOREM ClientIsCall == Spec => ImplementsCall
<1>1. Init => Promise!Init
  BY InitImplements
<1>2. IInv /\ Marshaled /\ IInv' /\ Marshaled' /\ [Next]_vars =>
        [Promise!Next]_Promise!vars
  BY StepImplements
<1>3. QED
  BY <1>1, <1>2, ReadPartByPart, MarshaledFieldByField, PTL
  DEF Spec, ImplementsCall, Promise!Spec
=============================================================================
