--------------------------- MODULE TpmSystemProofs ---------------------------
(***************************************************************************)
(* Proofs about the client in front of the server.  What TpmClientProofs   *)
(* and TpmServerProofs know of each alone still holds of the two together: *)
(* the command that goes in is a call the server may get, and what comes   *)
(* back is a response the client may get.  Coupled and Arrived say how the *)
(* two hang together.                                                      *)
(***************************************************************************)
EXTENDS TpmSystem, TpmClientProofs

\* The server with what is proved about it.
S == INSTANCE TpmServerProofs WITH
  pc <- spc, Arena <- RespBufferSize, Capacities <- {RespBufferSize},
  Lengths <- 0 .. CmdBufferSize, SizeFields <- 0 .. CmdBufferSize,
  CommandCodes <- {j.code : j \in Jobs}, Counts <- 0 .. U16Max

\* The server works on the command in the client's buffer, while the client
\* waits for it and for nothing else.
Coupled ==
  /\ spc \notin {"down", "idle", "panicked"} => pc = "sent" /\ req = AsCall(cmd)
  /\ pc \notin {"idle", "sent", "returned"} => spc = "idle"

\* The code in the response is the one the command deserves, and a response
\* that is not an error covers its header.
Arrived ==
  pc \in Receiving \/ Answered =>
    /\ RespCode(resp) = BE4(Verdict)
    /\ Verdict = Server!Success => RespSize(resp) >= HeaderSize

SystemInv == IInv /\ Marshaled /\ S!IInv /\ Coupled /\ Arrived

\* What TpmServer assumes of its constants holds of these.
LEMMA ServerAssumptions ==
  /\ RespBufferSize \in Nat /\ {RespBufferSize} \subseteq 0 .. RespBufferSize
  /\ 0 .. CmdBufferSize \subseteq Nat /\ {j.code : j \in Jobs} \subseteq Nat
  /\ 0 .. U16Max \subseteq Nat
  /\ ReseedInterval \in Nat \ {0} /\ MaxFill \in Nat /\ DrbgMayFail \in BOOLEAN
<1>1. \A j \in Jobs : j.code \in Nat
  BY JobTypes, U32Bound
<1>2. QED BY <1>1, SizeTypes, PlatformAssumption
-----------------------------------------------------------------------------
(* Server and S are the same server.                                       *)

LEMMA SameConstants ==
  /\ Server!Success = S!Success /\ Server!RcCommandSize = S!RcCommandSize
  /\ Server!RcCommandCode = S!RcCommandCode /\ Server!RcMemory = S!RcMemory
  /\ Server!HeaderSize = S!HeaderSize /\ Server!CcGetRandom = S!CcGetRandom
  /\ Server!TagNoSessions = S!TagNoSessions /\ Server!NoCall = S!NoCall
  /\ Server!OldByte = S!OldByte
  /\ Server!Success = 0 /\ Server!RcCommandSize = 322
  /\ Server!RcCommandCode = 323 /\ Server!RcMemory = 2308
  /\ Server!HeaderSize = 10 /\ Server!CcGetRandom = 379
  /\ Server!TagNoSessions = 32769
BY DEF Server!Success, S!Success, Server!RcCommandSize, S!RcCommandSize,
       Server!RcCommandCode, S!RcCommandCode, Server!RcMemory, S!RcMemory,
       Server!HeaderSize, S!HeaderSize, Server!CcGetRandom, S!CcGetRandom,
       Server!TagNoSessions, S!TagNoSessions, Server!NoCall, S!NoCall,
       Server!OldByte, S!OldByte, Server!EncodedByte, S!EncodedByte

USE DEF
  Server!EncodedByte, S!EncodedByte, Server!OldByte, S!OldByte,
  Server!NoCall, S!NoCall, Server!Success, S!Success,
  Server!RcCommandSize, S!RcCommandSize, Server!RcCommandCode,
  S!RcCommandCode, Server!RcMemory, S!RcMemory, Server!HeaderSize,
  S!HeaderSize, Server!CcGetRandom, S!CcGetRandom,
  Server!TagNoSessions, S!TagNoSessions, Server!RequestLen,
  S!RequestLen, Server!RequestByte, S!RequestByte, Server!Overwrite,
  S!Overwrite, Server!CallerMemory, S!CallerMemory,
  Server!RequestBuffer, S!RequestBuffer, Server!IsField, S!IsField,
  Server!Decoded, S!Decoded, Server!CanRead, S!CanRead,
  Server!CanWrite, S!CanWrite, Server!Write, S!Write, Server!Fail,
  S!Fail, Server!Release, S!Release, Server!RequiresReseeding,
  S!RequiresReseeding, Server!FillAccepts, S!FillAccepts, Server!View,
  S!View

LEMMA SameView ==
  /\ \A c : Server!View(c) = S!View(c)
  /\ \A c : S!View(c).len = S!RequestLen(c) /\ S!View(c).size = c.size
            /\ S!View(c).cc = c.cc /\ S!View(c).n = c.n /\ S!View(c).cap = c.cap
OBVIOUS

LEMMA SameReads ==
  /\ Server!ReadTooShort => S!ReadTooShort
  /\ Server!ReadTag => S!ReadTag
  /\ Server!ReadSize => S!ReadSize
  /\ Server!ReadCode => S!ReadCode
  /\ Server!ReadCount => S!ReadCount
<1>1. Server!ReadTooShort => S!ReadTooShort
  BY DEF Server!ReadTooShort, S!ReadTooShort
<1>2. Server!ReadTag => S!ReadTag
  BY DEF Server!ReadTag, S!ReadTag
<1> DEFINE D(n) == Server!Decoded(n)
<1>3. \A n : D(n) = S!Decoded(n)
  OBVIOUS
<1> HIDE DEF D, Server!Decoded, S!Decoded
<1>4. Server!ReadSize => S!ReadSize
  <2>1. Server!Decoded(4) = S!Decoded(4)
    BY <1>3 DEF D
  <2>2. QED BY <2>1 DEF Server!ReadSize, S!ReadSize
<1>5. Server!ReadCode => S!ReadCode
  <2>1. Server!Decoded(4) = S!Decoded(4)
    BY <1>3 DEF D
  <2>2. QED BY <2>1 DEF Server!ReadCode, S!ReadCode
<1>6. Server!ReadCount => S!ReadCount
  <2>1. Server!Decoded(2) = S!Decoded(2)
    BY <1>3 DEF D
  <2>2. QED BY <2>1 DEF Server!ReadCount, S!ReadCount
<1>7. QED BY <1>1, <1>2, <1>4, <1>5, <1>6

LEMMA SameRandom ==
  /\ Server!Reserve => S!Reserve
  /\ Server!Reseed => S!Reseed
  /\ Server!SkipReseed => S!SkipReseed
  /\ Server!Fill => S!Fill
  /\ Server!DrbgFails => S!DrbgFails
<1>1. Server!Reserve => S!Reserve
  BY DEF Server!Reserve, S!Reserve
<1>2. Server!Reseed => S!Reseed
  BY DEF Server!Reseed, S!Reseed
<1>3. Server!SkipReseed => S!SkipReseed
  BY DEF Server!SkipReseed, S!SkipReseed
<1>4. Server!Fill => S!Fill
  BY DEF Server!Fill, S!Fill
<1>5. Server!DrbgFails => S!DrbgFails
  BY DEF Server!DrbgFails, S!DrbgFails
<1>6. QED BY <1>1, <1>2, <1>3, <1>4, <1>5

LEMMA SameWrites ==
  /\ Server!PutTag => S!PutTag
  /\ Server!PutSize => S!PutSize
  /\ Server!PutCode => S!PutCode
  /\ Server!FillError => S!FillError
<1>1. Server!PutTag => S!PutTag
  BY DEF Server!PutTag, S!PutTag
<1>2. Server!PutSize => S!PutSize
  BY DEF Server!PutSize, S!PutSize
<1>3. Server!PutCode => S!PutCode
  BY DEF Server!PutCode, S!PutCode
<1>4. Server!FillError => S!FillError
  BY DEF Server!FillError, S!FillError
<1>5. QED BY <1>1, <1>2, <1>3, <1>4

LEMMA SameCaller ==
  /\ Server!Init => S!Init
  /\ Server!New => S!New
  /\ Server!Restart => S!Restart
  /\ Server!Collect => S!Collect
<1>1. Server!Init => S!Init
  BY DEF Server!Init, S!Init
<1>2. Server!New => S!New
  BY DEF Server!New, S!New
<1>3. Server!Restart => S!Restart
  BY DEF Server!Restart, S!Restart
<1>4. Server!Collect => S!Collect
  BY DEF Server!Collect, S!Collect
<1>5. QED BY <1>1, <1>2, <1>3, <1>4

LEMMA SameSubmit == \A c : Server!Submit(c) => S!Submit(c)
BY DEF Server!Submit, S!Submit

HIDE DEF
  Server!EncodedByte, S!EncodedByte, Server!OldByte, S!OldByte,
  Server!NoCall, S!NoCall, Server!Success, S!Success,
  Server!RcCommandSize, S!RcCommandSize, Server!RcCommandCode,
  S!RcCommandCode, Server!RcMemory, S!RcMemory, Server!HeaderSize,
  S!HeaderSize, Server!CcGetRandom, S!CcGetRandom,
  Server!TagNoSessions, S!TagNoSessions, Server!RequestLen,
  S!RequestLen, Server!RequestByte, S!RequestByte, Server!Overwrite,
  S!Overwrite, Server!CallerMemory, S!CallerMemory,
  Server!RequestBuffer, S!RequestBuffer, Server!IsField, S!IsField,
  Server!Decoded, S!Decoded, Server!CanRead, S!CanRead,
  Server!CanWrite, S!CanWrite, Server!Write, S!Write, Server!Fail,
  S!Fail, Server!Release, S!Release, Server!RequiresReseeding,
  S!RequiresReseeding, Server!FillAccepts, S!FillAccepts, Server!View,
  S!View

LEMMA SameServe == Server!Serve => S!Serve
BY SameReads, SameRandom, SameWrites, Zenon DEF Server!Serve, S!Serve

LEMMA SameVerdict ==
  \A c : Server!Service!Verdict(Server!View(c)) = S!Service!Verdict(S!View(c))
<1>1. \A r : Server!Service!Verdict(r) = S!Service!Verdict(r)
  BY DEF Server!Service!Verdict, S!Service!Verdict,
         Server!Service!HeaderSize, S!Service!HeaderSize,
         Server!Service!RcCommandSize, S!Service!RcCommandSize,
         Server!Service!RcCommandCode, S!Service!RcCommandCode,
         Server!Service!RcMemory, S!Service!RcMemory,
         Server!Service!Success, S!Service!Success,
         Server!Service!CcGetRandom, S!Service!CcGetRandom
<1>2. QED BY <1>1, SameView
-----------------------------------------------------------------------------
(* The command that goes in.                                               *)

\* from_be_bytes undoes to_be_bytes.
LEMMA U32OfBE4 ==
  ASSUME NEW v \in 0 .. U32Large
  PROVE  /\ BE4(v)[1] \in Nat /\ BE4(v)[1] <= 127
         /\ 16777216 * BE4(v)[1] + 65536 * BE4(v)[2] + 256 * BE4(v)[3] + BE4(v)[4] = v
<1>1. v \in Nat /\ v <= 2147483647
  BY U32Bound, SMT
<1>2. /\ BE4(v)[1] = v \div 16777216 /\ BE4(v)[2] = (v \div 65536) % 256
      /\ BE4(v)[3] = (v \div 256) % 256 /\ BE4(v)[4] = v % 256
  BY SMT DEF BE4
<1> DEFINE a == v \div 256
           b == v \div 65536
           c == v \div 16777216
<1>3. v = 256 * a + (v % 256) /\ a \in Nat /\ v % 256 \in Nat
  <2>1. v \in Nat
    BY <1>1
  <2>2. QED BY ONLY <2>1, SMT
<1>4. a = 256 * b + (a % 256) /\ b \in Nat /\ a % 256 \in Nat
  <2>1. b = a \div 256
    BY <1>1, SMT
  <2>2. QED BY <1>3, <2>1, SMT
<1>5. b = 256 * c + (b % 256) /\ c \in Nat /\ b % 256 \in Nat /\ c <= 127
  <2>1. c = b \div 256 /\ c <= 127
    BY <1>1, SMT
  <2>2. QED BY <1>4, <2>1, SMT
<1> HIDE DEF a, b, c
<1>6. v = 16777216 * c + 65536 * (b % 256) + 256 * (a % 256) + (v % 256)
  BY <1>3, <1>4, <1>5, SMT
<1>7. QED BY <1>2, <1>5, <1>6 DEF a, b, c

LEMMA U32At ==
  ASSUME NEW s \in Seq(Octet), NEW at \in Nat, at + 4 <= Len(s),
         NEW v \in 0 .. U32Large,
         \A k \in 1 .. 4 : s[at + k] = BE4(v)[k]
  PROVE  U32(After(s, at)) = v
<1> DEFINE t == SubSeq(s, at + 1, Len(s))
<1>1. \A i \in 1 .. Len(s) - at : t[i] = s[at + i]
  BY PieceOf
<1> HIDE DEF t
<1>2. \A k \in 1 .. 4 : t[k] = BE4(v)[k]
  <2>1. \A k \in 1 .. 4 : k \in 1 .. Len(s) - at
    OBVIOUS
  <2>2. QED BY <1>1, <2>1
<1>3. t[1] = BE4(v)[1] /\ t[2] = BE4(v)[2] /\ t[3] = BE4(v)[3] /\ t[4] = BE4(v)[4]
  BY <1>2
<1>4. ~(t[1] > 127)
  BY <1>3, U32OfBE4
<1>5. U32(t) = 16777216 * t[1] + 65536 * t[2] + 256 * t[3] + t[4]
  BY <1>4 DEF U32
<1>6. U32(t) = v
  BY <1>3, <1>5, U32OfBE4
<1>7. QED BY <1>6 DEF t, After

LEMMA HeaderBytes ==
  ASSUME NEW tag \in {TagNoSessions, TagSessions},
         NEW size \in 0 .. U32Large, NEW code \in 0 .. U32Large
  PROVE  \A k \in 1 .. 4 : /\ Header(tag, size, code)[2 + k] = BE4(size)[k]
                           /\ Header(tag, size, code)[6 + k] = BE4(code)[k]
<1>1. tag \in 0 .. U16Max
  BY U16Bound, SMT DEF TagNoSessions, TagSessions
<1> DEFINE a == BE2(tag)
           b == BE4(size)
           c == BE4(code)
           ab == a \o b
           abc == ab \o c
<1>2. /\ a \in Seq(Octet) /\ Len(a) = 2 /\ b \in Seq(Octet) /\ Len(b) = 4
      /\ c \in Seq(Octet) /\ Len(c) = 4
  BY <1>1, BE2Type, BE4Type
<1>3. Header(tag, size, code) = abc
  BY DEF Header
<1> HIDE DEF a, b, c
<1>4. /\ ab \in Seq(Octet) /\ Len(ab) = Len(a) + Len(b)
      /\ \A i \in 1 .. Len(b) : ab[Len(a) + i] = b[i]
  <2>1. a \in Seq(Octet) /\ b \in Seq(Octet)
    BY <1>2
  <2>2. QED BY ONLY <2>1, ConcatParts
<1> HIDE DEF ab
<1>5. /\ \A i \in 1 .. Len(ab) : abc[i] = ab[i]
      /\ \A i \in 1 .. Len(c) : abc[Len(ab) + i] = c[i]
  <2>1. ab \in Seq(Octet) /\ c \in Seq(Octet)
    BY <1>2, <1>4
  <2>2. QED BY ONLY <2>1, ConcatParts
<1> HIDE DEF abc
<1>6. ASSUME NEW k \in 1 .. 4
      PROVE  abc[2 + k] = b[k] /\ abc[6 + k] = c[k]
  <2>1. k \in 1 .. Len(b) /\ 2 + k \in 1 .. Len(ab) /\ k \in 1 .. Len(c)
    BY <1>2, <1>4
  <2>2. Len(a) = 2 /\ Len(ab) = 6
    BY <1>2, <1>4
  <2>3. 2 + k \in 1 .. Len(ab) /\ abc[2 + k] = ab[Len(a) + k]
    BY ONLY <1>5, <2>1, <2>2
  <2>4. abc[6 + k] = abc[Len(ab) + k]
    BY ONLY <2>2
  <2>5. QED BY ONLY <1>4, <1>5, <2>1, <2>3, <2>4
<1>7. QED BY <1>3, <1>6 DEF b, c

\* The size in a command's header is the number of its bytes, and the code
\* that of the job: what the server reads there.
LEMMA CommandHeader ==
  ASSUME NEW j \in Jobs, Len(Command(j)) <= CmdBufferSize
  PROVE  /\ Command(j) \in Seq(Octet) /\ Len(Command(j)) >= 10
         /\ U32(After(Command(j), 2)) = Len(Command(j))
         /\ U32(After(Command(j), 6)) = j.code
<1> DEFINE h == FieldBytes(j.handles)
           a == AuthArea(j)
           p == FieldBytes(j.params)
           body == (h \o a) \o p
           size == HeaderSize + Len(body)
           header == Header(CommandTag(j), size, j.code)
           command == Command(j)
<1>1. /\ h \in Seq(Octet) /\ a \in Seq(Octet) /\ p \in Seq(Octet)
      /\ command = header \o body
      /\ Len(command) = 10 + Len(h) + Len(a) + Len(p)
  BY PartsType, CommandLength, TagOf
<1> HIDE DEF h, a, p
<1>2. body \in Seq(Octet) /\ Len(body) = Len(h) + Len(a) + Len(p)
  BY <1>1, ThreeParts
<1> HIDE DEF body
<1>3. Len(command) = size /\ size \in 0 .. U32Large /\ size >= 10
  <2>1. Len(h) \in Nat /\ Len(a) \in Nat /\ Len(p) \in Nat
    BY <1>1
  <2>2. QED BY <1>1, <1>2, <2>1, SizeTypes, U32Bound
<1>4. CommandTag(j) \in {TagNoSessions, TagSessions} /\ j.code \in 0 .. U32Large
  BY TagOf, JobTypes
<1> HIDE DEF size
<1>5. header \in Seq(Octet) /\ Len(header) = 10
  BY <1>3, <1>4, HeaderType
<1>6. \A k \in 1 .. 4 : header[2 + k] = BE4(size)[k] /\ header[6 + k] = BE4(j.code)[k]
  BY <1>3, <1>4, HeaderBytes
<1> HIDE DEF header, command
<1>7. command \in Seq(Octet) /\ \A i \in 1 .. 10 : command[i] = header[i]
  <2>1. /\ header \o body \in Seq(Octet)
        /\ \A i \in 1 .. Len(header) : (header \o body)[i] = header[i]
    <3>1. header \in Seq(Octet) /\ body \in Seq(Octet)
      BY <1>2, <1>5
    <3>2. QED BY ONLY <3>1, ConcatParts
  <2>2. QED BY <1>1, <1>5, <2>1
<1>8. \A k \in 1 .. 4 : command[2 + k] = BE4(size)[k] /\ command[6 + k] = BE4(j.code)[k]
  <2>1. \A k \in 1 .. 4 : 2 + k \in 1 .. 10 /\ 6 + k \in 1 .. 10
    OBVIOUS
  <2>2. QED BY <1>6, <1>7, <2>1
<1>9. U32(After(command, 2)) = size
  <2>1. 2 \in Nat /\ 2 + 4 <= Len(command)
    BY <1>3
  <2>2. QED BY <1>3, <1>7, <1>8, <2>1, U32At
<1>10. U32(After(command, 6)) = j.code
  <2>1. 6 \in Nat /\ 6 + 4 <= Len(command)
    BY <1>3
  <2>2. QED BY <1>4, <1>7, <1>8, <2>1, U32At
<1>11. QED BY <1>3, <1>7, <1>9, <1>10 DEF command

\* What the client sends is a call the server may get.
LEMMA CommandIsCall ==
  ASSUME IInv, Marshaled, pc = "sent"
  PROVE  /\ job \in Jobs /\ cmd = Command(job) /\ AsCall(cmd) \in S!Call
         /\ AsCall(cmd).mode = "separate" /\ AsCall(cmd).cap = RespBufferSize
         /\ AsCall(cmd).len = Len(cmd) /\ AsCall(cmd).size = Len(cmd)
         /\ AsCall(cmd).cc = job.code
         /\ Len(cmd) >= 10
<1> DEFINE call == AsCall(cmd)
<1>1. job \in Jobs /\ Len(Command(job)) <= CmdBufferSize /\ cmd = Command(job)
  BY CommandSent DEF Marshaled
<1>2. /\ cmd \in Seq(Octet) /\ Len(cmd) >= 10
      /\ U32(After(cmd, 2)) = Len(cmd) /\ U32(After(cmd, 6)) = job.code
  BY <1>1, CommandHeader
<1>3. /\ call.mode = "separate" /\ call.cap = RespBufferSize
      /\ call.len = Len(cmd) /\ call.size = Len(cmd) /\ call.cc = job.code
      /\ call.n = IF CanGet(cmd, 12) THEN U16(After(cmd, 10)) ELSE 0
  BY <1>2 DEF AsCall
<1>8. call = [mode |-> call.mode, cap |-> call.cap, len |-> call.len,
              size |-> call.size, cc |-> call.cc, n |-> call.n]
  BY DEF AsCall
<1> HIDE DEF call
<1>4. call.n \in 0 .. U16Max
  <2>1. CASE CanGet(cmd, 12)
    <3> DEFINE t == SubSeq(cmd, 10 + 1, Len(cmd))
    <3>1. t \in Seq(Octet) /\ Len(t) = Len(cmd) - 10 /\ Len(t) >= 2
      BY <1>2, <2>1, PieceOf DEF CanGet
    <3> HIDE DEF t
    <3>2. t[1] \in Octet /\ t[2] \in Octet
      BY <3>1
    <3>5. t[1] \in Nat /\ t[1] <= 255 /\ t[2] \in Nat /\ t[2] <= 255
      BY <3>2, OctetBound
    <3>3. U16(t) \in 0 .. U16Max
      <4> DEFINE x == t[1]
                 y == t[2]
      <4>1. x \in Nat /\ x <= 255 /\ y \in Nat /\ y <= 255 /\ U16(t) = 256 * x + y
        BY <3>5 DEF U16
      <4> HIDE DEF x, y
      <4>2. 256 * x + y \in Nat /\ 256 * x + y <= U16Max
        BY <4>1, U16Bound
      <4>3. QED BY <4>1, <4>2, U16Bound
    <3>4. t = After(cmd, 10)
      BY Zenon DEF t, After
    <3>6. call.n = U16(After(cmd, 10))
      BY <1>3, <2>1
    <3>7. call.n = U16(t)
      BY <3>4, <3>6
    <3>8. QED BY <3>3, <3>7
  <2>2. CASE ~CanGet(cmd, 12)
    BY <1>3, <2>2, U16Bound
  <2>3. QED BY <2>1, <2>2
<1>5. Len(cmd) \in 0 .. CmdBufferSize
  BY <1>1, <1>2
<1>6. call \in [mode : {"separate", "inplace"}, cap : {RespBufferSize},
                len : 0 .. CmdBufferSize, size : 0 .. CmdBufferSize,
                cc : {j.code : j \in Jobs}, n : 0 .. U16Max]
  <2> DEFINE codes == {j.code : j \in Jobs}
  <2>1. call.cc \in codes
    BY <1>1, <1>3
  <2> HIDE DEF codes
  <2>2. /\ call.mode \in {"separate", "inplace"} /\ call.cap \in {RespBufferSize}
        /\ call.len \in 0 .. CmdBufferSize /\ call.size \in 0 .. CmdBufferSize
    BY <1>3, <1>5
  <2>3. call \in [mode : {"separate", "inplace"}, cap : {RespBufferSize},
                  len : 0 .. CmdBufferSize, size : 0 .. CmdBufferSize,
                  cc : codes, n : 0 .. U16Max]
    BY <1>8, <1>4, <2>1, <2>2
  <2>4. QED BY <2>3 DEF codes
<1>7. QED BY <1>1, <1>2, <1>3, <1>6 DEF S!Call, call
-----------------------------------------------------------------------------
(* The response that comes back.                                           *)

\* What the response buffer holds when the server is done.
LEMMA ReplyInMemory ==
  ASSUME S!IInv, spc = "done", req.mode = "separate", req.cap = RespBufferSize,
         NEW i \in 0 .. RespBufferSize - 1
  PROVE  /\ err = 0 => mem[i] = IF i < 10 + count THEN S!ResponseByte(count, i)
                                                  ELSE S!OldByte
         /\ err # 0 => mem[i] = IF i \in 6 .. 9
                                THEN S!EncodedByte("server", err, i - 6)
                                ELSE S!OldByte
<1>1. S!CallerMemory(req)[i] = S!OldByte
  BY DEF S!CallerMemory
<1>2. S!HeaderSize = 10 /\ S!Success = 0 /\ count \in Nat
  BY SameConstants, U16Bound DEF S!IInv, S!TypeOK
<1>3. CASE err = 0
  <2>1. S!Succeeded /\ S!Written = 0 .. 10 + count - 1
    BY <1>2, <1>3 DEF S!Succeeded, S!Written
  <2>2. mem = [k \in 0 .. RespBufferSize - 1 |->
                 IF k \in S!Written THEN S!ResponseByte(count, k)
                                    ELSE S!CallerMemory(req)[k]]
    BY <2>1 DEF S!IInv, S!Memory
  <2>3. i \in S!Written <=> i < 10 + count
    BY <1>2, <2>1
  <2>4. QED BY <1>1, <1>3, <2>2, <2>3
<1>4. CASE err # 0
  <2>1. ret = 10
    BY <1>2, <1>4, SizeTypes DEF S!IInv, S!Progress
  <2>2. mem = [k \in 0 .. RespBufferSize - 1 |->
                 IF ret > 0 /\ k \in 6 .. 9
                 THEN S!EncodedByte("server", err, k - 6)
                 ELSE S!CallerMemory(req)[k]]
    BY <1>2, <1>4 DEF S!IInv, S!Memory
  <2>3. ret > 0
    BY <2>1
  <2>4. QED BY <1>1, <1>4, <2>2, <2>3
<1>5. QED BY <1>3, <1>4

\* The bytes the server announces are those of the numbers it encoded, the
\* DRBG's, and the zeros the client left.
LEMMA ReplyBytes ==
  ASSUME S!IInv, spc = "done", req.mode = "separate", req.cap = RespBufferSize,
         NEW random \in [1 .. Drawn -> RandomBytes],
         NEW i \in 0 .. RespBufferSize - 1
  PROVE  /\ ByteAt(i, random) \in Octet
         /\ i \in 6 .. 9 => ByteAt(i, random) = BE4(err)[i - 6 + 1]
         /\ err = 0 /\ i \in 2 .. 5 =>
              ByteAt(i, random) = BE4(10 + count)[i - 2 + 1]
<1>1. /\ count \in Nat /\ count <= U16Max /\ U16Max <= 65535
      /\ err \in {0, 322, 323, 2308}
  BY SameConstants, U16Bound DEF S!IInv, S!TypeOK
<1>2. /\ \A v : \A k \in 1 .. 4 : v \in 0 .. U32Large => BE4(v)[k] \in Octet
      /\ \A v : \A k \in 1 .. 2 : v \in 0 .. U16Max => BE2(v)[k] \in Octet
  <2>1. ASSUME NEW v \in 0 .. U32Large, NEW k \in 1 .. 4 PROVE BE4(v)[k] \in Octet
    <3>1. BE4(v) \in Seq(Octet) /\ Len(BE4(v)) = 4
      BY BE4Type
    <3>2. QED BY <3>1, ElementOfSeq
  <2>2. ASSUME NEW v \in 0 .. U16Max, NEW k \in 1 .. 2 PROVE BE2(v)[k] \in Octet
    <3>1. BE2(v) \in Seq(Octet) /\ Len(BE2(v)) = 2
      BY BE2Type
    <3>2. QED BY <3>1, ElementOfSeq
  <2>3. QED BY <2>1, <2>2
<1>3. /\ 10 + count \in 0 .. U32Large /\ err \in 0 .. U32Large
      /\ 0 \in 0 .. U32Large /\ 32769 \in 0 .. U16Max
  BY <1>1, U16Bound, U32Bound
<1>4. 0 \in Octet
  BY OctetBound
<1>5. CASE S!OldByte = mem[i]
  <2>1. mem[i].src = "caller"
    BY <1>5 DEF S!OldByte, S!EncodedByte
  <2>2. ByteAt(i, random) = 0
    BY <2>1 DEF ByteAt
  <2>3. err = 0 => ~(i < 10 + count)
    <3>1. ASSUME err = 0, i < 10 + count PROVE FALSE
      <4>1. mem[i] = S!ResponseByte(count, i)
        BY <3>1, ReplyInMemory
      <4>2. S!ResponseByte(count, i).src \in {"server", "drbg"}
        BY DEF S!ResponseByte, S!EncodedByte
      <4>3. QED BY <2>1, <4>1, <4>2
    <3>2. QED BY <3>1
  <2>4. err # 0 => i \notin 6 .. 9
    <3>1. ASSUME err # 0, i \in 6 .. 9 PROVE FALSE
      <4>1. mem[i] = S!EncodedByte("server", err, i - 6)
        BY <3>1, ReplyInMemory
      <4>2. QED BY <2>1, <4>1 DEF S!EncodedByte
    <3>2. QED BY <3>1
  <2>5. QED BY <1>1, <1>4, <2>2, <2>3, <2>4
<1>6. CASE err = 0 /\ i < 10 + count
  <2>1. mem[i] = S!ResponseByte(count, i)
    BY <1>6, ReplyInMemory
  <2>2. CASE i < 2
    <3>1. mem[i] = S!EncodedByte("server", 32769, i)
      BY <2>1, <2>2, SameConstants DEF S!ResponseByte
    <3>2. mem[i].src = "server" /\ mem[i].val = 32769 /\ mem[i].at = i
      BY <3>1 DEF S!EncodedByte
    <3>3. ByteAt(i, random) = BE2(32769)[i + 1]
      BY <2>2, <3>2 DEF ByteAt
    <3>4. i + 1 \in 1 .. 2
      BY <2>2
    <3>5. QED BY <1>2, <1>3, <2>2, <3>3, <3>4
  <2>3. CASE i \in 2 .. 5
    <3>1. mem[i] = S!EncodedByte("server", 10 + count, i - 2)
      BY <2>1, <2>3, SameConstants DEF S!ResponseByte
    <3>2. mem[i].src = "server" /\ mem[i].val = 10 + count /\ mem[i].at = i - 2
      BY <3>1 DEF S!EncodedByte
    <3>3. ByteAt(i, random) = BE4(10 + count)[i - 2 + 1]
      BY <2>3, <3>2 DEF ByteAt
    <3>4. i - 2 + 1 \in 1 .. 4
      BY <2>3
    <3>5. QED BY <1>2, <1>3, <2>3, <3>3, <3>4
  <2>4. CASE i \in 6 .. 9
    <3>1. mem[i] = S!EncodedByte("server", 0, i - 6)
      BY <2>1, <2>4, SameConstants DEF S!ResponseByte
    <3>2. mem[i].src = "server" /\ mem[i].val = 0 /\ mem[i].at = i - 6
      BY <3>1 DEF S!EncodedByte
    <3>3. ByteAt(i, random) = BE4(0)[i - 6 + 1]
      BY <2>4, <3>2 DEF ByteAt
    <3>4. i - 6 + 1 \in 1 .. 4
      BY <2>4
    <3>5. QED BY <1>2, <1>3, <1>6, <2>4, <3>3, <3>4
  <2>5. CASE i >= 10
    <3>1. mem[i] = S!EncodedByte("drbg", 0, i - 10)
      BY <2>1, <2>5, SameConstants DEF S!ResponseByte
    <3>2. mem[i].src = "drbg" /\ mem[i].at = i - 10
      BY <3>1 DEF S!EncodedByte
    <3>3. ByteAt(i, random) = random[i - 10 + 1]
      BY <3>2 DEF ByteAt
    <3>4. i - 10 + 1 \in 1 .. Drawn
      BY <1>1, <1>6, <2>5 DEF Drawn
    <3>5. random[i - 10 + 1] \in Octet
      BY <3>4, RandomAssumption
    <3>6. QED BY <2>5, <3>3, <3>5
  <2>6. QED BY <2>2, <2>3, <2>4, <2>5
<1>7. CASE err # 0 /\ i \in 6 .. 9
  <2>1. mem[i] = S!EncodedByte("server", err, i - 6)
    BY <1>7, ReplyInMemory
  <2>2. mem[i].src = "server" /\ mem[i].val = err /\ mem[i].at = i - 6
    BY <2>1 DEF S!EncodedByte
  <2>3. ByteAt(i, random) = BE4(err)[i - 6 + 1]
    BY <1>7, <2>2 DEF ByteAt
  <2>4. i - 6 + 1 \in 1 .. 4
    BY <1>7
  <2>5. QED BY <1>2, <1>3, <1>7, <2>3, <2>4
<1>8. QED BY <1>5, <1>6, <1>7, ReplyInMemory

\* When the server is done, its error is what the command deserved.
LEMMA DoneWithVerdict ==
  ASSUME S!IInv, spc = "done", req = AsCall(cmd)
  PROVE  err = Verdict /\ err \in {0, 322, 323, 2308}
<1>1. err = S!Service!Verdict(S!View(req))
  BY DEF S!IInv, S!Progress
<1>2. Verdict = S!Service!Verdict(S!View(AsCall(cmd)))
  BY SameVerdict DEF Verdict
<1>3. err \in {0, 322, 323, 2308}
  BY SameConstants DEF S!IInv, S!TypeOK
<1>4. QED BY <1>1, <1>2, <1>3

\* And its response is one the client can read: it fills the buffer, its code
\* is the verdict, and its size covers the header.
LEMMA ResponseArrives ==
  ASSUME S!IInv, spc = "done", req = AsCall(cmd),
         NEW random \in [1 .. Drawn -> RandomBytes]
  PROVE  /\ ResponseBytes(random) \in Seq(Octet)
         /\ Len(ResponseBytes(random)) = RespBufferSize
         /\ RespCode(ResponseBytes(random)) = BE4(Verdict)
         /\ Verdict = 0 => RespSize(ResponseBytes(random)) >= HeaderSize
<1> DEFINE r == ResponseBytes(random)
           byte(i) == ByteAt(i - 1, random)
<1>1. /\ req.mode = "separate" /\ req.cap = RespBufferSize
      /\ err = Verdict /\ err \in {0, 322, 323, 2308}
  BY DoneWithVerdict DEF AsCall
<1>2. RespBufferSize \in Nat /\ RespBufferSize >= 10 /\ HeaderSize = 10
  BY SizeTypes
<1>3. /\ count \in Nat /\ 10 + count \in 0 .. U32Large /\ err \in 0 .. U32Large
  BY <1>1, U16Bound, U32Bound DEF S!IInv, S!TypeOK
<1>4. \A i \in 1 .. RespBufferSize :
        /\ byte(i) \in Octet
        /\ i \in 7 .. 10 => byte(i) = BE4(err)[i - 6]
        /\ err = 0 /\ i \in 3 .. 6 => byte(i) = BE4(10 + count)[i - 2]
  <2> SUFFICES ASSUME NEW i \in 1 .. RespBufferSize
               PROVE  /\ byte(i) \in Octet
                      /\ i \in 7 .. 10 => byte(i) = BE4(err)[i - 6]
                      /\ err = 0 /\ i \in 3 .. 6 =>
                           byte(i) = BE4(10 + count)[i - 2]
    OBVIOUS
  <2> DEFINE k == i - 1
  <2>1. k \in 0 .. RespBufferSize - 1
    BY <1>2
  <2>2. /\ i \in 7 .. 10 <=> k \in 6 .. 9
        /\ i \in 3 .. 6 <=> k \in 2 .. 5
        /\ k - 6 + 1 = i - 6 /\ k - 2 + 1 = i - 2
    OBVIOUS
  <2>3. byte(i) = ByteAt(k, random)
    OBVIOUS
  <2> HIDE DEF k, byte
  <2>4. /\ ByteAt(k, random) \in Octet
        /\ k \in 6 .. 9 => ByteAt(k, random) = BE4(err)[k - 6 + 1]
        /\ err = 0 /\ k \in 2 .. 5 =>
             ByteAt(k, random) = BE4(10 + count)[k - 2 + 1]
    BY <1>1, <2>1, ReplyBytes
  <2>5. QED BY <2>2, <2>3, <2>4
<1>5. r = [i \in 1 .. RespBufferSize |-> byte(i)]
  BY DEF ResponseBytes
<1> HIDE DEF byte, r
<1>6. /\ r \in Seq(Octet) /\ Len(r) = RespBufferSize
      /\ \A i \in 1 .. RespBufferSize : r[i] = byte(i)
  BY <1>2, <1>4, <1>5
<1>7. RespCode(r) = BE4(err)
  <2> DEFINE code == SubSeq(r, 6 + 1, 10)
  <2>1. /\ code \in Seq(Octet) /\ Len(code) = 4
        /\ \A k \in 1 .. 4 : code[k] = r[6 + k]
    BY <1>2, <1>6, PieceOf
  <2>2. BE4(err) \in Seq(Octet) /\ Len(BE4(err)) = 4
    BY <1>3, BE4Type
  <2>3. RespCode(r) = code
    BY <1>2 DEF RespCode
  <2> HIDE DEF code
  <2>4. ASSUME NEW k \in 1 .. 4 PROVE code[k] = BE4(err)[k]
    <3>1. 6 + k \in 1 .. RespBufferSize /\ 6 + k \in 7 .. 10 /\ 6 + k - 6 = k
      BY <1>2
    <3>2. QED BY <1>4, <1>6, <2>1, <3>1
  <2>5. code = BE4(err)
    BY <2>1, <2>2, <2>4, SeqEqual
  <2>6. QED BY <2>3, <2>5
<1>8. ASSUME Verdict = 0
      PROVE  RespSize(r) >= HeaderSize
  <2>1. ASSUME NEW k \in 1 .. 4 PROVE r[2 + k] = BE4(10 + count)[k]
    <3>1. 2 + k \in 1 .. RespBufferSize /\ 2 + k \in 3 .. 6 /\ 2 + k - 2 = k
      BY <1>2
    <3>2. QED BY <1>1, <1>4, <1>6, <1>8, <3>1
  <2>2. U32(After(r, 2)) = 10 + count
    <3>1. 2 \in Nat /\ 2 + 4 <= Len(r)
      BY <1>2, <1>6
    <3>2. QED BY <1>3, <1>6, <2>1, <3>1, U32At
  <2>3. QED BY <1>2, <1>3, <2>2 DEF RespSize
<1>9. QED BY <1>1, <1>6, <1>7, <1>8 DEF r
-----------------------------------------------------------------------------
(* SystemInv is inductive.                                                 *)

\* Every step of the system but two is a step of the client or none.
LEMMA ClientStep ==
  ASSUME Begin \/ ClientRuns \/ ClientIsDone \/ Enter \/ ServerRuns \/ ServerStarts
  PROVE  [Next]_vars
BY DEF Begin, ClientRuns, ClientIsDone, Enter, ServerRuns, ServerStarts, Next

\* Every step of the system is a step of the server or none.
LEMMA ServerStep ==
  ASSUME IInv, Marshaled, SystemNext
  PROVE  [S!Next]_S!vars
<1>1. CASE UNCHANGED serverVars
  BY <1>1 DEF serverVars, S!vars
<1>2. CASE Enter
  <2>1. AsCall(cmd) \in S!Call /\ S!Submit(AsCall(cmd))
    BY <1>2, CommandIsCall, SameSubmit DEF Enter
  <2>2. QED BY <2>1 DEF S!Next
<1>3. CASE ServerRuns
  BY <1>3, SameServe DEF ServerRuns, S!Next
<1>4. CASE Leave
  BY <1>4, SameCaller DEF Leave, S!Next
<1>5. CASE ServerStarts
  BY <1>5, SameCaller DEF ServerStarts, S!Next
<1>6. QED
  BY <1>1, <1>2, <1>3, <1>4, <1>5
  DEF SystemNext, CallRuns, Begin, ClientRuns, ClientIsDone, Unwind

\* What the server gives back is a response like any other to the client.
LEMMA LeaveIsTransact ==
  ASSUME IInv, Marshaled, S!IInv, Coupled, Leave
  PROVE  /\ pc = "sent" /\ spc = "done" /\ req = AsCall(cmd)
         /\ \E r \in Seq(Octet) :
              /\ Len(r) = RespBufferSize /\ Transact(r)
              /\ RespCode(r) = BE4(Verdict)
              /\ Verdict = 0 => RespSize(r) >= HeaderSize
<1>1. spc = "done"
  BY DEF Leave, Server!Collect
<1>2. pc = "sent" /\ req = AsCall(cmd)
  BY <1>1 DEF Coupled
<1>3. PICK random \in [1 .. Drawn -> RandomBytes] : Transact(ResponseBytes(random))
  BY DEF Leave
<1>4. /\ ResponseBytes(random) \in Seq(Octet)
      /\ Len(ResponseBytes(random)) = RespBufferSize
      /\ RespCode(ResponseBytes(random)) = BE4(Verdict)
      /\ Verdict = 0 => RespSize(ResponseBytes(random)) >= HeaderSize
  BY <1>1, <1>2, ResponseArrives
<1>5. QED BY <1>1, <1>2, <1>3, <1>4

LEMMA ClientKeeps ==
  ASSUME SystemInv, SystemNext
  PROVE  IInv' /\ Marshaled'
<1>1. CASE Begin \/ ClientRuns \/ ClientIsDone \/ Enter \/ ServerRuns \/ ServerStarts
  BY <1>1, ClientStep, IInvStep, MarshaledStep DEF SystemInv
<1>2. CASE Leave
  <2>1. PICK r \in Seq(Octet) : Len(r) = RespBufferSize /\ Transact(r)
    BY <1>2, LeaveIsTransact DEF SystemInv
  <2>2. Len(r) <= RespBufferSize
    BY <2>1, SizeTypes
  <2>3. QED BY <2>1, <2>2, TransactStep, TransactMarshaled DEF SystemInv
<1>3. CASE Unwind
  <2>1. /\ pc = "sent" /\ pc' = "returned" /\ result' = Panic
        /\ UNCHANGED <<job, cmd, todo, authAt, done, received>>
    BY <1>3 DEF Unwind, Return, sent
  <2>2. /\ job \in Jobs /\ cmd \in Seq(Octet) /\ Len(cmd) <= CmdBufferSize
        /\ todo \in Seq(Field) /\ authAt \in 0 .. CmdBufferSize /\ done \in 0 .. 3
        /\ resp = <<>>
    BY <2>1, SendingState DEF SystemInv, Sending
  <2>3. result'.kind = "panic"
    BY <2>1, Outcomes
  <2>4. IInv'
    BY <2>1, <2>2, <2>3, SendingStep DEF SystemInv, Sending
  <2>5. QED BY <2>1, <2>4, NothingMarshaled
<1>4. QED BY <1>1, <1>2, <1>3 DEF SystemNext, CallRuns

LEMMA ServerKeeps ==
  ASSUME SystemInv, SystemNext
  PROVE  S!IInv'
<1>1. S!IInv /\ [S!Next]_S!vars
  BY ServerStep DEF SystemInv
<1>2. QED BY <1>1, ServerAssumptions, S!StepKeeps

\* A step of the client's own is in no call of the server's.
LEMMA StepIsOutside ==
  ASSUME Step
  PROVE  pc \notin {"idle", "sent", "returned"}
<1>1. CASE MarshalHeader \/ MarshalField \/ SkipAuthArea \/ OpenAuthArea
             \/ NextSession \/ CloseAuthArea \/ MarshalSize
  BY <1>1
  DEF MarshalHeader, MarshalField, SkipAuthArea, OpenAuthArea, NextSession,
      CloseAuthArea, MarshalSize
<1>2. CASE ReadHeader \/ CheckSize \/ ReadHandles \/ ReadParamSize \/ ReadResp
             \/ ReadSession \/ Finish
  BY <1>2
  DEF ReadHeader, CheckSize, ReadHandles, ReadParamSize, ReadResp, ReadSession,
      Finish
<1>3. QED BY <1>1, <1>2 DEF Step

\* A step of the server's is in a call, and stays there with its request
\* unless the server panics.
LEMMA ServeIsInside ==
  ASSUME Server!Serve
  PROVE  /\ spc \notin {"down", "idle", "panicked"}
         /\ spc' \notin {"down", "idle"}
         /\ spc' = "panicked" \/ req' = req
<1>1. CASE Server!ReadTooShort \/ Server!ReadTag \/ Server!ReadSize
             \/ Server!ReadCode \/ Server!ReadCount
  BY <1>1
  DEF Server!ReadTooShort, Server!ReadTag, Server!ReadSize, Server!ReadCode,
      Server!ReadCount, Server!Fail
<1>2. CASE Server!Reserve \/ Server!Reseed \/ Server!SkipReseed \/ Server!Fill
             \/ Server!DrbgFails
  BY <1>2
  DEF Server!Reserve, Server!Reseed, Server!SkipReseed, Server!Fill,
      Server!DrbgFails, Server!Fail
<1>3. CASE Server!PutTag \/ Server!PutSize \/ Server!PutCode \/ Server!FillError
  BY <1>3
  DEF Server!PutTag, Server!PutSize, Server!PutCode, Server!FillError,
      Server!Fail
<1>4. QED BY <1>1, <1>2, <1>3 DEF Server!Serve

LEMMA CoupledKeeps ==
  ASSUME SystemInv, SystemNext
  PROVE  Coupled'
<1>1. CASE Begin
  BY <1>1 DEF Begin, Call, serverVars, Coupled
<1>2. CASE ClientRuns
  <2>1. spc = "idle"
    BY <1>2, StepIsOutside DEF ClientRuns, SystemInv, Coupled
  <2>2. QED BY <1>2, <2>1 DEF ClientRuns, serverVars, Coupled
<1>3. CASE ClientIsDone
  <2>1. pc = "returned" /\ pc' = "idle" /\ UNCHANGED spc
    BY <1>3 DEF ClientIsDone, Collect, serverVars
  <2>2. spc \in {"down", "idle", "panicked"}
    BY <2>1 DEF SystemInv, Coupled
  <2>3. QED BY <2>1, <2>2 DEF Coupled
<1>4. CASE Enter
  BY <1>4 DEF Enter, Server!Submit, Coupled, AsCall, vars
<1>5. CASE ServerRuns
  <2>1. UNCHANGED <<pc, cmd>> /\ Server!Serve
    BY <1>5 DEF ServerRuns, vars
  <2>2. pc = "sent" /\ req = AsCall(cmd)
    BY <2>1, ServeIsInside DEF SystemInv, Coupled
  <2>3. AsCall(cmd)' = AsCall(cmd)
    BY <2>1 DEF AsCall
  <2>4. QED BY <2>1, <2>2, <2>3, ServeIsInside DEF Coupled
<1>6. CASE Leave
  BY <1>6 DEF Leave, Server!Collect, Coupled
<1>7. CASE Unwind
  BY <1>7 DEF Unwind, Return, serverVars, Coupled
<1>8. CASE ServerStarts
  BY <1>8 DEF ServerStarts, Server!New, Server!Restart, vars, Coupled
<1>9. QED
  BY <1>1, <1>2, <1>3, <1>4, <1>5, <1>6, <1>7, <1>8 DEF SystemNext, CallRuns

\* The verdict depends on the command alone.
LEMMA VerdictKept ==
  ASSUME cmd' = cmd
  PROVE  Verdict' = Verdict
BY DEF Verdict, AsCall, Server!View, Server!RequestLen, Server!Service!Verdict


\* A step that does not answer the call, or ends it before it is answered.
LEMMA NotAnswered ==
  ASSUME pc' \notin Receiving, resp' = <<>>
  PROVE  Arrived'
BY DEF Arrived, Answered, Receiving, Unmarshaling

LEMMA ArrivedStays ==
  ASSUME Arrived, UNCHANGED <<cmd, resp>>, pc \in Receiving \/ UNCHANGED pc
  PROVE  Arrived'
<1>1. Verdict' = Verdict
  BY VerdictKept
<1>2. RespCode(resp)' = RespCode(resp) /\ RespSize(resp)' = RespSize(resp)
  BY DEF RespCode, RespSize
<1>3. ASSUME pc' \in Receiving \/ Answered'
      PROVE  pc \in Receiving \/ Answered
  BY <1>3 DEF Answered, Receiving, Unmarshaling
<1>4. QED BY <1>1, <1>2, <1>3 DEF Arrived, Server!Success

LEMMA ArrivedKeeps ==
  ASSUME SystemInv, SystemNext
  PROVE  Arrived'
<1>1. CASE Begin
  <2>1. pc = "idle" /\ pc' = "header" /\ resp' = resp
    BY <1>1 DEF Begin, Call, received
  <2>2. resp = <<>>
    BY <2>1 DEF SystemInv, IInv, Progress
  <2>3. QED BY <2>1, <2>2, NotAnswered DEF Receiving, Unmarshaling
<1>2. CASE ClientRuns
  <2>1. CASE MarshalHeader \/ MarshalField \/ SkipAuthArea \/ OpenAuthArea
               \/ NextSession \/ CloseAuthArea \/ MarshalSize
    <3>1. /\ pc \in Sending /\ UNCHANGED received
          /\ pc' \in Sending \cup {"returned"}
      <4>1. CASE MarshalHeader \/ MarshalField \/ SkipAuthArea
        BY <4>1 DEF MarshalHeader, MarshalField, SkipAuthArea, Return, Sending
      <4>2. CASE OpenAuthArea \/ NextSession
        BY <4>2 DEF OpenAuthArea, NextSession, Return, Sending
      <4>3. CASE CloseAuthArea \/ MarshalSize
        BY <4>3 DEF CloseAuthArea, MarshalSize, Sending
      <4>4. QED BY <2>1, <4>1, <4>2, <4>3
    <3>2. resp' = <<>>
      BY <3>1, SendingState DEF received, SystemInv
    <3>3. QED BY <3>1, <3>2, NotAnswered DEF Receiving, Unmarshaling, Sending
  <2>2. CASE ReadHeader \/ CheckSize \/ ReadHandles \/ ReadParamSize
               \/ ReadResp \/ ReadSession \/ Finish
    <3>1. pc \in Receiving /\ UNCHANGED <<cmd, resp>>
      BY <2>2, ReceivingKeeps DEF SystemInv
    <3>2. QED BY <3>1, ArrivedStays DEF SystemInv
  <2>3. QED BY <1>2, <2>1, <2>2 DEF ClientRuns, Step
<1>3. CASE ClientIsDone
  <2>1. pc' = "idle" /\ resp' = <<>>
    BY <1>3 DEF ClientIsDone, Collect
  <2>2. QED BY <2>1, NotAnswered DEF Receiving, Unmarshaling
<1>4. CASE Enter \/ ServerRuns \/ ServerStarts
  <2>1. UNCHANGED <<pc, cmd, resp>>
    BY <1>4 DEF Enter, ServerRuns, ServerStarts, vars
  <2>2. QED BY <2>1, ArrivedStays DEF SystemInv
<1>5. CASE Leave
  <2>1. PICK r \in Seq(Octet) :
          /\ Len(r) = RespBufferSize /\ Transact(r)
          /\ RespCode(r) = BE4(Verdict)
          /\ Verdict = 0 => RespSize(r) >= HeaderSize
    BY <1>5, LeaveIsTransact DEF SystemInv
  <2>2. /\ cmd' = cmd
        /\ resp' = r \o Zeros(RespBufferSize - Len(r))
    BY <2>1 DEF Transact, sent
  <2>3. RespBufferSize - Len(r) = 0
    BY <2>1, SizeTypes
  <2>4. Zeros(0) = <<>>
    BY DEF Zeros
  <2>5. r \o <<>> = r
    BY ConcatEmptySeq
  <2>6. resp' = r
    BY <2>2, <2>3, <2>4, <2>5
  <2>7. Verdict' = Verdict
    BY <2>2, VerdictKept
  <2>8. RespCode(resp)' = RespCode(r) /\ RespSize(resp)' = RespSize(r)
    BY <2>6 DEF RespCode, RespSize
  <2>9. QED BY <2>1, <2>7, <2>8, SameConstants DEF Arrived
<1>6. CASE Unwind
  <2>1. pc = "sent" /\ pc' = "returned" /\ resp' = resp
    BY <1>6 DEF Unwind, Return, received
  <2>2. resp = <<>>
    BY <2>1, SendingState DEF SystemInv, Sending
  <2>3. QED BY <2>1, <2>2, NotAnswered DEF Receiving, Unmarshaling
<1>7. QED
  BY <1>1, <1>2, <1>3, <1>4, <1>5, <1>6 DEF SystemNext, CallRuns

LEMMA SystemInvStep == SystemInv /\ [SystemNext]_systemVars => SystemInv'
<1>1. CASE SystemNext
  BY <1>1, ClientKeeps, ServerKeeps, CoupledKeeps, ArrivedKeeps DEF SystemInv
<1>2. CASE UNCHANGED systemVars
  <2>1. UNCHANGED vars /\ UNCHANGED S!vars /\ UNCHANGED <<pc, spc, req, cmd, resp>>
    BY <1>2 DEF systemVars, serverVars, vars, S!vars
  <2>2. ASSUME SystemInv PROVE IInv' /\ Marshaled'
    BY <2>1, <2>2, IInvStep, MarshaledStep DEF SystemInv
  <2>3. ASSUME SystemInv PROVE S!IInv'
    BY <2>1, <2>3, ServerAssumptions, S!StepKeeps DEF SystemInv
  <2>4. ASSUME SystemInv PROVE Coupled'
    BY <2>1, <2>4 DEF SystemInv, Coupled, AsCall
  <2>5. ASSUME SystemInv PROVE Arrived'
    BY <2>1, <2>5, ArrivedStays DEF SystemInv
  <2>6. QED BY <2>2, <2>3, <2>4, <2>5 DEF SystemInv
<1>3. QED BY <1>1, <1>2

LEMMA InitSystemInv == SystemInit => SystemInv
<1> SUFFICES ASSUME SystemInit PROVE SystemInv
  OBVIOUS
<1>1. IInv /\ Marshaled
  BY InitIInv, InitMarshaled DEF SystemInit
<1>2. S!IInv
  <2>1. S!Init
    BY SameCaller DEF SystemInit
  <2>2. QED BY <2>1, ServerAssumptions, S!InitEstablishes
<1>3. Coupled
  BY DEF SystemInit, Init, Server!Init, Coupled
<1>4. Arrived
  BY DEF SystemInit, Init, Arrived, Answered, Receiving, Unmarshaling
<1>5. QED BY <1>1, <1>2, <1>3, <1>4 DEF SystemInv

\* The client's code and the server's, each proved on its own, keep their
\* invariants when transact calls the one from the other.
THEOREM TogetherAsAlone == SystemSpec => []SystemInv
<1>1. QED BY InitSystemInv, SystemInvStep, PTL DEF SystemSpec

-----------------------------------------------------------------------------
(* What the caller gets.                                                   *)

\* Every error of the server is the error of the call, for any command and any
\* bytes the DRBG produces: read_response_header finds what fill_error wrote.
THEOREM ErrorsArrive == SystemSpec => []ServerErrorsArrive
<1>1. SystemInv => ServerErrorsArrive
  <2> SUFFICES ASSUME SystemInv, Answered, Verdict # Server!Success
               PROVE  result = Error(BE4(Verdict))
    BY DEF ServerErrorsArrive
  <2>1. RespCode(resp) = BE4(Verdict)
    BY DEF SystemInv, Arrived
  <2>2. Verdict \in {322, 323, 2308}
    BY SameConstants
    DEF Verdict, Server!Service!Verdict, Server!Service!Success, Server!Success,
        Server!Service!RcCommandSize, Server!Service!RcCommandCode,
        Server!Service!RcMemory
  <2>3. BE4(Verdict) # BE4(0)
    <3>1. BE4(322)[4] = 66 /\ BE4(323)[4] = 67 /\ BE4(2308)[4] = 4 /\ BE4(0)[4] = 0
      BY SMT DEF BE4
    <3>2. QED BY <2>2, <3>1
  <2>4. QED BY <2>1, <2>3 DEF SystemInv, IInv, ErrorCodeWins, Answered
<1>2. QED BY <1>1, TogetherAsAlone, PTL

\* When every GetRandom carries its bytes_requested, a u16, no command is the
\* wrong size for the server: execute_command compares the size that
\* run_command_with_handles patched in with the length of the same slice, and
\* no read of the handler's runs past it.
THEOREM NoCommandOfWrongSize ==
  ASSUME \A j \in Jobs :
           j.code = Server!CcGetRandom => Len(FieldBytes(j.params)) >= 2
  PROVE  SystemSpec => []SizesAgree
<1>1. SystemInv => SizesAgree
  <2> SUFFICES ASSUME SystemInv, spc = "done"
               PROVE  err # Server!RcCommandSize
    BY DEF SizesAgree
  <2> DEFINE call == AsCall(cmd)
  <2>1. pc = "sent" /\ req = call
    BY DEF SystemInv, Coupled
  <2>2. /\ job \in Jobs /\ cmd = Command(job) /\ call.mode = "separate"
        /\ call.cap = RespBufferSize /\ call.len = Len(cmd)
        /\ call.size = Len(cmd) /\ call.cc = job.code /\ Len(cmd) >= 10
    BY <2>1, CommandIsCall DEF SystemInv
  <2>3. Len(cmd) \in Nat
    BY <2>2, CommandLength, PartsType, LenProperties
  <2>4. job.code = 379 => Len(cmd) >= 12
    <3>1. /\ Len(cmd) = 10 + Len(FieldBytes(job.handles)) + Len(AuthArea(job))
                          + Len(FieldBytes(job.params))
          /\ Len(FieldBytes(job.handles)) \in Nat /\ Len(AuthArea(job)) \in Nat
          /\ Len(FieldBytes(job.params)) \in Nat
      BY <2>2, CommandLength, PartsType, LenProperties
    <3>2. job.code = 379 => Len(FieldBytes(job.params)) >= 2
      BY <2>2, SameConstants
    <3>3. QED BY <3>1, <3>2
  <2>5. Server!RequestLen(call) = Len(cmd)
    BY <2>2 DEF Server!RequestLen
  <2>6. err = Verdict
    BY <2>1, DoneWithVerdict DEF SystemInv
  <2> HIDE DEF call
  <2>7. Verdict = Server!Service!Verdict(Server!View(call))
    BY DEF Verdict, call
  <2>8. /\ Server!View(call).len = Len(cmd) /\ Server!View(call).size = Len(cmd)
        /\ Server!View(call).cc = job.code
    BY <2>2, <2>5 DEF Server!View
  <2>9. Server!Service!Verdict(Server!View(call)) # 322
    BY <2>2, <2>3, <2>4, <2>8
    DEF Server!Service!Verdict, Server!Service!HeaderSize,
        Server!Service!CcGetRandom, Server!Service!RcCommandSize,
        Server!Service!RcCommandCode, Server!Service!RcMemory,
        Server!Service!Success
  <2>10. QED BY <2>6, <2>7, <2>9, SameConstants
<1>2. QED BY <1>1, TogetherAsAlone, PTL

\* Why a call may end in a panic.
PanicsExplained ==
  pc = "returned" /\ result.kind = "panic" =>
    spc = "panicked" \/ Len(Command(job)) > CmdBufferSize

\* A marshaling step panics only where the command does not fit.
LEMMA MarshalingPanics ==
  ASSUME IInv, Marshaled,
         MarshalHeader \/ MarshalField \/ SkipAuthArea \/ OpenAuthArea
           \/ NextSession \/ CloseAuthArea \/ MarshalSize
  PROVE  PanicsExplained'
<1>1. CASE MarshalField \/ OpenAuthArea
  <2> SUFFICES ASSUME pc' = "returned", result'.kind = "panic"
               PROVE  (Len(Command(job)) > CmdBufferSize)'
    BY DEF PanicsExplained
  <2>1. RefusedIffTooLarge'
    BY <1>1, FieldRefused, AuthAreaRefused
  <2>2. resp' = <<>>
    <3>1. pc \in Sending /\ resp' = resp
      BY <1>1 DEF MarshalField, OpenAuthArea, received, Sending
    <3>2. QED BY <3>1, SendingState
  <2>3. result' # Error(BE4(TcsGeneralFailure))
    BY Outcomes
  <2>4. QED BY <2>1, <2>2, <2>3 DEF RefusedIffTooLarge
<1>2. CASE MarshalHeader \/ SkipAuthArea \/ NextSession
  BY <1>2 DEF MarshalHeader, SkipAuthArea, NextSession, PanicsExplained
<1>3. CASE CloseAuthArea \/ MarshalSize
  BY <1>3 DEF CloseAuthArea, MarshalSize, PanicsExplained
<1>4. QED BY <1>1, <1>2, <1>3

\* No response of the server's makes its reader panic.
LEMMA ReadingPanics ==
  ASSUME SystemInv,
         ReadHeader \/ CheckSize \/ ReadHandles \/ ReadParamSize \/ ReadResp
           \/ ReadSession \/ Finish
  PROVE  PanicsExplained'
<1>1. \A c : Error(c).kind # "panic"
  BY Outcomes
<1>2. OutOfRoom.kind # "panic" /\ \A h, v : Ok(h, v).kind # "panic"
  BY Outcomes
<1>3. CASE ReadHeader
  BY <1>1, <1>3 DEF ReadHeader, Return, PanicsExplained
<1>4. CASE CheckSize
  <2>1. pc = "size"
    BY <1>4 DEF CheckSize
  <2>2. RespCode(resp) = BE4(0) /\ RespCode(resp) = BE4(Verdict)
    BY <2>1 DEF SystemInv, IInv, ReadSoFar, Arrived, Receiving
  <2>3. Verdict = 0
    <3>1. Verdict \in {0, 322, 323, 2308}
      BY DEF Verdict, Server!Service!Verdict, Server!Service!Success,
             Server!Service!RcCommandSize, Server!Service!RcCommandCode,
             Server!Service!RcMemory
    <3>2. BE4(322)[4] = 66 /\ BE4(323)[4] = 67 /\ BE4(2308)[4] = 4 /\ BE4(0)[4] = 0
      BY SMT DEF BE4
    <3>3. QED BY <2>2, <3>1, <3>2
  <2>4. RespSize(resp) >= HeaderSize
    BY <2>1, <2>3, SameConstants DEF SystemInv, Arrived, Receiving
  <2>5. RespSize(resp) \in Nat
    <3>1. resp \in Seq(Octet) /\ Len(resp) = RespBufferSize
      BY <2>1, ReceivingState DEF SystemInv, Receiving
    <3>2. QED BY <3>1, SizeIsNat, SizeTypes
  <2>6. ~(RespSize(resp) < HeaderSize)
    BY <2>4, <2>5, SizeTypes
  <2>7. QED BY <1>1, <1>4, <2>6 DEF CheckSize, Return, PanicsExplained
<1>5. CASE ReadHandles
  BY <1>2, <1>5 DEF ReadHandles, Unmarshal, Return, PanicsExplained
<1>6. CASE ReadParamSize
  BY <1>2, <1>6 DEF ReadParamSize, Unmarshal, Return, PanicsExplained
<1>7. CASE ReadResp
  BY <1>2, <1>7 DEF ReadResp, Unmarshal, Return, PanicsExplained
<1>8. CASE ReadSession
  BY <1>1, <1>2, <1>8 DEF ReadSession, Return, PanicsExplained
<1>9. CASE Finish
  BY <1>1, <1>2, <1>9 DEF Finish, Return, PanicsExplained
<1>10. QED BY <1>3, <1>4, <1>5, <1>6, <1>7, <1>8, <1>9

LEMMA PanicsStep ==
  SystemInv /\ PanicsExplained /\ [SystemNext]_systemVars => PanicsExplained'
<1> SUFFICES ASSUME SystemInv, PanicsExplained, [SystemNext]_systemVars
             PROVE  PanicsExplained'
  OBVIOUS
<1>1. CASE Begin \/ Enter \/ ServerRuns \/ ServerStarts
  <2>1. pc' # "returned"
    <3>1. CASE Begin
      BY <3>1 DEF Begin, Call
    <3>2. CASE Enter \/ ServerStarts
      BY <3>2 DEF Enter, ServerStarts, vars
    <3>3. CASE ServerRuns
      BY <3>3, ServeIsInside DEF ServerRuns, vars, SystemInv, Coupled
    <3>4. QED BY <1>1, <3>1, <3>2, <3>3
  <2>2. QED BY <2>1 DEF PanicsExplained
<1>2. CASE ClientRuns
  BY <1>2, MarshalingPanics, ReadingPanics DEF ClientRuns, Step, SystemInv
<1>3. CASE ClientIsDone
  BY <1>3 DEF ClientIsDone, Collect, PanicsExplained
<1>4. CASE Leave
  <2>1. pc' = "answered"
    BY <1>4, LeaveIsTransact DEF SystemInv, Transact
  <2>2. QED BY <2>1 DEF PanicsExplained
<1>5. CASE Unwind
  BY <1>5 DEF Unwind, serverVars, PanicsExplained
<1>6. CASE UNCHANGED systemVars
  BY <1>6 DEF systemVars, serverVars, vars, PanicsExplained
<1>7. QED BY <1>1, <1>2, <1>3, <1>4, <1>5, <1>6 DEF SystemNext, CallRuns

\* A call panics because the server did or because its command does not fit:
\* no response of the server's makes the client slice backwards.
THEOREM PanicsAreExplained == SystemSpec => []PanicsExplained
<1>1. SystemInit => PanicsExplained
  BY DEF SystemInit, Init, PanicsExplained
<1>2. QED BY <1>1, PanicsStep, TogetherAsAlone, PTL DEF SystemSpec

\* When the commands fit the buffer, the only panic that reaches the caller is
\* the server's own.
THEOREM OnlyTheServerPanics ==
  ASSUME \A j \in Jobs : Len(Command(j)) <= CmdBufferSize
  PROVE  SystemSpec => []PanicsOnlyWithServer
<1>1. SystemInv /\ PanicsExplained => PanicsOnlyWithServer
  <2> SUFFICES ASSUME SystemInv, PanicsExplained, pc = "returned",
                      result.kind = "panic"
               PROVE  spc = "panicked"
    BY DEF PanicsOnlyWithServer
  <2>1. job \in Jobs
    BY DEF SystemInv, IInv, Progress
  <2>2. Len(Command(job)) \in Nat /\ Len(Command(job)) <= CmdBufferSize
    BY <2>1, CommandLength, PartsType, LenProperties
  <2>3. QED BY <2>2, SizeTypes DEF PanicsExplained
<1>2. QED BY <1>1, TogetherAsAlone, PanicsAreExplained, PTL

\* Behind the client as alone, the server answers as TpmService specifies.
THEOREM StillTheService == SystemSpec => S!Service!SafeSpec
<1>1. SystemInit => S!Service!Init
  <2>1. ASSUME SystemInit PROVE S!Init
    BY <2>1, SameCaller DEF SystemInit
  <2>2. QED BY <2>1, ServerAssumptions, S!InitImplements
<1>2. SystemInv /\ SystemInv' /\ [SystemNext]_systemVars =>
        [S!Service!Next]_S!Service!vars
  <2> SUFFICES ASSUME SystemInv, SystemInv', [SystemNext]_systemVars
               PROVE  [S!Service!Next]_S!Service!vars
    OBVIOUS
  <2>1. [S!Next]_S!vars
    <3>1. CASE SystemNext
      BY <3>1, ServerStep DEF SystemInv
    <3>2. CASE UNCHANGED systemVars
      BY <3>2 DEF systemVars, serverVars, S!vars
    <3>3. QED BY <3>1, <3>2
  <2>2. S!IInv /\ S!IInv'
    BY DEF SystemInv
  <2>3. QED BY <2>1, <2>2, ServerAssumptions, S!StepImplements
<1>3. QED
  BY <1>1, <1>2, TogetherAsAlone, PTL DEF SystemSpec, S!Service!SafeSpec


\* With the server for its Tpm, run_command_with_handles is still TpmCall: the
\* steps of the server are not seen, and its panic is a Tpm that fails.
THEOREM StillTheCall == SystemSpec => ImplementsCall
<1>1. SystemInit => Promise!Init
  BY InitImplements DEF SystemInit
<1>2. SystemInv /\ SystemInv' /\ [SystemNext]_systemVars =>
        [Promise!Next]_Promise!vars
  <2> SUFFICES ASSUME SystemInv, SystemInv', [SystemNext]_systemVars
               PROVE  [Promise!Next]_Promise!vars
    OBVIOUS
  <2>1. IInv /\ Marshaled /\ IInv' /\ Marshaled'
    BY DEF SystemInv
  <2>2. CASE Begin \/ ClientRuns \/ ClientIsDone \/ Enter \/ ServerRuns
               \/ ServerStarts
    BY <2>1, <2>2, ClientStep, StepImplements
  <2>3. CASE Leave
    <3>1. PICK r \in Seq(Octet) : Len(r) = RespBufferSize /\ Transact(r)
      BY <2>3, LeaveIsTransact DEF SystemInv
    <3>2. Len(r) <= RespBufferSize
      BY <3>1, SizeTypes
    <3>3. QED BY <3>1, <3>2, TransactImplements DEF Promise!Next
  <2>4. CASE Unwind
    <3>1. pc = "sent" /\ pc' = "returned" /\ UNCHANGED <<job, resp>> /\ result' = Panic
      BY <2>4 DEF Unwind, Return, sent, received
    <3>2. QED BY <3>1, FailImplements DEF Promise!Next
  <2>5. CASE UNCHANGED systemVars
    BY <2>5, StutterImplements DEF systemVars, vars
  <2>6. QED BY <2>2, <2>3, <2>4, <2>5 DEF SystemNext, CallRuns
<1>3. QED
  BY <1>1, <1>2, TogetherAsAlone, PTL DEF SystemSpec, ImplementsCall, Promise!Spec
=============================================================================
