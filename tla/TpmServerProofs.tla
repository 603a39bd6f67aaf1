--------------------------- MODULE TpmServerProofs ---------------------------
(***************************************************************************)
(* Proofs about TpmServer, for every arena, every set of calls and every   *)
(* DRBG.  The invariants TLC checks say what holds at a return or during   *)
(* a step; what makes them inductive is IInv below: how far the server has *)
(* come in a call determines its cursors, what it knows of the request and *)
(* every byte of the caller's memory.                                      *)
(***************************************************************************)
EXTENDS TpmServer, TLAPS

Writing == {"putTag", "putSize", "putCode"}
Serving == Reading \cup Writing \cup {"reserve", "random", "fill", "fail"}

Succeeded == pc = "done" /\ err = Success

\* Between calls nothing of a call is left.
AtRest ==
  pc \in {"down", "idle", "panicked"} =>
    /\ req = NoCall
    /\ mem = [i \in 0 .. Arena - 1 |-> OldByte]
    /\ reqOff = 0 /\ rspOff = HeaderSize /\ count = 0
    /\ err = Success /\ ret = 0

\* During a call: the cursors, and what has been learnt of the request.
Progress ==
  /\ pc \in Serving \cup {"done"} => req \in Call
  /\ pc \in Serving \ {"fail"} => err = Success
  /\ pc \in Serving => ret = 0
  /\ pc = "tag" => reqOff = 0
  /\ pc = "size" => reqOff = 2 /\ RequestLen(req) >= 2
  /\ pc = "code" => reqOff = 6 /\ RequestLen(req) >= 6
  /\ pc = "count" => reqOff = 10 /\ RequestLen(req) >= 10
  /\ pc \in {"code", "count"} => req.size = RequestLen(req)
  /\ pc = "count" => req.cc = CcGetRandom
  /\ pc \in {"reserve", "random", "fill"} \cup Writing =>
       /\ RequestLen(req) >= 12 /\ req.size = RequestLen(req)
       /\ req.cc = CcGetRandom /\ req.n = count
  /\ pc \in {"random", "fill"} \cup Writing => HeaderSize + count <= req.cap
  /\ pc \in Reading \cup {"reserve", "random", "fill"} => rspOff = HeaderSize
  /\ pc \in Writing => rspOff = HeaderSize + count
  /\ pc = "fill" => drbg > 0
  /\ pc \in {"fail", "done"} => err = Service!Verdict(View(req))
  /\ pc = "fail" => err # Success
  /\ Succeeded => ret = HeaderSize + count /\ count = req.n
  /\ pc = "done" /\ err # Success =>
       ret = IF HeaderSize <= req.cap THEN HeaderSize ELSE 0

\* The positions of the response that hold its final bytes.
Written ==
  IF pc = "putTag" THEN HeaderSize .. HeaderSize + count - 1
  ELSE IF pc = "putSize" THEN (0 .. 1) \cup (HeaderSize .. HeaderSize + count - 1)
  ELSE IF pc = "putCode" THEN (0 .. 5) \cup (HeaderSize .. HeaderSize + count - 1)
  ELSE IF Succeeded THEN 0 .. HeaderSize + count - 1
  ELSE {}

\* Every byte of the arena.
Memory ==
  /\ pc \in Serving \/ Succeeded =>
       mem = [i \in 0 .. Arena - 1 |->
                IF i \in Written THEN ResponseByte(count, i)
                                 ELSE CallerMemory(req)[i]]
  /\ pc = "done" /\ err # Success =>
       mem = [i \in 0 .. Arena - 1 |->
                IF ret > 0 /\ i \in 6 .. 9 THEN EncodedByte("server", err, i - 6)
                                           ELSE CallerMemory(req)[i]]

IInv == TypeOK /\ AtRest /\ Progress /\ Memory
-----------------------------------------------------------------------------
(* Reading the request.                                                    *)

\* The lengths of a call are natural numbers and fit the buffers.
LEMMA CallType ==
  ASSUME NEW c \in Call
  PROVE  /\ c.mode \in {"separate", "inplace"}
         /\ c.cap \in 0 .. Arena /\ c.len \in Nat /\ c.size \in Nat
         /\ c.cc \in Nat /\ c.n \in Nat /\ c.n \in Counts
         /\ RequestLen(c) \in Nat /\ RequestLen(c) <= c.len
         /\ c.mode = "inplace" => RequestLen(c) <= c.cap
<1>1. /\ c.mode \in {"separate", "inplace"} /\ c.cap \in Capacities
      /\ c.len \in Lengths /\ c.size \in SizeFields /\ c.cc \in CommandCodes
      /\ c.n \in Counts
  BY DEF Call
<1>2. /\ c.cap \in 0 .. Arena /\ c.len \in Nat /\ c.size \in Nat
      /\ c.cc \in Nat /\ c.n \in Nat
  BY <1>1, ArenaAssumption, RequestAssumption
<1>3. QED
  BY <1>1, <1>2, ArenaAssumption DEF RequestLen

\* While the request is being read, in either arrangement, the buffer that is
\* read is the request.
LEMMA BufferIsRequest ==
  ASSUME IInv, pc \in Reading, NEW i \in 0 .. RequestLen(req) - 1
  PROVE  RequestBuffer[i] = RequestByte(req, i)
<1>1. /\ req \in Call /\ Arena \in Nat
      /\ mem = [j \in 0 .. Arena - 1 |-> CallerMemory(req)[j]]
  BY ArenaAssumption
  DEF IInv, Progress, Memory, Written, Reading, Serving, Succeeded
<1>2. CASE req.mode = "inplace"
  <2>1. i \in 0 .. Arena - 1 /\ i < RequestLen(req)
    BY <1>1, <1>2, CallType
  <2>2. CallerMemory(req)[i] = RequestByte(req, i)
    BY <1>2, <2>1 DEF CallerMemory
  <2>3. QED
    BY <1>1, <1>2, <2>1, <2>2 DEF RequestBuffer
<1>3. CASE req.mode # "inplace"
  <2>1. i \in 0 .. req.len - 1
    BY <1>1, CallType
  <2>2. QED
    BY <1>3, <2>1 DEF RequestBuffer
<1>4. QED
  BY <1>2, <1>3

\* So each field decodes to the caller's value and to nothing else.
LEMMA DecodeSize ==
  ASSUME IInv, pc = "size", CanRead(4)
  PROVE  Decoded(4) = {req.size}
<1>1. /\ req \in Call /\ reqOff = 2 /\ RequestLen(req) >= 6
  BY CallType DEF IInv, Progress, CanRead, Serving, Reading
<1>2. \A i \in 2 .. 5 : RequestBuffer[i] = EncodedByte("client", req.size, i - 2)
  BY <1>1, BufferIsRequest, CallType DEF Reading, RequestByte
<1>3. QED
  BY <1>1, <1>2 DEF Decoded, IsField, EncodedByte

LEMMA DecodeCode ==
  ASSUME IInv, pc = "code", CanRead(4)
  PROVE  Decoded(4) = {req.cc}
<1>1. /\ req \in Call /\ reqOff = 6 /\ RequestLen(req) >= 10
  BY CallType DEF IInv, Progress, CanRead, Serving, Reading
<1>2. \A i \in 6 .. 9 : RequestBuffer[i] = EncodedByte("client", req.cc, i - 6)
  BY <1>1, BufferIsRequest, CallType DEF Reading, RequestByte, HeaderSize
<1>3. QED
  BY <1>1, <1>2 DEF Decoded, IsField, EncodedByte

LEMMA DecodeCount ==
  ASSUME IInv, pc = "count", CanRead(2)
  PROVE  Decoded(2) = {req.n}
<1>1. /\ req \in Call /\ reqOff = 10 /\ RequestLen(req) >= 12
  BY CallType DEF IInv, Progress, CanRead, Serving, Reading
<1>2. \A i \in 10 .. 11 : RequestBuffer[i] = EncodedByte("client", req.n, i - 10)
  BY <1>1, BufferIsRequest, CallType DEF Reading, RequestByte, HeaderSize
<1>3. QED
  BY <1>1, <1>2 DEF Decoded, IsField, EncodedByte
-----------------------------------------------------------------------------
(* IInv is inductive, one action at a time.                                *)

\* An encoded value is made of bytes, and writing one changes bytes only.
LEMMA OverwriteType ==
  ASSUME mem \in [0 .. Arena - 1 -> Byte], NEW off \in Nat, NEW size \in Nat,
         NEW src \in Sources, NEW val \in Nat
  PROVE  Overwrite(mem, off, size, src, val) \in [0 .. Arena - 1 -> Byte]
<1>1. \A i \in 0 .. Arena - 1 :
        i \in off .. off + size - 1 => EncodedByte(src, val, i - off) \in Byte
  BY ArenaAssumption DEF EncodedByte, Byte
<1>2. QED
  BY <1>1 DEF Overwrite

LEMMA RequestByteType ==
  ASSUME NEW c \in Call, NEW i \in Nat
  PROVE  RequestByte(c, i) \in Byte
BY CallType DEF RequestByte, EncodedByte, Byte, Sources, HeaderSize

LEMMA CallerMemoryType ==
  ASSUME NEW c \in Call
  PROVE  CallerMemory(c) \in [0 .. Arena - 1 -> Byte]
<1>1. OldByte \in Byte
  BY DEF OldByte, EncodedByte, Byte, Sources
<1>2. QED
  BY <1>1, RequestByteType, ArenaAssumption DEF CallerMemory

LEMMA InitEstablishes ==
  ASSUME Init
  PROVE  IInv
<1>1. OldByte \in Byte
  BY DEF OldByte, EncodedByte, Byte, Sources
<1>2. TypeOK
  BY <1>1, ArenaAssumption, DrbgAssumption
  DEF Init, TypeOK, Steps, HeaderSize, Success
<1>3. AtRest
  BY DEF Init, AtRest
<1>4. Progress /\ Memory
  BY DEF Init, Progress, Memory, Serving, Reading, Writing, Succeeded
<1>5. QED
  BY <1>2, <1>3, <1>4 DEF IInv

LEMMA NewKeeps ==
  ASSUME IInv, New
  PROVE  IInv'
<1>1. TypeOK'
  BY DrbgAssumption DEF IInv, TypeOK, New, Steps
<1>2. AtRest'
  BY DEF IInv, AtRest, New
<1>3. Progress' /\ Memory'
  BY DEF New, Progress, Memory, Serving, Reading, Writing, Succeeded
<1>4. QED
  BY <1>1, <1>2, <1>3 DEF IInv

LEMMA RestartKeeps ==
  ASSUME IInv, Restart
  PROVE  IInv'
<1>1. TypeOK'
  BY DrbgAssumption DEF IInv, TypeOK, Restart, Steps
<1>2. AtRest'
  BY DEF IInv, AtRest, Restart
<1>3. Progress' /\ Memory'
  BY DEF Restart, Progress, Memory, Serving, Reading, Writing, Succeeded
<1>4. QED
  BY <1>1, <1>2, <1>3 DEF IInv

LEMMA SubmitKeeps ==
  ASSUME IInv, NEW c \in Call, Submit(c)
  PROVE  IInv'
<1>1. TypeOK'
  BY CallerMemoryType DEF IInv, TypeOK, Submit, Steps
<1>2. AtRest' /\ Progress'
  BY DEF IInv, AtRest, Progress, Submit, Serving, Reading, Writing, Succeeded
<1>3. Memory'
  BY DEF Submit, Memory, Written, CallerMemory, Serving, Reading, Writing,
         Succeeded
<1>4. QED
  BY <1>1, <1>2, <1>3 DEF IInv

\* Both ends of a call, the return and the panic, leave nothing of it behind.
LEMMA ReleaseKeeps ==
  ASSUME IInv, Release, UNCHANGED drbg, pc' \in {"idle", "panicked"}
  PROVE  IInv'
<1>1. OldByte \in Byte
  BY DEF OldByte, EncodedByte, Byte, Sources
<1>2. TypeOK'
  BY <1>1, ArenaAssumption
  DEF IInv, TypeOK, Release, Steps, HeaderSize, Success
<1>3. AtRest'
  BY DEF Release, AtRest
<1>4. Progress' /\ Memory'
  BY DEF Progress, Memory, Serving, Reading, Writing, Succeeded
<1>5. QED
  BY <1>2, <1>3, <1>4 DEF IInv
-----------------------------------------------------------------------------
(* The request.                                                            *)

LEMMA ReadTagKeeps ==
  ASSUME IInv, ReadTag
  PROVE  IInv'
<1>1. req \in Call /\ pc = "tag"
  BY DEF IInv, Progress, ReadTag, Serving, Reading
<1>2. TypeOK'
  BY <1>1, CallType
  DEF IInv, TypeOK, Progress, ReadTag, CanRead, Fail, Steps, Reading, Serving
<1>3. AtRest' /\ Progress'
  BY <1>1, CallType
  DEF IInv, TypeOK, AtRest, Progress, ReadTag, CanRead, Fail, Serving, Reading,
      Writing, Succeeded, View, HeaderSize, RequestLen, Service!Verdict,
      Service!HeaderSize, Service!CcGetRandom, Service!RcCommandSize,
      Service!RcCommandCode, Service!RcMemory, Service!Success,
      CcGetRandom, RcCommandSize, RcCommandCode, RcMemory, Success
<1>4. Memory'
  BY <1>1
  DEF IInv, Memory, ReadTag, Fail, Written, CallerMemory, Serving, Reading,
      Writing, Succeeded, Success, RcCommandSize, RcCommandCode, RcMemory
<1>5. QED
  BY <1>2, <1>3, <1>4 DEF IInv

LEMMA ReadSizeKeeps ==
  ASSUME IInv, ReadSize
  PROVE  IInv'
<1>1. req \in Call /\ pc = "size"
  BY DEF IInv, Progress, ReadSize, Serving, Reading
<1>2. TypeOK'
  BY <1>1, DecodeSize, CallType
  DEF IInv, TypeOK, Progress, ReadSize, CanRead, Fail, Steps, Reading, Serving
<1>3. AtRest' /\ Progress'
  BY <1>1, DecodeSize, CallType
  DEF IInv, TypeOK, AtRest, Progress, ReadSize, CanRead, Fail, Serving, Reading,
      Writing, Succeeded, View, HeaderSize, RequestLen, Service!Verdict,
      Service!HeaderSize, Service!CcGetRandom, Service!RcCommandSize,
      Service!RcCommandCode, Service!RcMemory, Service!Success,
      CcGetRandom, RcCommandSize, RcCommandCode, RcMemory, Success
<1>4. Memory'
  BY <1>1
  DEF IInv, Memory, ReadSize, Fail, Written, CallerMemory, Serving, Reading,
      Writing, Succeeded, Success, RcCommandSize, RcCommandCode, RcMemory
<1>5. QED
  BY <1>2, <1>3, <1>4 DEF IInv

LEMMA ReadCodeKeeps ==
  ASSUME IInv, ReadCode
  PROVE  IInv'
<1>1. req \in Call /\ pc = "code"
  BY DEF IInv, Progress, ReadCode, Serving, Reading
<1>2. TypeOK'
  BY <1>1, DecodeCode, CallType
  DEF IInv, TypeOK, Progress, ReadCode, CanRead, Fail, Steps, Reading, Serving
<1>3. AtRest' /\ Progress'
  BY <1>1, DecodeCode, CallType
  DEF IInv, TypeOK, AtRest, Progress, ReadCode, CanRead, Fail, Serving, Reading,
      Writing, Succeeded, View, HeaderSize, RequestLen, Service!Verdict,
      Service!HeaderSize, Service!CcGetRandom, Service!RcCommandSize,
      Service!RcCommandCode, Service!RcMemory, Service!Success,
      CcGetRandom, RcCommandSize, RcCommandCode, RcMemory, Success
<1>4. Memory'
  BY <1>1
  DEF IInv, Memory, ReadCode, Fail, Written, CallerMemory, Serving, Reading,
      Writing, Succeeded, Success, RcCommandSize, RcCommandCode, RcMemory
<1>5. QED
  BY <1>2, <1>3, <1>4 DEF IInv

LEMMA ReadCountKeeps ==
  ASSUME IInv, ReadCount
  PROVE  IInv'
<1>1. req \in Call /\ pc = "count"
  BY DEF IInv, Progress, ReadCount, Serving, Reading
<1>2. TypeOK'
  BY <1>1, DecodeCount, CallType
  DEF IInv, TypeOK, Progress, ReadCount, CanRead, Fail, Steps, Reading, Serving
<1>3. AtRest' /\ Progress'
  BY <1>1, DecodeCount, CallType
  DEF IInv, TypeOK, AtRest, Progress, ReadCount, CanRead, Fail, Serving, Reading,
      Writing, Succeeded, View, HeaderSize, RequestLen, Service!Verdict,
      Service!HeaderSize, Service!CcGetRandom, Service!RcCommandSize,
      Service!RcCommandCode, Service!RcMemory, Service!Success,
      CcGetRandom, RcCommandSize, RcCommandCode, RcMemory, Success
<1>4. Memory'
  BY <1>1
  DEF IInv, Memory, ReadCount, Fail, Written, CallerMemory, Serving, Reading,
      Writing, Succeeded, Success, RcCommandSize, RcCommandCode, RcMemory
<1>5. QED
  BY <1>2, <1>3, <1>4 DEF IInv

LEMMA ReadTooShortKeeps ==
  ASSUME IInv, ReadTooShort
  PROVE  IInv'
<1>1. req \in Call /\ pc \in Reading
  BY DEF IInv, Progress, ReadTooShort, Serving, Reading
<1>2. TypeOK'
  BY <1>1, CallType
  DEF IInv, TypeOK, Progress, ReadTooShort, CanRead, Fail, Steps, Reading, Serving
<1>3. AtRest' /\ Progress'
  BY <1>1, CallType
  DEF IInv, TypeOK, AtRest, Progress, ReadTooShort, CanRead, Fail, Serving, Reading,
      Writing, Succeeded, View, HeaderSize, RequestLen, Service!Verdict,
      Service!HeaderSize, Service!CcGetRandom, Service!RcCommandSize,
      Service!RcCommandCode, Service!RcMemory, Service!Success,
      CcGetRandom, RcCommandSize, RcCommandCode, RcMemory, Success
<1>4. Memory'
  BY <1>1
  DEF IInv, Memory, ReadTooShort, Fail, Written, CallerMemory, Serving, Reading,
      Writing, Succeeded, Success, RcCommandSize, RcCommandCode, RcMemory
<1>5. QED
  BY <1>2, <1>3, <1>4 DEF IInv
-----------------------------------------------------------------------------
(* The handler.                                                            *)

LEMMA ReserveKeeps ==
  ASSUME IInv, Reserve
  PROVE  IInv'
<1>1. req \in Call /\ pc = "reserve"
  BY DEF IInv, Progress, Reserve, Serving, Reading
<1>2. TypeOK'
  BY <1>1, DrbgAssumption, CallType
  DEF IInv, TypeOK, Reserve, Fail, Steps
<1>3. AtRest' /\ Progress'
  BY <1>1, DrbgAssumption, CallType
  DEF IInv, TypeOK, AtRest, Progress, Reserve, CanWrite, RequiresReseeding, Fail,
      Serving, Reading, Writing, Succeeded, View, HeaderSize, RequestLen,
      Service!Verdict,
      Service!HeaderSize, Service!CcGetRandom, Service!RcCommandSize,
      Service!RcCommandCode, Service!RcMemory, Service!Success,
      CcGetRandom, RcCommandSize, RcCommandCode, RcMemory, Success
<1>4. Memory'
  BY <1>1
  DEF IInv, Memory, Reserve, Fail, Written, CallerMemory, Serving, Reading,
      Writing, Succeeded, Success, RcMemory
<1>5. QED
  BY <1>2, <1>3, <1>4 DEF IInv

LEMMA ReseedKeeps ==
  ASSUME IInv, Reseed
  PROVE  IInv'
<1>1. req \in Call /\ pc = "random"
  BY DEF IInv, Progress, Reseed, Serving, Reading
<1>2. TypeOK'
  BY <1>1, DrbgAssumption, CallType
  DEF IInv, TypeOK, Reseed, Fail, Steps
<1>3. AtRest' /\ Progress'
  BY <1>1, DrbgAssumption, CallType
  DEF IInv, TypeOK, AtRest, Progress, Reseed, CanWrite, RequiresReseeding, Fail,
      Serving, Reading, Writing, Succeeded, View, HeaderSize, RequestLen,
      Service!Verdict,
      Service!HeaderSize, Service!CcGetRandom, Service!RcCommandSize,
      Service!RcCommandCode, Service!RcMemory, Service!Success,
      CcGetRandom, RcCommandSize, RcCommandCode, RcMemory, Success
<1>4. Memory'
  BY <1>1
  DEF IInv, Memory, Reseed, Fail, Written, CallerMemory, Serving, Reading,
      Writing, Succeeded, Success, RcMemory
<1>5. QED
  BY <1>2, <1>3, <1>4 DEF IInv

LEMMA SkipReseedKeeps ==
  ASSUME IInv, SkipReseed
  PROVE  IInv'
<1>1. req \in Call /\ pc = "random"
  BY DEF IInv, Progress, SkipReseed, Serving, Reading
<1>2. TypeOK'
  BY <1>1, DrbgAssumption, CallType
  DEF IInv, TypeOK, SkipReseed, Fail, Steps
<1>3. AtRest' /\ Progress'
  BY <1>1, DrbgAssumption, CallType
  DEF IInv, TypeOK, AtRest, Progress, SkipReseed, CanWrite, RequiresReseeding, Fail,
      Serving, Reading, Writing, Succeeded, View, HeaderSize, RequestLen,
      Service!Verdict,
      Service!HeaderSize, Service!CcGetRandom, Service!RcCommandSize,
      Service!RcCommandCode, Service!RcMemory, Service!Success,
      CcGetRandom, RcCommandSize, RcCommandCode, RcMemory, Success
<1>4. Memory'
  BY <1>1
  DEF IInv, Memory, SkipReseed, Fail, Written, CallerMemory, Serving, Reading,
      Writing, Succeeded, Success, RcMemory
<1>5. QED
  BY <1>2, <1>3, <1>4 DEF IInv

LEMMA DrbgFailsKeeps ==
  ASSUME IInv, DrbgFails
  PROVE  IInv'
BY ReleaseKeeps DEF DrbgFails

LEMMA CollectKeeps ==
  ASSUME IInv, Collect
  PROVE  IInv'
BY ReleaseKeeps DEF Collect

\* The body lands behind the header, inside the response.
LEMMA FillKeeps ==
  ASSUME IInv, Fill
  PROVE  IInv'
<1>1. /\ req \in Call /\ pc = "fill" /\ pc' = "putTag" /\ rspOff = HeaderSize
      /\ count \in Nat /\ HeaderSize + count <= req.cap /\ drbg > 0
      /\ count = req.n
  BY CallType DEF IInv, Progress, Fill, Serving, Reading
<1>2. /\ mem' \in [0 .. Arena - 1 -> Byte]
      /\ mem' = [i \in 0 .. Arena - 1 |->
                  IF i \in HeaderSize .. HeaderSize + count - 1
                  THEN EncodedByte("drbg", 0, i - HeaderSize) ELSE mem[i]]
  <2>1. mem' = Overwrite(mem, HeaderSize, count, "drbg", 0)
    BY <1>1 DEF Fill
  <2>2. /\ mem \in [0 .. Arena - 1 -> Byte] /\ HeaderSize \in Nat
        /\ "drbg" \in Sources /\ 0 \in Nat
    BY DEF IInv, TypeOK, Sources, HeaderSize
  <2>3. mem' \in [0 .. Arena - 1 -> Byte]
    BY <1>1, <2>1, <2>2, OverwriteType
  <2>4. QED
    BY <2>1, <2>2, <2>3 DEF Overwrite
<1>3. TypeOK'
  BY <1>1, <1>2, DrbgAssumption, ArenaAssumption, CallType
  DEF IInv, TypeOK, Fill, Steps, HeaderSize
<1>4. AtRest' /\ Progress'
  BY <1>1
  DEF IInv, AtRest, Progress, Fill, Serving, Reading, Writing, Succeeded,
      View, RequestLen
<1>5. Memory'
  <2>1. \A i \in 0 .. Arena - 1 : mem[i] = CallerMemory(req)[i]
    BY <1>1 DEF IInv, Memory, Written, Serving, Succeeded
  <2>2. Written' = HeaderSize .. HeaderSize + count - 1
    BY <1>1 DEF Written, Fill
  <2>3. \A i \in HeaderSize .. HeaderSize + count - 1 :
          ResponseByte(count, i) = EncodedByte("drbg", 0, i - HeaderSize)
    BY <1>1 DEF ResponseByte, HeaderSize
  <2>4. count' = count /\ req' = req
    BY DEF Fill
  <2>5. mem' = [i \in 0 .. Arena - 1 |->
                  IF i \in Written' THEN ResponseByte(count, i)
                                     ELSE CallerMemory(req)[i]]
    BY <1>2, <2>1, <2>2, <2>3
  <2>6. QED
    BY <1>1, <2>4, <2>5 DEF Memory, CallerMemory, RequestLen, Succeeded
<1>6. QED
  BY <1>3, <1>4, <1>5 DEF IInv
-----------------------------------------------------------------------------
(* The response header: it always fits, for the body does.                 *)

LEMMA PutTagKeeps ==
  ASSUME IInv, PutTag
  PROVE  IInv'
<1>1. /\ req \in Call /\ pc = "putTag" /\ rspOff = HeaderSize + count
      /\ count \in Nat /\ HeaderSize + count <= req.cap /\ req.cap \in Nat
      /\ count = req.n
  BY CallType DEF IInv, Progress, PutTag, Serving, Reading, Writing
<1>2. /\ mem' = Overwrite(mem, 0, 2, "server", TagNoSessions)
      /\ pc' = "putSize" /\ err' = err
      /\ UNCHANGED <<req, reqOff, rspOff, count, drbg>>
  BY <1>1 DEF PutTag, CanWrite, Write, HeaderSize
<1>3. /\ mem' \in [0 .. Arena - 1 -> Byte]
      /\ mem' = [i \in 0 .. Arena - 1 |->
                  IF i \in 0 .. 0 + 2 - 1
                  THEN EncodedByte("server", TagNoSessions, i - 0) ELSE mem[i]]
  <2>1. /\ mem \in [0 .. Arena - 1 -> Byte] /\ "server" \in Sources
        /\ TagNoSessions \in Nat
    BY <1>1 DEF IInv, TypeOK, Sources, HeaderSize, TagNoSessions, Success
  <2>2. mem' \in [0 .. Arena - 1 -> Byte]
    BY <1>2, <2>1, OverwriteType
  <2>3. QED
    BY <1>2, <2>1, <2>2 DEF Overwrite
<1>4. TypeOK'
  BY <1>1, <1>2, <1>3, ArenaAssumption, CallType
  DEF IInv, TypeOK, PutTag, Steps, HeaderSize
<1>5. AtRest' /\ Progress'
  BY <1>1, <1>2
  DEF IInv, AtRest, Progress, PutTag, Serving, Reading, Writing, Succeeded, View,
      RequestLen, HeaderSize,
      Service!Verdict,
      Service!HeaderSize, Service!CcGetRandom, Service!RcCommandSize,
      Service!RcCommandCode, Service!RcMemory, Service!Success,
      CcGetRandom, RcCommandSize, RcCommandCode, RcMemory, Success
<1>6. Memory'
  <2>1. \A i \in 0 .. Arena - 1 :
          mem[i] = IF i \in Written THEN ResponseByte(count, i)
                                    ELSE CallerMemory(req)[i]
    BY <1>1 DEF IInv, Memory, Serving, Writing
  <2>2. Written' = Written \cup (0 .. 0 + 2 - 1)
    BY <1>1, <1>2 DEF Written, Succeeded, IInv, Progress, Serving, Writing, HeaderSize
  <2>3. \A i \in 0 .. 0 + 2 - 1 :
          ResponseByte(count, i) = EncodedByte("server", TagNoSessions, i - 0)
    BY <1>1 DEF ResponseByte, HeaderSize
  <2>4. mem' = [i \in 0 .. Arena - 1 |->
                  IF i \in Written' THEN ResponseByte(count, i)
                                     ELSE CallerMemory(req)[i]]
    BY <1>3, <2>1, <2>2, <2>3
  <2>5. err = Success
    BY <1>1 DEF IInv, Progress, Serving, Writing
  <2>6. QED
    BY <1>1, <1>2, <2>4, <2>5 DEF Memory, CallerMemory, RequestLen, Succeeded
<1>7. QED
  BY <1>4, <1>5, <1>6 DEF IInv

LEMMA PutSizeKeeps ==
  ASSUME IInv, PutSize
  PROVE  IInv'
<1>1. /\ req \in Call /\ pc = "putSize" /\ rspOff = HeaderSize + count
      /\ count \in Nat /\ HeaderSize + count <= req.cap /\ req.cap \in Nat
      /\ count = req.n
  BY CallType DEF IInv, Progress, PutSize, Serving, Reading, Writing
<1>2. /\ mem' = Overwrite(mem, 2, 4, "server", HeaderSize + count)
      /\ pc' = "putCode" /\ err' = err
      /\ UNCHANGED <<req, reqOff, rspOff, count, drbg>>
  BY <1>1 DEF PutSize, CanWrite, Write, HeaderSize
<1>3. /\ mem' \in [0 .. Arena - 1 -> Byte]
      /\ mem' = [i \in 0 .. Arena - 1 |->
                  IF i \in 2 .. 2 + 4 - 1
                  THEN EncodedByte("server", HeaderSize + count, i - 2) ELSE mem[i]]
  <2>1. /\ mem \in [0 .. Arena - 1 -> Byte] /\ "server" \in Sources
        /\ HeaderSize + count \in Nat
    BY <1>1 DEF IInv, TypeOK, Sources, HeaderSize, TagNoSessions, Success
  <2>2. mem' \in [0 .. Arena - 1 -> Byte]
    BY <1>2, <2>1, OverwriteType
  <2>3. QED
    BY <1>2, <2>1, <2>2 DEF Overwrite
<1>4. TypeOK'
  BY <1>1, <1>2, <1>3, ArenaAssumption, CallType
  DEF IInv, TypeOK, PutSize, Steps, HeaderSize
<1>5. AtRest' /\ Progress'
  BY <1>1, <1>2
  DEF IInv, AtRest, Progress, PutSize, Serving, Reading, Writing, Succeeded, View,
      RequestLen, HeaderSize,
      Service!Verdict,
      Service!HeaderSize, Service!CcGetRandom, Service!RcCommandSize,
      Service!RcCommandCode, Service!RcMemory, Service!Success,
      CcGetRandom, RcCommandSize, RcCommandCode, RcMemory, Success
<1>6. Memory'
  <2>1. \A i \in 0 .. Arena - 1 :
          mem[i] = IF i \in Written THEN ResponseByte(count, i)
                                    ELSE CallerMemory(req)[i]
    BY <1>1 DEF IInv, Memory, Serving, Writing
  <2>2. Written' = Written \cup (2 .. 2 + 4 - 1)
    BY <1>1, <1>2 DEF Written, Succeeded, IInv, Progress, Serving, Writing, HeaderSize
  <2>3. \A i \in 2 .. 2 + 4 - 1 :
          ResponseByte(count, i) = EncodedByte("server", HeaderSize + count, i - 2)
    BY <1>1 DEF ResponseByte, HeaderSize
  <2>4. mem' = [i \in 0 .. Arena - 1 |->
                  IF i \in Written' THEN ResponseByte(count, i)
                                     ELSE CallerMemory(req)[i]]
    BY <1>3, <2>1, <2>2, <2>3
  <2>5. err = Success
    BY <1>1 DEF IInv, Progress, Serving, Writing
  <2>6. QED
    BY <1>1, <1>2, <2>4, <2>5 DEF Memory, CallerMemory, RequestLen, Succeeded
<1>7. QED
  BY <1>4, <1>5, <1>6 DEF IInv

LEMMA PutCodeKeeps ==
  ASSUME IInv, PutCode
  PROVE  IInv'
<1>1. /\ req \in Call /\ pc = "putCode" /\ rspOff = HeaderSize + count
      /\ count \in Nat /\ HeaderSize + count <= req.cap /\ req.cap \in Nat
      /\ count = req.n
  BY CallType DEF IInv, Progress, PutCode, Serving, Reading, Writing
<1>2. /\ mem' = Overwrite(mem, 6, 4, "server", Success)
      /\ pc' = "done" /\ err' = err /\ ret' = rspOff
      /\ UNCHANGED <<req, reqOff, rspOff, count, drbg>>
  BY <1>1 DEF PutCode, CanWrite, Write, HeaderSize
<1>3. /\ mem' \in [0 .. Arena - 1 -> Byte]
      /\ mem' = [i \in 0 .. Arena - 1 |->
                  IF i \in 6 .. 6 + 4 - 1
                  THEN EncodedByte("server", Success, i - 6) ELSE mem[i]]
  <2>1. /\ mem \in [0 .. Arena - 1 -> Byte] /\ "server" \in Sources
        /\ Success \in Nat
    BY <1>1 DEF IInv, TypeOK, Sources, HeaderSize, TagNoSessions, Success
  <2>2. mem' \in [0 .. Arena - 1 -> Byte]
    BY <1>2, <2>1, OverwriteType
  <2>3. QED
    BY <1>2, <2>1, <2>2 DEF Overwrite
<1>4. TypeOK'
  BY <1>1, <1>2, <1>3, ArenaAssumption, CallType
  DEF IInv, TypeOK, PutCode, Steps, HeaderSize
<1>5. AtRest' /\ Progress'
  <2>1. /\ RequestLen(req) >= 12 /\ req.size = RequestLen(req)
        /\ req.cc = CcGetRandom /\ err = Success
    BY <1>1 DEF IInv, Progress, Serving, Writing
  <2>2. /\ View(req).len = RequestLen(req) /\ View(req).size = req.size
        /\ View(req).cc = req.cc /\ View(req).n = count
        /\ View(req).cap = req.cap
    BY <1>1 DEF View
  <2>3. Service!Verdict(View(req)) = Success
    BY <1>1, <2>1, <2>2, CallType
    DEF Service!Verdict, Service!HeaderSize, Service!CcGetRandom,
        Service!Success, HeaderSize, CcGetRandom, Success
  <2>4. View(req)' = View(req)
    BY <1>2 DEF View, RequestLen
  <2>5. QED
    BY <1>1, <1>2, <2>1, <2>3, <2>4
    DEF AtRest, Progress, Serving, Reading, Writing, Succeeded, Service!Verdict
<1>6. Memory'
  <2>1. \A i \in 0 .. Arena - 1 :
          mem[i] = IF i \in Written THEN ResponseByte(count, i)
                                    ELSE CallerMemory(req)[i]
    BY <1>1 DEF IInv, Memory, Serving, Writing
  <2>2. Written' = Written \cup (6 .. 6 + 4 - 1)
    BY <1>1, <1>2 DEF Written, Succeeded, IInv, Progress, Serving, Writing, HeaderSize
  <2>3. \A i \in 6 .. 6 + 4 - 1 :
          ResponseByte(count, i) = EncodedByte("server", Success, i - 6)
    BY <1>1 DEF ResponseByte, HeaderSize
  <2>4. mem' = [i \in 0 .. Arena - 1 |->
                  IF i \in Written' THEN ResponseByte(count, i)
                                     ELSE CallerMemory(req)[i]]
    BY <1>3, <2>1, <2>2, <2>3
  <2>5. err = Success
    BY <1>1 DEF IInv, Progress, Serving, Writing
  <2>6. QED
    BY <1>1, <1>2, <2>4, <2>5 DEF Memory, CallerMemory, RequestLen, Succeeded
<1>7. QED
  BY <1>4, <1>5, <1>6 DEF IInv

LEMMA FillErrorKeeps ==
  ASSUME IInv, FillError
  PROVE  IInv'
<1>1. /\ req \in Call /\ pc = "fail" /\ pc' = "done" /\ req.cap \in Nat
      /\ err # Success /\ ret = 0
      /\ UNCHANGED <<req, reqOff, rspOff, count, err, drbg>>
  BY CallType DEF IInv, Progress, FillError, Serving
<1>2. /\ mem \in [0 .. Arena - 1 -> Byte]
      /\ \A i \in 0 .. Arena - 1 : mem[i] = CallerMemory(req)[i]
  BY <1>1 DEF IInv, TypeOK, Memory, Written, Serving, Succeeded
<1>3. CASE CanWrite(6, 4)
  <2>1. mem' = Overwrite(mem, 6, 4, "server", err) /\ ret' = HeaderSize
    BY <1>3 DEF FillError, Write
  <2>2. err \in Nat /\ "server" \in Sources
    BY DEF IInv, TypeOK, Sources, Success, RcCommandSize, RcCommandCode, RcMemory
  <2>3. /\ mem' \in [0 .. Arena - 1 -> Byte]
        /\ mem' = [i \in 0 .. Arena - 1 |->
                    IF i \in 6 .. 6 + 4 - 1
                    THEN EncodedByte("server", err, i - 6) ELSE mem[i]]
    <3>1. mem' \in [0 .. Arena - 1 -> Byte]
      BY <1>2, <2>1, <2>2, OverwriteType
    <3>2. QED
      BY <1>2, <2>1, <3>1 DEF Overwrite
  <2>4. TypeOK'
    BY <1>1, <2>1, <2>3, ArenaAssumption DEF IInv, TypeOK, Steps, HeaderSize
  <2>5. AtRest' /\ Progress'
    BY <1>1, <1>3, <2>1
    DEF IInv, AtRest, Progress, CanWrite, Serving, Reading, Writing, Succeeded,
        View, RequestLen, HeaderSize
  <2>6. Memory'
    BY <1>1, <1>2, <2>1, <2>3
    DEF Memory, CallerMemory, RequestLen, Serving, Reading, Writing, Succeeded,
        HeaderSize
  <2>7. QED
    BY <2>4, <2>5, <2>6 DEF IInv
<1>4. CASE ~CanWrite(6, 4)
  <2>1. mem' = mem /\ ret' = 0
    BY <1>4 DEF FillError
  <2>2. TypeOK'
    BY <1>1, <2>1, ArenaAssumption DEF IInv, TypeOK, Steps, HeaderSize
  <2>3. AtRest' /\ Progress'
    BY <1>1, <1>4, <2>1
    DEF IInv, AtRest, Progress, CanWrite, Serving, Reading, Writing, Succeeded,
        View, RequestLen, HeaderSize
  <2>4. Memory'
    BY <1>1, <1>2, <2>1
    DEF Memory, CallerMemory, RequestLen, Serving, Reading, Writing, Succeeded
  <2>5. QED
    BY <2>2, <2>3, <2>4 DEF IInv
<1>5. QED
  BY <1>3, <1>4
-----------------------------------------------------------------------------
(* The theorems.                                                           *)

LEMMA StepKeeps ==
  ASSUME IInv, [Next]_vars
  PROVE  IInv'
<1>1. CASE UNCHANGED vars
  BY <1>1
  DEF vars, IInv, TypeOK, AtRest, Progress, Memory, Written, Succeeded, View,
      RequestLen, CallerMemory, Service!Verdict
<1>2. CASE \E c \in Call : Submit(c)
  BY <1>2, SubmitKeeps
<1>3. CASE Serve
  BY <1>3, ReadTooShortKeeps, ReadTagKeeps, ReadSizeKeeps, ReadCodeKeeps,
     ReadCountKeeps, ReserveKeeps, ReseedKeeps, SkipReseedKeeps, FillKeeps,
     DrbgFailsKeeps, PutTagKeeps, PutSizeKeeps, PutCodeKeeps, FillErrorKeeps
  DEF Serve
<1>4. CASE New \/ Collect \/ Restart
  BY <1>4, NewKeeps, CollectKeeps, RestartKeeps
<1>5. QED
  BY <1>1, <1>2, <1>3, <1>4 DEF Next

\* How far the server has come in a call determines its cursors, what it knows
\* of the request and each byte of the caller's memory.
THEOREM Invariant == Spec => []IInv
<1>1. Init => IInv
  BY InitEstablishes
<1>2. IInv /\ [Next]_vars => IInv'
  BY StepKeeps
<1>3. QED
  BY <1>1, <1>2, PTL DEF Spec, SafeSpec

\* Memory stays an arena of bytes and the cursors stay inside it, for every set
\* of calls.
THEOREM TypeCorrect == Spec => []TypeOK
<1>1. IInv => TypeOK
  BY DEF IInv
<1>2. QED
  BY <1>1, Invariant, PTL

\* In place as in a buffer of its own, no field is read from a byte that the
\* response has overwritten.
THEOREM RequestReadIntact == Spec => []RequestIntactUntilRead
<1>1. IInv => RequestIntactUntilRead
  BY BufferIsRequest, CallType, ArenaAssumption
  DEF RequestIntactUntilRead, IInv, TypeOK, Progress, Serving, Reading
<1>2. QED
  BY <1>1, Invariant, PTL

\* Nothing of the caller's memory but the announced response changes.
THEOREM ResponseOnly == Spec => []OnlyResponseWritten
<1>1. IInv => OnlyResponseWritten
  <2>1. SUFFICES ASSUME IInv, pc = "done", NEW i \in 0 .. Arena - 1
                 PROVE  \/ err = Success /\ i < ret
                        \/ err # Success /\ ret > 0 /\ i \in 6 .. 9
                        \/ mem[i] = CallerMemory(req)[i]
    BY DEF OnlyResponseWritten
  <2>2. CASE err = Success
    <3>1. /\ Succeeded /\ count \in Nat /\ ret = HeaderSize + count
          /\ Written = 0 .. HeaderSize + count - 1
      BY <2>1, <2>2, RequestAssumption
      DEF IInv, TypeOK, Progress, Succeeded, Written
    <3>2. i \notin Written => mem[i] = CallerMemory(req)[i]
      BY <2>1, <3>1 DEF IInv, Memory
    <3>3. QED
      BY <2>1, <2>2, <3>1, <3>2, ArenaAssumption DEF HeaderSize
  <2>3. CASE err # Success
    BY <2>1, <2>3 DEF IInv, Memory
  <2>4. QED
    BY <2>2, <2>3
<1>2. QED
  BY <1>1, Invariant, PTL

\* A command whose body has been drawn from the DRBG succeeds.
THEOREM ErrorsCarryNoRandomBytes == Spec => []NoRandomBytesOnError
<1>1. IInv => NoRandomBytesOnError
  <2>1. SUFFICES ASSUME IInv, err # Success, NEW i \in 0 .. Arena - 1
                 PROVE  mem[i].src # "drbg"
    BY DEF NoRandomBytesOnError
  <2>2. pc \in {"fail", "done"} /\ req \in Call
    BY <2>1
    DEF IInv, TypeOK, AtRest, Progress, Steps, Serving, Reading, Writing
  <2>3. CallerMemory(req)[i].src # "drbg"
    BY <2>2 DEF CallerMemory, RequestByte, OldByte, EncodedByte
  <2>4. mem[i] = CallerMemory(req)[i] \/ mem[i] = EncodedByte("server", err, i - 6)
    BY <2>1, <2>2 DEF IInv, Memory, Serving, Written, Succeeded
  <2>5. QED
    BY <2>3, <2>4 DEF EncodedByte
<1>2. QED
  BY <1>1, Invariant, PTL

\* Over any sequence of commands and restarts, no fill meets a DRBG that wants
\* reseeding.
THEOREM FillsAreSeeded == Spec => []NeverFillsUnseeded
<1>1. IInv => NeverFillsUnseeded
  BY DEF IInv, TypeOK, Progress, NeverFillsUnseeded, RequiresReseeding
<1>2. QED
  BY <1>1, Invariant, PTL

-----------------------------------------------------------------------------
(* The server implements the service: each step is a step of TpmService,   *)
(* or leaves phase, request and reply as they are.                         *)

\* A command that reaches the DRBG deserves success.
LEMMA DrbgOnlyForSuccess ==
  ASSUME IInv, pc \in {"random", "fill"} \cup Writing
  PROVE  Service!Verdict(View(req)) = Service!Success
<1>1. /\ req \in Call /\ RequestLen(req) >= 12 /\ req.size = RequestLen(req)
      /\ req.cc = CcGetRandom /\ req.n = count /\ HeaderSize + count <= req.cap
  BY DEF IInv, Progress, Serving, Writing
<1>2. /\ View(req).len = RequestLen(req) /\ View(req).size = req.size
      /\ View(req).cc = req.cc /\ View(req).n = count
      /\ View(req).cap = req.cap
  BY <1>1 DEF View
<1>3. QED
  BY <1>1, <1>2, CallType
  DEF Service!Verdict, Service!HeaderSize, Service!CcGetRandom,
      Service!Success, HeaderSize, CcGetRandom

\* TpmService and TpmServer read TpmWire the same way.
LEMMA SameResponse ==
  ASSUME NEW n \in Nat, NEW i \in Nat
  PROVE  ResponseByte(n, i) = Service!ResponseByte(n, i)
<1>1. \A src, val, at : EncodedByte(src, val, at) = Service!EncodedByte(src, val, at)
  BY DEF EncodedByte, Service!EncodedByte
<1>2. /\ HeaderSize = Service!HeaderSize /\ Success = Service!Success
      /\ TagNoSessions = Service!TagNoSessions
  BY DEF HeaderSize, Service!HeaderSize, TagNoSessions, Service!TagNoSessions,
         Success, Service!Success
<1>3. QED
  BY <1>1, <1>2 DEF ResponseByte, Service!ResponseByte

\* The answer at every return, success and failure alike, is the service's.
LEMMA AnswersAgree ==
  IInv /\ pc = "done" => Answered = Service!Reply(View(req))
<1> SUFFICES ASSUME IInv, pc = "done"
             PROVE  Answered = Service!Reply(View(req))
  OBVIOUS
<1>1. /\ req \in Call /\ err = Service!Verdict(View(req))
      /\ View(req).n = req.n /\ View(req).cap = req.cap
      /\ req.cap \in 0 .. Arena /\ req.n \in Nat
      /\ Arena \in Nat
  BY CallType, ArenaAssumption DEF IInv, Progress, View
<1>2. CASE err = Success
  <2>1. /\ ret = HeaderSize + req.n /\ count = req.n /\ Succeeded
        /\ HeaderSize + req.n <= req.cap
    BY <1>1, <1>2
    DEF IInv, Progress, Succeeded, Service!Verdict, Service!HeaderSize,
        HeaderSize, Success, Service!RcCommandSize, Service!RcCommandCode,
        Service!RcMemory
  <2>2. \A i \in 0 .. HeaderSize + req.n - 1 :
          mem[i] = Service!ResponseByte(req.n, i)
    <3>1. \A i \in 0 .. HeaderSize + req.n - 1 : mem[i] = ResponseByte(req.n, i)
      BY <1>1, <2>1 DEF IInv, Memory, Written, HeaderSize, Succeeded
    <3>2. QED
      BY <1>1, <3>1, SameResponse DEF HeaderSize
  <2>3. [i \in PromisedBytes |-> mem[i]] =
          [i \in 0 .. HeaderSize + req.n - 1 |-> Service!ResponseByte(req.n, i)]
    <3>1. PromisedBytes = 0 .. HeaderSize + req.n - 1
      BY <1>1, <1>2, <2>1 DEF PromisedBytes, HeaderSize
    <3>2. QED
      BY <2>2, <3>1
  <2>4. QED
    BY <1>1, <1>2, <2>1, <2>3
    DEF Answered, Service!Reply, Success, Service!Success, HeaderSize,
        Service!HeaderSize
<1>3. CASE err # Success /\ HeaderSize <= req.cap
  <2>1. ret = HeaderSize
    BY <1>1, <1>3 DEF IInv, Progress
  <2>2. \A i \in 6 .. 9 : mem[i] = Service!EncodedByte("server", err, i - 6)
    BY <1>1, <1>3, <2>1
    DEF IInv, Memory, HeaderSize, EncodedByte, Service!EncodedByte
  <2>3. [i \in PromisedBytes |-> mem[i]] =
          [i \in 6 .. 9 |-> Service!EncodedByte("server", err, i - 6)]
    BY <1>3, <2>1, <2>2 DEF PromisedBytes, HeaderSize
  <2>4. QED
    BY <1>1, <1>3, <2>1, <2>3
    DEF Answered, Service!Reply, Service!ErrorReply, Success, Service!Success,
        HeaderSize, Service!HeaderSize
<1>4. CASE err # Success /\ ~(HeaderSize <= req.cap)
  <2>1. ret = 0
    BY <1>1, <1>4 DEF IInv, Progress
  <2>2. [i \in PromisedBytes |-> mem[i]] = [i \in {} |-> Service!OldByte]
    BY <1>4, <2>1 DEF PromisedBytes
  <2>3. QED
    BY <1>1, <1>4, <2>1, <2>2
    DEF Answered, Service!Reply, Service!ErrorReply, Success, Service!Success,
        HeaderSize, Service!HeaderSize
<1>5. QED
  BY <1>2, <1>3, <1>4

\* Phase is a matter of pc alone, and an answer is there at a return only.
LEMMA Busy ==
  ASSUME pc \in Serving
  PROVE  Phase = "busy" /\ Answered = Service!NoReply
BY DEF Phase, Answered, Service!NoReply, OldByte, Service!OldByte, EncodedByte,
       Service!EncodedByte, Serving, Reading, Writing

LEMMA InitImplements ==
  ASSUME Init
  PROVE  Service!Init
<1>1. View(req) = Service!NoRequest
  BY DEF Init, NoCall, View, RequestLen, Service!NoRequest
<1>2. Phase = "off" /\ Answered = Service!NoReply
  BY DEF Init, Phase, Answered, Service!NoReply, OldByte, Service!OldByte,
         EncodedByte, Service!EncodedByte
<1>3. QED
  BY <1>1, <1>2 DEF Service!Init

\* The steps of the server that neither answer nor lose the command.
Inner ==
  \/ ReadTooShort \/ ReadTag \/ ReadSize \/ ReadCode \/ ReadCount
  \/ Reserve \/ Reseed \/ SkipReseed \/ Fill \/ PutTag \/ PutSize

LEMMA InnerStutters ==
  ASSUME IInv, Inner
  PROVE  UNCHANGED Service!vars
<1>1. pc \in Serving /\ pc' \in Serving /\ req' = req
  BY DEF Inner, ReadTooShort, ReadTag, ReadSize, ReadCode, ReadCount, Reserve,
         Reseed, SkipReseed, Fill, PutTag, PutSize, Fail, Serving, Reading,
         Writing
<1>2. Phase' = Phase /\ Answered' = Answered
  BY <1>1
  DEF Phase, Answered, OldByte, EncodedByte, Serving, Reading, Writing
<1>3. View(req)' = View(req)
  BY <1>1 DEF View, RequestLen
<1>4. QED
  BY <1>2, <1>3 DEF Service!vars

LEMMA ReturnAnswers ==
  ASSUME IInv, IInv', PutCode \/ FillError
  PROVE  Service!Answer
<1>1. req' = req /\ pc' = "done" /\ Phase = "busy"
  <2>1. CASE PutCode
    <3>1. /\ req \in Call /\ HeaderSize + count <= req.cap /\ count \in Nat
          /\ req.n = count
      BY <2>1, CallType DEF IInv, Progress, PutCode, Serving, Writing
    <3>2. CanWrite(6, 4)
      BY <3>1, CallType DEF CanWrite, HeaderSize
    <3>3. QED
      BY <2>1, <3>2 DEF PutCode, Phase
  <2>2. CASE FillError
    BY <2>2 DEF FillError, Phase
  <2>3. QED
    BY <2>1, <2>2
<1>2. Answered' = Service!Reply(View(req))'
  <2>1. (IInv /\ pc = "done" => Answered = Service!Reply(View(req)))'
    BY AnswersAgree, PTL
  <2>2. QED
    BY <1>1, <2>1
<1>3. View(req)' = View(req) /\ Phase' = "answered"
  BY <1>1 DEF View, RequestLen, Phase
<1>4. QED
  BY <1>1, <1>2, <1>3 DEF Service!Answer

\* A panic loses a command that deserved success, and nothing else.
LEMMA PanicLoses ==
  ASSUME IInv, DrbgFails
  PROVE  Service!Lose
<1>1. /\ pc \in {"random", "fill"} /\ pc' = "panicked" /\ req' = NoCall
  BY DEF DrbgFails, Release
<1>2. Service!Verdict(View(req)) = Service!Success
  BY <1>1, DrbgOnlyForSuccess
<1>3. /\ Phase = "busy" /\ Phase' = "off" /\ Answered' = Answered
  BY <1>1 DEF Phase, Answered, OldByte, EncodedByte
<1>4. View(req)' = Service!NoRequest
  BY <1>1 DEF View, RequestLen, NoCall, Service!NoRequest
<1>5. QED
  BY <1>2, <1>3, <1>4 DEF Service!Lose

LEMMA CollectCollects ==
  ASSUME Collect
  PROVE  Service!Collect
<1>1. pc = "done" /\ pc' = "idle" /\ req' = NoCall
  BY DEF Collect, Release
<1>2. /\ Phase = "answered" /\ Phase' = "idle" /\ Answered' = Service!NoReply
  BY <1>1
  DEF Phase, Answered, Service!NoReply, OldByte, Service!OldByte, EncodedByte,
      Service!EncodedByte
<1>3. View(req)' = Service!NoRequest
  BY <1>1 DEF View, RequestLen, NoCall, Service!NoRequest
<1>4. QED
  BY <1>1, <1>2, <1>3 DEF Service!Collect

LEMMA SubmitSubmits ==
  ASSUME NEW c \in Call, Submit(c)
  PROVE  Service!Submit
<1>1. /\ pc = "idle" /\ pc' = "tag" /\ req' = c
  BY DEF Submit
<1>2. View(req)' \in Service!Request
  BY <1>1, CallType, ArenaAssumption DEF View, RequestLen, Service!Request
<1>3. Phase = "idle" /\ Phase' = "busy" /\ Answered' = Answered
  BY <1>1 DEF Phase, Answered, OldByte, EncodedByte
<1>4. QED
  BY <1>2, <1>3 DEF Service!Submit

LEMMA NewStarts ==
  ASSUME New
  PROVE  Service!Start
BY DEF New, Service!Start, Phase, Answered, View, RequestLen, OldByte, EncodedByte

LEMMA RestartStutters ==
  ASSUME Restart
  PROVE  UNCHANGED Service!vars
BY DEF Restart, Service!vars, Phase, Answered, View, RequestLen, OldByte,
       EncodedByte

LEMMA StepImplements ==
  ASSUME IInv, IInv', [Next]_vars
  PROVE  [Service!Next]_Service!vars
<1>1. CASE UNCHANGED vars
  BY <1>1
  DEF vars, Service!vars, Phase, Answered, PromisedBytes, View, RequestLen
<1>2. CASE \E c \in Call : Submit(c)
  BY <1>2, SubmitSubmits DEF Service!Next
<1>3. CASE Serve
  BY <1>3, InnerStutters, ReturnAnswers, PanicLoses DEF Serve, Inner, Service!Next
<1>4. CASE New \/ Collect \/ Restart
  BY <1>4, NewStarts, CollectCollects, RestartStutters DEF Service!Next
<1>5. QED
  BY <1>1, <1>2, <1>3, <1>4 DEF Next

\* Whichever arrangement of buffers a call uses, its answer is the one
\* TpmService gives to the request: code, size and bytes.
THEOREM Implements == Spec => Service!SafeSpec
<1>1. Init => Service!Init
  BY InitImplements
<1>2. IInv /\ IInv' /\ [Next]_vars => [Service!Next]_Service!vars
  BY StepImplements
<1>3. QED
  BY <1>1, <1>2, Invariant, PTL DEF Spec, SafeSpec, Service!SafeSpec
=============================================================================
