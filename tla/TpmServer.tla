------------------------------ MODULE TpmServer ------------------------------
(***************************************************************************)
(* TpmContext: one command at a time through execute_command, in either of *)
(* its two buffer arrangements, over a DRBG the platform supplies.         *)
(*                                                                         *)
(* The caller owns an arena of memory and lends its first req.cap bytes as *)
(* the response.  In "separate" mode the request sits in a buffer of its   *)
(* own; "inplace", it is the first req.len bytes of that same memory, so   *)
(* that every byte the server writes may be one it has still to read.      *)
(* Each fallible read, check, call and write is a step of its own, and pc  *)
(* names the next one.                                                     *)
(***************************************************************************)
EXTENDS TpmWire

CONSTANTS
  Arena,           \* bytes of memory the caller owns
  Capacities,      \* lengths of the response it lends
  Lengths,         \* sizes of the requests it passes
  SizeFields,      \* values of the size field in the request header
  CommandCodes,    \* values of the command code
  Counts,          \* values of the GetRandom parameter, a u16
  ReseedInterval,  \* fills the DRBG performs between two reseeds
  MaxFill,         \* longest fill the DRBG performs
  DrbgMayFail      \* whether the DRBG may report an internal error

ASSUME ArenaAssumption == Arena \in Nat /\ Capacities \subseteq 0 .. Arena
ASSUME RequestAssumption ==
  /\ Lengths \subseteq Nat /\ SizeFields \subseteq Nat
  /\ CommandCodes \subseteq Nat /\ Counts \subseteq Nat
ASSUME DrbgAssumption ==
  ReseedInterval \in Nat \ {0} /\ MaxFill \in Nat /\ DrbgMayFail \in BOOLEAN

VARIABLES
  pc,        \* the next step of the server
  req,       \* the call being served: its mode, lengths and request fields
  mem,       \* the caller's arena
  reqOff,    \* RequestResponseCursor.request_offset
  rspOff,    \* RequestResponseCursor.response_offset
  count,     \* requested_bytes, as the handler read it
  err,       \* the TpmRcError on its way out, or Success
  ret,       \* what execute_command_* returned
  drbg       \* fills left before the DRBG requires reseeding

vars == <<pc, req, mem, reqOff, rspOff, count, err, ret, drbg>>

Call == [mode : {"separate", "inplace"}, cap : Capacities, len : Lengths,
         size : SizeFields, cc : CommandCodes, n : Counts]
NoCall == [mode |-> "separate", cap |-> 0, len |-> 0, size |-> 0, cc |-> 0,
           n |-> 0]

-----------------------------------------------------------------------------
(* The two buffer arrangements and the cursor over them.                   *)

\* In place the request cannot be longer than the buffer it arrived in.
RequestLen(c) == IF c.mode = "inplace" /\ c.cap < c.len THEN c.cap ELSE c.len

\* Byte i of the request: tag, size, command code, GetRandom's parameter.
RequestByte(c, i) ==
  IF i < 2 THEN EncodedByte("client", 0, i)
  ELSE IF i < 6 THEN EncodedByte("client", c.size, i - 2)
  ELSE IF i < HeaderSize THEN EncodedByte("client", c.cc, i - 6)
  ELSE IF i < HeaderSize + 2 THEN EncodedByte("client", c.n, i - HeaderSize)
  ELSE EncodedByte("client", 0, i)

\* The arena when the call is made.
CallerMemory(c) ==
  [i \in 0 .. Arena - 1 |->
     IF c.mode = "inplace" /\ i < RequestLen(c) THEN RequestByte(c, i)
                                                ELSE OldByte]

\* get_request(): the buffer the cursor reads from.
RequestBuffer ==
  IF req.mode = "inplace" THEN mem
  ELSE [i \in 0 .. req.len - 1 |-> RequestByte(req, i)]

\* read_into and write fail when they would run past their buffer.
CanRead(size) == reqOff + size <= RequestLen(req)
CanWrite(off, size) == off + size <= req.cap

\* What from_be_bytes may make of the next bytes of the request.
Decoded(size) ==
  IF IsField(RequestBuffer, reqOff, size) THEN {RequestBuffer[reqOff].val}
  ELSE SizeFields \cup CommandCodes \cup Counts

Write(off, size, val) == mem' = Overwrite(mem, off, size, "server", val)

Fail(rc) == err' = rc /\ pc' = "fail"

\* The call is over: the memory is the caller's again.
Release ==
  /\ req' = NoCall
  /\ mem' = [i \in 0 .. Arena - 1 |-> OldByte]
  /\ reqOff' = 0 /\ rspOff' = HeaderSize /\ count' = 0
  /\ err' = Success /\ ret' = 0
-----------------------------------------------------------------------------
(* The caller and the platform.                                            *)

Init ==
  /\ pc = "down"
  /\ req = NoCall
  /\ mem = [i \in 0 .. Arena - 1 |-> OldByte]
  /\ reqOff = 0 /\ rspOff = HeaderSize /\ count = 0
  /\ err = Success /\ ret = 0
  /\ drbg = 0

\* TpmContext::new: entropy and a nonce instantiate the DRBG.  When that
\* fails there is no context, and the caller may only try again.
New ==
  /\ pc = "down"
  /\ pc' = "idle"
  /\ drbg' = ReseedInterval
  /\ UNCHANGED <<req, mem, reqOff, rspOff, count, err, ret>>

\* execute_command_separate or execute_command_in_place is called.
Submit(c) ==
  /\ pc = "idle"
  /\ pc' = "tag"
  /\ req' = c
  /\ mem' = CallerMemory(c)
  /\ UNCHANGED <<reqOff, rspOff, count, err, ret, drbg>>

\* The caller has the returned size and looks at its response.
Collect ==
  /\ pc = "done"
  /\ pc' = "idle"
  /\ Release
  /\ UNCHANGED drbg

-----------------------------------------------------------------------------
(* execute_command: the request.                                           *)

\* A read the request is too short for leaves the cursor where it was.
ReadTooShort ==
  /\ \/ pc = "tag" /\ ~CanRead(2)
     \/ pc = "size" /\ ~CanRead(4)
     \/ pc = "code" /\ ~CanRead(4)
     \/ pc = "count" /\ ~CanRead(2)
  /\ Fail(RcCommandSize)
  /\ UNCHANGED <<req, mem, reqOff, rspOff, count, ret, drbg>>

\* Faulty ReadTag: a default response header goes out on arrival, so that an
\* error would find one in place.
ReadTagAfterHeader ==
  /\ pc = "tag" /\ CanRead(2)
  /\ reqOff' = reqOff + 2
  /\ pc' = "size"
  /\ IF CanWrite(2, 4) THEN Write(2, 4, HeaderSize) ELSE UNCHANGED mem
  /\ UNCHANGED <<req, rspOff, count, err, ret, drbg>>

\* The tag is read and not looked at.
ReadTag ==
  /\ pc = "tag" /\ CanRead(2)
  /\ reqOff' = reqOff + 2
  /\ pc' = "size"
  /\ UNCHANGED <<req, mem, rspOff, count, err, ret, drbg>>

\* The header must announce the length of the request.
ReadSize ==
  /\ pc = "size" /\ CanRead(4)
  /\ reqOff' = reqOff + 4
  /\ \E size \in Decoded(4) :
       IF size = RequestLen(req) THEN pc' = "code" /\ UNCHANGED err
                                 ELSE Fail(RcCommandSize)
  /\ UNCHANGED <<req, mem, rspOff, count, ret, drbg>>

\* Faulty ReadCode: the command code is read as a u16.
ReadCodeAsU16 ==
  /\ pc = "code" /\ CanRead(2)
  /\ reqOff' = reqOff + 2
  /\ \E cc \in Decoded(2) :
       IF cc = CcGetRandom THEN pc' = "count" /\ UNCHANGED err
                           ELSE Fail(RcCommandCode)
  /\ UNCHANGED <<req, mem, rspOff, count, ret, drbg>>

\* Only GetRandom has a handler.
ReadCode ==
  /\ pc = "code" /\ CanRead(4)
  /\ reqOff' = reqOff + 4
  /\ \E cc \in Decoded(4) :
       IF cc = CcGetRandom THEN pc' = "count" /\ UNCHANGED err
                           ELSE Fail(RcCommandCode)
  /\ UNCHANGED <<req, mem, rspOff, count, ret, drbg>>

\* The handler's only parameter; bytes that follow it are not looked at.
ReadCount ==
  /\ pc = "count" /\ CanRead(2)
  /\ reqOff' = reqOff + 2
  /\ \E n \in Decoded(2) : count' = n
  /\ pc' = "reserve"
  /\ UNCHANGED <<req, mem, rspOff, err, ret, drbg>>
-----------------------------------------------------------------------------
(* get_random: the response body, filled by the DRBG inside write_callback. *)

\* Faulty Reserve: the size is checked without the offset.
ReserveFromZero ==
  /\ pc = "reserve"
  /\ \/ CanWrite(0, count) /\ pc' = "random" /\ UNCHANGED err
     \/ ~CanWrite(0, count) /\ Fail(RcMemory)
  /\ UNCHANGED <<req, mem, reqOff, rspOff, count, ret, drbg>>

\* write_callback refuses a range past the response before it calls back.
Reserve ==
  /\ pc = "reserve"
  /\ \/ CanWrite(rspOff, count) /\ pc' = "random" /\ UNCHANGED err
     \/ ~CanWrite(rspOff, count) /\ Fail(RcMemory)
  /\ UNCHANGED <<req, mem, reqOff, rspOff, count, ret, drbg>>

RequiresReseeding == drbg = 0

Reseed ==
  /\ pc = "random" /\ RequiresReseeding
  /\ drbg' = ReseedInterval
  /\ pc' = "fill"
  /\ UNCHANGED <<req, mem, reqOff, rspOff, count, err, ret>>

\* Faulty SkipReseed: requires_reseeding is not asked.
SkipReseedAlways ==
  /\ pc = "random"
  /\ pc' = "fill"
  /\ UNCHANGED <<req, mem, reqOff, rspOff, count, err, ret, drbg>>

SkipReseed ==
  /\ pc = "random" /\ ~RequiresReseeding
  /\ pc' = "fill"
  /\ UNCHANGED <<req, mem, reqOff, rspOff, count, err, ret, drbg>>

\* fill_bytes covers the whole range it is given, or fails.
FillAccepts == drbg > 0 /\ count <= MaxFill

\* Faulty Fill: the callback gets the rest of the response, not its range.
FillToTheEnd ==
  /\ pc = "fill" /\ FillAccepts
  /\ mem' = Overwrite(mem, rspOff, req.cap - rspOff, "drbg", 0)
  /\ rspOff' = rspOff + count
  /\ drbg' = drbg - 1
  /\ pc' = "putTag"
  /\ UNCHANGED <<req, reqOff, count, err, ret>>

Fill ==
  /\ pc = "fill" /\ FillAccepts
  /\ mem' = Overwrite(mem, rspOff, count, "drbg", 0)
  /\ rspOff' = rspOff + count
  /\ drbg' = drbg - 1
  /\ pc' = "putTag"
  /\ UNCHANGED <<req, reqOff, count, err, ret>>

\* Faulty DrbgFails: a failure to fill is waited out.
DrbgFailsToReseed ==
  /\ pc = "random" /\ RequiresReseeding /\ DrbgMayFail
  /\ pc' = "panicked"
  /\ Release
  /\ UNCHANGED drbg

\* todo!(): a DRBG error panics, and the context is gone with its caller's
\* borrow.  The platform has to start over with TpmContext::new.
DrbgFails ==
  /\ \/ pc = "random" /\ RequiresReseeding /\ DrbgMayFail
     \/ pc = "fill" /\ (DrbgMayFail \/ ~FillAccepts)
  /\ pc' = "panicked"
  /\ Release
  /\ UNCHANGED drbg

Restart ==
  /\ pc = "panicked"
  /\ pc' = "down"
  /\ drbg' = 0
  /\ UNCHANGED <<req, mem, reqOff, rspOff, count, err, ret>>
-----------------------------------------------------------------------------
(* execute_command: the response header; and fill_error.                   *)

PutTag ==
  /\ pc = "putTag"
  /\ IF CanWrite(0, 2)
     THEN Write(0, 2, TagNoSessions) /\ pc' = "putSize" /\ UNCHANGED err
     ELSE Fail(RcMemory) /\ UNCHANGED mem
  /\ UNCHANGED <<req, reqOff, rspOff, count, ret, drbg>>

\* Faulty PutSize: the size of the body only.
PutBodySize ==
  /\ pc = "putSize"
  /\ IF CanWrite(2, 4)
     THEN Write(2, 4, count) /\ pc' = "putCode" /\ UNCHANGED err
     ELSE Fail(RcMemory) /\ UNCHANGED mem
  /\ UNCHANGED <<req, reqOff, rspOff, count, ret, drbg>>

\* response_size is the cursor's offset: everything up to the last byte.
PutSize ==
  /\ pc = "putSize"
  /\ IF CanWrite(2, 4)
     THEN Write(2, 4, rspOff) /\ pc' = "putCode" /\ UNCHANGED err
     ELSE Fail(RcMemory) /\ UNCHANGED mem
  /\ UNCHANGED <<req, reqOff, rspOff, count, ret, drbg>>

PutCode ==
  /\ pc = "putCode"
  /\ IF CanWrite(6, 4)
     THEN Write(6, 4, Success) /\ pc' = "done" /\ ret' = rspOff /\ UNCHANGED err
     ELSE Fail(RcMemory) /\ UNCHANGED <<mem, ret>>
  /\ UNCHANGED <<req, reqOff, rspOff, count, drbg>>

\* Faulty FillError: the code goes to the front of the response.
FillErrorAtStart ==
  /\ pc = "fail"
  /\ pc' = "done"
  /\ \/ CanWrite(0, 4) /\ Write(0, 4, err) /\ ret' = HeaderSize
     \/ ~CanWrite(0, 4) /\ ret' = 0 /\ UNCHANGED mem
  /\ UNCHANGED <<req, reqOff, rspOff, count, err, drbg>>

\* fill_error puts the code in place and nothing else of the header.
FillError ==
  /\ pc = "fail"
  /\ pc' = "done"
  /\ \/ CanWrite(6, 4) /\ Write(6, 4, err) /\ ret' = HeaderSize
     \/ ~CanWrite(6, 4) /\ ret' = 0 /\ UNCHANGED mem
  /\ UNCHANGED <<req, reqOff, rspOff, count, err, drbg>>

-----------------------------------------------------------------------------
Serve ==
  \/ ReadTooShort \/ ReadTag \/ ReadSize \/ ReadCode \/ ReadCount
  \/ Reserve \/ Reseed \/ SkipReseed \/ Fill \/ DrbgFails
  \/ PutTag \/ PutSize \/ PutCode \/ FillError

Next ==
  \/ New
  \/ \E c \in Call : Submit(c)
  \/ Serve
  \/ Collect
  \/ Restart

SafeSpec == Init /\ [][Next]_vars
\* A call runs to its return: the server is the caller's own thread.
Spec == SafeSpec /\ WF_vars(Serve)
-----------------------------------------------------------------------------
(* Properties.                                                             *)

Steps == {"down", "idle", "tag", "size", "code", "count", "reserve", "random",
          "fill", "putTag", "putSize", "putCode", "fail", "done", "panicked"}
Reading == {"tag", "size", "code", "count"}

\* Every variable has its type; memory and cursors stay inside the arena and
\* the offsets that execute_command can reach.
TypeOK ==
  /\ pc \in Steps
  /\ req \in Call \cup {NoCall}
  /\ mem \in [0 .. Arena - 1 -> Byte]
  /\ reqOff \in {0, 2, 6, 10, 12}
  /\ rspOff \in HeaderSize .. HeaderSize + Arena
  /\ count \in Counts \cup {0}
  /\ err \in {Success, RcCommandSize, RcCommandCode, RcMemory}
  /\ ret \in 0 .. HeaderSize + Arena
  /\ drbg \in 0 .. ReseedInterval

\* InOutBuffer: whatever the handler has still to read of a request in place
\* is the request the caller sent, not a byte of the response.
RequestIntactUntilRead ==
  pc \in Reading =>
    \A i \in reqOff .. RequestLen(req) - 1 :
       RequestBuffer[i] = RequestByte(req, i)

\* At the return of execute_command_*, the caller's memory differs from what
\* it passed only within the response that was announced to it; after an
\* error, only in the four bytes of the response code.
OnlyResponseWritten ==
  pc = "done" =>
    \A i \in 0 .. Arena - 1 :
       \/ err = Success /\ i < ret
       \/ err # Success /\ ret > 0 /\ i \in 6 .. 9
       \/ mem[i] = CallerMemory(req)[i]

\* get_random writes the body before the header: once random bytes are in the
\* caller's memory the command can no longer fail, so that no error response
\* carries them and no header write reports Memory.
NoRandomBytesOnError ==
  (\E i \in 0 .. Arena - 1 : mem[i].src = "drbg") => err = Success

\* try_get_random never lets fill_bytes meet a DRBG that wants reseeding,
\* whatever the earlier commands and restarts drew from it.
NeverFillsUnseeded == pc = "fill" => ~RequiresReseeding

Phase ==
  IF pc \in {"down", "panicked"} THEN "off"
  ELSE IF pc = "idle" THEN "idle"
  ELSE IF pc = "done" THEN "answered"
  ELSE "busy"

\* The bytes of the response the caller may rely on.
PromisedBytes ==
  IF err = Success THEN 0 .. ret - 1
  ELSE IF ret > 0 THEN 6 .. 9 ELSE {}

\* The request and the answer as the service specifies them.
View(c) == [len |-> RequestLen(c), size |-> c.size, cc |-> c.cc, n |-> c.n,
            cap |-> c.cap]

Answered ==
  IF pc = "done"
  THEN [rc |-> err, size |-> ret, bytes |-> [i \in PromisedBytes |-> mem[i]]]
  ELSE [rc |-> 0, size |-> 0, bytes |-> [i \in {} |-> OldByte]]

Service == INSTANCE TpmService WITH
  phase <- Phase, request <- View(req), reply <- Answered

\* execute_command_separate and execute_command_in_place give the same answer
\* to the same request, byte for byte, and every call is answered or ends in
\* the DRBG's failure.
ImplementsService == Service!Spec

\* "Returns the number of bytes written to the response buffer": each of the
\* first ret bytes is the server's.
ReturnedBytesAreWritten ==
  pc = "done" => \A i \in 0 .. ret - 1 : mem[i].src \in {"server", "drbg"}

\* The server has no panics: a failing DRBG is answered, too.
NeverPanics == pc # "panicked"
=============================================================================
