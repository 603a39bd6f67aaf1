----------------------------- MODULE TpmSystem ------------------------------
(***************************************************************************)
(* A client whose Tpm is the server of this repository: transact hands the *)
(* command and the client's response buffer to execute_command_separate.   *)
(* Both run in the client's thread, so the client stands still while the   *)
(* server works, and a panic of the server unwinds the client's call.      *)
(***************************************************************************)
EXTENDS TpmClient

CONSTANTS
  ReseedInterval, MaxFill, DrbgMayFail,  \* of TpmServer
  RandomBytes                            \* bytes the DRBG may produce

ASSUME RandomAssumption == RandomBytes \subseteq Octet /\ RandomBytes # {}
ASSUME PlatformAssumption ==
  ReseedInterval \in Nat \ {0} /\ MaxFill \in Nat /\ DrbgMayFail \in BOOLEAN

VARIABLES spc, req, mem, reqOff, rspOff, count, err, ret, drbg

Server == INSTANCE TpmServer WITH
  pc <- spc, Arena <- RespBufferSize, Capacities <- {RespBufferSize},
  Lengths <- 0 .. CmdBufferSize, SizeFields <- 0 .. CmdBufferSize,
  CommandCodes <- {j.code : j \in Jobs}, Counts <- 0 .. U16Max

serverVars == <<spc, req, mem, reqOff, rspOff, count, err, ret, drbg>>
systemVars == <<vars, serverVars>>

SystemInit == Init /\ Server!Init
-----------------------------------------------------------------------------
\* The command as the server's fields; the bytes past them it never reads.
AsCall(command) ==
  [mode |-> "separate", cap |-> RespBufferSize, len |-> Len(command),
   size |-> U32(After(command, 2)), cc |-> U32(After(command, 6)),
   n |-> IF CanGet(command, 12) THEN U16(After(command, 10)) ELSE 0]

\* The byte at offset i of the response: what the server encoded there, a
\* byte of the DRBG's, or the zero the client initialised it with.
ByteAt(i, random) ==
  CASE mem[i].src = "server" /\ i < 2 -> BE2(mem[i].val)[mem[i].at + 1]
    [] mem[i].src = "server" /\ i >= 2 -> BE4(mem[i].val)[mem[i].at + 1]
    [] mem[i].src = "drbg" -> random[mem[i].at + 1]
    [] OTHER -> 0
ResponseBytes(random) ==
  [i \in 1 .. RespBufferSize |-> ByteAt(i - 1, random)]

Drawn == IF err = 0 THEN count ELSE 0
-----------------------------------------------------------------------------
\* run_command borrows a context that exists.
Begin == spc = "idle" /\ (\E j \in Jobs : Call(j)) /\ UNCHANGED serverVars

ClientRuns == Step /\ UNCHANGED serverVars

ClientIsDone == Collect /\ UNCHANGED serverVars

\* transact calls the server with what the client wrote.
Enter ==
  /\ pc = "sent"
  /\ Server!Submit(AsCall(cmd))
  /\ UNCHANGED vars

ServerRuns == Server!Serve /\ UNCHANGED vars

\* The server returns: its memory is the client's response buffer.
Leave ==
  /\ Server!Collect
  /\ \E random \in [1 .. Drawn -> RandomBytes] :
       Transact(ResponseBytes(random))

\* The server's panic unwinds through transact.
Unwind ==
  /\ pc = "sent" /\ spc = "panicked"
  /\ Return(Panic)
  /\ UNCHANGED <<sent, done, received, serverVars>>

\* The context is made, or made again, while nobody is in a call.
ServerStarts ==
  /\ pc = "idle"
  /\ Server!New \/ Server!Restart
  /\ UNCHANGED vars

CallRuns == ClientRuns \/ Enter \/ ServerRuns \/ Leave \/ Unwind

SystemNext == Begin \/ CallRuns \/ ClientIsDone \/ ServerStarts

\* One thread runs the call, in the client and in the server.
SystemSpec == SystemInit /\ [][SystemNext]_systemVars /\ WF_systemVars(CallRuns)
-----------------------------------------------------------------------------
(* Properties.                                                             *)

\* The response code the command deserves, as TpmService has it.
Verdict == Server!Service!Verdict(Server!View(AsCall(cmd)))
Answered == pc = "returned" /\ resp # <<>>

\* The client's command is never the wrong size for the server: the size in
\* its header is the length of the slice that transact gets.
SizesAgree == spc = "done" => err # Server!RcCommandSize

\* fill_error writes four bytes of a header and the client reads the code out
\* of them: every error of the server is the error of the call.
ServerErrorsArrive ==
  Answered /\ Verdict # Server!Success => result = Error(BE4(Verdict))

\* Against this server the client panics only because the server did: no
\* response it produces has a size that does not cover its header.
PanicsOnlyWithServer ==
  pc = "returned" /\ result.kind = "panic" => spc = "panicked"

\* Every call comes back to its caller.
CallsComeBack == pc # "idle" ~> pc = "returned"

\* test_get_random_*: a GetRandom the server grants gives the caller as many
\* bytes as it asked for (behind the two bytes of the Tpm2b's size).
GetRandomDelivers ==
  Answered /\ Verdict = Server!Success =>
    result.kind = "ok" /\ Len(value) = 2 + AsCall(cmd).n
=============================================================================
