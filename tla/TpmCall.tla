------------------------------- MODULE TpmCall -------------------------------
(***************************************************************************)
(* What run_command_with_handles promises its caller: the TPM is asked     *)
(* once, with the whole command, or not at all, and what the call returns  *)
(* follows from the job and from the answer.  Nothing here knows that the  *)
(* command is written and the response read a field at a time.             *)
(***************************************************************************)
EXTENDS TpmBytes

CONSTANTS
  Jobs,              \* the commands called
  NoJob,             \* no command
  CmdBufferSize,     \* the longest command there is room for
  TcsGeneralFailure, \* the error of a call whose Tpm fails
  Pending,           \* the outcome of a call that is not over
  OutOfRoom, Panic,  \* the ways to end a call without asking
  Error(_),          \* the outcome with an error code
  Command(_),        \* the command that a job is
  RespCode(_),       \* the response code of an answer
  WellFormed(_, _),  \* whether an answer is a response that a job takes
  Reading(_, _)      \* the outcome of a job with such an answer

VARIABLES
  phase,    \* "idle", "called", "asked", "answered" or "returned"
  job,      \* the call
  request,  \* what the TPM has been asked, until the call is over
  answer,   \* what the TPM wrote to the response buffer
  result    \* what the call returned

vars == <<phase, job, request, answer, result>>

Fits(j) == Len(Command(j)) <= CmdBufferSize

Init ==
  /\ phase = "idle" /\ job = NoJob /\ result = Pending
  /\ request = <<>> /\ answer = <<>>

Call ==
  /\ phase = "idle"
  /\ phase' = "called" /\ job' \in Jobs
  /\ UNCHANGED <<request, answer, result>>

\* The TPM never hears of a command that does not fit.
Refuse ==
  /\ phase = "called" /\ ~Fits(job)
  /\ phase' = "returned" /\ result' \in {OutOfRoom, Panic}
  /\ UNCHANGED <<job, request, answer>>

Ask ==
  /\ phase = "called" /\ Fits(job)
  /\ phase' = "asked" /\ request' = Command(job)
  /\ UNCHANGED <<job, answer, result>>

Answer ==
  /\ phase = "asked"
  /\ phase' = "answered" /\ answer' # <<>>
  /\ UNCHANGED <<job, request, result>>

\* transact returns an error of its own, or does not return.
Fail ==
  /\ phase = "asked"
  /\ phase' = "returned" /\ result' \in {Error(BE4(TcsGeneralFailure)), Panic}
  /\ request' = <<>>
  /\ UNCHANGED <<job, answer>>

Return ==
  /\ phase = "answered"
  /\ phase' = "returned"
  /\ IF WellFormed(job, answer) THEN result' = Reading(job, answer)
     ELSE IF RespCode(answer) # BE4(0) THEN result' = Error(RespCode(answer))
     ELSE result'.kind \in {"error", "panic"}
  /\ request' = <<>>
  /\ UNCHANGED <<job, answer>>

Collect ==
  /\ phase = "returned"
  /\ phase' = "idle" /\ job' = NoJob /\ result' = Pending
  /\ answer' = <<>>
  /\ UNCHANGED request

Next == Call \/ Refuse \/ Ask \/ Answer \/ Fail \/ Return \/ Collect

Spec == Init /\ [][Next]_vars
=============================================================================
