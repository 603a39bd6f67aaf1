------------------------------ MODULE TpmService ------------------------------
(***************************************************************************)
(* What the TPM server promises its caller: each request is answered once, *)
(* with an answer that depends on the request and the room for a response  *)
(* only.  Nothing here knows whether request and response share a buffer.  *)
(* The service is lost only inside a command that was about to succeed.    *)
(***************************************************************************)
EXTENDS TpmWire

VARIABLES
  phase,    \* "off", "idle", "busy" (answering) or "answered"
  request,  \* the request being served
  reply     \* the answer: its code, the size returned, the bytes promised

vars == <<phase, request, reply>>

Request == [len : Nat, size : Nat, cc : Nat, n : Nat, cap : Nat]
NoRequest == [len |-> 0, size |-> 0, cc |-> 0, n |-> 0, cap |-> 0]
NoReply == [rc |-> 0, size |-> 0, bytes |-> [i \in {} |-> OldByte]]

\* The response code a request deserves.
Verdict(r) ==
  IF r.len < HeaderSize \/ r.size # r.len THEN RcCommandSize
  ELSE IF r.cc # CcGetRandom THEN RcCommandCode
  ELSE IF r.len < HeaderSize + 2 THEN RcCommandSize
  ELSE IF HeaderSize + r.n > r.cap THEN RcMemory
  ELSE Success

\* An error answer promises the four bytes of its code, when there is room.
ErrorReply(rc, cap) ==
  IF cap >= HeaderSize
  THEN [rc |-> rc, size |-> HeaderSize,
        bytes |-> [i \in 6 .. 9 |-> EncodedByte("server", rc, i - 6)]]
  ELSE [rc |-> rc, size |-> 0, bytes |-> [i \in {} |-> OldByte]]

Reply(r) ==
  IF Verdict(r) = Success
  THEN [rc |-> Success, size |-> HeaderSize + r.n,
        bytes |-> [i \in 0 .. HeaderSize + r.n - 1 |-> ResponseByte(r.n, i)]]
  ELSE ErrorReply(Verdict(r), r.cap)

Init == phase = "off" /\ request = NoRequest /\ reply = NoReply

Start == phase = "off" /\ phase' = "idle" /\ UNCHANGED <<request, reply>>

Submit ==
  /\ phase = "idle"
  /\ phase' = "busy"
  /\ request' \in Request
  /\ UNCHANGED reply

Answer ==
  /\ phase = "busy"
  /\ phase' = "answered"
  /\ reply' = Reply(request)
  /\ UNCHANGED request

Lose ==
  /\ phase = "busy"
  /\ Verdict(request) = Success
  /\ phase' = "off"
  /\ request' = NoRequest
  /\ UNCHANGED reply

Collect ==
  /\ phase = "answered"
  /\ phase' = "idle"
  /\ request' = NoRequest
  /\ reply' = NoReply

Next == Start \/ Submit \/ Answer \/ Lose \/ Collect

\* Every request is eventually answered, or the service is lost.
Fairness == WF_vars(Answer \/ Lose)
SafeSpec == Init /\ [][Next]_vars
Spec == SafeSpec /\ Fairness
=============================================================================
