----------------------------- MODULE TpmExchange -----------------------------
(***************************************************************************)
(* What a Tpm that sits behind a connection promises run_command: transact *)
(* comes back, with the answer to the command it was given or with an      *)
(* error.  The promise holds up to the first error; what transact makes of *)
(* the same connection after one is anybody's guess.                       *)
(***************************************************************************)
VARIABLES
  phase,    \* "idle", "asked" or "answered"
  outcome,  \* "none", "answer", "error", or "stray": something else's answer
  sound     \* whether no call on this connection has failed

vars == <<phase, outcome, sound>>

Init == phase = "idle" /\ outcome = "none" /\ sound = TRUE

Ask == phase = "idle" /\ phase' = "asked" /\ UNCHANGED <<outcome, sound>>

Answer ==
  /\ phase = "asked"
  /\ phase' = "answered" /\ outcome' = "answer"
  /\ UNCHANGED sound

Fail ==
  /\ phase = "asked"
  /\ phase' = "answered" /\ outcome' = "error"
  /\ sound' = FALSE

Stray ==
  /\ phase = "asked" /\ ~sound
  /\ phase' = "answered" /\ outcome' = "stray"
  /\ UNCHANGED sound

Collect ==
  /\ phase = "answered"
  /\ phase' = "idle" /\ outcome' = "none"
  /\ UNCHANGED sound

\* A new connection knows nothing of the errors of the one before.
Renew == phase = "idle" /\ sound' = TRUE /\ UNCHANGED <<phase, outcome>>

Next == Ask \/ Answer \/ Fail \/ Stray \/ Collect \/ Renew

Spec == Init /\ [][Next]_vars

ComesBack == phase = "asked" /\ sound ~> phase = "answered"
=============================================================================
