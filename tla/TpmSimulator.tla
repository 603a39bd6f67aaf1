---------------------------- MODULE TpmSimulator ----------------------------
(***************************************************************************)
(* run_tpm_simulator: a test starts a simulator of its own, powers it up   *)
(* over the platform port, connects to its TPM port, and stops it when the *)
(* test is over.  Tests run one at a time (--test-threads=1), for every    *)
(* simulator wants the same two ports.  But stopping one does not wait for *)
(* its end, so the next test may find the ports taken: the connection is   *)
(* accepted, and answered by nobody.                                       *)
(***************************************************************************)
EXTENDS TpmTransport

VARIABLES
  step,      \* where run_tpm_simulator is; "ready" once it has returned
  attempts,  \* its variable of this name
  signal,    \* the next signal of start_tcp_tpm
  mine,      \* the simulator this test has started
  prev,      \* the one of a test before
  peer,      \* who is at the other end of the platform connection
  acted      \* the last signals this test's simulator has acted on

powerVars == <<step, attempts, signal, mine, prev, peer, acted>>
simulatorVars == <<powerVars, transportVars>>

MaxAttempts == 3

\* The order of start_tcp_tpm.
Signals == <<"NvOff", "PowerOff", "PowerOn", "NvOn">>

\* Who has the ports.
Owner ==
  IF prev # "gone" THEN "prev"
  ELSE IF mine = "listening" THEN "mine" ELSE "nobody"

SimulatorInit ==
  /\ step = "off" /\ attempts = 0 /\ signal = 1
  /\ mine = "none" /\ prev = "gone" /\ peer = "nobody" /\ acted = <<>>
  /\ TransportInit
-----------------------------------------------------------------------------
(* The simulators.                                                         *)

\* Ports that are still taken end a simulator.
SimulatorStarts ==
  /\ mine = "starting"
  /\ mine' = IF prev = "gone" THEN "listening" ELSE "exited"
  /\ UNCHANGED <<step, attempts, signal, prev, peer, acted, transportVars>>

SimulatorExits ==
  /\ mine \in {"starting", "listening"}
  /\ mine' = "exited"
  /\ IF open THEN LoseConnection ELSE UNCHANGED transportVars
  /\ UNCHANGED <<step, attempts, signal, prev, peer, acted>>

PreviousIsGone ==
  /\ prev = "dying"
  /\ prev' = "gone"
  /\ UNCHANGED <<step, attempts, signal, mine, peer, acted, transportVars>>

\* Faulty Kill: dropping a Child does not end its process.
KillNothing ==
  /\ prev' = IF mine = "listening" THEN "listening" ELSE prev
  /\ mine' = "none"

\* Child::kill, which returns before the process is gone.
Kill ==
  /\ prev' = IF mine = "listening" THEN "dying" ELSE prev
  /\ mine' = "none"
-----------------------------------------------------------------------------
(* run_tpm_simulator.                                                      *)

\* TpmSim::new.
Spawn ==
  /\ step = "off"
  /\ step' = "attempt" /\ attempts' = 0 /\ signal' = 1
  /\ mine' = "starting" /\ acted' = <<>>
  /\ UNCHANGED <<prev, peer, transportVars>>

\* The function returns an error, and sim_lifeline is dropped.
GiveUp == step' = "off" /\ Kill /\ UNCHANGED attempts

\* Faulty Retry: the attempts are not counted.
RetryForever ==
  /\ step' = "asleep" /\ UNCHANGED <<attempts, mine, prev>>

\* Faulty Retry: one attempt more than there are.
RetryOnceMore ==
  IF attempts > MaxAttempts THEN GiveUp
  ELSE step' = "asleep" /\ attempts' = attempts + 1 /\ UNCHANGED <<mine, prev>>

\* start_tcp_tpm has failed: once more, a second later, or never.
Retry ==
  IF attempts = MaxAttempts THEN GiveUp
  ELSE step' = "asleep" /\ attempts' = attempts + 1 /\ UNCHANGED <<mine, prev>>

Wake ==
  /\ step = "asleep"
  /\ step' = "attempt"
  /\ UNCHANGED <<attempts, signal, mine, prev, peer, acted, transportVars>>

\* Faulty ConnectPlatform: an attempt goes on where the last one failed.
ConnectPlatformAndResume ==
  /\ step = "attempt"
  /\ \/ /\ Owner # "nobody"
        /\ step' = "signal" /\ peer' = Owner
        /\ UNCHANGED <<signal, attempts, mine, prev>>
     \/ Retry /\ UNCHANGED <<signal, peer>>
  /\ UNCHANGED <<acted, transportVars>>

\* A new connection to the platform port, and the signals from the first.
ConnectPlatform ==
  /\ step = "attempt"
  /\ \/ /\ Owner # "nobody"
        /\ step' = "signal" /\ signal' = 1 /\ peer' = Owner
        /\ UNCHANGED <<attempts, mine, prev>>
     \/ Retry /\ UNCHANGED <<signal, peer>>
  /\ UNCHANGED <<acted, transportVars>>

\* The simulator at the other end is alive, and so acts on a signal.
Responsive ==
  (peer = "mine" /\ mine = "listening") \/ (peer = "prev" /\ prev = "listening")

LastOf(s, n) == SubSeq(s, (IF Len(s) > n THEN Len(s) - n ELSE 0) + 1, Len(s))
ActOn(s) ==
  acted' = IF peer = "mine" THEN LastOf(Append(acted, s), Len(Signals)) ELSE acted

SignalAnswered ==
  /\ step = "signal" /\ Responsive
  /\ ActOn(Signals[signal])
  /\ IF signal = Len(Signals)
     THEN step' = "connect" /\ UNCHANGED signal
     ELSE signal' = signal + 1 /\ UNCHANGED step
  /\ UNCHANGED <<attempts, mine, prev, peer, transportVars>>

\* issue_to_platform returns an error: the signal was refused or not
\* delivered, or it was acted on and the answer is lost.
SignalFails ==
  /\ step = "signal"
  /\ \/ UNCHANGED acted
     \/ Responsive /\ ActOn(Signals[signal])
  /\ Retry
  /\ UNCHANGED <<signal, peer, transportVars>>

\* TcpTpm::new, the last thing that may fail.
ConnectTpm ==
  /\ step = "connect"
  /\ \/ /\ Owner # "nobody"
        /\ step' = "ready" /\ Connect /\ UNCHANGED <<mine, prev, attempts>>
     \/ GiveUp /\ UNCHANGED transportVars
  /\ UNCHANGED <<signal, peer, acted>>

\* The test is over, by its end or by a panic: connection and simulator go.
EndTest ==
  /\ step = "ready" /\ pc = "idle"
  /\ step' = "off" /\ Kill
  /\ open' = FALSE /\ toTpm' = <<>> /\ toClient' = <<>> /\ log' = <<>>
  /\ UNCHANGED <<attempts, signal, peer, acted, callVars>>

Run == Wake \/ ConnectPlatform \/ SignalAnswered \/ SignalFails \/ ConnectTpm

\* The commands of the test, once run_tpm_simulator has returned.
Commands ==
  /\ step = "ready"
  /\ Ask \/ Transact \/ Collect \/ Serve \/ HangUp
  /\ UNCHANGED powerVars

SimulatorNext ==
  \/ SimulatorStarts \/ SimulatorExits \/ PreviousIsGone
  \/ Spawn \/ Run \/ EndTest
  \/ Commands

\* The client and the simulator run on: a step that can be taken is taken,
\* and a killed process ends.
Fairness ==
  /\ WF_simulatorVars(Run)
  /\ WF_simulatorVars(step = "ready" /\ Transact /\ UNCHANGED powerVars)
  /\ WF_simulatorVars(step = "ready" /\ Serve /\ UNCHANGED powerVars)
  /\ WF_simulatorVars(PreviousIsGone)

SimulatorSpec == SimulatorInit /\ [][SimulatorNext]_simulatorVars /\ Fairness
-----------------------------------------------------------------------------
(* Properties.                                                             *)

SimulatorTypeOK ==
  /\ TransportTypeOK
  /\ step \in {"off", "attempt", "signal", "asleep", "connect", "ready"}
  /\ attempts \in 0 .. MaxAttempts
  /\ signal \in 1 .. Len(Signals)
  /\ mine \in {"none", "starting", "listening", "exited"}
  /\ prev \in {"gone", "dying"}
  /\ peer \in {"nobody", "mine", "prev"}
  /\ Len(acted) <= Len(Signals)

\* A TPM is handed to a test only after its simulator has gone through the
\* whole power-up sequence, in order and without a signal in between, however
\* many attempts it took and whichever answers were lost.
PoweredUpInOrder == step \in {"connect", "ready"} => acted = Signals

\* A test never works with the simulator of the test before it.
OwnSimulator == step \in {"connect", "ready"} => peer = "mine" /\ prev = "gone"

\* run_tpm_simulator returns, with a TPM or with an error.
RunReturns == step = "attempt" ~> step \in {"off", "ready"}
=============================================================================
