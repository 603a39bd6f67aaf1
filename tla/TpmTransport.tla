---------------------------- MODULE TpmTransport ----------------------------
(***************************************************************************)
(* TcpTpm::transact: a command goes to a simulator over a TCP connection   *)
(* and its answer comes back.  A connection is two streams without marks   *)
(* between messages, and both survive a transact that fails: what it wrote *)
(* is still read as the start of a command, and what it left unread is the *)
(* next command's answer.                                                  *)
(*                                                                         *)
(* A command is its header, which carries the length, and that many pieces *)
(* of body; an answer is a sequence of u32 words.  Pieces and words know   *)
(* the call they are of, which neither side can see.                       *)
(***************************************************************************)
EXTENDS Integers, Sequences, SequencesExt

CONSTANTS
  MaxCalls,    \* calls on one connection
  CmdLens,     \* pieces of body of a command
  RespRoom,    \* words the response buffer has room for
  AnswerSizes, \* words of a TPM response
  Words        \* what a word of a response is when read as a size

\* The tag a response begins with is read as a size no buffer has.
TagWord == RespRoom + 1

ASSUME TransportAssumption ==
  /\ MaxCalls \in Nat /\ RespRoom \in Nat
  /\ CmdLens \subseteq Nat
  /\ AnswerSizes \subseteq Nat \ {0}
  /\ Words \subseteq 0 .. TagWord

VARIABLES
  pc,        \* the next step of transact
  log,       \* how the calls on this connection ended, oldest first
  cmdLen,    \* command.len() of the call
  toTpm,     \* written and not yet read by the simulator
  toClient,  \* written and not yet read by the client
  open,      \* whether the simulator holds its end of the connection
  want,      \* resp_size
  got        \* response[..resp_size]

callVars == <<pc, cmdLen, want, got>>
streams == <<toTpm, toClient>>
transportVars == <<callVars, log, streams, open>>

Call == Len(log) + 1   \* the number of the call being made

Piece(c, len, i) == [call |-> c, len |-> len, at |-> i]
Frame(c, len) == [i \in 1 .. len + 1 |-> Piece(c, len, i - 1)]

Word(c, of, i, val) == [call |-> c, of |-> of, at |-> i, val |-> val]
\* The size, the response, whose first word is its tag, and a zero.
AnswerFrame(c, n, val) ==
  <<Word(c, n, 0, n)>>
  \o [i \in 1 .. n |-> Word(c, n, i, IF i = 1 THEN TagWord ELSE val)]
  \o <<Word(c, n, n + 1, 0)>>

TransportInit ==
  /\ pc = "idle" /\ cmdLen = 0 /\ want = 0 /\ got = <<>>
  /\ log = <<>> /\ toTpm = <<>> /\ toClient = <<>>
  /\ open = FALSE

\* TcpTpm::new.
Connect ==
  /\ pc = "idle"
  /\ log' = <<>> /\ toTpm' = <<>> /\ toClient' = <<>>
  /\ open' = TRUE
  /\ UNCHANGED callVars
-----------------------------------------------------------------------------
(* The client's side.                                                      *)

Ask ==
  /\ pc = "idle" /\ Len(log) < MaxCalls
  /\ pc' = "write"
  /\ cmdLen' \in CmdLens
  /\ UNCHANGED <<log, want, got, streams, open>>

Return(kind) == pc' = "returned" /\ log' = Append(log, kind)

\* Faulty Write: whatever the write took is good enough.
WriteAnyPart ==
  /\ pc = "write"
  /\ \E k \in 0 .. cmdLen + 1 :
       /\ toTpm' = toTpm \o SubSeq(Frame(Call, cmdLen), 1, k)
       /\ IF k = 0 THEN Return("cut") ELSE pc' = "size" /\ UNCHANGED log
  /\ UNCHANGED <<cmdLen, want, got, toClient, open>>

\* One write_vectored, which may take any part of header and command, or
\* fail; a part is an error, and stays written.
Write ==
  /\ pc = "write"
  /\ \E k \in 0 .. cmdLen + 1 :
       /\ toTpm' = toTpm \o SubSeq(Frame(Call, cmdLen), 1, k)
       /\ IF k # cmdLen + 1 THEN Return("cut") ELSE pc' = "size" /\ UNCHANGED log
  /\ UNCHANGED <<cmdLen, want, got, toClient, open>>

\* Faulty ReadSize: what fits of an answer that is too large is read after all.
ReadSizeAndWhatFits ==
  /\ pc = "size" /\ toClient # <<>>
  /\ IF Head(toClient).val > RespRoom
     THEN /\ Len(toClient) > RespRoom
          /\ toClient' = SubSeq(toClient, RespRoom + 2, Len(toClient))
          /\ Return("overlong") /\ UNCHANGED want
     ELSE /\ toClient' = Tail(toClient)
          /\ pc' = "body" /\ want' = Head(toClient).val /\ UNCHANGED log
  /\ UNCHANGED <<cmdLen, got, toTpm, open>>

\* An answer larger than the buffer is an error, and stays unread.
ReadSize ==
  /\ pc = "size" /\ toClient # <<>>
  /\ toClient' = Tail(toClient)
  /\ IF Head(toClient).val > RespRoom
     THEN Return("overlong") /\ UNCHANGED want
     ELSE pc' = "body" /\ want' = Head(toClient).val /\ UNCHANGED log
  /\ UNCHANGED <<cmdLen, got, toTpm, open>>

\* Faulty ReadBody: one read, of what there is, in the place of read_exact.
ReadBodyOnce ==
  /\ pc = "body" /\ (toClient # <<>> \/ want = 0)
  /\ LET n == IF Len(toClient) < want THEN Len(toClient) ELSE want
     IN \E k \in (IF n = 0 THEN {0} ELSE 1 .. n) :
          /\ got' = SubSeq(toClient, 1, k)
          /\ toClient' = SubSeq(toClient, k + 1, Len(toClient))
  /\ pc' = "trailer"
  /\ UNCHANGED <<log, cmdLen, want, toTpm, open>>

ReadBody ==
  /\ pc = "body" /\ Len(toClient) >= want
  /\ got' = SubSeq(toClient, 1, want)
  /\ toClient' = SubSeq(toClient, want + 1, Len(toClient))
  /\ pc' = "trailer"
  /\ UNCHANGED <<log, cmdLen, want, toTpm, open>>

ReadTrailer ==
  /\ pc = "trailer" /\ toClient # <<>>
  /\ toClient' = Tail(toClient)
  /\ Return(IF Head(toClient).val = 0 THEN "ok" ELSE "trailer")
  /\ UNCHANGED <<cmdLen, want, got, toTpm, open>>

\* read_exact reaches the end of a stream that nobody adds to any more.
ReadFails ==
  /\ pc \in {"size", "body", "trailer"} /\ ~open
  /\ Len(toClient) < (IF pc = "body" THEN want ELSE 1)
  /\ Return("closed")
  /\ toClient' = <<>>
  /\ UNCHANGED <<cmdLen, want, got, toTpm, open>>

Collect ==
  /\ pc = "returned"
  /\ pc' = "idle" /\ cmdLen' = 0 /\ want' = 0 /\ got' = <<>>
  /\ UNCHANGED <<log, streams, open>>

Transact == Write \/ ReadSize \/ ReadBody \/ ReadTrailer \/ ReadFails
-----------------------------------------------------------------------------
(* The simulator's side.                                                   *)

\* The header in front, and as many pieces as it announces, are a command,
\* whatever call they are of; one that is not what was sent is answered too.
Serve ==
  /\ open /\ toTpm # <<>> /\ Head(toTpm).at = 0
  /\ LET len == Head(toTpm).len
         whole == SubSeq(toTpm, 1, len + 1) = Frame(Head(toTpm).call, len)
     IN /\ Len(toTpm) > len
        /\ toTpm' = SubSeq(toTpm, len + 2, Len(toTpm))
        /\ \E n \in AnswerSizes, val \in Words :
             toClient' = toClient
                 \o AnswerFrame(IF whole THEN Head(toTpm).call ELSE 0, n, val)
  /\ UNCHANGED <<callVars, log, open>>

\* The end of the connection; of what was under way any part may be lost.
LoseConnection ==
  /\ open' = FALSE
  /\ \E n \in 0 .. Len(toClient) : toClient' = SubSeq(toClient, 1, n)
  /\ UNCHANGED <<callVars, log, toTpm>>

\* What is read as a header is not one.
HangUp ==
  /\ open /\ toTpm # <<>> /\ Head(toTpm).at # 0
  /\ LoseConnection
-----------------------------------------------------------------------------
(* Properties.                                                             *)

Endings == {"ok", "cut", "overlong", "trailer", "closed"}
TransportTypeOK ==
  /\ pc \in {"idle", "write", "size", "body", "trailer", "returned"}
  /\ log \in Seq(Endings) /\ Len(log) <= MaxCalls
  /\ cmdLen \in CmdLens \cup {0}
  /\ \A i \in DOMAIN toTpm :
       toTpm[i].call \in 1 .. MaxCalls /\ toTpm[i].at \in 0 .. toTpm[i].len
  /\ \A i \in DOMAIN toClient : toClient[i].call \in 0 .. MaxCalls
  /\ open \in BOOLEAN
  /\ want \in 0 .. RespRoom
  /\ Len(got) <= RespRoom

\* got is all of the answer to call c.
IsAnswer(c) ==
  /\ got # <<>>
  /\ \A i \in DOMAIN got :
       got[i].call = c /\ got[i].at = i /\ got[i].of = Len(got)

Phase ==
  IF pc \in {"idle", "returned"} THEN (IF pc = "idle" THEN "idle" ELSE "answered")
  ELSE "asked"
Outcome ==
  IF pc # "returned" THEN "none"
  ELSE IF Last(log) # "ok" THEN "error"
  ELSE IF IsAnswer(Len(log)) THEN "answer" ELSE "stray"
Sound == \A i \in DOMAIN log : log[i] = "ok"

\* transact keeps the promise of a Tpm, on which run_command relies: until it
\* has failed once on a connection, each success is the whole answer to the
\* very command it was given.
Exchange == INSTANCE TpmExchange
  WITH phase <- Phase, outcome <- Outcome, sound <- Sound
ImplementsExchange == Exchange!Spec

\* transact returns, unless a connection on which it has failed before makes it
\* wait for the rest of a command that nobody writes.
CallComesBack == Exchange!ComesBack

\* An answer that did not fit is not taken for the answer to the next command,
\* although it is what that command reads: its tag is no size.  The command
\* after that one may take the rest of it for its answer.
OverlongNotMistaken ==
  \A i \in 1 .. Len(log) - 1 :
    log[i] = "overlong" /\ (\A j \in 1 .. i - 1 : log[j] = "ok")
      => log[i + 1] # "ok"
=============================================================================
