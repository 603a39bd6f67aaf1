-------------------------- MODULE TpmSimulatorProofs --------------------------
(***************************************************************************)
(* Proofs about TpmSimulator and the transport it composes, for every      *)
(* length of command and answer and any number of calls on a connection.   *)
(* Until a call fails, both streams hold nothing but what is left of the   *)
(* call that is being made: that is what makes reading without marks safe. *)
(* run_tpm_simulator hands out a simulator of its own, powered up in       *)
(* order, whatever fails and for whatever commands the tests then give.    *)
(***************************************************************************)
EXTENDS TpmSimulator, SequenceTheorems, TLAPS

PieceRec == [call : Nat, len : Nat, at : Nat]
WordRec == [call : Nat, of : Nat, at : Nat, val : Nat]

WireType ==
  /\ pc \in {"idle", "write", "size", "body", "trailer", "returned"}
  /\ log \in Seq(Endings)
  /\ cmdLen \in Nat /\ want \in Nat
  /\ toTpm \in Seq(PieceRec)
  /\ toClient \in Seq(WordRec) /\ got \in Seq(WordRec)

\* w is word j of an answer of n words to this call.
OfAnswer(w, n, j) ==
  w.call = Call /\ w.of = n /\ w.at = j /\ (j = 0 => w.val = n)
\* The client is about to read words of it from word k on.
Ahead(n, k) ==
  /\ Len(toClient) <= n + 2 - k
  /\ \A i \in 1 .. Len(toClient) : OfAnswer(toClient[i], n, k + i - 1)

InStep ==
  /\ pc \in {"idle", "write", "returned"} => toTpm = <<>> /\ toClient = <<>>
  /\ pc = "size" =>
       \/ toTpm = Frame(Call, cmdLen) /\ toClient = <<>>
       \/ toTpm = <<>> /\ \E n \in Nat \ {0} : Ahead(n, 0)
  /\ pc = "body" => toTpm = <<>> /\ want # 0 /\ Ahead(want, 1)
  /\ pc = "trailer" =>
       /\ toTpm = <<>> /\ want # 0 /\ Ahead(want, want + 1)
       /\ Len(got) = want
       /\ \A i \in 1 .. want : OfAnswer(got[i], want, i)

WireInv == WireType /\ (Sound => InStep)
-----------------------------------------------------------------------------
(* Frames.                                                                 *)

LEMMA FrameFacts ==
  ASSUME NEW c \in Nat, NEW len \in Nat
  PROVE  /\ Frame(c, len) \in Seq(PieceRec)
         /\ Len(Frame(c, len)) = len + 1
         /\ \A i \in 1 .. len + 1 : Frame(c, len)[i] = Piece(c, len, i - 1)
<1>1. \A i \in 1 .. len + 1 : Piece(c, len, i - 1) \in PieceRec
  BY DEF Piece, PieceRec
<1>2. len + 1 \in Nat
  OBVIOUS
<1>3. QED BY <1>1, <1>2 DEF Frame

\* frame holds the words of an answer of n words to call c.
IsFrame(frame, c, n) ==
  \A i \in 1 .. n + 2 :
    /\ frame[i].call = c /\ frame[i].of = n /\ frame[i].at = i - 1
    /\ i = 1 => frame[i].val = n

\* The words of an answer, one by one.
LEMMA AnswerFacts ==
  ASSUME NEW c \in Nat, NEW n \in Nat \ {0}, NEW val \in Nat
  PROVE  /\ AnswerFrame(c, n, val) \in Seq(WordRec)
         /\ Len(AnswerFrame(c, n, val)) = n + 2
         /\ IsFrame(AnswerFrame(c, n, val), c, n)
         /\ AnswerFrame(c, n, val)[2].val = TagWord
<1> DEFINE size == <<Word(c, n, 0, n)>>
           body == [i \in 1 .. n |-> Word(c, n, i, IF i = 1 THEN TagWord ELSE val)]
           trailer == <<Word(c, n, n + 1, 0)>>
<1>1. size \in Seq(WordRec) /\ Len(size) = 1 /\ size[1] = Word(c, n, 0, n)
  BY DEF Word, WordRec
<1>2. /\ body \in Seq(WordRec) /\ Len(body) = n
      /\ \A i \in 1 .. n :
           body[i].call = c /\ body[i].of = n /\ body[i].at = i
      /\ body[1].val = TagWord
  <2>1. TagWord \in Nat
    BY TransportAssumption DEF TagWord
  <2>2. \A i \in 1 .. n : body[i] \in WordRec
    BY <2>1 DEF Word, WordRec
  <2>3. QED BY <2>2 DEF Word
<1>3. /\ trailer \in Seq(WordRec) /\ Len(trailer) = 1
      /\ trailer[1] = Word(c, n, n + 1, 0)
  BY DEF Word, WordRec
<1> DEFINE front == size \o body
           all == front \o trailer
<1> HIDE DEF size, body, trailer
<1>5. /\ front \in Seq(WordRec) /\ Len(front) = n + 1
      /\ front[1] = size[1]
      /\ \A i \in 2 .. n + 1 : front[i] = body[i - 1]
  <2>1. /\ front \in Seq(WordRec) /\ Len(front) = Len(size) + Len(body)
        /\ \A i \in 1 .. Len(size) + Len(body) :
             front[i] = IF i <= Len(size) THEN size[i] ELSE body[i - Len(size)]
    BY <1>1, <1>2, ConcatProperties, Zenon
  <2> HIDE DEF front
  <2>2. 1 \in 1 .. n + 1 /\ \A i \in 2 .. n + 1 : i \in 1 .. n + 1 /\ ~(i <= 1)
    OBVIOUS
  <2>3. \A i \in 1 .. n + 1 : front[i] = IF i <= 1 THEN size[i] ELSE body[i - 1]
    BY <1>1, <1>2, <2>1
  <2>4. QED BY <1>1, <1>2, <2>1, <2>2, <2>3
<1> HIDE DEF front
<1>6. /\ all \in Seq(WordRec) /\ Len(all) = n + 2
      /\ \A i \in 1 .. n + 1 : all[i] = front[i]
      /\ all[n + 2] = trailer[1]
  <2>1. /\ all \in Seq(WordRec) /\ Len(all) = Len(front) + Len(trailer)
        /\ \A i \in 1 .. Len(front) + Len(trailer) :
             all[i] = IF i <= Len(front) THEN front[i] ELSE trailer[i - Len(front)]
    BY <1>3, <1>5, ConcatProperties, Zenon
  <2> HIDE DEF all
  <2>2. \A i \in 1 .. n + 2 :
          all[i] = IF i <= n + 1 THEN front[i] ELSE trailer[i - (n + 1)]
    BY <1>3, <1>5, <2>1
  <2>3. n + 2 \in 1 .. n + 2 /\ ~(n + 2 <= n + 1) /\ (n + 2) - (n + 1) = 1
    OBVIOUS
  <2>4. \A i \in 1 .. n + 1 : i \in 1 .. n + 2 /\ i <= n + 1
    OBVIOUS
  <2>5. QED BY <1>3, <1>5, <2>1, <2>2, <2>3, <2>4
<1> HIDE DEF all
<1>7. ASSUME NEW i \in 1 .. n + 2
      PROVE  /\ all[i].call = c /\ all[i].of = n /\ all[i].at = i - 1
             /\ i = 1 => all[i].val = n
  <2>1. CASE i = 1
    <3>1. all[i] = Word(c, n, 0, n)
      BY <1>1, <1>5, <1>6, <2>1
    <3>2. QED BY <2>1, <3>1 DEF Word
  <2>2. CASE i \in 2 .. n + 1
    <3>1. i - 1 \in 1 .. n /\ i # 1 /\ i \in 1 .. n + 1
      BY <2>2
    <3>2. all[i] = body[i - 1]
      BY <1>5, <1>6, <2>2, <3>1
    <3>3. QED BY <1>2, <3>1, <3>2
  <2>3. CASE i = n + 2
    <3>1. all[i] = Word(c, n, n + 1, 0) /\ i # 1
      BY <1>3, <1>6, <2>3
    <3>2. QED BY <2>3, <3>1 DEF Word
  <2>4. QED BY <2>1, <2>2, <2>3
<1>8. AnswerFrame(c, n, val) = all
  BY DEF AnswerFrame, all, front, size, body, trailer
<1>9. all[2].val = TagWord
  <2>1. 2 \in 2 .. n + 1 /\ 2 \in 1 .. n + 1 /\ 2 - 1 = 1
    OBVIOUS
  <2>2. QED BY <1>2, <1>5, <1>6, <2>1
<1>10. QED BY <1>6, <1>7, <1>8, <1>9 DEF IsFrame
-----------------------------------------------------------------------------
(* A call, as an exchange.                                                 *)

Running == {"write", "size", "body", "trailer"}

\* What a connection is once one more call has ended on it.
LEMMA OneMoreEnding ==
  ASSUME log \in Seq(Endings), NEW k \in Endings, log' = Append(log, k)
  PROVE  /\ log' \in Seq(Endings) /\ Len(log') = Len(log) + 1 /\ Last(log') = k
         /\ Sound' <=> Sound /\ k = "ok"
<1>1. /\ log' \in Seq(Endings) /\ Len(log') = Len(log) + 1
      /\ \A i \in 1 .. Len(log) : log'[i] = log[i]
      /\ log'[Len(log) + 1] = k
  <2>1. /\ Append(log, k) \in Seq(Endings) /\ Len(Append(log, k)) = Len(log) + 1
        /\ \A i \in 1 .. Len(log) : Append(log, k)[i] = log[i]
        /\ Append(log, k)[Len(log) + 1] = k
    BY AppendProperties
  <2>2. QED BY <2>1, Zenon
<1>2. Last(log') = k
  BY <1>1 DEF Last
<1>3. DOMAIN log = 1 .. Len(log) /\ DOMAIN log' = 1 .. Len(log) + 1 /\ Len(log) \in Nat
  BY <1>1
<1>4. Sound' <=> \A i \in 1 .. Len(log) + 1 : log'[i] = "ok"
  BY <1>3 DEF Sound
<1>5. Sound <=> \A i \in 1 .. Len(log) : log[i] = "ok"
  BY <1>3 DEF Sound
<1>6. /\ Len(log) + 1 \in 1 .. Len(log) + 1
      /\ \A i \in 1 .. Len(log) : i \in 1 .. Len(log) + 1
      /\ \A i \in 1 .. Len(log) + 1 : i \in 1 .. Len(log) \/ i = Len(log) + 1
  BY <1>3
<1>7. Sound' <=> Sound /\ k = "ok"
  BY <1>1, <1>4, <1>5, <1>6
<1>8. QED BY <1>1, <1>2, <1>7

LEMMA SoundIsBoolean == Sound \in BOOLEAN /\ Sound' \in BOOLEAN
BY DEF Sound

\* A call that ends is a step of the exchange, if it does not take something
\* else for its answer on a connection that is sound.
LEMMA EndingStep ==
  ASSUME WireType, pc \in Running, NEW k \in Endings, Return(k),
         k = "ok" /\ Sound => IsAnswer(Len(log))'
  PROVE  Exchange!Next
<1>1. /\ pc' = "returned" /\ log' = Append(log, k)
      /\ log \in Seq(Endings)
  BY DEF Return, WireType
<1>2. Last(log') = k /\ (Sound' <=> Sound /\ k = "ok")
  BY <1>1, OneMoreEnding
<1>3. Phase = "asked" /\ Phase' = "answered"
  BY <1>1 DEF Phase, Running
<1>4. Outcome' = IF k # "ok" THEN "error"
                 ELSE IF IsAnswer(Len(log))' THEN "answer" ELSE "stray"
  BY <1>1, <1>2 DEF Outcome
<1>5. CASE k # "ok"
  <2>1. Sound' = FALSE
    BY <1>2, <1>5, SoundIsBoolean
  <2>2. QED BY <1>3, <1>4, <1>5, <2>1 DEF Exchange!Next, Exchange!Fail
<1>6. CASE k = "ok" /\ IsAnswer(Len(log))'
  <2>1. Sound' = Sound
    BY <1>2, <1>6, SoundIsBoolean
  <2>2. QED BY <1>3, <1>4, <1>6, <2>1 DEF Exchange!Next, Exchange!Answer
<1>7. CASE k = "ok" /\ ~IsAnswer(Len(log))'
  <2>1. ~Sound
    BY <1>7
  <2>2. Sound' = Sound
    BY <1>2, <1>7, SoundIsBoolean
  <2>3. QED BY <1>3, <1>4, <1>7, <2>1, <2>2 DEF Exchange!Next, Exchange!Stray
<1>8. QED BY <1>5, <1>6, <1>7

\* A step within a call, or outside of calls, is none of the exchange.
LEMMA WithinStep ==
  ASSUME UNCHANGED log,
         \/ pc \in Running /\ pc' \in Running
         \/ UNCHANGED <<pc, got>>
  PROVE  UNCHANGED Exchange!vars
<1>1. Sound' = Sound
  BY DEF Sound
<1>2. Phase' = Phase
  BY DEF Phase, Running
<1>3. Outcome' = Outcome
  <2>1. CASE pc \in Running /\ pc' \in Running
    BY <2>1 DEF Outcome, Running
  <2>2. CASE UNCHANGED <<pc, got>>
    BY <2>2 DEF Outcome, IsAnswer
  <2>3. QED BY <2>1, <2>2
<1>4. QED BY <1>1, <1>2, <1>3 DEF Exchange!vars
-----------------------------------------------------------------------------
(* Each step of the client and of the simulator.                           *)

\* The head of what is to be read, once it is read.
LEMMA ReadOne ==
  ASSUME WireType, toClient # <<>>, toClient' = Tail(toClient), UNCHANGED log,
         NEW n \in Nat, NEW k \in Nat, Ahead(n, k)
  PROVE  OfAnswer(Head(toClient), n, k) /\ Ahead(n, k + 1)'
<1>1. /\ toClient \in Seq(WordRec) /\ Len(toClient) \in Nat \ {0}
      /\ Head(toClient) = toClient[1]
  BY DEF WireType
<1>2. /\ Len(Tail(toClient)) = Len(toClient) - 1
      /\ \A i \in 1 .. Len(toClient) - 1 : Tail(toClient)[i] = toClient[i + 1]
  BY <1>1
<1>3. 1 \in 1 .. Len(toClient) /\ k + 1 - 1 = k
  BY <1>1
<1>4. OfAnswer(toClient[1], n, k)
  BY <1>3 DEF Ahead
<1>5. Len(toClient') <= n + 2 - (k + 1)
  BY <1>1, <1>2 DEF Ahead
<1>6. ASSUME NEW i \in 1 .. Len(toClient') PROVE OfAnswer(toClient[i], n, (k + 1) + i - 1)'
  <2>1. i + 1 \in 1 .. Len(toClient) /\ toClient'[i] = toClient[i + 1]
    BY <1>1, <1>2
  <2>2. OfAnswer(toClient[i + 1], n, k + (i + 1) - 1)
    BY <2>1 DEF Ahead
  <2>3. k + (i + 1) - 1 = (k + 1) + i - 1
    BY <1>1, <2>1
  <2>4. QED BY <2>1, <2>2, <2>3 DEF OfAnswer, Call
<1>7. QED BY <1>1, <1>4, <1>5, <1>6 DEF Ahead

LEMMA AskStep ==
  ASSUME WireInv, Ask
  PROVE  WireInv' /\ Exchange!Next
<1>1. /\ pc = "idle" /\ pc' = "write" /\ cmdLen' \in Nat
      /\ UNCHANGED <<log, want, got, toTpm, toClient, open>>
  BY TransportAssumption DEF Ask, streams
<1>2. Sound' = Sound /\ Outcome' = "none" /\ Outcome = "none"
      /\ Phase = "idle" /\ Phase' = "asked"
  BY <1>1 DEF Sound, Outcome, Phase
<1>3. Exchange!Next
  BY <1>2 DEF Exchange!Next, Exchange!Ask
<1>4. WireType'
  BY <1>1 DEF WireInv, WireType
<1>5. Sound => InStep'
  BY <1>1 DEF WireInv, InStep
<1>6. QED BY <1>2, <1>3, <1>4, <1>5 DEF WireInv

LEMMA WriteStep ==
  ASSUME WireInv, Write
  PROVE  WireInv' /\ [Exchange!Next]_(Exchange!vars)
<1>1. PICK k \in 0 .. cmdLen + 1 :
        /\ toTpm' = toTpm \o SubSeq(Frame(Call, cmdLen), 1, k)
        /\ IF k # cmdLen + 1 THEN Return("cut") ELSE pc' = "size" /\ UNCHANGED log
  BY DEF Write
<1>2. pc = "write" /\ UNCHANGED <<cmdLen, want, got, toClient, open>>
  BY DEF Write
<1>3. cmdLen \in Nat /\ Call \in Nat /\ toTpm \in Seq(PieceRec) /\ log \in Seq(Endings)
  BY DEF WireInv, WireType, Call
<1>4. Frame(Call, cmdLen) \in Seq(PieceRec) /\ Len(Frame(Call, cmdLen)) = cmdLen + 1
  BY <1>3, FrameFacts
<1> DEFINE frame == Frame(Call, cmdLen)
<1> HIDE DEF frame
<1>5. SubSeq(frame, 1, k) \in Seq(PieceRec)
  BY <1>3, <1>4 DEF frame
<1>6. toTpm' \in Seq(PieceRec)
  BY <1>1, <1>3, <1>5 DEF frame
<1>7. CASE k # cmdLen + 1
  <2>1. Return("cut") /\ "cut" \in Endings
    BY <1>1, <1>7 DEF Endings
  <2>2. log' \in Seq(Endings) /\ ~Sound'
    BY <1>3, <2>1, OneMoreEnding DEF Return
  <2>3. WireInv'
    BY <1>2, <1>6, <2>1, <2>2 DEF WireInv, WireType, Return
  <2>4. Exchange!Next
    BY <1>2, <2>1, EndingStep DEF WireInv, Running
  <2>5. QED BY <2>3, <2>4
<1>8. CASE k = cmdLen + 1
  <2>1. pc' = "size" /\ UNCHANGED log
    BY <1>1, <1>8
  <2>2. WireType'
    BY <1>2, <1>6, <2>1 DEF WireInv, WireType
  <2>3. Sound' = Sound /\ Call' = Call
    BY <2>1 DEF Sound, Call
  <2>4. ASSUME Sound PROVE InStep'
    <3>1. toTpm = <<>> /\ toClient = <<>>
      BY <1>2, <2>4 DEF WireInv, InStep
    <3>2. SubSeq(frame, 1, cmdLen + 1) = frame
      BY <1>3, <1>4 DEF frame
    <3>3. toTpm' = frame
      BY <1>1, <1>4, <1>8, <3>1, <3>2 DEF frame
    <3>4. toTpm' = Frame(Call, cmdLen)'
      BY <1>2, <2>3, <3>3 DEF frame, Frame, Piece
    <3>5. QED BY <1>2, <2>1, <3>1, <3>4 DEF InStep
  <2>5. UNCHANGED Exchange!vars
    BY <1>2, <2>1, WithinStep DEF Running
  <2>6. QED BY <2>2, <2>3, <2>4, <2>5 DEF WireInv
<1>9. QED BY <1>7, <1>8

LEMMA ReadSizeStep ==
  ASSUME WireInv, ReadSize
  PROVE  WireInv' /\ [Exchange!Next]_(Exchange!vars)
<1>1. /\ pc = "size" /\ toClient # <<>> /\ toClient' = Tail(toClient)
      /\ UNCHANGED <<cmdLen, got, toTpm, open>>
  BY DEF ReadSize
<1>2. /\ toClient \in Seq(WordRec) /\ Tail(toClient) \in Seq(WordRec)
      /\ Head(toClient) \in WordRec /\ log \in Seq(Endings)
  BY <1>1 DEF WireInv, WireType
<1>3. Head(toClient).val \in Nat
  BY <1>2 DEF WordRec
<1>4. CASE Head(toClient).val > RespRoom
  <2>1. Return("overlong") /\ UNCHANGED want /\ "overlong" \in Endings
    BY <1>4 DEF ReadSize, Endings
  <2>2. log' \in Seq(Endings) /\ ~Sound'
    BY <1>2, <2>1, OneMoreEnding DEF Return
  <2>3. WireInv'
    BY <1>1, <1>2, <2>1, <2>2 DEF WireInv, WireType, Return
  <2>4. Exchange!Next
    BY <1>1, <2>1, EndingStep DEF WireInv, Running
  <2>5. QED BY <2>3, <2>4
<1>5. CASE ~(Head(toClient).val > RespRoom)
  <2>1. pc' = "body" /\ want' = Head(toClient).val /\ UNCHANGED log
    BY <1>5 DEF ReadSize
  <2>2. WireType'
    BY <1>1, <1>2, <1>3, <2>1 DEF WireInv, WireType
  <2>3. Sound' = Sound
    BY <2>1 DEF Sound
  <2>4. ASSUME Sound PROVE InStep'
    <3>1. toTpm = <<>> /\ \E n \in Nat \ {0} : Ahead(n, 0)
      BY <1>1, <2>4 DEF WireInv, InStep
    <3>2. PICK n \in Nat \ {0} : Ahead(n, 0)
      BY <3>1
    <3>3. OfAnswer(Head(toClient), n, 0) /\ Ahead(n, 0 + 1)'
      BY <1>1, <2>1, <3>2, ReadOne DEF WireInv
    <3>4. want' = n
      BY <2>1, <3>3 DEF OfAnswer
    <3>5. Ahead(want, 1)'
      BY <3>3, <3>4 DEF Ahead, OfAnswer
    <3>6. QED BY <1>1, <2>1, <3>1, <3>4, <3>5 DEF InStep
  <2>5. UNCHANGED Exchange!vars
    BY <1>1, <2>1, WithinStep DEF Running
  <2>6. QED BY <2>2, <2>3, <2>4, <2>5 DEF WireInv
<1>6. QED BY <1>4, <1>5

LEMMA ReadBodyStep ==
  ASSUME WireInv, ReadBody
  PROVE  WireInv' /\ UNCHANGED Exchange!vars
<1>1. /\ pc = "body" /\ pc' = "trailer" /\ Len(toClient) >= want
      /\ got' = SubSeq(toClient, 1, want)
      /\ toClient' = SubSeq(toClient, want + 1, Len(toClient))
      /\ UNCHANGED <<log, cmdLen, want, toTpm, open>>
  BY DEF ReadBody
<1>2. toClient \in Seq(WordRec) /\ want \in Nat /\ Len(toClient) \in Nat
  BY DEF WireInv, WireType
<1>3. /\ got' \in Seq(WordRec) /\ Len(got') = want
      /\ \A i \in 1 .. want : got'[i] = toClient[i]
  BY <1>1, <1>2
<1>4. /\ toClient' \in Seq(WordRec) /\ Len(toClient') = Len(toClient) - want
      /\ \A i \in 1 .. Len(toClient) - want : toClient'[i] = toClient[want + i]
  BY <1>1, <1>2
<1>5. WireType'
  BY <1>1, <1>3, <1>4 DEF WireInv, WireType
<1>6. Sound' = Sound /\ Call' = Call
  BY <1>1 DEF Sound, Call
<1>7. ASSUME Sound PROVE InStep'
  <2>1. toTpm = <<>> /\ want # 0 /\ Ahead(want, 1)
    BY <1>1, <1>7 DEF WireInv, InStep
  <2>2. ASSUME NEW i \in 1 .. want PROVE OfAnswer(got[i], want, i)'
    <3>1. i \in 1 .. Len(toClient) /\ 1 + i - 1 = i
      BY <1>1, <1>2
    <3>2. OfAnswer(toClient[i], want, i)
      BY <2>1, <3>1 DEF Ahead
    <3>3. QED BY <1>1, <1>3, <1>6, <3>2 DEF OfAnswer
  <2>3. ASSUME NEW i \in 1 .. Len(toClient')
        PROVE  OfAnswer(toClient[i], want, (want + 1) + i - 1)'
    <3>1. want + i \in 1 .. Len(toClient) /\ 1 + (want + i) - 1 = (want + 1) + i - 1
      BY <1>1, <1>2, <1>4
    <3>2. OfAnswer(toClient[want + i], want, (want + 1) + i - 1)
      BY <2>1, <3>1 DEF Ahead
    <3>3. toClient'[i] = toClient[want + i]
      BY <1>1, <1>2, <1>4
    <3>4. QED BY <1>1, <1>6, <3>2, <3>3 DEF OfAnswer
  <2>4. Len(toClient') <= want + 2 - (want + 1)
    BY <1>2, <1>4, <2>1 DEF Ahead
  <2>5. Ahead(want, want + 1)'
    BY <1>1, <2>3, <2>4 DEF Ahead
  <2>6. QED BY <1>1, <1>3, <2>1, <2>2, <2>5 DEF InStep
<1>8. UNCHANGED Exchange!vars
  BY <1>1, WithinStep DEF Running
<1>9. QED BY <1>5, <1>6, <1>7, <1>8 DEF WireInv

LEMMA ReadTrailerStep ==
  ASSUME WireInv, ReadTrailer
  PROVE  WireInv' /\ Exchange!Next
<1> DEFINE k == IF Head(toClient).val = 0 THEN "ok" ELSE "trailer"
<1>1. /\ pc = "trailer" /\ toClient # <<>> /\ toClient' = Tail(toClient)
      /\ Return(k) /\ UNCHANGED <<cmdLen, want, got, toTpm, open>>
  BY DEF ReadTrailer
<1>2. k \in Endings
  BY DEF Endings
<1> HIDE DEF k
<1>3. /\ toClient \in Seq(WordRec) /\ Tail(toClient) \in Seq(WordRec)
      /\ log \in Seq(Endings) /\ want \in Nat /\ got \in Seq(WordRec)
      /\ Len(Tail(toClient)) = Len(toClient) - 1
  BY <1>1 DEF WireInv, WireType
<1>4. /\ pc' = "returned" /\ log' \in Seq(Endings) /\ Len(log') = Len(log) + 1
      /\ Sound' <=> Sound /\ k = "ok"
  BY <1>1, <1>2, <1>3, OneMoreEnding DEF Return
<1>5. WireType'
  BY <1>1, <1>3, <1>4 DEF WireInv, WireType
<1>6. ASSUME Sound PROVE toTpm = <<>> /\ toClient' = <<>> /\ IsAnswer(Len(log))'
  <2>1. /\ toTpm = <<>> /\ want # 0 /\ Ahead(want, want + 1) /\ Len(got) = want
        /\ \A i \in 1 .. want : OfAnswer(got[i], want, i)
    BY <1>1, <1>6 DEF WireInv, InStep
  <2>2. Len(toClient) <= 1
    BY <1>3, <2>1 DEF Ahead
  <2>3. toClient' = <<>>
    BY <1>1, <1>3, <2>2
  <2>4. got # <<>> /\ DOMAIN got = 1 .. want
    BY <1>3, <2>1
  <2>5. \A i \in DOMAIN got :
          got[i].call = Len(log) + 1 /\ got[i].at = i /\ got[i].of = Len(got)
    BY <2>1, <2>4 DEF OfAnswer, Call
  <2>6. IsAnswer(Len(log))'
    BY <1>1, <1>4, <2>4, <2>5 DEF IsAnswer
  <2>7. QED BY <2>1, <2>3, <2>6
<1>7. Sound' => InStep'
  BY <1>1, <1>4, <1>6 DEF InStep
<1>8. Exchange!Next
  BY <1>1, <1>2, <1>6, EndingStep DEF WireInv, Running
<1>9. QED BY <1>5, <1>7, <1>8 DEF WireInv

LEMMA ReadFailsStep ==
  ASSUME WireInv, ReadFails
  PROVE  WireInv' /\ Exchange!Next
<1>1. /\ pc \in Running /\ Return("closed") /\ "closed" \in Endings
      /\ toClient' = <<>> /\ UNCHANGED <<cmdLen, want, got, toTpm, open>>
  BY DEF ReadFails, Endings, Running
<1>2. log' \in Seq(Endings) /\ ~Sound' /\ pc' = "returned"
  BY <1>1, OneMoreEnding DEF Return, WireInv, WireType
<1>3. WireInv'
  BY <1>1, <1>2 DEF WireInv, WireType
<1>4. Exchange!Next
  BY <1>1, EndingStep DEF WireInv
<1>5. QED BY <1>3, <1>4

LEMMA CollectStep ==
  ASSUME WireInv, Collect
  PROVE  WireInv' /\ Exchange!Next
<1>1. /\ pc = "returned" /\ pc' = "idle" /\ cmdLen' = 0 /\ want' = 0 /\ got' = <<>>
      /\ UNCHANGED <<log, toTpm, toClient, open>>
  BY DEF Collect, streams
<1>2. Sound' = Sound /\ Outcome' = "none" /\ Phase = "answered" /\ Phase' = "idle"
  BY <1>1 DEF Sound, Outcome, Phase
<1>3. Exchange!Next
  BY <1>2 DEF Exchange!Next, Exchange!Collect
<1>4. WireInv'
  BY <1>1, <1>2 DEF WireInv, WireType, InStep
<1>5. QED BY <1>3, <1>4

LEMMA ServeStep ==
  ASSUME WireInv, Serve
  PROVE  WireInv' /\ UNCHANGED Exchange!vars
<1> DEFINE len == Head(toTpm).len
           whole == SubSeq(toTpm, 1, len + 1) = Frame(Head(toTpm).call, len)
           c == IF whole THEN Head(toTpm).call ELSE 0
<1>1. /\ toTpm # <<>> /\ Len(toTpm) > len
      /\ toTpm' = SubSeq(toTpm, len + 2, Len(toTpm))
      /\ UNCHANGED <<pc, cmdLen, want, got, log, open>>
  BY DEF Serve, callVars
<1>2. PICK n \in AnswerSizes, val \in Words :
        toClient' = toClient \o AnswerFrame(c, n, val)
  BY DEF Serve
<1>3. /\ toTpm \in Seq(PieceRec) /\ toClient \in Seq(WordRec)
      /\ Head(toTpm) \in PieceRec /\ Len(toTpm) \in Nat
  BY <1>1 DEF WireInv, WireType
<1>4. len \in Nat /\ c \in Nat
  BY <1>3 DEF PieceRec
<1>5. n \in Nat \ {0} /\ val \in Nat
  BY TransportAssumption DEF TagWord
<1>6. toTpm' \in Seq(PieceRec)
  BY <1>1, <1>3, <1>4
<1> DEFINE frame == AnswerFrame(c, n, val)
<1>7. /\ frame \in Seq(WordRec) /\ Len(frame) = n + 2
      /\ IsFrame(frame, c, n)
  <2>1. \A d \in Nat :
          /\ AnswerFrame(d, n, val) \in Seq(WordRec)
          /\ Len(AnswerFrame(d, n, val)) = n + 2
          /\ IsFrame(AnswerFrame(d, n, val), d, n)
    BY <1>5, AnswerFacts
  <2> HIDE DEF c
  <2>2. QED BY <1>4, <2>1
<1>8. toClient' \in Seq(WordRec)
  <2> HIDE DEF frame
  <2>1. toClient' = toClient \o frame
    BY <1>2 DEF frame
  <2>2. QED BY <1>3, <1>7, <2>1
<1>9. WireType'
  BY <1>1, <1>6, <1>8 DEF WireInv, WireType
<1>10. Sound' = Sound /\ Call' = Call
  BY <1>1 DEF Sound, Call
<1>11. ASSUME Sound PROVE InStep'
  <2>1. pc = "size" /\ toTpm = Frame(Call, cmdLen) /\ toClient = <<>>
    BY <1>1, <1>11 DEF WireInv, WireType, InStep
  <2>2. Call \in Nat /\ cmdLen \in Nat
    BY DEF WireInv, WireType, Call
  <2>3. /\ Len(toTpm) = cmdLen + 1 /\ toTpm[1] = Piece(Call, cmdLen, 1 - 1)
        /\ Head(toTpm) = toTpm[1]
    <3>1. /\ Len(Frame(Call, cmdLen)) = cmdLen + 1
          /\ \A i \in 1 .. cmdLen + 1 : Frame(Call, cmdLen)[i] = Piece(Call, cmdLen, i - 1)
      BY <2>2, FrameFacts
    <3>2. 1 \in 1 .. cmdLen + 1
      BY <2>2
    <3>3. Head(toTpm) = toTpm[1]
      BY <1>1, <1>3
    <3>4. QED BY <2>1, <3>1, <3>2, <3>3
  <2>4. len = cmdLen /\ Head(toTpm).call = Call
    BY <2>3 DEF Piece
  <2>5. whole
    <3>1. SubSeq(toTpm, 1, cmdLen + 1) = toTpm
      BY <1>3, <2>2, <2>3
    <3>2. QED BY <2>1, <2>4, <3>1
  <2>6. c = Call
    BY <2>4, <2>5
  <2>7. toTpm' = <<>>
    BY <1>1, <1>3, <2>2, <2>3, <2>4
  <2>8. toClient' = frame
    <3>1. <<>> \o frame = frame
      BY <1>7, ConcatEmptySeq, Zenon
    <3>2. QED BY <1>2, <2>1, <3>1
  <2> HIDE DEF frame, c, whole, len
  <2>9. Ahead(n, 0)'
    <3>1. Len(toClient') <= n + 2 - 0
      BY <1>5, <1>7, <2>8
    <3>2. ASSUME NEW i \in 1 .. Len(toClient')
          PROVE  OfAnswer(toClient[i], n, 0 + i - 1)'
      <4>1. i \in 1 .. n + 2 /\ 0 + i - 1 = i - 1 /\ (i - 1 = 0 => i = 1)
        BY <1>5, <1>7, <2>8
      <4>2. QED BY <1>7, <1>10, <2>6, <2>8, <4>1 DEF OfAnswer, IsFrame
    <3>3. QED BY <3>1, <3>2 DEF Ahead
  <2>10. QED BY <1>1, <1>5, <2>1, <2>7, <2>9 DEF InStep
<1>12. UNCHANGED Exchange!vars
  BY <1>1, WithinStep
<1>13. QED BY <1>9, <1>10, <1>11, <1>12 DEF WireInv

LEMMA LoseStep ==
  ASSUME WireInv, LoseConnection
  PROVE  WireInv' /\ UNCHANGED Exchange!vars
<1>1. PICK m \in 0 .. Len(toClient) : toClient' = SubSeq(toClient, 1, m)
  BY DEF LoseConnection
<1>2. open' = FALSE /\ UNCHANGED <<pc, cmdLen, want, got, log, toTpm>>
  BY DEF LoseConnection, callVars
<1>3. toClient \in Seq(WordRec) /\ Len(toClient) \in Nat
  BY DEF WireInv, WireType
<1>4. /\ toClient' \in Seq(WordRec) /\ Len(toClient') = m
      /\ \A i \in 1 .. m : toClient'[i] = toClient[i]
  BY <1>1, <1>3
<1>5. WireType'
  BY <1>2, <1>4 DEF WireInv, WireType
<1>6. Sound' = Sound /\ Call' = Call
  BY <1>2 DEF Sound, Call
<1>7. ASSUME NEW n \in Nat, NEW k \in Nat, Ahead(n, k) PROVE Ahead(n, k)'
  <2>1. Len(toClient') <= n + 2 - k
    BY <1>1, <1>3, <1>4, <1>7 DEF Ahead
  <2>2. ASSUME NEW i \in 1 .. Len(toClient') PROVE OfAnswer(toClient[i], n, k + i - 1)'
    <3>1. i \in 1 .. Len(toClient) /\ toClient'[i] = toClient[i]
      BY <1>1, <1>3, <1>4
    <3>2. OfAnswer(toClient[i], n, k + i - 1)
      BY <1>7, <3>1 DEF Ahead
    <3>3. QED BY <1>6, <3>1, <3>2 DEF OfAnswer
  <2>3. QED BY <2>1, <2>2 DEF Ahead
<1>8. /\ toClient = <<>> => toClient' = <<>>
      /\ \A n \in Nat : n = want =>
           /\ Ahead(n, 1)' => Ahead(want, 1)'
           /\ Ahead(n, n + 1)' => Ahead(want, want + 1)'
  <2>1. toClient = <<>> => toClient' = <<>>
    BY <1>1, <1>3, <1>4
  <2>2. QED BY <1>2, <2>1 DEF Ahead, OfAnswer
<1>9. ASSUME Sound PROVE InStep'
  <2>1. InStep /\ want \in Nat
    BY <1>9 DEF WireInv, WireType
  <2>2. pc = "body" => Ahead(want, 1)'
    <3>1. pc = "body" => Ahead(want, 1)
      BY <2>1 DEF InStep
    <3>2. QED BY <1>7, <1>8, <2>1, <3>1
  <2>3. pc = "trailer" => Ahead(want, want + 1)'
    <3>1. pc = "trailer" => Ahead(want, want + 1)
      BY <2>1 DEF InStep
    <3>2. want + 1 \in Nat
      BY <2>1
    <3>3. QED BY <1>7, <1>8, <2>1, <3>1, <3>2
  <2>4. pc = "size" =>
          \/ toTpm' = Frame(Call, cmdLen)' /\ toClient' = <<>>
          \/ toTpm' = <<>> /\ \E n \in Nat \ {0} : Ahead(n, 0)'
    BY <1>2, <1>6, <1>7, <1>8, <2>1 DEF InStep, Frame, Piece
  <2>5. pc = "trailer" => \A i \in 1 .. want : OfAnswer(got[i], want, i)'
    BY <1>2, <1>6, <2>1 DEF InStep, OfAnswer
  <2>6. QED BY <1>2, <1>8, <2>1, <2>2, <2>3, <2>4, <2>5 DEF InStep
<1>10. UNCHANGED Exchange!vars
  BY <1>2, WithinStep
<1>11. QED BY <1>5, <1>6, <1>9, <1>10 DEF WireInv

\* A new connection, or none any more.
LEMMA RenewStep ==
  ASSUME WireInv, pc = "idle", UNCHANGED callVars, open' \in BOOLEAN,
         log' = <<>>, toTpm' = <<>>, toClient' = <<>>
  PROVE  WireInv' /\ Exchange!Next
<1>1. UNCHANGED <<pc, cmdLen, want, got>>
  BY DEF callVars
<1>2. Sound' = TRUE
  BY DEF Sound
<1>3. Phase = "idle" /\ Phase' = Phase /\ Outcome' = Outcome
  BY <1>1 DEF Phase, Outcome
<1>4. Exchange!Next
  BY <1>2, <1>3 DEF Exchange!Next, Exchange!Renew
<1>5. WireInv'
  BY <1>1 DEF WireInv, WireType, InStep
<1>6. QED BY <1>4, <1>5

LEMMA IdleStep ==
  ASSUME WireInv, UNCHANGED transportVars
  PROVE  WireInv' /\ UNCHANGED Exchange!vars
<1>1. UNCHANGED <<pc, cmdLen, want, got, log, toTpm, toClient, open>>
  BY DEF transportVars, callVars, streams
<1>2. WireType' /\ Sound' = Sound /\ UNCHANGED <<Call, Frame(Call, cmdLen)>>
  BY <1>1 DEF WireInv, WireType, Sound, Call, Frame, Piece
<1>3. InStep => InStep'
  BY <1>1, <1>2 DEF InStep, Ahead, OfAnswer
<1>4. QED BY <1>1, <1>2, <1>3, WithinStep DEF WireInv
-----------------------------------------------------------------------------
(* An answer that did not fit.                                             *)

\* Of the answer the client waits for, the tag is next but one.
TagComes ==
  pc = "size" /\ toClient # <<>> =>
    IF Len(toClient) = 1 THEN ~open ELSE toClient[2].val = TagWord

\* A tag is what the client would read as a size, or there is nothing to come.
TagNext == IF toClient = <<>> THEN ~open ELSE toClient[1].val = TagWord

\* The last call was the first to fail, with an answer that did not fit.
JustOverlong ==
  /\ Len(log) # 0 /\ log[Len(log)] = "overlong"
  /\ \A i \in 1 .. Len(log) - 1 : log[i] = "ok"

OverlongInv ==
  /\ Sound => TagComes
  /\ JustOverlong => pc \notin {"body", "trailer"} /\ TagNext
  /\ OverlongNotMistaken

\* A call ends: with ok only where its trailer was read.
LEMMA EndingKeeps ==
  ASSUME WireType, OverlongInv, NEW k \in Endings, Return(k),
         k = "ok" => pc = "trailer",
         k = "overlong" /\ Sound => TagNext'
  PROVE  OverlongInv'
<1> DEFINE n == Len(log)
<1>1. pc' = "returned" /\ log \in Seq(Endings) /\ n \in Nat
  BY DEF Return, WireType
<1>2. /\ Len(log') = n + 1 /\ log'[n + 1] = k
      /\ \A i \in 1 .. n : log'[i] = log[i]
  <2>1. log' = Append(log, k)
    BY DEF Return
  <2>2. /\ Len(Append(log, k)) = Len(log) + 1
        /\ \A i \in 1 .. Len(log) : Append(log, k)[i] = log[i]
        /\ Append(log, k)[Len(log) + 1] = k
    BY <1>1, AppendProperties
  <2>3. QED BY <2>1, <2>2, Zenon
<1>3. DOMAIN log = 1 .. n
  BY <1>1
<1> HIDE DEF n
<1>4. TagComes'
  BY <1>1 DEF TagComes
<1>5. ASSUME JustOverlong' PROVE TagNext'
  <2>1. log'[n + 1] = "overlong" /\ \A i \in 1 .. n : log'[i] = "ok"
    BY <1>1, <1>2, <1>5 DEF JustOverlong
  <2>2. k = "overlong" /\ \A i \in 1 .. n : log[i] = "ok"
    BY <1>2, <2>1
  <2>3. Sound
    BY <1>3, <2>2 DEF Sound
  <2>4. QED BY <2>2, <2>3
<1>6. OverlongNotMistaken'
  <2> SUFFICES ASSUME NEW i \in 1 .. n, log'[i] = "overlong",
                      \A j \in 1 .. i - 1 : log'[j] = "ok"
               PROVE  log'[i + 1] # "ok"
    BY <1>1, <1>2 DEF OverlongNotMistaken
  <2>1. log[i] = "overlong" /\ \A j \in 1 .. i - 1 : log[j] = "ok"
    BY <1>1, <1>2
  <2>2. CASE i = n
    <3>1. JustOverlong
      BY <1>1, <2>1, <2>2 DEF JustOverlong, n
    <3>2. k # "ok"
      BY <3>1 DEF OverlongInv
    <3>3. QED BY <1>2, <2>2, <3>2
  <2>3. CASE i # n
    <3>1. i \in 1 .. Len(log) - 1 /\ i + 1 \in 1 .. n
      BY <1>1, <2>3 DEF n
    <3>2. log[i + 1] # "ok"
      BY <2>1, <3>1 DEF OverlongInv, OverlongNotMistaken
    <3>3. QED BY <1>2, <3>1, <3>2
  <2>4. QED BY <2>2, <2>3
<1>7. QED BY <1>1, <1>4, <1>5, <1>6 DEF OverlongInv

\* A step that ends no call has to keep what is said of the streams.
LEMMA WithinKeeps ==
  ASSUME OverlongInv, UNCHANGED log, Sound => TagComes',
         JustOverlong => pc' \notin {"body", "trailer"} /\ TagNext'
  PROVE  OverlongInv'
BY DEF OverlongInv, Sound, JustOverlong, OverlongNotMistaken

\* What the simulator adds to the stream: a whole answer, with its tag.
LEMMA ServeAdds ==
  ASSUME WireInv, Serve
  PROVE  /\ open /\ UNCHANGED <<pc, log, open>>
         /\ Sound => toClient = <<>>
         /\ \E frame \in Seq(WordRec) :
              /\ Len(frame) >= 3 /\ frame[2].val = TagWord
              /\ toClient' = toClient \o frame
<1> DEFINE len == Head(toTpm).len
           whole == SubSeq(toTpm, 1, len + 1) = Frame(Head(toTpm).call, len)
           c == IF whole THEN Head(toTpm).call ELSE 0
<1>1. open /\ toTpm # <<>> /\ UNCHANGED <<pc, log, open>>
  BY DEF Serve, callVars
<1>2. PICK n \in AnswerSizes, val \in Words :
        toClient' = toClient \o AnswerFrame(c, n, val)
  BY DEF Serve
<1>3. c \in Nat
  <2>1. Head(toTpm) \in PieceRec
    BY <1>1 DEF WireInv, WireType
  <2>2. QED BY <2>1 DEF PieceRec
<1>4. n \in Nat \ {0} /\ val \in Nat
  BY TransportAssumption DEF TagWord
<1> HIDE DEF c
<1> DEFINE frame == AnswerFrame(c, n, val)
<1>5. frame \in Seq(WordRec) /\ Len(frame) = n + 2 /\ frame[2].val = TagWord
  BY <1>3, <1>4, AnswerFacts
<1>6. toClient' = toClient \o frame
  BY <1>2
<1> HIDE DEF frame
<1>7. Len(frame) >= 3
  BY <1>4, <1>5
<1>8. Sound => toClient = <<>>
  BY <1>1 DEF WireInv, WireType, InStep
<1>9. QED BY <1>1, <1>5, <1>6, <1>7, <1>8

LEMMA ServeOverlong ==
  ASSUME WireInv, OverlongInv, Serve
  PROVE  OverlongInv'
<1>1. open /\ UNCHANGED <<pc, log, open>> /\ (Sound => toClient = <<>>)
  BY ServeAdds
<1>2. PICK frame \in Seq(WordRec) :
        /\ Len(frame) >= 3 /\ frame[2].val = TagWord
        /\ toClient' = toClient \o frame
  BY ServeAdds
<1>3. toClient \in Seq(WordRec)
  BY DEF WireInv, WireType
<1>4. ASSUME Sound PROVE TagComes'
  <2>1. toClient' = frame
    BY <1>1, <1>2, <1>4, ConcatEmptySeq
  <2>2. QED BY <1>2, <2>1 DEF TagComes
<1>5. ASSUME JustOverlong PROVE TagNext'
  <2>1. toClient # <<>> /\ toClient[1].val = TagWord
    BY <1>1, <1>5 DEF OverlongInv, TagNext
  <2>2. /\ Len(toClient \o frame) = Len(toClient) + Len(frame)
        /\ \A i \in 1 .. Len(toClient) : (toClient \o frame)[i] = toClient[i]
    BY <1>3, ConcatProperties
  <2>3. Len(toClient) \in Nat /\ Len(toClient) >= 1
    BY <1>3, <2>1
  <2>4. toClient'[1] = toClient[1] /\ toClient' # <<>>
    BY <1>2, <2>2, <2>3
  <2>5. QED BY <2>1, <2>4 DEF TagNext
<1>6. QED BY <1>1, <1>4, <1>5, WithinKeeps DEF OverlongInv

LEMMA LoseOverlong ==
  ASSUME WireInv, OverlongInv, LoseConnection
  PROVE  OverlongInv'
<1>1. PICK m \in 0 .. Len(toClient) : toClient' = SubSeq(toClient, 1, m)
  BY DEF LoseConnection
<1>2. open' = FALSE /\ UNCHANGED <<pc, log>>
  BY DEF LoseConnection, callVars
<1>3. toClient \in Seq(WordRec) /\ Len(toClient) \in Nat
  BY DEF WireInv, WireType
<1>4. /\ toClient' \in Seq(WordRec) /\ Len(toClient') = m
      /\ \A i \in 1 .. m : toClient'[i] = toClient[i]
  BY <1>1, <1>3
<1>5. TagComes => TagComes'
  BY <1>2, <1>3, <1>4 DEF TagComes
<1>6. TagNext => TagNext'
  BY <1>2, <1>3, <1>4 DEF TagNext
<1>7. QED BY <1>2, <1>5, <1>6, WithinKeeps DEF OverlongInv

LEMMA ReadSizeOverlong ==
  ASSUME WireInv, OverlongInv, ReadSize
  PROVE  OverlongInv'
<1>1. /\ pc = "size" /\ toClient # <<>> /\ toClient' = Tail(toClient)
      /\ UNCHANGED open
  BY DEF ReadSize
<1>2. /\ toClient \in Seq(WordRec) /\ Len(toClient) \in Nat \ {0}
      /\ Head(toClient) = toClient[1]
      /\ Len(Tail(toClient)) = Len(toClient) - 1
      /\ \A i \in 1 .. Len(toClient) - 1 : Tail(toClient)[i] = toClient[i + 1]
  BY <1>1 DEF WireInv, WireType
<1>3. CASE Head(toClient).val > RespRoom
  <2>1. Return("overlong") /\ "overlong" \in Endings
    BY <1>3 DEF ReadSize, Endings
  <2>2. ASSUME Sound PROVE TagNext'
    <3>1. IF Len(toClient) = 1 THEN ~open ELSE toClient[2].val = TagWord
      BY <1>1, <2>2 DEF OverlongInv, TagComes
    <3>2. CASE Len(toClient) = 1
      BY <1>1, <1>2, <3>1, <3>2 DEF TagNext
    <3>3. CASE Len(toClient) # 1
      <4>1. 1 \in 1 .. Len(toClient) - 1 /\ Len(toClient') # 0
        BY <1>1, <1>2, <3>3
      <4>2. toClient'[1] = toClient[2]
        BY <1>1, <1>2, <4>1
      <4>3. toClient' # <<>>
        BY <4>1
      <4>4. QED BY <3>1, <3>3, <4>2, <4>3 DEF TagNext
    <3>4. QED BY <3>2, <3>3
  <2>3. QED BY <2>1, <2>2, EndingKeeps DEF WireInv
<1>4. CASE ~(Head(toClient).val > RespRoom)
  <2>1. pc' = "body" /\ UNCHANGED log
    BY <1>4 DEF ReadSize
  <2>2. TagWord > RespRoom
    BY TransportAssumption DEF TagWord
  <2>3. ~JustOverlong
    BY <1>1, <1>2, <1>4, <2>2 DEF OverlongInv, TagNext
  <2>4. QED BY <2>1, <2>3, WithinKeeps DEF TagComes
<1>5. QED BY <1>3, <1>4

LEMMA WriteOverlong ==
  ASSUME WireInv, OverlongInv, Write
  PROVE  OverlongInv'
<1>1. pc = "write" /\ UNCHANGED <<toClient, open>>
      /\ (Return("cut") \/ (pc' = "size" /\ UNCHANGED log))
  BY DEF Write
<1>2. CASE Return("cut")
  BY <1>2, EndingKeeps DEF WireInv, Endings
<1>3. CASE pc' = "size" /\ UNCHANGED log
  <2>1. Sound => TagComes'
    BY <1>1 DEF WireInv, InStep, TagComes
  <2>2. JustOverlong => TagNext'
    BY <1>1 DEF OverlongInv, TagNext
  <2>3. QED BY <1>3, <2>1, <2>2, WithinKeeps
<1>4. QED BY <1>1, <1>2, <1>3

\* The other steps of the client.
LEMMA ClientOverlong ==
  ASSUME WireInv, OverlongInv, Ask \/ ReadBody \/ ReadTrailer \/ ReadFails \/ Collect
  PROVE  OverlongInv'
<1>1. CASE Ask \/ Collect
  <2>1. pc' \in {"write", "idle"} /\ UNCHANGED <<log, toClient, open>>
    BY <1>1 DEF Ask, Collect, streams
  <2>2. TagComes' /\ (JustOverlong => TagNext')
    BY <2>1 DEF OverlongInv, TagComes, TagNext
  <2>3. QED BY <2>1, <2>2, WithinKeeps
<1>2. CASE ReadBody
  <2>1. pc = "body" /\ pc' = "trailer" /\ UNCHANGED log
    BY <1>2 DEF ReadBody
  <2>2. ~JustOverlong /\ TagComes'
    BY <2>1 DEF OverlongInv, TagComes
  <2>3. QED BY <2>1, <2>2, WithinKeeps
<1>3. CASE ReadTrailer
  <2>1. PICK k \in {"ok", "trailer"} : pc = "trailer" /\ Return(k)
    BY <1>3 DEF ReadTrailer
  <2>2. QED BY <2>1, EndingKeeps DEF WireInv, Endings
<1>4. CASE ReadFails
  BY <1>4, EndingKeeps DEF ReadFails, WireInv, Endings
<1>5. QED BY <1>1, <1>2, <1>3, <1>4

-----------------------------------------------------------------------------
(* How many calls, and how long what they send and get.                    *)

BoundedPiece == {p \in PieceRec : p.call \in 1 .. MaxCalls /\ p.at <= p.len}
BoundedWord == {w \in WordRec : w.call \in 0 .. MaxCalls}

Bounded ==
  /\ Len(log) <= MaxCalls /\ (pc \in Running => Len(log) < MaxCalls)
  /\ cmdLen \in CmdLens \cup {0}
  /\ toTpm \in Seq(BoundedPiece) /\ toClient \in Seq(BoundedWord)
  /\ open \in BOOLEAN
  /\ want \in 0 .. RespRoom /\ Len(got) <= RespRoom

LEMMA BoundedFrame ==
  ASSUME NEW c \in 1 .. MaxCalls, NEW len \in Nat
  PROVE  Frame(c, len) \in Seq(BoundedPiece) /\ Len(Frame(c, len)) = len + 1
<1>1. \A i \in 1 .. len + 1 : Piece(c, len, i - 1) \in BoundedPiece
  BY TransportAssumption DEF Piece, PieceRec, BoundedPiece
<1>2. len + 1 \in Nat
  OBVIOUS
<1>3. QED BY <1>1, <1>2 DEF Frame

LEMMA BoundedAnswer ==
  ASSUME NEW c \in 0 .. MaxCalls, NEW n \in Nat \ {0}, NEW val \in Nat
  PROVE  AnswerFrame(c, n, val) \in Seq(BoundedWord)
<1> DEFINE frame == AnswerFrame(c, n, val)
<1>1. frame \in Seq(WordRec) /\ Len(frame) = n + 2 /\ IsFrame(frame, c, n)
  BY TransportAssumption, AnswerFacts
<1> HIDE DEF frame
<1>2. ASSUME NEW i \in 1 .. Len(frame) PROVE frame[i] \in BoundedWord
  <2>1. frame[i] \in WordRec /\ frame[i].call = c
    BY <1>1, ElementOfSeq DEF IsFrame
  <2>2. QED BY <2>1 DEF BoundedWord
<1>3. frame \in Seq(BoundedWord)
  BY <1>1, <1>2
<1>4. QED BY <1>3 DEF frame

\* A call ends: there is one more in the log.
LEMMA EndingBounded ==
  ASSUME WireType, Bounded, pc \in Running, NEW k \in Endings, Return(k),
         toTpm' \in Seq(BoundedPiece), toClient' \in Seq(BoundedWord),
         UNCHANGED <<cmdLen, want, got, open>>
  PROVE  Bounded'
<1>1. pc' = "returned" /\ log' = Append(log, k) /\ log \in Seq(Endings)
  BY DEF Return, WireType
<1>2. Len(log') = Len(log) + 1 /\ Len(log) \in Nat
  BY <1>1, OneMoreEnding
<1>3. Len(log') <= MaxCalls
  BY <1>2, TransportAssumption DEF Bounded
<1>4. QED BY <1>1, <1>3 DEF Bounded, Running

LEMMA WriteBounded ==
  ASSUME WireInv, Bounded, Write
  PROVE  Bounded'
<1>1. PICK k \in 0 .. cmdLen + 1 :
        /\ toTpm' = toTpm \o SubSeq(Frame(Call, cmdLen), 1, k)
        /\ Return("cut") \/ (pc' = "size" /\ UNCHANGED log)
  BY DEF Write
<1>2. pc = "write" /\ UNCHANGED <<cmdLen, want, got, toClient, open>>
  BY DEF Write
<1>3. Call \in 1 .. MaxCalls /\ cmdLen \in Nat
  BY <1>2, TransportAssumption DEF WireInv, WireType, Bounded, Running, Call
<1>4. Frame(Call, cmdLen) \in Seq(BoundedPiece) /\ Len(Frame(Call, cmdLen)) = cmdLen + 1
  BY <1>3, BoundedFrame
<1> DEFINE part == SubSeq(Frame(Call, cmdLen), 1, k)
<1>5. part \in Seq(BoundedPiece)
  <2> DEFINE frame == Frame(Call, cmdLen)
  <2>1. frame \in Seq(BoundedPiece) /\ k \in Nat /\ k <= Len(frame)
    BY <1>3, <1>4
  <2> HIDE DEF frame
  <2>2. SubSeq(frame, 1, k) \in Seq(BoundedPiece)
    BY <2>1
  <2>3. QED BY <2>2 DEF frame
<1>6. toTpm' = toTpm \o part
  BY <1>1
<1> HIDE DEF part
<1>7. toTpm' \in Seq(BoundedPiece)
  BY <1>5, <1>6 DEF Bounded
<1>8. CASE Return("cut")
  BY <1>2, <1>7, <1>8, EndingBounded
  DEF WireInv, Running, Endings, Bounded
<1>9. CASE pc' = "size" /\ UNCHANGED log
  BY <1>2, <1>7, <1>9 DEF Bounded, Running
<1>10. QED BY <1>1, <1>8, <1>9

LEMMA ReadingBounded ==
  ASSUME WireInv, Bounded, ReadSize \/ ReadBody \/ ReadTrailer \/ ReadFails
  PROVE  Bounded'
<1>1. /\ toClient \in Seq(BoundedWord) /\ Len(toClient) \in Nat
      /\ toTpm \in Seq(BoundedPiece) /\ WireType
      /\ want \in Nat /\ want <= RespRoom /\ RespRoom \in Nat
  BY TransportAssumption DEF Bounded, WireInv
<1>2. CASE ReadSize
  <2>1. /\ pc = "size" /\ toClient # <<>> /\ toClient' = Tail(toClient)
        /\ UNCHANGED <<cmdLen, got, toTpm, open>>
    BY <1>2 DEF ReadSize
  <2>2. Tail(toClient) \in Seq(BoundedWord) /\ Head(toClient) \in BoundedWord
    BY <1>1, <2>1
  <2>3. Head(toClient).val \in Nat
    BY <2>2 DEF BoundedWord, WordRec
  <2>4. CASE Return("overlong") /\ UNCHANGED want
    BY <1>1, <2>1, <2>2, <2>4, EndingBounded DEF Running, Endings
  <2>5. CASE /\ ~(Head(toClient).val > RespRoom)
             /\ pc' = "body" /\ want' = Head(toClient).val /\ UNCHANGED log
    <3>1. want' \in 0 .. RespRoom
      BY <1>1, <2>3, <2>5
    <3>2. QED BY <2>1, <2>2, <2>5, <3>1 DEF Bounded, Running
  <2>6. QED BY <1>2, <2>4, <2>5 DEF ReadSize
<1>3. CASE ReadBody
  <2>1. /\ pc = "body" /\ pc' = "trailer" /\ Len(toClient) >= want
        /\ got' = SubSeq(toClient, 1, want)
        /\ toClient' = SubSeq(toClient, want + 1, Len(toClient))
        /\ UNCHANGED <<log, cmdLen, want, toTpm, open>>
    BY <1>3 DEF ReadBody
  <2>2. Len(got') = want /\ toClient' \in Seq(BoundedWord)
    BY <1>1, <2>1
  <2>3. QED BY <1>1, <2>1, <2>2 DEF Bounded, Running
<1>4. CASE ReadTrailer
  <2>1. /\ pc = "trailer" /\ toClient # <<>> /\ toClient' = Tail(toClient)
        /\ UNCHANGED <<cmdLen, want, got, toTpm, open>>
    BY <1>4 DEF ReadTrailer
  <2>2. Tail(toClient) \in Seq(BoundedWord)
    BY <1>1, <2>1
  <2>3. PICK k \in {"ok", "trailer"} : Return(k)
    BY <1>4 DEF ReadTrailer
  <2>4. QED BY <1>1, <2>1, <2>2, <2>3, EndingBounded DEF Running, Endings
<1>5. CASE ReadFails
  <2>1. /\ pc \in {"size", "body", "trailer"} /\ Return("closed")
        /\ toClient' = <<>> /\ UNCHANGED <<cmdLen, want, got, toTpm, open>>
    BY <1>5 DEF ReadFails
  <2>2. <<>> \in Seq(BoundedWord)
    BY EmptySeq
  <2>3. QED BY <1>1, <2>1, <2>2, EndingBounded DEF Running, Endings
<1>6. QED BY <1>2, <1>3, <1>4, <1>5

LEMMA ServeBounded ==
  ASSUME WireInv, Bounded, Serve
  PROVE  Bounded'
<1> DEFINE len == Head(toTpm).len
           whole == SubSeq(toTpm, 1, len + 1) = Frame(Head(toTpm).call, len)
           c == IF whole THEN Head(toTpm).call ELSE 0
<1>1. /\ toTpm # <<>> /\ Len(toTpm) > len
      /\ toTpm' = SubSeq(toTpm, len + 2, Len(toTpm))
      /\ UNCHANGED <<pc, cmdLen, want, got, log, open>>
  BY DEF Serve, callVars
<1>2. PICK n \in AnswerSizes, val \in Words :
        toClient' = toClient \o AnswerFrame(c, n, val)
  BY DEF Serve
<1>3. /\ toTpm \in Seq(BoundedPiece) /\ toClient \in Seq(BoundedWord)
      /\ Head(toTpm) \in BoundedPiece /\ Len(toTpm) \in Nat
  BY <1>1 DEF Bounded
<1>4. len \in Nat /\ c \in 0 .. MaxCalls
  BY <1>3, TransportAssumption DEF BoundedPiece, PieceRec
<1> HIDE DEF len, c
<1>5. toTpm' \in Seq(BoundedPiece)
  BY <1>1, <1>3, <1>4
<1>6. n \in Nat \ {0} /\ val \in Nat
  BY TransportAssumption DEF TagWord
<1> DEFINE frame == AnswerFrame(c, n, val)
<1>7. frame \in Seq(BoundedWord) /\ toClient' = toClient \o frame
  BY <1>2, <1>4, <1>6, BoundedAnswer
<1> HIDE DEF frame
<1>8. toClient' \in Seq(BoundedWord)
  BY <1>3, <1>7
<1>9. QED BY <1>1, <1>5, <1>8 DEF Bounded, Running

\* The other steps of the connection.
LEMMA ConnectionBounded ==
  ASSUME WireInv, Bounded,
         Ask \/ Collect \/ LoseConnection \/ UNCHANGED transportVars
  PROVE  Bounded'
<1>1. CASE Ask
  BY <1>1 DEF Ask, streams, Bounded
<1>2. CASE Collect
  <2>1. Len(<<>>) = 0 /\ RespRoom \in Nat
    BY TransportAssumption
  <2>2. QED BY <1>2, <2>1 DEF Collect, streams, Bounded, Running
<1>3. CASE LoseConnection
  <2>1. PICK m \in 0 .. Len(toClient) : toClient' = SubSeq(toClient, 1, m)
    BY <1>3 DEF LoseConnection
  <2>2. open' = FALSE /\ UNCHANGED <<pc, cmdLen, want, got, log, toTpm>>
    BY <1>3 DEF LoseConnection, callVars
  <2>3. toClient' \in Seq(BoundedWord)
    BY <2>1 DEF Bounded
  <2>4. QED BY <2>2, <2>3 DEF Bounded, Running
<1>4. CASE UNCHANGED transportVars
  BY <1>4 DEF transportVars, callVars, streams, Bounded, Running
<1>5. QED BY <1>1, <1>2, <1>3, <1>4

\* A connection that is made anew, or was never made, is empty.
LEMMA EmptyBounded ==
  /\ Len(<<>>) <= MaxCalls /\ 0 \in 0 .. RespRoom /\ Len(<<>>) <= RespRoom
  /\ <<>> \in Seq(BoundedPiece) /\ <<>> \in Seq(BoundedWord)
BY TransportAssumption, EmptySeq

LEMMA BoundedTypes ==
  ASSUME WireInv, Bounded
  PROVE  TransportTypeOK
<1>1. ASSUME NEW i \in DOMAIN toTpm
      PROVE  toTpm[i].call \in 1 .. MaxCalls /\ toTpm[i].at \in 0 .. toTpm[i].len
  <2>1. toTpm \in Seq(BoundedPiece) /\ DOMAIN toTpm = 1 .. Len(toTpm)
    BY DEF Bounded
  <2>2. toTpm[i] \in BoundedPiece
    BY <2>1, ElementOfSeq
  <2>3. QED BY <2>2 DEF BoundedPiece, PieceRec
<1>2. ASSUME NEW i \in DOMAIN toClient
      PROVE  toClient[i].call \in 0 .. MaxCalls
  <2>1. toClient \in Seq(BoundedWord) /\ DOMAIN toClient = 1 .. Len(toClient)
    BY DEF Bounded
  <2>2. toClient[i] \in BoundedWord
    BY <2>1, ElementOfSeq
  <2>3. QED BY <2>2 DEF BoundedWord
<1>3. QED
  BY <1>1, <1>2 DEF TransportTypeOK, WireInv, WireType, Bounded

-----------------------------------------------------------------------------
(* Theorems.                                                               *)

LEMMA WireStep ==
  ASSUME WireInv, [SimulatorNext]_simulatorVars
  PROVE  WireInv' /\ [Exchange!Next]_(Exchange!vars)
<1>1. CASE Commands
  BY <1>1, AskStep, WriteStep, ReadSizeStep, ReadBodyStep, ReadTrailerStep,
     ReadFailsStep, CollectStep, ServeStep, LoseStep
     DEF Commands, Transact, HangUp
<1>2. CASE UNCHANGED transportVars
  BY <1>2, IdleStep
<1>3. CASE LoseConnection
  BY <1>3, LoseStep
<1>4. CASE Connect
  BY <1>4, RenewStep DEF Connect
<1>5. CASE EndTest
  BY <1>5, RenewStep DEF EndTest
<1>6. SimulatorStarts \/ SimulatorExits \/ PreviousIsGone \/ Spawn \/ Run
        => UNCHANGED transportVars \/ LoseConnection \/ Connect
  BY DEF SimulatorStarts, SimulatorExits, PreviousIsGone, Spawn, Run, Wake,
         ConnectPlatform, SignalAnswered, SignalFails, ConnectTpm
<1>7. UNCHANGED simulatorVars => UNCHANGED transportVars
  BY DEF simulatorVars
<1>8. QED BY <1>1, <1>2, <1>3, <1>4, <1>5, <1>6, <1>7 DEF SimulatorNext

LEMMA OverlongStep ==
  ASSUME WireInv, OverlongInv, [SimulatorNext]_simulatorVars
  PROVE  OverlongInv'
<1>1. CASE Commands
  BY <1>1, WriteOverlong, ReadSizeOverlong, ClientOverlong, ServeOverlong,
     LoseOverlong DEF Commands, Transact, HangUp
<1>2. CASE UNCHANGED transportVars
  <2>1. UNCHANGED <<pc, log, toClient, open>>
    BY <1>2 DEF transportVars, callVars, streams
  <2>2. QED BY <2>1, WithinKeeps DEF OverlongInv, TagComes, TagNext
<1>3. CASE LoseConnection
  BY <1>3, LoseOverlong
<1>4. CASE Connect \/ EndTest
  <2>1. log' = <<>> /\ toClient' = <<>>
    BY <1>4 DEF Connect, EndTest
  <2>2. Len(log') = 0
    BY <2>1
  <2>3. TagComes' /\ ~JustOverlong' /\ OverlongNotMistaken'
    BY <2>1, <2>2 DEF TagComes, JustOverlong, OverlongNotMistaken
  <2>4. QED BY <2>3 DEF OverlongInv
<1>5. SimulatorStarts \/ SimulatorExits \/ PreviousIsGone \/ Spawn \/ Run
        => UNCHANGED transportVars \/ LoseConnection \/ Connect
  BY DEF SimulatorStarts, SimulatorExits, PreviousIsGone, Spawn, Run, Wake,
         ConnectPlatform, SignalAnswered, SignalFails, ConnectTpm
<1>6. UNCHANGED simulatorVars => UNCHANGED transportVars
  BY DEF simulatorVars
<1>7. QED BY <1>1, <1>2, <1>3, <1>4, <1>5, <1>6 DEF SimulatorNext

LEMMA BoundedStep ==
  ASSUME WireInv, Bounded, [SimulatorNext]_simulatorVars
  PROVE  Bounded'
<1>1. CASE Commands
  BY <1>1, WriteBounded, ReadingBounded, ServeBounded, ConnectionBounded
     DEF Commands, Transact, HangUp
<1>2. CASE UNCHANGED transportVars \/ LoseConnection
  BY <1>2, ConnectionBounded
<1>3. CASE Connect \/ EndTest
  <2>1. /\ pc' = "idle" /\ UNCHANGED <<cmdLen, want, got>>
        /\ log' = <<>> /\ toTpm' = <<>> /\ toClient' = <<>> /\ open' \in BOOLEAN
    BY <1>3 DEF Connect, EndTest, callVars
  <2>2. QED BY <2>1, EmptyBounded DEF Bounded, Running
<1>4. SimulatorStarts \/ SimulatorExits \/ PreviousIsGone \/ Spawn \/ Run
        => UNCHANGED transportVars \/ LoseConnection \/ Connect
  BY DEF SimulatorStarts, SimulatorExits, PreviousIsGone, Spawn, Run, Wake,
         ConnectPlatform, SignalAnswered, SignalFails, ConnectTpm
<1>5. UNCHANGED simulatorVars => UNCHANGED transportVars
  BY DEF simulatorVars
<1>6. QED BY <1>1, <1>2, <1>3, <1>4, <1>5 DEF SimulatorNext

LEMMA WireStart == SimulatorInit => WireInv /\ Exchange!Init
<1> SUFFICES ASSUME TransportInit PROVE WireInv /\ Exchange!Init
  BY DEF SimulatorInit
<1>1. /\ pc = "idle" /\ cmdLen = 0 /\ want = 0 /\ got = <<>> /\ log = <<>>
      /\ toTpm = <<>> /\ toClient = <<>> /\ open = FALSE
  BY DEF TransportInit
<1>2. WireInv
  BY <1>1 DEF WireInv, WireType, InStep
<1>3. Phase = "idle" /\ Outcome = "none" /\ Sound = TRUE
  BY <1>1 DEF Phase, Outcome, Sound
<1>4. QED BY <1>2, <1>3 DEF Exchange!Init

\* On a connection on which no call has failed, the streams hold what is left
\* of the call being made and nothing else.
THEOREM StreamsInStep == SimulatorSpec => [](Sound => InStep)
<1>1. SimulatorInit => WireInv
  BY WireStart
<1>2. WireInv /\ [SimulatorNext]_simulatorVars => WireInv'
  BY WireStep
<1>3. WireInv => (Sound => InStep)
  BY DEF WireInv
<1>4. QED BY <1>1, <1>2, <1>3, PTL DEF SimulatorSpec

\* The transport implements the exchange, whatever the lengths of commands and
\* answers and however many calls are made on one connection.
THEOREM TransportIsExchange == SimulatorSpec => ImplementsExchange
<1>1. SimulatorInit => WireInv /\ Exchange!Init
  BY WireStart
<1>2. WireInv /\ [SimulatorNext]_simulatorVars
        => WireInv' /\ [Exchange!Next]_(Exchange!vars)
  BY WireStep
<1>3. QED BY <1>1, <1>2, PTL DEF SimulatorSpec, ImplementsExchange, Exchange!Spec

\* What TcpTpm::transact leaves in the stream of an answer larger than its
\* buffer is refused by the next call, whose size its tag is taken for.
THEOREM OverlongRefusedAgain == SimulatorSpec => []OverlongNotMistaken
<1>1. SimulatorInit => WireInv /\ OverlongInv
  <2>1. ASSUME SimulatorInit PROVE log = <<>> /\ toClient = <<>> /\ Len(log) = 0
    BY <2>1 DEF SimulatorInit, TransportInit
  <2>2. ASSUME SimulatorInit PROVE OverlongInv
    BY <2>1, <2>2
    DEF OverlongInv, TagComes, JustOverlong, OverlongNotMistaken
  <2>3. QED BY <2>2, WireStart
<1>2. WireInv /\ OverlongInv /\ [SimulatorNext]_simulatorVars
        => WireInv' /\ OverlongInv'
  BY WireStep, OverlongStep
<1>3. OverlongInv => OverlongNotMistaken
  BY DEF OverlongInv
<1>4. QED BY <1>1, <1>2, <1>3, PTL DEF SimulatorSpec

\* The connection and the call on it have their types, and no response outgrows
\* its buffer.
THEOREM TransportTyped == SimulatorSpec => []TransportTypeOK
<1>1. SimulatorInit => WireInv /\ Bounded
  <2>1. ASSUME SimulatorInit PROVE Bounded
    BY <2>1, EmptyBounded DEF SimulatorInit, TransportInit, Bounded, Running
  <2>2. QED BY <2>1, WireStart
<1>2. WireInv /\ Bounded /\ [SimulatorNext]_simulatorVars => WireInv' /\ Bounded'
  BY WireStep, BoundedStep
<1>3. WireInv /\ Bounded => TransportTypeOK
  BY BoundedTypes
<1>4. QED BY <1>1, <1>2, <1>3, PTL DEF SimulatorSpec
-----------------------------------------------------------------------------
(* The power-up, which the calls of a test leave as it is.                 *)

SignalNames == {"NvOff", "PowerOff", "PowerOn", "NvOn"}

\* The last k signals acted on are the first k of the sequence.
Trailing(k) ==
  /\ k <= Len(acted)
  /\ \A i \in 1 .. k : acted[Len(acted) - k + i] = Signals[i]

PowerType ==
  /\ acted \in Seq(SignalNames) /\ Len(acted) <= 4
  /\ signal \in 1 .. 4
  /\ prev \in {"gone", "dying"}

Connected == {"signal", "connect", "ready"}

\* A simulator listens once the one before is gone, and a connection made
\* while there was none but its own is to its own.
Alone ==
  /\ mine = "listening" => prev = "gone"
  /\ step \in Connected => peer \in {"mine", "prev"}
  /\ step \in Connected /\ peer = "mine" => prev = "gone"

\* Only its own simulator is counted, and the one before does not act.
SignalsInStep ==
  /\ step = "signal" /\ peer = "mine" => Trailing(signal - 1)
  /\ step \in {"connect", "ready"} => peer = "mine" /\ acted = Signals

PowerIInv == PowerType /\ Alone /\ SignalsInStep

LEMMA SignalsAre ==
  /\ Len(Signals) = 4 /\ Signals \in Seq(SignalNames)
  /\ \A i \in 1 .. 4 : Signals[i] \in SignalNames
BY DEF Signals, SignalNames

\* One signal more, behind the others.
LEMMA OneSignalMore ==
  ASSUME NEW sq \in Seq(SignalNames), NEW s \in SignalNames
  PROVE  /\ Append(sq, s) \in Seq(SignalNames)
         /\ Len(Append(sq, s)) = Len(sq) + 1
         /\ \A i \in 1 .. Len(sq) : Append(sq, s)[i] = sq[i]
         /\ Append(sq, s)[Len(sq) + 1] = s
BY AppendProperties

\* The last four of one to five.
LEMMA LastFour ==
  ASSUME NEW n \in 0 .. 4, NEW app \in Seq(SignalNames), Len(app) = n + 1
  PROVE  /\ LastOf(app, 4) \in Seq(SignalNames)
         /\ Len(LastOf(app, 4)) = IF n = 4 THEN 4 ELSE n + 1
         /\ \A i \in 1 .. Len(LastOf(app, 4)) :
              LastOf(app, 4)[i] = IF n = 4 THEN app[i + 1] ELSE app[i]
<1>1. \A i \in 1 .. n + 1 : app[i] \in SignalNames
  BY ElementOfSeq
<1>2. LastOf(app, 4) = SubSeq(app, (IF n + 1 > 4 THEN n + 1 - 4 ELSE 0) + 1, n + 1)
  <2>1. LastOf(app, 4) = SubSeq(app, (IF Len(app) > 4 THEN Len(app) - 4 ELSE 0) + 1,
                                Len(app))
    BY Zenon DEF LastOf
  <2>2. QED BY <2>1
<1>3. CASE n = 4
  <2>1. LastOf(app, 4) = SubSeq(app, 2, 5)
    BY <1>2, <1>3
  <2>2. /\ SubSeq(app, 2, 5) \in Seq(SignalNames) /\ Len(SubSeq(app, 2, 5)) = 4
        /\ \A i \in 1 .. 4 : SubSeq(app, 2, 5)[i] = app[2 + i - 1]
    <3>1. \A i \in 2 .. 5 : app[i] \in SignalNames
      BY <1>1, <1>3
    <3>2. QED BY <3>1, SubSeqProperties
  <2>3. \A i \in 1 .. 4 : 2 + i - 1 = i + 1
    OBVIOUS
  <2>4. QED BY <1>3, <2>1, <2>2, <2>3, Zenon
<1>4. CASE n # 4
  <2>1. LastOf(app, 4) = SubSeq(app, 1, n + 1)
    <3>1. (IF n + 1 > 4 THEN n + 1 - 4 ELSE 0) + 1 = 1
      BY <1>4
    <3>2. QED BY <1>2, <3>1, Zenon
  <2>2. /\ SubSeq(app, 1, n + 1) \in Seq(SignalNames)
        /\ Len(SubSeq(app, 1, n + 1)) = n + 1
        /\ \A i \in 1 .. n + 1 : SubSeq(app, 1, n + 1)[i] = app[i]
    BY <1>1, SubSeqProperties
  <2>3. QED BY <1>4, <2>1, <2>2, Zenon
<1>5. QED BY <1>3, <1>4

\* What is kept of the signals acted on, with one more, are the last four.
LEMMA ActedOn ==
  ASSUME PowerType, NEW s \in SignalNames,
         acted' = LastOf(Append(acted, s), Len(Signals))
  PROVE  /\ acted' \in Seq(SignalNames) /\ Len(acted') <= 4 /\ Len(acted') >= 1
         /\ Len(acted') <= Len(acted) + 1 /\ acted'[Len(acted')] = s
         /\ \A i \in 1 .. Len(acted') - 1 :
              acted'[Len(acted') - i] = acted[Len(acted) + 1 - i]
         /\ Len(acted') = IF Len(acted) = 4 THEN 4 ELSE Len(acted) + 1
<1> DEFINE app == Append(acted, s)
           n == Len(acted)
           m == Len(acted')
<1>1. /\ app \in Seq(SignalNames) /\ Len(app) = n + 1 /\ app[n + 1] = s
      /\ \A i \in 1 .. n : app[i] = acted[i]
      /\ acted' = LastOf(app, 4) /\ n \in 0 .. 4
  <2>1. acted \in Seq(SignalNames) /\ n <= 4 /\ Len(Signals) = 4
    BY SignalsAre, Zenon DEF PowerType
  <2>2. n \in 0 .. 4
    <3>1. Len(acted) \in Nat
      BY <2>1, LenProperties, Zenon
    <3> HIDE DEF n
    <3>2. n \in Nat
      BY <3>1, Zenon DEF n
    <3>3. QED BY ONLY <2>1, <3>2
  <2>3. QED BY <2>1, <2>2, OneSignalMore, Zenon
<1> HIDE DEF app, n
<1>2. /\ acted' \in Seq(SignalNames) /\ m = IF n = 4 THEN 4 ELSE n + 1
      /\ \A i \in 1 .. m : acted'[i] = IF n = 4 THEN app[i + 1] ELSE app[i]
  <2>1. /\ LastOf(app, 4) \in Seq(SignalNames)
        /\ Len(LastOf(app, 4)) = IF n = 4 THEN 4 ELSE n + 1
        /\ \A i \in 1 .. Len(LastOf(app, 4)) :
             LastOf(app, 4)[i] = IF n = 4 THEN app[i + 1] ELSE app[i]
    BY ONLY <1>1, LastFour
  <2>2. QED BY <1>1, <2>1, Zenon
<1> HIDE DEF m
<1>3. m \in 1 .. 4 /\ m <= n + 1
  BY ONLY <1>1, <1>2
<1>4. acted'[m] = s
  BY ONLY <1>1, <1>2, <1>3
<1>5. \A i \in 1 .. m - 1 : acted'[m - i] = acted[n + 1 - i]
  BY ONLY <1>1, <1>2, <1>3
<1>6. m <= 4 /\ m >= 1
  BY ONLY <1>3
<1>7. QED BY <1>2, <1>3, <1>4, <1>5, <1>6, Zenon DEF n, m

\* The next signal of the sequence makes what was in step one longer.
LEMMA OneMoreSignal ==
  ASSUME PowerType, NEW k \in 0 .. 3, Trailing(k),
         acted' = LastOf(Append(acted, Signals[k + 1]), Len(Signals))
  PROVE  Trailing(k + 1)'
<1> DEFINE n == Len(acted)
           m == Len(acted')
           s == Signals[k + 1]
<1>1. s \in SignalNames /\ n \in Nat /\ n <= 4
  BY SignalsAre DEF PowerType
<1>2. /\ m \in Nat /\ m <= n + 1 /\ m >= 1 /\ acted'[m] = s
      /\ \A i \in 1 .. m - 1 : acted'[m - i] = acted[n + 1 - i]
      /\ m = IF n = 4 THEN 4 ELSE n + 1
  BY <1>1, ActedOn
<1>3. k <= n /\ \A i \in 1 .. k : acted[n - k + i] = Signals[i]
  BY DEF Trailing
<1> HIDE DEF n, m
<1>4. k + 1 <= m
  BY <1>1, <1>2, <1>3
<1>5. ASSUME NEW i \in 1 .. k + 1
      PROVE  acted'[m - (k + 1) + i] = Signals[i]
  <2>1. CASE i = k + 1
    BY <1>2, <2>1
  <2>2. CASE i \in 1 .. k
    <3>1. k + 1 - i \in 1 .. m - 1
      BY <1>2, <1>4, <2>2
    <3>2. m - (k + 1 - i) = m - (k + 1) + i /\ n + 1 - (k + 1 - i) = n - k + i
      BY <1>1, <1>2, <2>2
    <3>3. acted'[m - (k + 1 - i)] = acted[n + 1 - (k + 1 - i)]
      BY <1>2, <3>1
    <3>4. QED BY <1>3, <2>2, <3>2, <3>3
  <2>3. QED BY <2>1, <2>2
<1>6. QED BY <1>4, <1>5 DEF Trailing, m

\* All four in step are the sequence.
LEMMA AllSignals ==
  ASSUME acted' \in Seq(SignalNames), Len(acted') <= 4, Trailing(4)'
  PROVE  acted' = Signals
<1> DEFINE n == Len(acted')
<1>1. n \in Nat /\ n <= 4 /\ 4 <= n
      /\ \A i \in 1 .. 4 : acted'[n - 4 + i] = Signals[i]
  BY DEF Trailing
<1> HIDE DEF n
<1>2. n = 4 /\ \A i \in 1 .. 4 : n - 4 + i = i
  BY <1>1
<1>3. \A i \in 1 .. n : acted'[i] = Signals[i]
  BY <1>1, <1>2
<1>4. Len(acted') = Len(Signals) /\ \A i \in 1 .. Len(acted') : acted'[i] = Signals[i]
  BY <1>2, <1>3, SignalsAre DEF n
<1>5. QED BY <1>4, SignalsAre, SeqEqual, Zenon

\* A failed attempt is repeated, or is the last: nothing stays connected.
LEMMA RetryParts ==
  ASSUME PowerIInv, Retry
  PROVE  /\ step' \in {"asleep", "off"} /\ prev' \in {"gone", "dying"}
         /\ mine' = "listening" => prev' = "gone"
BY DEF Retry, GiveUp, Kill, PowerIInv, PowerType, Alone

\* Only its own simulator, alone and alive, answers a signal.
LEMMA OwnAnswers ==
  ASSUME PowerIInv, step = "signal", Responsive
  PROVE  peer = "mine" /\ mine = "listening" /\ prev = "gone"
BY DEF Responsive, PowerIInv, PowerType, Alone

LEMMA SignalStep ==
  ASSUME PowerIInv, SignalAnswered
  PROVE  PowerIInv'
<1>1. /\ step = "signal" /\ Responsive /\ ActOn(Signals[signal])
      /\ IF signal = Len(Signals)
         THEN step' = "connect" /\ UNCHANGED signal
         ELSE signal' = signal + 1 /\ UNCHANGED step
      /\ UNCHANGED <<mine, prev, peer>>
  BY DEF SignalAnswered
<1>2. PowerType /\ signal \in 1 .. 4 /\ Trailing(signal - 1) /\ peer = "mine"
      /\ prev = "gone"
  BY <1>1, OwnAnswers DEF PowerIInv, PowerType, SignalsInStep
<1>3. acted' = LastOf(Append(acted, Signals[signal]), Len(Signals))
  BY <1>1, <1>2 DEF ActOn
<1>4. acted' \in Seq(SignalNames) /\ Len(acted') <= 4
  BY <1>2, <1>3, SignalsAre, ActedOn
<1>5. PICK k \in 0 .. 3 : k = signal - 1
  BY <1>2
<1>6. k + 1 = signal /\ Trailing(k)
  BY <1>2, <1>5
<1>7. Trailing(k + 1)'
  <2>1. acted' = LastOf(Append(acted, Signals[k + 1]), Len(Signals))
    BY <1>3, <1>6
  <2>2. QED BY <1>2, <1>6, <2>1, OneMoreSignal
<1>8. Alone'
  BY <1>1, <1>2, OwnAnswers DEF Alone, PowerIInv
<1>9. CASE signal = 4
  <2>1. step' = "connect" /\ signal' = 4
    BY <1>1, <1>9, SignalsAre
  <2>2. k + 1 = 4
    BY <1>6, <1>9
  <2>3. Trailing(4)'
    BY <1>7, <2>2, Zenon
  <2>4. acted' = Signals
    BY <1>4, <2>3, AllSignals
  <2>5. PowerType'
    BY <1>1, <1>2, <1>4, <2>1 DEF PowerType
  <2>6. QED BY <1>1, <1>2, <1>8, <2>1, <2>4, <2>5 DEF PowerIInv, SignalsInStep
<1>10. CASE signal # 4
  <2>1. step' = "signal" /\ signal' = signal + 1
    BY <1>1, <1>10, SignalsAre
  <2>2. signal' \in 1 .. 4 /\ k + 1 = signal' - 1
    BY <1>2, <1>6, <1>10, <2>1
  <2>3. PowerType'
    BY <1>1, <1>2, <1>4, <2>2 DEF PowerType
  <2>4. Trailing(signal - 1)'
    <3>1. k + 1 <= Len(acted')
          /\ \A i \in 1 .. k + 1 : acted'[Len(acted') - (k + 1) + i] = Signals[i]
      BY <1>7 DEF Trailing
    <3>2. QED BY <2>2, <3>1, Zenon DEF Trailing
  <2>5. QED BY <1>8, <2>1, <2>3, <2>4 DEF PowerIInv, SignalsInStep
<1>11. QED BY <1>9, <1>10

\* A signal may fail after the simulator has acted on it.
LEMMA FailStep ==
  ASSUME PowerIInv, SignalFails
  PROVE  PowerIInv'
<1>1. /\ step = "signal" /\ Retry /\ UNCHANGED <<signal, peer>>
      /\ acted' = acted \/ ActOn(Signals[signal])
  BY DEF SignalFails
<1>2. /\ step' \in {"asleep", "off"} /\ prev' \in {"gone", "dying"}
      /\ mine' = "listening" => prev' = "gone"
  BY <1>1, RetryParts
<1>3. PowerType /\ signal \in 1 .. 4 /\ Signals[signal] \in SignalNames
  BY SignalsAre DEF PowerIInv, PowerType
<1>4. acted' \in Seq(SignalNames) /\ Len(acted') <= 4
  <2>1. acted' = acted \/ acted' = LastOf(Append(acted, Signals[signal]), Len(Signals))
    BY <1>1 DEF ActOn
  <2>2. CASE acted' = acted
    BY <1>3, <2>2 DEF PowerType
  <2>3. CASE acted' = LastOf(Append(acted, Signals[signal]), Len(Signals))
    BY <1>3, <2>3, ActedOn
  <2>4. QED BY <2>1, <2>2, <2>3
<1>5. PowerType'
  BY <1>1, <1>2, <1>3, <1>4 DEF PowerType
<1>6. QED BY <1>2, <1>5 DEF PowerIInv, Alone, SignalsInStep, Connected

\* The steps that send no signal.
LEMMA QuietStep ==
  ASSUME PowerIInv, UNCHANGED acted, signal' = signal \/ signal' = 1,
         prev' \in {"gone", "dying"}
  PROVE  PowerType'
BY DEF PowerIInv, PowerType

LEMMA SimulatorsStep ==
  ASSUME PowerIInv, SimulatorStarts \/ SimulatorExits \/ PreviousIsGone
  PROVE  PowerIInv'
<1>1. /\ UNCHANGED <<step, signal, peer, acted>>
      /\ prev' = prev \/ prev' = "gone"
      /\ mine' = "listening" => mine = "listening" \/ prev = "gone"
  BY DEF SimulatorStarts, SimulatorExits, PreviousIsGone
<1>2. PowerType'
  BY <1>1, QuietStep DEF PowerIInv, PowerType
<1>3. Alone'
  BY <1>1 DEF PowerIInv, Alone
<1>4. SignalsInStep'
  BY <1>1 DEF PowerIInv, SignalsInStep, Trailing
<1>5. QED BY <1>2, <1>3, <1>4 DEF PowerIInv

LEMMA ConnectStep ==
  ASSUME PowerIInv, ConnectPlatform
  PROVE  PowerIInv'
<1>1. UNCHANGED acted /\ PowerType
  BY DEF ConnectPlatform, PowerIInv
<1>2. CASE /\ Owner # "nobody" /\ step' = "signal" /\ signal' = 1 /\ peer' = Owner
           /\ UNCHANGED <<mine, prev>>
  <2>1. PowerType'
    BY <1>1, <1>2, QuietStep DEF PowerType
  <2>2. Alone'
    BY <1>2 DEF PowerIInv, Alone, Owner
  <2>3. Trailing(signal - 1)'
    BY <1>2, <2>1 DEF Trailing, PowerType
  <2>4. QED BY <1>2, <2>1, <2>2, <2>3 DEF PowerIInv, SignalsInStep
<1>3. CASE Retry /\ UNCHANGED <<signal, peer>>
  <2>1. /\ step' \in {"asleep", "off"} /\ prev' \in {"gone", "dying"}
        /\ mine' = "listening" => prev' = "gone"
    BY <1>3, RetryParts
  <2>2. PowerType'
    BY <1>1, <1>3, <2>1, QuietStep
  <2>3. QED BY <2>1, <2>2 DEF PowerIInv, Alone, SignalsInStep, Connected
<1>4. QED BY <1>2, <1>3 DEF ConnectPlatform

\* A test gets its TPM, or ends, or never gets it.
LEMMA TestStep ==
  ASSUME PowerIInv, Wake \/ ConnectTpm \/ EndTest
  PROVE  PowerIInv'
<1>1. UNCHANGED <<signal, peer, acted>> /\ PowerType
  BY DEF Wake, ConnectTpm, EndTest, PowerIInv
<1>2. CASE Wake
  <2>1. step' = "attempt" /\ UNCHANGED <<mine, prev>>
    BY <1>2 DEF Wake
  <2>2. PowerType'
    BY <1>1, <2>1, QuietStep DEF PowerType
  <2>3. QED BY <2>1, <2>2 DEF PowerIInv, Alone, SignalsInStep, Connected
<1>3. CASE step = "connect" /\ step' = "ready" /\ UNCHANGED <<mine, prev>>
  <2>1. PowerType'
    BY <1>1, <1>3, QuietStep DEF PowerType
  <2>2. QED BY <1>1, <1>3, <2>1 DEF PowerIInv, Alone, SignalsInStep, Connected
<1>4. CASE step' = "off" /\ Kill
  <2>1. prev' \in {"gone", "dying"} /\ mine' = "none"
    BY <1>1, <1>4 DEF Kill, PowerType
  <2>2. PowerType'
    BY <1>1, <2>1, QuietStep
  <2>3. QED BY <1>4, <2>1, <2>2 DEF PowerIInv, Alone, SignalsInStep, Connected
<1>5. QED BY <1>2, <1>3, <1>4 DEF ConnectTpm, EndTest, GiveUp

LEMMA SpawnStep ==
  ASSUME PowerIInv, Spawn
  PROVE  PowerIInv'
<1>1. /\ step' = "attempt" /\ signal' = 1 /\ mine' = "starting" /\ acted' = <<>>
      /\ UNCHANGED prev
  BY DEF Spawn
<1>2. PowerType'
  BY <1>1, EmptySeq DEF PowerIInv, PowerType
<1>3. QED BY <1>1, <1>2 DEF PowerIInv, Alone, SignalsInStep, Connected

\* The commands of a test, and steps that change nothing.
LEMMA CommandsStep ==
  ASSUME PowerIInv, UNCHANGED powerVars
  PROVE  PowerIInv'
BY DEF powerVars, PowerIInv, PowerType, Alone, SignalsInStep, Trailing

LEMMA PowerInvariant == SimulatorSpec => []PowerIInv
<1>1. SimulatorInit => PowerIInv
  BY EmptySeq
  DEF SimulatorInit, PowerIInv, PowerType, Alone, SignalsInStep, Connected
<1>2. PowerIInv /\ [SimulatorNext]_simulatorVars => PowerIInv'
  <2> SUFFICES ASSUME PowerIInv, [SimulatorNext]_simulatorVars
               PROVE  PowerIInv'
    OBVIOUS
  <2>1. CASE SimulatorStarts \/ SimulatorExits \/ PreviousIsGone
    BY <2>1, SimulatorsStep
  <2>2. CASE Spawn
    BY <2>2, SpawnStep
  <2>3. CASE Wake \/ ConnectTpm \/ EndTest
    BY <2>3, TestStep
  <2>4. CASE ConnectPlatform
    BY <2>4, ConnectStep
  <2>5. CASE SignalAnswered
    BY <2>5, SignalStep
  <2>6. CASE SignalFails
    BY <2>6, FailStep
  <2>7. CASE Commands \/ UNCHANGED simulatorVars
    <3>1. UNCHANGED powerVars
      BY <2>7 DEF Commands, simulatorVars
    <3>2. QED BY <3>1, CommandsStep
  <2>8. QED
    BY <2>1, <2>2, <2>3, <2>4, <2>5, <2>6, <2>7 DEF SimulatorNext, Run
<1>3. QED BY <1>1, <1>2, PTL DEF SimulatorSpec

\* A TPM is handed to a test only after its simulator has gone through the
\* whole power-up sequence, in order and without a signal in between.
THEOREM PowerUp == SimulatorSpec => []PoweredUpInOrder
<1>1. PowerIInv => PoweredUpInOrder
  BY DEF PowerIInv, SignalsInStep, PoweredUpInOrder
<1>2. QED BY <1>1, PowerInvariant, PTL

\* A test never works with the simulator of the test before it, which may
\* still have the ports when the test begins.
THEOREM NobodyElse == SimulatorSpec => []OwnSimulator
<1>1. PowerIInv => OwnSimulator
  BY DEF PowerIInv, SignalsInStep, Alone, Connected, OwnSimulator
<1>2. QED BY <1>1, PowerInvariant, PTL

-----------------------------------------------------------------------------
(* Where run_tpm_simulator is, and its attempts.                           *)

Steps == {"off", "attempt", "signal", "asleep", "connect", "ready"}

WhereItIs ==
  /\ step \in Steps
  /\ attempts \in 0 .. MaxAttempts
  /\ mine \in {"none", "starting", "listening", "exited"}
  /\ peer \in {"nobody", "mine", "prev"}

\* The attempts are counted up to the last and no further.
LEMMA RetryKeeps ==
  ASSUME WhereItIs, Retry
  PROVE  /\ step' \in Steps /\ attempts' \in 0 .. MaxAttempts
         /\ mine' \in {"none", "starting", "listening", "exited"}
<1>1. CASE attempts = MaxAttempts
  BY <1>1 DEF WhereItIs, Retry, GiveUp, Kill, Steps
<1>2. CASE attempts # MaxAttempts
  <2>1. step' = "asleep" /\ attempts' = attempts + 1 /\ UNCHANGED mine
    BY <1>2 DEF Retry
  <2>2. attempts + 1 \in 0 .. MaxAttempts
    BY <1>2 DEF WhereItIs, MaxAttempts
  <2>3. QED BY <2>1, <2>2 DEF WhereItIs, Steps
<1>3. QED BY <1>1, <1>2

LEMMA RunKeeps ==
  ASSUME WhereItIs, Run
  PROVE  WhereItIs'
<1>1. Owner \in {"nobody", "mine", "prev"}
  BY DEF Owner
<1>2. CASE Retry /\ UNCHANGED peer
  BY <1>2, RetryKeeps DEF WhereItIs
<1>3. CASE Wake \/ SignalAnswered
  BY <1>3 DEF WhereItIs, Steps, Wake, SignalAnswered
<1>4. CASE /\ step' = "signal" /\ peer' = Owner
           /\ UNCHANGED <<attempts, mine>>
  BY <1>1, <1>4 DEF WhereItIs, Steps
<1>5. CASE ConnectTpm
  BY <1>5 DEF WhereItIs, Steps, ConnectTpm, GiveUp, Kill
<1>6. ConnectPlatform
        => \/ Retry /\ UNCHANGED peer
           \/ step' = "signal" /\ peer' = Owner /\ UNCHANGED <<attempts, mine>>
  BY DEF ConnectPlatform
<1>7. SignalFails => Retry /\ UNCHANGED peer
  BY DEF SignalFails
<1>8. QED BY <1>2, <1>3, <1>4, <1>5, <1>6, <1>7 DEF Run

LEMMA WhereItIsStep ==
  ASSUME WhereItIs, [SimulatorNext]_simulatorVars
  PROVE  WhereItIs'
<1>1. CASE SimulatorStarts \/ SimulatorExits \/ PreviousIsGone
  BY <1>1 DEF WhereItIs, SimulatorStarts, SimulatorExits, PreviousIsGone
<1>2. CASE Spawn \/ EndTest
  BY <1>2 DEF WhereItIs, Steps, MaxAttempts, Spawn, EndTest, Kill
<1>3. CASE Run
  BY <1>3, RunKeeps
<1>4. CASE Commands \/ UNCHANGED simulatorVars
  BY <1>4 DEF WhereItIs, Commands, simulatorVars, powerVars
<1>5. QED BY <1>1, <1>2, <1>3, <1>4 DEF SimulatorNext

\* The power-up, its connection and the call made on it have their types: no
\* more attempts are made than MaxAttempts allows, and there always is a next
\* signal.
THEOREM SimulatorTyped == SimulatorSpec => []SimulatorTypeOK
<1>1. SimulatorInit => WhereItIs
  BY DEF SimulatorInit, WhereItIs, Steps, MaxAttempts
<1>2. WhereItIs /\ [SimulatorNext]_simulatorVars => WhereItIs'
  BY WhereItIsStep
<1>3. WhereItIs /\ PowerIInv /\ TransportTypeOK => SimulatorTypeOK
  BY SignalsAre DEF WhereItIs, Steps, PowerIInv, PowerType, SimulatorTypeOK
<1>4. QED BY <1>1, <1>2, <1>3, PowerInvariant, TransportTyped, PTL DEF SimulatorSpec
=============================================================================
