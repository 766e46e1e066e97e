------------------------------ MODULE WireProofs ------------------------------
(***************************************************************************)
(* Proofs about Wire, for every set of messages, every serializer that     *)
(* its deserializer can read back, and every buffer size.                  *)
(***************************************************************************)
EXTENDS Wire, TLAPS

\* The bytes of a concatenation.
LEMMA ConcatFacts ==
    ASSUME NEW s \in Seq(Byte), NEW t \in Seq(Byte)
    PROVE  /\ s \o t \in Seq(Byte) /\ Len(s \o t) = Len(s) + Len(t)
           /\ \A k \in 1..Len(s) : (s \o t)[k] = s[k]
           /\ \A k \in 1..Len(t) : (s \o t)[Len(s) + k] = t[k]
  <1>1. s \o t \in Seq(Byte) /\ Len(s \o t) = Len(s) + Len(t)
    OBVIOUS
  <1>2. ASSUME NEW k \in 1..Len(s) PROVE (s \o t)[k] = s[k]
    OBVIOUS
  <1>3. ASSUME NEW k \in 1..Len(t) PROVE (s \o t)[Len(s) + k] = t[k]
    <2>1. Len(s) + k \in 1..(Len(s) + Len(t)) /\ ~(Len(s) + k <= Len(s))
      OBVIOUS
    <2> QED
      BY <2>1
  <1> QED
    BY <1>1, <1>2, <1>3

\* What a sequence holds after one more element.
LEMMA AppendFacts ==
    ASSUME NEW S, NEW s \in Seq(S), NEW e \in S
    PROVE  /\ Append(s, e) \in Seq(S) /\ Len(Append(s, e)) = Len(s) + 1
           /\ \A k \in 1..Len(s) : Append(s, e)[k] = s[k]
           /\ Append(s, e)[Len(s) + 1] = e
  OBVIOUS

\* A frame is the size word and the serialized message, of known lengths.
LEMMA FrameFacts ==
    ASSUME NEW m \in Message
    PROVE  LET body == Serialize(m)
               word == SizeWord(Len(Serialize(m)))
           IN  /\ body \in Seq(Byte) /\ Len(body) \in Nat \ {0}
               /\ word \in Seq(Byte) /\ Len(word) = WordSize /\ WordSize \in Nat \ {0}
               /\ SizeOf(word) = Len(body) /\ Deserialize(m.kind, body) = m
               /\ Frame(m) \in Seq(Byte) /\ Len(Frame(m)) = WordSize + Len(body)
               /\ \A k \in 1..WordSize : Frame(m)[k] = word[k]
               /\ \A k \in 1..Len(body) : Frame(m)[WordSize + k] = body[k]
  <1> DEFINE body == Serialize(m)
             word == SizeWord(Len(body))
  <1>1. Readable(m, body, word)
    BY CodecAssumption
  <1>2. /\ body \in Seq(Byte) /\ Len(body) \in Nat \ {0}
        /\ word \in Seq(Byte) /\ Len(word) = WordSize /\ WordSize \in Nat \ {0}
        /\ SizeOf(word) = Len(body) /\ Deserialize(m.kind, body) = m
    BY <1>1, WireAssumption DEF Readable
  <1>3. Frame(m) = word \o body
    BY DEF Frame
  <1> HIDE DEF body, word
  <1>4. /\ Frame(m) \in Seq(Byte) /\ Len(Frame(m)) = WordSize + Len(body)
        /\ \A k \in 1..WordSize : Frame(m)[k] = word[k]
        /\ \A k \in 1..Len(body) : Frame(m)[WordSize + k] = body[k]
    <2>1. /\ word \o body \in Seq(Byte) /\ Len(word \o body) = Len(word) + Len(body)
          /\ \A k \in 1..Len(word) : (word \o body)[k] = word[k]
          /\ \A k \in 1..Len(body) : (word \o body)[Len(word) + k] = body[k]
      BY <1>2, ConcatFacts
    <2> QED
      BY <1>2, <1>3, <2>1
  <1> QED
    BY <1>2, <1>4 DEF body, word

\* Two byte sequences of one length with the same bytes are equal.
LEMMA SameBytes ==
    ASSUME NEW s \in Seq(Byte), NEW t \in Seq(Byte), Len(s) = Len(t),
           \A k \in 1..Len(t) : s[k] = t[k]
    PROVE  s = t
  OBVIOUS

\* The invariant holds initially.
LEMMA InitInv == Init => IInv
  <1> SUFFICES ASSUME Init PROVE IInv
    OBVIOUS
  <1>1. TypeOK /\ FramesIntact
    BY WireAssumption DEF Init, TypeOK, Arrived, FramesIntact
  <1>2. TapeInv /\ SenderInv
    BY DEF Init, TapeInv, SenderInv, Begun
  <1>3. ReceiverInv
    BY WireAssumption DEF Init, ReceiverInv, BufferAt
  <1> QED
    BY <1>1, <1>2, <1>3 DEF IInv

-----------------------------------------------------------------------------
(* Each step preserves the invariant.                                      *)

\* filerail_send_x appends a frame behind the tape.
LEMMA BeginStep ==
    ASSUME IInv, NEW m \in Message, SBegin(m)
    PROVE  IInv'
  <1> DEFINE frame == Frame(m)
  <1>1. frame \in Seq(Byte) /\ Len(frame) \in Nat \ {0}
    BY FrameFacts
  <1> HIDE DEF frame
  <1>2. /\ tape' = tape \o frame /\ message' = m
        /\ starts' = Append(starts, Len(tape) + Len(frame)) /\ given = Len(tape)
        /\ spc' = "sending" /\ spc = "idle"
        /\ UNCHANGED <<given, sent, receiving, net, faults>>
    BY DEF SBegin, IInv, SenderInv, frame
  <1>3. /\ tape' \in Seq(Byte) /\ Len(tape') = Len(tape) + Len(frame)
        /\ \A k \in 1..Len(tape) : tape'[k] = tape[k]
        /\ \A k \in 1..Len(frame) : tape'[Len(tape) + k] = frame[k]
        /\ Len(tape) \in Nat
    BY <1>1, <1>2, ConcatFacts DEF IInv, TypeOK
  <1>4. TypeOK'
    BY <1>1, <1>2, <1>3 DEF IInv, TypeOK, Arrived, receiving, net
  <1>5. Begun = sent /\ Begun' = Append(sent, m)
    BY <1>1, <1>2, <1>3 DEF IInv, TypeOK, Begun
  <1>6. /\ Len(Begun') = Len(sent) + 1 /\ Begun'[Len(sent) + 1] = m
        /\ \A i \in 1..Len(sent) : Begun'[i] = sent[i] /\ sent[i] \in Message
    BY <1>5, AppendFacts DEF IInv, TypeOK
  <1>7. Len(starts) = Len(sent) + 1 /\ starts[Len(sent) + 1] = Len(tape) /\ Len(sent) \in Nat
    BY <1>5 DEF IInv, TapeInv, TypeOK
  <1>8. /\ Len(starts') = Len(sent) + 2 /\ starts'[Len(sent) + 2] = Len(tape')
        /\ \A i \in 1..(Len(sent) + 1) : starts'[i] = starts[i] /\ starts[i] \in Nat
    <2>1. Len(tape) + Len(frame) \in Nat
      BY <1>1 DEF IInv, TypeOK
    <2> QED
      BY <1>2, <1>3, <1>7, <2>1, AppendFacts DEF IInv, TypeOK
  <1>9. TapeInv'
    <2>1. /\ Len(starts') = Len(Begun') + 1 /\ starts'[1] = 0
          /\ starts'[Len(starts')] = Len(tape')
      BY <1>6, <1>7, <1>8 DEF IInv, TapeInv
    <2>2. ASSUME NEW i \in 1..Len(sent) PROVE FrameAt(i)'
      <3>1. FrameAt(i) /\ Begun'[i] = Begun[i] /\ Len(Frame(Begun[i])) \in Nat
        BY <1>5, <1>6, FrameFacts DEF IInv, TapeInv
      <3>2. starts'[i] = starts[i] /\ starts'[i + 1] = starts[i + 1] /\ starts[i] \in Nat
        BY <1>7, <1>8
      <3>3. /\ starts[i + 1] <= Len(tape) /\ starts[i + 1] = starts[i] + Len(Frame(Begun[i]))
            /\ \A k \in 1..Len(Frame(Begun[i])) : tape[starts[i] + k] = Frame(Begun[i])[k]
        BY <3>1 DEF FrameAt
      <3>4. Len(tape) <= Len(tape')
        BY <1>1, <1>3
      <3>5. starts'[i + 1] <= Len(tape')
        BY <1>1, <1>3, <3>1, <3>2, <3>3, <3>4
      <3>6. ASSUME NEW k \in 1..Len(Frame(Begun[i])) PROVE tape'[starts[i] + k] = tape[starts[i] + k]
        <4>1. starts[i] + k \in 1..Len(tape)
          BY <1>3, <3>1, <3>2, <3>3
        <4> QED
          BY <1>3, <4>1
      <3> QED
        BY <3>1, <3>2, <3>3, <3>5, <3>6 DEF FrameAt
    <2>3. PICK last \in Nat : last = Len(sent) + 1
      BY <1>7
    <2>4. FrameAt(last)'
      <3>1. starts'[last] = Len(tape) /\ starts'[last + 1] = Len(tape) + Len(frame)
        <4>1. last \in 1..(Len(sent) + 1) /\ last + 1 = Len(sent) + 2
          BY <1>7, <2>3
        <4> QED
          BY <1>3, <1>7, <1>8, <2>3, <4>1
      <3>2. Frame(Begun'[last]) = frame
        BY <1>6, <2>3 DEF frame
      <3>3. /\ starts'[last + 1] = starts'[last] + Len(frame)
            /\ starts'[last + 1] <= Len(tape')
            /\ \A k \in 1..Len(frame) : tape'[starts'[last] + k] = frame[k]
        BY <1>1, <1>3, <3>1
      <3> QED
        BY <3>2, <3>3 DEF FrameAt
    <2>5. ASSUME NEW i \in 1..Len(Begun') PROVE FrameAt(i)'
      <3>1. i \in 1..Len(sent) \/ i = last
        BY <1>6, <1>7, <2>3
      <3> QED
        BY <2>2, <2>4, <3>1
    <2> QED
      BY <2>1, <2>5 DEF TapeInv
  <1>10. SenderInv'
    BY <1>1, <1>2, <1>3, <1>7, <1>8 DEF SenderInv, IInv, TypeOK
  <1>11. FramesIntact'
    BY <1>2 DEF IInv, FramesIntact, receiving
  <1>12. ReceiverInv'
    <2> DEFINE next == Len(received) + 1
    <2>1. next \in 1..(Len(sent) + 1) /\ starts'[next] = starts[next]
      BY <1>7, <1>8 DEF IInv, FramesIntact, TypeOK
    <2>2. rpc = "body" => next <= Len(sent) /\ Begun'[next] = Begun[next] /\ next <= Len(Begun')
      BY <1>5, <1>6, <1>7, <2>1 DEF IInv, ReceiverInv
    <2>3. ASSUME NEW from \in Nat, BufferAt(from) PROVE BufferAt(from)'
      BY <1>2, <1>3, <2>3 DEF BufferAt, IInv, TypeOK, receiving
    <2>4. starts[next] \in Nat /\ starts[next] + WordSize \in Nat
      BY <1>8, <2>1, WireAssumption
    <2> QED
      BY <1>2, <2>1, <2>2, <2>3, <2>4 DEF IInv, ReceiverInv, receiving
  <1> QED
    BY <1>4, <1>9, <1>10, <1>11, <1>12 DEF IInv

\* The frames stay where they are when no bytes are added.
LEMMA SameFrames ==
    ASSUME IInv, UNCHANGED <<tape, starts>>, Begun' = Begun
    PROVE  TapeInv'
  <1>1. Len(starts') = Len(Begun') + 1 /\ starts'[1] = 0 /\ starts'[Len(starts')] = Len(tape')
    BY DEF IInv, TapeInv
  <1>2. ASSUME NEW i \in 1..Len(Begun') PROVE FrameAt(i)'
    BY <1>2 DEF IInv, TapeInv, FrameAt
  <1> QED
    BY <1>1, <1>2 DEF TapeInv

\* The receiver's part of the invariant is about the tape and the frames.
LEMMA SameReceiver ==
    ASSUME IInv, UNCHANGED <<tape, starts, receiving>>, Begun' = Begun
    PROVE  ReceiverInv'
  BY DEF IInv, ReceiverInv, BufferAt, receiving

\* One send takes over some bytes; the call may succeed with it.
LEMMA SomeSentStep ==
    ASSUME IInv, SSome
    PROVE  IInv'
  <1>1. PICK n \in 1..Room :
          /\ spc = "sending"
          /\ given + n <= Len(tape)
          /\ given' = given + n
          /\ IF given + n = Len(tape) THEN spc' = "idle" /\ sent' = Append(sent, message)
                                      ELSE UNCHANGED <<spc, sent>>
          /\ UNCHANGED <<tape, message, starts, receiving, net, faults>>
    BY DEF SSome, SentAll
  <1>2. given < Len(tape) /\ n \in Nat \ {0} /\ given \in Nat /\ Len(tape) \in Nat
    BY <1>1, WireAssumption DEF IInv, SenderInv, TypeOK
  <1>3. Begun' = Begun
    <2>1. Begun = Append(sent, message)
      BY <1>2 DEF Begun
    <2>2. CASE given + n = Len(tape)
      BY <1>1, <2>1, <2>2 DEF Begun
    <2>3. CASE given + n # Len(tape)
      BY <1>1, <2>1, <2>3 DEF Begun
    <2> QED
      BY <2>2, <2>3
  <1>4. TypeOK'
    <2>1. sent' \in Seq(Message) /\ spc' \in {"idle", "sending", "closed"}
      <3>1. sent \in Seq(Message) /\ message \in Message /\ spc = "sending"
        BY <1>1 DEF IInv, TypeOK
      <3>2. Append(sent, message) \in Seq(Message)
        BY <3>1, AppendFacts
      <3> QED
        BY <1>1, <3>1, <3>2
    <2>2. given' \in 0..Len(tape) /\ given <= given'
      BY <1>1, <1>2
    <2>3. taken' \in 0..given' /\ reach' \in 0..given' /\ (taken <= Arrived)'
      BY <1>1, <1>2, <2>2 DEF IInv, TypeOK, Arrived, receiving, net
    <2> QED
      BY <1>1, <2>1, <2>2, <2>3 DEF IInv, TypeOK, receiving, net
  <1>5. TapeInv'
    BY <1>1, <1>3, SameFrames
  <1>6. SenderInv'
    <2>1. CASE given + n = Len(tape)
      <3>1. sent' = Begun' /\ given' = Len(tape') /\ spc' = "idle"
        BY <1>1, <1>2, <2>1 DEF Begun
      <3>2. starts'[Len(sent') + 1] = Len(tape')
        BY <1>5, <3>1 DEF TapeInv
      <3> QED
        BY <1>1, <1>2, <3>1, <3>2 DEF SenderInv
    <2>2. CASE given + n # Len(tape)
      <3>1. starts[Len(sent) + 1] <= given /\ starts[Len(sent) + 1] \in Nat
        <4>1. Len(starts) = Len(Begun) + 1 /\ Begun = Append(sent, message)
          BY <1>2 DEF IInv, TapeInv, Begun
        <4>2. Len(starts) = Len(sent) + 2
          BY <4>1, AppendFacts DEF IInv, TypeOK
        <4> QED
          BY <4>2 DEF IInv, TypeOK, SenderInv
      <3> QED
        BY <1>1, <1>2, <2>2, <3>1 DEF SenderInv
    <2> QED
      BY <2>1, <2>2
  <1>7. FramesIntact'
    <2>1. CASE given + n = Len(tape)
      <3>1. /\ Len(sent') = Len(sent) + 1 /\ \A k \in 1..Len(sent) : sent'[k] = sent[k]
            /\ received' = received
        <4>1. sent \in Seq(Message) /\ message \in Message
          BY DEF IInv, TypeOK
        <4>2. sent' = Append(sent, message) /\ received' = received
          BY <1>1, <2>1 DEF receiving
        <4> QED
          BY <4>1, <4>2, AppendFacts
      <3> QED
        BY <3>1 DEF IInv, TypeOK, FramesIntact
    <2>2. CASE given + n # Len(tape)
      BY <1>1, <2>2 DEF IInv, FramesIntact, receiving
    <2> QED
      BY <2>1, <2>2
  <1>8. ReceiverInv'
    BY <1>1, <1>3, SameReceiver
  <1> QED
    BY <1>4, <1>5, <1>6, <1>7, <1>8 DEF IInv

\* A side that is done keeps its place.
LEMMA ClosingStep ==
    ASSUME IInv, SFails \/ SCloses \/ SDies \/ REof \/ RFails \/ RGivesUp \/ UNCHANGED vars
    PROVE  IInv'
  <1>1. /\ UNCHANGED <<tape, given, message, sent, starts>>
        /\ UNCHANGED <<taken, buf, want, received, conn, reach>>
        /\ spc' \in {spc, "closed"} /\ rpc' \in {rpc, "closed"}
        /\ faults' = faults \/ (faults' = faults + 1 /\ faults < MaxFaults)
    BY DEF SFails, SCloses, SDies, REof, RFails, RGivesUp, vars, sending, receiving, net, Fault
  <1>2. TypeOK'
    <2>1. faults' \in 0..MaxFaults
      BY <1>1, WireAssumption DEF IInv, TypeOK
    <2>2. spc' \in {"idle", "sending", "closed"} /\ rpc' \in {"size", "body", "closed"}
      BY <1>1 DEF IInv, TypeOK
    <2>3. Arrived' = Arrived
      BY <1>1 DEF Arrived
    <2> QED
      BY <1>1, <2>1, <2>2, <2>3 DEF IInv, TypeOK
  <1>3. Begun' = Begun
    BY <1>1 DEF Begun
  <1>4. TapeInv'
    BY <1>1, <1>3, SameFrames
  <1>5. SenderInv' /\ FramesIntact'
    BY <1>1 DEF IInv, SenderInv, FramesIntact
  <1>6. ReceiverInv'
    BY <1>1, <1>3 DEF IInv, ReceiverInv, BufferAt
  <1> QED
    BY <1>2, <1>4, <1>5, <1>6 DEF IInv

\* What has arrived when the connection breaks is at least what was read.
LEMMA BreakStep ==
    ASSUME IInv, Break
    PROVE  IInv'
  <1>1. /\ conn' = "down" /\ reach' \in taken..given /\ faults < MaxFaults
        /\ faults' = faults + 1 /\ UNCHANGED <<sending, receiving>>
    BY DEF Break, Fault
  <1>2. TypeOK'
    BY <1>1, WireAssumption DEF IInv, TypeOK, Arrived, sending, receiving
  <1>3. Begun' = Begun
    BY <1>1 DEF Begun, sending
  <1>4. TapeInv'
    BY <1>1, <1>3, SameFrames DEF sending
  <1>5. SenderInv' /\ FramesIntact'
    BY <1>1 DEF IInv, SenderInv, FramesIntact, sending, receiving
  <1>6. ReceiverInv'
    BY <1>1, <1>3, SameReceiver DEF sending
  <1> QED
    BY <1>2, <1>4, <1>5, <1>6 DEF IInv

\* The messages on the tape are those that were sent, and maybe one more.
LEMMA BegunFacts ==
    ASSUME IInv
    PROVE  /\ Begun \in Seq(Message) /\ Len(Begun) \in Nat /\ Len(sent) \in Nat
           /\ Len(sent) <= Len(Begun) /\ Len(Begun) <= Len(sent) + 1
           /\ \A i \in 1..Len(sent) : Begun[i] = sent[i]
           /\ Len(Begun) = Len(sent) + 1 => given < Len(tape)
  <1>1. sent \in Seq(Message) /\ message \in Message /\ given \in Nat /\ Len(tape) \in Nat
        /\ given <= Len(tape)
    BY DEF IInv, TypeOK
  <1>2. CASE given = Len(tape)
    BY <1>1, <1>2 DEF Begun
  <1>3. CASE given # Len(tape)
    <2>1. Begun = Append(sent, message) /\ given < Len(tape)
      BY <1>1, <1>3 DEF Begun
    <2> QED
      BY <1>1, <2>1, AppendFacts
  <1> QED
    BY <1>2, <1>3

\* The next message that is due starts on the tape.
LEMMA NextFacts ==
    ASSUME IInv, NEW next \in Nat, next = Len(received) + 1
    PROVE  /\ next \in 1..(Len(Begun) + 1) /\ starts[next] \in Nat
           /\ next <= Len(Begun) =>
                /\ Begun[next] \in Message /\ FrameAt(next) /\ starts[next + 1] \in Nat
           /\ next > Len(Begun) => starts[next] = Len(tape)
  <1>1. next \in 1..(Len(Begun) + 1)
    BY BegunFacts DEF IInv, FramesIntact, TypeOK
  <1>2. Len(starts) = Len(Begun) + 1 /\ starts \in Seq(Nat) /\ starts[Len(starts)] = Len(tape)
    BY DEF IInv, TapeInv, TypeOK
  <1>3. starts[next] \in Nat /\ (next > Len(Begun) => starts[next] = Len(tape))
    BY <1>1, <1>2, BegunFacts
  <1>4. ASSUME next <= Len(Begun)
        PROVE  Begun[next] \in Message /\ FrameAt(next) /\ starts[next + 1] \in Nat
    <2>1. next \in 1..Len(Begun)
      BY <1>1, <1>4, BegunFacts
    <2>2. next + 1 \in 1..Len(starts)
      BY <1>2, <2>1, BegunFacts
    <2>3. FrameAt(next)
      BY <2>1 DEF IInv, TapeInv
    <2>4. Begun[next] \in Message
      BY <2>1, BegunFacts
    <2>5. starts[next + 1] \in Nat
      BY <1>2, <2>2
    <2> QED
      BY <2>3, <2>4, <2>5
  <1> QED
    BY <1>1, <1>3, <1>4

\* One recv hands out the next bytes of the tape.
LEMMA SomeReceivedStep ==
    ASSUME IInv, RSome
    PROVE  IInv'
  <1>1. PICK n \in 1..Room :
          /\ rpc # "closed" /\ n <= want /\ taken + n <= Arrived
          /\ buf' = buf \o SubSeq(tape, taken + 1, taken + n)
          /\ want' = want - n /\ taken' = taken + n
          /\ UNCHANGED <<rpc, received, sending, net, faults>>
    BY DEF RSome, MayTake
  <1> DEFINE piece == SubSeq(tape, taken + 1, taken + n)
  <1>2. /\ n \in Nat \ {0} /\ taken \in Nat /\ given \in Nat /\ Len(tape) \in Nat
        /\ taken + n <= given /\ given <= Len(tape) /\ tape \in Seq(Byte) /\ buf \in Seq(Byte)
    BY <1>1, WireAssumption DEF IInv, TypeOK, Arrived
  <1>3. piece \in Seq(Byte) /\ Len(piece) = n /\ \A k \in 1..n : piece[k] = tape[taken + k]
    BY <1>2
  <1> HIDE DEF piece
  <1>4. /\ buf' \in Seq(Byte) /\ Len(buf') = Len(buf) + n /\ Len(buf) \in Nat
        /\ \A k \in 1..Len(buf) : buf'[k] = buf[k]
        /\ \A k \in 1..n : buf'[Len(buf) + k] = tape[taken + k]
    <2>1. buf' = buf \o piece
      BY <1>1 DEF piece
    <2>2. /\ buf' \in Seq(Byte) /\ Len(buf') = Len(buf) + Len(piece)
          /\ \A k \in 1..Len(buf) : buf'[k] = buf[k]
          /\ \A k \in 1..Len(piece) : buf'[Len(buf) + k] = piece[k]
      BY <1>2, <1>3, <2>1, ConcatFacts
    <2>3. Len(buf') = Len(buf) + n /\ Len(buf) \in Nat
      BY <1>2, <1>3, <2>2
    <2>4. \A k \in 1..n : buf'[Len(buf) + k] = tape[taken + k]
      BY <1>3, <2>2
    <2> QED
      BY <2>2, <2>3, <2>4
  <1>5. Begun' = Begun
    BY <1>1 DEF Begun, sending
  <1>6. TypeOK'
    <2>1. taken' \in 0..given' /\ (taken <= Arrived)'
      BY <1>1, <1>2 DEF IInv, TypeOK, Arrived, sending, net
    <2>2. want' \in Nat
      BY <1>1, <1>2 DEF IInv, TypeOK
    <2> QED
      BY <1>1, <1>4, <2>1, <2>2 DEF IInv, TypeOK, sending, net
  <1>7. TapeInv'
    BY <1>1, <1>5, SameFrames DEF sending
  <1>8. SenderInv' /\ FramesIntact'
    BY <1>1 DEF IInv, SenderInv, FramesIntact, sending
  <1>9. ASSUME NEW from \in Nat, BufferAt(from)
        PROVE  BufferAt(from)'
    <2>1. taken = from + Len(buf) /\ \A k \in 1..Len(buf) : buf[k] = tape[from + k]
      BY <1>9 DEF BufferAt
    <2>2. taken' = from + Len(buf')
      BY <1>1, <1>2, <1>4, <2>1
    <2>3. ASSUME NEW k \in 1..Len(buf') PROVE buf'[k] = tape'[from + k]
      <3>1. CASE k <= Len(buf)
        BY <1>1, <1>4, <2>1, <3>1 DEF sending
      <3>2. CASE k > Len(buf)
        <4>1. PICK j \in 1..n : k = Len(buf) + j
          <5>1. k - Len(buf) \in 1..n /\ k = Len(buf) + (k - Len(buf))
            BY <1>2, <1>4, <3>2
          <5> QED
            BY <5>1
        <4>2. from + k = taken + j
          BY <1>2, <2>1, <4>1, <1>4
        <4> QED
          BY <1>1, <1>4, <4>1, <4>2 DEF sending
      <3> QED
        BY <1>4, <3>1, <3>2
    <2> QED
      BY <2>2, <2>3 DEF BufferAt
  <1>10. ReceiverInv'
    <2>1. PICK next \in Nat : next = Len(received) + 1
      BY DEF IInv, TypeOK
    <2>2. starts[next] \in Nat /\ starts[next] + WordSize \in Nat /\ want \in Nat
      BY <2>1, NextFacts, WireAssumption DEF IInv, TypeOK
    <2>3. starts' = starts /\ received' = received
      BY <1>1 DEF sending
    <2>4. CASE rpc = "size"
      <3>1. BufferAt(starts[next]) /\ Len(buf) + want = WordSize
        BY <2>1, <2>4 DEF IInv, ReceiverInv
      <3>2. PICK from \in Nat : from = starts[next]
        BY <2>2
      <3>3. BufferAt(from)'
        BY <1>9, <3>1, <3>2
      <3>4. Len(buf') + want' = WordSize
        BY <1>1, <1>2, <1>4, <2>2, <3>1
      <3> QED
        BY <1>1, <2>1, <2>3, <2>4, <3>2, <3>3, <3>4 DEF ReceiverInv, BufferAt
    <2>5. CASE rpc = "body"
      <3>1. /\ BufferAt(starts[next] + WordSize) /\ next <= Len(Begun)
            /\ Len(buf) + want = Len(Serialize(Begun[next]))
        BY <2>1, <2>5 DEF IInv, ReceiverInv
      <3>2. PICK from \in Nat : from = starts[next] + WordSize
        BY <2>2
      <3>3. BufferAt(from)'
        BY <1>9, <3>1, <3>2
      <3>4. Len(buf') + want' = Len(buf) + want
        BY <1>1, <1>2, <1>4, <2>2
      <3>5. Len(buf') + want' = Len(Serialize(Begun'[next]))
        BY <1>5, <3>1, <3>4
      <3>6. next <= Len(Begun') /\ next = Len(received') + 1 /\ rpc' = "body"
        BY <1>1, <1>5, <2>1, <2>3, <2>5, <3>1
      <3> QED
        BY <2>3, <3>2, <3>3, <3>5, <3>6 DEF ReceiverInv, BufferAt
    <2> QED
      BY <1>1, <2>4, <2>5 DEF IInv, TypeOK
  <1> QED
    BY <1>6, <1>7, <1>8, <1>10 DEF IInv

\* WordSize bytes after the last frame are the size of the next one.
LEMMA SizedStep ==
    ASSUME IInv, RSized
    PROVE  IInv'
  <1>1. /\ rpc = "size" /\ want = 0 /\ rpc' = "body" /\ want' = SizeOf(buf) /\ buf' = <<>>
        /\ UNCHANGED <<taken, received, sending, net, faults>>
    BY DEF RSized, Want
  <1>2. PICK next \in Nat : next = Len(received) + 1
    BY DEF IInv, TypeOK
  <1>3. /\ Len(buf) = WordSize /\ taken = starts[next] + WordSize
        /\ \A k \in 1..WordSize : buf[k] = tape[starts[next] + k]
    <2>1. Len(buf) + want = WordSize /\ BufferAt(starts[next])
      BY <1>1, <1>2 DEF IInv, ReceiverInv
    <2>2. Len(buf) = WordSize
      BY <1>1, <2>1, WireAssumption DEF IInv, TypeOK
    <2> QED
      BY <2>1, <2>2 DEF BufferAt
  <1>4. next \in 1..Len(Begun)
    <2>1. taken <= Len(tape) /\ taken \in Nat /\ Len(tape) \in Nat
      BY DEF IInv, TypeOK
    <2>2. ~(next > Len(Begun))
      BY <1>2, <1>3, <2>1, NextFacts, WireAssumption
    <2> QED
      BY <1>2, <2>2, NextFacts, BegunFacts
  <1> DEFINE m    == Begun[next]
             body == Serialize(m)
             word == SizeWord(Len(Serialize(m)))
  <1>5. m \in Message /\ FrameAt(next) /\ starts[next] \in Nat
    BY <1>2, <1>4, NextFacts, BegunFacts
  <1>6. /\ body \in Seq(Byte) /\ Len(body) \in Nat \ {0} /\ WordSize \in Nat \ {0}
        /\ word \in Seq(Byte) /\ Len(word) = WordSize /\ SizeOf(word) = Len(body)
        /\ Len(Frame(m)) = WordSize + Len(body)
        /\ \A k \in 1..WordSize : Frame(m)[k] = word[k]
    BY <1>5, FrameFacts
  <1>7. \A k \in 1..Len(Frame(m)) : tape[starts[next] + k] = Frame(m)[k]
    BY <1>5 DEF FrameAt
  <1> HIDE DEF m, body, word
  <1>8. \A k \in 1..WordSize : buf[k] = word[k]
    BY <1>3, <1>6, <1>7
  <1>9. buf = word
    BY <1>3, <1>6, <1>8, SameBytes DEF IInv, TypeOK
  <1>10. want' = Len(body)
    BY <1>1, <1>6, <1>9
  <1>11. Begun' = Begun
    BY <1>1 DEF Begun, sending
  <1>12. TypeOK'
    BY <1>1, <1>6, <1>10 DEF IInv, TypeOK, Arrived, sending, net
  <1>13. TapeInv'
    BY <1>1, <1>11, SameFrames DEF sending
  <1>14. SenderInv' /\ FramesIntact'
    BY <1>1 DEF IInv, SenderInv, FramesIntact, sending
  <1>15. ReceiverInv'
    <2>1. next <= Len(Begun') /\ next = Len(received') + 1 /\ starts' = starts
      BY <1>1, <1>2, <1>4, <1>11, BegunFacts DEF sending
    <2>2. Len(buf') + want' = Len(Serialize(Begun'[next]))
      BY <1>1, <1>6, <1>10, <1>11 DEF body, m
    <2>3. taken' = starts'[next] + WordSize + Len(buf') /\ Len(buf') = 0
      BY <1>1, <1>3, <1>5, <1>6, <2>1
    <2> QED
      BY <1>1, <2>1, <2>2, <2>3 DEF ReceiverInv, BufferAt
  <1> QED
    BY <1>12, <1>13, <1>14, <1>15 DEF IInv

\* The bytes up to the end of a frame are the message; it was sent whole.
LEMMA MessageStep ==
    ASSUME IInv, RMessage
    PROVE  IInv' /\ Len(received) < Len(sent) /\ received' = Append(received, sent[Len(received) + 1])
  <1>1. PICK next \in Nat : next = Len(received) + 1
    BY DEF IInv, TypeOK
  <1> DEFINE m    == Begun[next]
             body == Serialize(m)
  <1>2. /\ rpc = "body" /\ want = 0 /\ rpc' = "size" /\ want' = WordSize /\ buf' = <<>>
        /\ received' = Append(received, Deserialize(m.kind, buf))
        /\ UNCHANGED <<taken, sending, net, faults>>
    BY <1>1 DEF RMessage, Expected, Want
  <1>3. m \in Message /\ FrameAt(next) /\ starts[next] \in Nat /\ starts[next + 1] \in Nat
        /\ next \in 1..Len(Begun)
    BY <1>1, <1>2, NextFacts, BegunFacts DEF IInv, ReceiverInv
  <1>4. /\ body \in Seq(Byte) /\ Len(body) \in Nat \ {0} /\ WordSize \in Nat \ {0}
        /\ Len(Frame(m)) = WordSize + Len(body) /\ Deserialize(m.kind, body) = m
        /\ \A k \in 1..Len(body) : Frame(m)[WordSize + k] = body[k]
    BY <1>3, FrameFacts
  <1>5. /\ starts[next + 1] = starts[next] + Len(Frame(m))
        /\ \A k \in 1..Len(Frame(m)) : tape[starts[next] + k] = Frame(m)[k]
    BY <1>3 DEF FrameAt
  <1>6. Len(buf) + want = Len(body) /\ BufferAt(starts[next] + WordSize)
    BY <1>1, <1>2 DEF IInv, ReceiverInv
  <1> HIDE DEF m, body
  <1>7. Len(buf) = Len(body) /\ taken = starts[next + 1]
        /\ \A k \in 1..Len(body) : buf[k] = tape[starts[next] + WordSize + k]
    <2>1. Len(buf) = Len(body)
      BY <1>2, <1>4, <1>6 DEF IInv, TypeOK
    <2> QED
      BY <1>3, <1>4, <1>5, <1>6, <2>1 DEF BufferAt
  <1>8. buf = body
    <2>1. ASSUME NEW k \in 1..Len(body) PROVE buf[k] = body[k]
      <3>1. WordSize + k \in 1..Len(Frame(m)) /\ starts[next] + WordSize + k = starts[next] + (WordSize + k)
        BY <1>3, <1>4
      <3> QED
        BY <1>4, <1>5, <1>7, <3>1
    <2> QED
      BY <1>4, <1>7, <2>1, SameBytes DEF IInv, TypeOK
  <1>9. next <= Len(sent) /\ m = sent[next]
    <2>1. taken <= given /\ given \in Nat /\ taken \in Nat /\ Len(tape) \in Nat
      BY DEF IInv, TypeOK
    <2>2. CASE next = Len(sent) + 1
      <3>1. next = Len(Begun) /\ given < Len(tape)
        BY <1>3, <2>2, BegunFacts
      <3>2. starts[next + 1] = Len(tape)
        BY <3>1 DEF IInv, TapeInv
      <3> QED
        BY <1>7, <2>1, <3>1, <3>2
    <2>3. CASE next # Len(sent) + 1
      <3>1. next \in 1..Len(sent)
        BY <1>3, <2>3, BegunFacts
      <3> QED
        BY <3>1, BegunFacts DEF m
    <2> QED
      BY <2>2, <2>3
  <1>10. received' = Append(received, sent[next]) /\ sent[next] \in Message
    BY <1>2, <1>3, <1>4, <1>8, <1>9
  <1>11. /\ received' \in Seq(Message) /\ Len(received') = next
         /\ \A k \in 1..Len(received) : received'[k] = received[k]
         /\ received'[next] = sent[next]
    BY <1>1, <1>10, AppendFacts DEF IInv, TypeOK
  <1>12. Begun' = Begun
    BY <1>2 DEF Begun, sending
  <1>13. TypeOK'
    BY <1>2, <1>4, <1>11 DEF IInv, TypeOK, Arrived, sending, net
  <1>14. TapeInv'
    BY <1>2, <1>12, SameFrames DEF sending
  <1>15. SenderInv'
    BY <1>2 DEF IInv, SenderInv, sending
  <1>16. FramesIntact'
    <2>1. ASSUME NEW i \in 1..next PROVE received'[i] = sent[i]
      <3>1. CASE i = next
        BY <1>11, <3>1
      <3>2. CASE i # next
        <4>1. i \in 1..Len(received)
          BY <1>1, <3>2 DEF IInv, TypeOK
        <4> QED
          BY <1>11, <4>1 DEF IInv, FramesIntact
      <3> QED
        BY <3>1, <3>2
    <2> QED
      BY <1>2, <1>9, <1>11, <2>1 DEF FramesIntact, sending
  <1>17. ReceiverInv'
    <2>1. Len(received') + 1 = next + 1 /\ starts' = starts /\ taken' = starts[next + 1]
      BY <1>2, <1>7, <1>11 DEF sending
    <2>2. Len(buf') + want' = WordSize /\ Len(buf') = 0
      BY <1>2, <1>4
    <2> QED
      BY <1>2, <1>3, <2>1, <2>2 DEF ReceiverInv, BufferAt
  <1> QED
    BY <1>1, <1>9, <1>10, <1>13, <1>14, <1>15, <1>16, <1>17 DEF IInv, TypeOK

\* Every step preserves the invariant.
LEMMA NextInv == IInv /\ [Next]_vars => IInv'
  <1> SUFFICES ASSUME IInv, [Next]_vars PROVE IInv'
    OBVIOUS
  <1>1. CASE \E m \in Message : SBegin(m)
    BY <1>1, BeginStep
  <1>2. CASE SSome
    BY <1>2, SomeSentStep
  <1>3. CASE SFails \/ SCloses \/ SDies \/ REof \/ RFails \/ RGivesUp \/ UNCHANGED vars
    BY <1>3, ClosingStep
  <1>4. CASE RSome
    BY <1>4, SomeReceivedStep
  <1>5. CASE RSized
    BY <1>5, SizedStep
  <1>6. CASE RMessage
    BY <1>6, MessageStep
  <1>7. CASE Break
    BY <1>7, BreakStep
  <1> QED
    BY <1>1, <1>2, <1>3, <1>4, <1>5, <1>6, <1>7 DEF Next, SStep, RStep

-----------------------------------------------------------------------------
\* The receiver's buffer is always the part of the next frame that it took.
THEOREM Invariance == Spec => []IInv
  BY InitInv, NextInv, PTL DEF Spec

\* Every variable keeps its type.
THEOREM TypeCorrectness == Spec => []TypeOK
  <1>1. IInv => TypeOK
    BY DEF IInv
  <1> QED
    BY Invariance, <1>1, PTL

\* What filerail_recv_x calls return are the messages that were sent, in order.
THEOREM Intact == Spec => []FramesIntact
  <1>1. IInv => FramesIntact
    BY DEF IInv
  <1> QED
    BY Invariance, <1>1, PTL

\* The byte stream implements a channel of whole messages.
THEOREM Implementation == Spec => Implements
  <1>1. Init => C!Init
    BY DEF Init, C!Init
  <1>2. IInv /\ [Next]_vars => [C!Next]_C!vars
    <2> SUFFICES ASSUME IInv, [Next]_vars PROVE [C!Next]_C!vars
      OBVIOUS
    <2>1. CASE \E m \in Message : SBegin(m)
      BY <2>1 DEF SBegin, C!vars, receiving
    <2>2. CASE SSome
      BY <2>2 DEF IInv, TypeOK, SSome, C!Next, C!Send, C!vars, receiving
    <2>3. CASE SFails \/ SCloses \/ SDies
      BY <2>3 DEF SFails, SCloses, SDies, C!Next, C!SenderCloses, C!vars, receiving
    <2>4. CASE RSome \/ RSized
      BY <2>4 DEF RSome, RSized, Want, C!vars, sending
    <2>5. CASE RMessage
      <3>1. Len(received) < Len(sent) /\ received' = Append(received, sent[Len(received) + 1])
        BY <2>5, MessageStep
      <3> QED
        BY <2>5, <3>1 DEF RMessage, Want, C!Next, C!Receive, C!vars, sending
    <2>6. CASE REof \/ RFails \/ RGivesUp
      BY <2>6 DEF REof, RFails, RGivesUp, C!Next, C!ReceiverCloses, C!vars, sending
    <2>7. CASE Break \/ UNCHANGED vars
      BY <2>7 DEF Break, vars, C!vars, sending, receiving
    <2> QED
      BY <2>1, <2>2, <2>3, <2>4, <2>5, <2>6, <2>7 DEF Next, SStep, RStep
  <1> QED
    BY Invariance, <1>1, <1>2, PTL DEF Spec, Implements, C!Spec
===============================================================================
