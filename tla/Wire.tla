-------------------------------- MODULE Wire --------------------------------
(***************************************************************************)
(* One direction of a connection, byte by byte: the filerail_send_x calls  *)
(* of one process and the filerail_recv_x calls of the other (socket.h).   *)
(* A call sends the length of the serialized message in a word of          *)
(* WordSize bytes and then the message, by as many calls of send as it     *)
(* takes; the other side gathers first the word, then as many bytes as it  *)
(* says, by as many calls of recv.                                         *)
(*                                                                         *)
(* The stream is a tape: the bytes of all calls so far, with a cursor for  *)
(* what send has taken over and one for what recv has handed out.          *)
(***************************************************************************)
EXTENDS Integers, Sequences

CONSTANTS
    Message, Byte,
    WordSize,           \* sizeof(uint32_t)
    SizeWord(_),        \* htonl
    SizeOf(_),          \* ntohl
    Serialize(_),       \* filerail_serialize_x
    Deserialize(_, _),  \* filerail_deserialize_x, by kind
    Room,               \* how many bytes the system buffers
    MaxSent,            \* bound on messages
    MaxFaults           \* bound on breaks, timeouts and deaths

Readable(m, bytes, word) ==
    /\ bytes \in Seq(Byte) /\ Len(bytes) > 0
    /\ word \in Seq(Byte) /\ Len(word) = WordSize
    /\ SizeOf(word) = Len(bytes)
    /\ Deserialize(m.kind, bytes) = m

\* What a deserializer makes of the serializer's bytes is the message.
ASSUME CodecAssumption ==
    \A m \in Message : Readable(m, Serialize(m), SizeWord(Len(Serialize(m))))
ASSUME WireAssumption ==
    /\ WordSize \in Nat \ {0} /\ Room \in Nat \ {0}
    /\ MaxSent \in Nat /\ MaxFaults \in Nat

VARIABLES
    tape,      \* the bytes of every filerail_send_x call so far
    given,     \* how many of them send has taken over
    taken,     \* how many of these recv has handed out
    conn,      \* "up", or "down" once it broke
    reach,     \* once it broke: the bytes that reached the receiver's system
    spc,       \* "idle", "sending", "closed"
    message,   \* what the current call sends
    rpc,       \* "size", "body", "closed"
    buf, want, \* what filerail_recv has gathered and still wants
    sent, received,
    starts,    \* history: where on the tape each frame starts, and the last ends
    faults

sending   == <<tape, given, spc, message, sent, starts>>
receiving == <<taken, rpc, buf, want, received>>
net       == <<conn, reach>>
vars      == <<sending, receiving, net, faults>>

Frame(m) == SizeWord(Len(Serialize(m))) \o Serialize(m)

\* The messages on the tape: the last one may still be on its way to send.
Begun == IF given = Len(tape) THEN sent ELSE Append(sent, message)

\* The bytes that recv can hand out.
Arrived == IF conn = "up" THEN given ELSE reach

Fault == faults < MaxFaults /\ faults' = faults + 1

-----------------------------------------------------------------------------
(* The sender.                                                             *)

\* filerail_send_x up to its first send.
SBegin(m) ==
    /\ spc = "idle" /\ Len(sent) < MaxSent
    /\ message' = m
    /\ tape' = tape \o Frame(m)
    /\ starts' = Append(starts, Len(tape) + Len(Frame(m)))
    /\ spc' = "sending"
    /\ UNCHANGED <<given, sent, receiving, net, faults>>

\* A bug: a partial send counts as a complete one.
MutSentAll(n) == TRUE

\* len reaches 0 in filerail_send.
SentAll(n) == given + n = Len(tape)

\* One send, of some of the bytes; the last one ends the call.
SSome == \E n \in 1..Room :
    /\ spc = "sending"
    /\ given + n <= Len(tape) /\ given + n - taken <= Room
    /\ given' = given + n
    /\ IF SentAll(n) THEN spc' = "idle" /\ sent' = Append(sent, message)
                     ELSE UNCHANGED <<spc, sent>>
    /\ UNCHANGED <<tape, message, starts, receiving, net, faults>>

\* A bug: only a broken connection is an error.
MutSFails ==
    /\ spc = "sending" /\ conn = "down" /\ spc' = "closed"
    /\ UNCHANGED <<tape, given, message, sent, starts, receiving, net, faults>>

\* send fails; every caller that sends again finds the connection as broken.
SFails ==
    /\ spc = "sending" /\ (conn = "down" \/ rpc = "closed")
    /\ spc' = "closed"
    /\ UNCHANGED <<tape, given, message, sent, starts, receiving, net, faults>>

\* The process has nothing more to say.
SCloses ==
    /\ spc = "idle"
    /\ spc' = "closed"
    /\ UNCHANGED <<tape, given, message, sent, starts, receiving, net, faults>>

SDies ==
    /\ spc # "closed" /\ Fault
    /\ spc' = "closed"
    /\ UNCHANGED <<tape, given, message, sent, starts, receiving, net>>

-----------------------------------------------------------------------------
(* The receiver.                                                           *)

Want(pc, n) == rpc' = pc /\ want' = n /\ buf' = <<>>

\* recv is asked for the rest, and hands out what has arrived of it.
MayTake(n) == n <= want /\ taken + n <= Arrived

\* One recv; in spite of MSG_WAITALL a signal or a timeout cuts it short.
RSome == \E n \in 1..Room :
    /\ rpc # "closed" /\ MayTake(n)
    /\ buf' = buf \o SubSeq(tape, taken + 1, taken + n)
    /\ want' = want - n
    /\ taken' = taken + n
    /\ UNCHANGED <<rpc, received, sending, net, faults>>

RSized ==
    /\ rpc = "size" /\ want = 0
    /\ Want("body", SizeOf(buf))
    /\ UNCHANGED <<taken, received, sending, net, faults>>

\* The kind that the caller asks for: both sides are in step (InSync of
\* Transfer, FollowsProtocol of Session).
Expected == Begun[Len(received) + 1].kind

RMessage ==
    /\ rpc = "body" /\ want = 0
    /\ received' = Append(received, Deserialize(Expected, buf))
    /\ Want("size", WordSize)
    /\ UNCHANGED <<taken, sending, net, faults>>

\* A bug: only a negative count is an error, and the loop goes on.
MutREofLoops == FALSE /\ UNCHANGED vars

\* A bug: a message that recv did not complete is deserialized all the same.
MutREofIgnored ==
    /\ rpc = "body" /\ want > 0
    /\ conn = "up" /\ spc = "closed" /\ taken = given
    /\ received' = Append(received, Deserialize(Expected, buf))
    /\ Want("size", WordSize)
    /\ UNCHANGED <<taken, sending, net, faults>>

\* recv returns 0: the sender has disconnected, maybe within a message.
REof ==
    /\ rpc # "closed" /\ want > 0
    /\ conn = "up" /\ spc = "closed" /\ taken = given
    /\ rpc' = "closed"
    /\ UNCHANGED <<taken, buf, want, received, sending, net, faults>>

\* recv fails on a broken connection, whatever was still to be read.
RFails ==
    /\ rpc # "closed" /\ conn = "down"
    /\ rpc' = "closed"
    /\ UNCHANGED <<taken, buf, want, received, sending, net, faults>>

\* recv times out, malloc or the deserializer fails, or the process dies: the
\* bytes that were gathered are lost.
RGivesUp ==
    /\ rpc # "closed" /\ Fault
    /\ rpc' = "closed"
    /\ UNCHANGED <<taken, buf, want, received, sending, net>>

Break ==
    /\ conn = "up" /\ Fault
    /\ conn' = "down" /\ reach' \in taken..given
    /\ UNCHANGED <<sending, receiving>>

-----------------------------------------------------------------------------
Init ==
    /\ tape = <<>> /\ given = 0 /\ taken = 0 /\ conn = "up" /\ reach = 0
    /\ spc = "idle" /\ message \in Message /\ rpc = "size" /\ buf = <<>> /\ want = WordSize
    /\ sent = <<>> /\ received = <<>> /\ starts = <<0>> /\ faults = 0

SStep == SSome \/ SFails
RStep == RSome \/ RSized \/ RMessage \/ REof

Next == \/ \E m \in Message : SBegin(m)
        \/ SStep \/ SCloses \/ SDies \/ RStep \/ RFails \/ RGivesUp \/ Break

Spec == Init /\ [][Next]_vars

\* The system delivers, and processes run.  A receiver need not learn that the
\* connection broke.
FairSpec == Spec /\ WF_vars(SStep) /\ WF_vars(RStep)

-----------------------------------------------------------------------------
(* Properties.                                                             *)

\* Every variable keeps its type, and the cursors their order.
TypeOK ==
    /\ tape \in Seq(Byte) /\ given \in 0..Len(tape) /\ taken \in 0..given
    /\ conn \in {"up", "down"} /\ reach \in 0..given /\ taken <= Arrived
    /\ spc \in {"idle", "sending", "closed"} /\ message \in Message
    /\ rpc \in {"size", "body", "closed"} /\ buf \in Seq(Byte) /\ want \in Nat
    /\ sent \in Seq(Message) /\ received \in Seq(Message) /\ starts \in Seq(Nat)
    /\ faults \in 0..MaxFaults

\* What filerail_recv_x calls return are the messages of the filerail_send_x
\* calls that succeeded, in order, however sends and receives are split, and
\* wherever a process dies or the connection breaks within a message.
FramesIntact ==
    /\ Len(received) <= Len(sent)
    /\ \A i \in 1..Len(received) : received[i] = sent[i]

\* Where the frames lie, and where on them the two sides are.
FrameAt(i) == /\ starts[i + 1] = starts[i] + Len(Frame(Begun[i]))
              /\ starts[i + 1] <= Len(tape)
              /\ \A k \in 1..Len(Frame(Begun[i])) : tape[starts[i] + k] = Frame(Begun[i])[k]
TapeInv ==
    /\ Len(starts) = Len(Begun) + 1
    /\ starts[1] = 0 /\ starts[Len(starts)] = Len(tape)
    /\ \A i \in 1..Len(Begun) : FrameAt(i)
SenderInv ==
    /\ spc = "sending" => given < Len(tape)
    /\ spc = "idle" => given = Len(tape)
    /\ starts[Len(sent) + 1] <= given

\* The buffer holds the bytes of the tape from this one on.
BufferAt(from) == taken = from + Len(buf) /\ \A k \in 1..Len(buf) : buf[k] = tape[from + k]
ReceiverInv ==
    LET next == Len(received) + 1 IN
    /\ rpc = "size" => Len(buf) + want = WordSize /\ BufferAt(starts[next])
    /\ rpc = "body" => /\ next <= Len(Begun)
                       /\ Len(buf) + want = Len(Serialize(Begun[next]))
                       /\ BufferAt(starts[next] + WordSize)

\* The inductive invariant: the receiver's buffer is the part of the frame of
\* the next message that it has taken.
IInv == TypeOK /\ TapeInv /\ SenderInv /\ FramesIntact /\ ReceiverInv

\* Unless something breaks, every message that was sent is received.
Arrives == \A i \in 1..MaxSent : Len(sent) >= i ~> Len(received) >= i \/ faults > 0

\* A call that sends ends, even if the message is larger than what the system
\* buffers and the receiver has died within it.
SendReturns == spc = "sending" ~> spc # "sending"

\* A receiver whose peer is gone finds out, between messages or within one.
EndNoticed == spc = "closed" ~> rpc = "closed" \/ conn = "down"

\* Wire implements Channel.
C == INSTANCE Channel WITH
        sender <- IF spc = "closed" THEN "closed" ELSE "open",
        receiver <- IF rpc = "closed" THEN "closed" ELSE "open"
Implements == C!Spec

=============================================================================
