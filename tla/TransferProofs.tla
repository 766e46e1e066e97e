--------------------------- MODULE TransferProofs ---------------------------
(***************************************************************************)
(* The theorems about Transfer, for every set of versions, archive         *)
(* lengths, destinations, key files, and every number of faults.           *)
(*                                                                         *)
(* The proof of Invariance has one lemma per part of IInv (XStep proves    *)
(* that every step keeps XInv), each with one case per action.  Actions    *)
(* that change the same state in the same way are taken together first,    *)
(* as SLeaves, RLeaves and RRestarts.                                      *)
(***************************************************************************)
EXTENDS TransferInvariant, SequenceTheorems, TLAPS

\* The ways a side leaves its handler early, or for good, have this in common.
SLeaves ==
    /\ spc \notin Stopped /\ SEnd(sexit')
    /\ sexit' = 0 => spc \in {"zip", "rm"} /\ (spc = "rm" => sexit = 0)
    /\ sexit' \in {0, -1} /\ faults' \in {faults} \cup 0..MaxFaults
    /\ UNCHANGED <<disk, net, job, spos, rcv, verdict>>
RLeaves ==
    /\ rpc \notin Stopped /\ REnd(-1) /\ faults' \in {faults} \cup 0..MaxFaults
    /\ UNCHANGED <<disk, net, job, snd, look, prog, verdict>>

\* The two ways to the command RESTART.
RRestarts == \E n \in Names :
    /\ RLookup(n)
    /\ RSend(Command(RESTART))
    /\ rexit' \in {rexit, -1} /\ faults' \in {faults} \cup 0..MaxFaults
    /\ rpc' = "open"
    /\ UNCHANGED <<disk, job, snd, prog, verdict>>

\* The sender goes to clean_up, or ends, in one of the ways SLeaves describes.
LEMMA SLeavesCases ==
  ASSUME TypeOK, SZipFails \/ SRmZip \/ SEof \/ SBrokenPipe \/ STimeout \/ SDies
  PROVE  SLeaves
  BY BoundAssumption DEF TypeOK, SZipFails, SRmZip, SEof, SBrokenPipe, STimeout, SDies,
       SLeaves, SEnd, SWaiting, Fault, Stopped,
       disk, net, job, rcv, look, prog

\* The receiver goes to clean_up with -1, or ends, as RLeaves describes.
LEMMA RLeavesCases ==
  ASSUME TypeOK, REof \/ RBrokenPipe \/ RTimeout \/ RDies
  PROVE  RLeaves
  BY BoundAssumption DEF TypeOK, REof, RBrokenPipe, RTimeout, RDies, RLeaves, REnd,
       RWaiting, RMore, RAll, Fault, Stopped,
       disk, net, job, snd, look, prog

\* Whatever the reason, the command RESTART goes out as RRestarts describes.
LEMMA RRestartsCases ==
  ASSUME TypeOK, RFindNone \/ RFindUnusable
  PROVE  RRestarts
  BY BoundAssumption DEF TypeOK, RFindNone, RFindUnusable, RRestarts, Fault

\* The steps of Transfer, by what they have in common.
LEMMA NextCases ==
  ASSUME TypeOK, [Next]_vars
  PROVE  \/ SZip \/ SSendHash \/ SRecvCommand \/ SAgree \/ SDecline \/ SRecvOffset \/ SOpen
         \/ SSendPacket \/ SRecvVerdict \/ SLeaves
         \/ RRestarts \/ RFindCheckpoint \/ RResume \/ RStartOver \/ ROpen \/ RRecvSize
         \/ RWritePacket \/ RFlushFails \/ RDiesWriting \/ RTmpOpen \/ RTmpWrite
         \/ RTmpFlushFails \/ RRename \/ RMatch
         \/ RMismatch \/ RExtract \/ RExtracted \/ RRmZip \/ RRmCkpt \/ RLeaves
         \/ ConnectionLost \/ StartAttempt \/ UNCHANGED vars
  BY SLeavesCases, RLeavesCases, RRestartsCases DEF Next, SStep, SFault, RStep, RFault

-----------------------------------------------------------------------------
(* Queues and messages. *)

\* Sequences of one message.
LEMMA One ==
  ASSUME NEW m
  PROVE  Append(<<>>, m) = <<m>> /\ Head(<<m>>) = m /\ Tail(<<m>>) = <<>> /\ <<m>> # <<>>  /\ Len(<<m>>) = 1
  OBVIOUS

\* The next packet continues the stream of filerail_sendfile.
LEMMA PacketsAppend ==
  ASSUME NEW S, NEW q \in Seq(S), NEW pos \in Nat, Packets(q, pos),
         NEW k \in Nat, k = pos + Len(q), DataPacket(Block(offered, k + 1)) \in S
  PROVE  Packets(Append(q, DataPacket(Block(offered, k + 1))), pos)
<1> DEFINE m == DataPacket(Block(offered, k + 1))
<1>1. Len(Append(q, m)) = Len(q) + 1 /\ Len(q) \in Nat
  BY AppendProperties
<1>2. ASSUME NEW i \in 1..Len(q) + 1
      PROVE  Append(q, m)[i] = DataPacket(Block(offered, pos + i))
  <2>1. CASE i \in 1..Len(q)
    BY <1>1, <2>1, AppendProperties DEF Packets
  <2>2. CASE i = Len(q) + 1
    <3>1. pos + i = k + 1
      BY <1>1, <2>2
    <3> QED
      BY <1>1, <2>2, <3>1, AppendProperties
  <2> QED
    BY <1>1, <2>1, <2>2
<1> QED
  BY <1>1, <1>2 DEF Packets

\* The receiver takes the packet that follows its position.
LEMMA PacketsTail ==
  ASSUME NEW S, NEW q \in Seq(S), NEW pos \in Nat, Packets(q, pos), q # <<>>
  PROVE  Head(q) = DataPacket(Block(offered, pos + 1)) /\ Packets(Tail(q), pos + 1) /\ Len(Tail(q)) = Len(q) - 1
  BY HeadTailProperties DEF Packets

\* The next packet continues a stream that starts with the archive size.
LEMMA StreamAppend ==
  ASSUME NEW S, NEW q \in Seq(S), NEW pos \in Nat, Stream(q, pos), q # <<>>,
         NEW k \in Nat, k + 1 = pos + Len(q), DataPacket(Block(offered, k + 1)) \in S
  PROVE  Stream(Append(q, DataPacket(Block(offered, k + 1))), pos)
<1>1. Tail(q) \in Seq(S) /\ Len(Tail(q)) = Len(q) - 1 /\ Packets(Tail(q), pos)
  BY HeadTailProperties DEF Stream
<1>2. Tail(Append(q, DataPacket(Block(offered, k + 1)))) = Append(Tail(q), DataPacket(Block(offered, k + 1)))
  OBVIOUS
<1>3. Head(Append(q, DataPacket(Block(offered, k + 1)))) = Head(q)
  OBVIOUS
<1>4. Packets(Append(Tail(q), DataPacket(Block(offered, k + 1))), pos)
  <2>1. k = pos + Len(Tail(q))
    BY <1>1
  <2> QED
    BY <1>1, <2>1, PacketsAppend
<1> QED
  BY <1>2, <1>3, <1>4 DEF Stream

\* The archive size starts the stream.
LEMMA StreamStart ==
  ASSUME NEW pos \in Nat
  PROVE Stream(<<ResourceHeader(ZipLen[offered])>>, pos)
  BY One DEF Stream, Packets

\* What the filerail_send_x calls of the sender build is of its type.
LEMMA SenderMessages ==
  ASSUME NEW c \in Content, NEW n \in Nat, NEW b \in Blocks
  PROVE  /\ ResourceHash(c) \in FromSender /\ Response(OK) \in FromSender
         /\ Response(ABORT) \in FromSender /\ ResourceHeader(n) \in FromSender
         /\ DataPacket(b) \in FromSender
  BY DEF FromSender, ResourceHash, Response, ResourceHeader, DataPacket

\* What the filerail_send_x calls of the receiver build is of its type.
LEMMA ReceiverMessages ==
  ASSUME NEW n \in Nat
  PROVE  /\ Command(RESUME) \in FromReceiver /\ Command(RESTART) \in FromReceiver
         /\ Response(OK) \in FromReceiver /\ Response(NO_INTEGRITY) \in FromReceiver
         /\ FileOffset(n) \in FromReceiver
  BY DEF FromReceiver, Command, Response, FileOffset

\* A sender that is up knows the length of what it sends.
LEMMA Offered ==
  ASSUME IInv, spc # "idle"
  PROVE  /\ offered \in Content /\ rpath \in Path
         /\ ZipLen[offered] \in Nat /\ ZipLen[offered] > 0
         /\ \A n \in Nat : Block(offered, n) \in Blocks
  BY ContentAssumption DEF IInv, TypeOK, JobInv, Block, Blocks

\* A sending call adds one message if someone is there to receive it.
LEMMA SSendLen ==
  ASSUME TypeOK, NEW m \in FromSender, SSend(m)
  PROVE  /\ s2r' \in Seq(FromSender) /\ Len(s2r') \in Nat /\ Len(s2r) \in Nat
         /\ ReceiverUp => s2r' = Append(s2r, m) /\ Len(s2r') = Len(s2r) + 1
         /\ ~ReceiverUp => s2r' = s2r
         /\ r2s' = r2s /\ conn' = conn
  BY AppendProperties DEF TypeOK, SSend

\* Once the last block is there, the sender has sent it.
LEMMA AllReceived ==
  ASSUME IInv, RAll
  PROVE  /\ spc \in {"final", "done"} /\ rckpt = ZipLen[offered]
         /\ spc = "final" => r2s = <<>>
<1>1. spc # "idle" /\ rpc = "packet" /\ rckpt = ZipLen[offered]
  BY DEF IInv, JobInv, PositionInv, Receiving, RAll
<1>2. ZipLen[offered] \in Nat
  BY <1>1, Offered
<1>3. spc # "data"
  BY <1>1, <1>2 DEF IInv, TypeOK, PositionInv, Receiving
<1>4. spc = "final" => r2s = <<>>
  BY <1>1 DEF IInv, R2SInv, VerdictInv, Judged, Stopped
<1> QED
  BY <1>1, <1>3, <1>4 DEF IInv, StageInv, Receiving

\* Whoever is told to resume gets an offset within the archive.
LEMMA Resuming ==
  ASSUME IInv, RResume
  PROVE  /\ s2r = <<Response(OK)>> /\ s2r' = <<>> /\ conn = "up" /\ spc \in {"offset", "done"}
         /\ spc = "offset" => r2s = <<>>
         /\ rckpt' = ckpt[rname].offset /\ rckpt' \in Nat /\ rckpt' <= ZipLen[offered]
         /\ r2s' = IF spc = "offset" THEN <<FileOffset(rckpt')>> ELSE r2s
<1>1. s2r # <<>> /\ Head(s2r).code = OK /\ rpc = "response" /\ s2r' = Tail(s2r)
  BY DEF RResume, RRecv
<1>2. Head(s2r) # Response(ABORT)
  BY <1>1 DEF Response, OK, ABORT
<1>3. s2r = <<Response(OK)>> /\ spc \in {"offset", "done"} /\ s2r' = <<>>
  BY <1>1, <1>2, One DEF IInv, S2RInv
<1>4. conn = "up" /\ spc # "idle"
  BY <1>1 DEF IInv, TypeOK, JobInv
<1>5. rname \in Names /\ rname[1] = offered /\ ckpt[rname] \in Checkpoint /\ ckpt[rname] \notin {NoFile, Torn, Cut}
  BY <1>1, <1>4, FileAssumption DEF IInv, TypeOK, JobInv, DiskInv, Stopped, CkptName,
       Names
<1>6. ckpt[rname].offset \in Nat /\ ckpt[rname].offset <= ZipLen[offered]
  BY <1>5 DEF IInv, DiskInv, Checkpoint
<1>7. spc = "offset" => r2s = <<>>
  BY <1>1 DEF IInv, R2SInv
<1>8. r2s' = IF spc = "offset" THEN <<FileOffset(rckpt')>> ELSE r2s
  BY <1>3, <1>4, <1>7, One DEF RResume, RSend, SenderUp, Stopped
<1> QED
  BY <1>3, <1>4, <1>6, <1>7, <1>8 DEF RResume

\* Announcing the size leaves just the size (and an ABORT) under way.
LEMMA SOpenLength ==
  ASSUME IInv, SOpen, conn = "up", rpc \notin Stopped
  PROVE  /\ rpc = "response" => Len(s2r') = spos + 2
         /\ rpc \in {"open", "size"} => Len(s2r') = spos - rckpt + 1
<1>1. ResourceHeader(ZipLen[offered]) \in FromSender
  BY Offered, SenderMessages DEF SOpen
<1>2. Len(s2r') = Len(s2r) + 1 /\ Len(s2r) \in Nat
  BY <1>1, SSendLen DEF SOpen, ReceiverUp, IInv
<1>3. CASE rpc = "response"
  <2>1. s2r = <<Response(ABORT)>> /\ spos = 0
    BY <1>3 DEF SOpen, IInv, PositionInv
  <2>2. Len(s2r) = 1
    BY <2>1, One
  <2> QED
    BY <1>2, <1>3, <2>1, <2>2
<1>4. CASE rpc # "response"
  BY <1>2, <1>4 DEF IInv, TypeOK, SOpen, PositionInv
<1> QED
  BY <1>3, <1>4

\* Sending a packet leaves under way what lies between the two positions.
LEMMA SSendPacketLength ==
  ASSUME IInv, SSendPacket, conn = "up", rpc \notin Stopped
  PROVE  /\ rpc = "response" => Len(s2r') = spos + 3
         /\ rpc \in {"open", "size"} => Len(s2r') = spos - rckpt + 2
         /\ rpc \in Receiving => Len(s2r') = spos - rckpt + 1
<1>1. DataPacket(Block(offered, spos + 1)) \in FromSender /\ spos \in Nat /\ rckpt \in Nat
  BY Offered, SenderMessages DEF SSendPacket, IInv, TypeOK
<1>2. Len(s2r') = Len(s2r) + 1 /\ Len(s2r) \in Nat
  BY <1>1, SSendLen DEF SSendPacket, ReceiverUp, IInv
<1>3. /\ rpc = "response" => Len(s2r) = spos + 2
      /\ rpc \in {"open", "size"} => Len(s2r) = spos - rckpt + 1
      /\ rpc \in Receiving => Len(s2r) = spos - rckpt
  BY DEF IInv, PositionInv, SSendPacket
<1> QED
  BY <1>1, <1>2, <1>3

\* A packet sent while the receiver is anywhere before it in the dialogue queues
\* up behind what it will take first.
LEMMA SSendPacketQueue ==
  ASSUME IInv, SSendPacket
  PROVE  /\ rpc = "response" => \/ s2r' = <<>>
                                \/ Head(s2r') = Response(ABORT) /\ Stream(Tail(s2r'), 0)
         /\ rpc \in {"open", "size"} => Stream(s2r', rckpt)
         /\ rpc \in Receiving => Packets(s2r', rckpt)
<1> DEFINE m == DataPacket(Block(offered, spos + 1))
<1>1. /\ m \in FromSender /\ spos \in Nat /\ rckpt \in Nat
      /\ s2r \in Seq(FromSender) /\ Len(s2r) \in Nat
  BY Offered, SenderMessages, LenProperties DEF SSendPacket, IInv, TypeOK
<1>2. CASE ReceiverUp
  <2>1. s2r' = Append(s2r, m)
    BY <1>2 DEF SSendPacket, SSend
  <2>2. CASE rpc = "response"
    <3>1. Len(s2r) = spos + 2
      BY <1>2, <2>2 DEF IInv, PositionInv, SSendPacket, ReceiverUp
    <3>2. s2r # <<>> /\ Head(s2r) = Response(ABORT) /\ Stream(Tail(s2r), 0)
      BY <1>1, <2>2, <3>1, One, EmptySeq DEF IInv, S2RInv, SSendPacket
    <3>3. Tail(s2r) \in Seq(FromSender) /\ Len(Tail(s2r)) = spos + 1
      BY <1>1, <3>1, <3>2, HeadTailProperties
    <3>4. Head(s2r') = Response(ABORT) /\ Tail(s2r') = Append(Tail(s2r), m)
      BY <1>1, <2>1, <3>2, HeadTailAppend
    <3>5. Stream(Append(Tail(s2r), m), 0)
      <4> HIDE DEF m
      <4>0. spos \in Nat
        BY <1>1
      <4>1. spos + 1 = 0 + Len(Tail(s2r)) /\ Len(Tail(s2r)) # 0
        BY <3>3, <4>0
      <4>2. Tail(s2r) # <<>>
        BY <3>3, <4>1, EmptySeq
      <4> QED
        BY <1>1, <3>2, <3>3, <4>1, <4>2, StreamAppend DEF m
    <3> QED
      BY <2>2, <3>4, <3>5 DEF Receiving
  <2>3. CASE rpc \in {"open", "size"}
    <3>1. spos + 1 = rckpt + Len(s2r) /\ rckpt <= spos /\ s2r # <<>>
      BY <1>1, <1>2, <2>3, EmptySeq DEF IInv, PositionInv, SSendPacket, ReceiverUp
    <3>2. Stream(s2r', rckpt)
      BY <1>1, <2>1, <2>3, <3>1, StreamAppend DEF IInv, S2RInv
    <3> QED
      BY <2>3, <3>2 DEF Receiving
  <2>4. CASE rpc \in Receiving
    <3>1. spos = rckpt + Len(s2r)
      BY <1>1, <1>2, <2>4 DEF IInv, PositionInv, SSendPacket, ReceiverUp
    <3>2. Packets(s2r', rckpt)
      BY <1>1, <2>1, <2>4, <3>1, PacketsAppend DEF IInv, S2RInv
    <3> QED
      BY <2>4, <3>2 DEF Receiving
  <2> QED
    BY <2>2, <2>3, <2>4
<1>3. CASE conn = "down"
  <2>1. s2r = <<>> /\ s2r' = <<>>
    BY <1>3 DEF IInv, JobInv, SSendPacket, SSend, ReceiverUp
  <2> QED
    BY <2>1 DEF Stream, Packets
<1>4. CASE rpc \in Stopped
  BY <1>4 DEF Stopped, Receiving
<1> QED
  BY <1>2, <1>3, <1>4 DEF ReceiverUp, IInv, TypeOK

\* After ABORT the receiver finds the stream from the start of the archive.
LEMMA RStartOverQueue ==
  ASSUME IInv, RStartOver
  PROVE  Stream(s2r', rckpt) /\ spc \notin {"command", "prompt", "offset"}
<1>1. s2r # <<>> /\ Head(s2r).code = ABORT /\ s2r' = Tail(s2r) /\ rpc = "response"
  BY DEF RStartOver, RRecv
<1>2. s2r # <<Response(OK)>>
  BY <1>1, One DEF Response, OK, ABORT
<1> QED
  BY <1>1, <1>2 DEF IInv, S2RInv, PositionInv

\* A call that sends keeps the types of the connection.
LEMMA SSendType ==
  ASSUME TypeOK, NEW m \in FromSender, SSend(m)
  PROVE  /\ s2r' \in Seq(FromSender) /\ r2s' \in Seq(FromReceiver)
         /\ conn' \in {"up", "down"} /\ unaware' \in SUBSET {"s", "r"}
  BY DEF TypeOK, SSend

\* A call that sends keeps the types of the connection.
LEMMA RSendType ==
  ASSUME TypeOK, NEW m \in FromReceiver, RSend(m)
  PROVE  /\ r2s' \in Seq(FromReceiver)
         /\ conn' \in {"up", "down"} /\ unaware' \in SUBSET {"s", "r"}
  BY DEF TypeOK, RSend

\* A call that receives finds a message of its peer.
LEMMA SRecvType ==
  ASSUME TypeOK, SRecv
  PROVE  /\ Head(r2s) \in FromReceiver
         /\ s2r' \in Seq(FromSender) /\ r2s' \in Seq(FromReceiver)
         /\ conn' \in {"up", "down"} /\ unaware' \in SUBSET {"s", "r"}
  BY HeadTailProperties DEF TypeOK, SRecv

\* A call that receives finds a message of its peer.
LEMMA RRecvType ==
  ASSUME TypeOK, RRecv
  PROVE  Head(s2r) \in FromSender /\ s2r' \in Seq(FromSender)
  BY HeadTailProperties DEF TypeOK, RRecv

\* The hash that arrives is the offered one, and the name is formed from it.
LEMMA Looking ==
  ASSUME IInv, NEW n \in Names, RLookup(n)
  PROVE  /\ rhash' = offered /\ rname' = n /\ rhash' \in Content
         /\ n \in {CkptName(offered, t) : t \in Trailer}
  BY One DEF IInv, JobInv, S2RInv, RLookup, RRecv, ResourceHash, Stopped

\* A block that arrives is the next one of the version on offer, and what is
\* written is an archive again.
LEMMA Writing ==
  ASSUME IInv, RMore, RRecv
  PROVE  /\ rpath \in Path /\ zip[rpath] \in Seq(Blocks)
         /\ WriteAt(zip[rpath], rpos, Decrypted(Head(s2r).payload)) \in Seq(Blocks)
         /\ PartWrites(zip[rpath], rpos, Decrypted(Head(s2r).payload)) \subseteq Seq(Blocks)
<1>1. rpath \in Path /\ zip[rpath] \in Seq(Blocks) /\ offered \in Content
  BY DEF IInv, TypeOK, JobInv, DiskInv, RMore, Receiving, Stopped
<1>2. Head(s2r) = DataPacket(Block(offered, rckpt + 1))
  BY DEF IInv, TypeOK, S2RInv, RMore, Receiving, RRecv, Packets
<1>3. Decrypted(Head(s2r).payload) \in Blocks /\ Block(Garbled, 0) \in Blocks
  BY <1>1, <1>2 DEF IInv, TypeOK, Decrypted, DataPacket, Block, Blocks
<1>4. WriteAt(zip[rpath], rpos, Decrypted(Head(s2r).payload)) \in Seq(Blocks)
  BY <1>1, <1>3 DEF IInv, TypeOK, WriteAt
<1>5. PartWrites(zip[rpath], rpos, Decrypted(Head(s2r).payload)) \subseteq Seq(Blocks)
  <2>1. rpos < Len(zip[rpath]) => [zip[rpath] EXCEPT ![rpos + 1] = Block(Garbled, 0)] \in Seq(Blocks)
    <3>1. rpos \in Nat /\ Len(zip[rpath]) \in Nat
      BY <1>1, LenProperties DEF IInv, TypeOK
    <3> QED
      BY <1>1, <1>3, <3>1, ExceptSeq
  <2> QED
    BY <1>1, <2>1 DEF PartWrites
<1> QED
  BY <1>1, <1>4, <1>5

\* What extraction installs is a version, or nothing whole.
LEMMA ExtractedType ==
  ASSUME NEW f
  PROVE  Extracted(f) \in Content \cup {Torn}
  BY DEF Extracted

\* The receiver knows its checkpoint's name, and has a place in the archive.
LEMMA Named ==
  ASSUME IInv, rpc \notin Stopped \cup {"hash"}
  PROVE  /\ rname \in Names /\ rname[1] = offered /\ rpath \in Path /\ offered \in Content
         /\ NewCkpt \in Checkpoint /\ NewCkpt.offset = rckpt /\ NewCkpt \notin {NoFile, Torn, Cut}
  BY FileAssumption DEF IInv, TypeOK, JobInv, Stopped, CkptName, Names, NewCkpt,
       Checkpoint

-----------------------------------------------------------------------------
(* Each part of IInv is kept by every step. *)

\* Every step keeps the types.
LEMMA TypeStep == IInv /\ [Next]_vars => TypeOK'
  <1> SUFFICES ASSUME IInv, [Next]_vars PROVE TypeOK'
      OBVIOUS
  <1> USE ContentAssumption, BoundAssumption DEF IInv, JobInv, TypeOK, Stopped, disk,
          net, job, look, prog, snd, rcv
  <1>1. CASE SZip
    BY <1>1 DEF SZip
  <1>2. CASE SSendHash
    <2>1. ResourceHash(offered) \in FromSender
      BY <1>2, Offered, SenderMessages DEF SSendHash
    <2> QED
      BY <1>2, <2>1, SSendType DEF SSendHash, SLoop
  <1>3. CASE SRecvCommand
    BY <1>3, SRecvType DEF SRecvCommand, AfterCommand
  <1>4. CASE SAgree
    <2>1. Response(OK) \in FromSender
      BY <1>4, Offered, SenderMessages DEF SAgree
    <2> QED
      BY <1>4, <2>1, SSendType DEF SAgree, SLoop
  <1>5. CASE SDecline
    <2>1. Response(ABORT) \in FromSender
      BY <1>5, Offered, SenderMessages DEF SDecline
    <2> QED
      BY <1>5, <2>1, SSendType DEF SDecline, SLoop
  <1>6. CASE SRecvOffset
    <2>1. Head(r2s) = FileOffset(rckpt)
      BY <1>6, One DEF SRecvOffset, SRecv, R2SInv
    <2> QED
      BY <1>6, <2>1, SRecvType DEF SRecvOffset, FileOffset
  <1>7. CASE SOpen
    <2>1. ResourceHeader(ZipLen[offered]) \in FromSender
      BY <1>7, Offered, SenderMessages DEF SOpen
    <2> QED
      BY <1>7, <2>1, SSendType DEF SOpen, SLoop
  <1>8. CASE SSendPacket
    <2>1. DataPacket(Block(offered, spos + 1)) \in FromSender
      BY <1>8, Offered, SenderMessages DEF SSendPacket
    <2> QED
      BY <1>8, <2>1, SSendType DEF SSendPacket, SLoop
  <1>9. CASE SRecvVerdict
    BY <1>9, SRecvType DEF SRecvVerdict, ExitFor
  <1>10. CASE SLeaves
    BY <1>10 DEF SLeaves, SEnd
  <1>11. CASE RRestarts
    <2>1. Command(RESTART) \in FromReceiver
      BY <1>11, ReceiverMessages
    <2> QED
      BY <1>11, <2>1, RSendType, RRecvType, Looking DEF RRestarts, RLookup
  <1>12. CASE RFindCheckpoint
    <2>1. Command(RESUME) \in FromReceiver
      BY <1>12, ReceiverMessages
    <2> QED
      BY <1>12, <2>1, RSendType, RRecvType, Looking DEF RFindCheckpoint, RLookup
  <1>13. CASE RResume
    <2>1. rckpt' \in Nat /\ FileOffset(rckpt') \in FromReceiver
      BY <1>13, Resuming, ReceiverMessages
    <2> QED
      BY <1>13, <2>1, RSendType, RRecvType DEF RResume
  <1>14. CASE RStartOver
    BY <1>14, RRecvType DEF RStartOver
  <1>15. CASE ROpen
    <2>1. rpath \in Path /\ <<>> \in Seq(Blocks)
      BY <1>15, Named, EmptySeq DEF ROpen
    <2>2. SkipTo(rckpt) \subseteq Nat
      BY DEF SkipTo
    <2>3. rpos' \in Nat
      BY <1>15, <2>2 DEF ROpen
    <2>4. zip' \in [Path -> Seq(Blocks) \cup {NoFile}]
      BY <1>15, <2>1 DEF ROpen
    <2> QED
      BY <1>15, <2>3, <2>4 DEF ROpen
  <1>16. CASE RRecvSize
    <2>1. Head(s2r) = ResourceHeader(ZipLen[offered]) /\ ZipLen[offered] \in Nat
      BY <1>16, Offered DEF RRecvSize, RRecv, S2RInv, Stream
    <2> QED
      BY <1>16, <2>1, RRecvType DEF RRecvSize, ResourceHeader
  <1>17. CASE RWritePacket
    BY <1>17, Writing, RRecvType DEF RWritePacket, RMore
  <1>17a. CASE RFlushFails
    BY <1>17a DEF RFlushFails, RMore, RRecv, Fault
  <1>18. CASE RDiesWriting
    BY <1>18, Writing, RRecvType DEF RDiesWriting, RMore, REnd, Fault
  <1>19. CASE RTmpOpen
    BY <1>19, Named DEF RTmpOpen
  <1>20. CASE RTmpWrite
    BY <1>20, Named DEF RTmpWrite
  <1>20a. CASE RTmpFlushFails
    BY <1>20a, Named DEF RTmpFlushFails, Fault
  <1>21. CASE RRename
    BY <1>21, Named DEF RRename
  <1>22. CASE RMatch
    <2>1. Response(OK) \in FromReceiver
      BY <1>22, ReceiverMessages DEF RMatch
    <2> QED
      BY <1>22, <2>1, RSendType DEF RMatch
  <1>23. CASE RMismatch
    <2>1. Response(NO_INTEGRITY) \in FromReceiver
      BY <1>23, ReceiverMessages DEF RMismatch
    <2> QED
      BY <1>23, <2>1, RSendType DEF RMismatch
  <1>24. CASE RExtract
    BY <1>24 DEF RExtract
  <1>25. CASE RExtracted
    BY <1>25, Named, ExtractedType DEF RExtracted
  <1>26. CASE RRmZip
    BY <1>26, Named DEF RRmZip
  <1>27. CASE RRmCkpt
    BY <1>27, Named DEF RRmCkpt, REnd
  <1>28. CASE RLeaves
    BY <1>28 DEF RLeaves, REnd
  <1>29. CASE ConnectionLost
    BY <1>29 DEF ConnectionLost, Fault
  <1>30. CASE StartAttempt
    BY <1>30 DEF StartAttempt
  <1>31. CASE UNCHANGED vars
    BY <1>31 DEF vars
  <1> QED
    BY <1>1, <1>2, <1>3, <1>4, <1>5, <1>6, <1>7, <1>8, <1>9, <1>10, <1>11, <1>12, <1>13,
         <1>14, <1>15, <1>16, <1>17, <1>17a, <1>18, <1>19, <1>20, <1>20a, <1>21, <1>22, <1>23, <1>24,
         <1>25, <1>26, <1>27, <1>28, <1>29, <1>30, <1>31, NextCases

\* Every step keeps JobInv: the hash that arrives is the one on offer.
LEMMA JobStep == IInv /\ [Next]_vars => JobInv'
  <1> SUFFICES ASSUME IInv, [Next]_vars PROVE JobInv'
      OBVIOUS
  <1> USE ContentAssumption DEF IInv, JobInv, TypeOK, Stopped, S2RInv, R2SInv, StageInv,
          Receiving, Judged, disk, net, job, look, prog, snd, rcv
  <1>1. CASE SZip
    BY <1>1 DEF SZip
  <1>2. CASE SSendHash
    BY <1>2 DEF SSendHash, SSend, ReceiverUp
  <1>3. CASE SRecvCommand
    BY <1>3 DEF SRecvCommand, SRecv, AfterCommand
  <1>4. CASE SAgree
    BY <1>4 DEF SAgree, SSend, ReceiverUp
  <1>5. CASE SDecline
    BY <1>5 DEF SDecline, SSend, ReceiverUp
  <1>6. CASE SRecvOffset
    BY <1>6 DEF SRecvOffset, SRecv
  <1>7. CASE SOpen
    BY <1>7 DEF SOpen, SSend, ReceiverUp, SLoop
  <1>8. CASE SSendPacket
    BY <1>8 DEF SSendPacket, SSend, ReceiverUp, SLoop
  <1>9. CASE SRecvVerdict
    BY <1>9 DEF SRecvVerdict, SRecv, ExitFor
  <1>10. CASE SLeaves
    BY <1>10 DEF SLeaves, SEnd
  <1>11. CASE RRestarts
    BY <1>11 DEF RRestarts, RLookup, RRecv, RSend, SenderUp, ResourceHash, Names,
         CkptName
  <1>12. CASE RFindCheckpoint
    BY <1>12 DEF RFindCheckpoint, RLookup, RRecv, RSend, SenderUp, ResourceHash, Names,
         CkptName
  <1>13. CASE RResume
    BY <1>13 DEF RResume, RRecv, RSend, SenderUp
  <1>14. CASE RStartOver
    BY <1>14 DEF RStartOver, RRecv
  <1>15. CASE ROpen
    BY <1>15 DEF ROpen
  <1>16. CASE RRecvSize
    BY <1>16 DEF RRecvSize, RRecv
  <1>17. CASE RWritePacket
    BY <1>17 DEF RWritePacket, RMore, RRecv
  <1>17a. CASE RFlushFails
    BY <1>17a DEF RFlushFails, RMore, RRecv, Fault
  <1>18. CASE RDiesWriting
    BY <1>18 DEF RDiesWriting, RMore, RRecv, REnd, Fault
  <1>19. CASE RTmpOpen
    BY <1>19 DEF RTmpOpen
  <1>20. CASE RTmpWrite
    BY <1>20 DEF RTmpWrite
  <1>20a. CASE RTmpFlushFails
    BY <1>20a DEF RTmpFlushFails, Fault
  <1>21. CASE RRename
    BY <1>21 DEF RRename
  <1>22. CASE RMatch
    BY <1>22 DEF RMatch, RAll, RSend, SenderUp
  <1>23. CASE RMismatch
    BY <1>23 DEF RMismatch, RAll, RSend, SenderUp
  <1>24. CASE RExtract
    BY <1>24 DEF RExtract
  <1>25. CASE RExtracted
    BY <1>25 DEF RExtracted
  <1>26. CASE RRmZip
    BY <1>26 DEF RRmZip
  <1>27. CASE RRmCkpt
    BY <1>27 DEF RRmCkpt, REnd
  <1>28. CASE RLeaves
    BY <1>28 DEF RLeaves, REnd
  <1>29. CASE ConnectionLost
    BY <1>29 DEF ConnectionLost, Fault
  <1>30. CASE StartAttempt
    BY <1>30 DEF StartAttempt
  <1>31. CASE UNCHANGED vars
    BY <1>31 DEF vars
  <1> QED
    BY <1>1, <1>2, <1>3, <1>4, <1>5, <1>6, <1>7, <1>8, <1>9, <1>10, <1>11, <1>12, <1>13,
         <1>14, <1>15, <1>16, <1>17, <1>17a, <1>18, <1>19, <1>20, <1>20a, <1>21, <1>22, <1>23, <1>24,
         <1>25, <1>26, <1>27, <1>28, <1>29, <1>30, <1>31, NextCases

\* Every step keeps StageInv: neither handler runs ahead of the other.
LEMMA StageStep == IInv /\ [Next]_vars => StageInv'
  <1> SUFFICES ASSUME IInv, [Next]_vars PROVE StageInv'
      OBVIOUS
  <1> USE ContentAssumption DEF IInv, JobInv, TypeOK, Stopped, S2RInv, R2SInv, StageInv,
          PositionInv, Receiving, Judged, disk, net, job, look, prog, snd, rcv
  <1>1. CASE SZip
    BY <1>1 DEF SZip
  <1>2. CASE SSendHash
    BY <1>2 DEF SSendHash, SSend, ReceiverUp
  <1>3. CASE SRecvCommand
    BY <1>3, One DEF SRecvCommand, SRecv, AfterCommand, Command, RESUME, RESTART
  <1>4. CASE SAgree
    BY <1>4 DEF SAgree, SSend, ReceiverUp
  <1>5. CASE SDecline
    BY <1>5 DEF SDecline, SSend, ReceiverUp
  <1>6. CASE SRecvOffset
    BY <1>6 DEF SRecvOffset, SRecv
  <1>7. CASE SOpen
    BY <1>7 DEF SOpen, SSend, ReceiverUp, SLoop
  <1>8. CASE SSendPacket
    BY <1>8 DEF SSendPacket, SSend, ReceiverUp, SLoop
  <1>9. CASE SRecvVerdict
    BY <1>9 DEF SRecvVerdict, SRecv, ExitFor, VerdictInv
  <1>10. CASE SLeaves
    BY <1>10 DEF SLeaves, SEnd
  <1>11. CASE RRestarts
    BY <1>11 DEF RRestarts, RLookup, RRecv, RSend, SenderUp
  <1>12. CASE RFindCheckpoint
    BY <1>12 DEF RFindCheckpoint, RLookup, RRecv, RSend, SenderUp
  <1>13. CASE RResume
    BY <1>13 DEF RResume, RRecv, RSend, SenderUp
  <1>14. CASE RStartOver
    BY <1>14 DEF RStartOver, RRecv
  <1>15. CASE ROpen
    BY <1>15 DEF ROpen
  <1>16. CASE RRecvSize
    BY <1>16 DEF RRecvSize, RRecv
  <1>17. CASE RWritePacket
    BY <1>17 DEF RWritePacket, RMore, RRecv
  <1>17a. CASE RFlushFails
    BY <1>17a DEF RFlushFails, RMore, RRecv, Fault
  <1>18. CASE RDiesWriting
    BY <1>18 DEF RDiesWriting, RMore, RRecv, REnd, Fault
  <1>19. CASE RTmpOpen
    BY <1>19 DEF RTmpOpen
  <1>20. CASE RTmpWrite
    BY <1>20 DEF RTmpWrite
  <1>20a. CASE RTmpFlushFails
    BY <1>20a DEF RTmpFlushFails, Fault
  <1>21. CASE RRename
    BY <1>21 DEF RRename
  <1>22. CASE RMatch
    BY <1>22 DEF RMatch, RAll, RSend, SenderUp
  <1>23. CASE RMismatch
    BY <1>23 DEF RMismatch, RAll, RSend, SenderUp
  <1>24. CASE RExtract
    BY <1>24 DEF RExtract
  <1>25. CASE RExtracted
    BY <1>25 DEF RExtracted
  <1>26. CASE RRmZip
    BY <1>26 DEF RRmZip
  <1>27. CASE RRmCkpt
    BY <1>27 DEF RRmCkpt, REnd
  <1>28. CASE RLeaves
    BY <1>28 DEF RLeaves, REnd
  <1>29. CASE ConnectionLost
    BY <1>29 DEF ConnectionLost, Fault
  <1>30. CASE StartAttempt
    BY <1>30 DEF StartAttempt
  <1>31. CASE UNCHANGED vars
    BY <1>31 DEF vars
  <1> QED
    BY <1>1, <1>2, <1>3, <1>4, <1>5, <1>6, <1>7, <1>8, <1>9, <1>10, <1>11, <1>12, <1>13,
         <1>14, <1>15, <1>16, <1>17, <1>17a, <1>18, <1>19, <1>20, <1>20a, <1>21, <1>22, <1>23, <1>24,
         <1>25, <1>26, <1>27, <1>28, <1>29, <1>30, <1>31, NextCases

\* Every step keeps S2RInv: the sender's queue is what the receiver expects.
LEMMA S2RStep == IInv /\ [Next]_vars => S2RInv'
  <1> SUFFICES ASSUME IInv, [Next]_vars PROVE S2RInv'
      OBVIOUS
  <1> USE DEF IInv, JobInv, TypeOK, Stopped, S2RInv, StageInv, PositionInv, Receiving,
          Judged, Packets, Stream, disk, net, job, look, prog, snd, rcv
  <1>1. CASE SZip
    BY <1>1 DEF SZip
  <1>2. CASE SSendHash
    BY <1>2, One DEF SSendHash, SSend, ReceiverUp
  <1>3. CASE SRecvCommand
    BY <1>3 DEF SRecvCommand, SRecv, AfterCommand, Command, RESUME, RESTART, R2SInv
  <1>4. CASE SAgree
    BY <1>4, One DEF SAgree, SSend, ReceiverUp
  <1>5. CASE SDecline
    BY <1>5, One DEF SDecline, SSend, ReceiverUp
  <1>6. CASE SRecvOffset
    BY <1>6 DEF SRecvOffset, SRecv, R2SInv
  <1>7. CASE SOpen
    BY <1>7 DEF SOpen, SSend, ReceiverUp, SLoop
  <1>8. CASE SSendPacket
    <2>1. spc = "data" /\ spc' \in {"data", "final"} /\ rpc' = rpc /\ rckpt' = rckpt /\ offered' = offered
      BY <1>8 DEF SSendPacket, SLoop
    <2> QED
      BY <1>8, <2>1, SSendPacketQueue
  <1>9. CASE SRecvVerdict
    BY <1>9 DEF SRecvVerdict, SRecv, ExitFor
  <1>10. CASE SLeaves
    BY <1>10 DEF SLeaves, SEnd
  <1>11. CASE RRestarts
    BY <1>11, One DEF RRestarts, RLookup, RRecv, RSend, SenderUp
  <1>12. CASE RFindCheckpoint
    BY <1>12, One DEF RFindCheckpoint, RLookup, RRecv, RSend, SenderUp
  <1>13. CASE RResume
    BY <1>13, Resuming DEF RResume, RRecv, RSend, SenderUp
  <1>14. CASE RStartOver
    BY <1>14, RStartOverQueue DEF RStartOver
  <1>15. CASE ROpen
    BY <1>15 DEF ROpen
  <1>16. CASE RRecvSize
    BY <1>16 DEF RRecvSize, RRecv
  <1>17. CASE RWritePacket
    BY <1>17 DEF RWritePacket, RMore, RRecv
  <1>17a. CASE RFlushFails
    BY <1>17a DEF RFlushFails, RMore, RRecv, Fault
  <1>18. CASE RDiesWriting
    BY <1>18 DEF RDiesWriting, RMore, RRecv, REnd, Fault
  <1>19. CASE RTmpOpen
    BY <1>19 DEF RTmpOpen
  <1>20. CASE RTmpWrite
    BY <1>20 DEF RTmpWrite
  <1>20a. CASE RTmpFlushFails
    BY <1>20a DEF RTmpFlushFails, Fault
  <1>21. CASE RRename
    BY <1>21 DEF RRename
  <1>22. CASE RMatch
    BY <1>22 DEF RMatch, RAll, RSend, SenderUp
  <1>23. CASE RMismatch
    BY <1>23 DEF RMismatch, RAll, RSend, SenderUp
  <1>24. CASE RExtract
    BY <1>24 DEF RExtract
  <1>25. CASE RExtracted
    BY <1>25 DEF RExtracted
  <1>26. CASE RRmZip
    BY <1>26 DEF RRmZip
  <1>27. CASE RRmCkpt
    BY <1>27 DEF RRmCkpt, REnd
  <1>28. CASE RLeaves
    BY <1>28 DEF RLeaves, REnd
  <1>29. CASE ConnectionLost
    BY <1>29 DEF ConnectionLost, Fault
  <1>30. CASE StartAttempt
    BY <1>30 DEF StartAttempt
  <1>31. CASE UNCHANGED vars
    BY <1>31 DEF vars
  <1> QED
    BY <1>1, <1>2, <1>3, <1>4, <1>5, <1>6, <1>7, <1>8, <1>9, <1>10, <1>11, <1>12, <1>13,
         <1>14, <1>15, <1>16, <1>17, <1>17a, <1>18, <1>19, <1>20, <1>20a, <1>21, <1>22, <1>23, <1>24,
         <1>25, <1>26, <1>27, <1>28, <1>29, <1>30, <1>31, NextCases

\* Every step keeps PositionInv: no block is lost or sent twice.
LEMMA PositionStep == IInv /\ [Next]_vars => PositionInv'
  <1> SUFFICES ASSUME IInv, [Next]_vars PROVE PositionInv'
      OBVIOUS
  <1> USE ContentAssumption DEF IInv, JobInv, TypeOK, Stopped, S2RInv, R2SInv, StageInv,
          PositionInv, Receiving, Judged, disk, net, job, look, prog, snd, rcv
  <1>1. CASE SZip
    BY <1>1 DEF SZip
  <1>2. CASE SSendHash
    BY <1>2 DEF SSendHash, SSend, ReceiverUp
  <1>3. CASE SRecvCommand
    BY <1>3, One DEF SRecvCommand, SRecv, AfterCommand, Command, RESUME, RESTART
  <1>4. CASE SAgree
    BY <1>4 DEF SAgree, SSend, ReceiverUp
  <1>5. CASE SDecline
    <2>1. spos = 0 /\ rpc \in {"response", "done"} /\ (rpc = "response" => s2r = <<>>)
      BY <1>5 DEF SDecline
    <2>2. ZipLen[offered] \in Nat
      BY <1>5, Offered DEF SDecline
    <2>3. conn = "up" /\ rpc = "response" => s2r' = <<Response(ABORT)>>
      BY <1>5, <2>1, One DEF SDecline, SSend, ReceiverUp
    <2>4. spc' = "open" /\ spos' = 0 /\ conn' = conn
      BY <1>5, <2>1 DEF SDecline, SSend
    <2>5. rpc = "response" => Len(s2r') <= 1
      BY <1>5, <2>1, <2>3, One, EmptySeq DEF SDecline, SSend, ReceiverUp
    <2> QED
      BY <1>5, <2>1, <2>2, <2>3, <2>4, <2>5 DEF SDecline
  <1>6. CASE SRecvOffset
    BY <1>6 DEF SRecvOffset, SRecv, FileOffset
  <1>7. CASE SOpen
    <2>1. ResourceHeader(ZipLen[offered]) \in FromSender /\ ZipLen[offered] \in Nat
      BY <1>7, Offered, SenderMessages DEF SOpen
    <2>2. /\ ReceiverUp => Len(s2r') = Len(s2r) + 1
          /\ ~ReceiverUp => s2r' = s2r
          /\ Len(s2r) \in Nat /\ conn' = conn
      BY <1>7, <2>1, SSendLen DEF SOpen
    <2>3. spos' = spos /\ spos \in Nat /\ spos <= ZipLen[offered] /\ spc' \in {"data", "final"}
          /\ (spc' = "data" => spos < ZipLen[offered])
      BY <1>7, <2>1 DEF SOpen, SLoop
    <2>4. rpc \in {"open", "size"} \cup Receiving => rckpt <= spos
      BY <1>7 DEF SOpen
    <2>5. CASE conn = "up" /\ rpc \notin Stopped
      <3>1. rpc \notin Receiving
        BY <1>7 DEF SOpen
      <3> QED
        BY <1>7, <2>1, <2>2, <2>3, <2>4, <2>5, <3>1, SOpenLength DEF SOpen
    <2>6. CASE ~(conn = "up" /\ rpc \notin Stopped)
      BY <1>7, <2>1, <2>2, <2>3, <2>4, <2>6 DEF SOpen, ReceiverUp
    <2> QED
      BY <2>5, <2>6
  <1>8. CASE SSendPacket
    <2>1. DataPacket(Block(offered, spos + 1)) \in FromSender /\ ZipLen[offered] \in Nat
      BY <1>8, Offered, SenderMessages DEF SSendPacket
    <2>2. /\ ReceiverUp => Len(s2r') = Len(s2r) + 1
          /\ ~ReceiverUp => s2r' = s2r
          /\ Len(s2r) \in Nat /\ conn' = conn
      BY <1>8, <2>1, SSendLen DEF SSendPacket
    <2>3. spos' = spos + 1 /\ spos \in Nat /\ spos + 1 <= ZipLen[offered] /\ spc' \in {"data", "final"}
          /\ (spc' = "data" => spos + 1 < ZipLen[offered])
      BY <1>8, <2>1 DEF SSendPacket, SLoop
    <2>4. rpc \in {"open", "size"} \cup Receiving => rckpt <= spos + 1
      BY <1>8 DEF SSendPacket
    <2>5. CASE conn = "up" /\ rpc \notin Stopped
      <3>1. /\ spc = "data" /\ rpc' = rpc /\ rckpt' = rckpt /\ rtotal' = rtotal /\ offered' = offered
            /\ rckpt \in Nat
        BY <1>8 DEF SSendPacket
      <3>2. /\ rpc = "response" => Len(s2r') = spos + 3
            /\ rpc \in {"open", "size"} => Len(s2r') = spos - rckpt + 2
            /\ rpc \in Receiving => Len(s2r') = spos - rckpt + 1
        BY <1>8, <2>5, SSendPacketLength
      <3>3. /\ rpc = "response" => Len(s2r') <= ZipLen[offered] + 2
            /\ rpc \in {"open", "size"} => Len(s2r') <= ZipLen[offered] - rckpt + 1
            /\ rpc \in Receiving => Len(s2r') <= ZipLen[offered] - rckpt
        BY <2>1, <2>3, <3>1, <3>2
      <3> QED
        BY <2>1, <2>2, <2>3, <2>4, <3>1, <3>2, <3>3
    <2>6. CASE ~(conn = "up" /\ rpc \notin Stopped)
      BY <1>8, <2>1, <2>2, <2>3, <2>4, <2>6 DEF SSendPacket, ReceiverUp
    <2> QED
      BY <2>5, <2>6
  <1>9. CASE SRecvVerdict
    BY <1>9 DEF SRecvVerdict, SRecv, ExitFor
  <1>10. CASE SLeaves
    BY <1>10 DEF SLeaves, SEnd
  <1>11. CASE RRestarts
    BY <1>11 DEF RRestarts, RLookup, RRecv, RSend, SenderUp
  <1>12. CASE RFindCheckpoint
    BY <1>12 DEF RFindCheckpoint, RLookup, RRecv, RSend, SenderUp
  <1>13. CASE RResume
    BY <1>13, Resuming DEF RResume
  <1>14. CASE RStartOver
    BY <1>14 DEF RStartOver, RRecv, Stream, Response
  <1>15. CASE ROpen
    BY <1>15 DEF ROpen
  <1>16. CASE RRecvSize
    BY <1>16 DEF RRecvSize, RRecv, ResourceHeader, Stream
  <1>17. CASE RWritePacket
    BY <1>17 DEF RWritePacket, RMore, RRecv
  <1>17a. CASE RFlushFails
    BY <1>17a DEF RFlushFails, RMore, RRecv, Fault
  <1>18. CASE RDiesWriting
    BY <1>18 DEF RDiesWriting, RMore, RRecv, REnd, Fault
  <1>19. CASE RTmpOpen
    BY <1>19 DEF RTmpOpen
  <1>20. CASE RTmpWrite
    BY <1>20 DEF RTmpWrite
  <1>20a. CASE RTmpFlushFails
    BY <1>20a DEF RTmpFlushFails, Fault
  <1>21. CASE RRename
    BY <1>21 DEF RRename
  <1>22. CASE RMatch
    BY <1>22 DEF RMatch, RAll, RSend, SenderUp
  <1>23. CASE RMismatch
    BY <1>23 DEF RMismatch, RAll, RSend, SenderUp
  <1>24. CASE RExtract
    BY <1>24 DEF RExtract
  <1>25. CASE RExtracted
    BY <1>25 DEF RExtracted
  <1>26. CASE RRmZip
    BY <1>26 DEF RRmZip
  <1>27. CASE RRmCkpt
    BY <1>27 DEF RRmCkpt, REnd
  <1>28. CASE RLeaves
    BY <1>28 DEF RLeaves, REnd
  <1>29. CASE ConnectionLost
    BY <1>29 DEF ConnectionLost, Fault
  <1>30. CASE StartAttempt
    BY <1>30 DEF StartAttempt
  <1>31. CASE UNCHANGED vars
    BY <1>31 DEF vars
  <1> QED
    BY <1>1, <1>2, <1>3, <1>4, <1>5, <1>6, <1>7, <1>8, <1>9, <1>10, <1>11, <1>12, <1>13,
         <1>14, <1>15, <1>16, <1>17, <1>17a, <1>18, <1>19, <1>20, <1>20a, <1>21, <1>22, <1>23, <1>24,
         <1>25, <1>26, <1>27, <1>28, <1>29, <1>30, <1>31, NextCases

\* Every step keeps R2SInv: the receiver's queue is what the sender expects.
LEMMA R2SStep == IInv /\ [Next]_vars => R2SInv'
  <1> SUFFICES ASSUME IInv, [Next]_vars PROVE R2SInv'
      OBVIOUS
  <1> USE DEF IInv, JobInv, TypeOK, Stopped, S2RInv, R2SInv, StageInv, PositionInv,
          Receiving, Judged, VerdictInv, disk, net, job, look, prog, snd, rcv
  <1>1. CASE SZip
    BY <1>1 DEF SZip
  <1>2. CASE SSendHash
    BY <1>2 DEF SSendHash, SSend, ReceiverUp
  <1>3. CASE SRecvCommand
    BY <1>3 DEF SRecvCommand, SRecv, AfterCommand
  <1>4. CASE SAgree
    BY <1>4 DEF SAgree, SSend, ReceiverUp
  <1>5. CASE SDecline
    BY <1>5 DEF SDecline, SSend, ReceiverUp
  <1>6. CASE SRecvOffset
    BY <1>6 DEF SRecvOffset, SRecv
  <1>7. CASE SOpen
    BY <1>7 DEF SOpen, SSend, ReceiverUp, SLoop
  <1>8. CASE SSendPacket
    BY <1>8 DEF SSendPacket, SSend, ReceiverUp, SLoop
  <1>9. CASE SRecvVerdict
    BY <1>9 DEF SRecvVerdict, SRecv, ExitFor
  <1>10. CASE SLeaves
    BY <1>10 DEF SLeaves, SEnd
  <1>11. CASE RRestarts
    BY <1>11, One DEF RRestarts, RLookup, RRecv, RSend, SenderUp
  <1>12. CASE RFindCheckpoint
    BY <1>12, One DEF RFindCheckpoint, RLookup, RRecv, RSend, SenderUp
  <1>13. CASE RResume
    BY <1>13, Resuming DEF RResume
  <1>14. CASE RStartOver
    BY <1>14 DEF RStartOver, RRecv
  <1>15. CASE ROpen
    BY <1>15 DEF ROpen
  <1>16. CASE RRecvSize
    BY <1>16 DEF RRecvSize, RRecv
  <1>17. CASE RWritePacket
    BY <1>17 DEF RWritePacket, RMore, RRecv
  <1>17a. CASE RFlushFails
    BY <1>17a DEF RFlushFails, RMore, RRecv, Fault
  <1>18. CASE RDiesWriting
    BY <1>18 DEF RDiesWriting, RMore, RRecv, REnd, Fault
  <1>19. CASE RTmpOpen
    BY <1>19 DEF RTmpOpen
  <1>20. CASE RTmpWrite
    BY <1>20 DEF RTmpWrite
  <1>20a. CASE RTmpFlushFails
    BY <1>20a DEF RTmpFlushFails, Fault
  <1>21. CASE RRename
    BY <1>21 DEF RRename
  <1>22. CASE RMatch
    <2>1. spc \in {"final", "done"} /\ (spc = "final" => r2s = <<>>)
      BY <1>22, AllReceived DEF RMatch
    <2> QED
      BY <1>22, <2>1, One DEF RMatch, RAll, RSend, SenderUp
  <1>23. CASE RMismatch
    <2>1. spc \in {"final", "done"} /\ (spc = "final" => r2s = <<>>)
      BY <1>23, AllReceived DEF RMismatch
    <2> QED
      BY <1>23, <2>1, One DEF RMismatch, RAll, RSend, SenderUp
  <1>24. CASE RExtract
    BY <1>24 DEF RExtract
  <1>25. CASE RExtracted
    BY <1>25 DEF RExtracted
  <1>26. CASE RRmZip
    BY <1>26 DEF RRmZip
  <1>27. CASE RRmCkpt
    BY <1>27 DEF RRmCkpt, REnd
  <1>28. CASE RLeaves
    BY <1>28 DEF RLeaves, REnd
  <1>29. CASE ConnectionLost
    BY <1>29 DEF ConnectionLost, Fault
  <1>30. CASE StartAttempt
    BY <1>30 DEF StartAttempt
  <1>31. CASE UNCHANGED vars
    BY <1>31 DEF vars
  <1> QED
    BY <1>1, <1>2, <1>3, <1>4, <1>5, <1>6, <1>7, <1>8, <1>9, <1>10, <1>11, <1>12, <1>13,
         <1>14, <1>15, <1>16, <1>17, <1>17a, <1>18, <1>19, <1>20, <1>20a, <1>21, <1>22, <1>23, <1>24,
         <1>25, <1>26, <1>27, <1>28, <1>29, <1>30, <1>31, NextCases

\* Every step keeps DiskInv: only flushes make checkpoints unreadable, and those
\* that can be read stay within their archives.
LEMMA DiskStep == IInv /\ [Next]_vars => DiskInv'
  <1> SUFFICES ASSUME IInv, [Next]_vars PROVE DiskInv'
      OBVIOUS
  <1> USE ContentAssumption, FileAssumption DEF IInv, JobInv, TypeOK, Stopped, S2RInv,
          StageInv, PositionInv, Receiving, Judged, DiskInv, Checkpoint, NewCkpt, disk,
          net, job, look, prog, snd, rcv
  <1>1. CASE SZip
    BY <1>1 DEF SZip
  <1>2. CASE SSendHash
    BY <1>2 DEF SSendHash, SSend, ReceiverUp
  <1>3. CASE SRecvCommand
    BY <1>3 DEF SRecvCommand, SRecv, AfterCommand
  <1>4. CASE SAgree
    BY <1>4 DEF SAgree, SSend, ReceiverUp
  <1>5. CASE SDecline
    BY <1>5 DEF SDecline, SSend, ReceiverUp
  <1>6. CASE SRecvOffset
    BY <1>6 DEF SRecvOffset, SRecv
  <1>7. CASE SOpen
    BY <1>7 DEF SOpen, SSend, ReceiverUp, SLoop
  <1>8. CASE SSendPacket
    BY <1>8 DEF SSendPacket, SSend, ReceiverUp, SLoop
  <1>9. CASE SRecvVerdict
    BY <1>9 DEF SRecvVerdict, SRecv, ExitFor, ExitFor
  <1>10. CASE SLeaves
    BY <1>10 DEF SLeaves, SEnd
  <1>11. CASE RRestarts
    BY <1>11 DEF RRestarts, RLookup, RRecv, RSend, SenderUp
  <1>12. CASE RFindCheckpoint
    BY <1>12 DEF RFindCheckpoint, RLookup, RRecv, RSend, SenderUp, Resumable, OwnCkpt
  <1>13. CASE RResume
    BY <1>13 DEF RResume, RRecv, RSend, SenderUp
  <1>14. CASE RStartOver
    BY <1>14 DEF RStartOver, RRecv
  <1>15. CASE ROpen
    <2>1. rpath \in Path /\ <<>> \in Seq(Blocks)
      BY <1>15, Named, EmptySeq DEF ROpen
    <2>2. rpc' = "size" /\ zip'[rpath] # NoFile
      BY <1>15, <2>1, FileAssumption DEF ROpen
    <2> QED
      BY <1>15, <2>2 DEF ROpen
  <1>16. CASE RRecvSize
    BY <1>16 DEF RRecvSize, RRecv
  <1>17. CASE RWritePacket
    <2>1. rpc' = "tmp" /\ zip'[rpath] # NoFile /\ rpath \in Path
      BY <1>17, Writing DEF RWritePacket
    <2> QED
      BY <1>17, <2>1 DEF RWritePacket, RMore
  <1>17a. CASE RFlushFails
    BY <1>17a DEF RFlushFails, RMore, RRecv, Fault
  <1>18. CASE RDiesWriting
    BY <1>18 DEF RDiesWriting, RMore, RRecv, REnd, Fault
  <1>19. CASE RTmpOpen
    BY <1>19 DEF RTmpOpen
  <1>20. CASE RTmpWrite
    BY <1>20 DEF RTmpWrite, CkptName, Names
  <1>20a. CASE RTmpFlushFails
    <2>1. tmp' = [tmp EXCEPT ![rname] = Cut] /\ rpc' = "rename" /\ rname \in Names
      BY <1>20a, Named DEF RTmpFlushFails
    <2> QED
      BY <1>20a, <2>1 DEF RTmpFlushFails
  <1>21. CASE RRename
    BY <1>21 DEF RRename, CkptName, Names
  <1>22. CASE RMatch
    BY <1>22 DEF RMatch, RAll, RSend, SenderUp
  <1>23. CASE RMismatch
    BY <1>23 DEF RMismatch, RAll, RSend, SenderUp
  <1>24. CASE RExtract
    BY <1>24 DEF RExtract
  <1>25. CASE RExtracted
    BY <1>25 DEF RExtracted
  <1>26. CASE RRmZip
    BY <1>26 DEF RRmZip
  <1>27. CASE RRmCkpt
    BY <1>27, Named DEF RRmCkpt, REnd
  <1>28. CASE RLeaves
    BY <1>28 DEF RLeaves, REnd
  <1>29. CASE ConnectionLost
    BY <1>29 DEF ConnectionLost, Fault
  <1>30. CASE StartAttempt
    BY <1>30 DEF StartAttempt
  <1>31. CASE UNCHANGED vars
    BY <1>31 DEF vars
  <1> QED
    BY <1>1, <1>2, <1>3, <1>4, <1>5, <1>6, <1>7, <1>8, <1>9, <1>10, <1>11, <1>12, <1>13,
         <1>14, <1>15, <1>16, <1>17, <1>17a, <1>18, <1>19, <1>20, <1>20a, <1>21, <1>22, <1>23, <1>24,
         <1>25, <1>26, <1>27, <1>28, <1>29, <1>30, <1>31, NextCases

\* Two versions with the same archive are the same version.
LEMMA ZipOfInjective ==
  ASSUME NEW c \in Content, NEW d \in Content, ZipOf(c) = ZipOf(d)
  PROVE  c = d
<1>1. 1 \in 1..ZipLen[c] /\ 1 \in 1..ZipLen[d]
  BY ContentAssumption
<1>2. ZipOf(c)[1].of = c /\ ZipOf(d)[1].of = d
  BY <1>1 DEF ZipOf, Block
<1> QED
  BY <1>2

\* Extraction of an archive that matched installs the version on offer.
LEMMA Installs ==
  IInv /\ RExtracted => installed' = [installed EXCEPT ![rpath] = offered] /\ rpath \in Path
<1> SUFFICES ASSUME IInv, RExtracted
             PROVE  installed' = [installed EXCEPT ![rpath] = offered] /\ rpath \in Path
    OBVIOUS
<1>1. rpath \in Path /\ offered \in Content /\ zip[rpath] = ZipOf(offered)
  BY DEF RExtracted, IInv, JobInv, VerdictInv, Stopped
<1>2. Extracted(zip[rpath]) = offered
  BY <1>1, ZipOfInjective DEF Extracted
<1> QED
  BY <1>1, <1>2 DEF RExtracted

\* Every step keeps VerdictInv: the verdict is given once, by the hash check.
LEMMA VerdictStep == IInv /\ [Next]_vars => VerdictInv'
  <1> SUFFICES ASSUME IInv, [Next]_vars PROVE VerdictInv'
      OBVIOUS
  <1> USE ContentAssumption DEF IInv, JobInv, TypeOK, Stopped, R2SInv, StageInv,
          Receiving, Judged, VerdictInv, disk, net, job, look, prog, snd, rcv
  <1>1. CASE SZip
    BY <1>1 DEF SZip
  <1>2. CASE SSendHash
    BY <1>2 DEF SSendHash, SSend, ReceiverUp
  <1>3. CASE SRecvCommand
    BY <1>3 DEF SRecvCommand, SRecv, AfterCommand
  <1>4. CASE SAgree
    BY <1>4 DEF SAgree, SSend, ReceiverUp
  <1>5. CASE SDecline
    BY <1>5 DEF SDecline, SSend, ReceiverUp
  <1>6. CASE SRecvOffset
    BY <1>6 DEF SRecvOffset, SRecv
  <1>7. CASE SOpen
    BY <1>7 DEF SOpen, SSend, ReceiverUp, SLoop
  <1>8. CASE SSendPacket
    BY <1>8 DEF SSendPacket, SSend, ReceiverUp, SLoop
  <1>9. CASE SRecvVerdict
    BY <1>9, One DEF SRecvVerdict, SRecv, ExitFor, ExitFor, Response, OK, NO_INTEGRITY
  <1>10. CASE SLeaves
    BY <1>10 DEF SLeaves, SEnd
  <1>11. CASE RRestarts
    BY <1>11 DEF RRestarts, RLookup, RRecv, RSend, SenderUp
  <1>12. CASE RFindCheckpoint
    BY <1>12 DEF RFindCheckpoint, RLookup, RRecv, RSend, SenderUp
  <1>13. CASE RResume
    BY <1>13 DEF RResume, RRecv, RSend, SenderUp
  <1>14. CASE RStartOver
    BY <1>14 DEF RStartOver, RRecv
  <1>15. CASE ROpen
    BY <1>15 DEF ROpen
  <1>16. CASE RRecvSize
    BY <1>16 DEF RRecvSize, RRecv
  <1>17. CASE RWritePacket
    BY <1>17 DEF RWritePacket, RMore, RRecv
  <1>17a. CASE RFlushFails
    BY <1>17a DEF RFlushFails, RMore, RRecv, Fault
  <1>18. CASE RDiesWriting
    BY <1>18 DEF RDiesWriting, RMore, RRecv, REnd, Fault
  <1>19. CASE RTmpOpen
    BY <1>19 DEF RTmpOpen
  <1>20. CASE RTmpWrite
    BY <1>20 DEF RTmpWrite
  <1>20a. CASE RTmpFlushFails
    BY <1>20a DEF RTmpFlushFails, Fault
  <1>21. CASE RRename
    BY <1>21 DEF RRename
  <1>22. CASE RMatch
    BY <1>22 DEF RMatch, RAll, RSend, SenderUp, HashMatches
  <1>23. CASE RMismatch
    BY <1>23 DEF RMismatch, RAll, RSend, SenderUp
  <1>24. CASE RExtract
    BY <1>24 DEF RExtract
  <1>25. CASE RExtracted
    BY <1>25, Installs DEF RExtracted
  <1>26. CASE RRmZip
    BY <1>26 DEF RRmZip
  <1>27. CASE RRmCkpt
    BY <1>27 DEF RRmCkpt, REnd
  <1>28. CASE RLeaves
    BY <1>28 DEF RLeaves, REnd
  <1>29. CASE ConnectionLost
    BY <1>29 DEF ConnectionLost, Fault
  <1>30. CASE StartAttempt
    BY <1>30 DEF StartAttempt
  <1>31. CASE UNCHANGED vars
    BY <1>31 DEF vars
  <1> QED
    BY <1>1, <1>2, <1>3, <1>4, <1>5, <1>6, <1>7, <1>8, <1>9, <1>10, <1>11, <1>12, <1>13,
         <1>14, <1>15, <1>16, <1>17, <1>17a, <1>18, <1>19, <1>20, <1>20a, <1>21, <1>22, <1>23, <1>24,
         <1>25, <1>26, <1>27, <1>28, <1>29, <1>30, <1>31, NextCases

-----------------------------------------------------------------------------
(* The theorems. *)

\* The invariant holds when the programs are installed.
LEMMA InitInv == Init => IInv
<1> SUFFICES ASSUME Init PROVE IInv
    OBVIOUS
<1>1. TypeOK
  BY ContentAssumption, BoundAssumption, EmptySeq DEF Init, TypeOK, Stopped, Names,
       Blocks, Checkpoint, FromSender, FromReceiver
<1>2. JobInv /\ StageInv /\ S2RInv
  BY DEF Init, JobInv, StageInv, S2RInv, Stopped, Receiving, Judged
<1>3. PositionInv /\ R2SInv
  BY DEF Init, PositionInv, R2SInv, Stopped, Receiving, Judged
<1>4. DiskInv /\ VerdictInv
  BY ContentAssumption DEF Init, DiskInv, VerdictInv, Stopped, Receiving, Judged
<1> QED
  BY <1>1, <1>2, <1>3, <1>4 DEF IInv

\* IInv holds in every state: the inductive invariant of the transfer.
THEOREM Invariance == Spec => []IInv
<1>1. Init => IInv
  BY InitInv
<1>2. IInv /\ [Next]_vars => IInv'
  BY TypeStep, JobStep, StageStep, S2RStep, PositionStep, R2SStep, DiskStep, VerdictStep
       DEF IInv
<1> QED
  BY <1>1, <1>2, PTL DEF Spec

\* The variables keep their types.
THEOREM TypeCorrectness == Spec => []TypeOK
<1>1. IInv => TypeOK
  BY DEF IInv
<1> QED
  BY <1>1, Invariance, PTL

\* What a receiving call of filerail_sendfile_handler or filerail_recvfile_handler
\* finds on the untyped wire is always what its peer sent for it.
THEOREM HandlersInSync == Spec => []InSync
<1>1. IInv => InSync
  <2> SUFFICES ASSUME IInv PROVE InSync
      OBVIOUS
  <2>1. ASSUME spc \notin Stopped, r2s # <<>> PROVE Head(r2s).kind = SAwaits
    BY <2>1, One DEF IInv, TypeOK, R2SInv, SAwaits, Stopped, Command, FileOffset,
         Response
  <2>2. ASSUME rpc \notin Stopped, s2r # <<>> PROVE Head(s2r).kind = RAwaits
    <3>1. CASE rpc = "hash"
      BY <2>2, <3>1, One DEF IInv, S2RInv, RAwaits, ResourceHash
    <3>2. CASE rpc = "response"
      BY <2>2, <3>2, One DEF IInv, S2RInv, RAwaits, Response
    <3>3. CASE rpc \in {"open", "size"}
      BY <2>2, <3>3 DEF IInv, S2RInv, RAwaits, Stream, ResourceHeader
    <3>4. CASE rpc \in Receiving
      <4>1. rckpt \in Nat /\ s2r \in Seq(FromSender)
        BY DEF IInv, TypeOK
      <4>2. Head(s2r) = DataPacket(Block(offered, rckpt + 1))
        BY <2>2, <3>4, <4>1, PacketsTail DEF IInv, S2RInv
      <4> QED
        BY <3>4, <4>2 DEF RAwaits, Receiving, DataPacket
    <3> QED
      BY <2>2, <3>1, <3>2, <3>3, <3>4 DEF IInv, TypeOK, S2RInv, Stopped, Receiving,
           Judged
  <2> QED
    BY <2>1, <2>2 DEF InSync
<1> QED
  BY <1>1, Invariance, PTL

\* size -= offset (filerail_sendfile) and the same subtraction in
\* filerail_recvfile never wrap around, whichever checkpoint is resumed from.
THEOREM OffsetsNeverUnderflow == Spec => []NoUnderflow
<1>1. IInv => NoUnderflow
  <2> SUFFICES ASSUME IInv PROVE NoUnderflow
      OBVIOUS
  <2>1. rpc = "packet" => rckpt <= rtotal
    BY DEF IInv, PositionInv, Receiving, Stopped
  <2> QED
    BY <2>1 DEF IInv, DiskInv, PositionInv, NoUnderflow
<1> QED
  BY <1>1, Invariance, PTL

\* The comment of filerail_recvfile is right as far as it goes: with rename, no
\* death of a receiver leaves a torn checkpoint (a failed flush still does).
THEOREM DeathsTearNoCheckpoint == Spec => []NoDeathTearsCkpt
<1>1. IInv => NoDeathTearsCkpt
  BY DEF IInv, DiskInv, NoDeathTearsCkpt
<1> QED
  BY <1>1, Invariance, PTL

\* The exit status 0 of a sender that announced a hash means that it matched.
THEOREM SenderReportsTruth == Spec => []SenderSuccessVerified
<1>1. IInv => SenderSuccessVerified
  BY DEF IInv, VerdictInv, SenderSuccessVerified
<1> QED
  BY <1>1, Invariance, PTL

\* A receiver that ends with 0 has installed the version on offer or reported the
\* mismatch, and two zeros mean that it is installed.
THEOREM ReceiverReportsTruth == Spec => []ReceiverSuccessTruthful
<1>1. IInv => ReceiverSuccessTruthful
  BY DEF IInv, VerdictInv, ReceiverSuccessTruthful
<1> QED
  BY <1>1, Invariance, PTL

\* A receiver that ends with 0 has removed the archive and the checkpoint.
THEOREM ReceiverCleansUp == Spec => []SuccessLeavesNoResidue
<1>1. IInv => SuccessLeavesNoResidue
  BY DEF IInv, DiskInv, SuccessLeavesNoResidue
<1> QED
  BY <1>1, Invariance, PTL

\* Extraction installs the version on offer at this attempt's destination only.
THEOREM OnlyOffered == Spec => OnlyOfferedInstalled
<1> DEFINE Changes == \A p \in Path : installed'[p] # installed[p] =>
          /\ p = rpath'
          /\ \/ installed'[p] = offered
             \/ installed'[p] = Torn /\ rpc' = "extracting"
             \/ installed'[p] = NoFile /\ spc' = "zip"
           Whole   == rpc = "extracting" /\ rpc' = "rmzip" => installed'[rpath] = offered
<1>1. IInv /\ [Next]_vars => Changes \/ UNCHANGED vars
  <2> SUFFICES ASSUME IInv, [Next]_vars PROVE Changes \/ UNCHANGED vars
      OBVIOUS
  <2>1. CASE RExtract
    BY <2>1 DEF RExtract, IInv, TypeOK, job
  <2>2. CASE RExtracted
    BY <2>2, Installs DEF RExtracted, IInv, TypeOK, job
  <2>3. CASE StartAttempt
    BY <2>3 DEF StartAttempt, IInv, TypeOK
  <2>4. CASE UNCHANGED installed
    BY <2>4
  <2> QED
    BY <2>1, <2>2, <2>3, <2>4, NextCases DEF IInv, disk, SZip, SSendHash, SRecvCommand, SAgree,
         SDecline, SRecvOffset, SOpen, SSendPacket, SRecvVerdict, SLeaves, RRestarts,
         RFindCheckpoint, RResume, RStartOver, ROpen, RRecvSize, RWritePacket, RFlushFails,
         RDiesWriting, RTmpOpen, RTmpWrite, RTmpFlushFails, RRename, RMatch, RMismatch, RRmZip,
         RRmCkpt, RLeaves, ConnectionLost
<1>2. IInv /\ [Next]_vars => Whole
  <2> SUFFICES ASSUME IInv, [Next]_vars PROVE Whole
      OBVIOUS
  <2>1. CASE RExtracted
    BY <2>1, Installs DEF IInv, TypeOK
  <2>2. CASE RMismatch
    BY <2>2 DEF RMismatch, RAll
  <2>3. CASE \/ SZip \/ SSendHash \/ SRecvCommand \/ SAgree \/ SDecline \/ SRecvOffset \/ SOpen
             \/ SSendPacket \/ SRecvVerdict \/ SLeaves \/ ConnectionLost \/ UNCHANGED vars
    <3>1. rpc' = rpc
      BY <2>3 DEF rcv, vars, SZip, SSendHash, SRecvCommand, SAgree, SDecline, SRecvOffset, SOpen,
           SSendPacket, SRecvVerdict, SLeaves, ConnectionLost
    <3> QED
      BY <3>1
  <2>4. CASE \/ RRestarts \/ RFindCheckpoint \/ RResume \/ RStartOver \/ ROpen \/ RRecvSize
             \/ RWritePacket \/ RFlushFails \/ RDiesWriting \/ RTmpOpen \/ RTmpWrite
             \/ RTmpFlushFails \/ RRename \/ RMatch
             \/ RExtract \/ RRmZip \/ RRmCkpt \/ RLeaves \/ StartAttempt
    <3>1. rpc' # "rmzip"
      BY <2>4 DEF RRestarts, RFindCheckpoint, RResume, RStartOver, ROpen, RRecvSize, RWritePacket,
           RFlushFails, RDiesWriting, RTmpOpen, RTmpWrite, RTmpFlushFails, RRename, RMatch, RExtract,
           RRmZip, RRmCkpt, RLeaves, REnd, StartAttempt
    <3> QED
      BY <3>1
  <2> QED
    BY <2>1, <2>2, <2>3, <2>4, NextCases DEF IInv
<1> QED
  BY <1>1, <1>2, Invariance, PTL DEF Spec, OnlyOfferedInstalled

\* Every step of Transfer is a step of Delivery, or changes nothing it sees.
LEMMA AbstractStep == IInv /\ [Next]_vars => [D!Next]_D!vars
  <1> SUFFICES ASSUME IInv, [Next]_vars PROVE D!Next \/ UNCHANGED D!vars
      OBVIOUS
  <1> USE DEF D!vars, D!Next, disk, net, job, look, prog, snd, rcv
  <1>1. ASSUME SZip \/ SRecvCommand \/ SAgree \/ SDecline \/ SRecvOffset \/ SOpen \/ SSendPacket \/ SRecvVerdict
        PROVE  UNCHANGED D!vars
    BY <1>1 DEF SZip, SRecvCommand, AfterCommand, SAgree, SDecline, SRecvOffset, SOpen,
         SSendPacket,
         SLoop, SRecvVerdict, Stopped
  <1>2. CASE SSendHash
    BY <1>2 DEF SSendHash, IInv, VerdictInv, Stopped, D!Announce
  <1>3. CASE SLeaves
    BY <1>3 DEF SLeaves, SEnd, IInv, TypeOK, VerdictInv, Stopped, D!SenderEnds
  <1>4. ASSUME \/ RRestarts \/ RFindCheckpoint \/ RResume \/ RStartOver \/ ROpen \/ RRecvSize
               \/ RWritePacket \/ RFlushFails \/ RTmpOpen \/ RTmpWrite
               \/ RTmpFlushFails \/ RRename
        PROVE  UNCHANGED D!vars
    BY <1>4 DEF RRestarts, RFindCheckpoint, RLookup, RResume, RStartOver, ROpen,
         RRecvSize, RWritePacket, RFlushFails, RMore, RTmpOpen, RTmpWrite, RTmpFlushFails,
         RRename, Stopped
  <1>5. CASE RMatch
    BY <1>5 DEF RMatch, RAll, IInv, TypeOK, VerdictInv, Stopped, Judged, D!Judge
  <1>6. CASE RMismatch
    BY <1>6 DEF RMismatch, RAll, IInv, TypeOK, VerdictInv, Stopped, Judged, D!Judge
  <1>7. CASE RExtract
    BY <1>7 DEF RExtract, IInv, VerdictInv, Stopped, D!Install
  <1>8. CASE RExtracted
    <2>1. offered \in Content /\ zip[rpath] = ZipOf(offered) /\ verdict = "match"
      BY <1>8 DEF RExtracted, IInv, JobInv, VerdictInv, Stopped
    <2>2. Extracted(zip[rpath]) = offered
      BY <2>1, ZipOfInjective DEF Extracted
    <2> QED
      BY <1>8, <2>1, <2>2 DEF RExtracted, Stopped, D!Complete
  <1>9. CASE RRmZip
    BY <1>9 DEF RRmZip, Stopped
  <1>10. ASSUME RRmCkpt \/ RLeaves \/ RDiesWriting PROVE D!ReceiverEnds
    BY <1>10 DEF RRmCkpt, RLeaves, RDiesWriting, RMore, REnd, Stopped, D!ReceiverEnds
  <1>11. CASE ConnectionLost
    BY <1>11 DEF ConnectionLost
  <1>12. CASE StartAttempt
    BY <1>12 DEF StartAttempt, Stopped, D!Ask
  <1>13. CASE UNCHANGED vars
    BY <1>13 DEF vars
  <1> QED
    BY <1>1, <1>2, <1>3, <1>4, <1>5, <1>6, <1>7, <1>8, <1>9, <1>10, <1>11, <1>12, <1>13,
         NextCases DEF IInv

\* filerail_sendfile_handler and filerail_recvfile_handler together deliver what
\* Delivery promises.
THEOREM Implementation == Spec => Delivers
<1>1. Init => D!Init
  BY DEF Init, D!Init, Stopped
<1>2. IInv /\ [Next]_vars => [D!Next]_D!vars
  BY AbstractStep
<1> QED
  BY <1>1, <1>2, Invariance, PTL DEF Spec, Delivers, D!Spec

=============================================================================
