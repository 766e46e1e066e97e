---------------------------- MODULE ResumeProofs ----------------------------
(***************************************************************************)
(* What a checkpoint promises is on the disk: as long as one version is    *)
(* sent with one key, and no archive is longer than the seek loop counts,  *)
(* every attempt, however many before it were cut short, goes on exactly   *)
(* where the archive ends - unless a flush failed on the way.              *)
(***************************************************************************)
EXTENDS TransferProofs

\* The conditions.  Every version is received into the same name.zip, and under
\* another key each block is written as something else, so one attempt may well
\* resume what another left; the counter of the seek loop is an int.
OneVersion == \A c, d \in Content : c = d
OneKey     == KeyCases = {TRUE}
Countable  == \A c \in Content : ZipLen[c] <= SkipMax

\* Archives that have lost no block hold a prefix of the version, whoever left
\* them behind.
Prefixes == \A c \in Content, p \in Path \ lost :
    zip[p] # NoFile => \A i \in 1..Len(zip[p]) : zip[p][i] = Block(c, i)

\* A receiver resumes within the archive that it found.
ResumeInv ==
    /\ keysAgree
    /\ Prefixes
    /\ rpc = "response" => Resumable(rname)
    /\ rpc = "open" /\ rckpt # 0 => rckpt <= Len(zip[rpath])
    /\ Received /\ rpath \notin lost => rpos = rckpt /\ rckpt <= Len(zip[rpath])

\* The block that arrives.
LEMMA WrittenBlock ==
  ASSUME IInv, RMore, RRecv
  PROVE  /\ rpath \in Path /\ offered \in Content /\ zip[rpath] \in Seq(Blocks)
         /\ Decrypted(Head(s2r).payload) \in Blocks
         /\ Head(s2r) = DataPacket(Block(offered, rckpt + 1))
<1>1. rpath \in Path /\ zip[rpath] \in Seq(Blocks) /\ offered \in Content /\ rckpt \in Nat
  BY DEF IInv, TypeOK, JobInv, DiskInv, RMore, Receiving, Stopped
<1>2. Head(s2r) = DataPacket(Block(offered, rckpt + 1))
  BY PacketsTail DEF IInv, TypeOK, S2RInv, RMore, Receiving, RRecv
<1>3. Block(offered, rckpt + 1) \in Blocks /\ Block(Garbled, rckpt + 1) \in Blocks
  BY <1>1 DEF Block, Blocks
<1>4. Head(s2r).payload = Block(offered, rckpt + 1) /\ Block(offered, rckpt + 1).n = rckpt + 1
  BY <1>2 DEF DataPacket, Block
<1> QED
  BY <1>1, <1>2, <1>3, <1>4 DEF Decrypted

\* A block written at a position within the archive or at its end is there.
LEMMA WriteAtLen ==
  ASSUME NEW S, NEW f \in Seq(S), NEW pos \in Nat, pos <= Len(f), NEW b \in S
  PROVE  Len(WriteAt(f, pos, b)) >= pos + 1
<1>1. CASE pos < Len(f)
  BY <1>1, LenProperties DEF WriteAt
<1>2. CASE pos = Len(f)
  BY <1>2, LenProperties, AppendProperties DEF WriteAt
<1> QED
  BY <1>1, <1>2, LenProperties

\* Only opening, writing and removing the archive touch it, and each leaves a
\* prefix of the version.
LEMMA PrefixStep ==
  ASSUME OneVersion, IInv, ResumeInv, [Next]_vars
  PROVE  Prefixes'
<1> SUFFICES ASSUME NEW c \in Content, NEW p \in Path, p \notin lost', zip'[p] # NoFile
             PROVE  \A i \in 1..Len(zip'[p]) : zip'[p][i] = Block(c, i)
    BY DEF Prefixes, Block
<1>1. CASE zip' = zip /\ p \notin lost
  BY <1>1 DEF ResumeInv, Prefixes
<1>2. CASE ROpen /\ rckpt = 0
  BY <1>2 DEF ROpen, IInv, TypeOK, ResumeInv, Prefixes
<1>3. ASSUME RMore, RRecv, rpath \notin lost
      PROVE  /\ zip[rpath] \in Seq(Blocks) /\ rpos \in Nat /\ rpos <= Len(zip[rpath])
             /\ zip[rpath] # NoFile /\ Decrypted(Head(s2r).payload) = Block(c, rpos + 1)
  <2>1. offered = c /\ zip[rpath] \in Seq(Blocks) /\ Head(s2r) = DataPacket(Block(offered, rckpt + 1))
    BY <1>3, WrittenBlock DEF OneVersion
  <2>2. rpos = rckpt /\ rpos \in Nat /\ rpos <= Len(zip[rpath]) /\ keysAgree
    BY <1>3 DEF ResumeInv, RMore, Received, IInv, TypeOK
  <2> QED
    BY <2>1, <2>2, FileAssumption DEF Decrypted, DataPacket
<1>4. CASE RWritePacket
  <2> DEFINE f == zip[rpath]  b == Block(c, rpos + 1)
  <2>1. /\ RMore /\ RRecv /\ zip' = [zip EXCEPT ![rpath] = WriteAt(f, rpos, Decrypted(Head(s2r).payload))]
        /\ p \notin lost
    BY <1>4 DEF RWritePacket
  <2>2. CASE p # rpath
    BY <2>1, <2>2 DEF ResumeInv, Prefixes, IInv, TypeOK
  <2>3. CASE p = rpath
    <3>a. f \in Seq(Blocks) /\ rpos \in Nat /\ rpos <= Len(f) /\ f # NoFile
      BY <2>1, <2>3, <1>3
    <3>b. zip' = [zip EXCEPT ![rpath] = WriteAt(f, rpos, b)]
      BY <2>1, <2>3, <1>3
    <3>1. \A i \in 1..Len(f) : f[i] = Block(c, i)
      BY <3>a, <2>1, <2>3 DEF ResumeInv, Prefixes
    <3>2. zip'[p] = WriteAt(f, rpos, b)
      BY <3>b, <2>3 DEF IInv, TypeOK
    <3>3. CASE rpos < Len(f)
      BY <3>a, <3>1, <3>2, <3>3, LenProperties DEF WriteAt
    <3>4. CASE rpos = Len(f)
      <4> HIDE DEF b
      <4>1. zip'[p] = Append(f, b)
        BY <3>2, <3>4, <3>a DEF WriteAt
      <4> QED
        BY <4>1, <3>a, <3>1, <3>4, AppendProperties DEF b
    <3> QED
      BY <3>a, <3>3, <3>4, LenProperties
  <2> QED
    BY <2>2, <2>3
<1>5. CASE RDiesWriting
  <2> DEFINE f == zip[rpath]  b == Decrypted(Head(s2r).payload)
  <2>1. /\ RMore /\ RRecv /\ p \notin lost /\ rpath \in Path
        /\ \E g \in PartWrites(f, rpos, b) : zip' = [zip EXCEPT ![rpath] = g]
    BY <1>5, Writing DEF RDiesWriting
  <2>2. CASE p # rpath
    BY <2>1, <2>2 DEF ResumeInv, Prefixes, IInv, TypeOK
  <2>3. CASE p = rpath
    <3>1. f \in Seq(Blocks) /\ rpos \in Nat /\ rpos <= Len(f) /\ f # NoFile /\ b = Block(c, rpos + 1)
      BY <2>1, <2>3, <1>3
    <3>2. \A i \in 1..Len(f) : f[i] = Block(c, i)
      BY <3>1, <2>1, <2>3 DEF ResumeInv, Prefixes
    <3>3. PartWrites(f, rpos, b) = {f}
      BY <3>1, <3>2, LenProperties DEF PartWrites
    <3>4. zip' = zip
      BY <2>1, <3>3 DEF IInv, TypeOK
    <3> QED
      BY <1>1, <2>1, <3>4
  <2> QED
    BY <2>2, <2>3
<1>6. CASE RRmZip
  BY <1>6 DEF RRmZip, IInv, TypeOK, ResumeInv, Prefixes
<1> QED
  BY <1>1, <1>2, <1>4, <1>5, <1>6, NextCases DEF IInv, disk, vars, SZip, SSendHash, SRecvCommand,
       SAgree, SDecline, SRecvOffset, SOpen, SSendPacket, SRecvVerdict, SLeaves, RRestarts,
       RFindCheckpoint, RLookup, RResume, RStartOver, ROpen, RRecvSize, RFlushFails, RTmpOpen, RTmpWrite,
       RTmpFlushFails, RRename, RMatch, RMismatch, RExtract, RExtracted, RRmCkpt, RLeaves, ConnectionLost, StartAttempt

\* Every step keeps the other parts.
LEMMA ResumeStep ==
  ASSUME OneVersion, OneKey, Countable, IInv, ResumeInv, [Next]_vars
  PROVE  ResumeInv'
<1>1. Prefixes'
  BY PrefixStep
<1>2. keysAgree'
  <2>1. CASE StartAttempt
    <3>1. keysAgree' \in KeyCases
      BY <2>1 DEF StartAttempt
    <3> QED
      BY <3>1 DEF OneKey
  <2>2. CASE UNCHANGED keysAgree
    BY <2>2 DEF ResumeInv
  <2> QED
    BY <2>1, <2>2, NextCases DEF IInv, job, vars, SZip, SSendHash, SRecvCommand, SAgree, SDecline,
         SRecvOffset, SOpen, SSendPacket, SRecvVerdict, SLeaves, RRestarts, RFindCheckpoint, RResume,
         RStartOver, ROpen, RRecvSize, RWritePacket, RFlushFails, RDiesWriting, RTmpOpen, RTmpWrite,
         RTmpFlushFails, RRename, RMatch,
         RMismatch, RExtract, RExtracted, RRmZip, RRmCkpt, RLeaves, ConnectionLost
<1> DEFINE Positions ==
      /\ rpc = "response" => Resumable(rname)
      /\ rpc = "open" /\ rckpt # 0 => rckpt <= Len(zip[rpath])
      /\ Received /\ rpath \notin lost => rpos = rckpt /\ rckpt <= Len(zip[rpath])
<1>3. Positions'
  <2>1. CASE \/ SZip \/ SSendHash \/ SRecvCommand \/ SAgree \/ SDecline \/ SRecvOffset \/ SOpen
             \/ SSendPacket \/ SRecvVerdict \/ SLeaves \/ ConnectionLost \/ UNCHANGED vars
    BY <2>1 DEF ResumeInv, Received, Resumable, OwnCkpt, disk, rcv, look, prog, job, vars, SZip, SSendHash,
         SRecvCommand, SAgree, SDecline, SRecvOffset, SOpen, SSendPacket, SRecvVerdict, SLeaves, ConnectionLost
  <2>2. CASE RRestarts
    BY <2>2 DEF RRestarts, Received, prog, IInv, PositionInv, RLookup
  <2>3. CASE RFindCheckpoint
    BY <2>3 DEF RFindCheckpoint, RLookup, Received, Resumable, OwnCkpt, disk, job
  <2>4. CASE RResume
    <3>1. Resumable(rname) /\ rckpt' = ckpt[rname].offset /\ rpc' = "open" /\ UNCHANGED <<zip, rpath>>
      BY <2>4 DEF ResumeInv, RResume, disk, job
    <3> QED
      BY <3>1 DEF Received, Resumable
  <2>5. CASE RStartOver
    BY <2>5 DEF RStartOver, Received, prog, IInv, PositionInv
  <2>6. CASE ROpen
    <3>1. rpath \in Path /\ rckpt \in Nat /\ rckpt <= SkipMax /\ SkipMax \in Nat
      <4>1. rpath \in Path /\ offered \in Content /\ rckpt \in Nat /\ rckpt <= ZipLen[offered]
        BY <2>6 DEF ROpen, IInv, TypeOK, JobInv, PositionInv, Stopped
      <4>2. ZipLen[offered] \in Nat /\ ZipLen[offered] <= SkipMax /\ SkipMax \in Nat
        BY <4>1, ContentAssumption, BoundAssumption DEF Countable
      <4> QED
        BY <4>1, <4>2
    <3>2. CASE rckpt = 0
      BY <2>6, <3>1, <3>2, LenProperties DEF ROpen, Received, IInv, TypeOK, look, job
    <3>3. CASE rckpt # 0
      BY <2>6, <3>1, <3>3 DEF ROpen, SkipTo, Received, ResumeInv, look, job
    <3> QED
      BY <3>2, <3>3
  <2>7. CASE RRecvSize
    BY <2>7 DEF RRecvSize, Received, ResumeInv, disk, job
  <2>8. CASE RWritePacket
    <3> DEFINE f == zip[rpath]  b == Decrypted(Head(s2r).payload)
    <3>1. RMore /\ RRecv /\ zip' = [zip EXCEPT ![rpath] = WriteAt(f, rpos, b)]
          /\ rpos' = rpos + 1 /\ rckpt' = rckpt + 1 /\ rpc' = "tmp" /\ rpath' = rpath /\ lost' = lost
      BY <2>8 DEF RWritePacket, job
    <3> SUFFICES ASSUME rpath \notin lost PROVE Positions'
      BY <3>1 DEF Received
    <3>2. rpos = rckpt /\ rpos \in Nat /\ rpos <= Len(f)
      BY <3>1 DEF RMore, Received, ResumeInv, IInv, TypeOK
    <3>3. rpath \in Path /\ f \in Seq(Blocks) /\ b \in Blocks /\ zip'[rpath] = WriteAt(f, rpos, b)
      BY <3>1, WrittenBlock DEF IInv, TypeOK
    <3>4. Len(WriteAt(f, rpos, b)) >= rpos + 1
      <4> HIDE DEF f, b
      <4> QED
        BY <3>2, <3>3, WriteAtLen
    <3>5. rpos + 1 \in Nat /\ rckpt' = rpos + 1 /\ rpos' = rpos + 1
      BY <3>1, <3>2
    <3> QED
      BY <3>1, <3>3, <3>4, <3>5 DEF Received
  <2>9. CASE RTmpOpen \/ RTmpWrite \/ RTmpFlushFails \/ RRename
    BY <2>9 DEF RTmpOpen, RTmpWrite, RTmpFlushFails, RRename, Received, ResumeInv, look, prog, job
  <2>10. CASE \/ RDiesWriting \/ RMatch \/ RMismatch \/ RExtract \/ RExtracted \/ RRmZip \/ RRmCkpt
              \/ RLeaves \/ StartAttempt
    BY <2>10 DEF RDiesWriting, RMatch, RMismatch, RExtract, RExtracted, RRmZip, RRmCkpt, RLeaves, REnd,
         StartAttempt, Received
  <2>11. CASE RFlushFails
    <3>1. rpath' \in lost' /\ rpc' = "tmp"
      BY <2>11 DEF RFlushFails, job
    <3> QED
      BY <3>1 DEF Received
  <2> QED
    BY <2>1, <2>2, <2>3, <2>4, <2>5, <2>6, <2>7, <2>8, <2>9, <2>10, <2>11, NextCases DEF IInv
<1> QED
  BY <1>1, <1>2, <1>3 DEF ResumeInv

\* "Checkpointing download and upload, and resume back": wherever the attempts
\* before it were cut short, one that resumes finds on the disk every block that
\* its checkpoint counts, and writes the next one right behind them - as long as
\* no flush failed since the archive was last truncated.
THEOREM ResumesIntact ==
  ASSUME OneVersion, OneKey, Countable
  PROVE  Spec => []ResumeIntact
<1>1. Init => ResumeInv
  BY DEF Init, ResumeInv, Prefixes, Received
<1>2. IInv /\ ResumeInv /\ [Next]_vars => ResumeInv'
  BY ResumeStep
<1>3. IInv /\ ResumeInv => ResumeIntact
  <2> SUFFICES ASSUME IInv, ResumeInv, Received, rpath \notin lost PROVE ResumeIntact
      BY DEF ResumeIntact
  <2>1. offered \in Content /\ rpath \in Path /\ zip[rpath] \in Seq(Blocks) /\ zip[rpath] # NoFile
        /\ rckpt \in Nat
    BY FileAssumption DEF IInv, TypeOK, JobInv, DiskInv, Received, Receiving, Stopped
  <2>2. rpos = rckpt /\ rckpt <= Len(zip[rpath])
    BY DEF ResumeInv
  <2> QED
    BY <2>1, <2>2, LenProperties DEF ResumeInv, Prefixes, ResumeIntact
<1> QED
  BY <1>1, <1>2, <1>3, Invariance, PTL DEF Spec

=============================================================================
