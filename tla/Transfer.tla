------------------------------ MODULE Transfer ------------------------------
(***************************************************************************)
(* One resource travels from a sender to a receiver over one connection:   *)
(* filerail_sendfile_handler and filerail_recvfile_handler (operations.h)  *)
(* with the loops they run, filerail_sendfile and filerail_recvfile        *)
(* (socket.h).  Attempts follow one another for ever; the receiver's disk  *)
(* - partial archive, checkpoints, installed resource - outlives them, and *)
(* processes die, local calls fail, waits time out and connections break   *)
(* or vanish at any point of an attempt.                                   *)
(*                                                                         *)
(* The archive of a resource is the sequence of its BUFFER_SIZE blocks, so *)
(* offsets count blocks.  The MD5 hash of an archive identifies it.        *)
(***************************************************************************)
EXTENDS Protocol, Integers, Sequences

CONSTANTS
    Content,      \* what the resource to send may hold, one value per version
    ZipLen,       \* the number of blocks of each version's archive
    Path,         \* the destinations, <resource_dir>/<resource_name>
    Trailer,      \* what the bytes after hex_str may append to a file name
    KeyCases,     \* may the two sides' AES keys agree (TRUE), differ (FALSE)
    ServerSends,  \* TRUE for get (the server sends), FALSE for put
    SkipMax,      \* how far the int counter of the seek loop can count
    MayVanish,    \* may a connection vanish with neither end being told
    MaxFaults,    \* bound on crashes, failing calls, timeouts, lost connections
    NoFile,       \* no such file
    Torn,         \* a file whose writer died, or has not come to the end of it
    Cut,          \* a checkpoint without the bytes that a failing flush should have written
    Garbled       \* what a block decrypts to under another key

ASSUME ContentAssumption ==
    /\ Content # {} /\ NoFile \notin Content /\ Torn \notin Content
    /\ Garbled \notin Content /\ NoFile # Torn /\ Cut \notin {NoFile, Torn}
    /\ ZipLen \in [Content -> Nat \ {0}]
ASSUME BoundAssumption ==
    /\ Path # {} /\ Trailer # {} /\ KeyCases \in SUBSET BOOLEAN /\ KeyCases # {}
    /\ ServerSends \in BOOLEAN /\ MayVanish \in BOOLEAN /\ SkipMax \in Nat /\ MaxFaults \in Nat

VARIABLES
    \* the receiver's disk
    zip,          \* resource_path: the archive received so far, by destination
    ckpt,         \* the checkpoint files, by name
    tmp,          \* the ".tmp" files they are written to first
    installed,    \* the resource itself, by destination
    lost,         \* history: whose archive lacks a block that a flush failed to write
    \* the connection
    s2r, r2s,     \* messages under way
    conn,         \* "up", or "down" once it broke
    unaware,      \* the ends ("s", "r") whose system has not noticed that it broke
    \* the attempt
    offered,      \* the version the sender was asked to send
    rpath,        \* the destination the receiver was given
    keysAgree,    \* whether both sides were started with the same key file
    \* the sending process
    spc, spos, sexit,
    \* the receiving process
    rpc, rhash, rname, rckpt, rtotal, rpos, rexit,
    \* history
    verdict,      \* how far this attempt's hash check has come
    faults        \* how many faults there have been

disk == <<zip, ckpt, tmp, installed, lost>>
net  == <<s2r, r2s, conn, unaware>>
job  == <<offered, rpath, keysAgree>>
snd  == <<spc, spos, sexit>>
look == <<rhash, rname>>
prog == <<rckpt, rtotal, rpos>>
rcv  == <<rpc, look, prog, rexit>>
vars == <<disk, net, job, snd, rcv, verdict, faults>>

-----------------------------------------------------------------------------
(* Archives, checkpoints, names.                                           *)

Block(c, i) == [of |-> c, n |-> i]
Blocks      == [of : Content \cup {Garbled}, n : Nat]
ZipOf(c)    == [i \in 1..ZipLen[c] |-> Block(c, i)]

\* A bug: the name does not depend on the hash.
MutCkptName(h, trailer) == <<CHOOSE c \in Content : TRUE, trailer>>

\* The file name is the hash in hex and whatever follows hex_str in memory:
\* the array has no room for a terminator, and strcat copies up to the first
\* zero byte.
CkptName(h, trailer) == <<h, trailer>>
Names                == Content \X Trailer
Checkpoint           == [offset : Nat, path : Path]

ASSUME FileAssumption ==
    NoFile \notin Seq(Blocks) /\ {NoFile, Torn, Cut} \cap Checkpoint = {}

\* filerail_encrypt under one key, then filerail_decrypt under the other.
Decrypted(b) == IF keysAgree THEN b ELSE Block(Garbled, b.n)

\* The checkpoint struct that filerail_recvfile writes.
NewCkpt == [offset |-> rckpt, path |-> rpath]

\* What one write(2) makes of the file, at a position that is never beyond the
\* end.
WriteAt(f, pos, b) == IF pos < Len(f) THEN [f EXCEPT ![pos + 1] = b]
                                      ELSE Append(f, b)

\* A write(2) that is cut short: past the end it makes no whole block, within the
\* file it mixes the old block with the new one.
PartWrites(f, pos, b) ==
    IF pos < Len(f) /\ f[pos + 1] # b THEN {f, [f EXCEPT ![pos + 1] = Block(Garbled, 0)]}
                                       ELSE {f}

\* A bug: the seek loop does not advance.
MutSkipTo(offset) == {0}

\* Where the fgetc loop leaves the file position.  Its counter is an int: past
\* the largest int it overflows, and wraps to a value that ends the loop early
\* or, in a build that ignores the overflow, counts on.
SkipTo(offset) == IF offset <= SkipMax THEN {offset} ELSE {offset, SkipMax}

\* A bug: only the sizes are compared.
MutHashMatches(f, h) == Len(f) = ZipLen[h]

\* memcmp of the hash computed over the received archive with the advertised one.
HashMatches(f, h) == f = ZipOf(h)

-----------------------------------------------------------------------------
(* The connection: TCP delivers in order what was sent before the end of    *)
(* the sending process, and nothing once the connection broke.  A system    *)
(* that sends on a broken connection comes to know; one that only waits for *)
(* data may never.                                                          *)

Stopped    == {"idle", "done"}
SenderUp   == conn = "up" /\ spc \notin Stopped
ReceiverUp == conn = "up" /\ rpc \notin Stopped

SSend(m) == /\ s2r' = IF ReceiverUp THEN Append(s2r, m) ELSE s2r
            /\ unaware' = unaware \ {"s"}
            /\ UNCHANGED <<r2s, conn>>
RSend(m) == /\ r2s' = IF SenderUp THEN Append(r2s, m) ELSE r2s
            /\ unaware' = unaware \ {"r"}
            /\ UNCHANGED conn
SRecv    == r2s # <<>> /\ r2s' = Tail(r2s) /\ UNCHANGED <<s2r, conn, unaware>>
RRecv    == s2r # <<>> /\ s2r' = Tail(s2r)

Fault == faults < MaxFaults /\ faults' = faults + 1

\* goto clean_up, close the socket, leave main with the given exit status.
SEnd(status) == spc' = "done" /\ sexit' = status
REnd(status) == rpc' = "done" /\ rexit' = status

-----------------------------------------------------------------------------
(* The sender: filerail_sendfile_handler.                                  *)

SZip ==
    /\ spc = "zip"
    /\ spc' = "hash"
    /\ UNCHANGED <<disk, net, job, spos, sexit, rcv, verdict, faults>>

\* zip_open or filerail_zip_x fails: the handler leaves with exit_status still 0.
SZipFails ==
    /\ spc = "zip" /\ Fault
    /\ SEnd(0)
    /\ UNCHANGED <<disk, net, job, spos, rcv, verdict>>

SSendHash ==
    /\ spc = "hash"
    /\ SSend(ResourceHash(offered))
    /\ verdict' = "pending"
    /\ spc' = "command"
    /\ UNCHANGED <<disk, job, spos, sexit, rcv, faults>>

\* A bug: RESUME is taken for RESTART.
MutAfterCommand(command) == "open"

\* The server agrees to resume by itself, the client asks its user.
AfterCommand(command) == IF command = RESUME THEN "prompt" ELSE "open"

SRecvCommand ==
    /\ spc = "command" /\ SRecv
    /\ spc' = AfterCommand(Head(r2s).code)
    /\ UNCHANGED <<disk, job, spos, sexit, rcv, verdict, faults>>

SAgree ==
    /\ spc = "prompt"
    /\ SSend(Response(OK))
    /\ spc' = "offset"
    /\ UNCHANGED <<disk, job, spos, sexit, rcv, verdict, faults>>

SDecline ==
    /\ spc = "prompt" /\ ~ServerSends
    /\ SSend(Response(ABORT))
    /\ spc' = "open"
    /\ UNCHANGED <<disk, job, spos, sexit, rcv, verdict, faults>>

SRecvOffset ==
    /\ spc = "offset" /\ SRecv
    /\ spos' = Head(r2s).code
    /\ spc' = "open"
    /\ UNCHANGED <<disk, job, sexit, rcv, verdict, faults>>

\* size, the bytes left, is the archive's size less the offset as a uint64_t:
\* it is zero exactly when the position is the archive's length.
SLoop(pos) == IF pos = ZipLen[offered] THEN "final" ELSE "data"

\* filerail_sendfile up to its loop.
SOpen ==
    /\ spc = "open"
    /\ SSend(ResourceHeader(ZipLen[offered]))
    /\ spc' = SLoop(spos)
    /\ UNCHANGED <<disk, job, spos, sexit, rcv, verdict, faults>>

\* One round of the loop of filerail_sendfile.
SSendPacket ==
    /\ spc = "data"
    /\ SSend(DataPacket(Block(offered, spos + 1)))
    /\ spos' = spos + 1
    /\ spc' = SLoop(spos + 1)
    /\ UNCHANGED <<disk, job, sexit, rcv, verdict, faults>>

\* A bug: the verdict is not looked at.
MutExitFor(response) == 0

\* What the sender makes of the receiver's verdict.
ExitFor(response) == IF response = OK THEN 0 ELSE -1

SRecvVerdict ==
    /\ spc = "final" /\ SRecv
    /\ sexit' = ExitFor(Head(r2s).code)
    /\ spc' = "rm"
    /\ UNCHANGED <<disk, job, spos, rcv, verdict, faults>>

SRmZip ==
    /\ spc = "rm"
    /\ SEnd(sexit)
    /\ UNCHANGED <<disk, net, job, spos, rcv, verdict, faults>>

SWaiting == spc \in {"command", "offset", "final"} /\ r2s = <<>>
\* A bug: the listening socket has no timeout to inherit.
MutSTimed == spc = "final"

\* The server's sockets inherit TIME_OUT from the listening one; the client's
\* has a timeout only from filerail_sendfile on.
STimed   == ServerSends \/ spc = "final"

\* A bug: the end of the connection is taken for success.
MutSEof ==
    /\ SWaiting /\ ~ReceiverUp /\ SEnd(0)
    /\ UNCHANGED <<disk, net, job, spos, rcv, verdict, faults>>

\* A bug: as MutREofIgnored.
MutSEofIgnored ==
    /\ SWaiting /\ ~ReceiverUp /\ STimed
    /\ SEnd(-1)
    /\ UNCHANGED <<disk, net, job, spos, rcv, verdict, faults>>

\* recv returns 0 or an error: the receiver or the connection is gone.
SEof ==
    /\ SWaiting /\ ~ReceiverUp /\ (STimed \/ "s" \notin unaware)
    /\ SEnd(-1)
    /\ UNCHANGED <<disk, net, job, spos, rcv, verdict, faults>>

\* send fails, or kills the process by SIGPIPE.
SBrokenPipe ==
    /\ spc \in {"hash", "prompt", "open", "data"} /\ ~ReceiverUp /\ "s" \notin unaware
    /\ SEnd(-1)
    /\ UNCHANGED <<disk, net, job, spos, rcv, verdict, faults>>

\* The receiver lives and is too slow for the timeout.
STimeout ==
    /\ SWaiting /\ ReceiverUp /\ STimed /\ Fault
    /\ SEnd(-1)
    /\ UNCHANGED <<disk, net, job, spos, rcv, verdict>>

\* The process is killed, or a local call fails that the handler leaves after
\* with -1 (getcwd, chdir, md5, fopen, stat, fseek, setsockopt, fread,
\* encryption, serialization, rm).
SDies ==
    /\ spc \notin Stopped /\ Fault
    /\ SEnd(-1)
    /\ UNCHANGED <<disk, net, job, spos, rcv, verdict>>

SStep == \/ SZip \/ SSendHash \/ SRecvCommand \/ SAgree \/ SDecline \/ SRecvOffset
         \/ SOpen \/ SSendPacket \/ SRecvVerdict \/ SRmZip \/ SEof \/ SBrokenPipe

-----------------------------------------------------------------------------
(* The receiver: filerail_recvfile_handler.                                *)

\* A checkpoint that can be read and is of this destination.
OwnCkpt(n) == ckpt[n] \notin {NoFile, Torn, Cut} /\ ckpt[n].path = rpath
Resumable(n) == OwnCkpt(n) /\ zip[rpath] # NoFile /\ ckpt[n].offset <= Len(zip[rpath])

\* The branches that set exit_status to -1 on their way to restart: the
\* checkpoint is too short to be read, or has no archive.
Unusable(n) == ckpt[n] \in {Torn, Cut} \/ (OwnCkpt(n) /\ zip[rpath] = NoFile)

\* Up to the search for checkpoints: the hash arrives, the name is formed.
RLookup(n) ==
    /\ rpc = "hash" /\ RRecv
    /\ rhash' = Head(s2r).hash
    /\ n \in {CkptName(Head(s2r).hash, trailer) : trailer \in Trailer}
    /\ rname' = n

RFindNone == \E n \in Names :
    /\ RLookup(n) /\ ~Resumable(n) /\ ~Unusable(n)
    /\ RSend(Command(RESTART))
    /\ rpc' = "open"
    /\ UNCHANGED <<disk, job, snd, prog, rexit, verdict, faults>>

RFindUnusable == \E n \in Names :
    /\ RLookup(n)
    /\ IF Unusable(n) THEN UNCHANGED faults ELSE ckpt[n] # NoFile /\ Fault
    /\ RSend(Command(RESTART))
    /\ rexit' = -1
    /\ rpc' = "open"
    /\ UNCHANGED <<disk, job, snd, prog, verdict>>

RFindCheckpoint == \E n \in Names :
    /\ RLookup(n) /\ Resumable(n)
    /\ RSend(Command(RESUME))
    /\ rpc' = "response"
    /\ UNCHANGED <<disk, job, snd, prog, rexit, verdict, faults>>

RResume ==
    /\ rpc = "response" /\ RRecv /\ Head(s2r).code = OK
    /\ rckpt' = ckpt[rname].offset
    /\ RSend(FileOffset(rckpt'))
    /\ rpc' = "open"
    /\ UNCHANGED <<disk, job, snd, look, rtotal, rpos, rexit, verdict, faults>>

RStartOver ==
    /\ rpc = "response" /\ RRecv /\ Head(s2r).code = ABORT
    /\ rpc' = "open"
    /\ UNCHANGED <<disk, r2s, conn, unaware, job, snd, look, prog, rexit, verdict, faults>>

\* filerail_recvfile opens the archive: truncated, or sought to the offset.
ROpen ==
    /\ rpc = "open"
    /\ IF rckpt = 0
       THEN rpos' = 0 /\ zip' = [zip EXCEPT ![rpath] = <<>>] /\ lost' = lost \ {rpath}
       ELSE rpos' \in SkipTo(rckpt) /\ UNCHANGED <<zip, lost>>
    /\ rpc' = "size"
    /\ UNCHANGED <<ckpt, tmp, installed, net, job, snd, look, rckpt, rtotal, rexit, verdict, faults>>

RRecvSize ==
    /\ rpc = "size" /\ RRecv
    /\ rtotal' = Head(s2r).size
    /\ rpc' = "packet"
    /\ UNCHANGED <<disk, r2s, conn, unaware, job, snd, look, rckpt, rpos, rexit, verdict, faults>>

\* The loop of filerail_recvfile: size, the bytes still to come, is the total
\* less the checkpoint's offset, and the loop ends when it is zero.
RMore == rpc = "packet" /\ rckpt # rtotal
RAll  == rpc = "packet" /\ rckpt = rtotal

\* fwrite leaves the block in stdio's buffer, which it does not fill; fflush
\* writes it to the file.
RWritePacket ==
    /\ RMore /\ RRecv
    /\ zip' = [zip EXCEPT ![rpath] = WriteAt(@, rpos, Decrypted(Head(s2r).payload))]
    /\ rpos' = rpos + 1
    /\ rckpt' = rckpt + 1
    /\ rpc' = "tmp"
    /\ UNCHANGED <<ckpt, tmp, installed, lost, r2s, conn, unaware, job, snd, look, rtotal, rexit,
                   verdict, faults>>

\* fflush fails, and nobody looks: stdio drops the block and stays where it was
\* in the file, while the offset counts the block.  What comes next lands there,
\* and that fwrite returns nbytes, so ferror is not asked.
RFlushFails ==
    /\ RMore /\ RRecv /\ Fault
    /\ lost' = lost \cup {rpath}
    /\ rckpt' = rckpt + 1
    /\ rpc' = "tmp"
    /\ UNCHANGED <<zip, ckpt, tmp, installed, r2s, conn, unaware, job, snd, look, rtotal, rpos, rexit,
                   verdict>>

\* The process dies in the write.
RDiesWriting ==
    /\ RMore /\ RRecv /\ Fault
    /\ \E f \in PartWrites(zip[rpath], rpos, Decrypted(Head(s2r).payload)) :
           zip' = [zip EXCEPT ![rpath] = f]
    /\ REnd(-1)
    /\ UNCHANGED <<ckpt, tmp, installed, lost, r2s, conn, unaware, job, snd, look, prog, verdict>>

\* A bug: the checkpoint itself is opened for writing.
MutRTmpOpen ==
    /\ rpc = "tmp"
    /\ ckpt' = [ckpt EXCEPT ![rname] = Torn] /\ tmp' = [tmp EXCEPT ![rname] = Torn]
    /\ rpc' = "tmpwrite"
    /\ UNCHANGED <<zip, lost, installed, net, job, snd, look, prog, rexit, verdict, faults>>

RTmpOpen ==
    /\ rpc = "tmp"
    /\ tmp' = [tmp EXCEPT ![rname] = Torn]
    /\ rpc' = "tmpwrite"
    /\ UNCHANGED <<zip, lost, ckpt, installed, net, job, snd, look, prog, rexit, verdict, faults>>

RTmpWrite ==
    /\ rpc = "tmpwrite"
    /\ tmp' = [tmp EXCEPT ![rname] = NewCkpt]
    /\ rpc' = "rename"
    /\ UNCHANGED <<zip, lost, ckpt, installed, net, job, snd, look, prog, rexit, verdict, faults>>

\* The struct is longer than stdio's buffer: its last bytes go out in fflush or
\* fclose, whose failure nobody looks at either, and the rename follows.
RTmpFlushFails ==
    /\ rpc = "tmpwrite" /\ Fault
    /\ tmp' = [tmp EXCEPT ![rname] = Cut]
    /\ rpc' = "rename"
    /\ UNCHANGED <<zip, lost, ckpt, installed, net, job, snd, look, prog, rexit, verdict>>

RRename ==
    /\ rpc = "rename"
    /\ ckpt' = [ckpt EXCEPT ![rname] = tmp[rname]]
    /\ tmp' = [tmp EXCEPT ![rname] = NoFile]
    /\ rpc' = "packet"
    /\ UNCHANGED <<zip, lost, installed, net, job, snd, look, prog, rexit, verdict, faults>>

RMatch ==
    /\ RAll /\ HashMatches(zip[rpath], rhash)
    /\ RSend(Response(OK))
    /\ verdict' = "match"
    /\ rpc' = "extract"
    /\ UNCHANGED <<disk, s2r, job, snd, look, prog, rexit, faults>>

\* A bug: clean_up instead of clean_files after a mismatch.
MutRMismatch ==
    /\ RAll /\ ~HashMatches(zip[rpath], rhash)
    /\ RSend(Response(NO_INTEGRITY)) /\ verdict' = "mismatch" /\ REnd(rexit)
    /\ UNCHANGED <<disk, s2r, job, snd, look, prog, faults>>

RMismatch ==
    /\ RAll /\ ~HashMatches(zip[rpath], rhash)
    /\ RSend(Response(NO_INTEGRITY))
    /\ verdict' = "mismatch"
    /\ rpc' = "rmzip"
    /\ UNCHANGED <<disk, s2r, job, snd, look, prog, rexit, faults>>

\* zip_extract is not atomic: the resource is torn until it returns.
RExtract ==
    /\ rpc = "extract"
    /\ installed' = [installed EXCEPT ![rpath] = Torn]
    /\ rpc' = "extracting"
    /\ UNCHANGED <<zip, lost, ckpt, tmp, net, job, snd, look, prog, rexit, verdict, faults>>

\* What extraction makes of an archive.
Extracted(f) == IF \E c \in Content : f = ZipOf(c)
                THEN CHOOSE c \in Content : f = ZipOf(c) ELSE Torn

RExtracted ==
    /\ rpc = "extracting"
    /\ installed' = [installed EXCEPT ![rpath] = Extracted(zip[rpath])]
    /\ rpc' = "rmzip"
    /\ UNCHANGED <<zip, lost, ckpt, tmp, net, job, snd, look, prog, rexit, verdict, faults>>

RRmZip ==
    /\ rpc = "rmzip"
    /\ zip' = [zip EXCEPT ![rpath] = NoFile]
    /\ lost' = lost \ {rpath}
    /\ rpc' = "rmckpt"
    /\ UNCHANGED <<ckpt, tmp, installed, net, job, snd, look, prog, rexit, verdict, faults>>

\* A bug: the checkpoint is left behind.
MutRRmCkpt ==
    /\ rpc = "rmckpt" /\ REnd(rexit)
    /\ UNCHANGED <<disk, net, job, snd, look, prog, verdict, faults>>

RRmCkpt ==
    /\ rpc = "rmckpt"
    /\ ckpt' = [ckpt EXCEPT ![rname] = NoFile]
    /\ REnd(rexit)
    /\ UNCHANGED <<zip, lost, tmp, installed, net, job, snd, look, prog, verdict, faults>>

RWaiting == (rpc \in {"hash", "response", "size"} \/ RMore) /\ s2r = <<>>
\* A bug: as MutSTimed.
MutRTimed == rpc = "packet"

\* As for the sender: the client's socket has a timeout only in the loop of
\* filerail_recvfile.
RTimed   == ~ServerSends \/ rpc = "packet"

\* A bug: the status of the end of the connection is left at what it was.
MutREofStatus ==
    /\ RWaiting /\ ~SenderUp /\ (RTimed \/ "r" \notin unaware)
    /\ REnd(rexit)
    /\ UNCHANGED <<disk, net, job, snd, look, prog, verdict, faults>>

\* A bug: recv is called again when it returned 0, until it times out.
MutREofIgnored ==
    /\ RWaiting /\ ~SenderUp /\ RTimed
    /\ REnd(-1)
    /\ UNCHANGED <<disk, net, job, snd, look, prog, verdict, faults>>

REof ==
    /\ RWaiting /\ ~SenderUp /\ (RTimed \/ "r" \notin unaware)
    /\ REnd(-1)
    /\ UNCHANGED <<disk, net, job, snd, look, prog, verdict, faults>>

\* The message that follows cannot be sent.
RBrokenPipe ==
    /\ ~SenderUp /\ "r" \notin unaware
    /\ \/ rpc = "hash" /\ s2r # <<>>
       \/ rpc = "response" /\ s2r # <<>> /\ Head(s2r).code = OK
       \/ RAll
    /\ REnd(-1)
    /\ UNCHANGED <<disk, net, job, snd, look, prog, verdict, faults>>

RTimeout ==
    /\ RWaiting /\ SenderUp /\ RTimed /\ Fault
    /\ REnd(-1)
    /\ UNCHANGED <<disk, net, job, snd, look, prog, verdict>>

\* As SDies, at every point of the handler.
RDies ==
    /\ rpc \notin Stopped /\ Fault
    /\ REnd(-1)
    /\ UNCHANGED <<disk, net, job, snd, look, prog, verdict>>

RStep == \/ RFindNone \/ RFindUnusable \/ RFindCheckpoint \/ RResume \/ RStartOver
         \/ ROpen \/ RRecvSize \/ RWritePacket \/ RTmpOpen \/ RTmpWrite \/ RRename
         \/ RMatch \/ RMismatch \/ RExtract \/ RExtracted \/ RRmZip \/ RRmCkpt
         \/ REof \/ RBrokenPipe

-----------------------------------------------------------------------------
(* The attempts.                                                           *)

\* The connection breaks and what was under way is lost; an end that had data
\* under way comes to know of it.
ConnectionLost ==
    /\ conn = "up" /\ (spc \notin Stopped \/ rpc \notin Stopped) /\ Fault
    /\ conn' = "down" /\ s2r' = <<>> /\ r2s' = <<>>
    /\ unaware' \in SUBSET {"s", "r"}
    /\ s2r # <<>> => "s" \notin unaware'
    /\ r2s # <<>> => "r" \notin unaware'
    /\ unaware' = {} \/ MayVanish
    /\ UNCHANGED <<disk, job, snd, rcv, verdict>>

\* The user asks for a transfer, main on both sides agrees to it.  For a put
\* the server has removed the resource that was there.
StartAttempt == \E c \in Content, p \in Path, agree \in KeyCases :
    /\ spc \in Stopped /\ rpc \in Stopped
    /\ offered' = c /\ rpath' = p /\ keysAgree' = agree
    /\ s2r' = <<>> /\ r2s' = <<>> /\ conn' = "up" /\ unaware' = {}
    /\ installed' = IF ServerSends THEN installed ELSE [installed EXCEPT ![p] = NoFile]
    /\ spc' = "zip" /\ spos' = 0 /\ sexit' = 0
    /\ rpc' = "hash" /\ rhash' = NoFile /\ rname' = NoFile
    /\ rckpt' = 0 /\ rtotal' = 0 /\ rpos' = 0 /\ rexit' = 0
    /\ verdict' = "unsent"
    /\ UNCHANGED <<zip, ckpt, tmp, lost, faults>>

Init ==
    /\ zip = [p \in Path |-> NoFile] /\ installed = [p \in Path |-> NoFile]
    /\ lost = {}
    /\ ckpt = [n \in Names |-> NoFile] /\ tmp = [n \in Names |-> NoFile]
    /\ s2r = <<>> /\ r2s = <<>> /\ conn = "up" /\ unaware = {}
    /\ offered = NoFile /\ rpath = NoFile /\ keysAgree = TRUE
    /\ spc = "idle" /\ spos = 0 /\ sexit = 0
    /\ rpc = "idle" /\ rhash = NoFile /\ rname = NoFile
    /\ rckpt = 0 /\ rtotal = 0 /\ rpos = 0 /\ rexit = 0
    /\ verdict = "unsent" /\ faults = 0

SFault == SZipFails \/ STimeout \/ SDies
RFault == RFlushFails \/ RDiesWriting \/ RTmpFlushFails \/ RTimeout \/ RDies

Next == SStep \/ SFault \/ RStep \/ RFault \/ ConnectionLost \/ StartAttempt

Spec == Init /\ [][Next]_vars

\* The scheduler runs a process that can run, the user answers the prompt and
\* asks again after a failed attempt.  No fault has to happen.
FairSpec == Spec /\ WF_vars(SStep) /\ WF_vars(RStep) /\ WF_vars(StartAttempt)

-----------------------------------------------------------------------------
(* Properties.                                                             *)

\* Every variable keeps its type: files hold blocks, checkpoints name one of
\* the destinations, what travels is what the filerail_send_x functions build.
FromSender == [kind : {"hash"}, hash : Content] \cup [kind : {"response"}, code : {OK, ABORT}]
              \cup [kind : {"resource"}, size : Nat] \cup [kind : {"packet"}, payload : Blocks]
FromReceiver == [kind : {"command"}, code : {RESUME, RESTART}] \cup [kind : {"offset"}, code : Nat]
                \cup [kind : {"response"}, code : {OK, NO_INTEGRITY}]

TypeOK ==
    /\ zip \in [Path -> Seq(Blocks) \cup {NoFile}]
    /\ ckpt \in [Names -> Checkpoint \cup {NoFile, Torn, Cut}]
    /\ tmp \in [Names -> Checkpoint \cup {NoFile, Torn, Cut}]
    /\ installed \in [Path -> Content \cup {NoFile, Torn}]
    /\ lost \subseteq Path
    /\ s2r \in Seq(FromSender) /\ r2s \in Seq(FromReceiver)
    /\ conn \in {"up", "down"} /\ unaware \in SUBSET {"s", "r"}
    /\ offered \in Content \cup {NoFile} /\ rpath \in Path \cup {NoFile}
    /\ keysAgree \in BOOLEAN
    /\ spc \in Stopped \cup {"zip", "hash", "command", "prompt", "offset", "open", "data",
                             "final", "rm"}
    /\ spos \in Nat /\ sexit \in {0, -1}
    /\ rpc \in Stopped \cup {"hash", "response", "open", "size", "packet", "tmp", "tmpwrite",
                             "rename", "extract", "extracting", "rmzip", "rmckpt"}
    /\ rhash \in Content \cup {NoFile} /\ rname \in Names \cup {NoFile}
    /\ rckpt \in Nat /\ rtotal \in Nat /\ rpos \in Nat /\ rexit \in {0, -1}
    /\ verdict \in {"unsent", "pending", "match", "mismatch"}
    /\ faults \in 0..MaxFaults

\* The wire has no kinds: a command, a response and an offset are all one
\* msgpack integer.  The two handlers stay in step all the same: what a
\* receiving call finds is what its peer sent for it, whichever way the
\* checkpoint dialogue went and wherever processes ended.
SAwaits == CASE spc = "command" -> "command" [] spc = "offset" -> "offset"
             [] spc = "final" -> "response" [] OTHER -> "nothing"
RAwaits == CASE rpc = "hash" -> "hash" [] rpc = "response" -> "response"
             [] rpc \in {"open", "size"} -> "resource"
             [] rpc \in {"packet", "tmp", "tmpwrite", "rename"} -> "packet"
             [] OTHER -> "nothing"
InSync ==
    /\ spc \notin Stopped /\ r2s # <<>> => Head(r2s).kind = SAwaits
    /\ rpc \notin Stopped /\ s2r # <<>> => Head(s2r).kind = RAwaits

\* size -= offset works on a uint64_t in both loops.  No attempt resumes beyond
\* the end of the archive it sends, although the checkpoint may be of another
\* attempt, another destination and another version of the resource.
NoUnderflow ==
    /\ \A n \in Names : \A f \in {ckpt[n], tmp[n]} \ {NoFile, Torn, Cut} : f.offset <= ZipLen[n[1]]
    /\ spc \in {"open", "data", "final"} => spos <= ZipLen[offered]
    /\ rpc = "packet" => rckpt <= rtotal

\* What writing to .tmp and renaming it achieves: wherever receivers die, no
\* checkpoint is one whose writer did not come to the end of it.  A checkpoint
\* that is Cut, by a flush that failed unnoticed, is installed all the same.
NoDeathTearsCkpt == \A n \in Names : ckpt[n] # Torn

\* What gets installed is the version this attempt offers, at the destination it
\* names, whole by the time extraction returns: never what an interrupted
\* attempt of another version left in the archive that this one resumed.
OnlyOfferedInstalled ==
    [][/\ \A p \in Path : installed'[p] # installed[p] =>
             /\ p = rpath'
             /\ \/ installed'[p] = offered
                \/ installed'[p] = Torn /\ rpc' = "extracting"
                \/ installed'[p] = NoFile /\ spc' = "zip"
       /\ rpc = "extracting" /\ rpc' = "rmzip" => installed'[rpath] = offered]_vars

\* A sender that leaves with status 0 after it announced a hash was told that
\* the hash matched.
SenderSuccessVerified == spc = "done" /\ sexit = 0 => verdict \in {"unsent", "match"}

\* A receiver that leaves with status 0 leaves neither the archive nor the
\* checkpoint of this transfer behind, whatever the attempts before it left.
SuccessLeavesNoResidue ==
    rpc = "done" /\ rexit = 0 => zip[rpath] = NoFile /\ ckpt[rname] = NoFile

\* Up to the position it will write at next, the archive holds the blocks of
\* the version on offer: what a checkpoint promises is really on the disk.  It
\* holds as long as one version is sent with one key, through any number of
\* crashes, restarts and resumptions, for every archive that did not lose a block
\* to a failed flush since it was last truncated.
Received == rpc \in {"size", "packet", "tmp", "tmpwrite", "rename"}
ResumeIntact ==
    Received /\ rpath \notin lost =>
        /\ rpos = rckpt
        /\ rckpt <= Len(zip[rpath])
        /\ \A i \in 1..rckpt : zip[rpath][i] = Block(offered, i)

\* The server's child process ends even if the connection vanishes, because its
\* socket inherits a timeout.
ServerStopped == IF ServerSends THEN spc \in Stopped ELSE rpc \in Stopped
ServerEnds    == ~ServerStopped ~> ServerStopped

\* The client has no timeout outside the loops, so one kind of connection makes
\* it wait for ever: one that vanished without its system being told.  From
\* every other attempt it returns, however the server's child ended.
ClientStopped == IF ServerSends THEN rpc \in Stopped ELSE spc \in Stopped
ClientUntold  == (IF ServerSends THEN "r" ELSE "s") \in unaware
ClientEnds    == ~ClientStopped ~> ClientStopped \/ ClientUntold

\* Once faults cease every attempt succeeds and is reported so by both sides:
\* checkpoints and archives that do not fit together are met at most once each,
\* with a mismatch or with the -1 that a restart leaves in exit_status, and then
\* gone.
EventuallyClean == <>[][verdict' # "mismatch" /\ sexit' = 0 /\ rexit' = 0]_vars

\* A user whose process never waits for ever and who keeps trying gets the
\* resource.
Delivered == []<>ClientStopped => []<>(\E p \in Path : installed[p] \in Content)

\* A receiver that leaves with status 0 has installed what was offered, or has
\* found a mismatch and said so to the sender, whose own status then is not 0:
\* with SenderSuccessVerified, two zeros after a hash was announced mean that
\* the resource is there.
ReceiverSuccessTruthful ==
    rpc = "done" /\ rexit = 0 =>
        verdict = "mismatch" \/ (verdict = "match" /\ installed[rpath] = offered)

\* "Checkpointing download and upload, and resume back whenever you are back
\* online" (README.md): the receiver does not start over without a complaint
\* while it has a usable checkpoint of the version on offer.
OwnCheckpointFound ==
    [][rpc = "hash" /\ rpc' = "open" /\ rexit' = 0 =>
          \A trailer \in Trailer : ~Resumable(<<Head(s2r).hash, trailer>>)]_vars

\* Transfer implements Delivery: with any faults, a destination changes only to
\* the version its own attempt offers and only after the hash check, and the
\* sender's exit status tells the outcome of this check.
D == INSTANCE Delivery WITH
        Version <- Content, Destination <- Path, Replaces <- ~ServerSends,
        Nothing <- NoFile, Partial <- Torn,
        version <- offered, destination <- rpath,
        sender <- IF spc \notin Stopped THEN "working"
                  ELSE IF sexit = 0 THEN "success" ELSE "failure",
        receiver <- CASE rpc \in Stopped -> "ended"
                      [] rpc = "extracting" -> "installing"
                      [] rpc \in {"rmzip", "rmckpt"} /\ verdict = "match" -> "installed"
                      [] OTHER -> "waiting"
Delivers == D!Spec

=============================================================================
