------------------------------- MODULE Shared -------------------------------
(***************************************************************************)
(* Transfers of one resource that run at the same time on one host: the    *)
(* server's children, or clients started twice.  Receivers and senders use *)
(* the same name.zip next to the resource, receivers of one version the    *)
(* same checkpoint and .tmp file, and nothing locks them.  A step is one   *)
(* call that looks at or changes the disk; the connections, modelled in    *)
(* Transfer, deliver what is expected or make an attempt end anywhere.     *)
(***************************************************************************)
EXTENDS Integers, Sequences, FiniteSets

CONSTANTS
    Version,        \* what is offered; its MD5 hash names it
    Blocks,         \* the blocks in a version's archive
    Torn, NoVersion,
    Initially,      \* what may be installed at first
    MaxAttempts,    \* bound on attempts
    MaxOverlaps,    \* bound on attempts that start while another runs
    MaxFaults       \* bound on attempts cut short and flushes that fail

ASSUME SharedAssumption ==
    /\ Blocks \in [Version -> Nat \ {0}] /\ MaxAttempts \in Nat
    /\ MaxOverlaps \in Nat /\ MaxFaults \in Nat
    /\ {Torn, NoVersion} \cap Version = {} /\ Initially \subseteq Version \cup {NoVersion}

\* The processes, by the order in which they start.
Process == 1..MaxAttempts

\* The names: the archive, and by version the checkpoint and its .tmp file.
Zip     == <<"zip", NoVersion>>
Ckpt(v) == <<"ckpt", v>>
Tmp(v)  == <<"tmp", v>>
F == INSTANCE Files WITH
        Path <- {Zip} \cup {Ckpt(v) : v \in Version} \cup {Tmp(v) : v \in Version},
        Hole <- <<NoVersion, 0>>

VARIABLES
    disk,       \* of Files; an archive holds blocks, a checkpoint its offset
    proc,       \* by process: the attempt it is making
    installed,  \* the resource
    done,       \* the last attempt, if it ran alone to its end and none started since
    attempts, overlaps, faults

bounds == <<attempts, overlaps, faults>>
vars   == <<disk, proc, installed, done, bounds>>

Archive(v) == [k \in 1..Blocks[v] |-> <<v, k>>]

\* pc, the version, whether it receives, whether no other ran meanwhile, the
\* open archive and checkpoint, the offset, where in the archive a receiver
\* writes next, what is left to hash or send, the hash so far (the blocks),
\* whether the archives matched, and whether it wrote every block of it itself.
Idle == [pc |-> "idle", ver |-> NoVersion, receives |-> FALSE, alone |-> TRUE,
         zip |-> 0, ck |-> 0, offset |-> 0, pos |-> 0, left |-> 0, hash |-> <<>>,
         match |-> TRUE, fresh |-> TRUE]
Nobody == [Idle EXCEPT !.pc = "nobody"]

Running(p) == proc[p].pc # "idle"

\* A process takes a step: its next state, and the disk after it.
To(p, state, d) ==
    /\ proc' = [proc EXCEPT ![p] = state]
    /\ disk' = F!Kept(d, UNION {{proc'[q].zip, proc'[q].ck} : q \in Process})

Go(p, state) == To(p, state, disk) /\ UNCHANGED <<installed, done, bounds>>
Change(p, state, d) == To(p, state, d) /\ UNCHANGED <<installed, done, bounds>>

\* An attempt ends, and is remembered if it ran alone.
Ends(p, how, d) ==
    /\ To(p, Idle, d)
    /\ done' = IF proc[p].alone THEN [proc[p] EXCEPT !.pc = how, !.zip = 0, !.ck = 0] ELSE Nobody
    /\ UNCHANGED bounds
End(p, how, d) == Ends(p, how, d) /\ UNCHANGED installed
Fails(p) == End(p, "failed", disk)

\* A process starts, and from then on those that run are not alone.
Start(p, state) ==
    LET others == {q \in Process : Running(q)} IN
    /\ p = attempts + 1 /\ attempts' = p
    /\ IF others = {} THEN overlaps' = overlaps
                      ELSE overlaps < MaxOverlaps /\ overlaps' = overlaps + 1
    /\ proc' = [q \in Process |-> IF q = p THEN [state EXCEPT !.alone = others = {}]
                                  ELSE [proc[q] EXCEPT !.alone = @ /\ q \notin others]]
    /\ done' = Nobody
    /\ UNCHANGED <<disk, installed, faults>>

-----------------------------------------------------------------------------
(* A receiver: filerail_recvfile_handler, from the hash on.                *)

\* A receiver gets the hash of a version.
Receive(p, v) == Start(p, [Idle EXCEPT !.pc = "find", !.ver = v, !.receives = TRUE])

\* The receiver's while loop goes on, or ends.
Loop(state) == IF state.offset < Blocks[state.ver] THEN [state EXCEPT !.pc = "packet"]
                                                   ELSE [state EXCEPT !.pc = "md5_open", !.zip = 0, !.pos = 0]

\* The transfer starts at the beginning, or goes on at an offset.
FromStart(p) == [proc[p] EXCEPT !.pc = "open", !.ck = 0, !.offset = 0]

\* filerail_is_exists: no checkpoint, or one that may go away any time.
Find(p) ==
    /\ proc[p].pc = "find"
    /\ Go(p, IF F!Has(disk, Ckpt(proc[p].ver)) THEN [proc[p] EXCEPT !.pc = "access"]
                                               ELSE FromStart(p))

\* filerail_is_readable fails if it is gone, and so does the attempt.
Access(p) ==
    /\ proc[p].pc = "access"
    /\ IF F!Has(disk, Ckpt(proc[p].ver)) THEN Go(p, [proc[p] EXCEPT !.pc = "open_ckpt"])
                                         ELSE Fails(p)

\* fopen of the checkpoint; without it the transfer starts over.
OpenCkpt(p) ==
    /\ proc[p].pc = "open_ckpt"
    /\ Go(p, IF F!Has(disk, Ckpt(proc[p].ver))
             THEN [proc[p] EXCEPT !.pc = "read_ckpt", !.ck = disk.link[Ckpt(proc[p].ver)]]
             ELSE FromStart(p))

\* fread of the checkpoint; an empty one is not used.
ReadCkpt(p) ==
    LET ckpt == disk.data[proc[p].ck] IN
    /\ proc[p].pc = "read_ckpt"
    /\ Go(p, IF ckpt = <<>> THEN FromStart(p)
             ELSE [proc[p] EXCEPT !.pc = "stat", !.offset = ckpt[1], !.ck = 0])

\* The archive is at least as long as the checkpoint says.
Usable(p) == F!Has(disk, Zip) /\ proc[p].offset <= F!Size(disk, Zip)

\* stat of the archive; if it will do, the sender is asked whether to resume.
Stat(p) ==
    /\ proc[p].pc = "stat"
    /\ \/ Go(p, FromStart(p))
       \/ Usable(p) /\ Go(p, [proc[p] EXCEPT !.pc = "open"])

\* fopen(zip_filename, "wb") empties the archive, whoever else has it open;
\* with "r+b" the offset is looked for, and a missing archive is a crash in fgetc.
Open(p) ==
    /\ proc[p].pc = "open"
    /\ IF proc[p].offset = 0
       THEN LET d == F!Truncated(disk, Zip)
            IN  Change(p, [proc[p] EXCEPT !.pc = "packet", !.zip = d.link[Zip], !.pos = 0], d)
       ELSE IF F!Has(disk, Zip) /\ proc[p].offset <= F!Size(disk, Zip)
            THEN Go(p, Loop([proc[p] EXCEPT !.zip = disk.link[Zip], !.pos = proc[p].offset,
                                            !.fresh = FALSE]))
            ELSE Fails(p)

\* A data packet is received and written: fwrite puts it into stdio's buffer,
\* fflush into the file.
Packet(p) ==
    /\ proc[p].pc = "packet"
    /\ Change(p, [proc[p] EXCEPT !.pc = "open_tmp", !.offset = @ + 1, !.pos = @ + 1],
              F!Written(disk, proc[p].zip, proc[p].pos, <<proc[p].ver, proc[p].offset + 1>>))

\* A flush fails, which nobody looks at, and the attempt goes on.
FlushFails(p, state) ==
    /\ faults < MaxFaults /\ faults' = faults + 1
    /\ To(p, state, disk)
    /\ UNCHANGED <<installed, done, attempts, overlaps>>

\* The block is dropped, and the next one will be written in its place.
PacketDropped(p) ==
    /\ proc[p].pc = "packet"
    /\ FlushFails(p, [proc[p] EXCEPT !.pc = "open_tmp", !.offset = @ + 1, !.fresh = FALSE])

OpenTmp(p) ==
    /\ proc[p].pc = "open_tmp"
    /\ LET d == F!Truncated(disk, Tmp(proc[p].ver))
       IN  Change(p, [proc[p] EXCEPT !.pc = "write_tmp", !.ck = d.link[Tmp(proc[p].ver)]], d)

WriteTmp(p) ==
    /\ proc[p].pc = "write_tmp"
    /\ Change(p, [proc[p] EXCEPT !.pc = "rename", !.ck = 0],
              F!Written(disk, proc[p].ck, 0, proc[p].offset))

\* The checkpoint's last bytes are dropped; too short to be read, it is as good
\* as empty.
TmpDropped(p) ==
    /\ proc[p].pc = "write_tmp"
    /\ FlushFails(p, [proc[p] EXCEPT !.pc = "rename", !.ck = 0])

\* A bug: a rename that fails is tried again.
MutRename(p) ==
    /\ proc[p].pc = "rename" /\ F!Has(disk, Tmp(proc[p].ver))
    /\ Change(p, Loop(proc[p]),
              F!Renamed(disk, Tmp(proc[p].ver), Ckpt(proc[p].ver)))

\* rename fails if another receiver has already renamed the .tmp file.
Rename(p) ==
    /\ proc[p].pc = "rename"
    /\ IF F!Has(disk, Tmp(proc[p].ver))
       THEN Change(p, Loop(proc[p]),
                   F!Renamed(disk, Tmp(proc[p].ver), Ckpt(proc[p].ver)))
       ELSE Fails(p)

IsArchive == F!Has(disk, Zip) /\ \E v \in Version : F!Content(disk, Zip) = Archive(v)

\* zip_extract looks the archive up again: what has the name now is extracted,
\* and fails at once or on the way if it is not a whole archive.
Extract(p) ==
    /\ proc[p].pc = "extract"
    /\ \/ /\ F!Has(disk, Zip)
          /\ Go(p, [proc[p] EXCEPT !.pc = "entries", !.zip = disk.link[Zip],
                                   !.hash = F!Content(disk, Zip)])
       \/ ~IsArchive /\ Fails(p)

\* The entries are read and written; their checksums are compared.
Entries(p) ==
    /\ proc[p].pc = "entries"
    /\ LET now == disk.data[proc[p].zip]
       IN  IF now = proc[p].hash /\ \E v \in Version : now = Archive(v)
           THEN /\ To(p, [proc[p] EXCEPT !.pc = "rm_zip", !.zip = 0], disk)
                /\ installed' = now[1][1]
                /\ UNCHANGED <<done, bounds>>
           ELSE Ends(p, "failed", disk) /\ installed' = Torn

\* A bug: the checkpoint is removed only after a match.
MutRmCkpt(p) ==
    /\ proc[p].pc = "rm_ckpt"
    /\ IF ~F!Has(disk, Ckpt(proc[p].ver)) THEN Fails(p)
       ELSE End(p, "ok", IF proc[p].match THEN F!Unlinked(disk, Ckpt(proc[p].ver)) ELSE disk)

\* The checkpoint is removed last.
RmCkpt(p) ==
    /\ proc[p].pc = "rm_ckpt"
    /\ IF F!Has(disk, Ckpt(proc[p].ver))
       THEN End(p, "ok", F!Unlinked(disk, Ckpt(proc[p].ver)))
       ELSE Fails(p)

-----------------------------------------------------------------------------
(* Both: the hash of the archive, and its removal.                         *)

Md5Open(p) ==
    /\ proc[p].pc = "md5_open"
    /\ IF F!Has(disk, Zip) THEN Go(p, [proc[p] EXCEPT !.pc = "md5_stat", !.zip = disk.link[Zip]])
                           ELSE Fails(p)

\* stat goes by the name again, maybe to another file.
Md5Stat(p) ==
    /\ proc[p].pc = "md5_stat"
    /\ IF F!Has(disk, Zip) THEN Go(p, [proc[p] EXCEPT !.pc = "md5_read", !.left = F!Size(disk, Zip)])
                           ELSE Fails(p)

\* The file ends before the size is reached: fread returns 0, which is no
\* error, over and over.
Spins(p) ==
    /\ proc[p].left # 0
    /\ \/ proc[p].pc = "md5_read" /\ Len(proc[p].hash) >= Len(disk.data[proc[p].zip])
       \/ proc[p].pc = "send" /\ proc[p].offset >= Len(disk.data[proc[p].zip])

\* A bug: only what arrived is counted.
MutMatches(p, hash) == Len(hash) >= Blocks[proc[p].ver]

\* The computed hash is the advertised one.
Matches(p, hash) == hash = Archive(proc[p].ver)

\* A sender advertises the hash; a receiver compares it and sends its verdict.
Hashed(p, hash) ==
    IF ~proc[p].receives
    THEN [proc[p] EXCEPT !.pc = "open_send", !.zip = 0, !.left = 0, !.hash = hash]
    ELSE [proc[p] EXCEPT !.pc = IF Matches(p, hash) THEN "extract" ELSE "rm_zip",
                         !.zip = 0, !.left = 0, !.match = Matches(p, hash), !.hash = <<>>]

Md5Read(p) ==
    /\ proc[p].pc = "md5_read" /\ ~Spins(p)
    /\ LET hash == Append(proc[p].hash, disk.data[proc[p].zip][Len(proc[p].hash) + 1])
       IN  IF proc[p].left = 0 THEN Go(p, Hashed(p, proc[p].hash))
           ELSE IF proc[p].left = 1 THEN Go(p, Hashed(p, hash))
           ELSE Go(p, [proc[p] EXCEPT !.left = @ - 1, !.hash = hash])

\* filerail_rm of the archive fails if another process has removed it.
RmZip(p) ==
    /\ proc[p].pc = "rm_zip"
    /\ IF ~F!Has(disk, Zip) THEN Fails(p)
       ELSE IF proc[p].receives
       THEN Change(p, [proc[p] EXCEPT !.pc = "rm_ckpt"], F!Unlinked(disk, Zip))
       ELSE End(p, "ok", F!Unlinked(disk, Zip))

-----------------------------------------------------------------------------
(* A sender: filerail_sendfile_handler, of what is installed.              *)

\* A bug: nobody looks whether the resource exists.
MutSend(p) == Start(p, [Idle EXCEPT !.pc = "zip", !.ver = installed])

Send(p) == installed \in Version /\ Start(p, [Idle EXCEPT !.pc = "zip", !.ver = installed])

\* zip_open(zip_filename, ..., 'w') empties the archive like a receiver's fopen.
ZipOpen(p) ==
    /\ proc[p].pc = "zip"
    /\ LET d == F!Truncated(disk, Zip)
       IN  Change(p, [proc[p] EXCEPT !.pc = "entry", !.zip = d.link[Zip]], d)

\* The last entry is followed by zip_close.
ZipEntry(p) ==
    LET next == proc[p].offset + 1
        d    == F!Written(disk, proc[p].zip, proc[p].offset, <<proc[p].ver, next>>)
    IN  /\ proc[p].pc = "entry"
        /\ Change(p, IF next < Blocks[proc[p].ver] THEN [proc[p] EXCEPT !.offset = next]
                     ELSE [proc[p] EXCEPT !.pc = "md5_open", !.zip = 0, !.offset = 0], d)

\* fopen of the archive, with the offset that the receiver asked for.
OpenSend(p) ==
    /\ proc[p].pc = "open_send"
    /\ IF F!Has(disk, Zip)
       THEN \E offset \in 0..Blocks[proc[p].ver] :
                Go(p, [proc[p] EXCEPT !.pc = "stat_send", !.zip = disk.link[Zip], !.offset = offset])
       ELSE Fails(p)

\* A bug: the offset is not subtracted.
MutStatSend(p) ==
    /\ proc[p].pc = "stat_send"
    /\ IF F!Has(disk, Zip)
       THEN Go(p, [proc[p] EXCEPT !.pc = "send", !.left = F!Size(disk, Zip)])
       ELSE Fails(p)

\* stat, and size -= offset, which wraps around below zero.
StatSend(p) ==
    /\ proc[p].pc = "stat_send"
    /\ IF F!Has(disk, Zip)
       THEN Go(p, [proc[p] EXCEPT !.pc = "send", !.left = F!Size(disk, Zip) - proc[p].offset])
       ELSE Fails(p)

\* One packet; the receiver's hash will tell whether its block was hashed.
SendBlock(p) ==
    /\ proc[p].pc = "send" /\ proc[p].left # 0 /\ ~Spins(p)
    /\ LET next == proc[p].offset + 1
       IN  Go(p, [proc[p] EXCEPT !.left = @ - 1, !.offset = next,
                      !.match = @ /\ next <= Len(proc[p].hash)
                                  /\ disk.data[proc[p].zip][next] = proc[p].hash[next]])

\* The verdict arrives; the archive is removed whatever it says.
Verdict(p) ==
    /\ proc[p].pc = "send" /\ proc[p].left = 0
    /\ Go(p, [proc[p] EXCEPT !.pc = "rm_zip", !.zip = 0,
                             !.match = @ /\ proc[p].offset = Len(proc[p].hash)])

-----------------------------------------------------------------------------
\* A broken connection, a timeout, a kill, or a failing call whose result is
\* looked at: the attempt ends.
Dies(p) ==
    /\ Running(p) /\ faults < MaxFaults
    /\ To(p, Idle, disk)
    /\ installed' = IF proc[p].pc = "entries" THEN Torn ELSE installed
    /\ faults' = faults + 1 /\ done' = Nobody
    /\ UNCHANGED <<attempts, overlaps>>

Step(p) ==
    \/ Find(p) \/ Access(p) \/ OpenCkpt(p) \/ ReadCkpt(p) \/ Stat(p) \/ Open(p) \/ Packet(p)
    \/ OpenTmp(p) \/ WriteTmp(p) \/ Rename(p) \/ Extract(p) \/ Entries(p) \/ RmCkpt(p)
    \/ Md5Open(p) \/ Md5Stat(p) \/ Md5Read(p) \/ RmZip(p)
    \/ ZipOpen(p) \/ ZipEntry(p)
    \/ OpenSend(p) \/ StatSend(p) \/ SendBlock(p) \/ Verdict(p)

Init ==
    /\ disk = F!Empty /\ proc = [p \in Process |-> Idle]
    /\ installed \in Initially
    /\ done = Nobody /\ attempts = 0 /\ overlaps = 0 /\ faults = 0

Next == \E p \in Process :
            \/ Send(p) \/ (\E v \in Version : Receive(p, v)) \/ Step(p)
            \/ PacketDropped(p) \/ TmpDropped(p) \/ Dies(p)

Spec == Init /\ [][Next]_vars

\* The system runs every process; a timeout ends those that wait for a peer.
FairSpec == Spec /\ \A p \in Process : WF_vars(Step(p))

-----------------------------------------------------------------------------
(* Properties.                                                             *)

\* Files are open only by processes that use them, and no file is lost.
TypeOK ==
    /\ installed \in Version \cup {NoVersion, Torn}
    /\ attempts \in 0..MaxAttempts /\ overlaps \in 0..MaxOverlaps /\ faults \in 0..MaxFaults
    /\ \A p \in Process :
        /\ proc[p].zip # 0 => proc[p].zip \in DOMAIN disk.data
        /\ proc[p].ck # 0 => proc[p].ck \in DOMAIN disk.data
        /\ proc[p].offset \in Nat /\ proc[p].pos \in Nat /\ proc[p].left \in Int
        /\ Running(p) => proc[p].ver \in Version
    /\ F!Kept(disk, UNION {{proc[p].zip, proc[p].ck} : p \in Process}) = disk

\* Whatever others left behind, an attempt that runs alone and is not cut short
\* succeeds: a sender's bytes are the hashed ones; what a receiver installed is
\* what it was offered, unless it resumed an archive that does not match or lost
\* a block to a failed flush; and whatever it ends with, no archive or checkpoint
\* of the version is left, so that the next one starts from the beginning.
AloneSucceeds ==
    done # Nobody =>
        /\ done.pc = "ok" /\ ~F!Has(disk, Zip)
        /\ IF done.receives THEN /\ ~F!Has(disk, Ckpt(done.ver))
                                 /\ IF done.match THEN installed = done.ver ELSE ~done.fresh
                            ELSE done.match

\* Hashing and sending go on for ever only if another process has shortened the
\* archive meanwhile.
SpinsOnlyOverlapped == \A p \in Process : Spins(p) => ~proc[p].alone

\* What a receiver that runs alone installs is the version it verified.
InstalledAsVerified ==
    [][\A p \in Process :
        proc[p].pc = "entries" /\ proc[p].alone => installed' \in {installed, proc[p].ver, Torn}]_vars

\* Every attempt ends, unless it hashes or sends an archive that was shortened.
AttemptsEnd == \A p \in Process : Running(p) ~> ~Running(p) \/ Spins(p)

\* The comment in filerail_recvfile: "rename() is atomic. So we can be
\* completely sure that checkpoint is not corrupted".
NoTornCkpt == \A v \in Version : F!Has(disk, Ckpt(v)) => F!Content(disk, Ckpt(v)) # <<>>

=============================================================================
