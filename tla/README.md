# filerail, specified in TLA+

filerail copies a file or a directory between a client and a server over TCP.
The resource is zipped, hashed, sent in encrypted blocks, hashed again at the
other side and extracted. An interrupted transfer leaves a partial archive and
a checkpoint, and the next attempt of the same archive resumes there.

This directory holds a formal model of the program, the TLC runs that check it
on small instances, and proofs that TLAPS checks for every value of the
constants. Lines below are those of the source tree (`filerail_server.c`,
`filerail_client.c`, `filerail/*.h`).

    tlc -workers 2 -config put_versions.cfg MCTransfer
    tlapm TransferProofs.tla      # likewise ResumeProofs, SessionProofs, SharedProofs,
                                  # FolderProofs, WireProofs, AcceptLoopProofs

## 1. The system

| component | state it keeps | operations | what makes it correct |
|---|---|---|---|
| **transfer** (`operations.h`, the loops in `socket.h`) | receiver's disk: archive `<dir>/<name>.zip`, checkpoint `<ckpts>/<hash>` and its `.tmp`, the resource; each side's position and exit status | `filerail_sendfile_handler`, `filerail_recvfile_handler`, `filerail_sendfile`, `filerail_recvfile` | only the offered version is installed; offsets and archives fit; no death tears a checkpoint; exit statuses tell what happened; attempts that fail leave nothing that makes later ones fail |
| **concurrent transfers** (the same code, several processes of one host) | the disk they share: `<name>.zip`, `<hash>`, `<hash>.tmp`, the resource; each process's open files | the same, one system call at a time | what a transfer leaves never makes one that runs alone fail; a transfer that runs alone installs what it verified; every one ends unless its archive was shortened |
| **negotiation** (`main` of client and of the server's child) | what exists at the destination, what the user answered | ping, put, get | client and child never misread each other, never wait for each other; nothing is overwritten unasked |
| **server parent** (`filerail_server.c`, `handler`) | listening socket, children, `errno` | accept, fork, SIGCHLD handler | every client is served; ended children are reaped; a signal does not stop the server |
| **application protocol** (`protocol.h`, the `filerail_send_x`/`filerail_recv_x` pairs, `filerail_send`, `filerail_recv`) | the bytes under way, the buffer of the message being gathered | six message types, two enumerations with overlapping codes; length word and body by as many `send` and `recv` as it takes | messages arrive whole and in order or not at all, wherever a call is cut short |
| **serialization** (`serializer.h`, `deserializer.h`) | buffers | msgpack of each message | round trip |
| **file utilities** (`utils.h`) | a directory, the open directories of each walk | zip a tree, remove a tree, extract, parse a path, free space | a walk that nobody disturbs does its whole work; every walk ends; of several removals one completes |
| **crypto** (`crypto.h`) | keys | MD5, AES-128-CBC block, key file, hash to hex | decrypt inverts encrypt; a bad key file is refused |
| **set-up** (`main` up to the loop, `socket.h`, `setup.sh`) | - | options, key file, checkpoint directory, DNS, daemonizing, sockets; the build | a step that fails ends the process |

Client and server child exchange messages over one connection; nothing else is
shared between the two hosts. The server's children share the server's disk
with each other, and the parent shares its `errno` with its signal handler.

What is hard here: a process may die between any two steps, and the disk it
leaves is what the next attempt starts from; a checkpoint outlives the archive
it was written for, because its name depends only on the hash while the archive's
name depends only on the destination; the wire has no message types, so the two
handlers must agree on what comes next along every branch; sizes are unsigned
and are reduced by offsets that came from another attempt; a connection may
vanish without an error while only some sockets have timeouts; SIGCHLD is not
queued and its handler runs between a failing call and the look at `errno`;
existence is checked long before the check is used; archives, checkpoints and
`.tmp` files have the same name in every process and are looked up by it again
and again, with no lock; stdio buffers what is written, and the flush that writes it may
fail with nobody looking; `send` and `recv` may take or give any part of a message.

## 2. The modules

| module | what it is |
|---|---|
| `Protocol` | the two enumerations and the messages |
| `Delivery` | abstract: what a transfer promises, with no archive, message or checkpoint |
| `Transfer` | the two handlers, the disk and the connection, with every fault |
| `TransferInvariant` | the inductive invariant of `Transfer`, in named parts |
| `TransferProofs` | theorems about `Transfer`, among them that it implements `Delivery` |
| `ResumeProofs` | the theorem on resumed archives, with the conditions under which it holds |
| `Channel` | abstract: whole messages in order, the connection that `Transfer` and `Session` use |
| `Wire`, `WireProofs` | one direction of a connection as bytes, with proofs, among them that it implements `Channel` |
| `Codec` | the serializers and deserializers on msgpack's bytes |
| `Files` | external: names, open files, truncation, rename and unlink |
| `Shared` | senders and receivers of one resource that run at the same time on one disk |
| `SharedInvariant`, `SharedProofs` | its inductive invariant, in named parts, and the theorems |
| `Folder` | the walks of `utils.h` and of zip_extract through one directory |
| `FolderInvariant`, `FolderProofs` | its inductive invariant, in named parts, and the theorems |
| `Session` | several clients and their children: ping, put and get up to the transfer, on one disk |
| `SessionInvariant`, `SessionProofs` | its inductive invariant, in named parts, and the theorems |
| `AcceptLoop`, `AcceptLoopProofs` | the server's parent process and its signal handler, with proofs |
| `MCTransfer`, `MCWire`, `MCShared`, `MCFolder`, `MCSession`, `MCAcceptLoop` | values of the constants for TLC |

`Session` takes from `Transfer` what it shows of a transfer: the sender makes
the archive, the receiver judges it, then installs it; and from `Shared` what children
that overlap may do to the one archive on the server's disk. `AcceptLoop` takes from
both that a child ends, if it does. `Transfer` and `Session` take their connections from
`Channel`, `Wire` takes from them that the two sides agree on what comes next.
`Shared` is `Transfer` with several processes on one disk and the connection
reduced to what may end an attempt; `Folder` opens up the steps of `Shared` and
`Session` that zip, remove and extract.

### Transfer and the code

The pc `spc` is where `filerail_sendfile_handler` (with `filerail_sendfile`) is,
`rpc` the same for the receiver. Each action is one system call that others can
observe, with the code up to the next one:

| actions | code |
|---|---|
| `SZip`, `SZipFails` | zip_open to zip_close, `operations.h:71-95` |
| `SSendHash`, `SRecvCommand`, `SAgree`, `SDecline`, `SRecvOffset` | the checkpoint dialogue, `operations.h:97-154`; the server's sender agrees by itself, the client asks its user |
| `SOpen`, `SSendPacket` | `filerail_sendfile`, `socket.h:268-349` |
| `SRecvVerdict`, `SRmZip` | `operations.h:166-198` |
| `RFindNone`, `RFindUnusable`, `RFindCheckpoint` | hash, name and checkpoint file, `operations.h:232-316` |
| `RResume`, `RStartOver` | `operations.h:288-302` |
| `ROpen`, `RRecvSize`, `RWritePacket`, `RTmpOpen`, `RTmpWrite`, `RRename` | `filerail_recvfile`, `socket.h:390-488` |
| `RMatch`, `RMismatch`, `RExtract`, `RExtracted`, `RRmZip`, `RRmCkpt` | `operations.h:329-398` |
| `SEof`, `REof`, `SBrokenPipe`, `RBrokenPipe`, `STimeout`, `RTimeout` | the error returns of `filerail_send` and `filerail_recv` |
| `RFlushFails`, `RTmpFlushFails` | the unchecked `fflush` and `fclose` of archive and checkpoint fail, `socket.h:453`, `469-471` |
| `SDies`, `RDies`, `RDiesWriting`, `ConnectionLost` | crashes, failing local calls, lost and vanishing connections |
| `StartAttempt` | the dialogue of `Session` has agreed to a transfer |

Abstractions, each of them deliberate:

- An archive is the sequence of its blocks; offsets count blocks of
  `BUFFER_SIZE` bytes. A torn block is a garbled one or none.
- A block of 1024 bytes does not fill stdio's buffer, so `fwrite` succeeds and the
  block is written by `fflush` (`socket.h:453`). If that fails, the code goes on:
  stdio has dropped the block and is still at its place in the file, the offset has
  counted it, and the next block lands there. `RFlushFails` is this step, and `lost`
  remembers (a history variable) that an archive lacks a block. The flush drops all
  of a block or nothing: a file system that is full has no part of a block left, its
  blocks being multiples of `BUFFER_SIZE`. A libc that keeps the buffer and writes it
  with the next flush would do no harm, so it needs no step.
- The checkpoint has 4112 bytes, more than stdio's buffer: its tail goes out in the
  unchecked `fflush` and `fclose` (`socket.h:469-471`), and the rename follows.
  `RTmpFlushFails` leaves the file `Cut`. `Torn` is what a death leaves. Both are too
  short to be read and mean the same to the next attempt; they are two values so that
  a property can tell who did it.
- The hash identifies the archive (MD5 is taken to be injective), and zipping
  the same version gives the same archive.
- Encryption under different key files yields garbled blocks. Each block is
  encrypted from the same IV, so blocks are independent of one another.
- A message travels whole and in order, which `Wire` shows of the framing. Sends
  never block; that they return is `SendReturns` of `Wire`.
- Past the largest int the `fgetc` loop's counter overflows, which C leaves
  undefined; `SkipTo` lets it end early or count on. `SkipMax` is that int.
- `hex_str` has no terminator, so the checkpoint's name is the hash followed by
  whatever is in memory; `Trailer` is what that may be. A name that cannot be
  opened at all (a `/` in the trailer) is `RDies`.
- `fopen` of the archive with `"r+b"` may return NULL and the `fgetc` after it
  then kills the process: `RDies` at "open".
- `installed` is what extraction wrote. Files of an older version that a get
  leaves in a directory are the subject of `Session` and `Folder`.
- The next attempt starts when both processes of the last one have ended. Two
  transfers that overlap on one disk are the subject of `Shared`.

### Wire and the code

`SBegin(m)` is a call of any `filerail_send_x` up to its first `send`; `SSome` is
one `send` of `filerail_send` (`socket.h:221-235`), which may take any part of
what is left; `RSome` one `recv` of `filerail_recv` (`socket.h:238-253`), which
may give any part. `RSized` and `RMessage` are the two places of a
`filerail_recv_x` where a `filerail_recv` has returned: the length word, then the
body, which is deserialized. `SFails`, `REof`, `RFails`, `RGivesUp` are the error
returns. The six pairs differ only in their serializer, so one pair of actions
stands for all. The stream is a tape with two cursors. `Codec` has the bytes that
each serializer packs and what each deserializer reads from an unpacked object.
Left out: allocation (a failing `malloc` is `RGivesUp`, on the sender's side
`SDies`). A peer that never reads is not in this module: the sender's timeout is
`SDies`.

### Shared and the code

Each process is a receiver (`Find` to `RmCkpt`, `operations.h:241-398`) or a sender
(`ZipOpen` to `Verdict`, `operations.h:71-198`); the hash (`Md5Open`, `Md5Stat`,
`Md5Read`, `crypto.h`) and the removal of the archive are common. One action is one
call that looks at or changes the disk: `stat` and `fopen` of one name are two
steps and may find two files. The connection delivers what is expected: the block
that the receiver of a version gets is that version's next one, the offset that a
sender is asked for is any within its archive. That a sender sends what it hashed
is then a property (`match` of `done`). A broken connection, a timeout, a kill or
a failing local call is `Dies`, anywhere. `fwrite` and `fread` are one step per
block; the `fflush` that fails unnoticed is `PacketDropped` for a block and `TmpDropped`
for a checkpoint, and `pos` is where stdio is in the archive, which then stays behind
`offset`, what the checkpoint counts. A restart from an unusable checkpoint is the same
as starting at 0.

### Folder and the code

`Lstat`, `Opendir`, `Readdir`, `Read` are `filerail_zip_folder`, `Lstat`, `Opendir`,
`Readdir`, `Unlink`, `Rmdir` are `filerail_rm`. The recursion has open the directories
above the name it has come to (`node`), so instead of a stack the walk keeps what
`readdir` has still to return of each (`left`). The entries of a directory are read
at its `opendir`, as the first `readdir` fetches them; they come in one order for
everyone, as a file system gives them (`Names`). `Mkpath` and `Write` are zip_extract, one entry after the
other. Names keep their kind, as they would not if a version had a directory
where another has a file. The code removes and zips a link as a file, and so does the
model, which has one kind of file; what it does with special files is left out, and so
is that `zip_on_extract_entry` returns a file's size as an int, which is negative from
2 to 4 GiB, so that the extraction of such a file is taken for failed (`utils.h:152`).

### Session and the code

`cpc` is where the client's `main` (`filerail_client.c:143-368`) is, `spc` where
the child's (`filerail_server.c:219-406`). Free space, access rights and the
destination's directory are whatever they happen to be: each check that does not
look at the resource itself may go either way. Receiving a header, checking and
answering are one action of the child; what the checks found is used later, and
between the two any other child may act. `filerail_rm` and `zip_extract` work
file by file. All archives on the server are one file, `<name>.zip` in the resource's
directory (`operations.h:55-58`), from the first packet of a put or the zip_open of a
get until the child is done: `overlapped` are the children that had it at the same time
as another one. What they do to the file is worked out in `Shared`; here, such a child
may fail, find what another put there (`Named`), or hash or send for ever (`Spoilt`, pc
"spin"), all three whenever it could happen to it. A loop of which a later write of
another child makes an end is the same as a slow step. Clients are on hosts of their
own, so their archives are theirs. A process that waits longer than its timeout, or dies, is `Dies`.
The user's answer is yes or no (at end of input `option` keeps an undefined
value, which is either). Left out: exit statuses, options, empty directories.

### AcceptLoop and the code

`ppc` follows the `while (true)` loop, `filerail_server.c:192-419`; `hpc` is
"wait" while `handler` runs. A handler runs whole between two steps of the loop,
but children may end while it does. `errno` is modelled because both use it: the
handler's last `waitpid` leaves `ECHILD` in it when no child is left, and the
`syslog` of `filerail_accept` may leave something else (`LogErrno`). An accept
that fails because `addrlen` was never initialised is `AcceptFails`, a
`getpeername` that fails is `WhoFails`. `served` are the clients that were given a child,
a history variable. Start-up is sequential and left out.

## 3. The runs

No run has symmetry except `get_destinations` (the destinations), which checks no
liveness under fairness. Deadlock checking is off where the system may really
stop: a side that waits for a vanished connection, an exited server, clients all
served, attempts and walks all ended.

| run | instance | shows |
|---|---|---|
| `put_versions` | puts of two versions (1 and 2 blocks) to one destination, one key, 3 faults, connections may vanish; 84,803 states | all safety properties of `Transfer`, the inductive invariant (types included), the refinement of `Delivery`, and liveness: `EventuallyClean`, `Delivered`, `ServerEnds`, `ClientEnds` |
| `get_destinations` | gets of two versions to two destinations, keys that agree or differ, 2 faults; 1,294,778 states | the refinement of `Delivery` when one checkpoint serves two destinations, archives are garbled, and the roles are swapped |
| `resume_one_version` | gets of one version of 3 blocks, two trailers, 3 faults; 494,487 states | `ResumeIntact`, and `ServerEnds` and `ClientEnds` for a get |
| `wire` | two messages, each of any of seven with real msgpack bytes, length words of 4 bytes, a buffer of 3 bytes, 2 faults | framing, all its liveness, the refinement of `Channel` |
| `shared` | three attempts of any kind, of versions of 1 and 2 blocks, two of which may overlap, one fault (a death or a failing flush); 266,251 states | what concurrent transfers do to each other and to who comes after; the inductive invariant (types included) |
| `folder` | three walks of any kind, two of which may overlap; two versions, a directory inside the resource | zip, removal and extraction, alone and against each other; the inductive invariant (types included) |
| `session` | two clients, each with any of ping, put, get; two versions of a two-file directory; one death; 313,336 states | the dialogue, consent, replacement, termination; the inductive invariant (types included) |
| `accept_loop` | three clients, a queue of two, one failing call; 4,977 states | one child for each client, reaping and serving |

The bounds are small and enough for what can happen: two archives of different
length let every checkpoint be too long, too short or fitting for the archive
it meets, and three blocks let a resumed transfer be interrupted and resumed
again; faults are bounded per behaviour, not per attempt, so `MaxFaults` = 3 is
a crash or a failing flush, one of the attempt that resumes, and one of the attempt after it.
Attempts are not bounded. Two clients are what a race needs; three children
that end and a queue shorter than the number of clients are what an unqueued
signal and a full queue need. A buffer smaller than a length word and much smaller
than a frame splits every message at every place and makes `send` wait; a second
message shows that the first one's end is found. In `shared` two attempts make
the conflict and a third one, alone, meets what they left; versions of different
length make an open archive shorter than its size was. In `folder` likewise; a
file before, inside and after an inner directory puts a conflict at every place
of the walk, and each version has a file the other lacks.

**Properties of Transfer.** `InSync`: what a handler finds on the wire is what
its peer sent for it. `NoUnderflow`: neither `size -= offset` wraps, although the
offset comes from another attempt. `NoDeathTearsCkpt`: what the comment on `rename` is
right about, that a checkpoint is whole wherever a receiver died; only a flush that
failed unnoticed can have cut one (`Cut`).
`SenderSuccessVerified`: status 0 after a hash was announced means it matched.
`SuccessLeavesNoResidue`: status 0 of a receiver means archive and checkpoint are
gone. `ReceiverSuccessTruthful`: such a status means that this attempt installed the
version on offer, or told the sender of the mismatch. `OnlyOfferedInstalled`: a resumed archive of mixed origin is never
installed. `ResumeIntact`: for one version under one key, the archive up to the
receiver's position is the version's, unless a flush failed on that archive (`lost`):
then the hash finds it out, which is `OnlyOfferedInstalled`. `EventuallyClean` and `Delivered`: stale
checkpoints cost at most a mismatch each, then every attempt succeeds and says so.
`ServerEnds`: a child whose client vanished ends. `ClientEnds`: so does a client,
unless the connection vanished without its system being told. `Delivers`: all of it
implements `Delivery`.

**Properties of Wire.** `FramesIntact`: what was received is a prefix of what was
sent. `Arrives`: without faults all of it is received. `SendReturns`: a call that sends
ends, also when the message is larger than the buffer and the receiver is gone.
`EndNoticed`: a receiver whose peer ended finds out, within a message too.
`Implements`: the byte stream is a `Channel`.

**Properties of Shared.** `AloneSucceeds`: an attempt that ran alone to its end
succeeded, whatever earlier ones left, cut short or in conflict: a sender sent what
it hashed; a receiver that wrote every block itself (`fresh`) installed its version, one
that resumed or lost a block may have found a mismatch; in any case no archive or
checkpoint is left. `SpinsOnlyOverlapped`: the loops of `filerail_md5` and
`filerail_sendfile` that never end are only entered if another process shortened
the archive. `InstalledAsVerified`: a receiver that runs alone never installs
another version than the one it verified. `AttemptsEnd`: every attempt ends or spins.
What an overlap may do is left open on purpose: it may fail both, install a
version under the other's checkpoint's name, or spin.

**Properties of Folder.** `AloneExact`: an undisturbed zip has every file once, a
removal leaves nothing, an extraction adds and replaces and keeps the rest, over
whatever half-done walks left. `OneRemoves`: removals make each other fail, but
when all have ended the resource is gone. `WalksEnd`: every walk ends, also
against a process that writes into the directory.

**Properties of Session.** `FollowsProtocol`: no branch "PROTOCOL NOT FOLLOWED" is
ever taken and no message is read as another. `OverwrittenWithConsent`: removal
only after the user was asked and agreed, and as long as puts do not overlap so
is every overwriting. `PutReplaces`: as long as puts do not overlap, a put leaves
exactly its version, unless the archive was also another child's. Without this
condition TLC finds a get that has zipped the old version over the put's archive
between its hash and its extraction. `SessionEnds`: both sides end, but for a child
that spins, which only one does whose archive was another's, and its client. Dropped,
that exception is violated too: it is `SpinsOnlyOverlapped` seen from the session.

**Properties of AcceptLoop.** `OneChildEach`: however signals interrupt accept and
whatever they leave in `errno`, no client gets a second child, and while the server
runs none that has come is lost. `ZombiesNoticed`: an ended child is never without a
pending signal or a running handler. `Reaped` and `Served` are its liveness.

### Runs that end in a violation

Each states what a comment, document or message of the repository says, and TLC
finds a behaviour of the code that does otherwise.

| run | statement | behaviour |
|---|---|---|
| `v_checkpoint_name` | `OwnCheckpointFound`, "resume back whenever you are back online" | other bytes follow `hex_str`, the checkpoint is not found |
| `v_large_offset` | `ResumeIntact`, the same feature | beyond the largest int blocks are written at the wrong place |
| `v_interrupted_exit` | `InterruptedContinues`, "if interrupted don't exit" | SIGCHLD between accept's `EINTR` and the test: the server exits |
| `v_torn_checkpoint` | `NoTornCkpt`, "rename() is atomic. So we can be completely sure that checkpoint is not corrupted" | two receivers of one version share the `.tmp` file: one renames it when the other has just emptied it |

Seen while modelling and not the subject of a run: the comment that `v_torn_checkpoint`
quotes is wrong without a second receiver too, when the flush of the `.tmp` file fails
(`RTmpFlushFails`, `TmpDropped`); a block that a failing flush dropped is counted by the
checkpoint (`socket.h:453`), so the whole archive is sent before the hash finds it out; the comment at
`operations.h:267` wants the checkpoint's offset to tell whether the archive was
modified, but it is only compared with the archive's length, so an archive of
another version is resumed from and found out by its hash; `exit_status` stays -1
after a restart from an unusable checkpoint although everything then succeeds;
a get merges the new files into the directory that is there; `.tmp` files of
interrupted attempts stay; the receiver returns 0 after a mismatch it reported
(`operations.h:360`), and the sender returns 0 when zip_open fails and nothing was
sent (`operations.h:90`); two puts that both find no resource overwrite each other
unasked; the client's socket has no timeout outside the transfer loops, so a
client that is not told of a lost connection waits for ever.

## 4. Fairness

`Transfer`: weak fairness of the sender's steps, of the receiver's steps and of
`StartAttempt`: the scheduler runs a process that can run, the user answers the
prompt and asks again. Faults are never fair. `Delivered` assumes further that
the user's own process does not hang, which `ClientEnds` allows it to do when the
connection vanished.
`ServerEnds` needs no more than that the socket's inherited timeout expires.
`Wire`: weak fairness of the steps of either side; not of `RFails`, because a
receiver need not learn that the connection broke, and not of new messages.
`Shared` and `Folder`: weak fairness of every process's steps: the system runs it,
and its peer answers or its timeout ends it; attempts need not start.
`Session`: weak fairness per client and child; not of `Spoilt`: nothing relies
on its help, and a child that spins is only ended by a death. `AcceptLoop`: the kernel delivers
a pending signal and runs the parent; children and clients may take for ever.

## 5. The proofs

Assumed: the named assumptions on the constants (`ContentAssumption`,
`BoundAssumption`, `FileAssumption`, `LoopAssumption`, `CodecAssumption`,
`WireAssumption`, `SessionAssumption`, `SharedAssumption`, `FolderAssumption`), which
TLC evaluates in every run. `FolderAssumption` says that names form a tree: above
each lie directories, and the resource is above all others. In particular versions have archives of at least one block, and
"no file", "torn" and "cut" are no file contents; a deserializer reads back what the
serializer made, which the run `wire` evaluates for `Codec`.

**Transfer.** No invariant worth having is inductive by itself: whether the block
that arrives is the one that belongs at the receiver's position depends on what
is under way, which depends on the sender's position, which depends on an offset
that the receiver read from a checkpoint. `IInv` says it in parts, each proved
to be preserved by a lemma of its own with one step per action:

| part | says | needed for |
|---|---|---|
| `JobInv` | both sides work on the attempt's version, destination and checkpoint name | all |
| `StageInv` | where the sender can be, by where the receiver is | `S2RInv`, `InSync` |
| `S2RInv`, `R2SInv` | what each queue holds: a prefix of the dialogue, then the size and the blocks from the agreed position on | `InSync` |
| `PositionInv` | positions and queue length add up; no position is beyond the archive | `NoUnderflow` |
| `DiskInv` | checkpoints are whole, or `Cut` by a flush, and within their archive's length; what exists at each step | `NoUnderflow`, `NoDeathTearsCkpt`, `SuccessLeavesNoResidue` |
| `VerdictInv` | the verdict is known exactly from the judgement on, and a match means the whole archive | `SenderSuccessVerified`, `ReceiverSuccessTruthful`, `OnlyOfferedInstalled`, `Delivers` |

Theorems: `Invariance`, `TypeCorrectness`, `HandlersInSync`,
`OffsetsNeverUnderflow`, `DeathsTearNoCheckpoint`, `SenderReportsTruth`,
`ReceiverCleansUp`, `ReceiverReportsTruth`, `OnlyOffered` (an action property; uses that distinct
versions have distinct archives) and `Implementation`, `Spec => Delivers`: every
step maps to a step of `Delivery` or leaves its variables alone.

`ResumesIntact` (in `ResumeProofs`) shows `ResumeIntact` under three conditions, as
hypotheses of the theorem, each of which the code needs. With two versions a
checkpoint of one meets an archive of the other (`OneVersion`); under two keys a
garbled archive is resumed (`OneKey`); and past the largest int blocks land at the
wrong place, as `v_large_offset` shows (`Countable`). Under them every archive, by
whomever it was left, is a prefix of the version unless a flush dropped a block of it
(`Prefixes`), and a checkpoint is
only followed within it (`ResumeInv`, on top of `IInv`).

**Wire.** `FramesIntact` speaks of messages, the steps of bytes. `IInv` relates them:
`TapeInv` says where on the tape each frame lies, `SenderInv` where in the last
frame the sender is, `ReceiverInv` that the receiver's buffer holds the bytes of
the next frame's length word or body up to its cursor. When the word is complete
it is the length of the next frame's body; when the body is, it is read as that
message, and that frame is behind the sender's cursor, so its call succeeded.
Theorems: `Invariance`, `TypeCorrectness`, `Intact`, and `Implementation`,
`Spec => Implements`. The run `wire` checks the last two, the invariant is left to
the proof. They hold for any set of messages, codec that inverts,
length of the size word and buffer.

**AcceptLoop.** `ServedOnce`, that every client has one child, is inductive together with
the types: `OneChildEach` says of every client that came where it is, and that it is
there once, so accept takes it out of the queue for good and fork gives it its one
child. `NoZombieForgotten` is inductive.

**Session.** A client and its child are never more than two messages apart, but each of
them may have ended with its messages still unread, and each acts on what it found
before others changed the resource. `IInv` has four parts beside the types:

| part | says | needed for |
|---|---|---|
| `C2SInv`, `S2CInv` | what lies in each queue by what its reader does next, and where the writer has come with that | `FollowsProtocol` |
| `OpInv` | each operation has its own part of the dialogue; what is extracted is an archive that was made, and for a put that was not overlapped its own | the queues, `PutReplaces` |
| `ConsentInv` | who removes or overwrites was asked and agreed; a getting client that was not asked found nothing there | `OverwrittenWithConsent` |
| `AloneInv` | while puts do not overlap at most one is at work; its child receives where nothing is, and has written exactly what it is done with | `OverwrittenWithConsent`, `PutReplaces` |

One lemma per part, with one step per action, and one for the clients that take no
step: their queues and places stay as they are, only the resource may change under
them, which `AloneStep` is about. Theorems: `Invariance`,
`TypeCorrectness`, `ProtocolFollowed`, `ConsentFirst` and `ReplacedWhole`, the last two
action properties, for any number of clients and any contents of the directory.

**Shared.** Nothing can be said of what overlapping processes find on the disk,
except that no file is ever used as two things; everything else is about a process
that has run alone so far.

| part | says | needed for |
|---|---|---|
| `LocalInv` | where one process is, and what it holds there, whoever else runs | all |
| `FilesInv` | every file in use exists, and is an archive or one version's checkpoint, never both: a stale `.tmp` file or an archive without a name cannot get in the way of another version | all; a checkpoint that is read is an offset within its archive |
| `NamesInv` | a lone process finds each name it has looked up or made, with the file it has open | `AloneSucceeds` |
| `ArchiveInv` | from the match on, and from the start in a process that wrote every block itself, the archive is the version's up to the process's position, which is then the checkpoint's | `AloneSucceeds`, `InstalledAsVerified` |
| `HashInv` | what was hashed is what the file has; what is left to read or send is what the file still has | `SpinsOnlyOverlapped`, `AloneSucceeds` |
| `OutcomeInv` | what the attempt will have come to, while it cleans up | `AloneSucceeds` |
| `OnlyOne` | who is alone is the only one that runs, and processes run from their start on | that the others' steps cannot disturb `LoneInv` |
| `DoneInv` | the last attempt's outcome stays true until another one starts | `AloneSucceeds` |

The lemmas go from `Files` (what truncating, writing, renaming and unlinking, and
dropping unreachable files do to `FilesInv`) over a step in general (`ToInv`,
`ChangeInv`, `EndsInv`) to one lemma per action. Theorems: `Invariance`,
`TypeCorrectness`, `LoneProcessReads`, `LoneAttemptSucceeds` and `VerifiedIsInstalled`, for
any number of attempts and overlaps, versions and archive lengths.

**Folder.** The walk is recursive in the code, so the argument is about all of what
the open calls have still to do at once: the *agenda* of a walk is the directories it
has open and the names it has read and not yet looked at.

| part | says | needed for |
|---|---|---|
| `TreeInv` | what exists lies in directories that exist, and keeps its kind | all |
| `AgendaInv` | what is left to read belongs to an open directory and comes after the name that the walk has come to there | that returning takes exactly one name off the agenda |
| `Present` | what is on the agenda exists | that `lstat`, `opendir`, `unlink` do not fail |
| `RmCovers` | what exists is an open directory, or at or below a name on the agenda | that a directory is empty at its `rmdir`; `AloneExact` |
| `ZipCovers`, `Extracted` | what was passed is in the archive, or written; what was not passed is as it was | `AloneExact` |
| `InOrder` | on every removal's agenda, if a name exists so does what is removed later | `OneRemoves` |
| `OnlyOne`, `DoneInv` | as in `Shared` | `AloneExact` |

`LoneInv` claims `Present`, `RmCovers`, `ZipCovers` and `Extracted` of a walk that
nobody disturbs. Removals that run at the same time disturb each other, and each of
them may lose `Present`; but all of them go through the tree in one order (`Before`:
what is in a directory before it, one entry before the next). What a removal takes
away is the first that there is in this order, because it covers whatever there is.
So what is missing on another agenda is missing from its beginning, `InOrder` stays
true of all, and the one that takes away a name finds the rest of its own agenda
whole. That one cannot fail, hence not all of them do (`RemovalInv`). The order's
lemmas (`AboveOf`, `EntryOf`, `OneEntry`, `Order`, `Strict`) are about paths as
sequences of components. Theorems: `Invariance`, `TypeCorrectness`,
`UndisturbedWalksAreExact` and `OneRemovalCompletes`, for any tree of names,
versions, and number of walks and overlaps.

Only model-checked: everything about liveness, and the codec itself
(unpacking nests, so `Codec` is recursive). Liveness under fairness, `ENABLED` and
recursive operators are beyond the prover.

## 6. Not modelled

Set-up: options, the key file, the checkpoint directory, DNS, daemonizing and the
creation of sockets are done once by each process, in sequence, before it has
state that another process sees; a step that fails ends the process.
`filerail_parse_resource_path` leaves both its buffers unterminated, so what it
computes depends on the stack, and every model has a resolved name instead (a
path without a slash, "abc", is taken for "bc" in "/", `utils.h:248`).
`filerail_check_storage_size` is a check that may go either way. Progress bar,
messages and logs have no effect on anything here. zip, OpenSSL, msgpack and the
operating system are external and appear by what the code relies on.

## 7. Plan

Done: `Protocol`, `Delivery`, `Transfer`, its invariant and proofs; `AcceptLoop` and
proofs; `Session`, its invariant and proofs; `Channel`, `Wire`, `Codec` and proofs;
`Files`, `Shared`, its invariant and proofs; `Folder`, its invariant and proofs.

Left: set-up, that is, the key file and the path as sequences of characters, with the buffers
that stay unterminated.
