-------------------------- MODULE SharedInvariant --------------------------
(***************************************************************************)
(* The inductive invariant of Shared.  Processes that overlap may find     *)
(* anything on the disk, but a file is never used as two different things; *)
(* one that runs alone knows, at every call, what it has looked at or made *)
(* so far.                                                                 *)
(***************************************************************************)
EXTENDS Shared

Cell == (Version \cup {NoVersion}) \X Nat

ReceiverPcs == {"find", "access", "open_ckpt", "read_ckpt", "stat", "open", "packet", "open_tmp",
                "write_tmp", "rename", "extract", "entries", "rm_ckpt"}
SenderPcs   == {"zip", "entry", "open_send", "stat_send", "send"}
CommonPcs   == {"md5_open", "md5_stat", "md5_read", "rm_zip"}

Pc == {"idle"} \cup ReceiverPcs \cup SenderPcs \cup CommonPcs

Attempt == [pc : Pc, ver : Version \cup {NoVersion}, receives : BOOLEAN, alone : BOOLEAN,
            zip : Nat, ck : Nat, offset : Nat, pos : Nat, left : Int, hash : Seq(Cell),
            match : BOOLEAN, fresh : BOOLEAN]

\* A process by itself, whoever else is there.
LocalInv(me) ==
    /\ me \in Attempt
    /\ me.pc = "idle" => me = Idle
    /\ me.pc # "idle" =>
          /\ me.ver \in Version
          /\ me.pc \in CommonPcs \cup (IF me.receives THEN ReceiverPcs ELSE SenderPcs)
    /\ me.receives \/ me.pc = "entry" => me.offset <= Blocks[me.ver]
    /\ me.pc \in {"packet", "entry"} => me.offset < Blocks[me.ver]
    /\ me.pc \in {"packet", "open_tmp", "write_tmp", "rename", "entries",
                  "entry", "md5_stat", "md5_read", "stat_send", "send"} => me.zip # 0
    /\ me.pc \in {"read_ckpt", "write_tmp"} => me.ck # 0
    /\ me.pc \in {"packet", "open_tmp", "write_tmp", "rename"} /\ me.fresh => me.pos = me.offset
    /\ me.hash = <<>> \/ me.pc \in {"md5_read", "entries", "rm_zip", "rm_ckpt"} \cup SenderPcs
    /\ me.pc \in {"zip", "entry"} => me.hash = <<>>
    /\ me.match \/ me.pc \in {"send", "rm_zip", "rm_ckpt"}
    /\ me.receives \/ me.fresh
    /\ me.pc \in {"find", "access", "open_ckpt", "read_ckpt", "stat", "open", "zip"} => me.fresh
    /\ me.pc \in {"find", "access", "open_ckpt", "read_ckpt", "zip"} => me.offset = 0

-----------------------------------------------------------------------------
\* What a file is used as: the archive, or a version's checkpoint.
Kind == Version \cup {NoVersion}
Name == {Zip} \cup {Ckpt(v) : v \in Version} \cup {Tmp(v) : v \in Version}
KindOf(n) == n[2]

UsedAs(d, pr, f, v) ==
    \/ \E n \in Name : KindOf(n) = v /\ d.link[n] = f
    \/ \E p \in Process : v = NoVersion /\ pr[p].zip = f
    \/ \E p \in Process : v = pr[p].ver /\ pr[p].ck = f

\* An archive holds blocks and holes, a checkpoint one offset or nothing.
Contents(v) ==
    IF v = NoVersion THEN Seq(Cell) ELSE {<<>>} \cup {<<n>> : n \in 0..Blocks[v]}

DiskType(d) ==
    /\ d = [link |-> d.link, data |-> d.data]
    /\ d.data = [f \in DOMAIN d.data |-> d.data[f]]
    /\ IsFiniteSet(DOMAIN d.data) /\ DOMAIN d.data \subseteq Nat \ {0}
    /\ d.link \in [Name -> {0} \cup DOMAIN d.data]

\* No file is used that is not there, and none is used as two things.
FilesInv(d, pr) ==
    /\ DiskType(d)
    /\ \A p \in Process : {pr[p].zip, pr[p].ck} \subseteq {0} \cup DOMAIN d.data
    /\ \A f \in DOMAIN d.data : \A v \in Kind : UsedAs(d, pr, f, v) =>
          /\ d.data[f] \in Contents(v)
          /\ \A w \in Kind : UsedAs(d, pr, f, w) => w = v

-----------------------------------------------------------------------------
Lone(p) == Running(p) /\ proc[p].alone

\* The first n blocks of a version.
Part(v, n) == [k \in 1..n |-> <<v, k>>]

\* A lone process finds the names that it has looked up or made.
NamesInv(me, d) ==
    /\ me.pc \in {"packet", "open_tmp", "write_tmp", "rename", "entries",
                  "entry", "md5_stat", "md5_read", "stat_send", "send"} => me.zip = d.link[Zip]
    /\ me.pc \in {"md5_open", "extract", "rm_zip", "open_send"} => F!Has(d, Zip)
    /\ me.pc = "rm_ckpt" => ~F!Has(d, Zip)
    /\ me.pc \in {"access", "open_ckpt", "read_ckpt", "stat", "extract", "entries", "rm_ckpt"}
          => F!Has(d, Ckpt(me.ver))
    /\ me.receives /\ me.pc \in CommonPcs => F!Has(d, Ckpt(me.ver))
    /\ me.pc = "open" /\ me.offset # 0 =>
          F!Has(d, Ckpt(me.ver)) /\ F!Has(d, Zip) /\ me.offset <= F!Size(d, Zip)
    /\ me.pc = "packet" /\ me.offset # 0 => F!Has(d, Ckpt(me.ver))
    /\ me.pc \in {"write_tmp", "rename"} => F!Has(d, Tmp(me.ver))

\* It has written the archive from the start, or resumed another's, or a flush
\* has failed.
ArchiveInv(me, d) ==
    /\ me.pc \in {"packet", "open_tmp", "write_tmp", "rename", "entry"} /\ me.fresh =>
          F!Content(d, Zip) = Part(me.ver, me.offset)
    /\ me.pc \in {"md5_open", "md5_stat", "md5_read"} /\ me.fresh =>
          F!Content(d, Zip) = Archive(me.ver)
    /\ me.pc \in {"extract", "entries", "open_send", "stat_send", "send"} =>
          F!Content(d, Zip) = Archive(me.ver)

\* What it has hashed is what it has, what it sends is what it has hashed.
HashInv(me, d) ==
    /\ me.pc = "md5_read" =>
          /\ me.left \in Nat /\ Len(me.hash) + me.left = F!Size(d, Zip)
          /\ \A k \in 1..Len(me.hash) : me.hash[k] = F!Content(d, Zip)[k]
    /\ me.pc \in {"entries", "open_send", "stat_send", "send"} => me.hash = F!Content(d, Zip)
    /\ me.pc \in {"stat_send", "send"} => me.offset <= Blocks[me.ver] /\ me.match
    /\ me.pc = "send" => me.left + me.offset = Blocks[me.ver]

\* What its attempt will have come to.
OutcomeInv(me, now) ==
    me.pc \in {"rm_zip", "rm_ckpt"} =>
        IF me.receives THEN IF me.match THEN now = me.ver ELSE ~me.fresh
                       ELSE me.match

LoneInv(me, d, now) == NamesInv(me, d) /\ ArchiveInv(me, d) /\ HashInv(me, d) /\ OutcomeInv(me, now)

\* Processes run from their start on, and only by itself does one run alone.
OnlyOne ==
    /\ \A p \in Process : Running(p) => p <= attempts
    /\ \A p, q \in Process : Lone(p) /\ Running(q) => p = q

\* The last attempt is remembered until another one starts.
DoneInv == done # Nobody => AloneSucceeds /\ \A p \in Process : ~Running(p)

IInv ==
    /\ TypeOK
    /\ DOMAIN proc = Process /\ proc = [p \in Process |-> proc[p]]
    /\ \A p \in Process : LocalInv(proc[p])
    /\ FilesInv(disk, proc)
    /\ OnlyOne
    /\ \A p \in Process : Lone(p) => LoneInv(proc[p], disk, installed)
    /\ DoneInv

=============================================================================
