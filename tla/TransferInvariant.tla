-------------------------- MODULE TransferInvariant --------------------------
(***************************************************************************)
(* The inductive invariant of Transfer.  None of Transfer's invariants is  *)
(* inductive: what a handler finds in its queue, what it takes from it and *)
(* what it may write on the strength of it depend on how far the other     *)
(* handler has come.  The parts below say just that.                       *)
(***************************************************************************)
EXTENDS Transfer

Receiving == {"packet", "tmp", "tmpwrite", "rename"}
Judged    == {"extract", "extracting", "rmzip", "rmckpt"}

\* Queues that hold the rest of the sender's stream from a position on: the size
\* and the blocks, or the blocks alone.
Packets(q, pos) == \A i \in 1..Len(q) : q[i] = DataPacket(Block(offered, pos + i))
Stream(q, pos)  == q # <<>> => /\ Head(q) = ResourceHeader(ZipLen[offered])
                               /\ Packets(Tail(q), pos)

\* An attempt is about a version and a destination, and both sides start with it.
JobInv ==
    /\ spc = "idle" <=> rpc = "idle"
    /\ spc # "idle" => offered \in Content /\ rpath \in Path
    /\ rpc \notin Stopped \cup {"hash"} =>
          rhash = offered /\ rname \in {CkptName(offered, t) : t \in Trailer}
    /\ conn = "down" => s2r = <<>> /\ r2s = <<>>

\* Where the sender is while the receiver lives: between them, the two positions
\* bound what is under way.
StageInv ==
    /\ rpc = "hash" => spc \in {"zip", "hash", "command", "done"}
    /\ rpc = "response" => spc \in {"command", "prompt", "offset", "open", "data", "final", "done"}
    /\ rpc \in {"open", "size"} => spc \in {"command", "offset", "open", "data", "final", "done"}
    /\ rpc \in Receiving => spc \in {"data", "final", "done"}
    /\ rpc \in Judged => spc \in {"final", "rm", "done"}

\* The sender's queue, by what the receiver does next.
S2RInv ==
    /\ rpc = "hash" => \/ s2r = <<>>
                       \/ s2r = <<ResourceHash(offered)>> /\ spc \in {"command", "done"}
    /\ rpc = "response" =>
          \/ s2r = <<>>
          \/ s2r = <<Response(OK)>> /\ spc \in {"offset", "done"}
          \/ Head(s2r) = Response(ABORT) /\ Stream(Tail(s2r), 0)
                /\ spc \notin {"command", "prompt", "offset"}
    /\ rpc \in {"open", "size"} =>
          Stream(s2r, rckpt) /\ (spc \in {"command", "offset"} => s2r = <<>>)
    /\ rpc \in Receiving => Packets(s2r, rckpt)
    /\ rpc \in Judged => s2r = <<>>

\* What is under way and where the two positions are make up what was sent.
PositionInv ==
    /\ rpc \in {"hash", "response"} => rckpt = 0
    /\ spc \in {"zip", "hash", "command", "prompt", "offset"} => spos = 0
    /\ spc \in {"open", "data", "final"} => spos <= ZipLen[offered]
    /\ spc = "data" => spos < ZipLen[offered]
    /\ rpc \notin Stopped => rckpt <= ZipLen[offered]
    /\ rpc \in Receiving => rtotal = ZipLen[offered]
    /\ spc \in {"open", "data", "final"} /\ rpc \in {"open", "size"} \cup Receiving => rckpt <= spos
    /\ conn = "up" /\ spc \in {"open", "data", "final"} =>
          /\ rpc = "response" =>
                /\ spc = "open" => s2r = <<Response(ABORT)>> /\ spos = 0
                /\ spc # "open" => Len(s2r) = spos + 2
          /\ rpc \in {"open", "size"} =>
                /\ spc = "open" => s2r = <<>> /\ spos = rckpt
                /\ spc # "open" => Len(s2r) = spos - rckpt + 1
          /\ rpc \in Receiving => Len(s2r) = spos - rckpt
    /\ rpc = "response" => Len(s2r) <= ZipLen[offered] + 2
    /\ rpc \in {"open", "size"} => Len(s2r) <= ZipLen[offered] - rckpt + 1
    /\ rpc \in Receiving => Len(s2r) <= ZipLen[offered] - rckpt

\* The receiver's queue, by what the sender waits for.
R2SInv ==
    /\ spc \in {"zip", "hash", "prompt", "open", "data", "rm"} => r2s = <<>>
    /\ spc = "command" =>
          \/ r2s = <<>>
          \/ r2s = <<Command(RESUME)>> /\ rpc \in {"response", "done"}
          \/ r2s = <<Command(RESTART)>> /\ rpc \in {"open", "size", "done"} /\ rckpt = 0
    /\ spc = "offset" =>
          \/ r2s = <<>>
          \/ r2s = <<FileOffset(rckpt)>> /\ rpc \in {"open", "size", "done"}
                /\ rckpt <= ZipLen[offered]
    /\ spc = "final" =>
          \/ r2s = <<>>
          \/ r2s = <<Response(OK)>> /\ verdict = "match"
          \/ r2s = <<Response(NO_INTEGRITY)>> /\ verdict = "mismatch"

\* The files the receiver works on, and what it has found out about them.
DiskInv ==
    /\ \A n \in Names : /\ ckpt[n] # Torn
                        /\ \A f \in {ckpt[n], tmp[n]} \ {NoFile, Torn, Cut} :
                              f.offset <= ZipLen[n[1]]
    /\ rpc = "response" => ckpt[rname] \notin {NoFile, Cut} /\ zip[rpath] # NoFile
    /\ rpc = "open" /\ rckpt # 0 => zip[rpath] # NoFile
    /\ rpc \in {"size", "extract", "extracting"} \cup Receiving => zip[rpath] # NoFile
    /\ rpc = "rename" => tmp[rname] \in {NewCkpt, Cut}
    /\ rpc = "rmckpt" => zip[rpath] = NoFile
    /\ rpc = "done" /\ rexit = 0 => zip[rpath] = NoFile /\ ckpt[rname] = NoFile

\* What the verdict says: that it is still to come, or what it found.
VerdictInv ==
    /\ rpc \notin Judged \cup Stopped => verdict \in {"unsent", "pending"}
    /\ rpc = "hash" /\ s2r # <<>> => verdict = "pending"
    /\ rpc \notin Stopped \cup {"hash"} => verdict # "unsent"
    /\ spc \in {"zip", "hash"} => verdict = "unsent"
    /\ rpc \in {"extract", "extracting"} => verdict = "match" /\ zip[rpath] = ZipOf(offered)
    /\ rpc \in Judged => verdict \in {"match", "mismatch"}
    /\ rpc \in {"rmzip", "rmckpt"} /\ verdict = "match" => installed[rpath] = offered
    /\ rpc = "done" /\ rexit = 0 =>
          verdict = "mismatch" \/ (verdict = "match" /\ installed[rpath] = offered)
    /\ sexit = 0 /\ spc = "rm" => verdict = "match"
    /\ sexit = 0 /\ spc = "done" => verdict \in {"unsent", "match"}

IInv == TypeOK /\ JobInv /\ StageInv /\ S2RInv /\ PositionInv /\ R2SInv /\ DiskInv /\ VerdictInv
=============================================================================
