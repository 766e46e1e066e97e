-------------------------- MODULE SessionInvariant --------------------------
(***************************************************************************)
(* The inductive invariant of Session: what lies between client and child  *)
(* at each point of the dialogue, and what each of them knows of the disk  *)
(* when it changes it.  Either may have ended at any point, with its peer  *)
(* still at work on what it said before.                                   *)
(***************************************************************************)
EXTENDS Session

\* The peer is at one of these places, or has ended after it was there.
CAt(c, pcs) == cpc[c] \in pcs \cup {"done"}
SAt(c, pcs) == spc[c] \in pcs \cup {"done"}

Codes(c, codes) == \E code \in codes : s2c[c] = <<Response(code)>>

\* What the client has sent that the child has still to receive, by what the
\* child does next, and where the client has come with that.
C2SInv(c) ==
    /\ spc[c] = "command" =>
          \/ c2s[c] = <<>> /\ CAt(c, {"start", "prompt", "request"})
          \/ c2s[c] = <<Command(PING)>> /\ op[c] = "ping" /\ CAt(c, {"pong"})
          \/ c2s[c] = <<Command(PUT)>> /\ op[c] = "put" /\ CAt(c, {"header"})
          \/ c2s[c] = <<Command(PUT), ResourceHeader(0)>> /\ op[c] = "put" /\ CAt(c, {"answer"})
          \/ c2s[c] = <<Command(GET)>> /\ op[c] = "get" /\ CAt(c, {"header"})
          \/ c2s[c] = <<Command(GET), ResourceHeader(0)>> /\ op[c] = "get" /\ CAt(c, {"answer"})
    /\ spc[c] \in {"putheader", "getheader"} =>
          \/ c2s[c] = <<>> /\ CAt(c, {"header"})
          \/ c2s[c] = <<ResourceHeader(0)>> /\ CAt(c, {"answer"})
    /\ spc[c] = "consent" =>
          \/ c2s[c] = <<>> /\ CAt(c, {"answer", "prompt"})
          \/ c2s[c] = <<Response(OVERWRITE)>> /\ CAt(c, {"zip", "verdict"}) /\ c \in agreed
          \/ c2s[c] = <<Response(ABORT)>> /\ CAt(c, {})
    /\ spc[c] = "rm" => c2s[c] = <<>> /\ CAt(c, {"zip", "verdict"})
    /\ spc[c] = "receive" => c2s[c] = <<>> /\ CAt(c, {"answer", "zip", "verdict"})
    /\ spc[c] = "install" => c2s[c] = <<>> /\ CAt(c, {"verdict"})
    /\ spc[c] = "spin" => c2s[c] = <<>> /\ CAt(c, {"verdict", "receive"})
    /\ spc[c] = "size" => c2s[c] = <<>> /\ CAt(c, {"answer", "size"})
    /\ spc[c] = "reply" =>
          \/ c2s[c] = <<>> /\ CAt(c, {"answer", "size"})
          \/ c2s[c] = <<Response(OK)>> /\ CAt(c, {"receive"})
          \/ c2s[c] = <<Response(ABORT)>> /\ CAt(c, {})
    /\ spc[c] = "zip" => c2s[c] = <<>> /\ CAt(c, {"receive"})
    /\ spc[c] = "verdict" =>
          \/ c2s[c] = <<>> /\ CAt(c, {"receive"})
          \/ c2s[c] = <<Response(OK)>> /\ CAt(c, {"install"})
          \/ c2s[c] = <<Response(NO_INTEGRITY)>> /\ CAt(c, {})

\* The same for the child's queue, by what the client does next.
S2CInv(c) ==
    /\ cpc[c] \in {"start", "request"} => s2c[c] = <<>> /\ SAt(c, {"command"})
    /\ cpc[c] = "pong" =>
          \/ s2c[c] = <<>> /\ SAt(c, {"command"})
          \/ s2c[c] = <<Response(PONG)>> /\ SAt(c, {})
    /\ cpc[c] = "header" => s2c[c] = <<>> /\ SAt(c, {"command", "putheader", "getheader"})
    /\ cpc[c] = "answer" /\ op[c] = "put" =>
          \/ s2c[c] = <<>> /\ SAt(c, {"command", "putheader"})
          \/ s2c[c] = <<Response(DUPLICATE_RESOURCE_NAME)>> /\ SAt(c, {"consent"})
          \/ s2c[c] = <<Response(OK)>> /\ SAt(c, {"receive"})
          \/ Codes(c, {NO_ACCESS, NOT_FOUND, INSUFFICIENT_SPACE}) /\ SAt(c, {})
    /\ cpc[c] = "answer" /\ op[c] = "get" =>
          \/ s2c[c] = <<>> /\ SAt(c, {"command", "getheader"})
          \/ s2c[c] = <<Response(OK)>> /\ SAt(c, {"size"})
          \/ s2c[c] = <<Response(OK), ResourceHeader(0)>> /\ SAt(c, {"reply"})
          \/ Codes(c, {NO_ACCESS, NOT_FOUND, BAD_RESOURCE}) /\ SAt(c, {})
    /\ cpc[c] = "prompt" => s2c[c] = <<>> /\ SAt(c, {IF op[c] = "put" THEN "consent" ELSE "command"})
    /\ cpc[c] = "size" =>
          \/ s2c[c] = <<>> /\ SAt(c, {"size"})
          \/ s2c[c] = <<ResourceHeader(0)>> /\ SAt(c, {"reply"})
    /\ cpc[c] = "zip" => s2c[c] = <<>> /\ SAt(c, {"consent", "rm", "receive"})
    /\ cpc[c] = "verdict" =>
          \/ s2c[c] = <<>> /\ SAt(c, {"consent", "rm", "receive", "spin"})
          \/ s2c[c] = <<Response(OK)>> /\ SAt(c, {"install"})
          \/ s2c[c] = <<Response(NO_INTEGRITY)>> /\ SAt(c, {})
    /\ cpc[c] = "receive" => s2c[c] = <<>> /\ SAt(c, {"reply", "zip", "verdict", "spin"})
    /\ cpc[c] = "install" => s2c[c] = <<>> /\ SAt(c, {"verdict"})

\* Each operation has its own part of the dialogue, and what is extracted is an
\* archive that was made, its own if no other child used the same file.
OpInv(c) ==
    /\ spc[c] \in {"putheader", "consent", "rm", "receive", "install"} => op[c] = "put"
    /\ spc[c] \in {"getheader", "size", "reply", "zip", "verdict"} => op[c] = "get"
    /\ cpc[c] = "pong" => op[c] = "ping"
    /\ cpc[c] \in {"zip", "verdict"} => op[c] = "put"
    /\ cpc[c] \in {"request", "size", "receive", "install"} => op[c] = "get"
    /\ cpc[c] \in {"header", "answer", "prompt"} => op[c] \in {"put", "get"}
    /\ op[c] = "put" /\ c \notin overlapped => archive[c] \in {Nothing, Tree(version[c])}
    /\ op[c] = "put" /\ Exists(archive[c]) => CAt(c, {"verdict"})
    /\ op[c] = "get" /\ Exists(archive[c]) => SAt(c, {"verdict", "spin"})
    /\ todo[c] \subseteq Present(archive[c])

\* Who was asked and agreed.
ConsentInv(c) ==
    /\ spc[c] \in {"consent", "rm"} => c \in asked
    /\ spc[c] = "rm" => c \in agreed
    /\ op[c] = "get" /\ c \notin agreed =>
          /\ cpc[c] \in {"request", "header", "answer", "size", "receive"} => own[c] = Nothing
          /\ cpc[c] = "install" => \A n \in todo[c] : own[c][n] = Absent

\* While puts do not overlap, one child at a time works on the resource: it is
\* gone when the child receives, and holds what the child has extracted so far.
AloneInv == alone =>
    /\ \A c, d \in Client : PutUnderWay(c) /\ PutUnderWay(d) => c = d
    /\ \A c \in Client :
          /\ spc[c] = "receive" => stored = Nothing
          /\ spc[c] = "install" => \A n \in FileName :
                stored[n] = IF n \in todo[c] THEN Absent ELSE archive[c][n]

IInv == /\ TypeOK
        /\ \A c \in Client : C2SInv(c) /\ S2CInv(c) /\ OpInv(c) /\ ConsentInv(c)
        /\ AloneInv
=============================================================================
