------------------------------- MODULE Session -------------------------------
(***************************************************************************)
(* The dialogue before a transfer: main of filerail_client.c and the child *)
(* process of filerail_server.c agree on a ping, a put or a get.  Several  *)
(* clients are served at once, each by a child of its own; the children    *)
(* work on one disk, and share nothing else.  The clients are on hosts of  *)
(* their own.                                                              *)
(*                                                                         *)
(* All puts and gets are of one resource of the server, a directory whose  *)
(* files are written and removed one by one.  What Transfer shows of the   *)
(* transfer itself is taken as a few steps here: the sender makes the      *)
(* archive, the receiver judges it, then extracts it.  On the server every *)
(* child has its archive under the same name: what Shared shows of         *)
(* children that use it at the same time is taken as what may come of it.  *)
(***************************************************************************)
EXTENDS Protocol, Sequences, FiniteSets

CONSTANTS
    Client,       \* the clients, each connected to its child
    Operation,    \* what clients are started for: "ping", "put", "get"
    FileName,
    Version,
    FilesOf,      \* the files each version of the resource consists of
    Absent,       \* no such file
    MaxFaults     \* bound on processes that die

ASSUME SessionAssumption ==
    /\ Operation \in SUBSET {"ping", "put", "get"} /\ Absent \notin Version
    /\ FilesOf \in [Version -> (SUBSET FileName) \ {{}}] /\ MaxFaults \in Nat

VARIABLES
    stored,       \* the resource on the server
    own,          \* the resource at the destination of each client's get
    op, version,  \* what each client is started for, and what it puts
    c2s, s2c,     \* messages under way
    cpc, spc,     \* where client and child are
    archive,      \* the archive the sender made, then what the receiver extracts
    todo,         \* what the receiver still has to extract of it
    overlapped,   \* clients whose child used the server's archive while another's did
    \* history
    asked,        \* clients whose child found the resource and said so
    agreed,       \* clients whose user agreed to overwrite it
    alone,        \* no put was checked while another put was under way
    faults

request == <<op, version>>
disk    == <<stored, own>>
work    == <<archive, todo, overlapped>>
net     == <<c2s, s2c>>
history == <<asked, agreed, alone>>
vars    == <<disk, request, net, cpc, spc, work, history, faults>>

-----------------------------------------------------------------------------
(* Resources: for each file name the version it is of.                     *)

Trees     == [FileName -> Version \cup {Absent}]
Nothing   == [n \in FileName |-> Absent]
Tree(v)   == [n \in FileName |-> IF n \in FilesOf[v] THEN v ELSE Absent]
Present(t) == {n \in FileName : t[n] # Absent}

\* filerail_is_exists.
Exists(t) == Present(t) # {}

-----------------------------------------------------------------------------
(* Steps of either side.                                                   *)

CGoto(c, pc) == cpc' = [cpc EXCEPT ![c] = pc]
SGoto(c, pc) == spc' = [spc EXCEPT ![c] = pc]

CSend(c, m) == c2s' = [c2s EXCEPT ![c] = IF spc[c] = "done" THEN @ ELSE Append(@, m)]
SSend(c, m) == s2c' = [s2c EXCEPT ![c] = IF cpc[c] = "done" THEN @ ELSE Append(@, m)]
CRecv(c)    == s2c[c] # <<>> /\ s2c' = [s2c EXCEPT ![c] = Tail(@)]
SRecv(c)    == c2s[c] # <<>> /\ c2s' = [c2s EXCEPT ![c] = Tail(@)]

-----------------------------------------------------------------------------
(* The client.                                                             *)

CPing(c) ==
    /\ cpc[c] = "start" /\ op[c] = "ping"
    /\ CSend(c, Command(PING)) /\ CGoto(c, "pong")
    /\ UNCHANGED <<disk, request, s2c, spc, work, history, faults>>

CPong(c) ==
    /\ cpc[c] = "pong" /\ CRecv(c)
    /\ CGoto(c, "done")
    /\ UNCHANGED <<disk, request, c2s, spc, work, history, faults>>

\* The resource does not exist, cannot be read, is no file and no directory.
CPutNothing(c) ==
    /\ cpc[c] = "start" /\ op[c] = "put"
    /\ CGoto(c, "done")
    /\ UNCHANGED <<disk, request, net, spc, work, history, faults>>

CPut(c) ==
    /\ cpc[c] = "start" /\ op[c] = "put"
    /\ CSend(c, Command(PUT)) /\ CGoto(c, "header")
    /\ UNCHANGED <<disk, request, s2c, spc, work, history, faults>>

\* filerail_parse_resource_path refuses the path; PUT is already sent.
CPutBadPath(c) ==
    /\ cpc[c] = "header" /\ op[c] = "put"
    /\ CGoto(c, "done")
    /\ UNCHANGED <<disk, request, net, spc, work, history, faults>>

CPutHeader(c) ==
    /\ cpc[c] = "header" /\ op[c] = "put"
    /\ CSend(c, ResourceHeader(0)) /\ CGoto(c, "answer")
    /\ UNCHANGED <<disk, request, s2c, spc, work, history, faults>>

\* A bug: the client does not ask its user.
MutAfterPutAnswer(response) ==
    IF response \in {OK, DUPLICATE_RESOURCE_NAME} THEN "zip" ELSE "done"

\* What the client makes of the server's answer to its put.
AfterPutAnswer(response) ==
    CASE response = OK -> "zip" [] response = DUPLICATE_RESOURCE_NAME -> "prompt"
      [] OTHER -> "done"

CPutAnswer(c) ==
    /\ cpc[c] = "answer" /\ op[c] = "put" /\ CRecv(c)
    /\ CGoto(c, AfterPutAnswer(Head(s2c[c]).code))
    /\ UNCHANGED <<disk, request, c2s, spc, work, history, faults>>

\* The answers are sent as responses; the server receives a command.
CPutYes(c) ==
    /\ cpc[c] = "prompt" /\ op[c] = "put"
    /\ CSend(c, Response(OVERWRITE)) /\ CGoto(c, "zip")
    /\ agreed' = agreed \cup {c}
    /\ UNCHANGED <<disk, request, s2c, spc, work, asked, alone, faults>>

CPutNo(c) ==
    /\ cpc[c] = "prompt" /\ op[c] = "put"
    /\ CSend(c, Response(ABORT)) /\ CGoto(c, "done")
    /\ UNCHANGED <<disk, request, s2c, spc, work, history, faults>>

\* A get of a resource that is already there is for the user to agree to.
CGetCheck(c) ==
    /\ cpc[c] = "start" /\ op[c] = "get"
    /\ CGoto(c, IF Exists(own[c]) THEN "prompt" ELSE "request")
    /\ UNCHANGED <<disk, request, net, spc, work, history, faults>>

CGetYes(c) ==
    /\ cpc[c] = "prompt" /\ op[c] = "get"
    /\ CGoto(c, "request")
    /\ agreed' = agreed \cup {c}
    /\ UNCHANGED <<disk, request, net, spc, work, asked, alone, faults>>

\* The user declines, the path is bad, the destination is missing or read-only.
CGetNo(c) ==
    /\ cpc[c] \in {"start", "prompt"} /\ op[c] = "get"
    /\ CGoto(c, "done")
    /\ UNCHANGED <<disk, request, net, spc, work, history, faults>>

CGet(c) ==
    /\ cpc[c] = "request"
    /\ CSend(c, Command(GET)) /\ CGoto(c, "header")
    /\ UNCHANGED <<disk, request, s2c, spc, work, history, faults>>

CGetHeader(c) ==
    /\ cpc[c] = "header" /\ op[c] = "get"
    /\ CSend(c, ResourceHeader(0)) /\ CGoto(c, "answer")
    /\ UNCHANGED <<disk, request, s2c, spc, work, history, faults>>

CGetAnswer(c) ==
    /\ cpc[c] = "answer" /\ op[c] = "get" /\ CRecv(c)
    /\ CGoto(c, IF Head(s2c[c]).code = OK THEN "size" ELSE "done")
    /\ UNCHANGED <<disk, request, c2s, spc, work, history, faults>>

\* filerail_check_storage_size with the size that the server advertises.
CGetSize(c) ==
    /\ cpc[c] = "size" /\ CRecv(c)
    /\ \/ CSend(c, Response(OK)) /\ CGoto(c, "receive")
       \/ CSend(c, Response(ABORT)) /\ CGoto(c, "done")
    /\ UNCHANGED <<disk, request, spc, work, history, faults>>

-----------------------------------------------------------------------------
(* The child.                                                              *)

SCommand(c) ==
    /\ spc[c] = "command" /\ SRecv(c)
    /\ LET command == Head(c2s[c]).code IN
       /\ SGoto(c, CASE command = PUT -> "putheader" [] command = GET -> "getheader"
                     [] OTHER -> "done")
       /\ IF command = PING THEN SSend(c, Response(PONG)) ELSE UNCHANGED s2c
    /\ UNCHANGED <<disk, request, cpc, work, history, faults>>

\* A put that was checked and may still change the disk.
PutUnderWay(c) == spc[c] \in {"consent", "rm", "receive", "install"} /\ op[c] = "put"

\* The child of c works with the server's archive: from then on until it is done,
\* it and others that work with it write to and read from one file.
AtArchive(c) == spc[c] \in {"receive", "install", "verdict", "spin"}
Enters(c) ==
    LET others == {d \in Client \ {c} : AtArchive(d)}
    IN  overlapped' = IF others = {} THEN overlapped ELSE overlapped \cup others \cup {c}

\* A bug: a resource that cannot be written is called bad, as in a get.
MutPutAnswers ==
    {<<INSUFFICIENT_SPACE, "done">>, <<BAD_RESOURCE, "done">>}
    \cup (IF Exists(stored) THEN {<<DUPLICATE_RESOURCE_NAME, "consent">>}
                            ELSE {<<OK, "receive">>, <<NOT_FOUND, "done">>})

\* The answers to a put's resource header, and what the child does next: the
\* free space, the access rights and the directory are as they happen to be.
PutAnswers ==
    {<<INSUFFICIENT_SPACE, "done">>, <<NO_ACCESS, "done">>}
    \cup (IF Exists(stored) THEN {<<DUPLICATE_RESOURCE_NAME, "consent">>}
                            ELSE {<<OK, "receive">>, <<NOT_FOUND, "done">>})

SPutHeader(c) ==
    /\ spc[c] = "putheader" /\ SRecv(c)
    /\ \E answer \in PutAnswers :
          /\ SSend(c, Response(answer[1])) /\ SGoto(c, answer[2])
          /\ asked' = IF answer[2] = "consent" THEN asked \cup {c} ELSE asked
          /\ alone' = (alone /\ \A d \in Client \ {c} : ~PutUnderWay(d))
          /\ IF answer[2] = "receive" THEN Enters(c) ELSE UNCHANGED overlapped
    /\ UNCHANGED <<disk, request, cpc, archive, todo, agreed, faults>>

\* A bug: any answer is taken for the user's consent.
MutAnyConsent(command) == "rm"

\* A bug: the old resource is left for extraction to overwrite, as in a get.
MutKeepOld(command) == IF command = OVERWRITE THEN "receive" ELSE "done"

\* What the child makes of the user's decision.
AfterConsent(command) == IF command = OVERWRITE THEN "rm" ELSE "done"

SConsent(c) ==
    /\ spc[c] = "consent" /\ SRecv(c)
    /\ SGoto(c, AfterConsent(Head(c2s[c]).code))
    /\ UNCHANGED <<disk, request, s2c, cpc, work, history, faults>>

\* filerail_rm.
SRemove(c) ==
    /\ spc[c] = "rm" /\ Exists(stored)
    /\ \E n \in Present(stored) :
          /\ stored' = [stored EXCEPT ![n] = Absent]
          /\ IF Exists(stored') THEN SGoto(c, "rm") /\ UNCHANGED overlapped
                                ELSE SGoto(c, "receive") /\ Enters(c)
    /\ UNCHANGED <<own, request, net, cpc, archive, todo, history, faults>>

\* Another child has removed the resource, or removes or adds files meanwhile,
\* so that lstat, unlink or rmdir fails.
SRemoveFails(c) ==
    /\ spc[c] = "rm"
    /\ ~Exists(stored) \/ \E d \in Client \ {c} : PutUnderWay(d)
    /\ SGoto(c, "done")
    /\ UNCHANGED <<disk, request, net, cpc, work, history, faults>>

\* A bug: FINISH, which no side knows, in place of OK.
MutGetAnswers == IF Exists(stored) THEN {2, NO_ACCESS, BAD_RESOURCE} ELSE {NOT_FOUND}

\* The answers to a get's resource header, likewise.
GetAnswers == IF Exists(stored) THEN {OK, NO_ACCESS, BAD_RESOURCE} ELSE {NOT_FOUND}

SGetHeader(c) ==
    /\ spc[c] = "getheader" /\ SRecv(c)
    /\ \E answer \in GetAnswers :
          SSend(c, Response(answer)) /\ SGoto(c, IF answer = OK THEN "size" ELSE "done")
    /\ UNCHANGED <<disk, request, cpc, work, history, faults>>

SGetSize(c) ==
    /\ spc[c] = "size"
    /\ SSend(c, ResourceHeader(0)) /\ SGoto(c, "reply")
    /\ UNCHANGED <<disk, request, c2s, cpc, work, history, faults>>

SGetReply(c) ==
    /\ spc[c] = "reply" /\ SRecv(c)
    /\ SGoto(c, IF Head(c2s[c]).code = OK THEN "zip" ELSE "done")
    /\ UNCHANGED <<disk, request, s2c, cpc, work, history, faults>>

-----------------------------------------------------------------------------
(* The transfer: the client sends for a put, the child for a get.          *)

SenderAt(c, pc)   == IF op[c] = "put" THEN cpc[c] = pc ELSE op[c] = "get" /\ spc[c] = pc
ReceiverAt(c, pc) == IF op[c] = "put" THEN spc[c] = pc ELSE op[c] = "get" /\ cpc[c] = pc
SenderGoto(c, pc) ==
    IF op[c] = "put" THEN CGoto(c, pc) /\ UNCHANGED spc ELSE SGoto(c, pc) /\ UNCHANGED cpc
ReceiverGoto(c, pc) ==
    IF op[c] = "put" THEN SGoto(c, pc) /\ UNCHANGED cpc ELSE CGoto(c, pc) /\ UNCHANGED spc

\* zip_open empties what has the archive's name; the archive of a resource that
\* is gone cannot be made.
Zip(c) ==
    /\ SenderAt(c, "zip")
    /\ archive' = [archive EXCEPT ![c] = IF op[c] = "put" THEN Tree(version[c]) ELSE stored]
    /\ SenderGoto(c, IF Exists(archive'[c]) THEN "verdict" ELSE "done")
    /\ IF op[c] = "get" THEN Enters(c) ELSE UNCHANGED overlapped
    /\ UNCHANGED <<disk, request, net, todo, history, faults>>

\* Whose archive may have the name when c's is sent, or looked up to be extracted.
Named(c) == {c} \cup {d \in overlapped : c \in overlapped /\ Exists(archive[d])}

Judge(c) ==
    /\ ReceiverAt(c, "receive") /\ Exists(archive[c]) /\ spc[c] # "spin"
    /\ \E verdict \in {OK, NO_INTEGRITY} :
          /\ IF op[c] = "put" THEN SSend(c, Response(verdict)) /\ UNCHANGED c2s
                              ELSE CSend(c, Response(verdict)) /\ UNCHANGED s2c
          /\ IF verdict = OK
             THEN \E d \in Named(c) :
                     /\ ReceiverGoto(c, "install")
                     /\ archive' = [archive EXCEPT ![c] = archive[d]]
                     /\ todo' = [todo EXCEPT ![c] = Present(archive[d])]
             ELSE ReceiverGoto(c, "done") /\ UNCHANGED <<archive, todo>>
    /\ UNCHANGED <<disk, request, overlapped, history, faults>>

\* One file of zip_extract.  What else is in the directory stays there.
Extract(c) ==
    /\ ReceiverAt(c, "install")
    /\ \E n \in todo[c] :
          /\ todo' = [todo EXCEPT ![c] = @ \ {n}]
          /\ IF op[c] = "put"
             THEN stored' = [stored EXCEPT ![n] = archive[c][n]] /\ UNCHANGED own
             ELSE own' = [own EXCEPT ![c][n] = archive[c][n]] /\ UNCHANGED stored
    /\ ReceiverGoto(c, IF todo'[c] = {} THEN "done" ELSE "install")
    /\ UNCHANGED <<request, net, archive, overlapped, history, faults>>

Verdict(c) ==
    /\ SenderAt(c, "verdict")
    /\ IF op[c] = "put" THEN CRecv(c) /\ UNCHANGED c2s ELSE SRecv(c) /\ UNCHANGED s2c
    /\ SenderGoto(c, "done")
    /\ UNCHANGED <<disk, request, work, history, faults>>

\* The server's archive was emptied, overwritten or removed by another child: one
\* that hashes or sends it fails or goes on for ever, and so does one that hashes
\* what it received; what is extracted of it, by child or client, is cut short.
Spoilt(c) ==
    /\ c \in overlapped /\ Exists(archive[c])
    /\ \/ /\ spc[c] = "receive" \/ (spc[c] = "verdict" /\ c2s[c] = <<>>)
          /\ SGoto(c, "done") \/ SGoto(c, "spin")
          /\ UNCHANGED cpc
       \/ ReceiverAt(c, "install") /\ ReceiverGoto(c, "done")
    /\ UNCHANGED <<disk, request, net, work, history, faults>>

-----------------------------------------------------------------------------
(* The other side is gone: a call waits in vain, or has nobody to send to.  *)

CHungUp(c) ==
    /\ spc[c] = "done"
    /\ \/ cpc[c] \in {"pong", "answer", "size", "verdict"} /\ s2c[c] = <<>>
       \/ cpc[c] \in {"start", "header", "request", "zip", "receive"}
       \/ cpc[c] = "prompt" /\ op[c] = "put"
    /\ CGoto(c, "done")
    /\ UNCHANGED <<disk, request, net, spc, work, history, faults>>

SHungUp(c) ==
    /\ cpc[c] = "done"
    /\ \/ spc[c] \in {"command", "putheader", "consent", "getheader", "reply", "verdict"}
          /\ c2s[c] = <<>>
       \/ spc[c] \in {"size", "zip", "receive"}
    /\ SGoto(c, "done")
    /\ UNCHANGED <<disk, request, net, cpc, work, history, faults>>

\* A process is killed, or a local call fails that main leaves after.
Dies(c) ==
    /\ faults < MaxFaults /\ faults' = faults + 1
    /\ \/ cpc[c] # "done" /\ CGoto(c, "done") /\ UNCHANGED spc
       \/ spc[c] # "done" /\ SGoto(c, "done") /\ UNCHANGED cpc
    /\ UNCHANGED <<disk, request, net, work, history>>

-----------------------------------------------------------------------------
\* Only a put looks at version, and only a get at own.
Init ==
    /\ op \in [Client -> Operation] /\ version \in [Client -> Version]
    /\ \A c \in Client : op[c] = "put" \/ version[c] = CHOOSE v \in Version : TRUE
    /\ stored \in {Nothing} \cup {Tree(v) : v \in Version}
    /\ own \in [Client -> {Nothing} \cup {Tree(v) : v \in Version}]
    /\ \A c \in Client : op[c] = "get" \/ own[c] = Nothing
    /\ c2s = [c \in Client |-> <<>>] /\ s2c = [c \in Client |-> <<>>]
    /\ cpc = [c \in Client |-> "start"] /\ spc = [c \in Client |-> "command"]
    /\ archive = [c \in Client |-> Nothing] /\ todo = [c \in Client |-> {}]
    /\ overlapped = {} /\ asked = {} /\ agreed = {} /\ alone = TRUE /\ faults = 0

CPutStep(c) == CPutNothing(c) \/ CPut(c) \/ CPutBadPath(c) \/ CPutHeader(c) \/ CPutAnswer(c)
               \/ CPutYes(c) \/ CPutNo(c)
CGetStep(c) == CGetCheck(c) \/ CGetYes(c) \/ CGetNo(c) \/ CGet(c) \/ CGetHeader(c)
               \/ CGetAnswer(c) \/ CGetSize(c)
CStep(c)    == CPing(c) \/ CPong(c) \/ CPutStep(c) \/ CGetStep(c) \/ CHungUp(c)
SStep(c)    == \/ SCommand(c) \/ SPutHeader(c) \/ SConsent(c) \/ SRemove(c) \/ SRemoveFails(c)
               \/ SGetHeader(c) \/ SGetSize(c) \/ SGetReply(c) \/ SHungUp(c)
Transfer(c) == Zip(c) \/ Judge(c) \/ Extract(c) \/ Verdict(c)

Next == \E c \in Client : CStep(c) \/ SStep(c) \/ Transfer(c) \/ Spoilt(c) \/ Dies(c)
Spec == Init /\ [][Next]_vars

\* Processes that can run do, and users answer.
FairSpec == Spec /\ \A c \in Client : WF_vars(CStep(c)) /\ WF_vars(SStep(c)) /\ WF_vars(Transfer(c))

-----------------------------------------------------------------------------
(* Properties.                                                             *)

Coded(kind, codes) == [kind : {kind}, code : codes]
FromClient == Coded("command", {PUT, GET, PING})
              \cup Coded("response", {OVERWRITE, ABORT, OK, NO_INTEGRITY}) \cup {ResourceHeader(0)}
FromChild  == Coded("response", {OK, PONG, NOT_FOUND, NO_ACCESS, BAD_RESOURCE, INSUFFICIENT_SPACE,
                                 DUPLICATE_RESOURCE_NAME, NO_INTEGRITY}) \cup {ResourceHeader(0)}

\* Every variable keeps its type.
TypeOK ==
    /\ stored \in Trees /\ own \in [Client -> Trees] /\ archive \in [Client -> Trees]
    /\ op \in [Client -> Operation] /\ version \in [Client -> Version]
    /\ c2s \in [Client -> Seq(FromClient)] /\ s2c \in [Client -> Seq(FromChild)]
    /\ cpc \in [Client -> {"start", "pong", "header", "answer", "prompt", "request", "size", "zip",
                           "verdict", "receive", "install", "done"}]
    /\ spc \in [Client -> {"command", "putheader", "consent", "rm", "getheader", "size", "reply",
                           "zip", "verdict", "receive", "install", "spin", "done"}]
    /\ todo \in [Client -> SUBSET FileName] /\ overlapped \in SUBSET Client
    /\ asked \in SUBSET Client /\ agreed \in SUBSET Client /\ alone \in BOOLEAN
    /\ faults \in 0..MaxFaults

\* What client and child have a branch for at each point of the dialogue.  The
\* answer to the prompt is sent as a response and read as a command; both are the
\* same integer.
CAwaits(c) ==
    CASE cpc[c] = "pong" -> Coded("response", {PONG})
      [] cpc[c] = "answer" /\ op[c] = "put" ->
             Coded("response", {OK, NO_ACCESS, NOT_FOUND, INSUFFICIENT_SPACE,
                                DUPLICATE_RESOURCE_NAME})
      [] cpc[c] = "answer" /\ op[c] = "get" ->
             Coded("response", {OK, NO_ACCESS, NOT_FOUND, BAD_RESOURCE})
      [] cpc[c] = "size" -> {ResourceHeader(0)}
      [] cpc[c] = "verdict" -> Coded("response", {OK, NO_INTEGRITY})
      [] OTHER -> {}
SAwaits(c) ==
    CASE spc[c] = "command" -> Coded("command", {PUT, GET, PING})
      [] spc[c] \in {"putheader", "getheader"} -> {ResourceHeader(0)}
      [] spc[c] = "consent" -> Coded("response", {OVERWRITE, ABORT})
      [] spc[c] = "reply" -> Coded("response", {OK, ABORT})
      [] spc[c] = "verdict" -> Coded("response", {OK, NO_INTEGRITY})
      [] OTHER -> {}

\* Neither main ever takes a branch that says "PROTOCOL NOT FOLLOWED", nor reads
\* a message as something it is not: what it finds is what its peer sent for this
\* point of the dialogue, and has a branch there.
FollowsProtocol == \A c \in Client :
    /\ cpc[c] # "done" /\ s2c[c] # <<>> => Head(s2c[c]) \in CAwaits(c)
    /\ spc[c] # "done" /\ c2s[c] # <<>> => Head(c2s[c]) \in SAwaits(c)

\* The user of a child that removes or extracts was asked and agreed.
Agreed(c) == c \in asked \cap agreed /\ spc[c] \in {"rm", "install"}
Touched(n) == stored[n] # Absent /\ stored'[n] # stored[n]

\* A file of the server's resource is removed, and as long as puts do not overlap
\* also replaced, only by a child that had found the resource, said so, and was
\* told that its user agrees; and a client overwrites its own resource only if
\* its user agrees.
OverwrittenWithConsent ==
    [][/\ \A n \in FileName : Touched(n) /\ (stored'[n] = Absent \/ alone)
              => \E c \in Client : Agreed(c)
       /\ \A c \in Client, n \in FileName :
              own[c][n] # Absent /\ own'[c][n] # own[c][n] => c \in agreed]_vars

\* As long as puts do not overlap, a put that installs everything leaves exactly
\* the version it sent, and nothing of the resource that was there before; unless
\* another child, of a get, had its archive in the same file meanwhile.
PutReplaces ==
    [][\A c \in Client :
          op[c] = "put" /\ todo[c] # {} /\ todo'[c] = {} /\ alone /\ c \notin overlapped
              => stored' = Tree(version[c])]_vars

\* Every session ends, on both sides, whatever the answers and wherever one of
\* them dies: at no point do client and child wait for each other.  Only a child
\* whose archive was also another's may go on for ever, and its client with it.
SessionEnds == \A c \in Client :
    <>(cpc[c] = "done" /\ spc[c] = "done") \/ <>[](spc[c] = "spin" /\ c \in overlapped)

=============================================================================
