----------------------------- MODULE AcceptLoop -----------------------------
(***************************************************************************)
(* The server's parent process (filerail_server.c): it accepts clients and *)
(* forks a child for each, while the handler of SIGCHLD reaps the children *)
(* that ended.  The handler runs between any two steps of the loop and     *)
(* shares errno with it; the signal is not queued, so several children may *)
(* end for one delivery.  What a child does is left to Transfer.           *)
(***************************************************************************)
EXTENDS Naturals, Sequences, FiniteSets

CONSTANTS
    Clients,      \* the connections clients make
    BACKLOG,      \* the argument of listen
    LogErrno,     \* values that syslog may leave in errno
    MaxFaults     \* bound on failing calls

ASSUME LoopAssumption ==
    /\ IsFiniteSet(Clients) /\ BACKLOG \in Nat \ {0} /\ MaxFaults \in Nat
    /\ LogErrno \subseteq {"ENOENT"}

VARIABLES
    backlog,      \* connections that wait to be accepted
    seen,         \* all connections so far
    ppc,          \* where the loop is
    clifd,        \* the connection it is busy with
    errno,
    interrupted,  \* whether the last accept was interrupted by a signal
    pending,      \* SIGCHLD is pending
    hpc,          \* "wait" inside the handler
    live,         \* children that run
    zombies,      \* children that ended and were not waited for
    served,       \* history: the connections that have had a child
    faults

loop     == <<ppc, clifd>>
signal   == <<pending, hpc>>
children == <<live, zombies, served>>
vars     == <<backlog, seen, loop, errno, interrupted, signal, children, faults>>

NoClient == "none"
Errno    == {"0", "EINTR", "EAGAIN", "EMFILE", "ECHILD"} \cup LogErrno
Running  == ppc # "exited"
\* The loop goes on unless the handler has interrupted it.
Loop(pc) == ppc = pc /\ hpc = "none"
Fault    == faults < MaxFaults /\ faults' = faults + 1

\* parent_clean_up: whoever has ended by then is reaped by init.
Exit == ppc' = "exited" /\ zombies' = {} /\ pending' = FALSE
        /\ UNCHANGED <<clifd, hpc, live, served>>

-----------------------------------------------------------------------------
(* The clients and the children.                                           *)

Connect == \E c \in Clients \ seen :
    /\ Running /\ Len(backlog) < BACKLOG
    /\ backlog' = Append(backlog, c) /\ seen' = seen \cup {c}
    /\ UNCHANGED <<loop, errno, interrupted, signal, children, faults>>

\* A child returns from main.  SIGCHLD is set however often it is raised.
ChildEnds == \E c \in live :
    /\ live' = live \ {c}
    /\ IF Running THEN zombies' = zombies \cup {c} /\ pending' = TRUE
                  ELSE UNCHANGED <<zombies, pending>>
    /\ UNCHANGED <<backlog, seen, loop, errno, interrupted, hpc, served, faults>>

-----------------------------------------------------------------------------
(* The handler.                                                            *)

\* The signal arrives while the parent runs, or while accept has someone to
\* return.
Deliver ==
    /\ Running /\ pending /\ hpc = "none"
    /\ hpc' = "wait" /\ pending' = FALSE
    /\ UNCHANGED <<backlog, seen, loop, errno, interrupted, children, faults>>

\* The signal ends an accept that waits.
Interrupt ==
    /\ Loop("accept") /\ backlog = <<>> /\ pending
    /\ hpc' = "wait" /\ pending' = FALSE
    /\ ppc' = "interrupted"
    /\ UNCHANGED <<backlog, seen, clifd, errno, interrupted, children, faults>>

\* One waitpid of the handler: it reaps a child, or says that none has ended
\* (0), or that there is none (-1 and ECHILD, in the errno of the loop).
HReap == \E c \in zombies :
    /\ hpc = "wait"
    /\ zombies' = zombies \ {c}
    /\ UNCHANGED <<backlog, seen, loop, errno, interrupted, signal, live, served, faults>>

\* A bug: one waitpid per signal.
MutHReturn ==
    /\ hpc = "wait" /\ hpc' = "none"
    /\ errno' = IF live \cup zombies = {} THEN "ECHILD" ELSE errno
    /\ UNCHANGED <<backlog, seen, loop, interrupted, pending, children, faults>>

\* A bug: no WNOHANG.
MutHBlocks ==
    /\ hpc = "wait" /\ live \cup zombies = {} /\ hpc' = "none"
    /\ errno' = "ECHILD"
    /\ UNCHANGED <<backlog, seen, loop, interrupted, pending, children, faults>>

HReturn ==
    /\ hpc = "wait" /\ zombies = {}
    /\ hpc' = "none"
    /\ errno' = IF live = {} THEN "ECHILD" ELSE errno
    /\ UNCHANGED <<backlog, seen, loop, interrupted, pending, children, faults>>

-----------------------------------------------------------------------------
(* The loop.                                                               *)

\* A bug: whether accept was interrupted is told from errno alone, which a call
\* that succeeds leaves as it was.
MutAccept ==
    /\ Loop("accept") /\ backlog # <<>>
    /\ clifd' = Head(backlog) /\ backlog' = Tail(backlog)
    /\ interrupted' = FALSE
    /\ ppc' = IF errno = "EINTR" THEN "accept" ELSE "who"
    /\ UNCHANGED <<seen, errno, signal, children, faults>>

Accept ==
    /\ Loop("accept") /\ backlog # <<>>
    /\ clifd' = Head(backlog) /\ backlog' = Tail(backlog)
    /\ interrupted' = FALSE
    /\ ppc' = "who"
    /\ UNCHANGED <<seen, errno, signal, children, faults>>

\* accept returns -1, for the signal, ...
AcceptInterrupted ==
    /\ Loop("interrupted")
    /\ errno' = "EINTR" /\ interrupted' = TRUE
    /\ ppc' = "log"
    /\ UNCHANGED <<backlog, seen, clifd, signal, children, faults>>

\* ... because nobody came for TIME_OUT seconds ("spins a server for 10 hours"),
AcceptTimesOut ==
    /\ Loop("accept") /\ backlog = <<>>
    /\ errno' = "EAGAIN" /\ interrupted' = FALSE
    /\ ppc' = "log"
    /\ UNCHANGED <<backlog, seen, clifd, signal, children, faults>>

\* ... or because it fails (EMFILE, ECONNABORTED, EINVAL for the value that
\* addrlen happens to have, ...).
AcceptFails ==
    /\ Loop("accept") /\ Fault
    /\ errno' = "EMFILE" /\ interrupted' = FALSE
    /\ ppc' = "log"
    /\ UNCHANGED <<backlog, seen, clifd, signal, children>>

\* The LOG of filerail_accept.
Log ==
    /\ Loop("log")
    /\ errno' \in {errno} \cup LogErrno
    /\ ppc' = "check"
    /\ UNCHANGED <<backlog, seen, clifd, interrupted, signal, children, faults>>

Check ==
    /\ Loop("check")
    /\ IF errno = "EINTR" THEN ppc' = "accept" /\ UNCHANGED <<clifd, signal, children>> ELSE Exit
    /\ UNCHANGED <<backlog, seen, errno, interrupted, faults>>

\* filerail_who; it fails if the client is already gone.
Who ==
    /\ Loop("who")
    /\ ppc' = "fork"
    /\ UNCHANGED <<backlog, seen, clifd, errno, interrupted, signal, children, faults>>

WhoFails ==
    /\ Loop("who") /\ Fault /\ Exit
    /\ UNCHANGED <<backlog, seen, errno, interrupted>>

Fork ==
    /\ Loop("fork")
    /\ live' = live \cup {clifd} /\ served' = served \cup {clifd}
    /\ ppc' = "close"
    /\ UNCHANGED <<backlog, seen, clifd, errno, interrupted, signal, zombies, faults>>

ForkFails ==
    /\ Loop("fork") /\ Fault /\ Exit
    /\ UNCHANGED <<backlog, seen, errno, interrupted>>

Close ==
    /\ Loop("close")
    /\ clifd' = NoClient
    /\ ppc' = "accept"
    /\ UNCHANGED <<backlog, seen, errno, interrupted, signal, children, faults>>

-----------------------------------------------------------------------------
Init ==
    /\ backlog = <<>> /\ seen = {}
    /\ ppc = "accept" /\ clifd = NoClient
    /\ errno = "0" /\ interrupted = FALSE
    /\ pending = FALSE /\ hpc = "none"
    /\ live = {} /\ zombies = {} /\ served = {} /\ faults = 0

Handler == Deliver \/ Interrupt \/ HReap \/ HReturn
Step    == Accept \/ AcceptInterrupted \/ Log \/ Check \/ Who \/ Fork \/ Close
Next    == \/ Connect \/ ChildEnds \/ Handler \/ Step
           \/ AcceptTimesOut \/ AcceptFails \/ WhoFails \/ ForkFails

Spec == Init /\ [][Next]_vars

\* The kernel delivers signals and runs the parent.  Children may serve their
\* clients for as long as they like, and clients need not come.
FairSpec == Spec /\ WF_vars(Handler) /\ WF_vars(Step)

-----------------------------------------------------------------------------
\* Every variable keeps its type.
TypeOK ==
    /\ backlog \in Seq(Clients) /\ seen \in SUBSET Clients
    /\ ppc \in {"accept", "interrupted", "log", "check", "who", "fork", "close", "exited"}
    /\ clifd \in Clients \cup {NoClient} /\ (ppc \in {"who", "fork"} => clifd \in Clients)
    /\ errno \in Errno /\ interrupted \in BOOLEAN
    /\ pending \in BOOLEAN /\ hpc \in {"none", "wait"}
    /\ live \in SUBSET Clients /\ zombies \in SUBSET Clients /\ served \in SUBSET Clients
    /\ faults \in 0..MaxFaults

\* Where a client is before it has a child: in the queue, or with the loop.
Waits(c)    == \E i \in 1..Len(backlog) : backlog[i] = c
Accepted(c) == clifd = c /\ ppc \in {"who", "fork"}

\* However signals interrupt accept and whatever they leave in errno, the loop
\* gives no client a second child, and as long as it runs it loses none that has
\* come: every client waits, is being accepted, or has had its one child.
OneChildEach ==
    /\ \A c \in served : ~Waits(c) /\ ~Accepted(c)
    /\ \A i, j \in 1..Len(backlog) : i # j => backlog[i] # backlog[j]
    /\ \A c \in Clients : Accepted(c) => ~Waits(c)
    /\ live \cup zombies \subseteq served /\ live \cap zombies = {}
    /\ Running => seen = served \cup {c \in Clients : Waits(c) \/ Accepted(c)}

\* "read the exit status to prevent zombies" (filerail_server.c): although
\* children may end while the handler runs or before it does, and one signal
\* stands for all of them, no zombie is ever forgotten.
ZombiesNoticed == zombies # {} => pending \/ hpc = "wait"

\* Every child that ended is reaped.
Reaped == \A c \in Clients : c \in zombies ~> c \notin zombies

\* Every client in the queue gets a child, unless the server has exited, however
\* often signals interrupt the loop.
Served   == \A c \in Clients : Waits(c) ~> c \in live \/ ~Running

\* "if interrupted don't exit" (filerail_server.c).
InterruptedContinues == interrupted => Running

=============================================================================
