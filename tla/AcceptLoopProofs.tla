-------------------------- MODULE AcceptLoopProofs --------------------------
(***************************************************************************)
(* What the loop and the SIGCHLD handler guarantee for any number of       *)
(* clients, queue length and number of failing calls.                      *)
(***************************************************************************)
EXTENDS AcceptLoop, SequenceTheorems, TLAPS

\* The client at the head of the queue is not in the rest of it.
LEMMA HeadOfQueue ==
  ASSUME TypeOK, OneChildEach, backlog # <<>>
  PROVE  /\ Head(backlog) \in Clients /\ Tail(backlog) \in Seq(Clients) /\ Waits(Head(backlog))
         /\ \A i, j \in 1..Len(Tail(backlog)) : i # j => Tail(backlog)[i] # Tail(backlog)[j]
         /\ \A i \in 1..Len(Tail(backlog)) : Tail(backlog)[i] # Head(backlog) /\ Waits(Tail(backlog)[i])
         /\ \A c : Waits(c) => c = Head(backlog) \/ \E i \in 1..Len(Tail(backlog)) : Tail(backlog)[i] = c
<1>1. backlog \in Seq(Clients)
  BY DEF TypeOK
<1>2. /\ Len(Tail(backlog)) = Len(backlog) - 1 /\ Len(backlog) \in Nat \ {0}
      /\ Head(backlog) = backlog[1] /\ Head(backlog) \in Clients /\ Tail(backlog) \in Seq(Clients)
      /\ \A i \in 1..Len(Tail(backlog)) : i + 1 \in 1..Len(backlog) /\ Tail(backlog)[i] = backlog[i + 1]
  BY <1>1, HeadTailProperties
<1>3. \A k \in 1..Len(backlog) : k = 1 \/ (k - 1 \in 1..Len(Tail(backlog)) /\ k - 1 + 1 = k)
  BY <1>2
<1>4. \A c : Waits(c) => c = Head(backlog) \/ \E i \in 1..Len(Tail(backlog)) : Tail(backlog)[i] = c
  <2> SUFFICES ASSUME NEW c, Waits(c), c # Head(backlog)
               PROVE  \E i \in 1..Len(Tail(backlog)) : Tail(backlog)[i] = c
    OBVIOUS
  <2>1. PICK k \in 1..Len(backlog) : backlog[k] = c
    BY DEF Waits
  <2>2. k - 1 \in 1..Len(Tail(backlog)) /\ k - 1 + 1 = k
    BY <1>2, <1>3, <2>1
  <2>3. Tail(backlog)[k - 1] = c
    BY <1>2, <2>1, <2>2
  <2> QED
    BY <2>2, <2>3
<1> QED
  BY <1>2, <1>4 DEF OneChildEach, Waits

\* A new client goes to the end of the queue, and is none of those in it.
LEMMA LastOfQueue ==
  ASSUME TypeOK, NEW c \in Clients, backlog' = Append(backlog, c)
  PROVE  /\ backlog' \in Seq(Clients)
         /\ \A d : Waits(d)' <=> Waits(d) \/ d = c
         /\ (~Waits(c) /\ \A i, j \in 1..Len(backlog) : i # j => backlog[i] # backlog[j])
                => \A i, j \in 1..Len(backlog') : i # j => backlog'[i] # backlog'[j]
<1>1. backlog \in Seq(Clients)
  BY DEF TypeOK
<1>2. /\ Len(backlog') = Len(backlog) + 1 /\ Len(backlog) \in Nat /\ backlog' \in Seq(Clients)
      /\ \A i \in 1..Len(backlog) : backlog'[i] = backlog[i]
      /\ backlog'[Len(backlog) + 1] = c
  BY <1>1, AppendProperties
<1>3. \A k \in 1..Len(backlog') : k \in 1..Len(backlog) \/ k = Len(backlog) + 1
  BY <1>2
<1> QED
  BY <1>2, <1>3 DEF Waits

\* Every step keeps the accounts of the clients.
LEMMA AccountStep == TypeOK /\ OneChildEach /\ [Next]_vars => OneChildEach'
<1> SUFFICES ASSUME TypeOK, OneChildEach, [Next]_vars PROVE OneChildEach'
    OBVIOUS
<1> USE DEF vars, loop, signal, children, Running, Loop, Exit
<1>1. CASE Connect
  <2>1. PICK c \in Clients \ seen :
            /\ Running /\ backlog' = Append(backlog, c) /\ seen' = seen \cup {c}
            /\ UNCHANGED <<loop, errno, interrupted, signal, children, faults>>
    BY <1>1 DEF Connect
  <2>2. c \notin served /\ ~Waits(c) /\ ~Accepted(c)
    BY <2>1 DEF OneChildEach
  <2>3. \A d : Waits(d)' <=> Waits(d) \/ d = c
    BY <2>1, LastOfQueue
  <2>4. \A i, j \in 1..Len(backlog') : i # j => backlog'[i] # backlog'[j]
    BY <2>1, <2>2, LastOfQueue DEF OneChildEach
  <2>5. \A d : Accepted(d)' <=> Accepted(d)
    BY <2>1 DEF Accepted
  <2> QED
    BY <2>1, <2>2, <2>3, <2>4, <2>5 DEF OneChildEach
<1>2. CASE Accept
  <2> DEFINE head == Head(backlog)
  <2>1. backlog # <<>> /\ backlog' = Tail(backlog) /\ clifd' = head /\ ppc = "accept" /\ ppc' = "who"
        /\ UNCHANGED <<seen, children>>
    BY <1>2 DEF Accept
  <2>2. /\ head \in Clients /\ Waits(head)
        /\ \A i, j \in 1..Len(backlog') : i # j => backlog'[i] # backlog'[j]
        /\ \A i \in 1..Len(backlog') : backlog'[i] # head /\ Waits(backlog'[i])
        /\ \A c : Waits(c) => c = head \/ \E i \in 1..Len(backlog') : backlog'[i] = c
    BY <2>1, HeadOfQueue
  <2>3. \A c : (Waits(c) <=> Waits(c)' \/ c = head) /\ (c = head => ~Waits(c)')
    <3>1. \A c : Waits(c)' <=> \E i \in 1..Len(backlog') : backlog'[i] = c
      BY DEF Waits
    <3> HIDE DEF head
    <3>2. ASSUME NEW c, Waits(c)' PROVE Waits(c) /\ c # head
      <4>1. PICK i \in 1..Len(backlog') : backlog'[i] = c
        BY <3>1, <3>2
      <4> QED
        BY <2>2, <4>1
    <3>3. ASSUME NEW c, Waits(c), c # head PROVE Waits(c)'
      BY <2>2, <3>1, <3>3
    <3> QED
      BY <2>2, <3>2, <3>3, Zenon
  <2>4. head \notin served
    BY <2>2 DEF OneChildEach
  <2>5. \A c : ~Accepted(c) /\ (Accepted(c)' <=> c = head)
    BY <2>1 DEF Accepted
  <2>6. served' = served /\ live' = live /\ zombies' = zombies /\ seen' = seen /\ (Running' => Running)
    BY <2>1
  <2> HIDE DEF head, vars, loop, signal, children, Running, Loop, Exit
  <2>7. /\ \A c \in served' : ~Waits(c)' /\ ~Accepted(c)'
        /\ \A c \in Clients : Accepted(c)' => ~Waits(c)'
    <3>1. ASSUME NEW c \in served' PROVE ~Waits(c)' /\ ~Accepted(c)'
      BY <2>3, <2>4, <2>5, <2>6, <3>1, Zenon DEF OneChildEach
    <3> QED
      BY <2>3, <2>5, <3>1, Zenon
  <2>8. live' \cup zombies' \subseteq served' /\ live' \cap zombies' = {}
    BY <2>6 DEF OneChildEach
  <2>9. Running' => seen' = served' \cup {c \in Clients : Waits(c)' \/ Accepted(c)'}
    <3>1. {c \in Clients : Waits(c)' \/ Accepted(c)'} = {c \in Clients : Waits(c) \/ Accepted(c)}
      BY <2>2, <2>3, <2>5
    <3> QED
      BY <2>6, <3>1 DEF OneChildEach
  <2> QED
    BY <2>2, <2>7, <2>8, <2>9 DEF OneChildEach
<1>3. CASE Fork
  <2>1. /\ live' = live \cup {clifd} /\ served' = served \cup {clifd} /\ zombies' = zombies
        /\ ppc = "fork" /\ ppc' = "close" /\ clifd' = clifd /\ UNCHANGED <<backlog, seen>>
    BY <1>3 DEF Fork
  <2>2. \A c : (Accepted(c) <=> c = clifd) /\ ~Accepted(c)' /\ (Waits(c)' <=> Waits(c))
    BY <2>1 DEF Accepted, Waits
  <2>3. clifd \in Clients
    BY <2>1 DEF TypeOK
  <2> QED
    BY <2>1, <2>2, <2>3 DEF OneChildEach
<1>4. ASSUME UNCHANGED <<backlog, seen, clifd, served>>, Running' => Running,
             ppc' \in {"who", "fork"} <=> ppc \in {"who", "fork"},
             live' \cup zombies' \subseteq live \cup zombies, live' \cap zombies' = {}
      PROVE  OneChildEach'
  <2>1. \A c : (Accepted(c)' <=> Accepted(c)) /\ (Waits(c)' <=> Waits(c))
    BY <1>4 DEF Accepted, Waits
  <2> QED
    BY <1>4, <2>1 DEF OneChildEach
<1>5. CASE ChildEnds
  <2>1. PICK c \in live : live' = live \ {c} /\ zombies' \in {zombies, zombies \cup {c}}
    BY <1>5 DEF ChildEnds
  <2>2. live' \cup zombies' \subseteq live \cup zombies /\ live' \cap zombies' = {}
    BY <2>1 DEF OneChildEach
  <2> QED
    BY <1>4, <1>5, <2>2 DEF ChildEnds
<1>6. CASE WhoFails \/ ForkFails
  <2>1. \A c : ~Accepted(c)' /\ (Waits(c)' <=> Waits(c))
    BY <1>6 DEF WhoFails, ForkFails, Accepted, Waits
  <2> QED
    BY <1>6, <2>1 DEF WhoFails, ForkFails, OneChildEach
<1>7. CASE Deliver \/ Interrupt \/ HReap \/ HReturn \/ AcceptInterrupted \/ AcceptTimesOut \/ AcceptFails
           \/ Log \/ Check \/ Who \/ Close \/ UNCHANGED vars
  <2>1. CASE Close
    <3>1. \A c : ~Accepted(c) /\ ~Accepted(c)' /\ (Waits(c)' <=> Waits(c))
      BY <2>1 DEF Close, Accepted, Waits
    <3> QED
      BY <2>1, <3>1 DEF Close, OneChildEach
  <2>2. live \cap zombies = {}
    BY DEF OneChildEach
  <2> QED
    BY <1>4, <1>7, <2>1, <2>2 DEF Deliver, Interrupt, HReap, HReturn, AcceptInterrupted, AcceptTimesOut,
       AcceptFails, Log, Check, Who
<1> QED
  BY <1>1, <1>2, <1>3, <1>5, <1>6, <1>7 DEF Next, Handler, Step

\* A failing call stays within the bound.
LEMMA FaultBound ==
  ASSUME TypeOK, Fault
  PROVE  faults' \in 0..MaxFaults
  BY LoopAssumption DEF TypeOK, Fault

\* Every step keeps the types.
LEMMA TypeStep == TypeOK /\ OneChildEach /\ [Next]_vars => TypeOK'
<1> SUFFICES ASSUME TypeOK, OneChildEach, [Next]_vars PROVE TypeOK'
    OBVIOUS
<1> USE LoopAssumption
        DEF TypeOK, vars, loop, signal, children, NoClient, Errno, Running, Loop, Exit
<1>1. CASE Connect
  <2>1. PICK c \in Clients \ seen :
            /\ backlog' = Append(backlog, c) /\ seen' = seen \cup {c}
            /\ UNCHANGED <<loop, errno, interrupted, signal, children, faults>>
    BY <1>1 DEF Connect
  <2>2. backlog' \in Seq(Clients)
    BY <2>1, LastOfQueue
  <2> QED
    BY <2>1, <2>2
<1>2. CASE ChildEnds
  <2>1. PICK c \in live :
            /\ live' = live \ {c}
            /\ IF Running THEN zombies' = zombies \cup {c} /\ pending' = TRUE
                          ELSE UNCHANGED <<zombies, pending>>
            /\ UNCHANGED <<backlog, seen, loop, errno, interrupted, hpc, served, faults>>
    BY <1>2 DEF ChildEnds
  <2>2. live' \in SUBSET Clients /\ zombies' \in SUBSET Clients
    BY <2>1
  <2> QED
    BY <2>1, <2>2
<1>3. CASE Deliver
  BY <1>3 DEF Deliver
<1>4. CASE Interrupt
  BY <1>4 DEF Interrupt
<1>5. CASE HReap
  BY <1>5 DEF HReap
<1>6. CASE HReturn
  BY <1>6 DEF HReturn
<1>7. CASE Accept
  BY <1>7, HeadOfQueue DEF Accept
<1>8. CASE AcceptInterrupted
  BY <1>8 DEF AcceptInterrupted
<1>9. CASE AcceptTimesOut
  BY <1>9 DEF AcceptTimesOut
<1>10. CASE AcceptFails
  BY <1>10, FaultBound DEF AcceptFails
<1>11. CASE Log
  BY <1>11 DEF Log
<1>12. CASE Check
  BY <1>12 DEF Check
<1>13. CASE Who
  BY <1>13 DEF Who
<1>14. CASE WhoFails
  BY <1>14, FaultBound DEF WhoFails
<1>15. CASE Fork
  BY <1>15 DEF Fork
<1>16. CASE ForkFails
  BY <1>16, FaultBound DEF ForkFails
<1>17. CASE Close
  BY <1>17 DEF Close
<1>18. CASE UNCHANGED vars
  BY <1>18
<1> QED
  BY <1>1, <1>2, <1>3, <1>4, <1>5, <1>6, <1>7, <1>8, <1>9, <1>10, <1>11, <1>12, <1>13,
     <1>14, <1>15, <1>16, <1>17, <1>18 DEF Next, Handler, Step

\* No client gets a second child, and none that has come is lost as long as the
\* server runs, however many clients, signals and failing calls there are.
THEOREM ServedOnce == Spec => []OneChildEach
<1>1. Init => TypeOK /\ OneChildEach
  <2> SUFFICES ASSUME Init PROVE TypeOK /\ OneChildEach
      OBVIOUS
  <2>1. TypeOK
    <3>1. backlog \in Seq(Clients)
      BY EmptySeq DEF Init
    <3>2. faults \in 0..MaxFaults
      BY LoopAssumption DEF Init
    <3> QED
      BY <3>1, <3>2 DEF Init, TypeOK, NoClient, Errno
  <2>2. OneChildEach
    BY DEF Init, OneChildEach, Waits, Accepted
  <2> QED
    BY <2>1, <2>2
<1>2. TypeOK /\ OneChildEach /\ [Next]_vars => (TypeOK /\ OneChildEach)'
  BY TypeStep, AccountStep
<1> QED
  BY <1>1, <1>2, PTL DEF Spec

\* The handler's loop around waitpid leaves no zombie that no signal stands for
\* (filerail_server.c, "read the exit status to prevent zombies").
THEOREM NoZombieForgotten == Spec => []ZombiesNoticed
<1>1. Init => ZombiesNoticed
  BY DEF Init, ZombiesNoticed
<1>2. ZombiesNoticed /\ [Next]_vars => ZombiesNoticed'
  BY DEF ZombiesNoticed, Next, Handler, Step, Connect, ChildEnds, Deliver, Interrupt, HReap, HReturn,
     Accept, AcceptInterrupted, AcceptTimesOut, AcceptFails, Log, Check, Who, WhoFails, Fork, ForkFails,
     Close, Exit, Loop, vars, loop, signal, children
<1> QED
  BY <1>1, <1>2, PTL DEF Spec

=============================================================================
