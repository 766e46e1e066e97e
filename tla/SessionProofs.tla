---------------------------- MODULE SessionProofs ----------------------------
(***************************************************************************)
(* The theorems about Session, for any number of clients, whatever each is *)
(* started for, any versions of the resource and any number of deaths.     *)
(***************************************************************************)
EXTENDS SessionInvariant, SequenceTheorems, TLAPS

-----------------------------------------------------------------------------
(* Queues. *)

\* Sequences of one message and of two, as sending and receiving changes them.
LEMMA Queues ==
  ASSUME NEW m, NEW k
  PROVE  /\ Append(<<>>, m) = <<m>> /\ Append(<<k>>, m) = <<k, m>>
         /\ Head(<<m>>) = m /\ Tail(<<m>>) = <<>> /\ <<m>> # <<>>
         /\ Head(<<k, m>>) = k /\ Tail(<<k, m>>) = <<m>> /\ <<k, m>> # <<>>
<1> DEFINE S == {m, k}
<1>1. Append(<<>>, m) = <<m>>
  OBVIOUS
<1>5. Append(<<k>>, m) = <<k, m>>
  <2>1. <<k>> \in Seq(S) /\ m \in S /\ <<k, m>> \in Seq(S) /\ Len(<<k>>) = 1 /\ <<k>>[1] = k
        /\ Len(<<k, m>>) = 2 /\ <<k, m>>[1] = k /\ <<k, m>>[2] = m
    OBVIOUS
  <2> HIDE DEF S
  <2>2. /\ Append(<<k>>, m) \in Seq(S) /\ Len(Append(<<k>>, m)) = 2
        /\ Append(<<k>>, m)[1] = k /\ Append(<<k>>, m)[2] = m
    BY <2>1, AppendProperties
  <2>3. ASSUME NEW i \in 1..2 PROVE Append(<<k>>, m)[i] = <<k, m>>[i]
    <3>1. i = 1 \/ i = 2
      OBVIOUS
    <3> QED
      BY <2>1, <2>2, <3>1
  <2> DEFINE s == Append(<<k>>, m)  t == <<k, m>>
  <2>4. s \in Seq(S) /\ t \in Seq(S) /\ Len(s) = 2 /\ Len(t) = 2 /\ \A i \in 1..2 : s[i] = t[i]
    BY <2>1, <2>2, <2>3
  <2> HIDE DEF s, t
  <2>5. s = t
    BY <2>4, SeqEqual
  <2> QED
    BY <2>5 DEF s, t
<1>2. Head(<<m>>) = m /\ Tail(<<m>>) = <<>> /\ <<m>> # <<>>
  OBVIOUS
<1>3. Head(<<k, m>>) = k /\ <<k, m>> # <<>>
  OBVIOUS
<1>4. Tail(<<k, m>>) = <<m>>
  OBVIOUS
<1> QED
  BY <1>1, <1>2, <1>3, <1>4, <1>5

USE DEF CGoto, SGoto, CSend, SSend, CRecv, SRecv

-----------------------------------------------------------------------------
(* Those who take no step. *)

\* What a step of one client or its child leaves alone of another.
Same(d) ==
    /\ cpc'[d] = cpc[d] /\ spc'[d] = spc[d] /\ c2s'[d] = c2s[d] /\ s2c'[d] = s2c[d]
    /\ archive'[d] = archive[d] /\ todo'[d] = todo[d] /\ own'[d] = own[d]
    /\ op'[d] = op[d] /\ version'[d] = version[d]
    /\ (d \in asked' <=> d \in asked) /\ (d \in agreed' <=> d \in agreed)
    /\ d \in overlapped => d \in overlapped'

\* A step of one client or its child is no step of another.
LEMMA Others ==
  ASSUME TypeOK, NEW c \in Client, CStep(c) \/ SStep(c) \/ Transfer(c) \/ Spoilt(c) \/ Dies(c),
         NEW d \in Client, d # c
  PROVE  Same(d)
<1> USE DEF Same, TypeOK, disk, request, net, work, history
<1>1. CASE CStep(c)
  BY <1>1 DEF CStep, CPutStep, CGetStep, CPing, CPong, CPutNothing, CPut, CPutBadPath, CPutHeader,
       CPutAnswer, CPutYes, CPutNo, CGetCheck, CGetYes, CGetNo, CGet, CGetHeader, CGetAnswer,
       CGetSize, CHungUp
<1>2. CASE SStep(c)
  BY <1>2 DEF SStep, SCommand, SPutHeader, SConsent, SRemove, SRemoveFails, SGetHeader, SGetSize,
       SGetReply, SHungUp, Enters
<1>3. CASE Transfer(c)
  BY <1>3 DEF Transfer, Zip, Judge, Extract, Verdict, SenderGoto, ReceiverGoto, Enters
<1>4. CASE Spoilt(c)
  BY <1>4 DEF Spoilt, ReceiverGoto
<1>5. CASE Dies(c)
  BY <1>5 DEF Dies
<1> QED
  BY <1>1, <1>2, <1>3, <1>4, <1>5

\* Whoever takes no step keeps its part of the invariant.
LEMMA SameKeeps ==
  ASSUME NEW d \in Client, Same(d), C2SInv(d), S2CInv(d), OpInv(d), ConsentInv(d)
  PROVE  C2SInv(d)' /\ S2CInv(d)' /\ OpInv(d)' /\ ConsentInv(d)'
<1>1. C2SInv(d)'
  BY DEF Same, C2SInv, CAt
<1>2. S2CInv(d)'
  BY DEF Same, S2CInv, SAt, Codes
<1>3. OpInv(d)'
  BY DEF Same, OpInv, CAt, SAt, Exists, Present, Nothing, Tree
<1>4. ConsentInv(d)'
  BY DEF Same, ConsentInv, Nothing
<1> QED
  BY <1>1, <1>2, <1>3, <1>4

-----------------------------------------------------------------------------
(* Types. *)

\* The messages that the clients and the children build.
LEMMA Messages ==
  /\ \A code \in {PUT, GET, PING} : Command(code) \in FromClient
  /\ \A code \in {OVERWRITE, ABORT, OK, NO_INTEGRITY} : Response(code) \in FromClient
  /\ ResourceHeader(0) \in FromClient /\ ResourceHeader(0) \in FromChild
  /\ \A code \in {OK, PONG, NOT_FOUND, NO_ACCESS, BAD_RESOURCE, INSUFFICIENT_SPACE,
                   DUPLICATE_RESOURCE_NAME, NO_INTEGRITY} : Response(code) \in FromChild
  BY DEF FromClient, FromChild, Coded, Command, Response, ResourceHeader

\* Sending and receiving keep the types of the queues.
LEMMA QueueTypes ==
  ASSUME TypeOK, NEW c \in Client
  PROVE  /\ \A m \in FromClient : CSend(c, m) => c2s' \in [Client -> Seq(FromClient)]
         /\ \A m \in FromChild : SSend(c, m) => s2c' \in [Client -> Seq(FromChild)]
         /\ CRecv(c) => s2c' \in [Client -> Seq(FromChild)]
         /\ SRecv(c) => c2s' \in [Client -> Seq(FromClient)]
<1>1. ASSUME NEW m \in FromClient, CSend(c, m) PROVE c2s' \in [Client -> Seq(FromClient)]
  BY <1>1, AppendProperties DEF TypeOK
<1>2. ASSUME NEW m \in FromChild, SSend(c, m) PROVE s2c' \in [Client -> Seq(FromChild)]
  BY <1>2, AppendProperties DEF TypeOK
<1>3. ASSUME CRecv(c) PROVE s2c' \in [Client -> Seq(FromChild)]
  BY <1>3, HeadTailProperties DEF TypeOK
<1>4. ASSUME SRecv(c) PROVE c2s' \in [Client -> Seq(FromClient)]
  BY <1>4, HeadTailProperties DEF TypeOK
<1> QED
  BY <1>1, <1>2, <1>3, <1>4

\* The resources are trees of the file names.
LEMMA TreeTypes ==
  /\ Nothing \in Trees
  /\ \A v \in Version : Tree(v) \in Trees /\ Tree(v) # Nothing
  /\ \A t \in Trees : ~Exists(t) <=> t = Nothing
<1>1. Nothing \in Trees
  BY DEF Nothing, Trees
<1>2. ASSUME NEW v \in Version PROVE Tree(v) \in Trees /\ Tree(v) # Nothing
  <2>1. Tree(v) \in Trees
    BY DEF Tree, Trees
  <2>2. FilesOf[v] \in SUBSET FileName /\ FilesOf[v] # {} /\ v # Absent
    BY SessionAssumption
  <2>3. PICK n \in FileName : n \in FilesOf[v]
    BY <2>2
  <2>4. Tree(v)[n] # Nothing[n]
    BY <2>2, <2>3 DEF Tree, Nothing
  <2> QED
    BY <2>1, <2>4
<1>3. ASSUME NEW t \in Trees PROVE ~Exists(t) <=> t = Nothing
  BY DEF Trees, Exists, Present, Nothing
<1> QED
  BY <1>1, <1>2, <1>3

\* Overlaps are of clients, and are not forgotten.
LEMMA EnterTypes ==
  ASSUME TypeOK, NEW c \in Client, Enters(c)
  PROVE  overlapped' \in SUBSET Client /\ overlapped \subseteq overlapped'
  BY DEF Enters, TypeOK

\* Every step keeps the types.
LEMMA TypeStep ==
  ASSUME TypeOK, [Next]_vars
  PROVE  TypeOK'
<1> USE DEF disk, request, net, work, history
<1> SUFFICES ASSUME NEW c \in Client, CStep(c) \/ SStep(c) \/ Transfer(c) \/ Spoilt(c) \/ Dies(c)
             PROVE  TypeOK'
  BY DEF Next, vars, TypeOK
<1>1. CASE \/ CPutNothing(c) \/ CPutBadPath(c) \/ CGetCheck(c) \/ CGetYes(c) \/ CGetNo(c)
           \/ CHungUp(c) \/ SHungUp(c) \/ SRemoveFails(c)
  BY <1>1 DEF TypeOK, CPutNothing, CPutBadPath, CGetCheck, CGetYes, CGetNo, CHungUp, SHungUp,
       SRemoveFails
<1>2. CASE \/ CPing(c) \/ CPut(c) \/ CPutHeader(c) \/ CPutYes(c) \/ CPutNo(c) \/ CGet(c)
           \/ CGetHeader(c)
  <2>1. c2s' \in [Client -> Seq(FromClient)]
    <3> HIDE DEF CSend
    <3> QED
      BY <1>2, Messages, QueueTypes DEF CPing, CPut, CPutHeader, CPutYes, CPutNo, CGet, CGetHeader
  <2> QED
    BY <1>2, <2>1 DEF TypeOK, CPing, CPut, CPutHeader, CPutYes, CPutNo, CGet, CGetHeader
<1>3. CASE CPong(c) \/ CPutAnswer(c) \/ CGetAnswer(c)
  BY <1>3, QueueTypes DEF TypeOK, CPong, CPutAnswer, AfterPutAnswer, CGetAnswer
<1>4. CASE CGetSize(c)
  <2>1. c2s' \in [Client -> Seq(FromClient)] /\ s2c' \in [Client -> Seq(FromChild)]
    <3> HIDE DEF CSend, CRecv
    <3> QED
      BY <1>4, Messages, QueueTypes DEF CGetSize
  <2> QED
    BY <1>4, <2>1 DEF TypeOK, CGetSize
<1>5. CASE SCommand(c)
  <2>1. c2s' \in [Client -> Seq(FromClient)] /\ s2c' \in [Client -> Seq(FromChild)]
    <3> HIDE DEF SSend, SRecv
    <3> QED
      BY <1>5, Messages, QueueTypes DEF SCommand, TypeOK
  <2> QED
    BY <1>5, <2>1 DEF TypeOK, SCommand
<1>6. CASE SPutHeader(c)
  <2>1. c2s' \in [Client -> Seq(FromClient)] /\ s2c' \in [Client -> Seq(FromChild)]
    <3> HIDE DEF SSend, SRecv
    <3> QED
      BY <1>6, Messages, QueueTypes DEF SPutHeader, PutAnswers
  <2>2. overlapped' \in SUBSET Client
    BY <1>6, EnterTypes DEF SPutHeader, TypeOK
  <2> QED
    BY <1>6, <2>1, <2>2 DEF TypeOK, SPutHeader, PutAnswers
<1>7. CASE SGetHeader(c)
  <2>1. c2s' \in [Client -> Seq(FromClient)] /\ s2c' \in [Client -> Seq(FromChild)]
    <3> HIDE DEF SSend, SRecv
    <3> QED
      BY <1>7, Messages, QueueTypes DEF SGetHeader, GetAnswers
  <2> QED
    BY <1>7, <2>1 DEF TypeOK, SGetHeader, GetAnswers
<1>8. CASE SGetSize(c)
  <2>1. s2c' \in [Client -> Seq(FromChild)]
    <3> HIDE DEF SSend
    <3> QED
      BY <1>8, Messages, QueueTypes DEF SGetSize
  <2> QED
    BY <1>8, <2>1 DEF TypeOK, SGetSize
<1>9. CASE SConsent(c) \/ SGetReply(c)
  BY <1>9, QueueTypes DEF TypeOK, SConsent, AfterConsent, SGetReply
<1>10. CASE SRemove(c)
  <2>1. overlapped' \in SUBSET Client
    BY <1>10, EnterTypes DEF SRemove, TypeOK
  <2> QED
    BY <1>10, <2>1 DEF TypeOK, SRemove, Trees
<1>11. CASE Zip(c)
  <2>1. overlapped' \in SUBSET Client
    BY <1>11, EnterTypes DEF Zip, TypeOK
  <2> QED
    BY <1>11, <2>1, TreeTypes DEF TypeOK, Zip, SenderGoto
<1>12. CASE Judge(c)
  <2>1. c2s' \in [Client -> Seq(FromClient)] /\ s2c' \in [Client -> Seq(FromChild)]
    <3> HIDE DEF CSend, SSend
    <3> QED
      BY <1>12, Messages, QueueTypes DEF Judge, TypeOK
  <2>2. todo' \in [Client -> SUBSET FileName] /\ archive' \in [Client -> Trees]
    <3>1. \A d \in Client : Present(archive[d]) \in SUBSET FileName
      BY DEF Present
    <3>2. \/ UNCHANGED <<archive, todo>>
          \/ \E d \in Client : /\ archive' = [archive EXCEPT ![c] = archive[d]]
                              /\ todo' = [todo EXCEPT ![c] = Present(archive[d])]
      BY <1>12 DEF Judge, Named, TypeOK
    <3> QED
      BY <3>1, <3>2 DEF TypeOK
  <2>3. TypeOK!4' /\ TypeOK!5'
    BY <1>12 DEF TypeOK, Judge, ReceiverGoto
  <2> QED
    BY <1>12, <2>1, <2>2, <2>3 DEF TypeOK, Judge
<1>13. CASE Extract(c)
  <2>1. stored' \in Trees /\ own' \in [Client -> Trees] /\ todo' \in [Client -> SUBSET FileName]
    <3>1. PICK n \in todo[c] :
            /\ todo' = [todo EXCEPT ![c] = @ \ {n}]
            /\ IF op[c] = "put"
               THEN stored' = [stored EXCEPT ![n] = archive[c][n]] /\ UNCHANGED own
               ELSE own' = [own EXCEPT ![c] = [own[c] EXCEPT ![n] = archive[c][n]]] /\ UNCHANGED stored
      BY <1>13 DEF Extract
    <3>2. n \in FileName /\ archive[c][n] \in Version \cup {Absent}
      BY <3>1 DEF TypeOK, Trees
    <3>3. [own[c] EXCEPT ![n] = archive[c][n]] \in Trees
      BY <3>2 DEF TypeOK, Trees
    <3>4. stored' \in Trees
      BY <3>1, <3>2 DEF TypeOK, Trees
    <3>5. own' \in [Client -> Trees]
      BY <3>1, <3>3 DEF TypeOK
    <3>6. todo' \in [Client -> SUBSET FileName]
      BY <3>1 DEF TypeOK
    <3> QED
      BY <3>4, <3>5, <3>6
  <2>2. TypeOK!4' /\ TypeOK!5'
    BY <1>13 DEF TypeOK, Extract, ReceiverGoto
  <2> QED
    BY <1>13, <2>1, <2>2 DEF TypeOK, Extract
<1>14. CASE Verdict(c)
  <2>1. c2s' \in [Client -> Seq(FromClient)] /\ s2c' \in [Client -> Seq(FromChild)]
    <3> HIDE DEF CRecv, SRecv
    <3> QED
      BY <1>14, QueueTypes DEF Verdict, TypeOK
  <2>2. TypeOK!4' /\ TypeOK!5'
    BY <1>14 DEF TypeOK, Verdict, SenderGoto
  <2> QED
    BY <1>14, <2>1, <2>2 DEF TypeOK, Verdict
<1>15. CASE Dies(c)
  <2>1. TypeOK!4' /\ TypeOK!5'
    BY <1>15 DEF TypeOK, Dies
  <2>2. faults' \in 0..MaxFaults
    BY <1>15, SessionAssumption DEF TypeOK, Dies
  <2> QED
    BY <1>15, <2>1, <2>2 DEF TypeOK, Dies
<1>16. CASE Spoilt(c)
  BY <1>16 DEF TypeOK, Spoilt, ReceiverGoto
<1> QED
  BY <1>1, <1>2, <1>3, <1>4, <1>5, <1>6, <1>7, <1>8, <1>9, <1>10, <1>11, <1>12, <1>13, <1>14, <1>15,
     <1>16 DEF CStep, CPutStep, CGetStep, SStep, Transfer

-----------------------------------------------------------------------------
(* Each part of the invariant is kept for the client that takes the step. *)

CInv(c) == C2SInv(c) /\ S2CInv(c) /\ OpInv(c) /\ ConsentInv(c)

\* The child finds in its queue what its client sent for this point.
LEMMA C2SStep ==
  ASSUME TypeOK, NEW c \in Client, CInv(c), CStep(c) \/ SStep(c) \/ Transfer(c) \/ Spoilt(c) \/ Dies(c)
  PROVE  C2SInv(c)'
<1> USE Queues DEF TypeOK, CInv, C2SInv, S2CInv, OpInv, CAt, SAt, request, net, work, history
<1> USE DEF Command, Response, ResourceHeader, PUT, GET, PING, OVERWRITE, ABORT, OK, NO_INTEGRITY, PONG,
        NOT_FOUND, NO_ACCESS, BAD_RESOURCE, INSUFFICIENT_SPACE, DUPLICATE_RESOURCE_NAME
<1>1. CASE CPing(c)
  BY <1>1 DEF CPing
<1>2. CASE CPong(c)
  BY <1>2 DEF CPong
<1>3. CASE CPutNothing(c)
  BY <1>3 DEF CPutNothing
<1>4. CASE CPut(c)
  BY <1>4 DEF CPut
<1>5. CASE CPutBadPath(c)
  BY <1>5 DEF CPutBadPath
<1>6. CASE CPutHeader(c)
  BY <1>6 DEF CPutHeader
<1>7. CASE CPutAnswer(c)
  BY <1>7 DEF CPutAnswer, AfterPutAnswer
<1>8. CASE CPutYes(c)
  BY <1>8 DEF CPutYes
<1>9. CASE CPutNo(c)
  BY <1>9 DEF CPutNo
<1>10. CASE CGetCheck(c)
  BY <1>10 DEF CGetCheck
<1>11. CASE CGetYes(c)
  BY <1>11 DEF CGetYes
<1>12. CASE CGetNo(c)
  BY <1>12 DEF CGetNo
<1>13. CASE CGet(c)
  BY <1>13 DEF CGet
<1>14. CASE CGetHeader(c)
  BY <1>14 DEF CGetHeader
<1>15. CASE CGetAnswer(c)
  BY <1>15 DEF CGetAnswer
<1>16. CASE CGetSize(c)
  BY <1>16 DEF CGetSize
<1>17. CASE CHungUp(c)
  BY <1>17 DEF CHungUp
<1>18. CASE SCommand(c)
  <2>1. spc[c] = "command" /\ c2s[c] # <<>> /\ c2s'[c] = Tail(c2s[c]) /\ cpc'[c] = cpc[c] /\ op'[c] = op[c]
        /\ spc'[c] = CASE Head(c2s[c]).code = PUT -> "putheader"
                       [] Head(c2s[c]).code = GET -> "getheader" [] OTHER -> "done"
    BY <1>18 DEF SCommand
  <2>2. CASE c2s[c] = <<Command(PING)>>
    BY <2>1, <2>2
  <2>3. CASE c2s[c] = <<Command(PUT)>>
    BY <2>1, <2>3
  <2>4. CASE c2s[c] = <<Command(GET)>>
    BY <2>1, <2>4
  <2>5. CASE c2s[c] = <<Command(PUT), ResourceHeader(0)>>
    <3>1. Head(c2s[c]) = Command(PUT) /\ Tail(c2s[c]) = <<ResourceHeader(0)>>
      BY <2>5
    <3> QED
      BY <2>1, <2>5, <3>1
  <2>6. CASE c2s[c] = <<Command(GET), ResourceHeader(0)>>
    <3>1. Head(c2s[c]) = Command(GET) /\ Tail(c2s[c]) = <<ResourceHeader(0)>>
      BY <2>6
    <3> QED
      BY <2>1, <2>6, <3>1
  <2> QED
    BY <2>1, <2>2, <2>3, <2>4, <2>5, <2>6
<1>19. CASE SPutHeader(c)
  BY <1>19 DEF SPutHeader, PutAnswers
<1>20. CASE SConsent(c)
  BY <1>20 DEF SConsent, AfterConsent
<1>21. CASE SRemove(c)
  BY <1>21 DEF SRemove
<1>22. CASE SRemoveFails(c)
  BY <1>22 DEF SRemoveFails
<1>23. CASE SGetHeader(c)
  BY <1>23 DEF SGetHeader, GetAnswers
<1>24. CASE SGetSize(c)
  BY <1>24 DEF SGetSize
<1>25. CASE SGetReply(c)
  BY <1>25 DEF SGetReply
<1>26. CASE SHungUp(c)
  BY <1>26 DEF SHungUp
<1>27. CASE Zip(c)
  BY <1>27 DEF Zip, SenderAt, SenderGoto
<1>28. CASE Judge(c)
  BY <1>28 DEF Judge, ReceiverAt, ReceiverGoto
<1>29. CASE Extract(c)
  <2>1. /\ c2s'[c] = c2s[c] /\ agreed' = agreed
        /\ \/ op[c] = "put" /\ spc[c] = "install" /\ spc'[c] \in {"install", "done"} /\ cpc'[c] = cpc[c]
           \/ op[c] = "get" /\ cpc[c] = "install" /\ cpc'[c] \in {"install", "done"} /\ spc'[c] = spc[c]
    BY <1>29 DEF Extract, ReceiverAt, ReceiverGoto
  <2> QED
    BY <2>1
<1>30. CASE Verdict(c)
  BY <1>30 DEF Verdict, SenderAt, SenderGoto
<1>31. CASE Dies(c)
  BY <1>31 DEF Dies
<1>32. CASE Spoilt(c)
  BY <1>32 DEF Spoilt, ReceiverAt, ReceiverGoto
<1> QED
  BY <1>1, <1>2, <1>3, <1>4, <1>5, <1>6, <1>7, <1>8, <1>9, <1>10, <1>11, <1>12, <1>13, <1>14, <1>15,
       <1>16, <1>17, <1>18, <1>19, <1>20, <1>21, <1>22, <1>23, <1>24, <1>25, <1>26, <1>27, <1>28, <1>29,
       <1>30, <1>31, <1>32 DEF CStep, CPutStep, CGetStep, SStep, Transfer

\* The client finds in its queue what its child sent for this point.
LEMMA S2CStep ==
  ASSUME TypeOK, NEW c \in Client, CInv(c), CStep(c) \/ SStep(c) \/ Transfer(c) \/ Spoilt(c) \/ Dies(c)
  PROVE  S2CInv(c)'
<1> USE Queues DEF TypeOK, CInv, C2SInv, S2CInv, OpInv, CAt, SAt, Codes, request, net, work, history
<1> USE DEF Command, Response, ResourceHeader, PUT, GET, PING, OVERWRITE, ABORT, OK, NO_INTEGRITY, PONG,
        NOT_FOUND, NO_ACCESS, BAD_RESOURCE, INSUFFICIENT_SPACE, DUPLICATE_RESOURCE_NAME
<1>1. CASE CPing(c)
  BY <1>1 DEF CPing
<1>2. CASE CPong(c)
  BY <1>2 DEF CPong
<1>3. CASE CPutNothing(c)
  BY <1>3 DEF CPutNothing
<1>4. CASE CPut(c)
  BY <1>4 DEF CPut
<1>5. CASE CPutBadPath(c)
  BY <1>5 DEF CPutBadPath
<1>6. CASE CPutHeader(c)
  BY <1>6 DEF CPutHeader
<1>7. CASE CPutAnswer(c)
  <2>1. /\ cpc[c] = "answer" /\ op[c] = "put" /\ s2c[c] # <<>> /\ s2c'[c] = Tail(s2c[c]) /\ spc'[c] = spc[c]
        /\ cpc'[c] = AfterPutAnswer(Head(s2c[c]).code) /\ op'[c] = op[c]
    BY <1>7 DEF CPutAnswer
  <2>2. PICK code : s2c[c] = <<Response(code)>>
    BY <2>1
  <2>3. s2c'[c] = <<>> /\ Head(s2c[c]).code = code
    BY <2>1, <2>2
  <2>4. CASE code = DUPLICATE_RESOURCE_NAME
    BY <2>1, <2>2, <2>3, <2>4 DEF AfterPutAnswer
  <2>5. CASE code = OK
    BY <2>1, <2>2, <2>3, <2>5 DEF AfterPutAnswer
  <2>6. CASE code \notin {OK, DUPLICATE_RESOURCE_NAME}
    BY <2>1, <2>3, <2>6 DEF AfterPutAnswer
  <2> QED
    BY <2>4, <2>5, <2>6
<1>8. CASE CPutYes(c)
  BY <1>8 DEF CPutYes
<1>9. CASE CPutNo(c)
  BY <1>9 DEF CPutNo
<1>10. CASE CGetCheck(c)
  BY <1>10 DEF CGetCheck
<1>11. CASE CGetYes(c)
  BY <1>11 DEF CGetYes
<1>12. CASE CGetNo(c)
  BY <1>12 DEF CGetNo
<1>13. CASE CGet(c)
  BY <1>13 DEF CGet
<1>14. CASE CGetHeader(c)
  BY <1>14 DEF CGetHeader
<1>15. CASE CGetAnswer(c)
  <2>1. /\ cpc[c] = "answer" /\ op[c] = "get" /\ s2c[c] # <<>> /\ s2c'[c] = Tail(s2c[c]) /\ spc'[c] = spc[c]
        /\ cpc'[c] = (IF Head(s2c[c]).code = OK THEN "size" ELSE "done") /\ op'[c] = op[c]
    BY <1>15 DEF CGetAnswer
  <2>2. CASE s2c[c] = <<Response(OK), ResourceHeader(0)>> /\ SAt(c, {"reply"})
    <3>1. Tail(s2c[c]) = <<ResourceHeader(0)>>
      BY <2>2
    <3> QED
      BY <2>1, <2>2, <3>1
  <2>3. CASE s2c[c] = <<Response(OK)>> /\ SAt(c, {"size"})
    BY <2>1, <2>3
  <2>4. CASE Codes(c, {NO_ACCESS, NOT_FOUND, BAD_RESOURCE})
    BY <2>1, <2>4
  <2> QED
    BY <2>1, <2>2, <2>3, <2>4
<1>16. CASE CGetSize(c)
  <2>1. cpc[c] = "size" /\ s2c[c] # <<>> /\ s2c'[c] = Tail(s2c[c]) /\ spc'[c] = spc[c] /\ op'[c] = op[c]
        /\ cpc'[c] \in {"receive", "done"}
    BY <1>16 DEF CGetSize
  <2>2. s2c[c] = <<ResourceHeader(0)>> /\ SAt(c, {"reply"})
    BY <2>1
  <2> QED
    BY <2>1, <2>2
<1>17. CASE CHungUp(c)
  BY <1>17 DEF CHungUp
<1>18. CASE SCommand(c)
  BY <1>18 DEF SCommand
<1>19. CASE SPutHeader(c)
  <2>1. PICK answer \in PutAnswers : SSend(c, Response(answer[1])) /\ SGoto(c, answer[2])
    BY <1>19 DEF SPutHeader
  <2>2. cpc[c] \in {"answer", "done"} /\ op[c] = "put" /\ cpc'[c] = cpc[c] /\ op'[c] = op[c]
        /\ (cpc[c] = "answer" => s2c[c] = <<>>)
    BY <1>19 DEF SPutHeader
  <2>3. cpc[c] = "answer" => s2c'[c] = <<Response(answer[1])>> /\ spc'[c] = answer[2]
    BY <2>1, <2>2
  <2>4. answer \in {<<INSUFFICIENT_SPACE, "done">>, <<NO_ACCESS, "done">>, <<OK, "receive">>,
                    <<DUPLICATE_RESOURCE_NAME, "consent">>, <<NOT_FOUND, "done">>}
    BY <2>1 DEF PutAnswers
  <2> QED
    BY <2>2, <2>3, <2>4
<1>20. CASE SConsent(c)
  BY <1>20 DEF SConsent, AfterConsent
<1>21. CASE SRemove(c)
  BY <1>21 DEF SRemove
<1>22. CASE SRemoveFails(c)
  BY <1>22 DEF SRemoveFails
<1>23. CASE SGetHeader(c)
  <2>1. PICK answer \in GetAnswers :
            SSend(c, Response(answer)) /\ SGoto(c, IF answer = OK THEN "size" ELSE "done")
    BY <1>23 DEF SGetHeader
  <2>2. cpc[c] \in {"answer", "done"} /\ op[c] = "get" /\ cpc'[c] = cpc[c] /\ op'[c] = op[c]
        /\ (cpc[c] = "answer" => s2c[c] = <<>>)
    BY <1>23 DEF SGetHeader
  <2>3. cpc[c] = "answer" => /\ s2c'[c] = <<Response(answer)>>
                             /\ spc'[c] = IF answer = OK THEN "size" ELSE "done"
    BY <2>1, <2>2
  <2>4. answer \in {OK, NO_ACCESS, BAD_RESOURCE, NOT_FOUND}
    BY <2>1 DEF GetAnswers
  <2> QED
    BY <2>2, <2>3, <2>4
<1>24. CASE SGetSize(c)
  BY <1>24 DEF SGetSize
<1>25. CASE SGetReply(c)
  BY <1>25 DEF SGetReply
<1>26. CASE SHungUp(c)
  BY <1>26 DEF SHungUp
<1>27. CASE Zip(c)
  BY <1>27 DEF Zip, SenderAt, SenderGoto
<1>28. CASE Judge(c)
  BY <1>28 DEF Judge, ReceiverAt, ReceiverGoto
<1>29. CASE Extract(c)
  BY <1>29 DEF Extract, ReceiverAt, ReceiverGoto
<1>30. CASE Verdict(c)
  BY <1>30 DEF Verdict, SenderAt, SenderGoto
<1>31. CASE Dies(c)
  BY <1>31 DEF Dies
<1>32. CASE Spoilt(c)
  BY <1>32 DEF Spoilt, ReceiverAt, ReceiverGoto
<1> QED
  BY <1>1, <1>2, <1>3, <1>4, <1>5, <1>6, <1>7, <1>8, <1>9, <1>10, <1>11, <1>12, <1>13, <1>14, <1>15,
       <1>16, <1>17, <1>18, <1>19, <1>20, <1>21, <1>22, <1>23, <1>24, <1>25, <1>26, <1>27, <1>28, <1>29,
       <1>30, <1>31, <1>32 DEF CStep, CPutStep, CGetStep, SStep, Transfer

\* Who neither makes an archive nor extracts it leaves it as it is.
LEMMA OpStep ==
  ASSUME TypeOK, NEW c \in Client, CInv(c), CStep(c) \/ SStep(c) \/ Transfer(c) \/ Spoilt(c) \/ Dies(c)
  PROVE  OpInv(c)'
<1> USE DEF TypeOK, CInv, OpInv, CAt, SAt, request, net, work, history
<1> DEFINE Places ==
      /\ spc[c] \in {"putheader", "consent", "rm", "receive", "install"} => op[c] = "put"
      /\ spc[c] \in {"getheader", "size", "reply", "zip", "verdict"} => op[c] = "get"
      /\ cpc[c] = "pong" => op[c] = "ping"
      /\ cpc[c] \in {"zip", "verdict"} => op[c] = "put"
      /\ cpc[c] \in {"request", "size", "receive", "install"} => op[c] = "get"
      /\ cpc[c] \in {"header", "answer", "prompt"} => op[c] \in {"put", "get"}
           Past ==
      /\ op[c] = "put" /\ Exists(archive[c]) => CAt(c, {"verdict"})
      /\ op[c] = "get" /\ Exists(archive[c]) => SAt(c, {"verdict", "spin"})
<1>1. Places'
  <2>1. CASE CPing(c)
    BY <2>1 DEF CPing
  <2>2. CASE CPong(c)
    BY <2>2 DEF CPong
  <2>3. CASE CPutNothing(c)
    BY <2>3 DEF CPutNothing
  <2>4. CASE CPut(c)
    BY <2>4 DEF CPut
  <2>5. CASE CPutBadPath(c)
    BY <2>5 DEF CPutBadPath
  <2>6. CASE CPutHeader(c)
    BY <2>6 DEF CPutHeader
  <2>7. CASE CPutAnswer(c)
    BY <2>7 DEF CPutAnswer, AfterPutAnswer
  <2>8. CASE CPutYes(c)
    BY <2>8 DEF CPutYes
  <2>9. CASE CPutNo(c)
    BY <2>9 DEF CPutNo
  <2>10. CASE CGetCheck(c)
    BY <2>10 DEF CGetCheck
  <2>11. CASE CGetYes(c)
    BY <2>11 DEF CGetYes
  <2>12. CASE CGetNo(c)
    BY <2>12 DEF CGetNo
  <2>13. CASE CGet(c)
    BY <2>13 DEF CGet
  <2>14. CASE CGetHeader(c)
    BY <2>14 DEF CGetHeader
  <2>15. CASE CGetAnswer(c)
    BY <2>15 DEF CGetAnswer
  <2>16. CASE CGetSize(c)
    BY <2>16 DEF CGetSize
  <2>17. CASE CHungUp(c)
    BY <2>17 DEF CHungUp
  <2>18. CASE SCommand(c)
    BY <2>18, Queues DEF SCommand, C2SInv, Command, PUT, GET, PING
  <2>19. CASE SPutHeader(c)
    BY <2>19 DEF SPutHeader, PutAnswers
  <2>20. CASE SConsent(c)
    BY <2>20 DEF SConsent, AfterConsent
  <2>21. CASE SRemove(c)
    BY <2>21 DEF SRemove
  <2>22. CASE SRemoveFails(c)
    BY <2>22 DEF SRemoveFails
  <2>23. CASE SGetHeader(c)
    BY <2>23 DEF SGetHeader, GetAnswers
  <2>24. CASE SGetSize(c)
    BY <2>24 DEF SGetSize
  <2>25. CASE SGetReply(c)
    BY <2>25 DEF SGetReply
  <2>26. CASE SHungUp(c)
    BY <2>26 DEF SHungUp
  <2>27. CASE Transfer(c)
    BY <2>27 DEF Transfer, Zip, Judge, Extract, Verdict, SenderAt, SenderGoto, ReceiverAt, ReceiverGoto
  <2>28. CASE Dies(c)
    BY <2>28 DEF Dies
  <2>29. CASE Spoilt(c)
    BY <2>29 DEF Spoilt, ReceiverAt, ReceiverGoto
  <2> QED
    BY <2>1, <2>2, <2>3, <2>4, <2>5, <2>6, <2>7, <2>8, <2>9, <2>10, <2>11, <2>12, <2>13, <2>14, <2>15,
         <2>16, <2>17, <2>18, <2>19, <2>20, <2>21, <2>22, <2>23, <2>24, <2>25, <2>26, <2>27,
         <2>28, <2>29 DEF CStep, CPutStep, CGetStep, SStep
<1>2. (op[c] = "put" /\ c \notin overlapped => archive[c] \in {Nothing, Tree(version[c])})'
  <2>1. CASE Zip(c)
    BY <2>1 DEF Zip, Nothing, Tree
  <2>2. CASE UNCHANGED <<op, archive, version>> /\ overlapped \subseteq overlapped'
    BY <2>2 DEF Nothing, Tree
  <2>3. CASE Judge(c)
    <3>1. c \notin overlapped => archive' = archive
      BY <2>3 DEF Judge, Named
    <3> QED
      BY <2>3, <3>1 DEF Judge, Nothing, Tree
  <2>4. CASE SPutHeader(c)
    BY <2>2, <2>4, EnterTypes DEF SPutHeader
  <2>5. CASE SRemove(c)
    BY <2>2, <2>5, EnterTypes DEF SRemove
  <2> QED
    BY <2>1, <2>2, <2>3, <2>4, <2>5 DEF CStep, CPutStep, CGetStep, SStep, Transfer, Spoilt, Dies, CPing,
         CPong, CPutNothing, CPut, CPutBadPath, CPutHeader, CPutAnswer, CPutYes, CPutNo, CGetCheck, CGetYes, CGetNo, CGet,
         CGetHeader, CGetAnswer, CGetSize, CHungUp, SCommand, SConsent, SRemoveFails, SGetHeader, SGetSize,
         SGetReply, SHungUp, Extract, Verdict
<1>3. (todo[c] \subseteq Present(archive[c]))'
  <2>1. CASE Zip(c)
    <3>1. todo[c] = {}
      BY <2>1 DEF Zip, SenderAt, Exists
    <3> QED
      BY <2>1, <3>1 DEF Zip
  <2>2. CASE Judge(c)
    <3>1. \/ archive'[c] = archive[c] /\ todo'[c] = todo[c]
          \/ \E d \in Client : archive'[c] = archive[d] /\ todo'[c] = Present(archive[d])
      BY <2>2 DEF Judge, Named
    <3> QED
      BY <3>1 DEF Present
  <2>3. CASE Extract(c)
    BY <2>3 DEF Extract, Present
  <2>4. CASE UNCHANGED <<archive, todo>>
    BY <2>4 DEF Present
  <2> QED
    BY <2>1, <2>2, <2>3, <2>4 DEF CStep, CPutStep, CGetStep, SStep, Transfer, Spoilt, Dies, CPing, CPong,
         CPutNothing, CPut, CPutBadPath, CPutHeader, CPutAnswer, CPutYes, CPutNo, CGetCheck, CGetYes,
         CGetNo, CGet, CGetHeader, CGetAnswer, CGetSize, CHungUp, SCommand, SPutHeader, SConsent,
         SRemove, SRemoveFails, SGetHeader, SGetSize, SGetReply, SHungUp, Verdict
<1>4. Past'
  <2>1. CASE Zip(c)
    BY <2>1 DEF Zip, SenderAt, SenderGoto
  <2>2. ASSUME UNCHANGED <<op, archive>> PROVE Exists(archive[c])' = Exists(archive[c])
    BY <2>2 DEF Exists, Present
  <2>3. CASE CStep(c)
    BY <2>2, <2>3 DEF CStep, CPutStep, CGetStep, AfterPutAnswer, CPing, CPong, CPutNothing, CPut,
         CPutBadPath, CPutHeader, CPutAnswer, CPutYes, CPutNo, CGetCheck, CGetYes, CGetNo, CGet,
         CGetHeader, CGetAnswer, CGetSize, CHungUp
  <2>4. CASE SStep(c)
    BY <2>2, <2>4 DEF SStep, AfterConsent, SCommand, SPutHeader, SConsent, SRemove, SRemoveFails,
         SGetHeader, SGetSize, SGetReply, SHungUp
  <2>5. CASE Extract(c) \/ Verdict(c)
    BY <2>2, <2>5 DEF Extract, Verdict, ReceiverAt, ReceiverGoto, SenderAt, SenderGoto
  <2>6. CASE Judge(c)
    BY <2>6 DEF Judge, ReceiverAt, ReceiverGoto
  <2>7. CASE Spoilt(c)
    BY <2>2, <2>7 DEF Spoilt, ReceiverAt, ReceiverGoto
  <2>8. CASE Dies(c)
    BY <2>2, <2>8 DEF Dies
  <2> QED
    BY <2>1, <2>3, <2>4, <2>5, <2>6, <2>7, <2>8 DEF Transfer
<1> QED
  BY <1>1, <1>2, <1>3, <1>4

\* A child goes on to remove only what it has found and its client's user gave up.
LEMMA ConsentStep ==
  ASSUME TypeOK, NEW c \in Client, CInv(c), CStep(c) \/ SStep(c) \/ Transfer(c) \/ Spoilt(c) \/ Dies(c)
  PROVE  ConsentInv(c)'
<1> USE DEF TypeOK, CInv, OpInv, ConsentInv, request, net, work, disk, history
<1>1. (spc[c] \in {"consent", "rm"} => c \in asked)'
  <2>1. CASE SPutHeader(c)
    BY <2>1 DEF SPutHeader, PutAnswers
  <2>2. CASE SConsent(c)
    BY <2>2 DEF SConsent, AfterConsent
  <2>3. CASE CStep(c)
    BY <2>3 DEF CStep, CPutStep, CGetStep, CPing, CPong, CPutNothing, CPut, CPutBadPath, CPutHeader,
         CPutAnswer, CPutYes, CPutNo, CGetCheck, CGetYes, CGetNo, CGet, CGetHeader, CGetAnswer, CGetSize,
         CHungUp
  <2>4. CASE SStep(c)
    BY <2>1, <2>2, <2>4 DEF SStep, SCommand, SRemove, SRemoveFails, SGetHeader, SGetSize, SGetReply, SHungUp
  <2>5. CASE Transfer(c)
    BY <2>5 DEF Transfer, Zip, Judge, Extract, Verdict, SenderGoto, ReceiverGoto
  <2>6. CASE Spoilt(c) \/ Dies(c)
    BY <2>6 DEF Spoilt, Dies, ReceiverGoto
  <2> QED
    BY <2>3, <2>4, <2>5, <2>6
<1>2. (spc[c] = "rm" => c \in agreed)'
  <2>1. CASE SPutHeader(c)
    BY <2>1 DEF SPutHeader, PutAnswers
  <2>2. CASE SConsent(c)
    <3>1. c2s[c] = <<Response(OVERWRITE)>> => c \in agreed
      BY <2>2, Queues DEF SConsent, C2SInv, Response, OVERWRITE, ABORT
    <3>2. c2s[c] # <<Response(OVERWRITE)>> => c2s[c] = <<Response(ABORT)>>
      BY <2>2 DEF SConsent, C2SInv
    <3> QED
      BY <2>2, <3>1, <3>2, Queues DEF SConsent, AfterConsent, Response, OVERWRITE, ABORT
  <2>3. CASE CStep(c)
    BY <2>3 DEF CStep, CPutStep, CGetStep, CPing, CPong, CPutNothing, CPut, CPutBadPath, CPutHeader,
         CPutAnswer, CPutYes, CPutNo, CGetCheck, CGetYes, CGetNo, CGet, CGetHeader, CGetAnswer, CGetSize,
         CHungUp
  <2>4. CASE SStep(c)
    BY <2>1, <2>2, <2>4 DEF SStep, SCommand, SRemove, SRemoveFails, SGetHeader, SGetSize, SGetReply, SHungUp
  <2>5. CASE Transfer(c)
    BY <2>5 DEF Transfer, Zip, Judge, Extract, Verdict, SenderGoto, ReceiverGoto
  <2>6. CASE Spoilt(c) \/ Dies(c)
    BY <2>6 DEF Spoilt, Dies, ReceiverGoto
  <2> QED
    BY <2>3, <2>4, <2>5, <2>6
<1> DEFINE Own ==
      op[c] = "get" /\ c \notin agreed =>
          /\ cpc[c] \in {"request", "header", "answer", "size", "receive"} => own[c] = Nothing
          /\ cpc[c] = "install" => \A n \in todo[c] : own[c][n] = Absent
<1>3. Own'
  <2> USE DEF Nothing
  <2>1. CASE CGetCheck(c)
    BY <2>1, TreeTypes DEF CGetCheck
  <2>2. CASE CStep(c) /\ ~CGetCheck(c)
    BY <2>2 DEF CStep, CPutStep, CGetStep, AfterPutAnswer, S2CInv, CPing, CPong, CPutNothing, CPut,
         CPutBadPath, CPutHeader, CPutAnswer, CPutYes, CPutNo, CGetYes, CGetNo, CGet, CGetHeader,
         CGetAnswer, CGetSize, CHungUp
  <2>3. CASE SStep(c)
    BY <2>3 DEF SStep, SCommand, SPutHeader, SConsent, SRemove, SRemoveFails, SGetHeader, SGetSize,
         SGetReply, SHungUp
  <2>4. CASE Zip(c)
    <3>1. op[c] = "get" /\ cpc[c] = "install" => todo[c] = {}
      BY <2>4 DEF Zip, SenderAt, SAt, Exists
    <3> QED
      BY <2>4, <3>1 DEF Zip, SenderGoto
  <2>5. CASE Judge(c)
    <3>1. CASE op[c] = "put"
      BY <2>5, <3>1 DEF Judge, ReceiverAt, ReceiverGoto
    <3>2. CASE op[c] # "put"
      <4>1. cpc[c] = "receive" /\ cpc'[c] \in {"install", "done"} /\ own' = own /\ agreed' = agreed
            /\ op' = op /\ (cpc'[c] = "install" => \E d \in Client : todo'[c] = Present(archive[d]))
        BY <2>5, <3>2 DEF Judge, ReceiverAt, ReceiverGoto, Named
      <4> QED
        BY <4>1 DEF Present
    <3> QED
      BY <3>1, <3>2
  <2>6. CASE Extract(c)
    <3>1. CASE op[c] = "put"
      BY <2>6, <3>1 DEF Extract
    <3>2. CASE op[c] # "put"
      <4>1. PICK n \in todo[c] : /\ todo' = [todo EXCEPT ![c] = @ \ {n}]
                                 /\ own' = [own EXCEPT ![c] = [own[c] EXCEPT ![n] = archive[c][n]]]
        BY <2>6, <3>2 DEF Extract
      <4>2. cpc[c] = "install" /\ cpc'[c] \in {"install", "done"} /\ agreed' = agreed /\ op' = op
        BY <2>6, <3>2 DEF Extract, ReceiverAt, ReceiverGoto
      <4>3. own'[c] = [own[c] EXCEPT ![n] = archive[c][n]] /\ todo'[c] = todo[c] \ {n}
        BY <4>1
      <4>4. \A m \in todo'[c] : own'[c][m] = own[c][m]
        BY <4>3 DEF Trees
      <4> QED
        BY <4>2, <4>3, <4>4
    <3> QED
      BY <3>1, <3>2
  <2>7. CASE Verdict(c)
    BY <2>7 DEF Verdict, SenderGoto, SenderAt
  <2>8. CASE Dies(c)
    BY <2>8 DEF Dies
  <2>9. CASE Spoilt(c)
    BY <2>9 DEF Spoilt, ReceiverGoto
  <2> QED
    BY <2>1, <2>2, <2>3, <2>4, <2>5, <2>6, <2>7, <2>8, <2>9 DEF Transfer
<1> QED
  BY <1>1, <1>2, <1>3

-----------------------------------------------------------------------------
(* One put at a time. *)

\* Who does not put changes neither the server's resource nor who is putting.
NoPut(c) ==
    /\ UNCHANGED <<stored, op, alone>>
    /\ spc' = [spc EXCEPT ![c] = spc'[c]] /\ archive' = [archive EXCEPT ![c] = archive'[c]]
    /\ spc'[c] \in {"receive", "install", "consent", "rm"} => spc'[c] = spc[c]
    /\ spc'[c] = "install" => archive'[c] = archive[c] /\ todo'[c] = todo[c]
    /\ \A d \in Client \ {c} : todo'[d] = todo[d]

\* Such a step keeps what is known of the one put under way.
LEMMA NoPutKeeps ==
  ASSUME TypeOK, AloneInv, NEW c \in Client, NoPut(c)
  PROVE  AloneInv'
<1>1. /\ stored' = stored /\ op' = op /\ alone' = alone
      /\ \A d \in Client \ {c} : spc'[d] = spc[d] /\ archive'[d] = archive[d] /\ todo'[d] = todo[d]
  BY DEF NoPut, TypeOK
<1>2. \A d \in Client : PutUnderWay(d)' => PutUnderWay(d)
  BY <1>1 DEF NoPut, PutUnderWay
<1>3. \A d \in Client : /\ spc'[d] = "receive" => spc[d] = "receive"
                        /\ spc'[d] = "install" => /\ spc[d] = "install" /\ todo'[d] = todo[d]
                                                  /\ archive'[d] = archive[d]
  BY <1>1 DEF NoPut
<1> QED
  BY <1>1, <1>2, <1>3 DEF AloneInv, Nothing

\* A put that is checked while another is under way ends the time in which puts
\* do not overlap.
LEMMA AloneStep ==
  ASSUME TypeOK, AloneInv, NEW c \in Client, CInv(c),
         CStep(c) \/ SStep(c) \/ Transfer(c) \/ Spoilt(c) \/ Dies(c),
         \A d \in Client : OpInv(d)
  PROVE  AloneInv'
<1> USE DEF TypeOK, request, net, work, disk, history
<1>1. CASE CStep(c)
  <2>1. NoPut(c)
    BY <1>1 DEF NoPut, CStep, CPutStep, CGetStep, CPing, CPong, CPutNothing, CPut, CPutBadPath,
         CPutHeader, CPutAnswer, CPutYes, CPutNo, CGetCheck, CGetYes, CGetNo, CGet, CGetHeader,
         CGetAnswer, CGetSize, CHungUp
  <2> QED
    BY <2>1, NoPutKeeps
<1>2. CASE \/ SCommand(c) \/ SRemoveFails(c) \/ SGetHeader(c) \/ SGetSize(c) \/ SGetReply(c) \/ SHungUp(c)
           \/ Spoilt(c) \/ Dies(c)
  <2>1. NoPut(c)
    BY <1>2 DEF NoPut, SCommand, SRemoveFails, SGetHeader, SGetSize, SGetReply, SHungUp, Spoilt,
         ReceiverGoto, Dies
  <2> QED
    BY <2>1, NoPutKeeps
<1>3. CASE SPutHeader(c)
  <2> SUFFICES ASSUME alone' PROVE AloneInv'
    BY DEF AloneInv
  <2>1. /\ op[c] = "put" /\ op' = op /\ stored' = stored /\ archive' = archive /\ todo' = todo
        /\ \A d \in Client \ {c} : ~PutUnderWay(d) /\ spc'[d] = spc[d]
        /\ spc'[c] \in {"done", "consent", "receive"}
        /\ spc'[c] = "receive" => ~Exists(stored)
    <3>1. PICK answer \in PutAnswers : SGoto(c, answer[2])
      BY <1>3 DEF SPutHeader
    <3>2. spc'[c] = answer[2] /\ \A d \in Client \ {c} : spc'[d] = spc[d]
      BY <3>1
    <3>3. answer[2] \in {"done", "consent", "receive"} /\ (answer[2] = "receive" => ~Exists(stored))
      BY <3>1 DEF PutAnswers
    <3>4. op[c] = "put" /\ op' = op /\ stored' = stored /\ archive' = archive /\ todo' = todo
          /\ \A d \in Client \ {c} : ~PutUnderWay(d)
      BY <1>3 DEF SPutHeader, CInv, OpInv
    <3> QED
      BY <3>2, <3>3, <3>4
  <2>2. \A d \in Client \ {c} : spc'[d] \notin {"receive", "install"}
    BY <2>1 DEF PutUnderWay, OpInv
  <2>3. spc'[c] = "receive" => stored' = Nothing
    BY <2>1, TreeTypes
  <2>4. Nothing' = Nothing
    BY DEF Nothing
  <2> QED
    BY <2>1, <2>2, <2>3, <2>4 DEF AloneInv, PutUnderWay
<1>4. CASE SConsent(c)
  BY <1>4 DEF SConsent, AfterConsent, AloneInv, CInv, OpInv, PutUnderWay, Nothing
<1>5. ASSUME SRemove(c) \/ Judge(c) \/ Extract(c), op[c] = "put", alone'
      PROVE  /\ PutUnderWay(c) /\ alone /\ op' = op
             /\ \A d \in Client \ {c} : /\ ~PutUnderWay(d) /\ spc'[d] = spc[d]
                                        /\ spc'[d] \notin {"receive", "install"}
  <2>1. PutUnderWay(c) /\ alone /\ op' = op /\ \A d \in Client \ {c} : spc'[d] = spc[d]
    <3>1. CASE SRemove(c)
      BY <1>5, <3>1 DEF SRemove, PutUnderWay
    <3>2. CASE Judge(c)
      BY <1>5, <3>2 DEF Judge, ReceiverAt, ReceiverGoto, PutUnderWay
    <3>3. CASE Extract(c)
      BY <1>5, <3>3 DEF Extract, ReceiverAt, ReceiverGoto, PutUnderWay
    <3> QED
      BY <1>5, <3>1, <3>2, <3>3
  <2>2. \A d \in Client \ {c} : ~PutUnderWay(d)
    BY <2>1 DEF AloneInv
  <2>3. \A d \in Client \ {c} : spc[d] \notin {"receive", "install"}
    BY <2>2 DEF PutUnderWay, OpInv
  <2> QED
    BY <2>1, <2>2, <2>3
<1>6. ASSUME SRemove(c) \/ Judge(c) \/ Extract(c), op[c] = "put", alone',
             /\ spc'[c] = "receive" => stored' = Nothing
             /\ spc'[c] = "install" => \A n \in FileName :
                    stored'[n] = IF n \in todo'[c] THEN Absent ELSE archive'[c][n]
      PROVE  AloneInv'
  <2>1. \A d \in Client \ {c} : ~PutUnderWay(d)'
    BY <1>5, <1>6 DEF PutUnderWay
  <2> QED
    BY <1>5, <1>6, <2>1 DEF AloneInv, Nothing
<1>7. CASE SRemove(c)
  <2> SUFFICES ASSUME alone' PROVE AloneInv'
    BY DEF AloneInv
  <2>1. op[c] = "put" /\ spc'[c] \in {"rm", "receive"} /\ (spc'[c] = "receive" => ~Exists(stored'))
    BY <1>7 DEF SRemove, CInv, OpInv
  <2>2. stored' \in Trees
    BY <1>7 DEF SRemove, Trees
  <2> QED
    BY <1>6, <1>7, <2>1, <2>2, TreeTypes
<1>8. CASE Zip(c) \/ Verdict(c)
  <2>1. NoPut(c)
    BY <1>8 DEF NoPut, Zip, Verdict, SenderAt, SenderGoto, CInv, OpInv, CAt, S2CInv, SAt
  <2> QED
    BY <2>1, NoPutKeeps
<1>9. CASE (Judge(c) \/ Extract(c)) /\ op[c] # "put"
  <2>1. NoPut(c)
    BY <1>9 DEF NoPut, Judge, Named, Extract, ReceiverAt, ReceiverGoto, CInv, OpInv
  <2> QED
    BY <2>1, NoPutKeeps
<1>10. CASE Judge(c) /\ op[c] = "put"
  <2> SUFFICES ASSUME alone' PROVE AloneInv'
    BY DEF AloneInv
  <2>1. /\ spc'[c] \in {"install", "done"} /\ stored' = stored /\ stored = Nothing
        /\ spc'[c] = "install" => \E d \in Client : /\ archive'[c] = archive[d]
                                                    /\ todo'[c] = Present(archive[d])
    <3>1. PICK verdict \in {OK, NO_INTEGRITY} :
             IF verdict = OK
             THEN \E d \in Named(c) : /\ spc' = [spc EXCEPT ![c] = "install"]
                                      /\ archive' = [archive EXCEPT ![c] = archive[d]]
                                      /\ todo' = [todo EXCEPT ![c] = Present(archive[d])]
             ELSE spc' = [spc EXCEPT ![c] = "done"]
      BY <1>10 DEF Judge, ReceiverGoto
    <3>2. \/ spc'[c] = "done"
          \/ /\ spc'[c] = "install"
             /\ \E d \in Client : archive'[c] = archive[d] /\ todo'[c] = Present(archive[d])
      BY <3>1 DEF Named
    <3>3. stored' = stored /\ stored = Nothing
      BY <1>10 DEF Judge, ReceiverAt, AloneInv
    <3> QED
      BY <3>2, <3>3
  <2>2. ASSUME spc'[c] = "install", NEW n \in FileName
        PROVE  stored'[n] = IF n \in todo'[c] THEN Absent ELSE archive'[c][n]
    BY <2>1, <2>2 DEF Nothing, Present
  <2> QED
    BY <1>6, <1>10, <2>1, <2>2
<1>11. CASE Extract(c) /\ op[c] = "put"
  <2> SUFFICES ASSUME alone' PROVE AloneInv'
    BY DEF AloneInv
  <2>1. PICK n \in todo[c] : /\ todo' = [todo EXCEPT ![c] = @ \ {n}]
                             /\ stored' = [stored EXCEPT ![n] = archive[c][n]]
    BY <1>11 DEF Extract
  <2>2. spc[c] = "install" /\ spc'[c] \in {"install", "done"} /\ archive' = archive /\ alone
    BY <1>11 DEF Extract, ReceiverAt, ReceiverGoto
  <2>3. todo'[c] = todo[c] \ {n} /\ n \in FileName
    BY <2>1
  <2>4. ASSUME NEW m \in FileName PROVE stored'[m] = IF m \in todo'[c] THEN Absent ELSE archive'[c][m]
    BY <2>1, <2>2, <2>3 DEF AloneInv, Trees
  <2> QED
    BY <1>6, <1>11, <2>2, <2>4
<1> QED
  BY <1>1, <1>2, <1>3, <1>4, <1>7, <1>8, <1>9, <1>10, <1>11 DEF SStep, Transfer

-----------------------------------------------------------------------------
(* The theorems. *)

\* At first nobody has said anything.
LEMMA InitInv == Init => IInv
<1> SUFFICES ASSUME Init PROVE IInv
  OBVIOUS
<1>1. TypeOK
  BY SessionAssumption, TreeTypes DEF Init, TypeOK
<1>2. ASSUME NEW c \in Client PROVE C2SInv(c) /\ S2CInv(c) /\ OpInv(c) /\ ConsentInv(c)
  BY DEF Init, C2SInv, S2CInv, OpInv, ConsentInv, CAt, SAt, Exists, Present, Nothing
<1>3. AloneInv
  BY DEF Init, AloneInv, PutUnderWay
<1> QED
  BY <1>1, <1>2, <1>3 DEF IInv

\* Client and child stay in step, and know what they do to the disk.
THEOREM Invariance == Spec => []IInv
<1>1. IInv /\ [Next]_vars => IInv'
  <2> SUFFICES ASSUME IInv, [Next]_vars PROVE IInv'
    OBVIOUS
  <2>1. CASE UNCHANGED vars
    BY <2>1 DEF IInv, TypeOK, AloneInv, C2SInv, S2CInv, OpInv, ConsentInv, vars, disk, request,
         net, work, history, CAt, SAt, Codes, Exists, Present, Nothing, Tree, PutUnderWay
  <2>2. CASE Next
    <3> SUFFICES ASSUME NEW c \in Client, CStep(c) \/ SStep(c) \/ Transfer(c) \/ Spoilt(c) \/ Dies(c) PROVE IInv'
      BY <2>2 DEF Next
    <3>1. TypeOK'
      BY TypeStep DEF IInv, Next
    <3>2. ASSUME NEW d \in Client, d # c PROVE C2SInv(d)' /\ S2CInv(d)' /\ OpInv(d)' /\ ConsentInv(d)'
      BY <3>2, Others, SameKeeps DEF IInv
    <3>3. C2SInv(c)' /\ S2CInv(c)' /\ OpInv(c)' /\ ConsentInv(c)'
      BY C2SStep, S2CStep, OpStep, ConsentStep DEF IInv, CInv
    <3>4. AloneInv'
      BY AloneStep DEF IInv, CInv
    <3> QED
      BY <3>1, <3>2, <3>3, <3>4 DEF IInv
  <2> QED
    BY <2>1, <2>2
<1> QED
  BY <1>1, InitInv, PTL DEF Spec

\* The variables of both mains keep their types.
THEOREM TypeCorrectness == Spec => []TypeOK
<1>1. IInv => TypeOK
  BY DEF IInv
<1> QED
  BY <1>1, Invariance, PTL

\* Neither main ever says "PROTOCOL NOT FOLLOWED", however many clients there are,
\* whatever they ask for and wherever either side ends.
THEOREM ProtocolFollowed == Spec => []FollowsProtocol
<1>1. IInv => FollowsProtocol
  <2> SUFFICES ASSUME IInv, NEW c \in Client
               PROVE  /\ cpc[c] # "done" /\ s2c[c] # <<>> => Head(s2c[c]) \in CAwaits(c)
                      /\ spc[c] # "done" /\ c2s[c] # <<>> => Head(c2s[c]) \in SAwaits(c)
    BY DEF FollowsProtocol
  <2> USE Queues DEF Coded, Command, Response, ResourceHeader
  <2>0. TypeOK /\ C2SInv(c) /\ S2CInv(c) /\ OpInv(c)
    BY DEF IInv
  <2>1. ASSUME spc[c] # "done", c2s[c] # <<>> PROVE Head(c2s[c]) \in SAwaits(c)
    <3>1. CASE spc[c] = "command"
      BY <2>0, <2>1, <3>1 DEF C2SInv, SAwaits, PUT, GET, PING
    <3>2. CASE spc[c] \in {"putheader", "getheader"}
      BY <2>0, <2>1, <3>2 DEF C2SInv, SAwaits
    <3>3. CASE spc[c] = "consent"
      BY <2>0, <2>1, <3>3 DEF C2SInv, SAwaits, OVERWRITE, ABORT
    <3>4. CASE spc[c] = "reply"
      BY <2>0, <2>1, <3>4 DEF C2SInv, SAwaits, OK, ABORT
    <3>5. CASE spc[c] = "verdict"
      BY <2>0, <2>1, <3>5 DEF C2SInv, SAwaits, OK, NO_INTEGRITY
    <3>6. spc[c] \notin {"rm", "receive", "install", "size", "zip", "spin"}
      BY <2>0, <2>1 DEF C2SInv
    <3>7. spc[c] \in {"command", "putheader", "getheader", "consent", "reply", "verdict"}
      BY <2>0, <2>1, <3>6 DEF TypeOK
    <3> QED
      BY <3>1, <3>2, <3>3, <3>4, <3>5, <3>7
  <2>2. ASSUME cpc[c] # "done", s2c[c] # <<>> PROVE Head(s2c[c]) \in CAwaits(c)
    <3>1. CASE cpc[c] = "pong"
      BY <2>0, <2>2, <3>1 DEF S2CInv, CAwaits
    <3>2. CASE cpc[c] = "answer" /\ op[c] = "put"
      <4>1. \E code \in {OK, DUPLICATE_RESOURCE_NAME, NO_ACCESS, NOT_FOUND, INSUFFICIENT_SPACE} :
                Head(s2c[c]) = Response(code)
        BY <2>0, <2>2, <3>2 DEF S2CInv, Codes
      <4>2. CAwaits(c) = Coded("response", {OK, NO_ACCESS, NOT_FOUND, INSUFFICIENT_SPACE,
                                            DUPLICATE_RESOURCE_NAME})
        BY <3>2 DEF CAwaits
      <4> QED
        BY <4>1, <4>2
    <3>3. CASE cpc[c] = "answer" /\ op[c] = "get"
      <4>1. \E code \in {OK, NO_ACCESS, NOT_FOUND, BAD_RESOURCE} : Head(s2c[c]) = Response(code)
        BY <2>0, <2>2, <3>3 DEF S2CInv, Codes
      <4>2. CAwaits(c) = Coded("response", {OK, NO_ACCESS, NOT_FOUND, BAD_RESOURCE})
        BY <3>3 DEF CAwaits
      <4> QED
        BY <4>1, <4>2
    <3>4. CASE cpc[c] = "size"
      BY <2>0, <2>2, <3>4 DEF S2CInv, CAwaits
    <3>5. CASE cpc[c] = "verdict"
      BY <2>0, <2>2, <3>5 DEF S2CInv, CAwaits
    <3>6. cpc[c] \notin {"start", "request", "header", "prompt", "zip", "receive", "install"}
      BY <2>0, <2>2 DEF S2CInv
    <3>7. cpc[c] \in {"pong", "answer", "size", "verdict"} /\ (cpc[c] = "answer" => op[c] \in {"put",
    "get"})
      BY <2>0, <2>2, <3>6 DEF TypeOK, OpInv
    <3> QED
      BY <3>1, <3>2, <3>3, <3>4, <3>5, <3>7
  <2> QED
    BY <2>1, <2>2
<1> QED
  BY <1>1, Invariance, PTL

\* Who changes a resource: on the server, a child that removes or extracts it; at
\* the destination of a get, the client that extracts.
LEMMA Changing ==
  ASSUME TypeOK, NEW c \in Client, CStep(c) \/ SStep(c) \/ Transfer(c) \/ Spoilt(c) \/ Dies(c)
  PROVE  /\ stored' # stored => SRemove(c) \/ (Extract(c) /\ op[c] = "put")
         /\ own' # own => Extract(c) /\ op[c] # "put"
         /\ todo' # todo => Judge(c) \/ Extract(c)
<1> USE DEF disk, work
<1>1. CASE CStep(c)
  BY <1>1 DEF CStep, CPutStep, CGetStep, CPing, CPong, CPutNothing, CPut, CPutBadPath, CPutHeader,
       CPutAnswer, CPutYes, CPutNo, CGetCheck, CGetYes, CGetNo, CGet, CGetHeader, CGetAnswer,
       CGetSize, CHungUp
<1>2. CASE SStep(c)
  BY <1>2 DEF SStep, SCommand, SPutHeader, SConsent, SRemove, SRemoveFails, SGetHeader, SGetSize,
       SGetReply, SHungUp
<1>3. CASE Transfer(c)
  BY <1>3 DEF Transfer, Zip, Judge, Extract, Verdict
<1>4. CASE Spoilt(c) \/ Dies(c)
  BY <1>4 DEF Spoilt, Dies
<1> QED
  BY <1>1, <1>2, <1>3, <1>4

\* What extraction writes, and where.
LEMMA Extracting ==
  ASSUME IInv, NEW c \in Client, Extract(c)
  PROVE  \E n \in todo[c] :
            /\ n \in FileName /\ archive[c][n] # Absent
            /\ todo'[c] = todo[c] \ {n}
            /\ op[c] = "put" =>
                  /\ stored' = [stored EXCEPT ![n] = archive[c][n]]
                  /\ spc[c] = "install" /\ (alone => stored[n] = Absent)
            /\ op[c] # "put" =>
                  /\ \A d \in Client, m \in FileName : own'[d][m] # own[d][m] => d = c /\ m = n
                  /\ c \notin agreed => own[c][n] = Absent
<1>1. PICK n \in todo[c] :
         /\ todo' = [todo EXCEPT ![c] = @ \ {n}]
         /\ IF op[c] = "put" THEN stored' = [stored EXCEPT ![n] = archive[c][n]]
                             ELSE own' = [own EXCEPT ![c][n] = archive[c][n]]
  BY DEF Extract
<1>2. n \in FileName /\ archive[c][n] # Absent /\ todo'[c] = todo[c] \ {n}
  BY <1>1 DEF IInv, OpInv, TypeOK, Present
<1>3. op[c] = "put" => spc[c] = "install" /\ (alone => stored[n] = Absent)
  BY <1>2 DEF Extract, ReceiverAt, IInv, AloneInv
<1>4. op[c] # "put" => (c \notin agreed => own[c][n] = Absent)
  BY <1>2 DEF Extract, ReceiverAt, IInv, ConsentInv
<1>5. ASSUME op[c] # "put", NEW d \in Client, NEW m \in FileName, own'[d][m] # own[d][m]
      PROVE  d = c /\ m = n
  BY <1>1, <1>5 DEF IInv, TypeOK, Trees
<1> QED
  BY <1>1, <1>2, <1>3, <1>4, <1>5

\* A file of the server's resource is removed only by a child that found it, said
\* so and was told to go on.  Of one that is replaced this is claimed only until
\* puts have overlapped: two of them may replace each other's files unasked.  No
\* client overwrites at its own destination what its user did not give up.
THEOREM ConsentFirst == Spec => OverwrittenWithConsent
<1> DEFINE Server == \A n \in FileName : Touched(n) /\ (stored'[n] = Absent \/ alone)
                        => \E c \in Client : Agreed(c)
           Clients == \A c \in Client, n \in FileName :
                        own[c][n] # Absent /\ own'[c][n] # own[c][n] => c \in agreed
<1>1. IInv /\ [Next]_vars => (Server /\ Clients) \/ UNCHANGED vars
  <2> SUFFICES ASSUME IInv, NEW c \in Client, CStep(c) \/ SStep(c) \/ Transfer(c) \/ Spoilt(c) \/ Dies(c)
               PROVE  Server /\ Clients
    BY DEF Next
  <2>1. TypeOK
    BY DEF IInv
  <2>2. Server
    <3> SUFFICES ASSUME NEW n \in FileName, Touched(n), stored'[n] = Absent \/ alone
                 PROVE  Agreed(c)
      OBVIOUS
    <3>1. CASE SRemove(c)
      BY <3>1 DEF SRemove, IInv, ConsentInv, Agreed
    <3>2. CASE Extract(c) /\ op[c] = "put"
      <4>1. PICK m \in todo[c] :
               /\ m \in FileName /\ archive[c][m] # Absent
               /\ stored' = [stored EXCEPT ![m] = archive[c][m]] /\ (alone => stored[m] = Absent)
        BY <3>2, Extracting
      <4>2. m = n
        BY <2>1, <4>1 DEF Touched, TypeOK, Trees
      <4>3. stored'[n] # Absent
        BY <2>1, <4>1, <4>2 DEF TypeOK, Trees
      <4> QED
        BY <4>1, <4>2, <4>3 DEF Touched
    <3> QED
      BY <2>1, <3>1, <3>2, Changing DEF Touched
  <2>3. Clients
    <3> SUFFICES ASSUME NEW d \in Client, NEW n \in FileName, own[d][n] # Absent, own'[d][n] # own[d][n]
                 PROVE  d \in agreed
      OBVIOUS
    <3>1. Extract(c) /\ op[c] # "put"
      BY <2>1, Changing
    <3>2. PICK k \in todo[c] :
             /\ \A e \in Client, m \in FileName : own'[e][m] # own[e][m] => e = c /\ m = k
             /\ c \notin agreed => own[c][k] = Absent
      BY <3>1, Extracting
    <3>3. d = c /\ n = k
      BY <3>2
    <3> QED
      BY <3>1, <3>2, <3>3
  <2> QED
    BY <2>2, <2>3
<1> QED
  BY <1>1, Invariance, PTL DEF Spec, OverwrittenWithConsent

\* As long as puts do not overlap, what a completed put leaves is the version it
\* sent, and nothing of the resource before, if no get's child had its archive in
\* the same file.
THEOREM ReplacedWhole == Spec => PutReplaces
<1> DEFINE Replaces ==
      \A c \in Client : op[c] = "put" /\ todo[c] # {} /\ todo'[c] = {} /\ alone /\ c \notin overlapped
          => stored' = Tree(version[c])
<1>1. IInv /\ [Next]_vars => Replaces \/ UNCHANGED vars
  <2> SUFFICES ASSUME IInv, NEW c \in Client, CStep(c) \/ SStep(c) \/ Transfer(c) \/ Spoilt(c) \/ Dies(c),
                      NEW d \in Client, op[d] = "put", todo[d] # {}, todo'[d] = {}, alone,
                      d \notin overlapped
               PROVE  stored' = Tree(version[d])
    BY DEF Next
  <2>1. TypeOK /\ OpInv(c)
    BY DEF IInv
  <2>2. d = c
    BY <2>1, Others DEF Same
  <2>3. ~Judge(c)
    BY <2>1, <2>2 DEF Judge, Named, Exists, TypeOK
  <2>4. Extract(c)
    BY <2>1, <2>3, Changing
  <2>5. PICK n \in todo[c] :
           /\ n \in FileName /\ archive[c][n] # Absent /\ todo'[c] = todo[c] \ {n}
           /\ stored' = [stored EXCEPT ![n] = archive[c][n]] /\ spc[c] = "install"
    BY <2>2, <2>4, Extracting
  <2>6. todo[c] = {n}
    BY <2>1, <2>2, <2>5 DEF TypeOK
  <2>7. \A m \in FileName : stored[m] = IF m = n THEN Absent ELSE archive[c][m]
    BY <2>5, <2>6 DEF IInv, AloneInv
  <2>8. stored' = archive[c]
    BY <2>1, <2>5, <2>7 DEF TypeOK, Trees
  <2>9. archive[c] = Tree(version[c])
    BY <2>1, <2>2, <2>5 DEF OpInv, Nothing
  <2> QED
    BY <2>2, <2>8, <2>9
<1> QED
  BY <1>1, Invariance, PTL DEF Spec, PutReplaces

=============================================================================
