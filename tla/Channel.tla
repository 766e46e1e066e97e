------------------------------- MODULE Channel -------------------------------
(***************************************************************************)
(* What the filerail_send_x and filerail_recv_x calls promise of one       *)
(* direction of a connection: messages travel whole and in order, none is  *)
(* made up, and a side that saw a call fail is done with the connection.   *)
(* Transfer and Session describe their connections this way.               *)
(***************************************************************************)
EXTENDS Naturals, Sequences

CONSTANT Message

VARIABLES
    sent,      \* the messages whose filerail_send_x call succeeded
    received,  \* the messages that filerail_recv_x calls returned
    sender,    \* "open", or "closed" from its first failure or its end on
    receiver   \* likewise

vars == <<sent, received, sender, receiver>>

Init == sent = <<>> /\ received = <<>> /\ sender = "open" /\ receiver = "open"

Send(m) ==
    /\ sender = "open"
    /\ sent' = Append(sent, m)
    /\ UNCHANGED <<received, sender, receiver>>

Receive ==
    /\ receiver = "open" /\ Len(received) < Len(sent)
    /\ received' = Append(received, sent[Len(received) + 1])
    /\ UNCHANGED <<sent, sender, receiver>>

SenderCloses   == sender' = "closed" /\ UNCHANGED <<sent, received, receiver>>
ReceiverCloses == receiver' = "closed" /\ UNCHANGED <<sent, received, sender>>

Next == (\E m \in Message : Send(m)) \/ Receive \/ SenderCloses \/ ReceiverCloses

Spec == Init /\ [][Next]_vars

=============================================================================
