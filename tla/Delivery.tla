------------------------------ MODULE Delivery ------------------------------
(***************************************************************************)
(* What filerail promises its user, whatever happens to processes, files   *)
(* and connections in between: "Uses MD5 hash to verify integrity at       *)
(* receiver side" (README.md).  An attempt names one version of a resource *)
(* and one destination.  Only that destination changes, only after the     *)
(* receiver judged what arrived to be the version on offer, and it ends up *)
(* holding exactly this version unless the receiver ends in between.  The  *)
(* sender's exit status says no more than what the receiver judged.        *)
(***************************************************************************)
CONSTANTS Version, Destination, Replaces, Nothing, Partial

VARIABLES
    installed,    \* what each destination holds
    version,      \* what the attempt is about
    destination,
    verdict,      \* "unsent" until a version is announced, then "pending", "match", "mismatch"
    sender,       \* "working", or its report: "success", "failure"
    receiver      \* "waiting", "installing", "installed", "ended"

vars == <<installed, version, destination, verdict, sender, receiver>>

Init ==
    /\ installed = [d \in Destination |-> Nothing]
    /\ version = Nothing /\ destination = Nothing
    /\ verdict = "unsent"
    /\ sender = "success" /\ receiver = "ended"

\* The next attempt starts when both sides have left the last one; an upload
\* removes what it replaces at once.
Ask == \E v \in Version, d \in Destination :
    /\ sender # "working" /\ receiver = "ended"
    /\ version' = v /\ destination' = d
    /\ verdict' = "unsent" /\ sender' = "working" /\ receiver' = "waiting"
    /\ installed' = IF Replaces THEN [installed EXCEPT ![d] = Nothing] ELSE installed

Announce ==
    /\ sender = "working" /\ verdict = "unsent"
    /\ verdict' = "pending"
    /\ UNCHANGED <<installed, version, destination, sender, receiver>>

Judge ==
    /\ receiver = "waiting" /\ verdict = "pending"
    /\ verdict' \in {"match", "mismatch"}
    /\ UNCHANGED <<installed, version, destination, sender, receiver>>

Install ==
    /\ receiver = "waiting" /\ verdict = "match"
    /\ installed' = [installed EXCEPT ![destination] = Partial]
    /\ receiver' = "installing"
    /\ UNCHANGED <<version, destination, verdict, sender>>

Complete ==
    /\ receiver = "installing"
    /\ installed' = [installed EXCEPT ![destination] = version]
    /\ receiver' = "installed"
    /\ UNCHANGED <<version, destination, verdict, sender>>

ReceiverEnds ==
    /\ receiver # "ended"
    /\ receiver' = "ended"
    /\ UNCHANGED <<installed, version, destination, verdict, sender>>

\* Success is reported on a match, or by a sender that had nothing to send.
SenderEnds ==
    /\ sender = "working"
    /\ \/ sender' = "success" /\ verdict \in {"unsent", "match"}
       \/ sender' = "failure"
    /\ UNCHANGED <<installed, version, destination, verdict, receiver>>

Next == Ask \/ Announce \/ Judge \/ Install \/ Complete \/ ReceiverEnds \/ SenderEnds

Spec == Init /\ [][Next]_vars

=============================================================================
