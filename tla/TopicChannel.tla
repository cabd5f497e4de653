---------------------------- MODULE TopicChannel ----------------------------
(***************************************************************************)
(* What sending on a topic to one listening node promises, and nothing     *)
(* more: a message that was offered is delivered once or never, and the    *)
(* messages that are delivered appear in the order they were offered in.   *)
(* This is the "Guarantees" section of the repository's README.md for one  *)
(* sender and one receiver; Outbox is shown to implement it.               *)
(***************************************************************************)
EXTENDS Integers, Sequences

VARIABLES
    offered,      \* how many messages were offered; they are numbered 1..offered
    delivered     \* the numbers of the messages delivered so far, in order

vars == <<offered, delivered>>

\* The number of the last message delivered, 0 before the first one.
LastDelivered ==
    IF delivered = <<>> THEN 0 ELSE delivered[Len(delivered)]

Init ==
    /\ offered = 0
    /\ delivered = <<>>

Offer ==
    /\ offered' = offered + 1
    /\ UNCHANGED delivered

\* Any message after the last delivered one may come next; those it skips are
\* lost for good.
Deliver(m) ==
    /\ LastDelivered < m
    /\ m <= offered
    /\ delivered' = Append(delivered, m)
    /\ UNCHANGED offered

Next ==
    \/ Offer
    \/ \E m \in LastDelivered + 1 .. offered : Deliver(m)

Spec == Init /\ [][Next]_vars
=============================================================================
