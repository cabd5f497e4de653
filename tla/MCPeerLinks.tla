----------------------------- MODULE MCPeerLinks -----------------------------
\* Small instances of PeerLinks for TLC.
EXTENDS PeerLinks, TLC

CONSTANTS a, b, c1

\* All calls go to a, as do the messages of its outbox.
CallA == [c \in Calls |-> a]
=============================================================================
