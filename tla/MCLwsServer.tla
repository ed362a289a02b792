----------------------------- MODULE MCLwsServer -----------------------------
EXTENDS LwsServer
CONSTANTS c1, c2, L
PeerTokens == [c \in Conns |-> IF c = c1 THEN 3 ELSE 0]
MCSocks   == Conns \cup {L}
==============================================================================
