------------------------------- MODULE MCConn -------------------------------
EXTENDS Jsonrpc2ConnProps
CONSTANTS c1, c2, n1, r1, r2, r3, a, b

IdABN == [r \in Reqs |-> CASE r = r1 -> a [] r = r2 -> b [] OTHER -> NoID]
IdAAN == [r \in Reqs |-> IF r = r3 THEN NoID ELSE a]
ByApp == [p \in Calls \cup Notifs |-> App]
PeersInR1 == [p \in Calls \cup Notifs |-> IF p \in {c2, n1} THEN r1 ELSE App]
C1InR1 == [p \in Calls \cup Notifs |-> IF p = c1 THEN r1 ELSE App]
=============================================================================
