--------------------------- MODULE MCRelayServer ---------------------------
\* A small instance of the relay server for TLC.
EXTENDS RelayServer

CONSTANTS t1, t2, t3, t4, u1, u2, a1, a2, none, i1, i2, blank, c1, c2, c3, free

\* Three clients share an address.
MCAddr == [t \in Tasks |-> IF t = t4 THEN a2 ELSE a1]
=============================================================================
