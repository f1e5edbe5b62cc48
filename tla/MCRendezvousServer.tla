------------------------- MODULE MCRendezvousServer -------------------------
\* A small instance of the rendezvous server for TLC.
EXTENDS RendezvousServer

CONSTANTS m1, m2, k1, k2, k3, p1, p2, e1, e2, e3, none,
          s1, s2, s3, s4, s5, c1, c2

\* Machine m1 made two keys, machine m2 one.
MCKeyOwner == [k \in Pks |-> IF k = k3 THEN m2 ELSE m1]

MCLists == {{}, {s1, s2}, {s3, s4}, {s5}}
MCConfigured == {s1, s2}
=============================================================================
