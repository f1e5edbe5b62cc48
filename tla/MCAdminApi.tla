----------------------------- MODULE MCAdminApi -----------------------------
\* A small instance of the admin API for TLC.
EXTENDS AdminApi, TLC

CONSTANTS l1, l2, l3, d1, r1, r2, v1, vd, i1, all

\* Logins and requests are interchangeable.
ApiSymmetry == Permutations(Logins) \cup Permutations(Requests)
=============================================================================
