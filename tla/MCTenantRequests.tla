---------------------------- MODULE MCTenantRequests ----------------------------
\* Instances of TenantRequests for TLC.
EXTENDS TenantRequests, TLC
CONSTANTS t1, t2, x1, x2
Symmetry == Permutations(Conns) \cup Permutations(Reqs) \cup Permutations(Objects)
MCOwner == (x1 :> t1) @@ (x2 :> t1)
=============================================================================
