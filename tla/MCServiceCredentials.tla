-------------------------- MODULE MCServiceCredentials --------------------------
\* Instances of ServiceCredentials for TLC.
EXTENDS ServiceCredentials, TLC
Symmetry == Permutations(Creds) \cup Permutations(Reqs) \cup Permutations(Tenants) \cup Permutations(Ips)
=============================================================================
