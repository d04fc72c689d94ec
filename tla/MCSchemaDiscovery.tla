--------------------------- MODULE MCSchemaDiscovery ---------------------------
\* Instances of SchemaDiscovery for TLC.
EXTENDS SchemaDiscovery, TLC
Symmetry == Permutations(Snaps) \cup Permutations(Schemas)
=============================================================================
