----------------------------- MODULE MCModelLoader -----------------------------
\* Instances of ModelLoader for TLC.
EXTENDS ModelLoader, TLC
Symmetry == Permutations(LoadCalls) \cup Permutations(Versions)
=============================================================================
