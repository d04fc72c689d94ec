--------------------------- MODULE MCPredictionFlow ---------------------------
\* Instances of PredictionFlow for TLC: one model shared, one private to t1.
EXTENDS PredictionFlow, TLC
CONSTANTS t1, mShared, mPrivate
MCOwner == mShared :> Shared @@ mPrivate :> t1
Symmetry == Permutations(Calls)
=============================================================================
