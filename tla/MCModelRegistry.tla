---------------------------- MODULE MCModelRegistry ----------------------------
(***************************************************************************)
(* ModelRegistry for TLC: ids, tenants and sessions are interchangeable.   *)
(***************************************************************************)
EXTENDS ModelRegistry, TLC

Symmetry == Permutations(Models) \cup Permutations(Adapters) \cup
            Permutations(AliasIds) \cup Permutations(Tenants) \cup
            Permutations(Sessions)

=============================================================================
