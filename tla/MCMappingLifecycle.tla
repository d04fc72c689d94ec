-------------------------- MODULE MCMappingLifecycle --------------------------
(***************************************************************************)
(* MappingLifecycle for TLC: mappings and requests are interchangeable.   *)
(***************************************************************************)
EXTENDS MappingLifecycle, TLC

Symmetry == Permutations(Maps) \cup Permutations(Reqs)

=============================================================================
