------------------------ MODULE MCConnectionLifecycle ------------------------
(***************************************************************************)
(* Instances of ConnectionLifecycle for TLC.                               *)
(***************************************************************************)
EXTENDS ConnectionLifecycle, TLC

\* Slots, processes, keys and connections are interchangeable.
Symmetry == Permutations(Reqs) \cup Permutations(Procs) \cup
            Permutations(Refs) \cup Permutations(Conns)
=============================================================================
