-------------------------------- MODULE MCRuntime --------------------------------
(***************************************************************************)
(* Runtime on a small instance: two controllers, two profiles, and devices *)
(* enough for both controllers and two replacements.                       *)
(***************************************************************************)
EXTENDS Runtime, TLC

Symmetry == Permutations(Ids) \cup Permutations(Profiles)

=============================================================================
