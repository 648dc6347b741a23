----------------------------- MODULE MCProfiles -----------------------------
(* The small instance of Profiles that TLC checks.                         *)
EXTENDS Profiles, TLC

Symmetry == Permutations(Agent)
=============================================================================
