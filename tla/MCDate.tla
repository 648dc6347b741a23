------------------------------- MODULE MCDate -------------------------------
(* The small instances of DateLifecycle that TLC checks.                   *)
EXTENDS DateLifecycle, TLC

\* Request slots and date ids are interchangeable (safety runs only).
Symmetry == Permutations(Request) \cup Permutations(Date)
=============================================================================
