----------------------------- MODULE MCMatching -----------------------------
(* The small instances of Matching that TLC checks.                        *)
EXTENDS Matching, TLC
=============================================================================
