------------------------------ MODULE MCPages ------------------------------
(* The small instance of Pages that TLC checks.                            *)
EXTENDS Pages, TLC
=============================================================================
