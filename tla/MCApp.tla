------------------------------- MODULE MCApp -------------------------------
(* The small instances of App that TLC checks.                             *)
EXTENDS App, TLC
=============================================================================
