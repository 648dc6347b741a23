---------------------------- MODULE MCReputation ----------------------------
(* The small instances of Reputation that TLC checks.                      *)
EXTENDS Reputation, TLC
=============================================================================
