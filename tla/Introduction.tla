---------------------------- MODULE Introduction ----------------------------
(***************************************************************************)
(* What the backend promises about two agents who come together, however   *)
(* many swipes, engines and owners deal with them at once and whatever     *)
(* fails: what one said of the other stands, they are matched only for a   *)
(* reason, once, are told of it once, and meet for one session at most;    *)
(* of their match an owner may change nothing but the verdict.             *)
(*                                                                         *)
(* Matching implements it; a step here is what one can see of a pair,      *)
(* without the requests that bring it about.                               *)
(***************************************************************************)
EXTENDS Naturals

CONSTANTS
  Agent, AutoAgents, AiAgents,  \* as in Matching
  None

VARIABLES
  view,      \* what an agent has said of another
  verdict,   \* how the match of a pair stands; None as long as there is none
  told,      \* how often the pair's match was announced
  dated      \* how many sessions it was given

vars == <<view, verdict, told, dated>>

Pair == {{x, y} : x, y \in Agent} \ {{x} : x \in Agent}

Init ==
  /\ view = [x \in Agent |-> [y \in Agent |-> None]]
  /\ verdict = [p \in Pair |-> None]
  /\ told = [p \in Pair |-> 0] /\ dated = [p \in Pair |-> 0]

Judge(x, y, dir) ==
  /\ x # y /\ view[x][y] = None
  /\ view' = [view EXCEPT ![x][y] = dir]
  /\ UNCHANGED <<verdict, told, dated>>

\* The reason for a match: x has dealt with y, and y wants x, or x's owner asked for an
\* AI match, or y is open to the engine.  That x wants y is not part of it: the row may
\* say left, and a later swipe not change it.
Reason(x, y) ==
  /\ view[x][y] # None
  /\ view[y][x] = "right" \/ x \in AiAgents \/ y \in AutoAgents

Meet(x, y) ==
  /\ x # y /\ verdict[{x, y}] = None
  /\ Reason(x, y)
  /\ verdict' = [verdict EXCEPT ![{x, y}] = "pending"]
  /\ UNCHANGED <<view, told, dated>>

Tell(p) ==
  /\ verdict[p] # None /\ told[p] = 0
  /\ told' = [told EXCEPT ![p] = 1]
  /\ UNCHANGED <<view, verdict, dated>>

\* A session comes after the announcement.
Date(p) ==
  /\ told[p] = 1 /\ dated[p] = 0
  /\ dated' = [dated EXCEPT ![p] = 1]
  /\ UNCHANGED <<view, verdict, told>>

Decide(p, status) ==
  /\ verdict[p] # None
  /\ verdict' = [verdict EXCEPT ![p] = status]
  /\ UNCHANGED <<view, told, dated>>

Next ==
  \/ \E x, y \in Agent : Meet(x, y) \/ \E dir \in {"left", "right"} : Judge(x, y, dir)
  \/ \E p \in Pair : Tell(p) \/ Date(p)
  \/ \E p \in Pair, status \in {"approved", "rejected"} : Decide(p, status)

Spec == Init /\ [][Next]_vars

=============================================================================
