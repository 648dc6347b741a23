---------------------------- MODULE Conversation ----------------------------
(***************************************************************************)
(* What the backend promises about a date, whoever presses, joins or ends  *)
(* it and whatever fails: facts are only ever added to its row, nobody     *)
(* hears of a fact before it is one, there is one conversation at most, it *)
(* keeps its budget, says at most one thing after the end, and stops.      *)
(*                                                                         *)
(* DateLifecycle implements it; a step here is what one can see of a date, *)
(* without the requests, dictionaries and tasks that bring it about.       *)
(***************************************************************************)
EXTENDS Naturals

CONSTANTS Date, MaxMessages

VARIABLES
  facts,  \* what the row of a date says of it
  heard,  \* the facts that were announced
  talk,   \* its conversation: yet to come, going on, or over
  count,  \* messages of the conversation
  late    \* those stored after the end

vars == <<facts, heard, talk, count, late>>

Fact == {"proposed", "started", "ended"}

Init ==
  /\ facts = [d \in Date |-> {}] /\ heard = [d \in Date |-> {}]
  /\ talk = [d \in Date |-> "silent"]
  /\ count = [d \in Date |-> 0] /\ late = [d \in Date |-> 0]

\* A date is proposed before anything else is said of it; it may end without having
\* started.
Commit(d, f) ==
  /\ f = "proposed" <=> facts[d] = {}
  /\ facts' = [facts EXCEPT ![d] = @ \cup {f}]
  /\ UNCHANGED <<heard, talk, count, late>>

Announce(d, f) ==
  /\ f \in facts[d]
  /\ heard' = [heard EXCEPT ![d] = @ \cup {f}]
  /\ UNCHANGED <<facts, talk, count, late>>

\* The one conversation begins, and its start is announced.
Begin(d) ==
  /\ talk[d] = "silent" /\ "started" \in facts[d]
  /\ talk' = [talk EXCEPT ![d] = "talking"]
  /\ heard' = [heard EXCEPT ![d] = @ \cup {"started"}]
  /\ UNCHANGED <<facts, count, late>>

Speak(d) ==
  /\ talk[d] = "talking" /\ count[d] < MaxMessages
  /\ "ended" \in facts[d] => late[d] = 0
  /\ count' = [count EXCEPT ![d] = @ + 1]
  /\ late' = [late EXCEPT ![d] = IF "ended" \in facts[d] THEN 1 ELSE @]
  /\ UNCHANGED <<facts, heard, talk>>

\* Everything has been said: the conversation ends its date.
Complete(d) ==
  /\ talk[d] = "talking" /\ count[d] = MaxMessages
  /\ talk' = [talk EXCEPT ![d] = "over"]
  /\ facts' = [facts EXCEPT ![d] = @ \cup {"ended"}]
  /\ UNCHANGED <<heard, count, late>>

\* Conversations stop: the date of one has ended, or something failed.
Silence(D) ==
  /\ D # {} /\ \A d \in D : talk[d] = "talking"
  /\ talk' = [d \in Date |-> IF d \in D THEN "over" ELSE talk[d]]
  /\ UNCHANGED <<facts, heard, count, late>>

Converse(d) == Speak(d) \/ Complete(d) \/ Silence({d})

Next ==
  \/ \E d \in Date, f \in Fact : Commit(d, f) \/ Announce(d, f)
  \/ \E d \in Date : Begin(d) \/ Converse(d)
  \/ \E D \in SUBSET Date : Silence(D)

Spec == Init /\ [][Next]_vars

=============================================================================
