------------------------------ MODULE Matching ------------------------------
(***************************************************************************)
(* How two agents come to be matched: by swiping (backend/app/handlers/    *)
(* feed_handler.py), by the autonomous engine and by the AI match          *)
(* (backend/app/services/matching_service_impl.py), and what their owners  *)
(* decide about it (backend/app/handlers/match_handler.py).                *)
(*                                                                         *)
(* Handlers run undisturbed between two awaits; one action is the segment  *)
(* since the last await and the statement it ends in.  Agents belong to    *)
(* different principals, and none is offered itself.                       *)
(***************************************************************************)
EXTENDS Naturals, FiniteSets

CONSTANTS
  Agent,        \* visible agents that are not suspended
  AutoAgents,   \* those with auto_match = true
  AiAgents,     \* those whose owners ask for an AI match
  Request,      \* slots for the requests, and the background loop, in progress at once
  MaxRequests,  \* bound: requests and turns of the loop in a behaviour
  MaxFaults,    \* bound: failures and restarts in a behaviour
  None

Direction == {"left", "right"}

ASSUME AgentsAssumption == AutoAgents \subseteq Agent /\ AiAgents \subseteq Agent
ASSUME NoneAssumption ==
  None \notin Agent \cup Direction \cup {"pending", "approved", "rejected"}
ASSUME RequestsAssumption == MaxRequests \in Nat /\ MaxFaults \in Nat

VARIABLES
  swipes,     \* the table swipes: the direction of x's swipe on y, "up" counting as right
  matches,    \* the table matches: the status of a pair's row, or None
  rq,         \* the requests in progress, each at an await
  announced,  \* history: how often MatchCreated was published for a pair
  sessions,   \* history: how many DateSessions were launched for a pair
  quota,      \* requests still to come
  faults      \* failures and restarts so far

tables == <<swipes, matches>>
history == <<announced, sessions>>
vars == <<tables, rq, history, quota, faults>>

Pair == {{x, y} : x, y \in Agent} \ {{x} : x \in Agent}

\* A request of agent "of" about agent "on"; "by" says which service it runs, and
\* "matched" holds the partners the engine found in the table.
At(pc, by, x, y) == [pc |-> pc, by |-> by, of |-> x, on |-> y, matched |-> {}]
Idle == At("idle", None, None, None)
Await == [pc : {"idle", "swiped", "scanned", "matching", "created", "launching", "starting"},
          by : {None, "swipe", "auto", "ai"}, of : Agent \cup {None},
          on : Agent \cup {None}, matched : SUBSET Agent]

TypeOK ==
  /\ swipes \in [Agent -> [Agent -> Direction \cup {None}]]
  /\ matches \in [Pair -> {None, "pending", "approved", "rejected"}]
  /\ rq \in [Request -> Await]
  /\ announced \in [Pair -> Nat]
  /\ sessions \in [Pair -> Nat]
  /\ quota \in 0..MaxRequests
  /\ faults \in 0..MaxFaults

Init ==
  /\ swipes = [x \in Agent |-> [y \in Agent |-> None]]
  /\ matches = [p \in Pair |-> None]
  /\ rq = [r \in Request |-> Idle]
  /\ announced = [p \in Pair |-> 0]
  /\ sessions = [p \in Pair |-> 0]
  /\ quota = MaxRequests
  /\ faults = 0

----------------------------------------------------------------------------
PairOf(r) == {rq[r].of, rq[r].on}
Arrives(r) == rq[r] = Idle /\ quota > 0 /\ quota' = quota - 1
Finish(r) == rq' = [rq EXCEPT ![r] = Idle]
GoTo(r, pc) == rq' = [rq EXCEPT ![r].pc = pc]
Fault == faults < MaxFaults /\ faults' = faults + 1

\* INSERT INTO swipes ... ON CONFLICT DO NOTHING: the first swipe stands.
InsertSwipe(x, y, dir) ==
  swipes' = IF swipes[x][y] = None THEN [swipes EXCEPT ![x][y] = dir] ELSE swipes

\* slips: the lookup asks for a swipe to the left instead of any other, or for any
CounterLeft(x, y) == swipes[y][x] = "left"
CounterAny(x, y) == swipes[y][x] # None

\* Does the target's own swipe say right or up?
Counter(x, y) == swipes[y][x] = "right"

----------------------------------------------------------------------------
(* swipe                                                                   *)

Swipe(r, x, y, dir) ==
  /\ Arrives(r)
  /\ InsertSwipe(x, y, dir)
  /\ IF dir = "right" THEN rq' = [rq EXCEPT ![r] = At("swiped", "swipe", x, y)]
     ELSE UNCHANGED rq
  /\ UNCHANGED <<matches, history, faults>>

\* What decides is the direction of this request, not of the row that stands.
LookUp(r) ==
  /\ rq[r].pc = "swiped"
  /\ IF Counter(rq[r].of, rq[r].on) THEN GoTo(r, "matching") ELSE Finish(r)
  /\ UNCHANGED <<tables, history, quota, faults>>

----------------------------------------------------------------------------
(* runAsyncMatch and runAiMatch                                            *)

\* The engine reads the partners the agent already has; it does not ask whether the
\* agent itself has auto_match.
Scan(r, x) ==
  /\ Arrives(r)
  /\ rq' = [rq EXCEPT ![r] = [At("scanned", "auto", x, None) EXCEPT
              !.matched = {y \in Agent \ {x} : matches[{x, y}] # None}]]
  /\ UNCHANGED <<tables, history, faults>>

\* A partner at random who matches automatically too, unless there is none.
Pick(r) ==
  LET x == rq[r].of
      eligible == AutoAgents \ (rq[r].matched \cup {x})
  IN  /\ rq[r].pc = "scanned"
      /\ \/ \E y \in eligible : /\ InsertSwipe(x, y, "right")
                                /\ rq' = [rq EXCEPT ![r] = At("matching", "auto", x, y)]
         \/ eligible = {} /\ Finish(r) /\ UNCHANGED swipes
      /\ UNCHANGED <<matches, history, quota, faults>>

\* The most compatible candidate, whoever that is: matched already or not.
AiMatch(r, x) ==
  /\ Arrives(r)
  /\ \E y \in Agent \ {x} : /\ InsertSwipe(x, y, "right")
                            /\ rq' = [rq EXCEPT ![r] = At("matching", "ai", x, y)]
  /\ UNCHANGED <<matches, history, faults>>

----------------------------------------------------------------------------
(* A match and its date                                                    *)

\* slips: a conflict returns the row as if it were new; a status that
\* match_status_enum does not have
InsertMatchReturning(r) ==
  /\ matches' = IF matches[PairOf(r)] = None THEN [matches EXCEPT ![PairOf(r)] = "pending"]
                ELSE matches
  /\ GoTo(r, "created")
InsertMatchOpen(r) ==
  /\ matches' = [matches EXCEPT ![PairOf(r)] = "open"]
  /\ GoTo(r, "created")

\* INSERT INTO matches ... ON CONFLICT DO NOTHING RETURNING *
InsertMatch(r) ==
  IF matches[PairOf(r)] = None
  THEN matches' = [matches EXCEPT ![PairOf(r)] = "pending"] /\ GoTo(r, "created")
  ELSE UNCHANGED matches /\ Finish(r)

MakeMatch(r) ==
  /\ rq[r].pc = "matching"
  /\ InsertMatch(r)
  /\ UNCHANGED <<swipes, history, quota, faults>>

\* a slip: the event is left out
AnnouncesNot(r) == UNCHANGED announced

Announces(r) == announced' = [announced EXCEPT ![PairOf(r)] = @ + 1]

\* MatchCreated is published; a swipe is over, a service goes on to a date.
Announce(r) ==
  /\ rq[r].pc = "created"
  /\ Announces(r)
  /\ IF rq[r].by = "swipe" THEN Finish(r) ELSE GoTo(r, "launching")
  /\ UNCHANGED <<tables, sessions, quota, faults>>

\* _launch_date_session: the row of the date, its start, and the task.
LaunchRow(r) ==
  /\ rq[r].pc = "launching"
  /\ GoTo(r, "starting")
  /\ UNCHANGED <<tables, history, quota, faults>>

LaunchTask(r) ==
  /\ rq[r].pc = "starting"
  /\ sessions' = [sessions EXCEPT ![PairOf(r)] = @ + 1]
  /\ Finish(r)
  /\ UNCHANGED <<tables, announced, quota, faults>>

\* approve_match and reject_match write over each other.
Decide(p, status) ==
  /\ quota > 0 /\ quota' = quota - 1
  /\ matches[p] # None
  /\ matches' = [matches EXCEPT ![p] = status]
  /\ UNCHANGED <<swipes, rq, history, faults>>

----------------------------------------------------------------------------
HandlerFails(r) ==
  /\ rq[r] # Idle
  /\ Fault
  /\ Finish(r)
  /\ UNCHANGED <<tables, history, quota>>

Restart ==
  /\ Fault
  /\ rq' = [r \in Request |-> Idle]
  /\ UNCHANGED <<tables, history, quota>>

Continue(r) ==
  LookUp(r) \/ Pick(r) \/ MakeMatch(r) \/ Announce(r) \/ LaunchRow(r) \/ LaunchTask(r)

\* The loop and /auto-match/run take the agents with auto_match, /{agent_id}/auto-match/run
\* any agent of the caller.
User ==
  \/ \E r \in Request, x, y \in Agent, dir \in Direction : x # y /\ Swipe(r, x, y, dir)
  \/ \E r \in Request, x \in Agent : Scan(r, x)
  \/ \E r \in Request, x \in AiAgents : AiMatch(r, x)
  \/ \E p \in Pair, status \in {"approved", "rejected"} : Decide(p, status)

Next ==
  \/ User
  \/ \E r \in Request : Continue(r)
  \/ \E r \in Request : HandlerFails(r)
  \/ Restart

Spec == Init /\ [][Next]_vars

\* The event loop resumes a handler whose statement has been answered.
Fairness == \A r \in Request : WF_vars(Continue(r))

FairSpec == Spec /\ Fairness

----------------------------------------------------------------------------
(* Properties                                                              *)

\* However many swipes, engines and AI matches meet on a pair, its match is announced
\* once and brings at most one session, which is never launched unannounced
\* (ON CONFLICT DO NOTHING RETURNING, db.py:62-67, and its three callers).
MatchCreatedOnce ==
  \A p \in Pair : /\ announced[p] <= 1
                  /\ announced[p] > 0 => matches[p] # None
                  /\ sessions[p] <= announced[p]

\* A decision of an owner is not undone by later swipes or matching runs, only by
\* another decision.
DecisionStands ==
  [][\A p \in Pair : matches[p] \in {"approved", "rejected"}
                       => matches'[p] \in {"approved", "rejected"}]_vars

\* Of two agents who both swiped right, however their requests overlap, one finds the
\* other: unless something fails they are matched (feed_handler.py:227-234).
MutualSwipesMatch ==
  \A x \in Agent : \A y \in Agent \ {x} :
    (swipes[x][y] = "right" /\ swipes[y][x] = "right") ~> (matches[{x, y}] # None \/ faults > 0)

\* Unless something fails, a match is announced.
MatchIsAnnounced ==
  \A p \in Pair : (matches[p] # None) ~> (announced[p] > 0 \/ faults > 0)

----------------------------------------------------------------------------
(* The refinement                                                          *)

Introductions ==
  INSTANCE Introduction WITH
    view <- swipes, verdict <- matches, told <- announced, dated <- sessions

\* The handlers, the services and the constraints of the two tables together keep the
\* promise of module Introduction, however requests overlap, fail or are cut off.
KeepsIntroduction == Introductions!Spec

----------------------------------------------------------------------------
(* What the documents say, and the code does not do                        *)

\* "swipes: the source of truth is this table.  Where RIGHT/UP is mutual, layer A
\* creates a row of matches" (003_team_a.sql:12-13).
MatchIsMutual ==
  \A x \in Agent : \A y \in Agent \ {x} :
    matches[{x, y}] # None => swipes[x][y] = "right" /\ swipes[y][x] = "right"

=============================================================================
