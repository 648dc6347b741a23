---------------------------- MODULE Reputation ----------------------------
(***************************************************************************)
(* What a rating does: the branch of end_date that runs when the request   *)
(* carries one (backend/app/handlers/date_handler.py:264-322), over the    *)
(* ScoreManager the process keeps in memory (models/score/                 *)
(* score_manager.py) and the tables that are to survive it.                *)
(*                                                                         *)
(* The module is about one pair of agents: pairs share nothing but the     *)
(* trust points of their agents, which every rating of this pair also      *)
(* touches.  Memory is read and written between two awaits; a statement    *)
(* carries the values captured when it was issued and is executed later,   *)
(* on a connection of its own, so two of them may pass each other.         *)
(***************************************************************************)
EXTENDS Naturals, FiniteSets

CONSTANTS
  Date,               \* dates of the pair that have ended
  Rater,              \* principals who rate
  Agent,              \* agents they rate
  Stars,              \* the stars they give
  Request,            \* slots for the requests in progress at once
  AcquaintanceDates,  \* 1: checkUpgrade's first threshold
  ColleagueDates,     \* 3
  PartnerDates,       \* 10
  MinPoints,          \* _MIN_TRUST_POINTS, 5
  MaxRatings,         \* bound: rating requests in a behaviour
  MaxFaults,          \* bound: failures and restarts in a behaviour
  None

Tier == {"stranger", "acquaintance", "colleague", "trusted_partner"}

ASSUME StarsAssumption == Stars \subseteq 1..5
ASSUME ThresholdAssumption ==
  /\ {AcquaintanceDates, ColleagueDates, PartnerDates, MinPoints} \subseteq Nat \ {0}
  /\ AcquaintanceDates < ColleagueDates /\ ColleagueDates < PartnerDates
ASSUME LimitAssumption == MaxRatings \in Nat /\ MaxFaults \in Nat
ASSUME NoneAssumption == None \notin Nat \cup Tier

VARIABLES
  points,     \* _trust_data: how many points an agent has, and their stars
  trust,      \* _trust_cache
  rel,        \* the RelationshipRecord of the pair
  ratings,    \* the table ratings, by its key uq_rating_per_date
  relRow,     \* the pair's row of relationships
  trustRow,   \* the rows of trust_scores
  rq,         \* the requests in progress, each at an await
  quota,      \* rating requests still to come
  faults      \* failures and restarts so far

memory == <<points, trust, rel>>
tables == <<ratings, relRow, trustRow>>
vars == <<memory, tables, rq, quota, faults>>

Relationship == [n : Nat, stars : Nat, tier : Tier]
Stranger == [n |-> 0, stars |-> 0, tier |-> "stranger"]
Points == [n : Nat, stars : Nat]
NoPoints == [n |-> 0, stars |-> 0]
Reading == [n : Nat, stars : Nat, composite : Nat \cup {None}]
NoReading == [n |-> 0, stars |-> 0, composite |-> None]

\* A request: the rating it carries and what it captured for its statements.
At(pc, d, p, g) == [pc |-> pc, date |-> d, rater |-> p, agent |-> g,
                    row |-> Stranger, newTier |-> None, reading |-> NoReading]
Idle == At("idle", None, None, None)
Handler == {Idle} \cup
           [pc : {"rating", "relating", "related", "badge", "trusting"},
            date : Date, rater : Rater, agent : Agent,
            row : Relationship, newTier : Tier \cup {None}, reading : Reading]

TypeOK ==
  /\ points \in [Agent -> Points]
  /\ trust \in [Agent -> Nat \cup {None}]
  /\ rel \in Relationship
  /\ ratings \subseteq Date \X Rater \X Agent
  /\ relRow \in Relationship
  /\ trustRow \in [Agent -> Reading]
  /\ rq \in [Request -> Handler]
  /\ quota \in 0..MaxRatings
  /\ faults \in 0..MaxFaults

----------------------------------------------------------------------------
(* ScoreManager                                                            *)

\* getTrustBreakdown of points that all report a completed task: the weights
\* 0.5 on the mean of stars/5 and 0.3 on the completed share, in units of 1/(50 n).
Composite(p) == 5 * p.stars + 15 * p.n

\* a slip: _recalculate_trust and getTrustBreakdown disagree at the threshold
CachedLate(p) == IF p.n <= MinPoints THEN None ELSE Composite(p)

\* _recalculate_trust: what the cache holds for an agent with points p
Cached(p) == IF p.n < MinPoints THEN None ELSE Composite(p)

AddPoint(p, s) == [n |-> p.n + 1, stars |-> p.stars + s]

\* recordSuccessfulDate, called with stars / 5.  avg_rating is the mean of those,
\* stars / (5 n), whose rounding no threshold is near.
Recorded(rl, s) == [n |-> rl.n + 1, stars |-> rl.stars + s, tier |-> rl.tier]

\* a slip: a threshold must be exceeded
NextTierLate(rl) ==
  CASE rl.tier = "stranger" /\ rl.n > AcquaintanceDates -> "acquaintance"
    [] rl.tier = "acquaintance" /\ rl.n > ColleagueDates -> "colleague"
    [] OTHER -> rl.tier

\* the tier checkUpgrade leads to; nothing in the backend freezes a relationship
NextTier(rl) ==
  CASE rl.tier = "stranger" /\ rl.n >= AcquaintanceDates -> "acquaintance"
    [] rl.tier = "acquaintance" /\ rl.n >= ColleagueDates -> "colleague"
    [] /\ rl.tier = "colleague" /\ rl.n >= PartnerDates
       /\ rl.stars >= 4 * 5 * rl.n
       -> "trusted_partner"
    [] OTHER -> rl.tier

Upgraded(rl) == [rl EXCEPT !.tier = NextTier(rl)]

Init ==
  /\ points = [g \in Agent |-> NoPoints]
  /\ trust = [g \in Agent |-> None]
  /\ rel = Stranger
  /\ ratings = {}
  /\ relRow = Stranger
  /\ trustRow = [g \in Agent |-> NoReading]
  /\ rq = [r \in Request |-> Idle]
  /\ quota = MaxRatings
  /\ faults = 0

----------------------------------------------------------------------------
(* end_date, once the end of the date is written                           *)

Finish(r) == rq' = [rq EXCEPT ![r] = Idle]
Fault == faults < MaxFaults /\ faults' = faults + 1

\* The handler goes on to its next await with what it has captured.
Resume(r, pc, row, newTier, reading) ==
  rq' = [rq EXCEPT ![r] = [pc |-> pc, date |-> @.date, rater |-> @.rater, agent |-> @.agent,
                           row |-> row, newTier |-> newTier, reading |-> reading]]

\* a slip: the relationship is recorded and its tier not looked at
RatedNoCheck(rl, s) == Recorded(rl, s)

\* recordSuccessfulDate, then checkUpgrade, whose result is not kept
Rated(rl, s) == Upgraded(Recorded(rl, s))

\* submitRating and the relationship, in memory; the rating's INSERT is issued.
Rate(r, d, p, g, s) ==
  /\ rq[r] = Idle /\ quota > 0 /\ quota' = quota - 1
  /\ points' = [points EXCEPT ![g] = AddPoint(@, s)]
  /\ trust' = [trust EXCEPT ![g] = Cached(points'[g])]
  /\ rel' = Rated(rel, s)
  /\ rq' = [rq EXCEPT ![r] = At("rating", d, p, g)]
  /\ UNCHANGED <<tables, faults>>

\* slips: the columns of the INSERT change places; the rating never gets there
InsertedSwapped(r) == ratings' = ratings \cup {<<rq[r].rater, rq[r].date, rq[r].agent>>}
InsertedNot(r) == UNCHANGED ratings

\* INSERT ... ON CONFLICT DO NOTHING
Inserted(r) == ratings' = ratings \cup {<<rq[r].date, rq[r].rater, rq[r].agent>>}

\* The rating is stored; checkUpgrade again, and the relationship is captured for
\* its upsert.
StoreRating(r) ==
  /\ rq[r].pc = "rating"
  /\ Inserted(r)
  /\ rel' = Upgraded(rel)
  /\ Resume(r, "relating", rel', IF rel' = rel THEN None ELSE rel'.tier, NoReading)
  /\ UNCHANGED <<points, trust, relRow, trustRow, quota, faults>>

\* a slip: the record is handed to the upsert, which reads the dates when it runs
RowToStoreTorn(r) == [rel EXCEPT !.tier = rq[r].row.tier]

RowToStore(r) == rq[r].row

\* upsert_relationship runs in the database, with what was captured for it.
StoreRelation(r) ==
  /\ rq[r].pc = "relating"
  /\ relRow' = RowToStore(r)
  /\ Resume(r, "related", rq[r].row, rq[r].newTier, NoReading)
  /\ UNCHANGED <<memory, ratings, trustRow, quota, faults>>

\* What getTrust and getTrustBreakdown return about an agent.
ReadingOf(g) ==
  [n |-> points[g].n,
   stars |-> IF points[g].n < MinPoints THEN 0 ELSE points[g].stars,
   composite |-> trust[g]]

\* Next come the agents' badges, if checkUpgrade reported a tier, or their trust.
ReadTrust(r) ==
  /\ rq[r].pc = "related"
  /\ Resume(r, IF rq[r].newTier # None THEN "badge" ELSE "trusting",
            rq[r].row, rq[r].newTier, ReadingOf(rq[r].agent))
  /\ UNCHANGED <<memory, tables, quota, faults>>

\* The last statement of the request.  update_agent_tier would write a tier's name
\* where ck_tier_badge admits 'new_agent' or digits (002_team_b.sql:96-98): it is
\* refused and the request fails before upsert_trust_score.
StoreTrust(r) ==
  /\ rq[r].pc \in {"badge", "trusting"}
  /\ trustRow' = IF rq[r].pc = "badge" THEN trustRow
                 ELSE [trustRow EXCEPT ![rq[r].agent] = rq[r].reading]
  /\ Finish(r)
  /\ UNCHANGED <<memory, ratings, relRow, quota, faults>>

HandlerFails(r) ==
  /\ rq[r] # Idle
  /\ Fault
  /\ Finish(r)
  /\ UNCHANGED <<memory, tables, quota>>

\* init_singletons makes an empty ScoreManager; no table is read into it.
Restart ==
  /\ Fault
  /\ points' = [g \in Agent |-> NoPoints]
  /\ trust' = [g \in Agent |-> None]
  /\ rel' = Stranger
  /\ rq' = [r \in Request |-> Idle]
  /\ UNCHANGED <<tables, quota>>

----------------------------------------------------------------------------
Continue(r) == StoreRating(r) \/ StoreRelation(r) \/ ReadTrust(r) \/ StoreTrust(r)

Next ==
  \/ \E r \in Request, d \in Date, p \in Rater, g \in Agent, s \in Stars : Rate(r, d, p, g, s)
  \/ \E r \in Request : Continue(r)
  \/ \E r \in Request : HandlerFails(r)
  \/ Restart

Spec == Init /\ [][Next]_vars

\* The event loop resumes a handler whose statement has been answered.
Fairness == \A r \in Request : WF_vars(Continue(r))

FairSpec == Spec /\ Fairness

----------------------------------------------------------------------------
(* Properties                                                              *)

\* The tier is a function of the successful dates: checkUpgrade climbs one step
\* at a time, and is called often enough never to fall behind.
TierFor(n) == IF n < AcquaintanceDates THEN "stranger"
              ELSE IF n < ColleagueDates THEN "acquaintance" ELSE "colleague"

TierFollowsDates == rel.tier = TierFor(rel.n)

\* The second checkUpgrade never reports a tier, whatever other requests do between
\* the two, so the badge the schema would refuse is never written
\* (date_handler.py:284, 300, 308-310; 002_team_b.sql:96-98).
BadgeWriteUnreachable == \A r \in Request : rq[r].pc # "badge"

\* A stored relationship is one reading of the record, never the dates of one moment
\* with the tier of another (date_handler.py:299-307).
RowIsOneReading == relRow.tier = TierFor(relRow.n)

\* "data_point_count < 5: composite = NULL" (002_team_b.sql:239): the row agrees with
\* itself although count and composite come from different structures in memory.
NewAgentHasNoComposite ==
  \A g \in Agent : trustRow[g].composite = None <=> trustRow[g].n < MinPoints

\* Unless something fails, a rating that counts in memory reaches its table.
RatingIsStored ==
  \A r \in Request, d \in Date, p \in Rater, g \in Agent :
    (rq[r].pc = "rating" /\ <<rq[r].date, rq[r].rater, rq[r].agent>> = <<d, p, g>>)
      ~> (<<d, p, g>> \in ratings \/ faults > 0)

----------------------------------------------------------------------------
(* What the documents say, and the code does not do                        *)

\* "An owner cannot rate the same agent twice for the same date"
\* (002_team_b.sql:391): then no agent has more points than ratings.
RatingCountedOnce ==
  \A g \in Agent :
    points[g].n <= Cardinality({k \in ratings : k[3] = g})
                   + Cardinality({r \in Request : rq[r].pc = "rating" /\ rq[r].agent = g})

\* "COLLEAGUE -> TRUSTED_PARTNER: 10 successful dates and a mean rating of 4.0 of 5.0"
\* (models/requirements.md:209).
TrustedPartnerReached ==
  rel.n >= PartnerDates /\ rel.stars >= 4 * rel.n => rel.tier = "trusted_partner"

\* "No tier downgrade" (db/requirements_B.md:291).
Rank == [stranger |-> 0, acquaintance |-> 1, colleague |-> 2, trusted_partner |-> 3]
StoredTierNeverDrops == [][Rank[relRow'.tier] >= Rank[relRow.tier]]_vars

=============================================================================
