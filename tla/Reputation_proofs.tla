-------------------------- MODULE Reputation_proofs --------------------------
(***************************************************************************)
(* Proofs about Reputation, for every number of agents, ratings, requests, *)
(* failures and restarts, and for all thresholds in the order the code     *)
(* gives them: first the invariants that hold whatever fails, then what    *)
(* the tables hold of memory as long as nothing does.                      *)
(***************************************************************************)
EXTENDS Reputation, TLAPS

\* A relationship whose tier has kept up with its dates, as ratings of at most five
\* stars leave it.
InStep(rl) ==
  /\ rl \in Relationship
  /\ rl.tier = TierFor(rl.n)
  /\ rl.stars <= 5 * rl.n

ReadingOk(rd) ==
  /\ rd \in Reading
  /\ rd.composite = None <=> rd.n < MinPoints

HandlerOk(h) ==
  /\ h \in Handler
  /\ h.pc # "badge" /\ h.newTier = None
  /\ InStep(h.row) /\ ReadingOk(h.reading)

TrustOk(g) == points[g] \in Points /\ trust[g] = Cached(points[g])

\* The inductive invariant: memory, every captured value and every row are in step.
\* The captured ones are part of it because statements may run in any order.
IInv ==
  /\ TypeOK
  /\ InStep(rel)
  /\ InStep(relRow)
  /\ \A g \in Agent : TrustOk(g) /\ ReadingOk(trustRow[g])
  /\ \A r \in Request : HandlerOk(rq[r])

----------------------------------------------------------------------------
(* checkUpgrade                                                            *)

LEMMA StrangerInStep == InStep(Stranger)
BY ThresholdAssumption DEF InStep, Stranger, Relationship, Tier, TierFor

\* checkUpgrade has nothing to do on a relationship that is in step.
LEMMA NothingToUpgrade ==
  ASSUME NEW rl, InStep(rl) PROVE Upgraded(rl) = rl
<1>1. rl \in Relationship /\ rl.n \in Nat /\ rl.stars \in Nat
  BY DEF InStep, Relationship
<1>2. NextTier(rl) = rl.tier
  BY <1>1, ThresholdAssumption DEF InStep, NextTier, TierFor
<1>3. [rl EXCEPT !.tier = rl.tier] = rl
  BY <1>1 DEF Relationship
<1>4. QED
  BY <1>2, <1>3 DEF Upgraded

\* One more date, and checkUpgrade: the tier has kept up.
LEMMA RatedInStep ==
  ASSUME NEW rl, InStep(rl), NEW s \in 1..5 PROVE InStep(Rated(rl, s))
<1> DEFINE rc == Recorded(rl, s)
<1>1. rl \in Relationship /\ rl.n \in Nat /\ rl.stars \in Nat /\ rl.tier \in Tier
  BY DEF InStep, Relationship
<1>2. /\ rc \in Relationship
      /\ rc.n = rl.n + 1 /\ rc.stars = rl.stars + s /\ rc.tier = rl.tier
  BY <1>1 DEF Recorded, Relationship
<1>3. rc.stars <= 5 * rc.n
  BY <1>1, <1>2 DEF InStep
<1>4. NextTier(rc) = TierFor(rc.n)
  <2>1. rc.tier = TierFor(rl.n)
    BY <1>2 DEF InStep
  <2>2. ~(rc.stars >= 4 * 5 * rc.n)
    BY <1>1, <1>2, <1>3
  <2> HIDE DEF rc
  <2>3. QED
    BY <1>1, <1>2, <2>1, <2>2, ThresholdAssumption DEF NextTier, TierFor
<1>5. NextTier(rc) \in Tier
  BY <1>4 DEF TierFor, Tier
<1>6. /\ Rated(rl, s) \in Relationship
      /\ Rated(rl, s).n = rc.n /\ Rated(rl, s).stars = rc.stars
      /\ Rated(rl, s).tier = NextTier(rc)
  <2>1. Rated(rl, s) = [rc EXCEPT !.tier = NextTier(rc)]
    BY DEF Rated, Upgraded
  <2> HIDE DEF rc
  <2>2. QED
    BY <1>2, <1>5, <2>1 DEF Relationship
<1>7. QED
  BY <1>3, <1>4, <1>6 DEF InStep

----------------------------------------------------------------------------
(* Trust                                                                   *)

LEMMA CachedTypes ==
  ASSUME NEW p \in Points
  PROVE  /\ Cached(p) \in Nat \cup {None}
         /\ Cached(p) = None <=> p.n < MinPoints
BY NoneAssumption, ThresholdAssumption DEF Cached, Composite, Points

LEMMA NoPointsOk == NoPoints \in Points /\ Cached(NoPoints) = None /\ ReadingOk(NoReading)
BY NoneAssumption, ThresholdAssumption
   DEF NoPoints, Points, Cached, ReadingOk, NoReading, Reading

LEMMA ReadingOfOk ==
  ASSUME NEW g \in Agent, TrustOk(g)
  PROVE  ReadingOk(ReadingOf(g))
<1>1. points[g].n \in Nat /\ points[g].stars \in Nat
  BY DEF TrustOk, Points
<1>2. trust[g] \in Nat \cup {None} /\ (trust[g] = None <=> points[g].n < MinPoints)
  BY CachedTypes DEF TrustOk
<1>3. QED
  BY <1>1, <1>2 DEF ReadingOf, ReadingOk, Reading

----------------------------------------------------------------------------
(* The handlers                                                            *)

LEMMA IdleOk == HandlerOk(Idle)
BY StrangerInStep, NoPointsOk DEF HandlerOk, Idle, At, Handler

LEMMA BusyHandler ==
  ASSUME NEW h \in Handler, h.pc # "idle"
  PROVE  h.date \in Date /\ h.rater \in Rater /\ h.agent \in Agent
BY DEF Handler, Idle, At

LEMMA HandlersStep ==
  ASSUME IInv, NEW r \in Request, NEW new, HandlerOk(new), rq' = [rq EXCEPT ![r] = new]
  PROVE  /\ rq' \in [Request -> Handler]
         /\ \A q \in Request : HandlerOk(rq'[q])
<1>1. new \in Handler
  BY DEF HandlerOk
<1>2. QED
  BY <1>1 DEF IInv, TypeOK

LEMMA ResumeStep ==
  ASSUME IInv, NEW r \in Request, rq[r].pc # "idle",
         NEW pc \in {"relating", "related", "trusting"},
         NEW row, InStep(row), NEW reading, ReadingOk(reading),
         Resume(r, pc, row, None, reading)
  PROVE  /\ rq' \in [Request -> Handler]
         /\ \A q \in Request : HandlerOk(rq'[q])
<1> DEFINE new == [pc |-> pc, date |-> rq[r].date, rater |-> rq[r].rater,
                   agent |-> rq[r].agent, row |-> row, newTier |-> None,
                   reading |-> reading]
<1>1. rq[r].date \in Date /\ rq[r].rater \in Rater /\ rq[r].agent \in Agent
  BY BusyHandler DEF IInv, HandlerOk
<1>2. row \in Relationship /\ reading \in Reading
  BY DEF InStep, ReadingOk
<1>3. HandlerOk(new)
  BY <1>1, <1>2 DEF HandlerOk, Handler
<1>4. rq' = [rq EXCEPT ![r] = new]
  BY DEF Resume
<1> HIDE DEF new
<1>5. QED
  BY <1>3, <1>4, HandlersStep

LEMMA RateStep ==
  ASSUME IInv, NEW r \in Request, NEW d \in Date, NEW p \in Rater, NEW g \in Agent,
         NEW s \in Stars, Rate(r, d, p, g, s)
  PROVE  IInv'
<1>1. s \in 1..5
  BY StarsAssumption
<1>2. InStep(rel')
  BY <1>1, RatedInStep DEF IInv, Rate
<1>3. AddPoint(points[g], s) \in Points
  <2>1. points[g] \in Points
    BY DEF IInv, TrustOk
  <2>2. points[g].n + 1 \in Nat /\ points[g].stars + s \in Nat
    BY <1>1, <2>1 DEF Points
  <2>3. QED
    BY <2>2 DEF AddPoint, Points
<1>4. /\ points' = [points EXCEPT ![g] = AddPoint(points[g], s)]
      /\ trust' = [trust EXCEPT ![g] = Cached(AddPoint(points[g], s))]
  BY DEF Rate, IInv, TypeOK
<1>5. ASSUME NEW h \in Agent PROVE TrustOk(h)'
  <2>1. CASE h = g
    <3>1. points'[h] = AddPoint(points[g], s) /\ trust'[h] = Cached(AddPoint(points[g], s))
      BY <1>4, <2>1 DEF IInv, TypeOK
    <3>2. QED
      BY <1>3, <3>1 DEF TrustOk
  <2>2. CASE h # g
    <3>1. points'[h] = points[h] /\ trust'[h] = trust[h]
      BY <1>4, <2>2 DEF IInv, TypeOK
    <3>2. QED
      BY <3>1 DEF IInv, TrustOk
  <2>3. QED
    BY <2>1, <2>2
<1>6. HandlerOk(At("rating", d, p, g))
  BY StrangerInStep, NoPointsOk DEF HandlerOk, At, Handler, InStep, ReadingOk
<1>7. rq' \in [Request -> Handler] /\ \A q \in Request : HandlerOk(rq'[q])
  BY <1>6, HandlersStep DEF Rate
<1>8. quota' \in 0..MaxRatings
  BY LimitAssumption DEF IInv, TypeOK, Rate
<1>9. /\ points' \in [Agent -> Points]
      /\ trust' \in [Agent -> Nat \cup {None}]
  BY <1>3, <1>4, CachedTypes DEF IInv, TypeOK
<1>10. TypeOK'
  BY <1>2, <1>7, <1>8, <1>9 DEF IInv, TypeOK, Rate, tables, InStep
<1>11. InStep(relRow)' /\ \A h \in Agent : ReadingOk(trustRow'[h])
  BY DEF IInv, Rate, tables
<1>12. QED
  BY <1>2, <1>5, <1>7, <1>10, <1>11 DEF IInv

LEMMA StoreRatingStep ==
  ASSUME IInv, NEW r \in Request, StoreRating(r)
  PROVE  IInv'
<1>1. rel' = rel
  BY NothingToUpgrade DEF IInv, StoreRating
<1>2. Resume(r, "relating", rel, None, NoReading)
  BY <1>1 DEF StoreRating
<1>3. rq' \in [Request -> Handler] /\ \A q \in Request : HandlerOk(rq'[q])
  BY <1>2, NoPointsOk, ResumeStep DEF IInv, StoreRating
<1>4. rq[r].date \in Date /\ rq[r].rater \in Rater /\ rq[r].agent \in Agent
  BY BusyHandler DEF IInv, StoreRating, HandlerOk
<1>5. ratings' \subseteq Date \X Rater \X Agent
  BY <1>4 DEF IInv, TypeOK, StoreRating, Inserted
<1>6. TypeOK'
  BY <1>1, <1>3, <1>5 DEF IInv, TypeOK, StoreRating
<1>7. QED
  BY <1>1, <1>3, <1>6 DEF IInv, StoreRating, TrustOk

LEMMA StoreRelationStep ==
  ASSUME IInv, NEW r \in Request, StoreRelation(r)
  PROVE  IInv'
<1>1. InStep(rq[r].row) /\ rq[r].newTier = None /\ rq[r].pc = "relating"
  BY DEF IInv, StoreRelation, HandlerOk
<1>2. InStep(relRow')
  BY <1>1 DEF StoreRelation, RowToStore
<1>3. rq' \in [Request -> Handler] /\ \A q \in Request : HandlerOk(rq'[q])
  BY <1>1, NoPointsOk, ResumeStep DEF StoreRelation
<1>4. TypeOK'
  BY <1>2, <1>3 DEF IInv, TypeOK, StoreRelation, memory, InStep
<1>5. QED
  BY <1>2, <1>3, <1>4 DEF IInv, StoreRelation, memory, TrustOk

LEMMA ReadTrustStep ==
  ASSUME IInv, NEW r \in Request, ReadTrust(r)
  PROVE  IInv'
<1>1. InStep(rq[r].row) /\ rq[r].newTier = None /\ rq[r].pc = "related"
  BY DEF IInv, ReadTrust, HandlerOk
<1>2. rq[r].agent \in Agent
  BY <1>1, BusyHandler DEF IInv, HandlerOk
<1>3. ReadingOk(ReadingOf(rq[r].agent))
  BY <1>2, ReadingOfOk DEF IInv
<1>4. Resume(r, "trusting", rq[r].row, None, ReadingOf(rq[r].agent))
  BY <1>1 DEF ReadTrust
<1>5. rq' \in [Request -> Handler] /\ \A q \in Request : HandlerOk(rq'[q])
  BY <1>1, <1>3, <1>4, ResumeStep
<1>6. TypeOK'
  BY <1>5 DEF IInv, TypeOK, ReadTrust, memory, tables
<1>7. QED
  BY <1>5, <1>6 DEF IInv, ReadTrust, memory, tables, TrustOk

LEMMA FinishStep ==
  ASSUME IInv, NEW r \in Request, Finish(r)
  PROVE  /\ rq' \in [Request -> Handler]
         /\ \A q \in Request : HandlerOk(rq'[q])
BY IdleOk, HandlersStep DEF Finish

LEMMA StoreTrustStep ==
  ASSUME IInv, NEW r \in Request, StoreTrust(r)
  PROVE  IInv'
<1>1. HandlerOk(rq[r]) /\ rq[r].pc = "trusting" /\ rq[r].agent \in Agent
  BY BusyHandler DEF IInv, StoreTrust, HandlerOk
<1>2. trustRow' = [trustRow EXCEPT ![rq[r].agent] = rq[r].reading]
  BY <1>1 DEF StoreTrust
<1>3. ReadingOk(rq[r].reading) /\ rq[r].reading \in Reading
  BY <1>1 DEF HandlerOk, ReadingOk
<1>4. \A g \in Agent : ReadingOk(trustRow'[g])
  BY <1>1, <1>2, <1>3 DEF IInv, TypeOK
<1>5. trustRow' \in [Agent -> Reading]
  BY <1>1, <1>2, <1>3 DEF IInv, TypeOK
<1>6. rq' \in [Request -> Handler] /\ \A q \in Request : HandlerOk(rq'[q])
  BY FinishStep DEF StoreTrust
<1>7. TypeOK'
  BY <1>5, <1>6 DEF IInv, TypeOK, StoreTrust, memory
<1>8. QED
  BY <1>4, <1>6, <1>7 DEF IInv, StoreTrust, memory, TrustOk

LEMMA FailureStep ==
  ASSUME IInv, Restart \/ \E r \in Request : HandlerFails(r)
  PROVE  IInv'
<1>1. ASSUME Fault PROVE faults' \in 0..MaxFaults
  BY <1>1, LimitAssumption DEF Fault, IInv, TypeOK
<1>2. ASSUME NEW r \in Request, HandlerFails(r) PROVE IInv'
  <2>1. rq' \in [Request -> Handler] /\ \A q \in Request : HandlerOk(rq'[q])
    BY <1>2, FinishStep DEF HandlerFails
  <2>2. TypeOK'
    BY <1>1, <1>2, <2>1 DEF IInv, TypeOK, HandlerFails, memory, tables
  <2>3. QED
    BY <1>2, <2>1, <2>2 DEF IInv, HandlerFails, memory, tables, TrustOk
<1>3. CASE Restart
  <2>1. rq' \in [Request -> Handler] /\ \A q \in Request : HandlerOk(rq'[q])
    BY <1>3, IdleOk DEF Restart, HandlerOk
  <2>2. InStep(rel')
    BY <1>3, StrangerInStep DEF Restart
  <2>3. \A g \in Agent : TrustOk(g)'
    BY <1>3, NoPointsOk DEF Restart, TrustOk
  <2>4. TypeOK'
    BY <1>1, <1>3, <2>1, <2>2, NoPointsOk DEF IInv, TypeOK, Restart, tables, InStep
  <2>5. QED
    BY <1>3, <2>1, <2>2, <2>3, <2>4 DEF IInv, Restart, tables
<1>4. QED
  BY <1>2, <1>3

----------------------------------------------------------------------------
LEMMA InitIInv == Init => IInv
<1> SUFFICES ASSUME Init PROVE IInv
  OBVIOUS
<1>1. InStep(rel) /\ InStep(relRow)
  BY StrangerInStep DEF Init
<1>2. \A g \in Agent : TrustOk(g) /\ ReadingOk(trustRow[g])
  BY NoPointsOk DEF Init, TrustOk
<1>3. \A r \in Request : HandlerOk(rq[r])
  BY IdleOk DEF Init
<1>4. TypeOK
  BY <1>1, IdleOk, NoPointsOk, LimitAssumption
     DEF Init, TypeOK, InStep, HandlerOk, ReadingOk
<1>5. QED
  BY <1>1, <1>2, <1>3, <1>4 DEF IInv

LEMMA NextIInv == IInv /\ [Next]_vars => IInv'
<1> SUFFICES ASSUME IInv, [Next]_vars PROVE IInv'
  OBVIOUS
<1>1. CASE UNCHANGED vars
  BY <1>1 DEF IInv, TypeOK, TrustOk, vars, memory, tables
<1>2. QED
  BY <1>1, RateStep, StoreRatingStep, StoreRelationStep, ReadTrustStep, StoreTrustStep,
     FailureStep DEF Next, Continue

\* The inductive invariant holds throughout, failures and restarts included.
THEOREM Invariance == Spec => []IInv
BY InitIInv, NextIInv, PTL DEF Spec

\* Every variable keeps its type.
THEOREM TypeCorrect == Spec => []TypeOK
<1>1. IInv => TypeOK
  BY DEF IInv
<1>2. QED
  BY Invariance, <1>1, PTL

\* The tier in memory is a function of the dates, and never "trusted_partner":
\* ratings count as a fifth of their stars (date_handler.py:279-284).
THEOREM TierIsFunctionOfDates == Spec => []TierFollowsDates
<1>1. IInv => TierFollowsDates
  BY DEF IInv, InStep, TierFollowsDates
<1>2. QED
  BY Invariance, <1>1, PTL

\* No interleaving of requests lets the second checkUpgrade report a tier, so
\* update_agent_tier, which the schema would refuse, is dead (date_handler.py:308-310).
THEOREM BadgeWriteIsDead == Spec => []BadgeWriteUnreachable
<1>1. IInv => BadgeWriteUnreachable
  BY DEF IInv, HandlerOk, BadgeWriteUnreachable
<1>2. QED
  BY Invariance, <1>1, PTL

\* Upserts may overtake each other, but each writes dates and tier of one moment.
THEOREM RowsAreReadings == Spec => []RowIsOneReading
<1>1. IInv => RowIsOneReading
  BY DEF IInv, InStep, RowIsOneReading
<1>2. QED
  BY Invariance, <1>1, PTL

\* A stored trust score is NULL exactly for an agent stored with too few points.
THEOREM NullForNewAgents == Spec => []NewAgentHasNoComposite
<1>1. IInv => NewAgentHasNoComposite
  BY DEF IInv, ReadingOk, NewAgentHasNoComposite
<1>2. QED
  BY Invariance, <1>1, PTL

----------------------------------------------------------------------------
(* What the findings come to, for every number of ratings and requests.    *)

\* The last tier is out of reach, in memory and in the table: a mean of stars / 5 is
\* at most 1, and checkUpgrade asks for 4 (date_handler.py:282,
\* score_manager.py:278, 294).
NeverPartner == rel.tier # "trusted_partner" /\ relRow.tier # "trusted_partner"

THEOREM PartnerUnreachable == Spec => []NeverPartner
<1>1. IInv => NeverPartner
  BY DEF IInv, InStep, TierFor, NeverPartner
<1>2. QED
  BY Invariance, <1>1, PTL

LEMMA RankGrows ==
  ASSUME NEW m \in Nat, NEW n \in Nat, m <= n PROVE Rank[TierFor(m)] <= Rank[TierFor(n)]
BY ThresholdAssumption DEF Rank, TierFor

LEMMA RatedCounts ==
  ASSUME NEW rl \in Relationship, NEW s PROVE Rated(rl, s).n = rl.n + 1
BY DEF Rated, Upgraded, Recorded, Relationship

\* What a step that is no failure is.
LEMMA Unfailing ==
  ASSUME IInv, [Next]_vars, faults' = 0
  PROVE  /\ faults = 0
         /\ \/ UNCHANGED vars
            \/ \E r \in Request, d \in Date, p \in Rater, g \in Agent, s \in Stars :
                 Rate(r, d, p, g, s)
            \/ \E r \in Request : Continue(r)
<1>1. faults \in Nat
  BY LimitAssumption DEF IInv, TypeOK
<1>2. ~Fault
  BY <1>1 DEF Fault
<1>3. QED
  BY <1>2 DEF Next, HandlerFails, Restart, Continue, Rate, StoreRating, StoreRelation,
              ReadTrust, StoreTrust, vars

\* Until something fails, memory only gains dates and points.
LEMMA MemoryGrows ==
  ASSUME IInv, [Next]_vars, faults' = 0
  PROVE  /\ rel.n \in Nat /\ rel'.n \in Nat /\ rel.n <= rel'.n
         /\ \A g \in Agent : /\ points[g].n \in Nat /\ points'[g].n \in Nat
                             /\ points[g].n <= points'[g].n
<1>1. rel \in Relationship /\ rel' \in Relationship /\ rel.n \in Nat /\ rel'.n \in Nat
  BY NextIInv DEF IInv, TypeOK, Relationship
<1>2. ASSUME NEW g \in Agent PROVE points[g].n \in Nat /\ points'[g].n \in Nat
  BY NextIInv DEF IInv, TypeOK, Points
<1>3. ASSUME NEW r \in Request, NEW d \in Date, NEW p \in Rater, NEW h \in Agent,
             NEW s \in Stars, Rate(r, d, p, h, s)
      PROVE  rel.n <= rel'.n /\ \A g \in Agent : points[g].n <= points'[g].n
  <2>1. rel'.n = rel.n + 1
    BY <1>1, <1>3, RatedCounts DEF Rate
  <2>2. points' = [points EXCEPT ![h] = AddPoint(points[h], s)] /\ points \in [Agent -> Points]
    BY <1>3 DEF Rate, IInv, TypeOK
  <2>3. AddPoint(points[h], s).n = points[h].n + 1
    BY DEF AddPoint
  <2>4. ASSUME NEW g \in Agent PROVE points[g].n <= points'[g].n
    <3>1. CASE g = h
      BY <1>2, <2>2, <2>3, <3>1
    <3>2. CASE g # h
      BY <1>2, <2>2, <3>2
    <3>3. QED
      BY <3>1, <3>2
  <2>5. QED
    BY <1>1, <2>1, <2>4
<1>4. ASSUME NEW r \in Request, Continue(r) PROVE rel' = rel /\ points' = points
  BY <1>4, NothingToUpgrade
     DEF Continue, StoreRating, StoreRelation, ReadTrust, StoreTrust, IInv, memory
<1>5. QED
  BY <1>1, <1>2, <1>3, <1>4, Unfailing DEF vars, memory

\* The tier an agent pair sees in memory is lost to a restart and to nothing else.
TierDropsAtRestart == [][Rank[rel'.tier] >= Rank[rel.tier] \/ faults' # 0]_vars

THEOREM TiersClimb == Spec => TierDropsAtRestart
<1>1. ASSUME IInv, [Next]_vars, faults' = 0 PROVE Rank[rel'.tier] >= Rank[rel.tier]
  <2>1. rel.tier = TierFor(rel.n) /\ rel'.tier = TierFor(rel'.n)
    BY <1>1, NextIInv DEF IInv, InStep
  <2>2. PICK m \in Nat, n \in Nat : m = rel.n /\ n = rel'.n /\ m <= n
    BY <1>1, MemoryGrows
  <2>3. Rank[TierFor(m)] <= Rank[TierFor(n)]
    BY <2>2, RankGrows
  <2>4. Rank[TierFor(m)] \in Nat /\ Rank[TierFor(n)] \in Nat
    BY DEF Rank, TierFor
  <2>5. QED
    BY <2>1, <2>2, <2>3, <2>4
<1>2. IInv /\ [Next]_vars => (Rank[rel'.tier] >= Rank[rel.tier] \/ faults' # 0)
  BY <1>1
<1>3. QED
  BY Invariance, <1>2, PTL DEF Spec, TierDropsAtRestart

----------------------------------------------------------------------------
(* What the tables hold of memory.                                         *)

\* Until something fails, no row and no value on its way to one is ahead of memory.
StoredIsPast ==
  faults = 0 => /\ relRow.n <= rel.n
                /\ \A g \in Agent : trustRow[g].n <= points[g].n

PastOk(h) ==
  /\ h.row.n <= rel.n
  /\ h.pc # "idle" => h.reading.n <= points[h.agent].n

PastInv == StoredIsPast /\ (faults = 0 => \A r \in Request : PastOk(rq[r]))

LEMMA CountsAreNumbers ==
  ASSUME IInv
  PROVE  /\ rel.n \in Nat /\ relRow.n \in Nat
         /\ \A g \in Agent : trustRow[g].n \in Nat /\ points[g].n \in Nat
         /\ \A r \in Request : rq[r].row.n \in Nat /\ rq[r].reading.n \in Nat
<1>1. ASSUME NEW r \in Request PROVE rq[r].row.n \in Nat /\ rq[r].reading.n \in Nat
  <2>1. rq[r].row \in Relationship /\ rq[r].reading \in Reading
    BY DEF IInv, HandlerOk, InStep, ReadingOk
  <2>2. QED
    BY <2>1 DEF Relationship, Reading
<1>2. \A g \in Agent : trustRow[g].n \in Nat /\ points[g].n \in Nat
  BY DEF IInv, TypeOK, Reading, Points
<1>3. rel.n \in Nat /\ relRow.n \in Nat
  BY DEF IInv, TypeOK, Relationship
<1>4. QED
  BY <1>1, <1>2, <1>3

LEMMA BusyAgent ==
  ASSUME IInv, NEW r \in Request, rq[r].pc # "idle"
  PROVE  rq[r].agent \in Agent
BY BusyHandler DEF IInv, HandlerOk

LEMMA PastHandlers ==
  ASSUME IInv, [Next]_vars, faults' = 0, \A q \in Request : PastOk(rq[q]),
         NEW r \in Request, NEW new, rq' = [rq EXCEPT ![r] = new],
         new.row.n <= rel'.n,
         new.pc # "idle" => new.reading.n <= points'[new.agent].n
  PROVE  \A q \in Request : PastOk(rq[q])'
<1> SUFFICES ASSUME NEW q \in Request PROVE PastOk(rq[q])'
  OBVIOUS
<1>1. CASE q = r
  <2>1. rq'[q] = new
    BY <1>1 DEF IInv, TypeOK
  <2>2. QED
    BY <2>1 DEF PastOk
<1>2. CASE q # r
  <2>1. rq'[q] = rq[q]
    BY <1>2 DEF IInv, TypeOK
  <2>2. rq[q].row.n <= rel'.n
    BY MemoryGrows, CountsAreNumbers DEF PastOk
  <2>3. ASSUME rq[q].pc # "idle" PROVE rq[q].reading.n <= points'[rq[q].agent].n
    BY <2>3, BusyAgent, MemoryGrows, CountsAreNumbers DEF PastOk
  <2>4. QED
    BY <2>1, <2>2, <2>3 DEF PastOk
<1>3. QED
  BY <1>1, <1>2

LEMMA PastStep ==
  ASSUME IInv, PastInv, [Next]_vars PROVE PastInv'
<1> SUFFICES ASSUME faults' = 0
             PROVE  /\ relRow'.n <= rel'.n
                    /\ \A g \in Agent : trustRow'[g].n <= points'[g].n
                    /\ \A q \in Request : PastOk(rq[q])'
  BY DEF PastInv, StoredIsPast
<1>1. /\ faults = 0 /\ relRow.n <= rel.n
      /\ \A g \in Agent : trustRow[g].n <= points[g].n
      /\ \A q \in Request : PastOk(rq[q])
  BY Unfailing DEF PastInv, StoredIsPast
<1>2. relRow.n <= rel'.n /\ \A g \in Agent : trustRow[g].n <= points'[g].n
  BY <1>1, MemoryGrows, CountsAreNumbers
<1>3. Stranger.n = 0 /\ NoReading.n = 0 /\ Idle.pc = "idle" /\ Idle.row = Stranger
  BY DEF Stranger, NoReading, Idle, At
<1>4. rel'.n \in Nat /\ \A g \in Agent : points'[g].n \in Nat
  BY MemoryGrows
<1>5. CASE UNCHANGED vars
  BY <1>1, <1>5 DEF vars, memory, tables, PastOk
<1>6. ASSUME NEW r \in Request, NEW d \in Date, NEW p \in Rater, NEW g \in Agent,
             NEW s \in Stars, Rate(r, d, p, g, s)
      PROVE  relRow' = relRow /\ trustRow' = trustRow /\ \A q \in Request : PastOk(rq[q])'
  <2> DEFINE new == At("rating", d, p, g)
  <2>1. rq' = [rq EXCEPT ![r] = new] /\ relRow' = relRow /\ trustRow' = trustRow
    BY <1>6 DEF Rate, tables
  <2>2. new.row.n = 0 /\ new.reading.n = 0 /\ new.agent = g
    BY <1>3 DEF At
  <2> HIDE DEF new
  <2>3. new.row.n <= rel'.n /\ new.reading.n <= points'[new.agent].n
    BY <1>4, <2>2
  <2>4. QED
    BY <1>1, <2>1, <2>3, PastHandlers
<1>7. ASSUME NEW r \in Request, NEW pc, NEW row, NEW newTier, NEW reading,
             Resume(r, pc, row, newTier, reading), row.n <= rel'.n,
             reading.n <= points'[rq[r].agent].n
      PROVE  \A q \in Request : PastOk(rq[q])'
  <2> DEFINE new == [pc |-> pc, date |-> rq[r].date, rater |-> rq[r].rater,
                     agent |-> rq[r].agent, row |-> row, newTier |-> newTier,
                     reading |-> reading]
  <2>1. rq' = [rq EXCEPT ![r] = new]
    BY <1>7 DEF Resume
  <2>2. new.row.n <= rel'.n /\ new.reading.n <= points'[new.agent].n
    BY <1>7
  <2> HIDE DEF new
  <2>3. QED
    BY <1>1, <2>1, <2>2, PastHandlers
<1>8. ASSUME NEW r \in Request, StoreRating(r)
      PROVE  relRow' = relRow /\ trustRow' = trustRow /\ \A q \in Request : PastOk(rq[q])'
  <2>1. rq[r].agent \in Agent
    BY <1>8, BusyAgent DEF StoreRating
  <2>2. QED
    BY <1>3, <1>4, <1>7, <1>8, <2>1 DEF StoreRating
<1>9. ASSUME NEW r \in Request, StoreRelation(r)
      PROVE  /\ relRow'.n <= rel'.n /\ trustRow' = trustRow
             /\ \A q \in Request : PastOk(rq[q])'
  <2>1. rq[r].agent \in Agent
    BY <1>9, BusyAgent DEF StoreRelation
  <2>2. rel' = rel /\ relRow' = rq[r].row /\ rq[r].row.n <= rel.n
    BY <1>1, <1>9 DEF StoreRelation, memory, RowToStore, PastOk
  <2>3. QED
    BY <1>3, <1>4, <1>7, <1>9, <2>1, <2>2 DEF StoreRelation
<1>10. ASSUME NEW r \in Request, ReadTrust(r)
      PROVE  relRow' = relRow /\ trustRow' = trustRow /\ \A q \in Request : PastOk(rq[q])'
  <2>1. rq[r].agent \in Agent
    BY <1>10, BusyAgent DEF ReadTrust
  <2>2. rel' = rel /\ points' = points /\ rq[r].row.n <= rel.n
    BY <1>1, <1>10 DEF ReadTrust, memory, PastOk
  <2>3. ReadingOf(rq[r].agent).n <= points'[rq[r].agent].n
    BY <1>4, <2>1, <2>2 DEF ReadingOf
  <2>4. QED
    BY <1>7, <1>10, <2>2, <2>3 DEF ReadTrust, tables
<1>11. ASSUME NEW r \in Request, StoreTrust(r)
      PROVE  /\ relRow' = relRow /\ \A g \in Agent : trustRow'[g].n <= points'[g].n
             /\ \A q \in Request : PastOk(rq[q])'
  <2>1. rq[r].agent \in Agent /\ rq[r].pc # "idle"
    BY <1>11, BusyAgent DEF StoreTrust
  <2>2. rel' = rel /\ points' = points /\ rq[r].reading.n <= points[rq[r].agent].n
    BY <1>1, <1>11, <2>1 DEF StoreTrust, memory, PastOk
  <2>3. \A g \in Agent : trustRow'[g] = trustRow[g] \/ (g = rq[r].agent /\ trustRow'[g] = rq[r].reading)
    BY <1>11 DEF StoreTrust, IInv, TypeOK
  <2>4. \A q \in Request : PastOk(rq[q])'
    <3>1. rq' = [rq EXCEPT ![r] = Idle]
      BY <1>11 DEF StoreTrust, Finish
    <3>2. Idle.row.n <= rel'.n
      BY <1>3, <1>4
    <3>3. QED
      BY <1>1, <1>3, <3>1, <3>2, PastHandlers
  <2>5. QED
    BY <1>2, <1>11, <2>2, <2>3, <2>4 DEF StoreTrust
<1>12. QED
  BY <1>1, <1>2, <1>5, <1>6, <1>8, <1>9, <1>10, <1>11, Unfailing DEF Continue

LEMMA InitPast == Init => PastInv
<1> SUFFICES ASSUME Init PROVE PastInv
  OBVIOUS
<1>1. Stranger.n = 0 /\ NoReading.n = 0 /\ NoPoints.n = 0 /\ Idle.pc = "idle" /\ Idle.row = Stranger
  BY DEF Stranger, NoReading, NoPoints, Idle, At
<1>2. QED
  BY <1>1 DEF Init, PastInv, StoredIsPast, PastOk

LEMMA PastInvariance == Spec => []PastInv
BY Invariance, InitPast, PastStep, PTL DEF Spec

\* Statements may be delayed and overtake each other, but without a failure no row
\* claims more dates or points than memory counts (date_handler.py:299-322).
THEOREM RowsAreNeverAhead == Spec => []StoredIsPast
<1>1. PastInv => StoredIsPast
  BY DEF PastInv
<1>2. QED
  BY PastInvariance, <1>1, PTL

----------------------------------------------------------------------------
(* No rating is lost without a failure.                                    *)

\* An agent who has points has a rating in the table, or one whose INSERT was issued.
CountedIsKept ==
  faults = 0 => \A g \in Agent : points[g].n > 0 =>
    \/ \E k \in ratings : k[3] = g
    \/ \E r \in Request : rq[r].pc = "rating" /\ rq[r].agent = g

LEMMA RaterGoesOn ==
  ASSUME IInv, [Next]_vars, faults' = 0, NEW q \in Request, rq[q].pc = "rating", rq'[q] # rq[q]
  PROVE  <<rq[q].date, rq[q].rater, rq[q].agent>> \in ratings'
<1>1. rq[q] # Idle
  BY DEF Idle, At
<1>2. \A r \in Request : \A x : rq' = [rq EXCEPT ![r] = x] => q = r
  BY DEF IInv, TypeOK
<1>3. ASSUME NEW r \in Request, Continue(r) PROVE q = r
  BY <1>2, <1>3 DEF Continue, StoreRating, StoreRelation, ReadTrust, StoreTrust, Resume, Finish
<1>4. ASSUME NEW r \in Request, NEW d \in Date, NEW p \in Rater, NEW g \in Agent,
             NEW s \in Stars, Rate(r, d, p, g, s)
      PROVE  FALSE
  BY <1>1, <1>2, <1>4 DEF Rate
<1>5. Continue(q)
  BY <1>3, <1>4, Unfailing DEF vars
<1>6. QED
  BY <1>5 DEF Continue, StoreRating, StoreRelation, ReadTrust, StoreTrust, Inserted

LEMMA KeptStep ==
  ASSUME IInv, CountedIsKept, [Next]_vars PROVE CountedIsKept'
<1> SUFFICES ASSUME faults' = 0, NEW g \in Agent, points'[g].n > 0
             PROVE  \/ \E k \in ratings' : k[3] = g
                    \/ \E r \in Request : rq'[r].pc = "rating" /\ rq'[r].agent = g
  BY DEF CountedIsKept
<1>1. faults = 0 /\ points[g].n \in Nat
  BY Unfailing, CountsAreNumbers
<1>2. ratings \subseteq ratings'
  BY Unfailing DEF Continue, Rate, StoreRating, StoreRelation, ReadTrust, StoreTrust, Inserted,
                   vars, tables
<1>3. CASE points[g].n > 0
  <2>1. CASE \E k \in ratings : k[3] = g
    BY <1>2, <2>1
  <2>2. ASSUME NEW r \in Request, rq[r].pc = "rating", rq[r].agent = g
        PROVE  \/ \E k \in ratings' : k[3] = g
               \/ rq'[r].pc = "rating" /\ rq'[r].agent = g
    <3>1. CASE rq'[r] = rq[r]
      BY <2>2, <3>1
    <3>2. CASE rq'[r] # rq[r]
      BY <2>2, <3>2, RaterGoesOn
    <3>3. QED
      BY <3>1, <3>2
  <2>3. QED
    BY <1>1, <1>3, <2>1, <2>2 DEF CountedIsKept
<1>4. CASE points[g].n = 0
  <2>1. points' # points
    BY <1>4
  <2>2. ~UNCHANGED vars /\ \A r \in Request : ~Continue(r)
    BY <2>1 DEF vars, memory, Continue, StoreRating, StoreRelation, ReadTrust, StoreTrust
  <2>3. PICK r \in Request, d \in Date, p \in Rater, h \in Agent, s \in Stars :
          Rate(r, d, p, h, s)
    BY <2>2, Unfailing
  <2>4. points' = [points EXCEPT ![h] = AddPoint(points[h], s)]
    BY <2>3 DEF Rate, IInv, TypeOK
  <2>5. g = h
    BY <1>4, <2>4 DEF IInv, TypeOK
  <2>6. rq'[r].pc = "rating" /\ rq'[r].agent = g
    BY <2>3, <2>5 DEF Rate, At, IInv, TypeOK
  <2>7. QED
    BY <2>6
<1>5. QED
  BY <1>1, <1>3, <1>4

\* Whatever requests overlap: without a failure no agent has points that no rating in
\* the table, or about to be there, accounts for (date_handler.py:275, 289-295).
THEOREM CountedRatingsAreKept == Spec => []CountedIsKept
<1>1. Init => CountedIsKept
  BY DEF Init, CountedIsKept, NoPoints
<1>2. QED
  BY Invariance, KeptStep, <1>1, PTL DEF Spec

----------------------------------------------------------------------------
(* Ratings that come one at a time.                                        *)

OneAtATime == \A r, q \in Request : r = q

AllIdle == \A r \in Request : rq[r].pc = "idle"

\* Between two ratings the tables say what memory says.
TablesAgree ==
  faults = 0 /\ AllIdle => relRow = rel /\ \A g \in Agent : trustRow[g] = ReadingOf(g)

\* No stored tier drops.
StoredTierClimbs == [][faults' = 0 => Rank[relRow'.tier] >= Rank[relRow.tier]]_vars

RelationHeld == (\A r \in Request : rq[r].pc \notin {"rating", "relating"}) => relRow = rel

TrustHeld(g) == \/ trustRow[g] = ReadingOf(g)
                \/ \E r \in Request : rq[r].pc # "idle" /\ rq[r].agent = g

CaptureOk(r) == /\ rq[r].pc = "relating" => rq[r].row = rel
                /\ rq[r].pc = "trusting" => rq[r].reading = ReadingOf(rq[r].agent)

InTurn ==
  faults = 0 => /\ RelationHeld
                /\ \A g \in Agent : TrustHeld(g)
                /\ \A r \in Request : CaptureOk(r)

LEMMA InTurnStep ==
  ASSUME OneAtATime, IInv, InTurn, [Next]_vars PROVE InTurn'
<1> SUFFICES ASSUME faults' = 0
             PROVE  InTurn'
  BY DEF InTurn
<1> DEFINE now == [g \in Agent |-> ReadingOf(g)']
<1>1. /\ faults = 0 /\ TypeOK
      /\ RelationHeld
      /\ \A g \in Agent : TrustHeld(g)
      /\ \A r \in Request : CaptureOk(r)
  BY Unfailing DEF InTurn, IInv
<1>2. CASE UNCHANGED vars
  BY <1>1, <1>2 DEF vars, memory, tables, ReadingOf, InTurn, RelationHeld, TrustHeld, CaptureOk
<1>3. ASSUME NEW r \in Request, NEW new, rq' = [rq EXCEPT ![r] = new],
             new.pc # "rating" /\ new.pc # "relating" => relRow' = rel',
             new.agent \in Agent \/ new.pc = "idle",
             \A g \in Agent : trustRow'[g] = now[g] \/ (new.pc # "idle" /\ new.agent = g),
             new.pc = "relating" => new.row = rel',
             new.pc = "trusting" => new.reading = now[new.agent]
      PROVE  InTurn'
  <2>1. rq'[r] = new /\ \A q \in Request : q = r
    BY <1>1, <1>3 DEF TypeOK, OneAtATime
  <2>2. RelationHeld'
    BY <1>3, <2>1 DEF RelationHeld
  <2>3. \A g \in Agent : now[g] = ReadingOf(g)'
    OBVIOUS
  <2>4. \A g \in Agent : TrustHeld(g)'
    BY <1>3, <2>1, <2>3 DEF TrustHeld
  <2>5. \A q \in Request : CaptureOk(q)'
    BY <1>3, <2>1, <2>3 DEF CaptureOk, ReadingOf
  <2>6. QED
    BY <2>2, <2>4, <2>5 DEF InTurn
<1>4. ASSUME NEW r \in Request, NEW g \in Agent
      PROVE  \/ trustRow[g] = ReadingOf(g)
             \/ rq[r].pc # "idle" /\ rq[r].agent = g
  BY <1>1 DEF OneAtATime, TrustHeld
<1>5. ASSUME NEW r \in Request, NEW d \in Date, NEW p \in Rater, NEW h \in Agent,
             NEW s \in Stars, Rate(r, d, p, h, s)
      PROVE  InTurn'
  <2> DEFINE new == At("rating", d, p, h)
  <2>1. rq' = [rq EXCEPT ![r] = new] /\ rq[r].pc = "idle" /\ trustRow' = trustRow
    BY <1>5 DEF Rate, Idle, At, tables
  <2>2. new.pc = "rating" /\ new.agent = h
    BY DEF At
  <2>3. ASSUME NEW g \in Agent, g # h PROVE trustRow'[g] = now[g]
    <3>1. points'[g] = points[g] /\ trust'[g] = trust[g]
      BY <1>1, <1>5, <2>3 DEF Rate, TypeOK
    <3>2. trustRow[g] = ReadingOf(g)
      BY <1>4, <2>1
    <3>3. QED
      BY <2>1, <3>1, <3>2 DEF ReadingOf
  <2> HIDE DEF new
  <2>4. QED
    BY <1>3, <2>1, <2>2, <2>3
<1>6. ASSUME NEW r \in Request, StoreRating(r) PROVE InTurn'
  <2> DEFINE new == [pc |-> "relating", date |-> rq[r].date, rater |-> rq[r].rater,
                     agent |-> rq[r].agent, row |-> rel',
                     newTier |-> IF rel' = rel THEN None ELSE rel'.tier,
                     reading |-> NoReading]
  <2>1. rq' = [rq EXCEPT ![r] = new]
    BY <1>6 DEF StoreRating, Resume
  <2>2. new.pc = "relating" /\ new.agent = rq[r].agent /\ new.row = rel'
    OBVIOUS
  <2>3. \A g \in Agent : trustRow'[g] = trustRow[g] /\ now[g] = ReadingOf(g)
    BY <1>6 DEF StoreRating, ReadingOf
  <2>4. rq[r].pc = "rating"
    BY <1>6 DEF StoreRating
  <2>5. rq[r].agent \in Agent
    BY <2>4, BusyAgent
  <2> HIDE DEF new
  <2>6. \A g \in Agent : trustRow'[g] = now[g] \/ (new.pc # "idle" /\ new.agent = g)
    BY <1>4, <2>2, <2>3
  <2>7. QED
    BY <1>3, <2>1, <2>2, <2>5, <2>6
<1>7. ASSUME NEW r \in Request, StoreRelation(r) PROVE InTurn'
  <2> DEFINE new == [pc |-> "related", date |-> rq[r].date, rater |-> rq[r].rater,
                     agent |-> rq[r].agent, row |-> rq[r].row, newTier |-> rq[r].newTier,
                     reading |-> NoReading]
  <2>1. rq' = [rq EXCEPT ![r] = new] /\ rq[r].pc = "relating"
    BY <1>7 DEF StoreRelation, Resume
  <2>2. new.pc = "related" /\ new.agent = rq[r].agent
    OBVIOUS
  <2>3. \A g \in Agent : trustRow'[g] = trustRow[g] /\ now[g] = ReadingOf(g)
    BY <1>7 DEF StoreRelation, ReadingOf, memory
  <2>4. relRow' = rel'
    BY <1>1, <1>7, <2>1 DEF StoreRelation, RowToStore, memory, CaptureOk
  <2>5. rq[r].agent \in Agent
    BY <2>1, BusyAgent
  <2> HIDE DEF new
  <2>6. \A g \in Agent : trustRow'[g] = now[g] \/ (new.pc # "idle" /\ new.agent = g)
    BY <1>4, <2>2, <2>3
  <2>7. QED
    BY <1>3, <2>1, <2>2, <2>4, <2>5, <2>6
<1>8. ASSUME NEW r \in Request, ReadTrust(r) PROVE InTurn'
  <2> DEFINE new == [pc |-> "trusting", date |-> rq[r].date, rater |-> rq[r].rater,
                     agent |-> rq[r].agent, row |-> rq[r].row, newTier |-> rq[r].newTier,
                     reading |-> ReadingOf(rq[r].agent)]
  <2>1. rq' = [rq EXCEPT ![r] = new] /\ rq[r].pc = "related"
    BY <1>8 DEF ReadTrust, Resume, IInv, HandlerOk
  <2>2. /\ new.pc = "trusting" /\ new.agent = rq[r].agent
        /\ new.reading = ReadingOf(rq[r].agent)
    OBVIOUS
  <2>3. \A g \in Agent : trustRow'[g] = trustRow[g] /\ now[g] = ReadingOf(g)
    BY <1>8 DEF ReadTrust, ReadingOf, memory, tables
  <2>4. relRow' = rel' /\ relRow' = relRow /\ rel' = rel
    BY <1>1, <1>8, <2>1 DEF ReadTrust, memory, tables, OneAtATime, RelationHeld
  <2>5. rq[r].agent \in Agent
    BY <2>1, BusyAgent
  <2> HIDE DEF new
  <2>6. \A g \in Agent : trustRow'[g] = now[g] \/ (new.pc # "idle" /\ new.agent = g)
    BY <1>4, <2>2, <2>3
  <2>7. now[rq[r].agent] = ReadingOf(rq[r].agent)
    BY <2>3, <2>5
  <2> HIDE DEF now
  <2>8. QED
    BY <1>3, <2>1, <2>2, <2>4, <2>5, <2>6, <2>7
<1>9. ASSUME NEW r \in Request, StoreTrust(r) PROVE InTurn'
  <2>1. rq[r].pc = "trusting" /\ rq[r].agent \in Agent
    BY <1>9, BusyAgent DEF StoreTrust, IInv, HandlerOk
  <2>2. rq' = [rq EXCEPT ![r] = Idle] /\ Idle.pc = "idle"
    BY <1>9 DEF StoreTrust, Finish, Idle, At
  <2>3. trustRow' = [trustRow EXCEPT ![rq[r].agent] = rq[r].reading]
    BY <1>9, <2>1 DEF StoreTrust
  <2>4. rq[r].reading = ReadingOf(rq[r].agent)
    BY <1>1, <2>1 DEF CaptureOk
  <2>5. \A g \in Agent : now[g] = ReadingOf(g)
    BY <1>9 DEF StoreTrust, memory, ReadingOf
  <2>6. \A g \in Agent : trustRow'[g] = now[g]
    BY <1>1, <1>4, <2>1, <2>3, <2>4, <2>5 DEF TypeOK
  <2>7. relRow' = rel'
    BY <1>1, <1>9, <2>1 DEF StoreTrust, memory, OneAtATime, RelationHeld
  <2>8. QED
    BY <1>3, <2>2, <2>6, <2>7
<1>10. QED
  BY <1>2, <1>5, <1>6, <1>7, <1>8, <1>9, Unfailing DEF Continue

LEMMA InTurnInvariance == OneAtATime /\ Spec => []InTurn
<1>1. Init => InTurn
  <2> SUFFICES ASSUME Init PROVE InTurn
    OBVIOUS
  <2>1. Idle.pc = "idle" /\ \A g \in Agent : ReadingOf(g) = NoReading
    BY ThresholdAssumption DEF Idle, At, Init, ReadingOf, NoPoints, NoReading
  <2>2. QED
    BY <2>1 DEF Init, InTurn, RelationHeld, TrustHeld, CaptureOk
<1>2. ASSUME OneAtATime PROVE IInv /\ InTurn /\ [Next]_vars => InTurn'
  BY <1>2, InTurnStep
<1>3. ASSUME OneAtATime PROVE Spec => []InTurn
  BY <1>3, Invariance, <1>1, <1>2, PTL DEF Spec
<1>4. QED
  BY <1>3

\* Without failures and overlapping ratings, memory is in the tables whenever no
\* rating is in progress (date_handler.py:286-322).
THEOREM TablesKeepUp == OneAtATime /\ Spec => []TablesAgree
<1>1. InTurn => TablesAgree
  BY DEF InTurn, RelationHeld, TrustHeld, TablesAgree, AllIdle
<1>2. QED
  BY InTurnInvariance, <1>1, PTL

\* The stored tier that drops is the work of overlapping ratings or of a failure, and
\* of nothing else in the branch (date_handler.py:299-307).
THEOREM DropsNeedOverlap == OneAtATime /\ Spec => StoredTierClimbs
<1>1. ASSUME IInv, PastInv, InTurn, [Next]_vars, faults' = 0
      PROVE  Rank[relRow'.tier] >= Rank[relRow.tier]
  <2>1. faults = 0 /\ relRow.n <= rel.n
    BY <1>1, Unfailing DEF PastInv, StoredIsPast
  <2>2. relRow' = relRow \/ relRow' = rel
    BY <1>1, <2>1, Unfailing
       DEF vars, tables, Continue, Rate, StoreRating, StoreRelation, ReadTrust, StoreTrust,
           RowToStore, InTurn, CaptureOk
  <2>3. relRow.tier = TierFor(relRow.n) /\ rel.tier = TierFor(rel.n)
    BY <1>1 DEF IInv, InStep
  <2>4. PICK m \in Nat, n \in Nat : m = relRow.n /\ n = rel.n /\ m <= n
    BY <1>1, <2>1, CountsAreNumbers
  <2>5. Rank[TierFor(m)] <= Rank[TierFor(n)]
    BY <2>4, RankGrows
  <2>6. Rank[TierFor(m)] \in Nat /\ Rank[TierFor(n)] \in Nat
    BY DEF Rank, TierFor
  <2>7. QED
    BY <2>2, <2>3, <2>4, <2>5, <2>6
<1>2. IInv /\ PastInv /\ InTurn /\ [Next]_vars =>
        (faults' = 0 => Rank[relRow'.tier] >= Rank[relRow.tier])
  BY <1>1
<1>3. QED
  BY Invariance, PastInvariance, InTurnInvariance, <1>2, PTL DEF Spec, StoredTierClimbs
=============================================================================
