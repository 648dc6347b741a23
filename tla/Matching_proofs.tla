--------------------------- MODULE Matching_proofs ---------------------------
(***************************************************************************)
(* Proofs about Matching, for every number of agents, requests, failures   *)
(* and restarts: its invariants, that it implements Introduction, and that *)
(* without failures nobody is forgotten.                                   *)
(***************************************************************************)
EXTENDS Matching, TLAPS

\* A request knows its agent, and past the scan also its target.
HandlerOk(h) ==
  /\ h.pc # "idle" => h.of \in Agent
  /\ h.pc \notin {"idle", "scanned"} => h.on \in Agent \ {h.of}

\* A request that has the match of its pair to itself: it created the row.
Owner(h) == h.pc \in {"created", "launching", "starting"}

\* How far the owner of a pair's match has got is how far the pair's history has.
OwnerOk(r) ==
  Owner(rq[r]) =>
    /\ matches[PairOf(r)] # None
    /\ sessions[PairOf(r)] = 0
    /\ announced[PairOf(r)] = IF rq[r].pc = "created" THEN 0 ELSE 1

PairOk(p) ==
  /\ matches[p] = None => announced[p] = 0 /\ sessions[p] = 0
  /\ announced[p] <= 1
  /\ sessions[p] <= announced[p]

\* The inductive invariant.  That a match has one owner at most is what makes its
\* announcement and its session unique.
IInv ==
  /\ TypeOK
  /\ \A r \in Request : HandlerOk(rq[r]) /\ OwnerOk(r)
  /\ \A r, s \in Request :
       Owner(rq[r]) /\ Owner(rq[s]) /\ r # s => PairOf(r) # PairOf(s)
  /\ \A p \in Pair : PairOk(p)

----------------------------------------------------------------------------
(* What the actions do to the table of requests and to the rest            *)

LEMMA TwoAgents ==
  ASSUME NEW x \in Agent, NEW y \in Agent \ {x} PROVE {x, y} \in Pair
BY DEF Pair

LEMMA AtTypes ==
  /\ Idle \in Await /\ HandlerOk(Idle) /\ ~Owner(Idle) /\ Idle.pc = "idle"
  /\ \A x \in Agent, y \in Agent : \A by \in {"swipe", "auto", "ai"}, pc \in {"swiped", "matching"} :
       /\ At(pc, by, x, y) \in Await
       /\ x # y => HandlerOk(At(pc, by, x, y))
       /\ ~Owner(At(pc, by, x, y)) /\ At(pc, by, x, y).pc = pc
BY DEF At, Idle, Await, HandlerOk, Owner

\* A request that is under way keeps its pair when it goes on.
LEMMA GoTypes ==
  ASSUME NEW h \in Await, NEW pc \in {"matching", "created", "launching", "starting"}
  PROVE  /\ [h EXCEPT !.pc = pc] \in Await
         /\ [h EXCEPT !.pc = pc].pc = pc
         /\ [h EXCEPT !.pc = pc].of = h.of /\ [h EXCEPT !.pc = pc].on = h.on
BY DEF Await

LEMMA OwnPair ==
  ASSUME IInv, NEW r \in Request, rq[r].pc \notin {"idle", "scanned"}
  PROVE  PairOf(r) \in Pair
BY TwoAgents DEF IInv, HandlerOk, PairOf

LEMMA InitIInv == Init => IInv
<1> SUFFICES ASSUME Init PROVE IInv
  OBVIOUS
<1>1. TypeOK
  BY AtTypes, RequestsAssumption DEF Init, TypeOK
<1>2. \A r \in Request : rq[r] = Idle
  BY DEF Init
<1>3. \A p \in Pair : PairOk(p)
  BY DEF Init, PairOk
<1>4. QED
  BY <1>1, <1>2, <1>3, AtTypes DEF IInv, OwnerOk

----------------------------------------------------------------------------
(* Steps that lead no request to own a match, and change no history        *)


\* No match disappears.
RowsStay == \A p \in Pair : matches[p] # None => matches'[p] # None

LEMMA NoOwnerStep ==
  ASSUME IInv, TypeOK', RowsStay, UNCHANGED history,
         \A r \in Request : \/ rq'[r] = rq[r]
                            \/ HandlerOk(rq'[r]) /\ ~Owner(rq'[r])
  PROVE  IInv'
<1>1. ASSUME NEW r \in Request PROVE HandlerOk(rq'[r]) /\ (Owner(rq'[r]) => rq'[r] = rq[r])
  BY DEF IInv
<1>2. ASSUME NEW r \in Request PROVE OwnerOk(r)'
  <2> SUFFICES ASSUME Owner(rq'[r])
               PROVE  /\ matches'[PairOf(r)'] # None
                      /\ sessions'[PairOf(r)'] = 0
                      /\ announced'[PairOf(r)'] = IF rq'[r].pc = "created" THEN 0 ELSE 1
    BY DEF OwnerOk, Owner
  <2>1. rq'[r] = rq[r] /\ Owner(rq[r])
    BY <1>1
  <2>2. PairOf(r)' = PairOf(r)
    BY <2>1 DEF PairOf
  <2>3. PairOf(r) \in Pair
    BY <2>1, OwnPair DEF Owner
  <2>4. OwnerOk(r)
    BY DEF IInv
  <2>5. QED
    BY <2>1, <2>2, <2>3, <2>4 DEF OwnerOk, RowsStay, history
<1>3. ASSUME NEW r \in Request, NEW s \in Request, Owner(rq'[r]), Owner(rq'[s]), r # s
      PROVE  PairOf(r)' # PairOf(s)'
  <2>1. rq'[r] = rq[r] /\ rq'[s] = rq[s]
    BY <1>1, <1>3
  <2>2. PairOf(r) # PairOf(s)
    BY <1>3, <2>1 DEF IInv
  <2>3. QED
    BY <2>1, <2>2 DEF PairOf
<1>4. ASSUME NEW p \in Pair PROVE PairOk(p)'
  <2>1. PairOk(p)
    BY DEF IInv
  <2>2. QED
    BY <2>1 DEF PairOk, RowsStay, history
<1>5. QED
  BY <1>1, <1>2, <1>3, <1>4 DEF IInv, OwnerOk

\* What the table of requests becomes when one request moves on.
LEMMA OneMoves ==
  ASSUME TypeOK, NEW r \in Request, NEW h \in Await, rq' = [rq EXCEPT ![r] = h]
  PROVE  /\ rq' \in [Request -> Await]
         /\ rq'[r] = h
         /\ \A s \in Request \ {r} : rq'[s] = rq[s]
BY DEF TypeOK

LEMMA FaultTypes == ASSUME TypeOK, Fault PROVE faults' \in 0..MaxFaults
BY RequestsAssumption DEF Fault, TypeOK

LEMMA ArrivesTypes ==
  ASSUME TypeOK, NEW r \in Request, Arrives(r) PROVE quota' \in 0..MaxRequests
BY RequestsAssumption DEF Arrives, TypeOK

LEMMA SwipeTypes ==
  ASSUME TypeOK, NEW x \in Agent, NEW y \in Agent, NEW dir \in Direction, InsertSwipe(x, y, dir)
  PROVE  swipes' \in [Agent -> [Agent -> Direction \cup {None}]]
<1>1. swipes[x] \in [Agent -> Direction \cup {None}]
  BY DEF TypeOK
<1>2. [swipes[x] EXCEPT ![y] = dir] \in [Agent -> Direction \cup {None}]
  BY <1>1
<1>3. [swipes EXCEPT ![x][y] = dir] = [swipes EXCEPT ![x] = [swipes[x] EXCEPT ![y] = dir]]
  OBVIOUS
<1>4. QED
  BY <1>2, <1>3 DEF InsertSwipe, TypeOK

----------------------------------------------------------------------------
(* The actions, one by one                                                 *)

LEMMA SwipeStep ==
  ASSUME IInv, NEW r \in Request, NEW x \in Agent, NEW y \in Agent, x # y,
         NEW dir \in Direction, Swipe(r, x, y, dir)
  PROVE  IInv'
<1>1. TypeOK /\ rq' \in {rq, [rq EXCEPT ![r] = At("swiped", "swipe", x, y)]}
  BY DEF IInv, Swipe
<1>2. /\ rq' \in [Request -> Await]
      /\ \A q \in Request : rq'[q] = rq[q] \/ (HandlerOk(rq'[q]) /\ ~Owner(rq'[q]))
  <2>1. CASE rq' = rq
    BY <1>1, <2>1 DEF TypeOK
  <2>2. CASE rq' = [rq EXCEPT ![r] = At("swiped", "swipe", x, y)]
    BY <1>1, <2>2, AtTypes, OneMoves
  <2>3. QED
    BY <1>1, <2>1, <2>2
<1>3. TypeOK'
  BY <1>1, <1>2, ArrivesTypes, SwipeTypes DEF Swipe, TypeOK, history
<1>4. QED
  BY <1>2, <1>3, NoOwnerStep DEF Swipe, RowsStay

LEMMA LookUpStep ==
  ASSUME IInv, NEW r \in Request, LookUp(r) PROVE IInv'
<1> DEFINE h == [rq[r] EXCEPT !.pc = "matching"]
<1>1. TypeOK /\ rq[r] \in Await /\ HandlerOk(rq[r]) /\ rq[r].pc = "swiped"
  BY DEF IInv, LookUp, TypeOK
<1>2. h \in Await /\ HandlerOk(h) /\ ~Owner(h)
  BY <1>1, GoTypes DEF HandlerOk, Owner
<1>3. rq' = [rq EXCEPT ![r] = h] \/ rq' = [rq EXCEPT ![r] = Idle]
  BY DEF LookUp, GoTo, Finish
<1> HIDE DEF h
<1>4. /\ rq' \in [Request -> Await]
      /\ \A q \in Request : rq'[q] = rq[q] \/ (HandlerOk(rq'[q]) /\ ~Owner(rq'[q]))
  BY <1>1, <1>2, <1>3, AtTypes, OneMoves
<1>5. TypeOK'
  BY <1>1, <1>4 DEF LookUp, TypeOK, tables, history
<1>6. QED
  BY <1>4, <1>5, NoOwnerStep DEF LookUp, RowsStay, tables

LEMMA ScanStep ==
  ASSUME IInv, NEW r \in Request, NEW x \in Agent, Scan(r, x) PROVE IInv'
<1> DEFINE partners == {y \in Agent \ {x} : matches[{x, y}] # None}
           h == [At("scanned", "auto", x, None) EXCEPT !.matched = partners]
<1>1. TypeOK /\ x \in Agent
  BY AgentsAssumption DEF IInv
<1>2. h \in Await /\ HandlerOk(h) /\ ~Owner(h)
  <2>1. partners \in SUBSET Agent
    OBVIOUS
  <2> HIDE DEF partners
  <2>2. h = [pc |-> "scanned", by |-> "auto", of |-> x, on |-> None, matched |-> partners]
    BY DEF At
  <2>3. QED
    BY <1>1, <2>1, <2>2 DEF Await, HandlerOk, Owner
<1>3. rq' = [rq EXCEPT ![r] = h]
  BY DEF Scan
<1> HIDE DEF h
<1>4. /\ rq' \in [Request -> Await]
      /\ \A q \in Request : rq'[q] = rq[q] \/ (HandlerOk(rq'[q]) /\ ~Owner(rq'[q]))
  BY <1>1, <1>2, <1>3, OneMoves
<1>5. TypeOK'
  BY <1>1, <1>4, ArrivesTypes DEF Scan, TypeOK, tables, history
<1>6. QED
  BY <1>4, <1>5, NoOwnerStep DEF Scan, RowsStay, tables

LEMMA PickStep ==
  ASSUME IInv, NEW r \in Request, Pick(r) PROVE IInv'
<1>1. TypeOK /\ rq[r].of \in Agent
  BY DEF IInv, HandlerOk, Pick
<1> DEFINE Rest == /\ rq' \in [Request -> Await]
                   /\ \A q \in Request : rq'[q] = rq[q] \/ (HandlerOk(rq'[q]) /\ ~Owner(rq'[q]))
                   /\ swipes' \in [Agent -> [Agent -> Direction \cup {None}]]
<1>2. Rest
  <2>1. CASE Finish(r) /\ UNCHANGED swipes
    BY <1>1, <2>1, AtTypes, OneMoves DEF Finish, TypeOK
  <2>2. ASSUME NEW y \in Agent, y # rq[r].of, InsertSwipe(rq[r].of, y, "right"),
               rq' = [rq EXCEPT ![r] = At("matching", "auto", rq[r].of, y)]
        PROVE  Rest
    <3>1. swipes' \in [Agent -> [Agent -> Direction \cup {None}]]
      BY <1>1, <2>2, SwipeTypes DEF Direction
    <3>2. QED
      BY <1>1, <2>2, <3>1, AtTypes, OneMoves
  <2>3. QED
    BY <2>1, <2>2, AgentsAssumption DEF Pick
<1>3. TypeOK'
  BY <1>1, <1>2 DEF Pick, TypeOK, history
<1>4. QED
  BY <1>2, <1>3, NoOwnerStep DEF Pick, RowsStay

LEMMA AiMatchStep ==
  ASSUME IInv, NEW r \in Request, NEW x \in AiAgents, AiMatch(r, x) PROVE IInv'
<1>1. TypeOK /\ x \in Agent
  BY AgentsAssumption DEF IInv
<1>2. PICK y \in Agent \ {x} : /\ InsertSwipe(x, y, "right")
                               /\ rq' = [rq EXCEPT ![r] = At("matching", "ai", x, y)]
  BY DEF AiMatch
<1>3. /\ rq' \in [Request -> Await]
      /\ \A q \in Request : rq'[q] = rq[q] \/ (HandlerOk(rq'[q]) /\ ~Owner(rq'[q]))
  BY <1>1, <1>2, AtTypes, OneMoves
<1>4. swipes' \in [Agent -> [Agent -> Direction \cup {None}]]
  BY <1>1, <1>2, SwipeTypes DEF Direction
<1>5. TypeOK'
  BY <1>1, <1>3, <1>4, ArrivesTypes DEF AiMatch, TypeOK, history
<1>6. QED
  BY <1>3, <1>5, NoOwnerStep DEF AiMatch, RowsStay

LEMMA DecideStep ==
  ASSUME IInv, NEW p \in Pair, NEW status \in {"approved", "rejected"}, Decide(p, status)
  PROVE  IInv'
<1>1. matches' = [matches EXCEPT ![p] = status] /\ TypeOK
  BY DEF IInv, Decide
<1>2. TypeOK'
  BY <1>1, RequestsAssumption DEF Decide, TypeOK, history
<1>3. RowsStay
  BY <1>1, NoneAssumption DEF TypeOK, RowsStay
<1>4. QED
  BY <1>2, <1>3, NoOwnerStep DEF Decide

LEMMA HandlerFailsStep ==
  ASSUME IInv, NEW r \in Request, HandlerFails(r) PROVE IInv'
<1>1. TypeOK /\ rq' = [rq EXCEPT ![r] = Idle]
  BY DEF IInv, HandlerFails, Finish
<1>2. /\ rq' \in [Request -> Await]
      /\ \A q \in Request : rq'[q] = rq[q] \/ (HandlerOk(rq'[q]) /\ ~Owner(rq'[q]))
  BY <1>1, AtTypes, OneMoves
<1>3. TypeOK'
  BY <1>1, <1>2, FaultTypes DEF HandlerFails, TypeOK, tables, history
<1>4. QED
  BY <1>2, <1>3, NoOwnerStep DEF HandlerFails, RowsStay, tables

LEMMA RestartStep ==
  ASSUME IInv, Restart PROVE IInv'
<1>1. TypeOK /\ rq' = [r \in Request |-> Idle]
  BY DEF IInv, Restart
<1>2. /\ rq' \in [Request -> Await]
      /\ \A q \in Request : rq'[q] = Idle
  BY <1>1, AtTypes
<1>3. TypeOK'
  BY <1>1, <1>2, FaultTypes DEF Restart, TypeOK, tables, history
<1>4. QED
  BY <1>2, <1>3, AtTypes, NoOwnerStep DEF Restart, RowsStay, tables

----------------------------------------------------------------------------
(* The steps of an owner, and the one that makes it                        *)

\* One request, about pair p, moves on; the history of p alone changes with it.
LEMMA OwnerStep ==
  ASSUME IInv, TypeOK', RowsStay, NEW r \in Request, NEW p \in Pair,
         p = PairOf(r), HandlerOk(rq'[r]), PairOk(p)',
         Owner(rq'[r]) => /\ PairOf(r)' = p
                          /\ OwnerOk(r)'
                          /\ \A q \in Request \ {r} : Owner(rq[q]) => PairOf(q) # p,
         Owner(rq[r]) \/ matches[p] = None,
         \A q \in Request \ {r} : rq'[q] = rq[q],
         \A o \in Pair \ {p} : announced'[o] = announced[o] /\ sessions'[o] = sessions[o]
  PROVE  IInv'
<1>1. ASSUME NEW q \in Request, q # r, Owner(rq[q]) PROVE PairOf(q) \in Pair \ {p}
  <2>1. PairOf(q) \in Pair /\ matches[PairOf(q)] # None
    BY <1>1, OwnPair DEF Owner, IInv, OwnerOk
  <2>2. PairOf(q) # p
    BY <1>1, <2>1 DEF IInv
  <2>3. QED
    BY <2>1, <2>2
<1>2. ASSUME NEW q \in Request, q # r PROVE PairOf(q)' = PairOf(q) /\ HandlerOk(rq'[q])
  BY <1>2 DEF PairOf, IInv
<1>3. ASSUME NEW q \in Request PROVE HandlerOk(rq'[q]) /\ OwnerOk(q)'
  <2>1. CASE q = r
    BY <2>1 DEF OwnerOk, Owner
  <2>2. CASE q # r
    <3> SUFFICES ASSUME Owner(rq'[q])
                 PROVE  /\ matches'[PairOf(q)'] # None
                        /\ sessions'[PairOf(q)'] = 0
                        /\ announced'[PairOf(q)'] = IF rq'[q].pc = "created" THEN 0 ELSE 1
      BY <1>2, <2>2 DEF OwnerOk, Owner
    <3>1. rq'[q] = rq[q] /\ PairOf(q)' = PairOf(q) /\ PairOf(q) \in Pair \ {p}
      BY <1>1, <1>2, <2>2
    <3>2. OwnerOk(q)
      BY DEF IInv
    <3>3. QED
      BY <3>1, <3>2 DEF OwnerOk, RowsStay
  <2>3. QED
    BY <2>1, <2>2
<1>4. ASSUME NEW q \in Request, NEW s \in Request, Owner(rq'[q]), Owner(rq'[s]), q # s
      PROVE  PairOf(q)' # PairOf(s)'
  <2>1. CASE q # r /\ s # r
    BY <1>2, <1>4, <2>1 DEF IInv
  <2>2. CASE q = r
    BY <1>1, <1>2, <1>4, <2>2
  <2>3. CASE s = r
    BY <1>1, <1>2, <1>4, <2>3
  <2>4. QED
    BY <2>1, <2>2, <2>3
<1>5. ASSUME NEW o \in Pair PROVE PairOk(o)'
  <2>1. CASE o = p
    BY <2>1 DEF PairOk
  <2>2. CASE o # p
    BY <2>2 DEF PairOk, IInv, RowsStay
  <2>3. QED
    BY <2>1, <2>2
<1>6. QED
  BY <1>3, <1>4, <1>5 DEF IInv

LEMMA MakeMatchStep ==
  ASSUME IInv, NEW r \in Request, MakeMatch(r) PROVE IInv'
<1>0. PICK p \in Pair : p = PairOf(r)
  BY OwnPair DEF MakeMatch
<1> DEFINE h == [rq[r] EXCEPT !.pc = "created"]
<1>1. TypeOK /\ rq[r] \in Await /\ HandlerOk(rq[r]) /\ rq[r].pc = "matching" 
  BY <1>0 DEF IInv, MakeMatch, TypeOK
<1>2. CASE matches[p] = None
  <2>1. /\ matches' = [matches EXCEPT ![p] = "pending"]
        /\ rq' = [rq EXCEPT ![r] = h]
        /\ UNCHANGED <<swipes, announced, sessions, quota, faults>>
    BY <1>0, <1>2 DEF MakeMatch, InsertMatch, GoTo, history
  <2>2. /\ h \in Await /\ h.pc = "created" /\ h.of = rq[r].of /\ h.on = rq[r].on
    BY <1>1, GoTypes
  <2> HIDE DEF h
  <2>3. /\ rq' \in [Request -> Await] /\ rq'[r] = h
        /\ \A q \in Request \ {r} : rq'[q] = rq[q]
    BY <1>1, <2>1, <2>2, OneMoves
  <2>4. matches' \in [Pair -> {None, "pending", "approved", "rejected"}]
    BY <1>1, <2>1 DEF TypeOK
  <2>5. TypeOK'
    BY <1>1, <2>1, <2>3, <2>4 DEF TypeOK
  <2>6. PairOf(r)' = p /\ HandlerOk(rq'[r])
    BY <1>0, <1>1, <2>2, <2>3 DEF PairOf, HandlerOk
  <2>7. announced[p] = 0 /\ sessions[p] = 0
    BY <1>1, <1>2 DEF IInv, PairOk
  <2>8. matches'[p] = "pending" /\ RowsStay
    BY <1>1, <2>1, NoneAssumption DEF TypeOK, RowsStay
  <2>9. PairOk(p)' /\ OwnerOk(r)'
    BY <2>1, <2>2, <2>3, <2>6, <2>7, <2>8, NoneAssumption DEF PairOk, OwnerOk
  <2>10. \A q \in Request \ {r} : Owner(rq[q]) => PairOf(q) # p
    BY <1>2 DEF IInv, OwnerOk
  <2>11. QED
    BY <1>0, <1>1, <1>2, <2>1, <2>3, <2>5, <2>6, <2>8, <2>9, <2>10, OwnerStep
<1>3. CASE matches[p] # None
  <2>1. UNCHANGED matches /\ rq' = [rq EXCEPT ![r] = Idle]
    BY <1>0, <1>3 DEF MakeMatch, InsertMatch, Finish
  <2>2. /\ rq' \in [Request -> Await]
        /\ \A q \in Request : rq'[q] = rq[q] \/ (HandlerOk(rq'[q]) /\ ~Owner(rq'[q]))
    BY <1>1, <2>1, AtTypes, OneMoves
  <2>3. TypeOK'
    BY <1>1, <2>1, <2>2 DEF MakeMatch, TypeOK, history
  <2>4. QED
    BY <2>1, <2>2, <2>3, NoOwnerStep DEF MakeMatch, RowsStay
<1>4. QED
  BY <1>2, <1>3

LEMMA AnnounceStep ==
  ASSUME IInv, NEW r \in Request, Announce(r) PROVE IInv'
<1>0. PICK p \in Pair : p = PairOf(r)
  BY OwnPair DEF Announce
<1> DEFINE h == [rq[r] EXCEPT !.pc = "launching"]
<1>1. /\ TypeOK /\ rq[r] \in Await /\ HandlerOk(rq[r]) /\ rq[r].pc = "created" 
      /\ Owner(rq[r]) /\ matches[p] # None /\ announced[p] = 0 /\ sessions[p] = 0
  BY <1>0 DEF IInv, Announce, TypeOK, OwnerOk, Owner
<1>2. h \in Await /\ h.pc = "launching" /\ h.of = rq[r].of /\ h.on = rq[r].on
  BY <1>1, GoTypes
<1>3. /\ rq' = [rq EXCEPT ![r] = h] \/ rq' = [rq EXCEPT ![r] = Idle]
      /\ announced' = [announced EXCEPT ![p] = announced[p] + 1]
      /\ UNCHANGED <<swipes, matches, sessions, quota, faults>>
  BY <1>0 DEF Announce, GoTo, Finish, Announces, tables
<1> HIDE DEF h
<1>4. /\ rq' \in [Request -> Await] /\ rq'[r] \in {h, Idle}
      /\ \A q \in Request \ {r} : rq'[q] = rq[q]
  BY <1>1, <1>2, <1>3, AtTypes, OneMoves
<1>5. PairOf(r)' = p \/ rq'[r] = Idle
  BY <1>0, <1>2, <1>4 DEF PairOf
<1>6. HandlerOk(rq'[r])
  BY <1>1, <1>2, <1>4, AtTypes DEF HandlerOk
<1>7. \A q \in Request \ {r} : Owner(rq[q]) => PairOf(q) # p
  BY <1>0, <1>1 DEF IInv
<1>8. /\ announced'[p] = 1 /\ announced' \in [Pair -> Nat]
      /\ \A o \in Pair \ {p} : announced'[o] = announced[o]
  BY <1>1, <1>3 DEF TypeOK
<1>9. TypeOK'
  BY <1>1, <1>3, <1>4, <1>8 DEF TypeOK
<1>10. PairOk(p)' /\ RowsStay
  BY <1>1, <1>3, <1>8 DEF PairOk, RowsStay
<1>11. rq'[r] = h => OwnerOk(r)' /\ PairOf(r)' = p
  BY <1>1, <1>2, <1>3, <1>5, <1>8, AtTypes DEF OwnerOk
<1>12. QED
  BY <1>0, <1>1, <1>3, <1>4, <1>6, <1>7, <1>8, <1>9, <1>10, <1>11, AtTypes, OwnerStep

LEMMA LaunchRowStep ==
  ASSUME IInv, NEW r \in Request, LaunchRow(r) PROVE IInv'
<1>0. PICK p \in Pair : p = PairOf(r)
  BY OwnPair DEF LaunchRow
<1> DEFINE h == [rq[r] EXCEPT !.pc = "starting"]
<1>1. /\ TypeOK /\ rq[r] \in Await /\ HandlerOk(rq[r]) /\ rq[r].pc = "launching" 
      /\ Owner(rq[r]) /\ matches[p] # None /\ announced[p] = 1 /\ sessions[p] = 0
  BY <1>0 DEF IInv, LaunchRow, TypeOK, OwnerOk, Owner
<1>2. h \in Await /\ h.pc = "starting" /\ h.of = rq[r].of /\ h.on = rq[r].on
  BY <1>1, GoTypes
<1>3. /\ rq' = [rq EXCEPT ![r] = h]
      /\ UNCHANGED <<swipes, matches, announced, sessions, quota, faults>>
  BY DEF LaunchRow, GoTo, tables, history
<1> HIDE DEF h
<1>4. /\ rq' \in [Request -> Await] /\ rq'[r] = h
      /\ \A q \in Request \ {r} : rq'[q] = rq[q]
  BY <1>1, <1>2, <1>3, OneMoves
<1>5. PairOf(r)' = p /\ HandlerOk(rq'[r])
  BY <1>0, <1>1, <1>2, <1>4 DEF PairOf, HandlerOk
<1>6. \A q \in Request \ {r} : Owner(rq[q]) => PairOf(q) # p
  BY <1>0, <1>1 DEF IInv
<1>7. TypeOK'
  BY <1>1, <1>3, <1>4 DEF TypeOK
<1>8. PairOk(p)' /\ RowsStay /\ OwnerOk(r)'
  BY <1>1, <1>2, <1>3, <1>4, <1>5 DEF PairOk, RowsStay, OwnerOk
<1>9. QED
  BY <1>0, <1>1, <1>3, <1>4, <1>5, <1>6, <1>7, <1>8, OwnerStep

LEMMA LaunchTaskStep ==
  ASSUME IInv, NEW r \in Request, LaunchTask(r) PROVE IInv'
<1>0. PICK p \in Pair : p = PairOf(r)
  BY OwnPair DEF LaunchTask
<1>1. /\ TypeOK /\ rq[r].pc = "starting"
      /\ Owner(rq[r]) /\ matches[p] # None /\ announced[p] = 1 /\ sessions[p] = 0
  BY <1>0 DEF IInv, LaunchTask, TypeOK, OwnerOk, Owner
<1>2. /\ rq' = [rq EXCEPT ![r] = Idle]
      /\ sessions' = [sessions EXCEPT ![p] = sessions[p] + 1]
      /\ UNCHANGED <<swipes, matches, announced, quota, faults>>
  BY <1>0 DEF LaunchTask, Finish, tables
<1>3. /\ rq' \in [Request -> Await] /\ rq'[r] = Idle
      /\ \A q \in Request \ {r} : rq'[q] = rq[q]
  BY <1>1, <1>2, AtTypes, OneMoves
<1>4. /\ sessions'[p] = 1 /\ sessions' \in [Pair -> Nat]
      /\ \A o \in Pair \ {p} : sessions'[o] = sessions[o]
  BY <1>1, <1>2 DEF TypeOK
<1>5. TypeOK'
  BY <1>1, <1>2, <1>3, <1>4 DEF TypeOK
<1>6. PairOk(p)' /\ RowsStay
  BY <1>1, <1>2, <1>4 DEF PairOk, RowsStay
<1>7. QED
  BY <1>0, <1>1, <1>2, <1>3, <1>4, <1>5, <1>6, AtTypes, OwnerStep

----------------------------------------------------------------------------
(* The theorems                                                            *)

LEMMA StutterStep == ASSUME IInv, UNCHANGED vars PROVE IInv'
BY DEF IInv, vars, tables, history, TypeOK, OwnerOk, PairOf, PairOk

\* The inductive invariant holds throughout, failures and restarts included.
THEOREM Invariance == Spec => []IInv
<1>1. IInv /\ [Next]_vars => IInv'
  BY SwipeStep, LookUpStep, ScanStep, PickStep, AiMatchStep, DecideStep, MakeMatchStep,
     AnnounceStep, LaunchRowStep, LaunchTaskStep, HandlerFailsStep, RestartStep, StutterStep
     DEF Next, User, Continue
<1>2. QED
  BY InitIInv, <1>1, PTL DEF Spec

\* The tables, the requests and their histories keep their types.
THEOREM TypeCorrect == Spec => []TypeOK
<1>1. IInv => TypeOK
  BY DEF IInv
<1>2. QED
  BY Invariance, <1>1, PTL

\* However many swipes, engines and AI matches meet on a pair, its match is announced
\* once and brings at most one session (db.py:62-67).
THEOREM OneMatchOneSession == Spec => []MatchCreatedOnce
<1>1. IInv => MatchCreatedOnce
  BY DEF IInv, PairOk, MatchCreatedOnce
<1>2. QED
  BY Invariance, <1>1, PTL

\* Only a decision replaces a decision (match_handler.py:40-61).
THEOREM DecisionsStand == Spec => DecisionStands
<1>1. IInv /\ [Next]_vars =>
        \A p \in Pair : matches[p] \in {"approved", "rejected"}
                           => matches'[p] \in {"approved", "rejected"}
  <2> SUFFICES ASSUME IInv, [Next]_vars, NEW p \in Pair,
                      matches[p] \in {"approved", "rejected"}
               PROVE  matches'[p] \in {"approved", "rejected"}
    OBVIOUS
  <2>1. TypeOK /\ matches[p] # None
    BY NoneAssumption DEF IInv
  <2>2. ASSUME NEW r \in Request, MakeMatch(r)
        PROVE  matches'[p] \in {"approved", "rejected"}
    BY <2>1, <2>2 DEF MakeMatch, InsertMatch, TypeOK
  <2>3. ASSUME NEW q \in Pair, NEW status \in {"approved", "rejected"}, Decide(q, status)
        PROVE  matches'[p] \in {"approved", "rejected"}
    BY <2>1, <2>3 DEF Decide, TypeOK
  <2>4. CASE UNCHANGED matches
    BY <2>4
  <2>5. QED
    BY <2>2, <2>3, <2>4
       DEF Next, User, Continue, Swipe, LookUp, Scan, Pick, AiMatch, Announce, LaunchRow,
           LaunchTask, HandlerFails, Restart, vars, tables
<1>2. QED
  BY Invariance, <1>1, PTL DEF Spec, DecisionStands

----------------------------------------------------------------------------
(* Why a request makes a match                                             *)

Reason(x, y) == Introductions!Reason(x, y)

\* Who has swiped has a row that says so; who is about to match has a reason.
ReasonOk(r) ==
  /\ rq[r].pc = "swiped" => swipes[rq[r].of][rq[r].on] # None
  /\ rq[r].pc = "matching" => Reason(rq[r].of, rq[r].on)

ReasonInv == \A r \in Request : ReasonOk(r)

\* The first swipe stands.
SwipesStand == \A x, y \in Agent : swipes[x][y] # None => swipes'[x][y] = swipes[x][y]

LEMMA SwipeWrites ==
  ASSUME TypeOK, NEW x \in Agent, NEW y \in Agent, NEW dir \in Direction, InsertSwipe(x, y, dir)
  PROVE  /\ SwipesStand
         /\ swipes'[x][y] = IF swipes[x][y] = None THEN dir ELSE swipes[x][y]
         /\ swipes'[x][y] # None
         /\ \A v, w \in Agent : <<v, w>> # <<x, y>> => swipes'[v][w] = swipes[v][w]
<1>1. dir # None /\ swipes[x] \in [Agent -> Direction \cup {None}]
  BY NoneAssumption DEF TypeOK
<1>2. CASE swipes[x][y] = None
  <2>1. swipes' = [swipes EXCEPT ![x][y] = dir]
    BY <1>2 DEF InsertSwipe
  <2>2. swipes'[x][y] = dir
    BY <1>1, <2>1 DEF TypeOK
  <2>3. \A v, w \in Agent : <<v, w>> # <<x, y>> => swipes'[v][w] = swipes[v][w]
    BY <1>1, <2>1 DEF TypeOK
  <2>4. QED
    BY <1>1, <1>2, <2>2, <2>3 DEF SwipesStand
<1>3. CASE swipes[x][y] # None
  BY <1>3 DEF InsertSwipe, SwipesStand
<1>4. QED
  BY <1>2, <1>3

LEMMA ReasonsLast ==
  ASSUME SwipesStand, NEW x \in Agent, NEW y \in Agent, Reason(x, y)
  PROVE  Reason(x, y)'
BY NoneAssumption DEF Reason, Introductions!Reason, SwipesStand, Direction

\* A request that did not move keeps its reason; one that moved needs one.
LEMMA ReasonStep ==
  ASSUME IInv, ReasonInv, SwipesStand, NEW r \in Request,
         \A q \in Request \ {r} : rq'[q] = rq[q],
         rq'[r] = rq[r] \/ ReasonOk(r)'
  PROVE  ReasonInv'
<1>1. ASSUME NEW q \in Request, rq'[q] = rq[q] PROVE ReasonOk(q)'
  <2>1. HandlerOk(rq[q]) /\ ReasonOk(q)
    BY DEF IInv, ReasonInv
  <2>2. rq[q].pc = "swiped" => swipes'[rq[q].of][rq[q].on] # None
    BY <2>1 DEF ReasonOk, HandlerOk, SwipesStand
  <2>3. ASSUME rq[q].pc = "matching" PROVE Reason(rq[q].of, rq[q].on)'
    <3>1. PICK x \in Agent, y \in Agent : x = rq[q].of /\ y = rq[q].on
      BY <2>1, <2>3 DEF HandlerOk
    <3>2. Reason(x, y)'
      BY <2>1, <2>3, <3>1, ReasonsLast DEF ReasonOk
    <3>3. QED
      BY <1>1, <3>1, <3>2 DEF Reason, Introductions!Reason
  <2>4. QED
    BY <1>1, <2>1, <2>2, <2>3 DEF ReasonOk
<1>2. QED
  BY <1>1 DEF ReasonInv

LEMMA ReasonInit == Init => ReasonInv
BY DEF Init, ReasonInv, ReasonOk, Idle, At

LEMMA ReasonsKept ==
  ASSUME IInv, ReasonInv, [Next]_vars PROVE ReasonInv'
<1>1. TypeOK /\ \A r \in Request : HandlerOk(rq[r])
  BY DEF IInv
<1>2. ASSUME NEW r \in Request, NEW x \in Agent, NEW y \in Agent, x # y, NEW dir \in Direction,
             Swipe(r, x, y, dir)
      PROVE  ReasonInv'
  <2>1. SwipesStand /\ swipes'[x][y] # None
    BY <1>1, <1>2, SwipeWrites DEF Swipe
  <2>2. CASE rq' = [rq EXCEPT ![r] = At("swiped", "swipe", x, y)]
    <3>1. rq'[r] = At("swiped", "swipe", x, y) /\ \A q \in Request \ {r} : rq'[q] = rq[q]
      BY <1>1, <2>2 DEF TypeOK
    <3>2. ReasonOk(r)'
      BY <2>1, <3>1 DEF ReasonOk, At
    <3>3. QED
      BY <2>1, <3>1, <3>2, ReasonStep
  <2>3. CASE UNCHANGED rq
    BY <2>1, <2>3, ReasonStep
  <2>4. QED
    BY <1>2, <2>2, <2>3 DEF Swipe
<1>3. ASSUME NEW r \in Request, UNCHANGED swipes, NEW h, rq' = [rq EXCEPT ![r] = h],
             h.pc \notin {"scanned", "swiped", "matching"}
      PROVE  ReasonInv'
  <2>1. rq'[r] = h /\ \A q \in Request \ {r} : rq'[q] = rq[q]
    BY <1>1, <1>3 DEF TypeOK
  <2>2. ReasonOk(r)'
    BY <1>3, <2>1 DEF ReasonOk
  <2>3. QED
    BY <1>3, <2>1, <2>2, ReasonStep DEF SwipesStand
<1>4. ASSUME NEW r \in Request, LookUp(r) PROVE ReasonInv'
  <2>1. CASE Finish(r)
    BY <1>3, <1>4, <2>1 DEF LookUp, Finish, Idle, At, tables
  <2>2. CASE GoTo(r, "matching") /\ Counter(rq[r].of, rq[r].on)
    <3>1. PICK x \in Agent, y \in Agent : x = rq[r].of /\ y = rq[r].on
      BY <1>1, <1>4 DEF LookUp, HandlerOk
    <3>2. Reason(x, y)
      BY <1>4, <2>2, <3>1 DEF LookUp, Counter, Reason, Introductions!Reason, ReasonInv, ReasonOk
    <3>3. rq'[r].pc = "matching" /\ rq'[r].of = x /\ rq'[r].on = y
      BY <1>1, <2>2, <3>1 DEF GoTo, TypeOK, Await
    <3>4. UNCHANGED swipes /\ \A q \in Request \ {r} : rq'[q] = rq[q]
      BY <1>1, <1>4, <2>2 DEF LookUp, GoTo, TypeOK, tables
    <3>5. ReasonOk(r)'
      BY <3>2, <3>3, <3>4 DEF ReasonOk, Reason, Introductions!Reason
    <3>6. QED
      BY <3>4, <3>5, ReasonStep DEF SwipesStand
  <2>3. QED
    BY <1>4, <2>1, <2>2 DEF LookUp
<1>5. ASSUME NEW r \in Request, NEW x \in Agent, Scan(r, x) PROVE ReasonInv'
  <2>1. /\ rq'[r].pc = "scanned"
        /\ UNCHANGED swipes /\ \A q \in Request \ {r} : rq'[q] = rq[q]
    BY <1>1, <1>5 DEF Scan, At, TypeOK, tables
  <2>2. ReasonOk(r)'
    BY <2>1 DEF ReasonOk
  <2>3. QED
    BY <2>1, <2>2, ReasonStep DEF SwipesStand
<1>6. ASSUME NEW r \in Request, NEW x \in Agent, NEW y \in Agent, NEW by \in {"auto", "ai"},
             InsertSwipe(x, y, "right"), rq' = [rq EXCEPT ![r] = At("matching", by, x, y)],
             x \in AiAgents \/ y \in AutoAgents
      PROVE  ReasonInv'
  <2>1. SwipesStand /\ swipes'[x][y] # None
    BY <1>1, <1>6, SwipeWrites DEF Direction
  <2>2. rq'[r] = At("matching", by, x, y) /\ \A q \in Request \ {r} : rq'[q] = rq[q]
    BY <1>1, <1>6 DEF TypeOK
  <2>3. ReasonOk(r)'
    BY <1>6, <2>1, <2>2 DEF ReasonOk, At, Reason, Introductions!Reason
  <2>4. QED
    BY <2>1, <2>2, <2>3, ReasonStep
<1>7. ASSUME NEW r \in Request, Pick(r) PROVE ReasonInv'
  <2>1. rq[r].of \in Agent
    BY <1>1, <1>7 DEF Pick, HandlerOk
  <2>2. CASE Finish(r) /\ UNCHANGED swipes
    BY <1>3, <2>2 DEF Finish, Idle, At
  <2>3. ASSUME NEW y \in AutoAgents, InsertSwipe(rq[r].of, y, "right"),
               rq' = [rq EXCEPT ![r] = At("matching", "auto", rq[r].of, y)]
        PROVE  ReasonInv'
    <3>1. PICK x \in Agent : x = rq[r].of
      BY <2>1
    <3>2. QED
      BY <1>6, <2>3, <3>1, AgentsAssumption
  <2>4. QED
    BY <1>7, <2>2, <2>3 DEF Pick
<1>8. ASSUME NEW r \in Request, NEW x \in AiAgents, AiMatch(r, x) PROVE ReasonInv'
  BY <1>6, <1>8, AgentsAssumption DEF AiMatch
<1>9. ASSUME NEW r \in Request, NEW pc \in {"created", "launching", "starting"},
             GoTo(r, pc), UNCHANGED swipes
      PROVE  ReasonInv'
  BY <1>1, <1>3, <1>9 DEF GoTo, TypeOK, Await
<1>10. ASSUME NEW r \in Request, Finish(r), UNCHANGED swipes PROVE ReasonInv'
  BY <1>3, <1>10 DEF Finish, Idle, At
<1>11. CASE Restart
  BY <1>11 DEF Restart, ReasonInv, ReasonOk, Idle, At
<1>12. CASE UNCHANGED <<swipes, rq>>
  BY <1>12 DEF ReasonInv, ReasonOk, Reason, Introductions!Reason
<1>13. ASSUME NEW r \in Request, Continue(r) PROVE ReasonInv'
  BY <1>4, <1>7, <1>9, <1>10, <1>13
     DEF Continue, MakeMatch, InsertMatch, Announce, LaunchRow, LaunchTask, tables
<1>14. QED
  BY <1>2, <1>5, <1>8, <1>10, <1>11, <1>12, <1>13
     DEF Next, User, Decide, HandlerFails, vars, tables

----------------------------------------------------------------------------
(* The refinement, step by step                                            *)

LEMMA SwipeImplements ==
  ASSUME TypeOK, NEW x \in Agent, NEW y \in Agent, x # y, NEW dir \in Direction,
         InsertSwipe(x, y, dir), UNCHANGED <<matches, history>>
  PROVE  Introductions!Next \/ UNCHANGED Introductions!vars
<1>1. CASE swipes[x][y] = None
  <2>1. Introductions!Judge(x, y, dir)
    BY <1>1 DEF InsertSwipe, history, Introductions!Judge
  <2>2. QED
    BY <2>1 DEF Introductions!Next, Direction
<1>2. CASE swipes[x][y] # None
  BY <1>2 DEF InsertSwipe, history, Introductions!vars
<1>3. QED
  BY <1>1, <1>2

LEMMA MakeMatchImplements ==
  ASSUME IInv, ReasonInv, NEW r \in Request, MakeMatch(r)
  PROVE  Introductions!Next \/ UNCHANGED Introductions!vars
<1>1. PICK x \in Agent, y \in Agent : x = rq[r].of /\ y = rq[r].on /\ x # y
  BY DEF MakeMatch, IInv, HandlerOk
<1>2. Introductions!Reason(x, y)
  BY <1>1 DEF MakeMatch, ReasonInv, ReasonOk, Reason
<1>3. CASE matches[{x, y}] = None
  <2>1. Introductions!Meet(x, y)
    BY <1>1, <1>2, <1>3 DEF MakeMatch, InsertMatch, PairOf, history, Introductions!Meet
  <2>2. QED
    BY <2>1 DEF Introductions!Next
<1>4. CASE matches[{x, y}] # None
  BY <1>1, <1>4 DEF MakeMatch, InsertMatch, PairOf, history, Introductions!vars
<1>5. QED
  BY <1>3, <1>4

LEMMA AnnounceImplements ==
  ASSUME IInv, NEW r \in Request, Announce(r) PROVE Introductions!Next
<1>1. PICK p \in Pair : p = PairOf(r)
  BY OwnPair DEF Announce
<1>2. matches[p] # None /\ announced[p] = 0
  BY <1>1 DEF Announce, IInv, OwnerOk, Owner
<1>3. announced' = [announced EXCEPT ![p] = 1]
  BY <1>1, <1>2 DEF Announce, Announces
<1>4. Introductions!Tell(p)
  BY <1>2, <1>3 DEF Announce, tables, Introductions!Tell
<1>5. QED
  BY <1>4 DEF Introductions!Next, Introductions!Pair, Pair

LEMMA LaunchImplements ==
  ASSUME IInv, NEW r \in Request, LaunchTask(r) PROVE Introductions!Next
<1>1. PICK p \in Pair : p = PairOf(r)
  BY OwnPair DEF LaunchTask
<1>2. announced[p] = 1 /\ sessions[p] = 0
  BY <1>1 DEF LaunchTask, IInv, OwnerOk, Owner
<1>3. sessions' = [sessions EXCEPT ![p] = 1]
  BY <1>1, <1>2 DEF LaunchTask
<1>4. Introductions!Date(p)
  BY <1>2, <1>3 DEF LaunchTask, tables, Introductions!Date
<1>5. QED
  BY <1>4 DEF Introductions!Next, Introductions!Pair, Pair

LEMMA StepImplements ==
  ASSUME IInv, ReasonInv, [Next]_vars PROVE [Introductions!Next]_(Introductions!vars)
<1>1. TypeOK /\ \A r \in Request : HandlerOk(rq[r])
  BY DEF IInv
<1>2. ASSUME NEW r \in Request, NEW x \in Agent, NEW y \in Agent, NEW dir \in Direction, x # y,
             Swipe(r, x, y, dir)
      PROVE  Introductions!Next \/ UNCHANGED Introductions!vars
  BY <1>1, <1>2, SwipeImplements DEF Swipe
<1>3. ASSUME NEW r \in Request, Pick(r)
      PROVE  Introductions!Next \/ UNCHANGED Introductions!vars
  <2>1. PICK x \in Agent : x = rq[r].of
    BY <1>1, <1>3 DEF Pick, HandlerOk
  <2>2. CASE \E y \in AutoAgents \ {x} : InsertSwipe(x, y, "right")
    BY <1>1, <1>3, <2>2, SwipeImplements, AgentsAssumption DEF Pick, Direction
  <2>3. CASE UNCHANGED swipes
    BY <1>3, <2>3 DEF Pick, history, Introductions!vars
  <2>4. QED
    BY <1>3, <2>1, <2>2, <2>3 DEF Pick
<1>4. ASSUME NEW r \in Request, NEW x \in AiAgents, AiMatch(r, x)
      PROVE  Introductions!Next \/ UNCHANGED Introductions!vars
  BY <1>1, <1>4, SwipeImplements, AgentsAssumption DEF AiMatch, Direction
<1>5. ASSUME NEW p \in Pair, NEW status \in {"approved", "rejected"}, Decide(p, status)
      PROVE  Introductions!Next
  <2>1. Introductions!Decide(p, status)
    BY <1>5 DEF Decide, history, Introductions!Decide
  <2>2. QED
    BY <2>1 DEF Introductions!Next, Introductions!Pair, Pair
<1>6. CASE UNCHANGED <<tables, history>>
  BY <1>6 DEF tables, history, Introductions!vars
<1>7. QED
  BY <1>2, <1>3, <1>4, <1>5, <1>6, MakeMatchImplements, AnnounceImplements, LaunchImplements
     DEF Next, User, Continue, LookUp, Scan, LaunchRow, HandlerFails, Restart, vars

LEMMA ReasonInvariance == Spec => []ReasonInv
BY ReasonInit, ReasonsKept, Invariance, PTL DEF Spec

\* Matching keeps the promise of module Introduction: for any agents and any overlap of
\* requests, failures and restarts, from outside one sees swipes that stand, matches made
\* once and for a reason, told once, given at most one session, and then only decided on.
THEOREM Refinement == Spec => KeepsIntroduction
<1>1. Init => Introductions!Init
  BY DEF Init, Introductions!Init, Pair, Introductions!Pair
<1>2. QED
  BY Invariance, ReasonInvariance, StepImplements, <1>1, PTL
     DEF Spec, KeepsIntroduction, Introductions!Spec

\* A match has a reason.
HasReason ==
  \A x \in Agent : \A y \in Agent \ {x} :
    matches[{x, y}] # None => Reason(x, y) \/ Reason(y, x)

\* What is true where MatchIsMutual is not.  An agent that is matched with one it has
\* never dealt with has auto_match, or the other's owner asked for an AI match; and two
\* without auto_match and AI matches have both swiped, one at least right.
MatchesHaveConsent ==
  \A x \in Agent : \A y \in Agent \ {x} :
    matches[{x, y}] # None =>
      /\ swipes[y][x] = None => y \in AutoAgents \/ x \in AiAgents
      /\ {x, y} \cap (AutoAgents \cup AiAgents) = {} =>
           /\ swipes[x][y] # None /\ swipes[y][x] # None
           /\ "right" \in {swipes[x][y], swipes[y][x]}

LEMMA ReasonsFound ==
  ASSUME TypeOK, HasReason, [Introductions!Next]_(Introductions!vars)
  PROVE  HasReason'
<1>1. CASE SwipesStand /\ UNCHANGED matches
  BY <1>1, ReasonsLast DEF HasReason
<1>2. ASSUME NEW x \in Agent, NEW y \in Agent, Introductions!Meet(x, y) PROVE HasReason'
  <2>1. UNCHANGED swipes /\ SwipesStand
    BY <1>2 DEF Introductions!Meet, SwipesStand
  <2>2. matches' = [matches EXCEPT ![{x, y}] = "pending"] /\ Reason(x, y)
    BY <1>2 DEF Introductions!Meet, Reason
  <2>3. ASSUME NEW v \in Agent, NEW w \in Agent \ {v}, matches'[{v, w}] # None
        PROVE  Reason(v, w)' \/ Reason(w, v)'
    <3>1. CASE {v, w} = {x, y}
      <4>1. <<v, w>> = <<x, y>> \/ <<w, v>> = <<x, y>>
        BY <3>1
      <4>2. QED
        BY <2>1, <2>2, <4>1, ReasonsLast
    <3>2. CASE {v, w} # {x, y}
      <4>1. matches[{v, w}] # None
        BY <2>2, <2>3, <3>2, TwoAgents DEF TypeOK
      <4>2. QED
        BY <2>1, <4>1, ReasonsLast DEF HasReason
    <3>3. QED
      BY <3>1, <3>2
  <2>4. QED
    BY <2>3 DEF HasReason
<1>3. ASSUME NEW x \in Agent, NEW y \in Agent, NEW dir \in {"left", "right"},
             Introductions!Judge(x, y, dir)
      PROVE  HasReason'
  <2>1. InsertSwipe(x, y, dir) /\ UNCHANGED matches
    BY <1>3 DEF Introductions!Judge, InsertSwipe
  <2>2. QED
    BY <1>1, <2>1, SwipeWrites DEF Direction
<1>4. ASSUME NEW p \in Pair, NEW status, Introductions!Decide(p, status) PROVE HasReason'
  <2>1. UNCHANGED swipes /\ SwipesStand
    BY <1>4 DEF Introductions!Decide, SwipesStand
  <2>2. \A q \in Pair : matches'[q] # None => matches[q] # None
    BY <1>4 DEF Introductions!Decide, TypeOK
  <2>3. QED
    BY <2>1, <2>2, TwoAgents, ReasonsLast DEF HasReason
<1>5. CASE UNCHANGED <<swipes, matches>>
  BY <1>1, <1>5 DEF SwipesStand
<1>6. QED
  BY <1>2, <1>3, <1>4, <1>5
     DEF Introductions!Next, Introductions!vars, Introductions!Tell, Introductions!Date,
         Introductions!Pair, Pair

\* However swipes, engines and AI matches of any owners overlap, nobody without auto_match
\* is matched unasked, unless the other's owner asked for an AI match: the "no forced dates
\* without consent" of matching_service_impl.py:52 and the counter-swipe of
\* feed_handler.py:227-234.
THEOREM MatchNeedsSwipes == Spec => []MatchesHaveConsent
<1>1. Init => HasReason
  BY TwoAgents DEF Init, HasReason
<1>2. IInv => TypeOK
  BY DEF IInv
<1>3. HasReason => MatchesHaveConsent
  <2>1. SUFFICES ASSUME HasReason, NEW x \in Agent, NEW y \in Agent \ {x}, matches[{x, y}] # None
                 PROVE  /\ swipes[y][x] = None => y \in AutoAgents \/ x \in AiAgents
                        /\ {x, y} \cap (AutoAgents \cup AiAgents) = {} =>
                             /\ swipes[x][y] # None /\ swipes[y][x] # None
                             /\ "right" \in {swipes[x][y], swipes[y][x]}
    BY DEF MatchesHaveConsent
  <2>2. "right" # None
    BY NoneAssumption DEF Direction
  <2>3. Introductions!Reason(x, y) \/ Introductions!Reason(y, x)
    BY <2>1 DEF HasReason, Reason
  <2>4. QED
    BY <2>2, <2>3 DEF Introductions!Reason
<1>4. QED
  BY Invariance, ReasonInvariance, StepImplements, ReasonsFound, <1>1, <1>2, <1>3, PTL DEF Spec

----------------------------------------------------------------------------
(* Nothing is forgotten: what liveness rests on                            *)

\* As long as nothing failed, every match that is still to be announced has the request
\* that will announce it, and every pair that wants each other and is not matched has a
\* request that is about to match it.
NobodyForgotten ==
  faults = 0 =>
    /\ \A p \in Pair : matches[p] # None /\ announced[p] = 0 =>
         \E r \in Request : rq[r].pc = "created" /\ PairOf(r) = p
    /\ \A x \in Agent : \A y \in Agent \ {x} :
         swipes[x][y] = "right" /\ swipes[y][x] = "right" /\ matches[{x, y}] = None =>
           \E r \in Request : rq[r].pc \in {"swiped", "matching"} /\ PairOf(r) = {x, y}

\* Only its own next segment moves a request that is under way, unless something fails.
LEMMA WhoMoves ==
  ASSUME TypeOK, [Next]_vars, faults' = 0, NEW r \in Request, rq[r] # Idle, rq'[r] # rq[r]
  PROVE  Continue(r)
<1>1. ASSUME NEW q \in Request, NEW h, rq' = [rq EXCEPT ![q] = h], rq[q] = Idle
      PROVE  FALSE
  BY <1>1 DEF TypeOK
<1>2. ~Fault
  BY DEF Fault, TypeOK
<1>3. ASSUME NEW q \in Request, Continue(q) PROVE q = r
  <2>1. PICK h : rq' = [rq EXCEPT ![q] = h]
    BY <1>3 DEF Continue, LookUp, Pick, MakeMatch, InsertMatch, Announce, LaunchRow,
                LaunchTask, GoTo, Finish
  <2>2. QED
    BY <2>1 DEF TypeOK
<1>4. ~User
  BY <1>1 DEF User, Swipe, Scan, AiMatch, Decide, Arrives
<1>5. ~UNCHANGED vars
  BY DEF vars
<1>6. QED
  BY <1>2, <1>3, <1>4, <1>5 DEF Next, HandlerFails, Restart

LEMMA RowsStayStep ==
  ASSUME TypeOK, [Next]_vars PROVE RowsStay /\ (faults' = 0 => faults = 0)
<1>1. ASSUME NEW r \in Request, MakeMatch(r) PROVE RowsStay
  BY <1>1, NoneAssumption DEF MakeMatch, InsertMatch, RowsStay, TypeOK
<1>2. ASSUME NEW p \in Pair, NEW status \in {"approved", "rejected"}, Decide(p, status)
      PROVE  RowsStay
  BY <1>2, NoneAssumption DEF Decide, RowsStay, TypeOK
<1>3. ASSUME UNCHANGED matches PROVE RowsStay
  BY <1>3 DEF RowsStay
<1>4. RowsStay
  BY <1>1, <1>2, <1>3
     DEF Next, User, Continue, Swipe, LookUp, Scan, Pick, AiMatch, Announce, LaunchRow,
         LaunchTask, HandlerFails, Restart, vars, tables
<1>5. faults' = faults \/ Fault
  BY DEF Next, User, Continue, Swipe, LookUp, Scan, Pick, AiMatch, MakeMatch, Announce,
         LaunchRow, LaunchTask, Decide, HandlerFails, Restart, vars
<1>6. QED
  BY <1>4, <1>5 DEF Fault, TypeOK

\* Who makes a row of swipes say right goes on to look for the match.
LEMMA WhoSwiped ==
  ASSUME IInv, [Next]_vars, NEW x \in Agent, NEW y \in Agent \ {x},
         swipes[x][y] # "right", swipes'[x][y] = "right"
  PROVE  \E r \in Request : rq'[r].pc \in {"swiped", "matching"} /\ PairOf(r)' = {x, y}
<1>1. TypeOK
  BY DEF IInv
<1>2. ASSUME NEW v \in Agent, NEW w \in Agent, NEW dir \in Direction, InsertSwipe(v, w, dir)
      PROVE  v = x /\ w = y /\ dir = "right"
  <2>1. <<v, w>> = <<x, y>>
    BY <1>1, <1>2, SwipeWrites
  <2>2. QED
    BY <1>1, <1>2, <2>1, SwipeWrites
<1>3. ASSUME NEW r \in Request, NEW pc \in {"swiped", "matching"}, NEW by,
             rq' = [rq EXCEPT ![r] = At(pc, by, x, y)]
      PROVE  rq'[r].pc \in {"swiped", "matching"} /\ PairOf(r)' = {x, y}
  BY <1>1, <1>3 DEF TypeOK, At, PairOf
<1>4. ASSUME NEW r \in Request, NEW v \in Agent, NEW w \in Agent, NEW dir \in Direction,
             Swipe(r, v, w, dir)
      PROVE  rq'[r].pc \in {"swiped", "matching"} /\ PairOf(r)' = {x, y}
  BY <1>2, <1>3, <1>4 DEF Swipe
<1>5. ASSUME NEW r \in Request, Pick(r)
      PROVE  rq'[r].pc \in {"swiped", "matching"} /\ PairOf(r)' = {x, y}
  <2>1. PICK v \in Agent : v = rq[r].of
    BY <1>5 DEF Pick, IInv, HandlerOk
  <2>2. PICK w \in Agent : /\ InsertSwipe(v, w, "right")
                           /\ rq' = [rq EXCEPT ![r] = At("matching", "auto", v, w)]
    BY <1>5, <2>1, AgentsAssumption DEF Pick
  <2>3. v = x /\ w = y
    BY <1>2, <2>2 DEF Direction
  <2>4. QED
    BY <1>3, <2>2, <2>3
<1>6. ASSUME NEW r \in Request, NEW v \in AiAgents, AiMatch(r, v)
      PROVE  rq'[r].pc \in {"swiped", "matching"} /\ PairOf(r)' = {x, y}
  <2>1. PICK w \in Agent : /\ InsertSwipe(v, w, "right")
                           /\ rq' = [rq EXCEPT ![r] = At("matching", "ai", v, w)]
    BY <1>6 DEF AiMatch
  <2>2. v = x /\ w = y
    BY <1>2, <2>1, AgentsAssumption DEF Direction
  <2>3. QED
    BY <1>3, <2>1, <2>2
<1>7. QED
  BY <1>4, <1>5, <1>6
     DEF Next, User, Continue, LookUp, Scan, MakeMatch, Announce, LaunchRow, LaunchTask,
         Decide, HandlerFails, Restart, vars, tables

LEMMA ForgottenInit == Init => NobodyForgotten
BY NoneAssumption, TwoAgents DEF Init, NobodyForgotten, Direction

LEMMA AnnouncerStays ==
  ASSUME IInv, NobodyForgotten, [Next]_vars, faults' = 0,
         NEW p \in Pair, matches'[p] # None, announced'[p] = 0
  PROVE  \E r \in Request : rq'[r].pc = "created" /\ PairOf(r)' = p
<1>1. TypeOK /\ faults = 0
  BY RowsStayStep DEF IInv
<1>2. CASE matches[p] = None
  <2>1. ~\E q \in Pair, status \in {"approved", "rejected"} : Decide(q, status)
    BY <1>1, <1>2 DEF Decide, TypeOK
  <2>2. PICK r \in Request : MakeMatch(r) /\ matches' # matches
    BY <1>2, <2>1 DEF Next, User, Continue, Swipe, LookUp, Scan, Pick, AiMatch, Announce,
         LaunchRow, LaunchTask, HandlerFails, Restart, vars, tables
  <2>3. matches' = [matches EXCEPT ![PairOf(r)] = "pending"] /\ GoTo(r, "created")
    BY <2>2 DEF MakeMatch, InsertMatch
  <2>4. PairOf(r) = p
    BY <1>1, <1>2, <2>3 DEF TypeOK
  <2>5. rq'[r].pc = "created" /\ PairOf(r)' = PairOf(r)
    BY <1>1, <2>3 DEF GoTo, TypeOK, Await, PairOf
  <2>6. QED
    BY <2>4, <2>5
<1>3. CASE matches[p] # None
  <2>1. announced[p] = 0
    <3>1. ASSUME NEW q \in Request, Announce(q) PROVE announced[p] = 0
      BY <1>1, <3>1 DEF Announce, Announces, TypeOK
    <3>2. ASSUME announced' = announced PROVE announced[p] = 0
      BY <3>2
    <3>3. QED
      BY <3>1, <3>2 DEF Next, User, Continue, Swipe, LookUp, Scan, Pick, AiMatch, MakeMatch,
           LaunchRow, LaunchTask, Decide, HandlerFails, Restart, vars, history
  <2>2. PICK r \in Request : rq[r].pc = "created" /\ PairOf(r) = p
    BY <1>1, <1>3, <2>1 DEF NobodyForgotten
  <2>3. ~Announce(r)
    BY <1>1, <2>1, <2>2 DEF Announce, Announces, TypeOK
  <2>4. ~Continue(r)
    BY <2>2, <2>3 DEF Continue, LookUp, Pick, MakeMatch, LaunchRow, LaunchTask
  <2>5. rq'[r] = rq[r]
    BY <1>1, <2>2, <2>4, WhoMoves DEF Idle, At
  <2>6. QED
    BY <2>2, <2>5 DEF PairOf
<1>4. QED
  BY <1>2, <1>3

LEMMA MatcherStays ==
  ASSUME IInv, NobodyForgotten, [Next]_vars, faults' = 0,
         NEW x \in Agent, NEW y \in Agent \ {x},
         swipes'[x][y] = "right", swipes'[y][x] = "right", matches'[{x, y}] = None
  PROVE  \E r \in Request : rq'[r].pc \in {"swiped", "matching"} /\ PairOf(r)' = {x, y}
<1>1. TypeOK /\ faults = 0 /\ RowsStay
  BY RowsStayStep DEF IInv
<1>2. matches[{x, y}] = None /\ {x, y} \in Pair /\ {y, x} = {x, y}
  BY <1>1, TwoAgents DEF RowsStay
<1>3. CASE swipes[x][y] # "right"
  BY <1>3, WhoSwiped
<1>4. CASE swipes[y][x] # "right"
  BY <1>2, <1>4, WhoSwiped
<1>5. CASE swipes[x][y] = "right" /\ swipes[y][x] = "right"
  <2>1. PICK r \in Request : rq[r].pc \in {"swiped", "matching"} /\ PairOf(r) = {x, y}
    BY <1>1, <1>2, <1>5 DEF NobodyForgotten
  <2>2. CASE rq'[r] = rq[r]
    BY <2>1, <2>2 DEF PairOf
  <2>3. CASE Continue(r)
    <3>1. ~MakeMatch(r)
      BY <1>1, <1>2, <2>1, NoneAssumption DEF MakeMatch, InsertMatch, TypeOK
    <3>2. LookUp(r)
      BY <2>1, <2>3, <3>1 DEF Continue, Pick, Announce, LaunchRow, LaunchTask
    <3>3. <<rq[r].of, rq[r].on>> \in {<<x, y>>, <<y, x>>}
      BY <2>1 DEF PairOf
    <3>4. GoTo(r, "matching")
      BY <1>5, <3>2, <3>3 DEF LookUp, Counter
    <3>5. rq'[r].pc = "matching" /\ PairOf(r)' = PairOf(r)
      BY <1>1, <3>4 DEF GoTo, TypeOK, Await, PairOf
    <3>6. QED
      BY <2>1, <3>5
  <2>4. QED
    BY <1>1, <2>1, <2>2, <2>3, WhoMoves DEF Idle, At
<1>6. QED
  BY <1>3, <1>4, <1>5

\* Without failures, whatever handlers overlap: no match loses the request that announces
\* it, and of two agents who both swiped right one still has the request that matches them
\* (feed_handler.py:227-234).
THEOREM NobodyIsForgotten == Spec => []NobodyForgotten
<1>1. IInv /\ NobodyForgotten /\ [Next]_vars => NobodyForgotten'
  BY AnnouncerStays, MatcherStays DEF NobodyForgotten
<1>2. QED
  BY ForgottenInit, Invariance, <1>1, PTL DEF Spec

=============================================================================
