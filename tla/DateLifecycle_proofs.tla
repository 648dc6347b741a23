------------------------ MODULE DateLifecycle_proofs ------------------------
(***************************************************************************)
(* Proofs about DateLifecycle, for every number of matches, dates,         *)
(* requests and messages and any number of failures and restarts.          *)
(***************************************************************************)
EXTENDS DateLifecycle, SequenceTheorems, TLAPS

----------------------------------------------------------------------------
(* The inductive invariant.                                                *)

Unstarted == {"inserted", "starting"}

\* A handler at an await has a date of the table, and what it is about to
\* announce is committed.
HandlerOk(r) == rq[r].pc # "idle" =>
  /\ Exists(rq[r].date)
  /\ rq[r].pc \in {"starting", "joined"} => dates[rq[r].date].started
  /\ rq[r].pc = "ending" => dates[rq[r].date].ended

\* A match waits for a date of its own, which has no conversation yet.
PendingOk(m) == pending[m] # Waiting =>
  /\ dates[pending[m].date].match = m
  /\ loop[pending[m].date] = NoTask

\* A date on its way to its conversation is in one place only: with the handler
\* that inserted it, in _pending_starts, or with the handler that starts it; it
\* has no task as long as it is there.
HeldOk(r) == rq[r].pc \in Unstarted =>
  /\ loop[rq[r].date] = NoTask
  /\ \A m \in Match : pending[m].date # rq[r].date
  /\ \A q \in Request \ {r} : rq[q].pc \in Unstarted => rq[q].date # rq[r].date

\* Without a task nothing is said; a task that may still speak has stored
\* nothing after the end of its date, and no task stores two such messages.
TaskOk(d) ==
  /\ ~Exists(d) => loop[d] = NoTask
  /\ loop[d].pc = "none" => loop[d] = NoTask
  /\ loop[d].pc \in {"none", "first"} => said[d] = <<>>
  /\ loop[d].pc \in {"none", "first", "reply"} => late[d] = 0
  /\ late[d] > 0 => dates[d].ended
  /\ late[d] <= 1

BudgetOk(d) ==
  /\ Len(said[d]) <= MaxMessages
  /\ loop[d].pc = "reply" => Len(said[d]) < MaxMessages
  /\ dates[d].outcome = "limit" => Len(said[d]) = MaxMessages
  /\ loop[d].pc = "ending" => dates[d].ended /\ Len(said[d]) = MaxMessages

AnnouncedOk(d) ==
  /\ "proposed" \in published[d] => Exists(d)
  /\ "started" \in published[d] => dates[d].started
  /\ "ended" \in published[d] => dates[d].ended

IInv ==
  /\ TypeOK
  /\ \A r \in Request : HandlerOk(r) /\ HeldOk(r)
  /\ \A m \in Match : PendingOk(m)
  /\ \A d \in Date : TaskOk(d) /\ BudgetOk(d) /\ AnnouncedOk(d)

----------------------------------------------------------------------------
(* The values the actions write have the right types.                      *)

LEMMA Written ==
  ASSUME TypeOK, NEW d \in Date, NEW s \in Side \cup {None}, NEW f \in Side \cup {None}
  PROVE  /\ StartedRow(d) \in DateRow
         /\ \A o \in Outcome \cup {None, "limit"} : EndedRow(d, o) \in DateRow
         /\ \A m \in Match : [dates[d] EXCEPT !.match = m] \in DateRow
         /\ \A pc \in {"inserted", "starting", "joined", "ending"} :
              At(pc, d, s, f) \in Await
         /\ Idle \in Await
         /\ Waiting \in Entry
         /\ [date |-> d, by |-> s] \in Entry
         /\ [pc |-> "first", first |-> f, second |-> s] \in Task
         /\ \A pc \in {"sent", "reply", "ending", "done", "failed"} :
              [loop[d] EXCEPT !.pc = pc] \in Task
<1>1. dates[d] \in DateRow /\ loop[d] \in Task
  BY DEF TypeOK
<1>2. /\ StartedRow(d) \in DateRow
      /\ \A o \in Outcome \cup {None, "limit"} : EndedRow(d, o) \in DateRow
      /\ \A m \in Match : [dates[d] EXCEPT !.match = m] \in DateRow
  BY <1>1 DEF StartedRow, EndedRow, DateRow
<1>3. /\ \A pc \in {"inserted", "starting", "joined", "ending"} :
           At(pc, d, s, f) \in Await
      /\ Idle \in Await
  BY DEF At, Await
<1>4. /\ Waiting \in Entry
      /\ [date |-> d, by |-> s] \in Entry
  BY DEF Entry
<1>5. /\ [pc |-> "first", first |-> f, second |-> s] \in Task
      /\ \A pc \in {"sent", "reply", "ending", "done", "failed"} :
           [loop[d] EXCEPT !.pc = pc] \in Task
  BY <1>1 DEF Task
<1>6. QED
  BY <1>2, <1>3, <1>4, <1>5

LEMMA FaultTypes == ASSUME TypeOK, Fault PROVE faults' \in 0..MaxFaults
BY BoundsAssumption DEF Fault, TypeOK

LEMMA ArrivesTypes ==
  ASSUME TypeOK, NEW r \in Request, Arrives(r) PROVE quota' \in 0..MaxRequests
BY BoundsAssumption DEF Arrives, TypeOK

LEMMA FinishTypes ==
  ASSUME TypeOK, NEW r \in Request, Finish(r) PROVE rq' \in [Request -> Await]
BY DEF Finish, TypeOK, Await

LEMMA UpdateTypes ==
  ASSUME TypeOK, NEW r \in Request, NEW d \in Date, NEW row \in DateRow,
         NEW point \in Await, Update(r, d, row, point)
  PROVE  /\ dates' \in [Date -> DateRow]
         /\ rq' \in [Request -> Await]
         /\ faults' \in 0..MaxFaults
BY FaultTypes, FinishTypes DEF Update, TypeOK

----------------------------------------------------------------------------
LEMMA InitTypes == Init => TypeOK
<1> SUFFICES ASSUME Init PROVE TypeOK
  OBVIOUS
<1>1. dates \in [Date -> DateRow]
  BY DEF Init, DateRow
<1>2. loop \in [Date -> Task]
  BY DEF Init, NoTask, Task
<1>3. pending \in [Match -> Entry] /\ rq \in [Request -> Await]
  BY DEF Init, Entry, Await
<1>4. said \in [Date -> Seq(Side \cup {None})] /\ late \in [Date -> Nat]
  BY DEF Init
<1>5. quota \in 0..MaxRequests /\ faults \in 0..MaxFaults
  BY BoundsAssumption DEF Init
<1>6. QED
  BY <1>1, <1>2, <1>3, <1>4, <1>5 DEF Init, TypeOK

LEMMA TypeStep == TypeOK /\ [Next]_vars => TypeOK'
<1> SUFFICES ASSUME TypeOK, [Next]_vars PROVE TypeOK'
  OBVIOUS
<1>1. ASSUME NEW r \in Request, NEW m \in Match, NEW s \in Side, ProposeFirst(r, m, s)
      PROVE  TypeOK'
  <2>1. PICK d \in Date : /\ dates' = [dates EXCEPT ![d].match = m]
                          /\ rq' = [rq EXCEPT ![r] = At("inserted", d, s, None)]
    BY <1>1 DEF ProposeFirst
  <2>2. [dates[d] EXCEPT !.match = m] \in DateRow /\ At("inserted", d, s, None) \in Await
    BY Written
  <2>3. dates' \in [Date -> DateRow] /\ rq' \in [Request -> Await]
    BY <2>1, <2>2 DEF TypeOK
  <2>4. QED
    BY <1>1, <2>3, ArrivesTypes DEF TypeOK, ProposeFirst, history
<1>2. ASSUME NEW r \in Request, NEW m \in Match, NEW s \in Side, ProposeSecond(r, m, s)
      PROVE  TypeOK'
  <2>1. pending[m].date \in Date /\ pending[m].by \in Side \cup {None}
    BY <1>2 DEF ProposeSecond, TypeOK, Entry
  <2>2. /\ StartedRow(pending[m].date) \in DateRow
        /\ At("starting", pending[m].date, s, pending[m].by) \in Await
    BY <2>1, Written
  <2>3. /\ dates' \in [Date -> DateRow]
        /\ rq' \in [Request -> Await]
        /\ faults' \in 0..MaxFaults
    BY <1>2, <2>1, <2>2, UpdateTypes DEF ProposeSecond
  <2>4. pending' \in [Match -> Entry]
    BY <1>2 DEF TypeOK, ProposeSecond, TakePending, Entry
  <2>5. QED
    BY <1>2, <2>3, <2>4, ArrivesTypes DEF TypeOK, ProposeSecond, history
<1>3. ASSUME NEW d \in Date, NEW s \in Side, JoinFirst(d, s)
      PROVE  TypeOK'
  <2>1. quota' \in 0..MaxRequests
    BY <1>3, BoundsAssumption DEF TypeOK, JoinFirst
  <2>2. QED
    BY <1>3, <2>1 DEF TypeOK, JoinFirst, history
<1>4. ASSUME NEW r \in Request, NEW d \in Date, NEW s \in Side, JoinSecond(r, d, s)
      PROVE  TypeOK'
  <2>1. StartedRow(d) \in DateRow /\ At("joined", d, s, None) \in Await
    BY Written
  <2>2. /\ dates' \in [Date -> DateRow]
        /\ rq' \in [Request -> Await]
        /\ faults' \in 0..MaxFaults
    BY <1>4, <2>1, UpdateTypes DEF JoinSecond
  <2>3. QED
    BY <1>4, <2>2, ArrivesTypes DEF TypeOK, JoinSecond, history
<1>5. ASSUME NEW r \in Request, NEW d \in Date, NEW o \in Outcome, EndDate(r, d, o)
      PROVE  TypeOK'
  <2>1. EndedRow(d, o) \in DateRow /\ At("ending", d, None, None) \in Await
    BY Written
  <2>2. /\ dates' \in [Date -> DateRow]
        /\ rq' \in [Request -> Await]
        /\ faults' \in 0..MaxFaults
    BY <1>5, <2>1, UpdateTypes DEF EndDate
  <2>3. QED
    BY <1>5, <2>2, ArrivesTypes DEF TypeOK, EndDate, history
<1>6. ASSUME NEW r \in Request, Continue(r)
      PROVE  TypeOK'
  <2>1. /\ rq[r].date \in Date
        /\ rq[r].by \in Side \cup {None} /\ rq[r].first \in Side \cup {None}
    BY <1>6 DEF Continue, AwaitSecond, StartConversation, AnnounceStart, AnnounceEnd,
                TypeOK, Await, Idle, At
  <2>2. CASE AwaitSecond(r)
    <3>1. [date |-> rq[r].date, by |-> rq[r].by] \in Entry
      BY <2>1, Written
    <3>2. QED
      BY <2>1, <2>2, <3>1, FinishTypes DEF TypeOK, AwaitSecond, Publish
  <2>3. CASE StartConversation(r)
    <3>1. [pc |-> "first", first |-> rq[r].first, second |-> rq[r].by] \in Task
      BY <2>1, Written
    <3>2. QED
      BY <2>1, <2>3, <3>1, FinishTypes DEF TypeOK, StartConversation, Publish
  <2>4. CASE AnnounceStart(r)
    BY <2>1, <2>4, FinishTypes DEF TypeOK, AnnounceStart, Publish
  <2>5. CASE AnnounceEnd(r)
    BY <2>1, <2>5, FinishTypes DEF TypeOK, AnnounceEnd, Publish
  <2>6. QED
    BY <1>6, <2>2, <2>3, <2>4, <2>5 DEF Continue
<1>7. ASSUME NEW d \in Date, Converse(d)
      PROVE  TypeOK'
  <2>1. /\ loop[d].first \in Side \cup {None}
        /\ loop[d].second \in Side \cup {None}
    BY DEF TypeOK, Task
  <2>2. ASSUME NEW s \in Side \cup {None}, Store(d, s)
        PROVE  said' \in [Date -> Seq(Side \cup {None})] /\ late' \in [Date -> Nat]
    BY <2>2 DEF TypeOK, Store
  <2>3. ASSUME NEW pc \in {"sent", "reply", "ending", "done"}, GoTo(d, pc)
        PROVE  loop' \in [Date -> Task]
    BY <2>3, Written DEF TypeOK, GoTo
  <2>4. CASE SendFirst(d)
    BY <2>1, <2>2, <2>3, <2>4 DEF TypeOK, SendFirst
  <2>5. CASE CheckDate(d)
    BY <2>3, <2>5 DEF TypeOK, CheckDate, history
  <2>6. CASE Reply(d)
    BY <2>1, <2>2, <2>3, <2>6 DEF TypeOK, Reply, Speaker
  <2>7. CASE AutoEnd(d)
    <3>1. EndedRow(d, "limit") \in DateRow
      BY Written
    <3>2. QED
      BY <2>3, <2>7, <3>1 DEF TypeOK, AutoEnd, history
  <2>8. CASE AnnounceAutoEnd(d)
    BY <2>3, <2>8 DEF TypeOK, AnnounceAutoEnd, Publish
  <2>9. QED
    BY <1>7, <2>4, <2>5, <2>6, <2>7, <2>8 DEF Converse
<1>8. ASSUME NEW r \in Request, HandlerFails(r)
      PROVE  TypeOK'
  BY <1>8, FaultTypes, FinishTypes DEF TypeOK, HandlerFails, history
<1>9. ASSUME NEW d \in Date, LoopFails(d)
      PROVE  TypeOK'
  <2>1. [loop[d] EXCEPT !.pc = "failed"] \in Task
    BY Written
  <2>2. QED
    BY <1>9, <2>1, FaultTypes DEF TypeOK, LoopFails, GoTo, history
<1>10. CASE Restart
  <2>1. pending' \in [Match -> Entry] /\ rq' \in [Request -> Await]
    BY <1>10 DEF Restart, Entry, Await
  <2>2. loop' \in [Date -> Task]
    BY <1>10, Written DEF Restart, TypeOK
  <2>3. QED
    BY <1>10, <2>1, <2>2, FaultTypes DEF Restart, TypeOK, history
<1>11. CASE UNCHANGED vars
  BY <1>11 DEF TypeOK, vars, memory, history
<1>12. QED
  BY <1>1, <1>2, <1>3, <1>4, <1>5, <1>6, <1>7, <1>8, <1>9, <1>10, <1>11
     DEF Next, User, Failure

\* Every variable keeps its type (an invariant of the runs as well).
THEOREM TypeCorrect == Spec => []TypeOK
BY InitTypes, TypeStep, PTL DEF Spec

----------------------------------------------------------------------------
(* The strengthening is inductive.  What each conjunct needs from the       *)
(* others is shown one conjunct at a time.                                  *)

LEMMA AwaitTypes ==
  ASSUME TypeOK, NEW r \in Request, rq[r].pc # "idle"
  PROVE  rq[r].date \in Date /\ rq[r] # Idle
BY DEF TypeOK, Await, Idle, At

LEMMA WaitingTypes ==
  ASSUME TypeOK, NEW m \in Match, pending[m] # Waiting
  PROVE  pending[m].date \in Date
BY DEF TypeOK, Entry

\* The table forgets nothing: a date keeps its match, its start and its end.
Persists(d) ==
  /\ dates'[d].match = dates[d].match
  /\ dates[d].started => dates'[d].started
  /\ dates[d].ended => dates'[d].ended

LEMMA RowChange ==
  ASSUME TypeOK, NEW e \in Date, NEW row \in DateRow,
         dates' = [dates EXCEPT ![e] = row],
         row.match = dates[e].match,
         dates[e].started => row.started,
         dates[e].ended => row.ended
  PROVE  \A d \in Date : Persists(d)
<1> SUFFICES ASSUME NEW d \in Date PROVE Persists(d)
  OBVIOUS
<1>1. CASE d = e
  <2>1. dates'[d] = row
    BY <1>1 DEF TypeOK
  <2>2. QED
    BY <1>1, <2>1 DEF Persists
<1>2. CASE d # e
  <2>1. dates'[d] = dates[d]
    BY <1>2 DEF TypeOK
  <2>2. QED
    BY <2>1 DEF Persists
<1>3. QED
  BY <1>1, <1>2

LEMMA RowFields ==
  ASSUME TypeOK, NEW e \in Date
  PROVE  /\ StartedRow(e).match = dates[e].match
         /\ StartedRow(e).started
         /\ dates[e].ended => StartedRow(e).ended
         /\ \A o : /\ EndedRow(e, o).match = dates[e].match
                   /\ dates[e].started => EndedRow(e, o).started
                   /\ EndedRow(e, o).ended
<1>1. dates[e] \in DateRow
  BY DEF TypeOK
<1>2. QED
  BY <1>1 DEF StartedRow, EndedRow, DateRow

LEMMA RowsPersist ==
  ASSUME TypeOK, [Next]_vars, NEW d \in Date
  PROVE  /\ Exists(d) => Persists(d)
         /\ dates[d].started => dates'[d].started
         /\ dates[d].ended => dates'[d].ended
<1>1. CASE UNCHANGED dates
  BY <1>1 DEF Persists
<1>2. ASSUME NEW r \in Request, NEW e \in Date, NEW p, Update(r, e, StartedRow(e), p)
      PROVE  Persists(d)
  <2>1. CASE dates' = [dates EXCEPT ![e] = StartedRow(e)]
    BY <2>1, RowChange, RowFields, Written
  <2>2. QED
    BY <1>2, <2>1 DEF Update, Persists
<1>3. ASSUME NEW e \in Date, NEW o \in Outcome \cup {None, "limit"},
             dates' = [dates EXCEPT ![e] = EndedRow(e, o)]
      PROVE  Persists(d)
  BY <1>3, RowChange, RowFields, Written
<1>4. ASSUME NEW r \in Request, NEW m \in Match, NEW s \in Side, ProposeFirst(r, m, s)
      PROVE  /\ Exists(d) => Persists(d)
             /\ dates[d].started => dates'[d].started
             /\ dates[d].ended => dates'[d].ended
  <2>1. PICK e \in Date : ~Exists(e) /\ dates' = [dates EXCEPT ![e].match = m]
    BY <1>4 DEF ProposeFirst
  <2>2. CASE d # e
    BY <2>1, <2>2 DEF Persists, TypeOK
  <2>3. CASE d = e
    <3>1. dates'[d] = [dates[d] EXCEPT !.match = m] /\ dates[d] \in DateRow
      BY <2>1, <2>3 DEF TypeOK
    <3>2. dates'[d].started = dates[d].started /\ dates'[d].ended = dates[d].ended
      BY <3>1 DEF DateRow
    <3>3. QED
      BY <2>1, <2>3, <3>2
  <2>4. QED
    BY <2>2, <2>3
<1>5. ASSUME NEW r \in Request, NEW m \in Match, NEW s \in Side, ProposeSecond(r, m, s)
      PROVE  Persists(d)
  BY <1>2, <1>5, WaitingTypes DEF ProposeSecond
<1>6. ASSUME NEW r \in Request, NEW e \in Date, NEW s \in Side, JoinSecond(r, e, s)
      PROVE  Persists(d)
  BY <1>2, <1>6 DEF JoinSecond
<1>7. ASSUME NEW r \in Request, NEW e \in Date, NEW o \in Outcome, EndDate(r, e, o)
      PROVE  Persists(d)
  BY <1>1, <1>3, <1>7 DEF EndDate, Update, Persists
<1>8. ASSUME NEW e \in Date, AutoEnd(e)
      PROVE  Persists(d)
  BY <1>3, <1>8 DEF AutoEnd
<1>9. QED
  BY <1>1, <1>4, <1>5, <1>6, <1>7, <1>8
     DEF Persists, Next, User, Continue, Converse, Failure, JoinFirst, AwaitSecond,
         StartConversation, AnnounceStart, AnnounceEnd, SendFirst, CheckDate, Reply,
         AnnounceAutoEnd, HandlerFails, LoopFails, Restart, vars

LEMMA HandlerStep ==
  ASSUME IInv, [Next]_vars, NEW r \in Request
  PROVE  HandlerOk(r)'
<1> USE DEF IInv
<1>1. CASE rq'[r] = rq[r]
  <2>1. rq[r].pc # "idle" => rq[r].date \in Date
    BY AwaitTypes
  <2>2. QED
    BY <1>1, <2>1, RowsPersist DEF HandlerOk, Exists, Persists
<1>2. CASE rq'[r] = Idle
  BY <1>2 DEF HandlerOk, Idle, At
<1>3. ASSUME NEW q \in Request, NEW d \in Date, NEW s, NEW f,
             Update(q, d, StartedRow(d), At("starting", d, s, f)), Exists(d)
      PROVE  HandlerOk(r)'
  <2>1. CASE rq'[r] = At("starting", d, s, f) /\ dates' = [dates EXCEPT ![d] = StartedRow(d)]
    <3>1. dates'[d] = StartedRow(d)
      BY <2>1 DEF TypeOK
    <3>2. QED
      BY <2>1, <3>1, <1>3, RowFields DEF HandlerOk, At, Exists
  <2>2. QED
    BY <1>1, <1>2, <1>3, <2>1 DEF Update, Finish, TypeOK
<1>4. ASSUME NEW q \in Request, NEW d \in Date, NEW s, NEW f,
             Update(q, d, StartedRow(d), At("joined", d, s, f)), Exists(d)
      PROVE  HandlerOk(r)'
  <2>1. CASE rq'[r] = At("joined", d, s, f) /\ dates' = [dates EXCEPT ![d] = StartedRow(d)]
    <3>1. dates'[d] = StartedRow(d)
      BY <2>1 DEF TypeOK
    <3>2. QED
      BY <2>1, <3>1, <1>4, RowFields DEF HandlerOk, At, Exists
  <2>2. QED
    BY <1>1, <1>2, <1>4, <2>1 DEF Update, Finish, TypeOK
<1>5. ASSUME NEW q \in Request, NEW d \in Date, NEW o \in Outcome, EndDate(q, d, o)
      PROVE  HandlerOk(r)'
  <2>1. CASE /\ rq'[r] = At("ending", d, None, None)
             /\ dates' = [dates EXCEPT ![d] = EndedRow(d, o)]
    <3>1. dates'[d] = EndedRow(d, o)
      BY <2>1 DEF TypeOK
    <3>2. QED
      BY <2>1, <3>1, <1>5, RowFields DEF HandlerOk, At, Exists, EndDate
  <2>2. QED
    BY <1>1, <1>2, <1>5, <2>1 DEF EndDate, Update, Finish, TypeOK
<1>6. ASSUME NEW q \in Request, NEW m \in Match, NEW s \in Side, ProposeFirst(q, m, s)
      PROVE  HandlerOk(r)'
  <2>1. PICK d \in Date : /\ dates' = [dates EXCEPT ![d].match = m]
                          /\ rq' = [rq EXCEPT ![q] = At("inserted", d, s, None)]
    BY <1>6 DEF ProposeFirst
  <2>2. dates'[d].match = m /\ m # None
    BY <2>1, NoneAssumption DEF TypeOK, DateRow
  <2>3. CASE q = r
    BY <2>1, <2>2, <2>3 DEF HandlerOk, At, Exists, TypeOK
  <2>4. QED
    BY <1>1, <2>1, <2>3 DEF TypeOK
<1>7. ASSUME NEW q \in Request, NEW m \in Match, NEW s \in Side, ProposeSecond(q, m, s)
      PROVE  HandlerOk(r)'
  <2>1. pending[m].date \in Date /\ Exists(pending[m].date)
    BY <1>7, WaitingTypes, NoneAssumption DEF ProposeSecond, PendingOk, Exists
  <2>2. QED
    BY <1>3, <1>7, <2>1 DEF ProposeSecond
<1>8. ASSUME NEW q \in Request, NEW d \in Date, NEW s \in Side, JoinSecond(q, d, s)
      PROVE  HandlerOk(r)'
  BY <1>4, <1>8 DEF JoinSecond
<1>9. QED
  BY <1>1, <1>2, <1>5, <1>6, <1>7, <1>8
     DEF TypeOK, Next, User, Continue, Converse, Failure, JoinFirst, AwaitSecond,
         StartConversation, AnnounceStart, AnnounceEnd, SendFirst, CheckDate, Reply,
         AutoEnd, AnnounceAutoEnd, HandlerFails, LoopFails, Restart, Finish, vars, memory

\* What can happen to the task of a date, and to what it said, in one step.
SameTask(d) == loop'[d] = loop[d] /\ said'[d] = said[d] /\ late'[d] = late[d]

TaskDies(d) ==
  /\ Running(d)
  /\ loop'[d] = [loop[d] EXCEPT !.pc = "failed"]
  /\ said'[d] = said[d] /\ late'[d] = late[d]

LEMMA TaskFrame ==
  ASSUME TypeOK, [Next]_vars, NEW d \in Date
  PROVE  \/ SameTask(d)
         \/ Converse(d)
         \/ TaskDies(d)
         \/ \E r \in Request : StartConversation(r) /\ rq[r].date = d
<1>1. ASSUME NEW r \in Request, NEW m \in Match, NEW s \in Side,
             ProposeFirst(r, m, s) \/ ProposeSecond(r, m, s)
      PROVE  SameTask(d)
  BY <1>1 DEF ProposeFirst, ProposeSecond, SameTask, history
<1>2. ASSUME NEW e \in Date, NEW s \in Side,
             JoinFirst(e, s) \/ \E r \in Request : JoinSecond(r, e, s)
      PROVE  SameTask(d)
  BY <1>2 DEF JoinFirst, JoinSecond, SameTask, history
<1>3. ASSUME NEW r \in Request, NEW e \in Date, NEW o \in Outcome, EndDate(r, e, o)
      PROVE  SameTask(d)
  BY <1>3 DEF EndDate, SameTask, history
<1>4. ASSUME NEW r \in Request, Continue(r)
      PROVE  SameTask(d) \/ (StartConversation(r) /\ rq[r].date = d)
  BY <1>4 DEF Continue, AwaitSecond, StartConversation, AnnounceStart, AnnounceEnd, SameTask,
              TypeOK
<1>5. ASSUME NEW e \in Date, e # d, Converse(e)
      PROVE  SameTask(d)
  BY <1>5 DEF Converse, SendFirst, CheckDate, Reply, AutoEnd, AnnounceAutoEnd, Store, GoTo,
              SameTask, history, TypeOK
<1>6. ASSUME NEW r \in Request, HandlerFails(r)
      PROVE  SameTask(d)
  BY <1>6 DEF HandlerFails, SameTask, history
<1>7. ASSUME NEW e \in Date, LoopFails(e)
      PROVE  SameTask(d) \/ TaskDies(d)
  BY <1>7 DEF LoopFails, GoTo, SameTask, TaskDies, history, TypeOK
<1>8. CASE Restart
  BY <1>8 DEF Restart, SameTask, TaskDies, history, TypeOK
<1>9. CASE UNCHANGED vars
  BY <1>9 DEF vars, memory, history, SameTask
<1>10. QED
  BY <1>1, <1>2, <1>3, <1>4, <1>5, <1>6, <1>7, <1>8, <1>9 DEF Next, User, Failure

\* The effect of each step of a task on its own date.
LEMMA ConverseEffect ==
  ASSUME TypeOK, NEW d \in Date, Converse(d)
  PROVE  /\ loop[d].pc \in {"first", "sent", "reply", "ending"}
         /\ loop'[d].pc \in {"sent", "reply", "ending", "done"}
         /\ loop[d].pc \in {"first", "reply"} =>
              /\ loop'[d].pc = "sent"
              /\ Len(said'[d]) = Len(said[d]) + 1
              /\ late'[d] = late[d] + (IF dates[d].ended THEN 1 ELSE 0)
              /\ dates' = dates
         /\ loop[d].pc \in {"sent", "ending"} => said'[d] = said[d] /\ late'[d] = late[d]
         /\ loop[d].pc = "sent" /\ Len(said[d]) < MaxMessages =>
              /\ dates[d].ended => loop'[d].pc = "done"
              /\ ~dates[d].ended => loop'[d].pc = "reply"
              /\ dates' = dates
         /\ loop[d].pc = "sent" /\ Len(said[d]) >= MaxMessages =>
              /\ loop'[d].pc = "ending"
              /\ dates' = [dates EXCEPT ![d] = EndedRow(d, "limit")]
         /\ loop[d].pc = "ending" => loop'[d].pc = "done" /\ dates' = dates
<1>1. /\ said[d] \in Seq(Side \cup {None}) /\ Len(said[d]) \in Nat /\ MaxMessages \in Nat
      /\ \A s : Len(Append(said[d], s)) = Len(said[d]) + 1
      /\ loop[d] \in Task
  BY MaxMessagesAssumption DEF TypeOK
<1>2. ASSUME NEW pc, GoTo(d, pc) PROVE loop'[d].pc = pc
  BY <1>1, <1>2 DEF GoTo, TypeOK, Task
<1>3. ASSUME NEW s, Store(d, s)
      PROVE  /\ Len(said'[d]) = Len(said[d]) + 1
             /\ late'[d] = late[d] + (IF dates[d].ended THEN 1 ELSE 0)
  BY <1>1, <1>3 DEF Store, TypeOK
<1>4. CASE SendFirst(d)
  BY <1>1, <1>2, <1>3, <1>4 DEF SendFirst
<1>5. CASE CheckDate(d)
  BY <1>1, <1>2, <1>5 DEF CheckDate, Full, SeesEnd, history
<1>6. CASE Reply(d)
  BY <1>1, <1>2, <1>3, <1>6 DEF Reply
<1>7. CASE AutoEnd(d)
  BY <1>1, <1>2, <1>7 DEF AutoEnd, Full, history
<1>8. CASE AnnounceAutoEnd(d)
  BY <1>1, <1>2, <1>8 DEF AnnounceAutoEnd
<1>9. QED
  BY <1>4, <1>5, <1>6, <1>7, <1>8 DEF Converse

LEMMA TaskStep ==
  ASSUME IInv, [Next]_vars, NEW d \in Date
  PROVE  TaskOk(d)'
<1> USE DEF IInv
<1>1. dates[d].ended => dates'[d].ended
  BY RowsPersist
<1>2. ~Exists(d)' => ~Exists(d)
  BY RowsPersist DEF Exists, Persists
<1>3. late[d] \in Nat
  BY DEF TypeOK
<1>4. CASE SameTask(d)
  BY <1>1, <1>2, <1>4 DEF TaskOk, SameTask
<1>5. CASE Converse(d)
  <2>1. Exists(d)'
    BY <1>2, <1>5, ConverseEffect DEF TaskOk, NoTask
  <2>2. CASE loop[d].pc \in {"first", "reply"}
    <3>1. late[d] = 0 /\ loop'[d].pc = "sent"
      BY <1>5, <2>2, ConverseEffect DEF TaskOk
    <3>2. late'[d] = (IF dates[d].ended THEN 1 ELSE 0)
      BY <1>5, <2>2, <3>1, ConverseEffect
    <3>3. late'[d] <= 1 /\ (late'[d] > 0 => dates'[d].ended)
      BY <1>1, <3>2
    <3>4. QED
      BY <2>1, <3>1, <3>3 DEF TaskOk
  <2>3. CASE loop[d].pc \in {"sent", "ending"}
    <3>1. loop'[d].pc = "reply" => ~dates[d].ended
      BY <1>5, <2>3, ConverseEffect, MaxMessagesAssumption DEF TypeOK
    <3>2. QED
      BY <1>1, <1>3, <1>5, <2>1, <2>3, <3>1, ConverseEffect DEF TaskOk
  <2>4. QED
    BY <1>5, <2>2, <2>3, ConverseEffect
<1>6. CASE TaskDies(d)
  <2>1. loop'[d].pc = "failed"
    BY <1>6 DEF TaskDies, TypeOK, Task
  <2>2. Exists(d)'
    BY <1>2, <1>6 DEF TaskOk, TaskDies, Running, NoTask
  <2>3. QED
    BY <1>1, <1>6, <2>1, <2>2 DEF TaskOk, TaskDies
<1>7. ASSUME NEW r \in Request, StartConversation(r), rq[r].date = d
      PROVE  TaskOk(d)'
  <2>1. loop[d] = NoTask /\ Exists(d)
    BY <1>7 DEF StartConversation, HandlerOk, HeldOk, Unstarted
  <2>2. loop'[d].pc = "first" /\ UNCHANGED <<dates, said, late>>
    BY <1>7 DEF StartConversation, TypeOK
  <2>3. QED
    BY <2>1, <2>2 DEF TaskOk, NoTask, Exists
<1>8. QED
  BY <1>4, <1>5, <1>6, <1>7, TaskFrame

\* A date without a task has none after a step either, unless a handler that
\* holds it starts its conversation.
LEMMA TasklessFrame ==
  ASSUME IInv, [Next]_vars, NEW d \in Date, loop[d] = NoTask,
         \A r \in Request : StartConversation(r) => rq[r].date # d
  PROVE  loop'[d] = NoTask
<1>1. TypeOK /\ loop[d].pc = "none"
  BY DEF IInv, NoTask
<1>2. ~Converse(d) /\ ~TaskDies(d)
  BY <1>1, ConverseEffect DEF TaskDies, Running
<1>3. QED
  BY <1>1, <1>2, TaskFrame DEF SameTask

LEMMA PendingStep ==
  ASSUME IInv, [Next]_vars, NEW m \in Match
  PROVE  PendingOk(m)'
<1> USE DEF IInv
<1>1. CASE pending'[m] = Waiting
  BY <1>1 DEF PendingOk
<1>2. CASE pending'[m] = pending[m] /\ pending[m] # Waiting
  <2>1. pending[m].date \in Date /\ Exists(pending[m].date)
    BY <1>2, WaitingTypes, NoneAssumption DEF PendingOk, Exists
  <2>2. \A r \in Request : StartConversation(r) => rq[r].date # pending[m].date
    BY DEF StartConversation, HeldOk, Unstarted
  <2>3. loop'[pending[m].date] = NoTask
    BY <1>2, <2>1, <2>2, TasklessFrame DEF PendingOk
  <2>4. QED
    BY <1>2, <2>1, <2>3, RowsPersist DEF PendingOk, Persists
<1>3. ASSUME NEW r \in Request, AwaitSecond(r), dates[rq[r].date].match = m
      PROVE  PendingOk(m)'
  <2>1. pending'[m] = [date |-> rq[r].date, by |-> rq[r].by]
    BY <1>3 DEF AwaitSecond, TypeOK
  <2>2. loop[rq[r].date] = NoTask
    BY <1>3 DEF AwaitSecond, HeldOk, Unstarted
  <2>3. QED
    BY <1>3, <2>1, <2>2 DEF AwaitSecond, PendingOk
<1>4. QED
  BY <1>1, <1>2, <1>3
     DEF TypeOK, Next, User, Continue, Converse, Failure, ProposeFirst, ProposeSecond,
         TakePending, JoinFirst, JoinSecond, EndDate, AwaitSecond, StartConversation,
         AnnounceStart, AnnounceEnd, SendFirst, CheckDate, Reply, AutoEnd,
         AnnounceAutoEnd, HandlerFails, LoopFails, Restart, vars, memory

\* A handler is about to start its date, or holds it, only if it did so before
\* or if this very step put it there.
LEMMA HeldFrame ==
  ASSUME TypeOK, [Next]_vars, NEW r \in Request, rq'[r].pc \in Unstarted
  PROVE  \/ rq'[r] = rq[r]
         \/ \E m \in Match, s \in Side : ProposeFirst(r, m, s) \/ ProposeSecond(r, m, s)
<1> USE DEF TypeOK, Unstarted
<1>1. ASSUME NEW q \in Request, Finish(q)
      PROVE  rq'[r] = rq[r]
  BY <1>1 DEF Finish, Idle, At
<1>2. ASSUME NEW q \in Request, NEW m \in Match, NEW s \in Side, q # r,
             ProposeFirst(q, m, s) \/ ProposeSecond(q, m, s)
      PROVE  rq'[r] = rq[r]
  BY <1>1, <1>2 DEF ProposeFirst, ProposeSecond, Update
<1>3. ASSUME NEW q \in Request, NEW d \in Date, NEW s \in Side, JoinSecond(q, d, s)
      PROVE  rq'[r] = rq[r]
  BY <1>1, <1>3 DEF JoinSecond, Update, At
<1>4. ASSUME NEW q \in Request, NEW d \in Date, NEW o \in Outcome, EndDate(q, d, o)
      PROVE  rq'[r] = rq[r]
  BY <1>1, <1>4 DEF EndDate, Update, At
<1>5. ~Restart
  BY DEF Restart, Idle, At
<1>6. QED
  BY <1>1, <1>2, <1>3, <1>4, <1>5
     DEF Next, User, Continue, Converse, Failure, JoinFirst, AwaitSecond, StartConversation,
         AnnounceStart, AnnounceEnd, SendFirst, CheckDate, Reply, AutoEnd,
         AnnounceAutoEnd, HandlerFails, LoopFails, vars, memory

LEMMA HeldStep ==
  ASSUME IInv, [Next]_vars, NEW r \in Request
  PROVE  HeldOk(r)'
<1> SUFFICES ASSUME rq'[r].pc \in Unstarted PROVE HeldOk(r)'
  BY DEF HeldOk
<1> USE DEF IInv
<1> DEFINE d == rq'[r].date
<1>0. /\ None \notin Date
      /\ \A q \in Request : rq[q].pc \in Unstarted => rq[q].date \in Date /\ Exists(rq[q].date)
      /\ \A m \in Match : pending[m] # Waiting =>
           pending[m].date \in Date /\ Exists(pending[m].date)
  BY NoneAssumption, AwaitTypes, WaitingTypes DEF HandlerOk, PendingOk, Exists, Unstarted
<1>1. CASE rq'[r] = rq[r]
  <2>1. /\ loop[d] = NoTask
        /\ \A m \in Match : pending[m].date # d
        /\ \A q \in Request \ {r} : rq[q].pc \in Unstarted => rq[q].date # d
        /\ d \in Date /\ Exists(d)
    BY <1>0, <1>1 DEF HeldOk
  <2>2. ASSUME NEW q \in Request, Finish(q) PROVE q # r
    BY <1>1, <2>2 DEF Finish, Idle, At, Unstarted, TypeOK
  <2>3. loop'[d] = NoTask
    BY <2>1, <2>2, TasklessFrame DEF StartConversation, Unstarted
  <2>4. ASSUME NEW m \in Match PROVE pending'[m].date # d
    <3>1. CASE pending'[m] = pending[m] \/ pending'[m] = Waiting
      BY <1>0, <2>1, <3>1 DEF Waiting
    <3>2. ASSUME NEW q \in Request, AwaitSecond(q), dates[rq[q].date].match = m
          PROVE  pending'[m].date # d
      <4>1. pending'[m].date = rq[q].date
        BY <3>2 DEF AwaitSecond, TypeOK
      <4>2. q # r /\ rq[q].pc \in Unstarted
        BY <2>2, <3>2 DEF AwaitSecond, Unstarted
      <4>3. QED
        BY <2>1, <4>1, <4>2
    <3>3. QED
      BY <3>1, <3>2
         DEF TypeOK, Next, User, Continue, Converse, Failure, ProposeFirst, ProposeSecond,
             TakePending, JoinFirst, JoinSecond, EndDate, AwaitSecond, StartConversation,
             AnnounceStart, AnnounceEnd, SendFirst, CheckDate, Reply, AutoEnd,
             AnnounceAutoEnd, HandlerFails, LoopFails, Restart, vars, memory
  <2>5. ASSUME NEW q \in Request \ {r}, rq'[q].pc \in Unstarted PROVE rq'[q].date # d
    <3>1. CASE rq'[q] = rq[q]
      BY <2>1, <2>5, <3>1
    <3>2. ASSUME NEW m \in Match, NEW s \in Side, ProposeFirst(q, m, s)
          PROVE  rq'[q].date # d
      BY <2>1, <3>2 DEF ProposeFirst, At, TypeOK
    <3>3. ASSUME NEW m \in Match, NEW s \in Side, ProposeSecond(q, m, s)
          PROVE  rq'[q].date # d
      BY <2>1, <2>5, <3>3 DEF ProposeSecond, Update, Finish, Idle, At, Unstarted, TypeOK
    <3>4. QED
      BY <2>5, <3>1, <3>2, <3>3, HeldFrame
  <2>6. QED
    BY <2>3, <2>4, <2>5 DEF HeldOk
<1>2. ASSUME NEW m \in Match, NEW s \in Side, ProposeFirst(r, m, s)
      PROVE  HeldOk(r)'
  <2>1. PICK e \in Date : ~Exists(e) /\ rq' = [rq EXCEPT ![r] = At("inserted", e, s, None)]
    BY <1>2 DEF ProposeFirst
  <2>2. d = e /\ \A q \in Request \ {r} : rq'[q] = rq[q]
    BY <2>1 DEF At, TypeOK
  <2>3. loop'[d] = NoTask
    BY <1>2, <2>1, <2>2 DEF ProposeFirst, TaskOk
  <2>4. \A n \in Match : pending'[n].date # d
    BY <1>0, <1>2, <2>1, <2>2 DEF ProposeFirst, Waiting
  <2>5. QED
    BY <1>0, <2>1, <2>2, <2>3, <2>4 DEF HeldOk
<1>3. ASSUME NEW m \in Match, NEW s \in Side, ProposeSecond(r, m, s)
      PROVE  HeldOk(r)'
  <2>1. /\ rq' = [rq EXCEPT ![r] = At("starting", pending[m].date, s, pending[m].by)]
        /\ pending[m] # Waiting
    BY <1>3 DEF ProposeSecond, Update, Finish, Idle, At, Unstarted, TypeOK
  <2>2. d = pending[m].date /\ \A q \in Request \ {r} : rq'[q] = rq[q]
    BY <2>1 DEF At, TypeOK
  <2>3. loop'[d] = NoTask
    BY <1>3, <2>1, <2>2 DEF ProposeSecond, PendingOk
  <2>4. ASSUME NEW n \in Match PROVE pending'[n].date # d
    <3>1. d \in Date /\ dates[d].match = m
      BY <1>0, <2>1, <2>2 DEF PendingOk
    <3>2. CASE n = m
      BY <1>0, <1>3, <3>1, <3>2 DEF ProposeSecond, TakePending, Waiting, TypeOK
    <3>3. CASE n # m
      <4>1. pending'[n] = pending[n]
        BY <1>3, <3>3 DEF ProposeSecond, TakePending, TypeOK
      <4>2. CASE pending[n] = Waiting
        BY <1>0, <3>1, <4>1, <4>2 DEF Waiting
      <4>3. CASE pending[n] # Waiting
        BY <3>1, <3>3, <4>1, <4>3 DEF PendingOk
      <4>4. QED
        BY <4>2, <4>3
    <3>4. QED
      BY <3>2, <3>3
  <2>5. \A q \in Request \ {r} : rq[q].pc \in Unstarted => rq[q].date # d
    BY <2>2 DEF HeldOk
  <2>6. QED
    BY <2>2, <2>3, <2>4, <2>5 DEF HeldOk
<1>4. QED
  BY <1>1, <1>2, <1>3, HeldFrame

\* "limit" is written by the task of the date only, when its messages are spent.
LEMMA OutcomeRow ==
  ASSUME TypeOK, NEW e \in Date, NEW row \in DateRow, NEW d \in Date,
         dates' = [dates EXCEPT ![e] = row],
         row.outcome \in {dates[e].outcome} \cup Outcome,
         dates'[d].outcome = "limit"
  PROVE  dates[d].outcome = "limit"
<1>1. CASE d = e
  <2>1. dates'[d] = row
    BY <1>1 DEF TypeOK
  <2>2. QED
    BY <1>1, <2>1, OutcomeAssumption
<1>2. CASE d # e
  BY <1>2 DEF TypeOK
<1>3. QED
  BY <1>1, <1>2

LEMMA OutcomeFrame ==
  ASSUME TypeOK, [Next]_vars, NEW d \in Date, dates'[d].outcome = "limit"
  PROVE  dates[d].outcome = "limit" \/ AutoEnd(d)
<1>1. CASE dates' = dates
  BY <1>1
<1>2. ASSUME NEW r \in Request, NEW e \in Date, NEW p, Update(r, e, StartedRow(e), p)
      PROVE  dates[d].outcome = "limit"
  <2>1. StartedRow(e).outcome = dates[e].outcome
    BY DEF StartedRow, TypeOK, DateRow
  <2>2. QED
    BY <1>2, <2>1, OutcomeRow, Written DEF Update
<1>3. ASSUME NEW r \in Request, NEW m \in Match, NEW s \in Side, ProposeFirst(r, m, s)
      PROVE  dates[d].outcome = "limit"
  <2>1. PICK e \in Date : dates' = [dates EXCEPT ![e].match = m]
    BY <1>3 DEF ProposeFirst
  <2>2. dates' = [dates EXCEPT ![e] = [dates[e] EXCEPT !.match = m]]
    BY <2>1
  <2>3. [dates[e] EXCEPT !.match = m].outcome = dates[e].outcome
    BY DEF TypeOK, DateRow
  <2>4. QED
    BY <2>2, <2>3, OutcomeRow, Written
<1>4. ASSUME NEW r \in Request, NEW m \in Match, NEW s \in Side, ProposeSecond(r, m, s)
      PROVE  dates[d].outcome = "limit"
  BY <1>2, <1>4, WaitingTypes DEF ProposeSecond
<1>5. ASSUME NEW r \in Request, NEW e \in Date, NEW s \in Side, JoinSecond(r, e, s)
      PROVE  dates[d].outcome = "limit"
  BY <1>2, <1>5 DEF JoinSecond
<1>6. ASSUME NEW r \in Request, NEW e \in Date, NEW o \in Outcome, EndDate(r, e, o)
      PROVE  dates[d].outcome = "limit"
  <2>1. EndedRow(e, o).outcome = o
    BY DEF EndedRow, TypeOK, DateRow
  <2>2. CASE dates' = [dates EXCEPT ![e] = EndedRow(e, o)]
    BY <2>1, <2>2, OutcomeRow, Written
  <2>3. QED
    BY <1>1, <1>6, <2>2 DEF EndDate, Update
<1>7. ASSUME NEW e \in Date, e # d, AutoEnd(e)
      PROVE  dates[d].outcome = "limit"
  BY <1>7 DEF AutoEnd, TypeOK
<1>8. QED
  BY <1>1, <1>3, <1>4, <1>5, <1>6, <1>7
     DEF Next, User, Continue, Converse, Failure, JoinFirst, AwaitSecond,
         StartConversation, AnnounceStart, AnnounceEnd, SendFirst, CheckDate, Reply,
         AnnounceAutoEnd, HandlerFails, LoopFails, Restart, vars

LEMMA BudgetStep ==
  ASSUME IInv, [Next]_vars, NEW d \in Date
  PROVE  BudgetOk(d)'
<1> USE DEF IInv
<1>1. /\ Len(said[d]) \in Nat /\ MaxMessages \in Nat /\ MaxMessages >= 2
      /\ loop[d] \in Task
  BY MaxMessagesAssumption DEF TypeOK
<1>2. dates[d].ended => dates'[d].ended
  BY RowsPersist
<1>3. dates'[d].outcome = "limit" => Len(said[d]) = MaxMessages
  <2>1. AutoEnd(d) => Len(said[d]) = MaxMessages
    BY <1>1 DEF AutoEnd, Full, BudgetOk
  <2>2. QED
    BY <2>1, OutcomeFrame DEF BudgetOk
<1>4. CASE SameTask(d)
  BY <1>2, <1>3, <1>4 DEF BudgetOk, SameTask
<1>5. CASE Converse(d)
  <2>1. CASE loop[d].pc \in {"first", "reply"}
    <3>1. /\ Len(said[d]) < MaxMessages
      <4>1. loop[d].pc = "first" => Len(said[d]) = 0
        BY DEF TaskOk
      <4>2. QED
        BY <1>1, <2>1, <4>1 DEF BudgetOk
    <3>2. Len(said'[d]) = Len(said[d]) + 1 /\ loop'[d].pc = "sent" /\ dates' = dates
      BY <1>5, <2>1, ConverseEffect
    <3>3. dates'[d].outcome # "limit"
      BY <1>1, <1>3, <3>1
    <3>4. QED
      BY <1>1, <3>1, <3>2, <3>3 DEF BudgetOk
  <2>2. CASE loop[d].pc = "sent" /\ Len(said[d]) < MaxMessages
    <3>1. said'[d] = said[d] /\ loop'[d].pc \in {"done", "reply"}
      BY <1>5, <2>2, ConverseEffect
    <3>2. QED
      BY <1>3, <2>2, <3>1 DEF BudgetOk
  <2>3. CASE loop[d].pc = "sent" /\ Len(said[d]) >= MaxMessages
    <3>1. /\ said'[d] = said[d] /\ loop'[d].pc = "ending"
          /\ dates' = [dates EXCEPT ![d] = EndedRow(d, "limit")]
      BY <1>5, <2>3, ConverseEffect
    <3>2. dates'[d].ended
      BY <3>1, RowFields DEF TypeOK
    <3>3. Len(said[d]) = MaxMessages
      BY <1>1, <2>3 DEF BudgetOk
    <3>4. QED
      BY <1>3, <3>1, <3>2, <3>3 DEF BudgetOk
  <2>4. CASE loop[d].pc = "ending"
    <3>1. said'[d] = said[d] /\ loop'[d].pc = "done"
      BY <1>5, <2>4, ConverseEffect
    <3>2. QED
      BY <1>3, <3>1 DEF BudgetOk
  <2>5. QED
    BY <1>1, <1>5, <2>1, <2>2, <2>3, <2>4, ConverseEffect
<1>6. CASE TaskDies(d)
  <2>1. loop'[d].pc = "failed" /\ said'[d] = said[d]
    BY <1>1, <1>6 DEF TaskDies, Task
  <2>2. QED
    BY <1>3, <2>1 DEF BudgetOk
<1>7. ASSUME NEW r \in Request, StartConversation(r), rq[r].date = d
      PROVE  BudgetOk(d)'
  <2>1. loop'[d].pc = "first" /\ said' = said
    BY <1>7 DEF StartConversation, TypeOK
  <2>2. QED
    BY <1>3, <2>1 DEF BudgetOk
<1>8. QED
  BY <1>4, <1>5, <1>6, <1>7, TaskFrame

\* What may be announced about a date in one step.
LEMMA PublishedFrame ==
  ASSUME TypeOK, [Next]_vars, NEW d \in Date
  PROVE  \/ published'[d] = published[d]
         \/ /\ published'[d] = published[d] \cup {"proposed"}
            /\ \E r \in Request : AwaitSecond(r) /\ rq[r].date = d
         \/ /\ published'[d] = published[d] \cup {"started"}
            /\ \E r \in Request : (StartConversation(r) \/ AnnounceStart(r)) /\ rq[r].date = d
         \/ /\ published'[d] = published[d] \cup {"ended"}
            /\ \/ AnnounceAutoEnd(d)
               \/ \E r \in Request : AnnounceEnd(r) /\ rq[r].date = d
<1>1. ASSUME NEW e \in Date, NEW event, Publish(e, event)
      PROVE  /\ d # e => published'[d] = published[d]
             /\ d = e => published'[d] = published[d] \cup {event}
  BY <1>1 DEF Publish, TypeOK
<1>2. ASSUME NEW r \in Request, Continue(r)
      PROVE  rq[r].date \in Date
  BY <1>2, AwaitTypes DEF Continue, AwaitSecond, StartConversation, AnnounceStart, AnnounceEnd
<1>3. ASSUME NEW r \in Request, AwaitSecond(r)
      PROVE  /\ d # rq[r].date => published'[d] = published[d]
             /\ d = rq[r].date => published'[d] = published[d] \cup {"proposed"}
  BY <1>1, <1>2, <1>3 DEF Continue, AwaitSecond
<1>4. ASSUME NEW r \in Request, StartConversation(r) \/ AnnounceStart(r)
      PROVE  /\ d # rq[r].date => published'[d] = published[d]
             /\ d = rq[r].date => published'[d] = published[d] \cup {"started"}
  BY <1>1, <1>2, <1>4 DEF Continue, StartConversation, AnnounceStart
<1>5. ASSUME NEW r \in Request, AnnounceEnd(r)
      PROVE  /\ d # rq[r].date => published'[d] = published[d]
             /\ d = rq[r].date => published'[d] = published[d] \cup {"ended"}
  BY <1>1, <1>2, <1>5 DEF Continue, AnnounceEnd
<1>6. ASSUME NEW e \in Date, AnnounceAutoEnd(e)
      PROVE  /\ d # e => published'[d] = published[d]
             /\ d = e => published'[d] = published[d] \cup {"ended"}
  BY <1>1, <1>6 DEF AnnounceAutoEnd
<1>7. CASE UNCHANGED published
  BY <1>7
<1>8. QED
  BY <1>3, <1>4, <1>5, <1>6, <1>7
     DEF Next, User, Continue, Converse, Failure, ProposeFirst, ProposeSecond, JoinFirst,
         JoinSecond, EndDate, SendFirst, CheckDate, Reply, AutoEnd, HandlerFails,
         LoopFails, Restart, vars, history

LEMMA AnnouncedStep ==
  ASSUME IInv, [Next]_vars, NEW d \in Date
  PROVE  AnnouncedOk(d)'
<1> USE DEF IInv
<1>1. /\ Exists(d) => Exists(d)'
      /\ dates[d].started => dates'[d].started
      /\ dates[d].ended => dates'[d].ended
  BY RowsPersist DEF Exists, Persists
<1>2. CASE published'[d] = published[d]
  BY <1>1, <1>2 DEF AnnouncedOk
<1>3. ASSUME NEW r \in Request, AwaitSecond(r), rq[r].date = d,
             published'[d] = published[d] \cup {"proposed"}
      PROVE  AnnouncedOk(d)'
  <2>1. Exists(d)
    BY <1>3 DEF AwaitSecond, HandlerOk
  <2>2. QED
    BY <1>1, <1>3, <2>1 DEF AnnouncedOk
<1>4. ASSUME NEW r \in Request, StartConversation(r) \/ AnnounceStart(r), rq[r].date = d,
             published'[d] = published[d] \cup {"started"}
      PROVE  AnnouncedOk(d)'
  <2>1. dates[d].started
    BY <1>4 DEF StartConversation, AnnounceStart, HandlerOk
  <2>2. QED
    BY <1>1, <1>4, <2>1 DEF AnnouncedOk
<1>5. ASSUME AnnounceAutoEnd(d) \/ \E r \in Request : AnnounceEnd(r) /\ rq[r].date = d,
             published'[d] = published[d] \cup {"ended"}
      PROVE  AnnouncedOk(d)'
  <2>1. dates[d].ended
    BY <1>5 DEF AnnounceAutoEnd, AnnounceEnd, HandlerOk, BudgetOk
  <2>2. QED
    BY <1>1, <1>5, <2>1 DEF AnnouncedOk
<1>6. QED
  BY <1>2, <1>3, <1>4, <1>5, PublishedFrame

----------------------------------------------------------------------------
LEMMA InitIInv == Init => IInv
<1> SUFFICES ASSUME Init PROVE IInv
  OBVIOUS
<1>1. TypeOK
  BY InitTypes
<1>2. ASSUME NEW r \in Request PROVE HandlerOk(r) /\ HeldOk(r)
  BY DEF Init, HandlerOk, HeldOk, Unstarted, Idle, At
<1>3. ASSUME NEW m \in Match PROVE PendingOk(m)
  BY DEF Init, PendingOk
<1>4. ASSUME NEW d \in Date PROVE TaskOk(d) /\ BudgetOk(d) /\ AnnouncedOk(d)
  <2>1. TaskOk(d) /\ AnnouncedOk(d)
    BY DEF Init, TaskOk, AnnouncedOk, NoTask
  <2>2. Len(said[d]) = 0 /\ MaxMessages \in Nat /\ dates[d].outcome # "limit"
    BY MaxMessagesAssumption, NoneAssumption DEF Init
  <2>3. loop[d].pc = "none"
    BY DEF Init, NoTask
  <2>4. QED
    BY <2>1, <2>2, <2>3 DEF BudgetOk
<1>5. QED
  BY <1>1, <1>2, <1>3, <1>4 DEF IInv

\* The inductive invariant holds throughout, failures and restarts included.
THEOREM Invariance == Spec => []IInv
<1>1. IInv /\ [Next]_vars => IInv'
  BY TypeStep, HandlerStep, HeldStep, PendingStep, TaskStep, BudgetStep, AnnouncedStep
     DEF IInv
<1>2. QED
  BY InitIInv, <1>1, PTL DEF Spec

\* At most the message that was being generated when a date ended is stored
\* after its end (date_handler.py:164-170).
THEOREM LateMessageBound == Spec => []AtMostOneLateMessage
<1>1. IInv => AtMostOneLateMessage
  BY DEF IInv, TaskOk, AtMostOneLateMessage
<1>2. QED
  BY Invariance, <1>1, PTL

\* No conversation exceeds MAX_MESSAGES, and the task ends only the date of one
\* that used them all (date_handler.py:162, 181-182).
THEOREM BudgetKept == Spec => []WithinBudget
<1>1. IInv => WithinBudget
  BY DEF IInv, BudgetOk, WithinBudget
<1>2. QED
  BY Invariance, <1>1, PTL

\* Events about a date announce what the table already holds.
THEOREM AnnouncementsAreTrue == Spec => []AnnouncedIsCommitted
<1>1. IInv => AnnouncedIsCommitted
  BY DEF IInv, AnnouncedOk, AnnouncedIsCommitted
<1>2. QED
  BY Invariance, <1>1, PTL

\* A date that waits for its second press has no task and no message, and
\* belongs to the match that waits for it (date_handler.py:77-81, 98).
THEOREM WaitingSilence == Spec => []WaitingIsSilent
<1>1. IInv => WaitingIsSilent
  BY WaitingTypes DEF IInv, PendingOk, TaskOk, NoTask, WaitingIsSilent
<1>2. QED
  BY Invariance, <1>1, PTL

\* No date is given a second conversation task, whatever the order of presses,
\* failures and restarts.
THEOREM SingleConversation == Spec => OneConversation
<1>1. ASSUME IInv, [Next]_vars, NEW d \in Date, loop[d].pc # "none"
      PROVE  loop'[d].pc # "first" \/ loop[d].pc = "first"
  <2>1. TypeOK /\ loop[d] \in Task
    BY <1>1 DEF IInv, TypeOK
  <2>2. CASE SameTask(d)
    BY <2>2 DEF SameTask
  <2>3. CASE Converse(d)
    BY <2>1, <2>3, ConverseEffect
  <2>4. CASE TaskDies(d)
    BY <2>1, <2>4 DEF TaskDies, Task
  <2>5. ASSUME NEW r \in Request, StartConversation(r), rq[r].date = d
        PROVE  FALSE
    BY <1>1, <2>5 DEF IInv, HeldOk, Unstarted, StartConversation, NoTask
  <2>6. QED
    BY <1>1, <2>1, <2>2, <2>3, <2>4, <2>5, TaskFrame
<1>2. IInv /\ [Next]_vars =>
        (\A d \in Date : loop[d].pc # "none" => loop'[d].pc # "first" \/ loop[d].pc = "first")
  BY <1>1
<1>3. QED
  BY Invariance, <1>2, PTL DEF Spec, OneConversation

----------------------------------------------------------------------------
(* Who speaks                                                              *)

Turn(d, i) == IF i = 1 \/ i % 2 = 0 THEN loop[d].first ELSE loop[d].second

TurnOk(d) ==
  /\ \A i \in 1..Len(said[d]) : said[d][i] = Turn(d, i)
  /\ loop[d].pc \in {"sent", "reply"} => Len(said[d]) > 0

TurnInv == \A d \in Date : TurnOk(d)

LEMMA Parity == ASSUME NEW n \in Nat PROVE (n + 1) % 2 = 0 <=> n % 2 # 0
OBVIOUS

\* One message more, from the one whose turn it is.
LEMMA TurnTaken ==
  ASSUME TypeOK, NEW d \in Date, NEW s \in Side \cup {None}, s = Turn(d, Len(said[d]) + 1),
         \A i \in 1..Len(said[d]) : said[d][i] = Turn(d, i),
         Store(d, s), GoTo(d, "sent")
  PROVE  TurnOk(d)'
<1> DEFINE n == Len(said[d])
<1>1. said[d] \in Seq(Side \cup {None}) /\ n \in Nat /\ loop[d] \in Task
  BY DEF TypeOK
<1>2. said'[d] = Append(said[d], s)
  BY DEF Store, TypeOK
<1>3. Len(said'[d]) = n + 1 /\ said'[d][n + 1] = s /\ \A i \in 1..n : said'[d][i] = said[d][i]
  BY <1>1, <1>2
<1>4. loop'[d].first = loop[d].first /\ loop'[d].second = loop[d].second
  BY <1>1 DEF GoTo, TypeOK, Task
<1> HIDE DEF n
<1>5. ASSUME NEW i \in 1..(n + 1) PROVE said'[d][i] = Turn(d, i)'
  <2>1. i \in 1..n \/ i = n + 1
    BY <1>1, <1>5
  <2>2. said'[d][i] = Turn(d, i)
    BY <1>3, <2>1 DEF n
  <2>3. QED
    BY <1>4, <2>2 DEF Turn
<1>6. Len(said'[d]) > 0
  BY <1>1, <1>3
<1>7. QED
  BY <1>3, <1>5, <1>6 DEF TurnOk

LEMMA TurnStep ==
  ASSUME IInv, TurnInv, [Next]_vars, NEW d \in Date PROVE TurnOk(d)'
<1> USE DEF IInv
<1>1. /\ said[d] \in Seq(Side \cup {None}) /\ Len(said[d]) \in Nat /\ loop[d] \in Task
      /\ TurnOk(d)
  BY DEF TypeOK, TurnInv
<1>2. ASSUME said'[d] = said[d], loop'[d].first = loop[d].first, loop'[d].second = loop[d].second,
             loop'[d].pc \in {"sent", "reply"} => Len(said[d]) > 0
      PROVE  TurnOk(d)'
  BY <1>1, <1>2 DEF TurnOk, Turn
<1>3. ASSUME NEW pc \in {"reply", "ending", "done", "failed"},
             loop'[d] = [loop[d] EXCEPT !.pc = pc], said'[d] = said[d],
             pc = "reply" => loop[d].pc = "sent"
      PROVE  TurnOk(d)'
  BY <1>1, <1>2, <1>3 DEF Task, TurnOk
<1>4. CASE SameTask(d)
  BY <1>1, <1>2, <1>4 DEF SameTask, TurnOk
<1>5. CASE TaskDies(d)
  BY <1>3, <1>5 DEF TaskDies
<1>6. ASSUME NEW r \in Request, StartConversation(r), rq[r].date = d PROVE TurnOk(d)'
  <2>1. said[d] = <<>>
    BY <1>6 DEF StartConversation, HandlerOk, HeldOk, Unstarted, TaskOk, NoTask
  <2>2. said'[d] = <<>> /\ loop'[d].pc = "first"
    BY <1>6, <2>1 DEF StartConversation, TypeOK
  <2>3. QED
    BY <2>2 DEF TurnOk
<1>7. CASE SendFirst(d)
  <2>1. said[d] = <<>> /\ Len(said[d]) = 0
    BY <1>1, <1>7 DEF SendFirst, TaskOk
  <2>2. loop[d].first = Turn(d, Len(said[d]) + 1) /\ loop[d].first \in Side \cup {None}
    BY <1>1, <2>1 DEF Turn, Task
  <2>3. QED
    BY <1>1, <1>7, <2>2, TurnTaken DEF SendFirst, TurnOk
<1>8. CASE Reply(d)
  <2>1. Len(said[d]) > 0
    BY <1>1, <1>8 DEF Reply, TurnOk
  <2>2. PICK n \in Nat : n = Len(said[d]) /\ n > 0
    BY <1>1, <2>1
  <2>3. /\ Speaker(d) = IF n % 2 = 0 THEN loop[d].second ELSE loop[d].first
        /\ Turn(d, n + 1) = IF (n + 1) % 2 = 0 THEN loop[d].first ELSE loop[d].second
    <3>1. n + 1 # 1
      BY <2>2
    <3>2. QED
      BY <2>2, <3>1, Zenon DEF Speaker, Turn
  <2>4. Speaker(d) = Turn(d, n + 1) /\ Speaker(d) \in Side \cup {None}
    BY <1>1, <2>3, Parity DEF Task
  <2>5. QED
    BY <1>1, <1>8, <2>2, <2>4, TurnTaken DEF Reply, TurnOk
<1>9. ASSUME NEW pc \in {"reply", "ending", "done"}, GoTo(d, pc), said' = said,
             pc = "reply" => loop[d].pc = "sent"
      PROVE  TurnOk(d)'
  BY <1>3, <1>9 DEF GoTo, TypeOK
<1>10. CASE Converse(d)
  BY <1>7, <1>8, <1>9, <1>10 DEF Converse, CheckDate, AutoEnd, AnnounceAutoEnd, history
<1>11. QED
  BY <1>4, <1>5, <1>6, <1>10, TaskFrame

\* Which of the two speaks is fixed by the number of the message alone, whatever happens
\* between two messages (date_handler.py:146-151, 168).
THEOREM TurnsAreTaken == Spec => []SpeakersTakeTurns
<1>1. Init => TurnInv
  BY DEF Init, TurnInv, TurnOk, NoTask
<1>2. IInv /\ TurnInv /\ [Next]_vars => TurnInv'
  BY TurnStep DEF TurnInv
<1>3. TurnInv => SpeakersTakeTurns
  BY DEF TurnInv, TurnOk, Turn, SpeakersTakeTurns
<1>4. QED
  BY Invariance, <1>1, <1>2, <1>3, PTL DEF Spec

\* The comment at date_handler.py:144-145 is wrong about every conversation that gets
\* beyond its first message, and about no other turn: the initiator speaks twice, then the
\* two alternate.
THEOREM FirstSpeaksTwice ==
  Spec => [](\A d \in Date :
               /\ Len(said[d]) > 1 => said[d][1] = said[d][2]
               /\ loop[d].first # loop[d].second =>
                    \A i \in 2..Len(said[d]) - 1 : said[d][i] # said[d][i + 1])
<1>1. TypeOK /\ SpeakersTakeTurns =>
        \A d \in Date :
          /\ Len(said[d]) > 1 => said[d][1] = said[d][2]
          /\ loop[d].first # loop[d].second =>
               \A i \in 2..Len(said[d]) - 1 : said[d][i] # said[d][i + 1]
  <2> SUFFICES ASSUME TypeOK, SpeakersTakeTurns, NEW d \in Date
               PROVE  /\ Len(said[d]) > 1 => said[d][1] = said[d][2]
                      /\ loop[d].first # loop[d].second =>
                           \A i \in 2..Len(said[d]) - 1 : said[d][i] # said[d][i + 1]
    OBVIOUS
  <2>1. Len(said[d]) \in Nat
    BY DEF TypeOK
  <2>2. \A i \in 1..Len(said[d]) :
          said[d][i] = IF i = 1 \/ i % 2 = 0 THEN loop[d].first ELSE loop[d].second
    BY DEF SpeakersTakeTurns
  <2>3. ASSUME Len(said[d]) > 1 PROVE said[d][1] = said[d][2]
    BY <2>1, <2>2, <2>3
  <2>4. ASSUME loop[d].first # loop[d].second, NEW i \in 2..Len(said[d]) - 1
        PROVE  said[d][i] # said[d][i + 1]
    <3>1. i \in 1..Len(said[d]) /\ i + 1 \in 1..Len(said[d]) /\ i # 1 /\ i + 1 # 1
      BY <2>1
    <3>2. i % 2 = 0 <=> (i + 1) % 2 # 0
      BY <3>1
    <3>3. QED
      BY <2>2, <2>4, <3>1, <3>2
  <2>5. QED
    BY <2>3, <2>4
<1>2. QED
  BY TypeCorrect, TurnsAreTaken, <1>1, PTL

----------------------------------------------------------------------------
(* Nothing remains unsaid: what liveness rests on                          *)

\* As long as nothing failed, whatever the table says of a date and nobody was told of has
\* the handler or the task that is about to tell it.
NothingUnsaid ==
  faults = 0 => \A d \in Date :
    /\ Exists(d) /\ "proposed" \notin published[d] =>
         \E r \in Request : rq[r].pc = "inserted" /\ rq[r].date = d
    /\ dates[d].started /\ "started" \notin published[d] =>
         \E r \in Request : rq[r].pc \in {"starting", "joined"} /\ rq[r].date = d
    /\ dates[d].ended /\ "ended" \notin published[d] =>
         \/ \E r \in Request : rq[r].pc = "ending" /\ rq[r].date = d
         \/ loop[d].pc = "ending"

\* A task that has stopped and did not fail has left its date ended.
NoneLeftOpen == \A d \in Date : loop[d].pc \in {"ending", "done"} => dates[d].ended

LEMMA FaultCounts ==
  ASSUME TypeOK, [Next]_vars, faults' = 0 PROVE faults = 0 /\ ~Fault
<1>1. ~Fault
  BY DEF Fault, TypeOK
<1>2. faults' = faults \/ Fault
  BY DEF Next, User, Continue, Converse, Failure, ProposeFirst, ProposeSecond, JoinFirst,
         JoinSecond, EndDate, AwaitSecond, StartConversation, AnnounceStart, AnnounceEnd,
         SendFirst, CheckDate, Reply, AutoEnd, AnnounceAutoEnd, HandlerFails, LoopFails,
         Restart, Update, vars
<1>3. QED
  BY <1>1, <1>2

\* A handler under way goes on only by its own next segment, unless something fails, and
\* that segment tells the bus what the handler knew.
LEMMA TellerGoesOn ==
  ASSUME TypeOK, [Next]_vars, faults' = 0, NEW r \in Request, rq[r].pc # "idle",
         rq'[r] # rq[r]
  PROVE  /\ rq[r].pc = "inserted" => "proposed" \in published'[rq[r].date]
         /\ rq[r].pc \in {"starting", "joined"} => "started" \in published'[rq[r].date]
         /\ rq[r].pc = "ending" => "ended" \in published'[rq[r].date]
<1>1. ~Fault /\ rq[r] # Idle /\ rq[r].date \in Date
  BY FaultCounts, AwaitTypes
<1>2. ASSUME NEW q \in Request, NEW h, rq' = [rq EXCEPT ![q] = h] PROVE q = r
  BY <1>2 DEF TypeOK
<1>3. ASSUME NEW q \in Request, NEW d, NEW row, NEW point, Update(q, d, row, point) PROVE q = r
  BY <1>2, <1>3 DEF Update, Finish
<1>4. ~User
  BY <1>1, <1>2, <1>3 DEF User, ProposeFirst, ProposeSecond, JoinFirst, JoinSecond, EndDate,
                          Arrives
<1>5. ASSUME NEW q \in Request, Continue(q) PROVE q = r
  BY <1>2, <1>5 DEF Continue, AwaitSecond, StartConversation, AnnounceStart, AnnounceEnd, Finish
<1>6. ASSUME NEW d \in Date, Converse(d) PROVE FALSE
  BY <1>6 DEF Converse, SendFirst, CheckDate, Reply, AutoEnd, AnnounceAutoEnd
<1>7. Continue(r)
  BY <1>1, <1>4, <1>5, <1>6 DEF Next, Failure, HandlerFails, LoopFails, Restart, vars, memory
<1>8. ASSUME NEW f, Publish(rq[r].date, f) PROVE f \in published'[rq[r].date]
  BY <1>1, <1>8 DEF Publish, TypeOK
<1>9. QED
  BY <1>7, <1>8 DEF Continue, AwaitSecond, StartConversation, AnnounceStart, AnnounceEnd

LEMMA HeardStays ==
  ASSUME TypeOK, [Next]_vars, NEW d \in Date PROVE published[d] \subseteq published'[d]
BY PublishedFrame

\* Who adds a fact to a row is about to tell it.
LEMMA UpdateTells ==
  ASSUME TypeOK, NEW r \in Request, NEW e \in Date, NEW row, NEW point,
         Update(r, e, row, point), NEW d \in Date, dates'[d] # dates[d]
  PROVE  e = d /\ dates'[d] = row /\ rq'[r] = point
BY DEF Update, TypeOK

LEMMA ProposedTold ==
  ASSUME IInv, [Next]_vars, NEW d \in Date, ~Exists(d), Exists(d)'
  PROVE  \E r \in Request : rq'[r].pc = "inserted" /\ rq'[r].date = d
<1> USE DEF IInv
<1>1. ASSUME NEW r \in Request, NEW m \in Match, NEW s \in Side, ProposeFirst(r, m, s)
      PROVE  rq'[r].pc = "inserted" /\ rq'[r].date = d
  <2>1. PICK e \in Date : /\ dates' = [dates EXCEPT ![e].match = m]
                          /\ rq' = [rq EXCEPT ![r] = At("inserted", e, s, None)]
    BY <1>1 DEF ProposeFirst
  <2>2. e = d
    BY <2>1 DEF Exists, TypeOK
  <2>3. QED
    BY <2>1, <2>2 DEF TypeOK, At
<1>2. ASSUME NEW e \in Date, NEW row \in DateRow, row.match = dates[e].match,
             dates' = [dates EXCEPT ![e] = row]
      PROVE  FALSE
  <2>1. dates'[d].match = dates[d].match
    BY <1>2 DEF TypeOK
  <2>2. QED
    BY <2>1 DEF Exists
<1>3. ASSUME NEW r \in Request, NEW e \in Date, NEW p, Update(r, e, StartedRow(e), p)
      PROVE  FALSE
  BY <1>2, <1>3, RowFields, Written DEF Update, Exists
<1>4. ASSUME NEW r \in Request, NEW m \in Match, NEW s \in Side, ProposeSecond(r, m, s)
      PROVE  FALSE
  BY <1>3, <1>4, WaitingTypes DEF ProposeSecond
<1>5. ASSUME NEW r \in Request, NEW e \in Date, NEW s \in Side, JoinSecond(r, e, s)
      PROVE  FALSE
  BY <1>3, <1>5 DEF JoinSecond
<1>6. ASSUME NEW r \in Request, NEW e \in Date, NEW o \in Outcome, EndDate(r, e, o)
      PROVE  FALSE
  BY <1>2, <1>6, RowFields, Written DEF EndDate, Update, Exists
<1>7. ASSUME NEW e \in Date, AutoEnd(e) PROVE FALSE
  BY <1>2, <1>7, RowFields, Written DEF AutoEnd
<1>8. ~UNCHANGED dates
  BY DEF Exists
<1>9. QED
  BY <1>1, <1>4, <1>5, <1>6, <1>7, <1>8
     DEF Next, User, Continue, Converse, Failure, JoinFirst, AwaitSecond,
         StartConversation, AnnounceStart, AnnounceEnd, SendFirst, CheckDate, Reply,
         AnnounceAutoEnd, HandlerFails, LoopFails, Restart, vars

LEMMA StartedTold ==
  ASSUME IInv, [Next]_vars, NEW d \in Date, ~dates[d].started, dates'[d].started
  PROVE  \E r \in Request : rq'[r].pc \in {"starting", "joined"} /\ rq'[r].date = d
<1> USE DEF IInv
<1>1. ASSUME NEW r \in Request, NEW e \in Date, NEW s, NEW f, NEW pc \in {"starting", "joined"},
             Update(r, e, StartedRow(e), At(pc, e, s, f))
      PROVE  rq'[r].pc \in {"starting", "joined"} /\ rq'[r].date = d
  BY <1>1, UpdateTells DEF At
<1>2. ASSUME NEW r \in Request, NEW m \in Match, NEW s \in Side, ProposeSecond(r, m, s)
      PROVE  rq'[r].pc \in {"starting", "joined"} /\ rq'[r].date = d
  BY <1>1, <1>2, WaitingTypes DEF ProposeSecond
<1>3. ASSUME NEW r \in Request, NEW e \in Date, NEW s \in Side, JoinSecond(r, e, s)
      PROVE  rq'[r].pc \in {"starting", "joined"} /\ rq'[r].date = d
  BY <1>1, <1>3 DEF JoinSecond
<1>4. ASSUME NEW e \in Date, NEW row, row.started = dates[e].started,
             dates' = [dates EXCEPT ![e] = row]
      PROVE  FALSE
  BY <1>4 DEF TypeOK
<1>5. \A e \in Date : \A o : EndedRow(e, o).started = dates[e].started
  BY DEF EndedRow, TypeOK, DateRow
<1>6. ASSUME NEW r \in Request, NEW e \in Date, NEW o \in Outcome, EndDate(r, e, o)
      PROVE  FALSE
  BY <1>4, <1>5, <1>6 DEF EndDate, Update
<1>7. ASSUME NEW e \in Date, AutoEnd(e) PROVE FALSE
  BY <1>4, <1>5, <1>7 DEF AutoEnd
<1>8. ASSUME NEW r \in Request, NEW m \in Match, NEW s \in Side, ProposeFirst(r, m, s)
      PROVE  FALSE
  <2>1. PICK e \in Date : dates' = [dates EXCEPT ![e] = [dates[e] EXCEPT !.match = m]]
    BY <1>8 DEF ProposeFirst
  <2>2. [dates[e] EXCEPT !.match = m].started = dates[e].started
    BY DEF TypeOK, DateRow
  <2>3. QED
    BY <1>4, <2>1, <2>2
<1>9. QED
  BY <1>2, <1>3, <1>6, <1>7, <1>8
     DEF Next, User, Continue, Converse, Failure, JoinFirst, AwaitSecond,
         StartConversation, AnnounceStart, AnnounceEnd, SendFirst, CheckDate, Reply,
         AnnounceAutoEnd, HandlerFails, LoopFails, Restart, vars

LEMMA EndedTold ==
  ASSUME IInv, [Next]_vars, NEW d \in Date, ~dates[d].ended, dates'[d].ended
  PROVE  \/ \E r \in Request : rq'[r].pc = "ending" /\ rq'[r].date = d
         \/ loop'[d].pc = "ending"
<1> USE DEF IInv
<1>1. ASSUME NEW r \in Request, NEW e \in Date, NEW o \in Outcome, EndDate(r, e, o)
      PROVE  rq'[r].pc = "ending" /\ rq'[r].date = d
  BY <1>1, UpdateTells DEF EndDate, At
<1>2. ASSUME NEW e \in Date, AutoEnd(e) PROVE loop'[d].pc = "ending"
  <2>1. e = d
    BY <1>2 DEF AutoEnd, TypeOK
  <2>2. QED
    BY <1>2, <2>1 DEF AutoEnd, GoTo, TypeOK, Task
<1>3. ASSUME NEW e \in Date, NEW row, row.ended = dates[e].ended,
             dates' = [dates EXCEPT ![e] = row]
      PROVE  FALSE
  BY <1>3 DEF TypeOK
<1>4. \A e \in Date : StartedRow(e).ended = dates[e].ended
  BY DEF StartedRow, TypeOK, DateRow
<1>5. ASSUME NEW r \in Request, NEW m \in Match, NEW s \in Side, ProposeSecond(r, m, s)
      PROVE  FALSE
  BY <1>3, <1>4, <1>5, WaitingTypes DEF ProposeSecond, Update
<1>6. ASSUME NEW r \in Request, NEW e \in Date, NEW s \in Side, JoinSecond(r, e, s)
      PROVE  FALSE
  BY <1>3, <1>4, <1>6 DEF JoinSecond, Update
<1>7. ASSUME NEW r \in Request, NEW m \in Match, NEW s \in Side, ProposeFirst(r, m, s)
      PROVE  FALSE
  <2>1. PICK e \in Date : dates' = [dates EXCEPT ![e] = [dates[e] EXCEPT !.match = m]]
    BY <1>7 DEF ProposeFirst
  <2>2. [dates[e] EXCEPT !.match = m].ended = dates[e].ended
    BY DEF TypeOK, DateRow
  <2>3. QED
    BY <1>3, <2>1, <2>2
<1>8. QED
  BY <1>1, <1>2, <1>5, <1>6, <1>7
     DEF Next, User, Continue, Converse, Failure, JoinFirst, AwaitSecond,
         StartConversation, AnnounceStart, AnnounceEnd, SendFirst, CheckDate, Reply,
         AnnounceAutoEnd, HandlerFails, LoopFails, Restart, vars

\* The task that ended its date goes on to say so.
LEMMA EnderGoesOn ==
  ASSUME IInv, [Next]_vars, faults' = 0, NEW d \in Date, loop[d].pc = "ending"
  PROVE  loop'[d].pc = "ending" \/ "ended" \in published'[d]
<1>1. TypeOK /\ ~Fault
  BY FaultCounts DEF IInv
<1>2. CASE SameTask(d)
  BY <1>2 DEF SameTask
<1>3. CASE Converse(d)
  <2>1. AnnounceAutoEnd(d)
    BY <1>3 DEF Converse, SendFirst, CheckDate, Reply, AutoEnd
  <2>2. QED
    BY <1>1, <2>1 DEF AnnounceAutoEnd, Publish, TypeOK
<1>4. ASSUME NEW r \in Request, StartConversation(r), rq[r].date = d PROVE FALSE
  <2>1. rq[r].pc = "starting" /\ HeldOk(r)
    BY <1>4 DEF StartConversation, IInv
  <2>2. loop[d] = NoTask
    BY <1>4, <2>1 DEF HeldOk, Unstarted
  <2>3. QED
    BY <2>2 DEF NoTask
<1>5. ASSUME TaskDies(d) PROVE loop'[d].pc = "ending" \/ "ended" \in published'[d]
  <2>1. ~LoopFails(d) /\ ~Restart
    BY <1>1 DEF LoopFails, Restart
  <2>2. loop'[d].pc = "failed"
    BY <1>1, <1>5 DEF TaskDies, TypeOK, Task
  <2>3. ~Converse(d)
    BY <1>1, <2>2, ConverseEffect
  <2>4. ASSUME NEW e \in Date, e # d, Converse(e) PROVE loop'[d] = loop[d]
    BY <1>1, <2>4 DEF Converse, SendFirst, CheckDate, Reply, AutoEnd, AnnounceAutoEnd, GoTo, TypeOK
  <2>5. loop'[d] # loop[d]
    BY <2>2
  <2>6. ASSUME NEW r \in Request, Continue(r) PROVE loop'[d] = loop[d]
    BY <1>1, <1>4, <2>6 DEF Continue, AwaitSecond, StartConversation, AnnounceStart,
                            AnnounceEnd, TypeOK
  <2>7. QED
    BY <1>1, <2>3, <2>4, <2>5, <2>6
       DEF Next, User, Failure, ProposeFirst, ProposeSecond, JoinFirst, JoinSecond, EndDate,
           HandlerFails, LoopFails, Restart, vars, memory
<1>6. QED
  BY <1>1, <1>2, <1>3, <1>4, <1>5, TaskFrame

LEMMA UnsaidStep ==
  ASSUME IInv, NothingUnsaid, [Next]_vars PROVE NothingUnsaid'
<1> SUFFICES ASSUME faults' = 0, NEW d \in Date
             PROVE  /\ Exists(d)' /\ "proposed" \notin published'[d] =>
                         \E r \in Request : rq'[r].pc = "inserted" /\ rq'[r].date = d
                    /\ dates'[d].started /\ "started" \notin published'[d] =>
                         \E r \in Request : rq'[r].pc \in {"starting", "joined"} /\ rq'[r].date = d
                    /\ dates'[d].ended /\ "ended" \notin published'[d] =>
                         \/ \E r \in Request : rq'[r].pc = "ending" /\ rq'[r].date = d
                         \/ loop'[d].pc = "ending"
  BY DEF NothingUnsaid
<1>1. TypeOK /\ faults = 0 /\ published[d] \subseteq published'[d]
  BY FaultCounts, HeardStays DEF IInv
<1>2. ASSUME Exists(d)', "proposed" \notin published'[d]
      PROVE  \E r \in Request : rq'[r].pc = "inserted" /\ rq'[r].date = d
  <2>1. CASE Exists(d)
    <3>1. PICK r \in Request : rq[r].pc = "inserted" /\ rq[r].date = d
      BY <1>1, <1>2, <2>1 DEF NothingUnsaid
    <3>2. rq'[r] = rq[r]
      BY <1>1, <1>2, <3>1, TellerGoesOn
    <3>3. QED
      BY <3>1, <3>2
  <2>2. QED
    BY <1>2, <2>1, ProposedTold
<1>3. ASSUME dates'[d].started, "started" \notin published'[d]
      PROVE  \E r \in Request : rq'[r].pc \in {"starting", "joined"} /\ rq'[r].date = d
  <2>1. CASE dates[d].started
    <3>1. PICK r \in Request : rq[r].pc \in {"starting", "joined"} /\ rq[r].date = d
      BY <1>1, <1>3, <2>1 DEF NothingUnsaid
    <3>2. rq'[r] = rq[r]
      BY <1>1, <1>3, <3>1, TellerGoesOn
    <3>3. QED
      BY <3>1, <3>2
  <2>2. QED
    BY <1>3, <2>1, StartedTold
<1>4. ASSUME dates'[d].ended, "ended" \notin published'[d]
      PROVE  \/ \E r \in Request : rq'[r].pc = "ending" /\ rq'[r].date = d
             \/ loop'[d].pc = "ending"
  <2>1. CASE dates[d].ended /\ loop[d].pc = "ending"
    BY <1>4, <2>1, EnderGoesOn
  <2>2. CASE dates[d].ended /\ loop[d].pc # "ending"
    <3>1. PICK r \in Request : rq[r].pc = "ending" /\ rq[r].date = d
      BY <1>1, <1>4, <2>2 DEF NothingUnsaid
    <3>2. rq'[r] = rq[r]
      BY <1>1, <1>4, <3>1, TellerGoesOn
    <3>3. QED
      BY <3>1, <3>2
  <2>3. QED
    BY <1>4, <2>1, <2>2, EndedTold
<1>5. QED
  BY <1>2, <1>3, <1>4

\* Without failures, whatever handlers and tasks overlap: nothing is written about a date
\* that nobody is left to announce (date_handler.py:68-83, 103-104, 182-183, 222-223, 262).
THEOREM NothingIsUnsaid == Spec => []NothingUnsaid
<1>1. Init => NothingUnsaid
  BY DEF Init, NothingUnsaid, Exists
<1>2. QED
  BY Invariance, UnsaidStep, <1>1, PTL DEF Spec

LEMMA OpenStep ==
  ASSUME IInv, NoneLeftOpen, [Next]_vars, NEW d \in Date, loop'[d].pc \in {"ending", "done"}
  PROVE  dates'[d].ended
<1>1. TypeOK /\ (dates[d].ended => dates'[d].ended)
  BY RowsPersist DEF IInv
<1>2. CASE SameTask(d)
  BY <1>1, <1>2 DEF SameTask, NoneLeftOpen
<1>3. CASE Converse(d)
  <2>1. CASE loop[d].pc = "sent" /\ Len(said[d]) >= MaxMessages
    BY <1>1, <1>3, <2>1, ConverseEffect, RowFields DEF TypeOK
  <2>2. CASE loop[d].pc = "sent" /\ Len(said[d]) < MaxMessages
    BY <1>1, <1>3, <2>2, ConverseEffect
  <2>3. Len(said[d]) \in Nat /\ MaxMessages \in Nat
    BY <1>1, MaxMessagesAssumption DEF TypeOK
  <2>4. QED
    BY <1>1, <1>3, <2>1, <2>2, <2>3, ConverseEffect DEF NoneLeftOpen
<1>4. ~TaskDies(d)
  BY <1>1 DEF TaskDies, TypeOK, Task
<1>5. ASSUME NEW r \in Request, StartConversation(r), rq[r].date = d PROVE FALSE
  <2>1. loop' = [loop EXCEPT ![d] = [pc |-> "first", first |-> rq[r].first, second |-> rq[r].by]]
    BY <1>5 DEF StartConversation
  <2>2. loop'[d].pc = "first"
    BY <1>1, <2>1 DEF TypeOK
  <2>3. QED
    BY <2>2
<1>6. QED
  BY <1>1, <1>2, <1>3, <1>4, <1>5, TaskFrame

\* A conversation never stops without its date being over, unless its task fails
\* (date_handler.py:162-183).
THEOREM NoneIsLeftOpen == Spec => []NoneLeftOpen
<1>1. Init => NoneLeftOpen
  BY DEF Init, NoneLeftOpen, NoTask
<1>2. IInv /\ NoneLeftOpen /\ [Next]_vars => NoneLeftOpen'
  BY OpenStep DEF NoneLeftOpen
<1>3. QED
  BY Invariance, <1>1, <1>2, PTL DEF Spec
=============================================================================
