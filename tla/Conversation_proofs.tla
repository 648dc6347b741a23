------------------------- MODULE Conversation_proofs -------------------------
(***************************************************************************)
(* DateLifecycle implements Conversation: its initial states and its steps *)
(* are those of the abstract specification, or stutter.                    *)
(***************************************************************************)
EXTENDS DateLifecycle_proofs

----------------------------------------------------------------------------
(* Lemmas about the refinement mapping.                                    *)

LEMMA FactsSame ==
  ASSUME dates' = dates PROVE [d \in Date |-> Facts(d)]' = [d \in Date |-> Facts(d)]
BY DEF Facts, Exists

LEMMA TalkSame ==
  ASSUME loop' = loop PROVE [d \in Date |-> Talk(d)]' = [d \in Date |-> Talk(d)]
BY DEF Talk

LEMMA CountSame ==
  ASSUME said' = said PROVE [d \in Date |-> Len(said[d])]' = [d \in Date |-> Len(said[d])]
OBVIOUS

LEMMA Stutters ==
  ASSUME UNCHANGED <<dates, published, loop, said, late>> PROVE UNCHANGED Promise!vars
BY FactsSame, TalkSame, CountSame DEF Promise!vars

LEMMA FactsChange ==
  ASSUME TypeOK, NEW e \in Date, NEW row \in DateRow, dates' = [dates EXCEPT ![e] = row],
         NEW f, Facts(e)' = Facts(e) \cup {f}
  PROVE  [d \in Date |-> Facts(d)]' =
           [[d \in Date |-> Facts(d)] EXCEPT ![e] = Facts(e) \cup {f}]
<1>1. ASSUME NEW d \in Date, d # e PROVE Facts(d)' = Facts(d)
  BY <1>1 DEF TypeOK, Facts, Exists
<1>2. QED
  BY <1>1

LEMMA Commits ==
  ASSUME TypeOK, NEW e \in Date, NEW row \in DateRow, dates' = [dates EXCEPT ![e] = row],
         NEW f, Facts(e)' = Facts(e) \cup {f}, f = "proposed" <=> Facts(e) = {},
         UNCHANGED <<published, loop, said, late>>
  PROVE  Promise!Commit(e, f)
BY FactsChange, TalkSame, CountSame DEF Promise!Commit

\* A handler's UPDATE either commits a fact about a date or changes nothing.
LEMMA Updates ==
  ASSUME TypeOK, NEW r \in Request, NEW e \in Date, Exists(e), NEW row \in DateRow, NEW point,
         Update(r, e, row, point), NEW f \in {"started", "ended"},
         row.match = dates[e].match,
         row.started = (dates[e].started \/ f = "started"),
         row.ended = (dates[e].ended \/ f = "ended"),
         UNCHANGED <<published, loop, said, late>>
  PROVE  Promise!Commit(e, f) \/ UNCHANGED Promise!vars
<1>1. CASE dates' = [dates EXCEPT ![e] = row]
  <2>1. dates'[e] = row
    BY <1>1 DEF TypeOK
  <2>2. Facts(e)' = Facts(e) \cup {f}
    BY <2>1 DEF Facts, Exists
  <2>3. "proposed" \in Facts(e)
    BY DEF Facts
  <2>4. QED
    BY <1>1, <2>2, <2>3, Commits
<1>2. CASE dates' = dates
  BY <1>2, Stutters
<1>3. QED
  BY <1>1, <1>2 DEF Update

LEMMA Announces ==
  ASSUME NEW d \in Date, NEW f, f \in Facts(d), Publish(d, f),
         UNCHANGED <<dates, loop, said, late>>
  PROVE  Promise!Announce(d, f)
BY FactsSame, TalkSame, CountSame DEF Promise!Announce, Publish

\* A step of the task of one date.
LEMMA TalkChange ==
  ASSUME TypeOK, NEW e \in Date, NEW task \in Task, loop' = [loop EXCEPT ![e] = task]
  PROVE  [d \in Date |-> Talk(d)]' =
           [[d \in Date |-> Talk(d)] EXCEPT ![e] =
              IF task.pc = "none" THEN "silent"
              ELSE IF task.pc \in {"first", "sent", "reply"} THEN "talking" ELSE "over"]
<1>1. ASSUME NEW d \in Date, d # e PROVE Talk(d)' = Talk(d)
  BY <1>1 DEF TypeOK, Talk
<1>2. loop'[e] = task
  BY DEF TypeOK
<1>3. QED
  BY <1>1, <1>2 DEF Talk

LEMMA GoesTo ==
  ASSUME TypeOK, NEW e \in Date, NEW pc \in {"sent", "reply", "ending", "done", "failed"},
         GoTo(e, pc)
  PROVE  [d \in Date |-> Talk(d)]' =
           [[d \in Date |-> Talk(d)] EXCEPT ![e] =
              IF pc \in {"sent", "reply"} THEN "talking" ELSE "over"]
<1>1. [loop[e] EXCEPT !.pc = pc] \in Task /\ [loop[e] EXCEPT !.pc = pc].pc = pc
  BY DEF TypeOK, Task
<1>2. QED
  BY <1>1, TalkChange DEF GoTo

LEMMA Speaks ==
  ASSUME TypeOK, NEW e \in Date, loop[e].pc \in {"first", "reply"},
         Len(said[e]) < MaxMessages, late[e] = 0,
         NEW s \in Side \cup {None}, Store(e, s), GoTo(e, "sent"),
         UNCHANGED <<dates, published>>
  PROVE  Promise!Speak(e)
<1> DEFINE T == [d \in Date |-> Talk(d)]
           N == [d \in Date |-> Len(said[d])]
           F == [d \in Date |-> Facts(d)]
<1>1. T[e] = "talking" /\ N[e] < MaxMessages
  BY DEF Talk
<1>2. "ended" \in F[e] <=> dates[e].ended
  BY DEF Facts
<1>3. N' = [N EXCEPT ![e] = N[e] + 1]
  <2>1. ASSUME NEW d \in Date PROVE Len(said'[d]) = IF d = e THEN Len(said[d]) + 1 ELSE Len(said[d])
    BY DEF Store, TypeOK
  <2>2. QED
    BY <2>1
<1>4. late' = [late EXCEPT ![e] = IF "ended" \in F[e] THEN 1 ELSE late[e]]
  <2>1. late[e] + (IF dates[e].ended THEN 1 ELSE 0) = IF "ended" \in F[e] THEN 1 ELSE late[e]
    BY <1>2
  <2>2. QED
    BY <2>1 DEF Store
<1>5. T' = T
  <2>1. T' = [T EXCEPT ![e] = "talking"]
    BY GoesTo
  <2>2. QED
    BY <1>1, <2>1
<1>6. F' = F
  BY FactsSame
<1>7. QED
  BY <1>1, <1>3, <1>4, <1>5, <1>6 DEF Promise!Speak

\* Conversations that end, at once: those whose task was still to speak.
LEMMA Silences ==
  ASSUME TypeOK, NEW D \in SUBSET Date,
         \A d \in D : Talk(d) = "talking",
         \A d \in Date : Talk(d)' = IF d \in D THEN "over" ELSE Talk(d),
         UNCHANGED <<dates, published, said, late>>
  PROVE  Promise!Silence(D) \/ UNCHANGED Promise!vars
<1> DEFINE T == [d \in Date |-> Talk(d)]
<1>1. CASE D = {}
  <2>1. T' = T
    BY <1>1
  <2>2. QED
    BY <2>1, FactsSame, CountSame DEF Promise!vars
<1>2. CASE D # {}
  <2>1. T' = [d \in Date |-> IF d \in D THEN "over" ELSE T[d]]
    OBVIOUS
  <2>2. \A d \in D : T[d] = "talking"
    OBVIOUS
  <2>3. QED
    BY <1>2, <2>1, <2>2, FactsSame, CountSame DEF Promise!Silence
<1>3. QED
  BY <1>1, <1>2

----------------------------------------------------------------------------
(* One more invariant: the table says nothing of a date that does not exist. *)

BlankInv == \A d \in Date : ~Exists(d) => ~dates[d].started /\ ~dates[d].ended

LEMMA RowUntouched ==
  ASSUME IInv, [Next]_vars, NEW d \in Date, ~Exists(d)'
  PROVE  dates'[d] = dates[d]
<1> USE DEF IInv
<1>1. ~Exists(d)
  BY RowsPersist DEF Exists, Persists
<1>2. ASSUME NEW r \in Request, NEW e \in Date, NEW row, NEW p, Exists(e), Update(r, e, row, p)
      PROVE  dates'[d] = dates[d]
  BY <1>1, <1>2 DEF Update, TypeOK
<1>3. ASSUME NEW r \in Request, NEW m \in Match, NEW s \in Side, ProposeFirst(r, m, s)
      PROVE  dates'[d] = dates[d]
  <2>1. PICK e \in Date : dates' = [dates EXCEPT ![e].match = m]
    BY <1>3 DEF ProposeFirst
  <2>2. dates'[e].match # None
    BY <2>1, NoneAssumption DEF TypeOK, DateRow
  <2>3. QED
    BY <2>1, <2>2 DEF Exists, TypeOK
<1>4. ASSUME NEW r \in Request, NEW m \in Match, NEW s \in Side, ProposeSecond(r, m, s)
      PROVE  dates'[d] = dates[d]
  <2>1. pending[m].date \in Date /\ Exists(pending[m].date)
    BY <1>4, WaitingTypes, NoneAssumption DEF ProposeSecond, PendingOk, Exists
  <2>2. QED
    BY <1>2, <1>4, <2>1 DEF ProposeSecond
<1>5. ASSUME NEW r \in Request, NEW e \in Date, NEW s \in Side, JoinSecond(r, e, s)
      PROVE  dates'[d] = dates[d]
  BY <1>2, <1>5 DEF JoinSecond
<1>6. ASSUME NEW r \in Request, NEW e \in Date, NEW o \in Outcome, EndDate(r, e, o)
      PROVE  dates'[d] = dates[d]
  BY <1>2, <1>6 DEF EndDate
<1>7. ASSUME NEW e \in Date, AutoEnd(e)
      PROVE  dates'[d] = dates[d]
  BY <1>1, <1>7 DEF AutoEnd, TaskOk, NoTask, TypeOK
<1>8. CASE UNCHANGED dates
  BY <1>8
<1>9. QED
  BY <1>3, <1>4, <1>5, <1>6, <1>7, <1>8
     DEF Next, User, Continue, Converse, Failure, JoinFirst, AwaitSecond,
         StartConversation, AnnounceStart, AnnounceEnd, SendFirst, CheckDate, Reply,
         AnnounceAutoEnd, HandlerFails, LoopFails, Restart, vars

LEMMA BlankInvariant == Spec => []BlankInv
<1>1. Init => BlankInv
  BY DEF Init, BlankInv
<1>2. IInv /\ BlankInv /\ [Next]_vars => BlankInv'
  <2> SUFFICES ASSUME IInv, BlankInv, [Next]_vars, NEW d \in Date, ~Exists(d)'
               PROVE  ~dates'[d].started /\ ~dates'[d].ended
    BY DEF BlankInv
  <2>1. dates'[d] = dates[d]
    BY RowUntouched
  <2>2. QED
    BY <2>1 DEF BlankInv, Exists
<1>3. QED
  BY Invariance, <1>1, <1>2, PTL DEF Spec

----------------------------------------------------------------------------
(* The steps.                                                              *)

LEMMA ProposeImplements ==
  ASSUME IInv, BlankInv, NEW r \in Request, NEW m \in Match, NEW s \in Side,
         ProposeFirst(r, m, s)
  PROVE  Promise!Next
<1> USE DEF IInv
<1>1. PICK e \in Date : ~Exists(e) /\ dates' = [dates EXCEPT ![e].match = m]
  BY DEF ProposeFirst
<1>2. [dates[e] EXCEPT !.match = m] \in DateRow
  BY Written
<1>3. Facts(e) = {}
  BY <1>1 DEF BlankInv, Facts
<1>4. /\ dates'[e].match # None
      /\ dates'[e].started = dates[e].started /\ dates'[e].ended = dates[e].ended
  BY <1>1, NoneAssumption DEF TypeOK, DateRow
<1>5. Facts(e)' = {"proposed"}
  BY <1>1, <1>4 DEF BlankInv, Facts, Exists
<1>6. UNCHANGED <<published, loop, said, late>>
  BY DEF ProposeFirst, history
<1>7. Promise!Commit(e, "proposed")
  BY <1>1, <1>2, <1>3, <1>5, <1>6, Commits
<1>8. QED
  BY <1>7 DEF Promise!Next, Promise!Fact

LEMMA SecondImplements ==
  ASSUME IInv, NEW r \in Request, NEW m \in Match, NEW s \in Side, ProposeSecond(r, m, s)
  PROVE  Promise!Next \/ UNCHANGED Promise!vars
<1> USE DEF IInv
<1> DEFINE e == pending[m].date
<1>1. e \in Date /\ pending[m].by \in Side \cup {None}
  BY DEF ProposeSecond, TypeOK, Entry
<1>2. Exists(e)
  BY <1>1, NoneAssumption DEF ProposeSecond, PendingOk, Exists
<1>3. StartedRow(e) \in DateRow
  BY <1>1, Written
<1>4. /\ StartedRow(e).match = dates[e].match
      /\ StartedRow(e).started = TRUE
      /\ StartedRow(e).ended = dates[e].ended
  BY <1>1 DEF StartedRow, TypeOK, DateRow
<1>5. /\ UNCHANGED <<published, loop, said, late>>
      /\ Update(r, e, StartedRow(e), At("starting", e, s, pending[m].by))
  BY DEF ProposeSecond, history
<1>6. dates[e].ended \in BOOLEAN /\ dates[e].started \in BOOLEAN
  BY <1>1 DEF TypeOK, DateRow
<1>7. Promise!Commit(e, "started") \/ UNCHANGED Promise!vars
  BY <1>1, <1>2, <1>3, <1>4, <1>5, <1>6, Updates
<1>8. QED
  BY <1>1, <1>7 DEF Promise!Next, Promise!Fact

LEMMA JoinImplements ==
  ASSUME IInv, NEW r \in Request, NEW e \in Date, NEW s \in Side, JoinSecond(r, e, s)
  PROVE  Promise!Next \/ UNCHANGED Promise!vars
<1> USE DEF IInv
<1>1. StartedRow(e) \in DateRow
  BY Written
<1>2. /\ StartedRow(e).match = dates[e].match
      /\ StartedRow(e).started = TRUE
      /\ StartedRow(e).ended = dates[e].ended
      /\ dates[e].ended \in BOOLEAN /\ dates[e].started \in BOOLEAN
  BY DEF StartedRow, TypeOK, DateRow
<1>3. /\ UNCHANGED <<published, loop, said, late>>
      /\ Update(r, e, StartedRow(e), At("joined", e, s, None))
      /\ Exists(e)
  BY DEF JoinSecond, history
<1>4. Promise!Commit(e, "started") \/ UNCHANGED Promise!vars
  BY <1>1, <1>2, <1>3, Updates
<1>5. QED
  BY <1>4 DEF Promise!Next, Promise!Fact

LEMMA EndImplements ==
  ASSUME IInv, NEW r \in Request, NEW e \in Date, NEW o \in Outcome, EndDate(r, e, o)
  PROVE  Promise!Next \/ UNCHANGED Promise!vars
<1> USE DEF IInv
<1>1. EndedRow(e, o) \in DateRow
  BY Written
<1>2. /\ EndedRow(e, o).match = dates[e].match
      /\ EndedRow(e, o).started = dates[e].started
      /\ EndedRow(e, o).ended = TRUE
      /\ dates[e].ended \in BOOLEAN /\ dates[e].started \in BOOLEAN
  BY DEF EndedRow, TypeOK, DateRow
<1>3. /\ UNCHANGED <<published, loop, said, late>>
      /\ Update(r, e, EndedRow(e, o), At("ending", e, None, None))
      /\ Exists(e)
  BY DEF EndDate, history
<1>4. Promise!Commit(e, "ended") \/ UNCHANGED Promise!vars
  BY <1>1, <1>2, <1>3, Updates
<1>5. QED
  BY <1>4 DEF Promise!Next, Promise!Fact

LEMMA ContinueImplements ==
  ASSUME IInv, NEW r \in Request, Continue(r)
  PROVE  Promise!Next
<1> USE DEF IInv
<1> DEFINE e == rq[r].date
<1>1. e \in Date /\ Exists(e)
  BY AwaitTypes DEF HandlerOk, Continue, AwaitSecond, StartConversation, AnnounceStart, AnnounceEnd
<1>2. CASE AwaitSecond(r)
  <2>1. "proposed" \in Facts(e)
    BY <1>1 DEF Facts
  <2>2. Promise!Announce(e, "proposed")
    BY <1>1, <1>2, <2>1, Announces DEF AwaitSecond
  <2>3. QED
    BY <1>1, <2>2 DEF Promise!Next, Promise!Fact
<1>3. CASE StartConversation(r)
  <2>1. dates[e].started /\ loop[e] = NoTask
    BY <1>3 DEF StartConversation, HandlerOk, HeldOk, Unstarted
  <2>2. "started" \in Facts(e) /\ Talk(e) = "silent"
    BY <2>1 DEF Facts, Talk, NoTask
  <2>3. [pc |-> "first", first |-> rq[r].first, second |-> rq[r].by] \in Task
    BY <1>3 DEF StartConversation, TypeOK, Await, Idle, At, Task
  <2>4. [d \in Date |-> Talk(d)]' = [[d \in Date |-> Talk(d)] EXCEPT ![e] = "talking"]
    BY <1>1, <1>3, <2>3, TalkChange DEF StartConversation
  <2>5. Promise!Begin(e)
    BY <1>1, <1>3, <2>2, <2>4, FactsSame, CountSame DEF StartConversation, Publish, Promise!Begin
  <2>6. QED
    BY <1>1, <2>5 DEF Promise!Next
<1>4. CASE AnnounceStart(r)
  <2>1. "started" \in Facts(e)
    BY <1>4 DEF AnnounceStart, HandlerOk, Facts
  <2>2. Promise!Announce(e, "started")
    BY <1>1, <1>4, <2>1, Announces DEF AnnounceStart
  <2>3. QED
    BY <1>1, <2>2 DEF Promise!Next, Promise!Fact
<1>5. CASE AnnounceEnd(r)
  <2>1. "ended" \in Facts(e)
    BY <1>5 DEF AnnounceEnd, HandlerOk, Facts
  <2>2. Promise!Announce(e, "ended")
    BY <1>1, <1>5, <2>1, Announces DEF AnnounceEnd
  <2>3. QED
    BY <1>1, <2>2 DEF Promise!Next, Promise!Fact
<1>6. QED
  BY <1>2, <1>3, <1>4, <1>5 DEF Continue

LEMMA ConverseImplements ==
  ASSUME IInv, NEW e \in Date, Converse(e)
  PROVE  Promise!Next \/ UNCHANGED Promise!vars
<1> USE DEF IInv
<1>1. loop[e] \in Task /\ Len(said[e]) \in Nat /\ MaxMessages \in Nat \ {0, 1}
  BY MaxMessagesAssumption DEF TypeOK
<1>2. CASE SendFirst(e)
  <2>1. Len(said[e]) < MaxMessages /\ late[e] = 0
    BY <1>1, <1>2 DEF SendFirst, TaskOk
  <2>2. Promise!Speak(e)
    BY <1>1, <1>2, <2>1, Speaks DEF SendFirst, Task
  <2>3. QED
    BY <2>2 DEF Promise!Next, Promise!Converse
<1>3. CASE CheckDate(e)
  <2>1. CASE SeesEnd(e)
    <3>1. [d \in Date |-> Talk(d)]' = [[d \in Date |-> Talk(d)] EXCEPT ![e] = "over"]
      BY <1>3, <2>1, GoesTo DEF CheckDate
    <3>2. Talk(e) = "talking"
      BY <1>3 DEF CheckDate, Talk
    <3>3. \A d \in Date : Talk(d)' = IF d \in {e} THEN "over" ELSE Talk(d)
      <4>1. \A d \in Date : [x \in Date |-> Talk(x)]'[d] = Talk(d)'
        OBVIOUS
      <4>2. QED
        BY <3>1, <4>1
    <3>4. Promise!Silence({e}) \/ UNCHANGED Promise!vars
      BY <1>3, <3>2, <3>3, Silences DEF CheckDate, history
    <3>5. QED
      BY <3>4 DEF Promise!Next, Promise!Converse
  <2>2. CASE ~SeesEnd(e)
    <3>1. [d \in Date |-> Talk(d)]' = [[d \in Date |-> Talk(d)] EXCEPT ![e] = "talking"]
      BY <1>3, <2>2, GoesTo DEF CheckDate
    <3>2. Talk(e) = "talking"
      BY <1>3 DEF CheckDate, Talk
    <3>3. [d \in Date |-> Talk(d)]' = [d \in Date |-> Talk(d)]
      BY <3>1, <3>2
    <3>4. QED
      BY <1>3, <3>3, FactsSame, CountSame DEF CheckDate, history, Promise!vars
  <2>3. QED
    BY <2>1, <2>2
<1>4. CASE Reply(e)
  <2>1. Len(said[e]) < MaxMessages /\ late[e] = 0
    BY <1>1, <1>4 DEF Reply, TaskOk, BudgetOk
  <2>2. Speaker(e) \in Side \cup {None}
    BY <1>1 DEF Speaker, Task
  <2>3. Promise!Speak(e)
    BY <1>4, <2>1, <2>2, Speaks DEF Reply
  <2>4. QED
    BY <2>3 DEF Promise!Next, Promise!Converse
<1>5. CASE AutoEnd(e)
  <2>1. Len(said[e]) = MaxMessages
    BY <1>1, <1>5 DEF AutoEnd, Full, BudgetOk
  <2>2. Talk(e) = "talking"
    BY <1>5 DEF AutoEnd, Talk
  <2>3. [d \in Date |-> Talk(d)]' = [[d \in Date |-> Talk(d)] EXCEPT ![e] = "over"]
    BY <1>5, GoesTo DEF AutoEnd
  <2>4. EndedRow(e, "limit") \in DateRow
    BY Written
  <2>5. Facts(e)' = Facts(e) \cup {"ended"}
    BY <1>5 DEF AutoEnd, EndedRow, Facts, Exists, TypeOK, DateRow
  <2>6. [d \in Date |-> Facts(d)]' =
          [[d \in Date |-> Facts(d)] EXCEPT ![e] = Facts(e) \cup {"ended"}]
    BY <1>5, <2>4, <2>5, FactsChange DEF AutoEnd
  <2>7. Promise!Complete(e)
    BY <1>5, <2>1, <2>2, <2>3, <2>6, CountSame DEF AutoEnd, history, Promise!Complete
  <2>8. QED
    BY <2>7 DEF Promise!Next, Promise!Converse
<1>6. CASE AnnounceAutoEnd(e)
  <2>1. "ended" \in Facts(e)
    BY <1>6 DEF AnnounceAutoEnd, BudgetOk, Facts
  <2>2. [d \in Date |-> Talk(d)]' = [[d \in Date |-> Talk(d)] EXCEPT ![e] = "over"]
    BY <1>6, GoesTo DEF AnnounceAutoEnd
  <2>3. Talk(e) = "over"
    BY <1>6 DEF AnnounceAutoEnd, Talk
  <2>4. [d \in Date |-> Talk(d)]' = [d \in Date |-> Talk(d)]
    BY <2>2, <2>3
  <2>5. Promise!Announce(e, "ended")
    BY <1>6, <2>1, <2>4, FactsSame, CountSame DEF AnnounceAutoEnd, Publish, Promise!Announce
  <2>6. QED
    BY <2>5 DEF Promise!Next, Promise!Fact
<1>7. QED
  BY <1>2, <1>3, <1>4, <1>5, <1>6 DEF Converse

LEMMA FailureImplements ==
  ASSUME IInv, Failure
  PROVE  Promise!Next \/ UNCHANGED Promise!vars
<1> USE DEF IInv
<1>1. ASSUME NEW r \in Request, HandlerFails(r)
      PROVE  UNCHANGED Promise!vars
  BY <1>1, Stutters DEF HandlerFails, history
<1>2. ASSUME NEW D \in SUBSET Date,
             \A d \in Date :
               loop'[d] = IF d \in D THEN [loop[d] EXCEPT !.pc = "failed"] ELSE loop[d],
             \A d \in D : Running(d),
             UNCHANGED <<dates, published, said, late>>
      PROVE  Promise!Next \/ UNCHANGED Promise!vars
  <2> DEFINE S == {d \in D : Talk(d) = "talking"}
  <2>1. \A d \in D : Talk(d)' = "over" /\ Talk(d) \in {"talking", "over"}
    BY <1>2 DEF Talk, Running, TypeOK, Task
  <2>2. \A d \in Date : Talk(d)' = IF d \in S THEN "over" ELSE Talk(d)
    BY <1>2, <2>1 DEF Talk
  <2>3. Promise!Silence(S) \/ UNCHANGED Promise!vars
    BY <1>2, <2>2, Silences
  <2>4. QED
    BY <2>3 DEF Promise!Next
<1>3. ASSUME NEW e \in Date, LoopFails(e)
      PROVE  Promise!Next \/ UNCHANGED Promise!vars
  <2>1. /\ {e} \in SUBSET Date
        /\ \A d \in {e} : Running(d)
        /\ UNCHANGED <<dates, published, said, late>>
    BY <1>3 DEF LoopFails, history
  <2>2. \A d \in Date : loop'[d] = IF d \in {e} THEN [loop[d] EXCEPT !.pc = "failed"] ELSE loop[d]
    BY <1>3 DEF LoopFails, GoTo, TypeOK
  <2>3. QED
    BY <1>2, <2>1, <2>2
<1>4. CASE Restart
  <2>1. {d \in Date : Running(d)} \in SUBSET Date
    OBVIOUS
  <2>2. QED
    BY <1>2, <1>4, <2>1 DEF Restart, history
<1>5. QED
  BY <1>1, <1>3, <1>4 DEF Failure

----------------------------------------------------------------------------
\* The date lifecycle keeps the promise of module Conversation: whatever requests
\* overlap, fail or are cut off by a restart, from outside one sees a date to which facts
\* are only added, that is announced truthfully and talks once, within its budget.
THEOREM Refinement == Spec => KeepsPromise
<1>1. Init => Promise!Init
  BY DEF Init, NoTask, Facts, Exists, Talk, Promise!Init
<1>2. IInv /\ BlankInv /\ [Next]_vars => [Promise!Next]_(Promise!vars)
  <2> SUFFICES ASSUME IInv, BlankInv, [Next]_vars PROVE Promise!Next \/ UNCHANGED Promise!vars
    OBVIOUS
  <2>1. CASE User
    <3>1. ASSUME NEW e \in Date, NEW s \in Side, JoinFirst(e, s) PROVE UNCHANGED Promise!vars
      BY <3>1, Stutters DEF JoinFirst, history
    <3>2. QED
      BY <2>1, <3>1, ProposeImplements, SecondImplements, JoinImplements, EndImplements DEF User
  <2>2. CASE UNCHANGED vars
    BY <2>2, Stutters DEF vars, history, memory
  <2>3. QED
    BY <2>1, <2>2, ContinueImplements, ConverseImplements, FailureImplements DEF Next
<1>3. QED
  BY Invariance, BlankInvariant, <1>1, <1>2, PTL DEF Spec, KeepsPromise, Promise!Spec

=============================================================================
