--------------------------- MODULE DateLifecycle ---------------------------
(***************************************************************************)
(* The life of a date between two matched agents: proposing it, joining    *)
(* it, the conversation task that runs in the background, ending it, and   *)
(* what the event bus is told (backend/app/handlers/date_handler.py).      *)
(*                                                                         *)
(* The backend is one asyncio process: a handler runs undisturbed from one *)
(* await to the next, and every await is a statement of its own in         *)
(* PostgreSQL.  One action is therefore one such segment: the code since   *)
(* the last await together with the statement it ends in.                  *)
(***************************************************************************)
EXTENDS Naturals, Sequences

CONSTANTS
  Match,        \* the matches; each has the two agents of Side
  Date,         \* the date ids the database may hand out
  Request,      \* slots for the HTTP and WS requests in progress at once
  Outcome,      \* the outcomes a user may send; "limit" is the task's own "completed"
  MaxMessages,  \* MAX_MESSAGES, 20 in the code
  MaxRequests,  \* bound: requests the users send in a behaviour
  MaxFaults,    \* bound: failures and restarts in a behaviour
  None

ASSUME MaxMessagesAssumption == MaxMessages \in Nat \ {0, 1}
ASSUME BoundsAssumption == MaxRequests \in Nat /\ MaxFaults \in Nat
ASSUME OutcomeAssumption == {None, "limit"} \cap Outcome = {}
ASSUME NoneAssumption == None \notin Date \cup Match \cup {"a", "b", "limit"}

VARIABLES
  dates,      \* the table dates
  said,       \* senders of the messages a date's conversation stored, in order
  pending,    \* _pending_starts: the date a match waits to start, and by whom
  joins,      \* _pending_joins: the first agent to join a date
  active,     \* the agents that have the date in _active_date_ids
  loop,       \* the task _run_conversation_loop of a date
  rq,         \* the requests in progress, each at an await
  published,  \* history: the events the bus was given about a date
  late,       \* history: messages stored although the date had ended
  quota,      \* requests still to come
  faults      \* failures and restarts so far

memory == <<pending, joins, active, loop, rq>>
history == <<published, late>>
vars == <<dates, said, memory, history, quota, faults>>

Side == {"a", "b"}
Waiting == [date |-> None, by |-> None]
At(pc, d, s, first) == [pc |-> pc, date |-> d, by |-> s, first |-> first]
Idle == At("idle", None, None, None)
NoTask == [pc |-> "none", first |-> None, second |-> None]

DateRow == [match : Match \cup {None}, started : BOOLEAN, ended : BOOLEAN,
            outcome : Outcome \cup {None, "limit"}]
Entry == {Waiting} \cup [date : Date, by : Side \cup {None}]
Task == [pc : {"none", "first", "sent", "reply", "ending", "done", "failed"},
         first : Side \cup {None}, second : Side \cup {None}]
Await == {Idle} \cup [pc : {"inserted", "starting", "joined", "ending"}, date : Date,
                      by : Side \cup {None}, first : Side \cup {None}]

TypeOK ==
  /\ dates \in [Date -> DateRow]
  /\ said \in [Date -> Seq(Side \cup {None})]
  /\ pending \in [Match -> Entry]
  /\ joins \in [Date -> Side \cup {None}]
  /\ active \in [Date -> SUBSET Side]
  /\ loop \in [Date -> Task]
  /\ rq \in [Request -> Await]
  /\ published \in [Date -> SUBSET {"proposed", "started", "ended"}]
  /\ late \in [Date -> Nat]
  /\ quota \in 0..MaxRequests
  /\ faults \in 0..MaxFaults

Init ==
  /\ dates = [d \in Date |-> [match |-> None, started |-> FALSE, ended |-> FALSE,
                              outcome |-> None]]
  /\ said = [d \in Date |-> <<>>]
  /\ pending = [m \in Match |-> Waiting]
  /\ joins = [d \in Date |-> None]
  /\ active = [d \in Date |-> {}]
  /\ loop = [d \in Date |-> NoTask]
  /\ rq = [r \in Request |-> Idle]
  /\ published = [d \in Date |-> {}]
  /\ late = [d \in Date |-> 0]
  /\ quota = MaxRequests
  /\ faults = 0

----------------------------------------------------------------------------
(* Requests, their statements and their failures.                          *)

Exists(d) == dates[d].match # None
Arrives(r) == rq[r] = Idle /\ quota > 0 /\ quota' = quota - 1
Fault == faults < MaxFaults /\ faults' = faults + 1
Finish(r) == rq' = [rq EXCEPT ![r] = Idle]
Publish(d, event) == published' = [published EXCEPT ![d] = @ \cup {event}]

\* A handler's UPDATE of a row of dates: it commits and the handler waits at
\* "point", or the database raises and the handler ends.
Update(r, d, row, point) ==
  \/ /\ dates' = [dates EXCEPT ![d] = row]
     /\ rq' = [rq EXCEPT ![r] = point]
     /\ UNCHANGED faults
  \/ Fault /\ Finish(r) /\ UNCHANGED dates

\* db.start_date and db.end_date: neither looks at what the row holds.
StartedRow(d) == [dates[d] EXCEPT !.started = TRUE]
\* a slip: the arguments of db.end_date change places
EndedRowSwapped(d, o) == [dates[d] EXCEPT !.ended = o, !.outcome = None]
EndedRow(d, o) == [dates[d] EXCEPT !.ended = TRUE, !.outcome = o]

\* Any await of a handler may raise: an LLM error after its retries, a lost
\* connection, a rating out of range.  What was done before stays done.
HandlerFails(r) ==
  /\ rq[r] # Idle
  /\ Fault
  /\ Finish(r)
  /\ UNCHANGED <<dates, said, pending, joins, active, loop, history, quota>>

----------------------------------------------------------------------------
(* propose_date                                                            *)

\* The first to press: a row of the table for the date.
ProposeFirst(r, m, s) ==
  /\ Arrives(r)
  /\ pending[m] = Waiting
  /\ \E d \in Date :
       /\ ~Exists(d)
       /\ dates' = [dates EXCEPT ![d].match = m]
       /\ rq' = [rq EXCEPT ![r] = At("inserted", d, s, None)]
  /\ UNCHANGED <<said, pending, joins, active, loop, history, faults>>

\* The first message is generated, and the match waits for a second press.
AwaitSecond(r) ==
  LET d == rq[r].date IN
  /\ rq[r].pc = "inserted"
  /\ pending' = [pending EXCEPT ![dates[d].match] = [date |-> d, by |-> rq[r].by]]
  /\ Publish(d, "proposed")
  /\ Finish(r)
  /\ UNCHANGED <<dates, said, joins, active, loop, late, quota, faults>>

\* a slip: get instead of pop
PeekPending(m) == UNCHANGED pending

TakePending(m) == pending' = [pending EXCEPT ![m] = Waiting]

\* The next to press, whoever it is: the entry goes and started_at is written.
ProposeSecond(r, m, s) ==
  /\ Arrives(r)
  /\ pending[m] # Waiting
  /\ TakePending(m)
  /\ LET d == pending[m].date
     IN  Update(r, d, StartedRow(d), At("starting", d, s, pending[m].by))
  /\ UNCHANGED <<said, joins, active, loop, history>>

\* DateStarted is published and the conversation task created.
StartConversation(r) ==
  LET d == rq[r].date IN
  /\ rq[r].pc = "starting"
  /\ loop' = [loop EXCEPT ![d] = [pc |-> "first", first |-> rq[r].first,
                                  second |-> rq[r].by]]
  /\ Publish(d, "started")
  /\ Finish(r)
  /\ UNCHANGED <<dates, said, pending, joins, active, late, quota, faults>>

----------------------------------------------------------------------------
(* handle_join_date                                                        *)

JoinFirst(d, s) ==
  /\ quota > 0 /\ quota' = quota - 1
  /\ Exists(d) /\ joins[d] = None
  /\ active' = [active EXCEPT ![d] = @ \cup {s}]
  /\ joins' = [joins EXCEPT ![d] = s]
  /\ UNCHANGED <<dates, said, pending, loop, rq, history, faults>>

\* a slip: the event goes out before the statement is known to have committed
JoinSecondEager(r, d, s) ==
  /\ Arrives(r)
  /\ Exists(d) /\ joins[d] # None
  /\ active' = [active EXCEPT ![d] = @ \cup {s}]
  /\ joins' = [joins EXCEPT ![d] = None]
  /\ Update(r, d, StartedRow(d), Idle)
  /\ Publish(d, "started")
  /\ UNCHANGED <<said, pending, loop, late>>

JoinSecond(r, d, s) ==
  /\ Arrives(r)
  /\ Exists(d) /\ joins[d] # None
  /\ active' = [active EXCEPT ![d] = @ \cup {s}]
  /\ joins' = [joins EXCEPT ![d] = None]
  /\ Update(r, d, StartedRow(d), At("joined", d, s, None))
  /\ UNCHANGED <<said, pending, loop, history>>

AnnounceStart(r) ==
  /\ rq[r].pc = "joined"
  /\ Publish(rq[r].date, "started")
  /\ Finish(r)
  /\ UNCHANGED <<dates, said, pending, joins, active, loop, late, quota, faults>>

----------------------------------------------------------------------------
(* end_date, without the rating it may carry (module Reputation)           *)

\* Both agents leave: one that has joined is known to agent_service until a restart.
EndDate(r, d, o) ==
  /\ Arrives(r)
  /\ Exists(d)
  /\ active' = [active EXCEPT ![d] = {}]
  /\ Update(r, d, EndedRow(d, o), At("ending", d, None, None))
  /\ UNCHANGED <<said, pending, joins, loop, history>>

\* a slip: the handler returns without telling the bus
AnnounceEndNever(r) ==
  /\ rq[r].pc = "ending"
  /\ Finish(r)
  /\ UNCHANGED <<dates, said, pending, joins, active, loop, history, quota, faults>>

AnnounceEnd(r) ==
  /\ rq[r].pc = "ending"
  /\ Publish(rq[r].date, "ended")
  /\ Finish(r)
  /\ UNCHANGED <<dates, said, pending, joins, active, loop, late, quota, faults>>

----------------------------------------------------------------------------
(* _run_conversation_loop; msg_count is Len(said[d])                       *)

\* slips: the row is not looked at; the limit is off by one
SeesNoEnd(d) == FALSE
FullLate(n) == n > MaxMessages

SeesEnd(d) == dates[d].ended
Full(n) == n >= MaxMessages

\* agents[msg_count % 2] of agents = [second, initiator]
Speaker(d) == IF Len(said[d]) % 2 = 0 THEN loop[d].second ELSE loop[d].first

GoTo(d, pc) == loop' = [loop EXCEPT ![d].pc = pc]

Store(d, s) ==
  /\ said' = [said EXCEPT ![d] = Append(@, s)]
  /\ late' = [late EXCEPT ![d] = @ + (IF dates[d].ended THEN 1 ELSE 0)]

\* The first message, generated when the date was proposed, is stored.
SendFirst(d) ==
  /\ loop[d].pc = "first"
  /\ Store(d, loop[d].first)
  /\ GoTo(d, "sent")
  /\ UNCHANGED <<dates, pending, joins, active, rq, published, quota, faults>>

\* A message went out: is there room for another, and does the row still say
\* that the date has not ended?
CheckDate(d) ==
  /\ loop[d].pc = "sent" /\ ~Full(Len(said[d]))
  /\ GoTo(d, IF SeesEnd(d) THEN "done" ELSE "reply")
  /\ UNCHANGED <<dates, said, pending, joins, active, rq, history, quota, faults>>

Reply(d) ==
  /\ loop[d].pc = "reply"
  /\ Store(d, Speaker(d))
  /\ GoTo(d, "sent")
  /\ UNCHANGED <<dates, pending, joins, active, rq, published, quota, faults>>

\* a slip: the task stops at the limit and leaves the date open
AutoEndNever(d) ==
  /\ loop[d].pc = "sent" /\ Full(Len(said[d]))
  /\ GoTo(d, "done")
  /\ UNCHANGED <<dates, said, pending, joins, active, rq, history, quota, faults>>

\* The limit is reached: the task ends the date itself.
AutoEnd(d) ==
  /\ loop[d].pc = "sent" /\ Full(Len(said[d]))
  /\ dates' = [dates EXCEPT ![d] = EndedRow(d, "limit")]
  /\ GoTo(d, "ending")
  /\ UNCHANGED <<said, pending, joins, active, rq, history, quota, faults>>

AnnounceAutoEnd(d) ==
  /\ loop[d].pc = "ending"
  /\ Publish(d, "ended")
  /\ GoTo(d, "done")
  /\ UNCHANGED <<dates, said, pending, joins, active, rq, late, quota, faults>>

Running(d) == loop[d].pc \notin {"none", "done", "failed"}

\* "except Exception": the task logs the error and is gone.
LoopFails(d) ==
  /\ Running(d)
  /\ Fault
  /\ GoTo(d, "failed")
  /\ UNCHANGED <<dates, said, pending, joins, active, rq, history, quota>>

\* The process stops and starts again: the tables are all that is left.
Restart ==
  /\ Fault
  /\ pending' = [m \in Match |-> Waiting]
  /\ joins' = [d \in Date |-> None]
  /\ active' = [d \in Date |-> {}]
  /\ loop' = [d \in Date |-> IF Running(d) THEN [loop[d] EXCEPT !.pc = "failed"]
                             ELSE loop[d]]
  /\ rq' = [r \in Request |-> Idle]
  /\ UNCHANGED <<dates, said, history, quota>>

----------------------------------------------------------------------------
User ==
  \/ \E r \in Request, m \in Match, s \in Side :
       ProposeFirst(r, m, s) \/ ProposeSecond(r, m, s)
  \/ \E d \in Date, s \in Side : JoinFirst(d, s)
  \/ \E r \in Request, d \in Date, s \in Side : JoinSecond(r, d, s)
  \/ \E r \in Request, d \in Date, o \in Outcome : EndDate(r, d, o)

Continue(r) ==
  AwaitSecond(r) \/ StartConversation(r) \/ AnnounceStart(r) \/ AnnounceEnd(r)

Converse(d) ==
  SendFirst(d) \/ CheckDate(d) \/ Reply(d) \/ AutoEnd(d) \/ AnnounceAutoEnd(d)

Failure ==
  \/ \E r \in Request : HandlerFails(r)
  \/ \E d \in Date : LoopFails(d)
  \/ Restart

Next ==
  \/ User
  \/ \E r \in Request : Continue(r)
  \/ \E d \in Date : Converse(d)
  \/ Failure

Spec == Init /\ [][Next]_vars

\* The event loop resumes every handler and task whose await is over; nobody is
\* obliged to send a request, and nothing is obliged to fail.
Fairness ==
  /\ \A r \in Request : WF_vars(Continue(r))
  /\ \A d \in Date : WF_vars(Converse(d))

FairSpec == Spec /\ Fairness

----------------------------------------------------------------------------
(* Properties                                                              *)

\* A date has one conversation: no second task is ever created for a date whose
\* task runs, has finished or has failed, however often both sides press and
\* whatever restarts lie between (_pending_starts.pop, date_handler.py:98).
OneConversation ==
  [][\A d \in Date : loop[d].pc # "none" => loop'[d].pc # "first" \/ loop[d].pc = "first"]_vars

\* The speakers of a conversation: the initiator says the first message and every even
\* one, the other side the odd ones from the third on, whatever requests, ends and restarts
\* fall between its messages (date_handler.py:146-151, 168; SpeakersAlternate is what the
\* comment says).
SpeakersTakeTurns ==
  \A d \in Date : \A i \in 1..Len(said[d]) :
    said[d][i] = IF i = 1 \/ i % 2 = 0 THEN loop[d].first ELSE loop[d].second

\* Ending a date silences it: at most the one message that was being generated
\* when the end was written still reaches the table (date_handler.py:164-170).
AtMostOneLateMessage == \A d \in Date : late[d] <= 1

\* The conversation keeps within MAX_MESSAGES, and only one that used them all
\* is ended by its task, as "completed" (date_handler.py:162, 181-182).
WithinBudget ==
  \A d \in Date :
    /\ Len(said[d]) <= MaxMessages
    /\ dates[d].outcome = "limit" => Len(said[d]) = MaxMessages

\* What subscribers hear is in the table before they hear it: an event announces
\* a start or an end that is committed, also across restarts.
AnnouncedIsCommitted ==
  \A d \in Date :
    /\ "proposed" \in published[d] => Exists(d)
    /\ "started" \in published[d] => dates[d].started
    /\ "ended" \in published[d] => dates[d].ended

\* Nobody speaks on a date that waits for its second press, and a match waits
\* only for a date of its own.
WaitingIsSilent ==
  \A m \in Match : pending[m] # Waiting =>
    /\ dates[pending[m].date].match = m
    /\ loop[pending[m].date] = NoTask
    /\ said[pending[m].date] = <<>>

\* Every conversation comes to an end: its date is ended, by the limit or by a
\* user, unless the task itself failed.
ConversationEnds ==
  \A d \in Date : (loop[d].pc = "first") ~> (dates[d].ended \/ loop[d].pc = "failed")

\* Unless something failed, the end of a date is announced.
EndIsAnnounced ==
  \A d \in Date : dates[d].ended ~> ("ended" \in published[d] \/ faults > 0)

----------------------------------------------------------------------------
(* The refinement.                                                         *)

\* What the row of a date says of it, and how its conversation looks from outside.
Facts(d) ==
  {f \in {"proposed", "started", "ended"} :
     CASE f = "proposed" -> Exists(d)
       [] f = "started"  -> dates[d].started
       [] OTHER -> dates[d].ended}
Talk(d) ==
  IF loop[d].pc = "none" THEN "silent"
  ELSE IF loop[d].pc \in {"first", "sent", "reply"} THEN "talking" ELSE "over"

Promise ==
  INSTANCE Conversation WITH
    facts <- [d \in Date |-> Facts(d)],
    heard <- published,
    talk <- [d \in Date |-> Talk(d)],
    count <- [d \in Date |-> Len(said[d])]

\* The handlers, the dictionaries, the task and the tables together keep the promise of
\* module Conversation, across overlapping requests, failures and restarts.
KeepsPromise == Promise!Spec

----------------------------------------------------------------------------
(* What comments of the code say, and the code does not do                 *)

\* "Both sides have to press propose_date for the conversation to start"
\* (date_handler.py:26).
BothSidesPressed ==
  \A d \in Date : loop[d].pc # "none" => loop[d].first # loop[d].second

\* "Order: [initiator, second, initiator, second, ...]; the first message is the
\* initiator's, so start from second's reply" (date_handler.py:144-145), where the
\* two sides pressed.
SpeakersAlternate ==
  \A d \in Date : loop[d].first # loop[d].second =>
    \A i \in 1..Len(said[d]) - 1 : said[d][i] # said[d][i + 1]

=============================================================================
