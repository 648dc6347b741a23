------------------------------ MODULE WsClient ------------------------------
(***************************************************************************)
(* The frontend's WebSocket manager (frontend/src/api/ws/client.ts): one   *)
(* object for the whole page, with the socket it refers to, a reconnect    *)
(* timer, a heartbeat and the subscribed topics.                           *)
(*                                                                         *)
(* JavaScript is single-threaded: a method runs to its end, and a caller   *)
(* such as App's auth listener runs several methods in one go.  The        *)
(* methods are therefore operators from the manager's state to its next    *)
(* state, and what the browser calls (events of sockets, timers) are       *)
(* actions.  A socket that was closed or replaced keeps its listeners, so  *)
(* its events reach the manager as well.                                   *)
(***************************************************************************)
EXTENDS Naturals

CONSTANTS
  Socket,        \* the sockets alive at once (a bound); a closed one is used again
  Topic,
  HeartbeatFailLimit,
  MaxFaults,     \* bound: connections cut, constructors that throw, tokens that run out
  None

ASSUME LimitAssumption == HeartbeatFailLimit \in Nat \ {0}
ASSUME FaultsAssumption == MaxFaults \in Nat
ASSUME NoSocketAssumption == None \notin Socket

VARIABLES
  ws,      \* the manager and the sockets it has constructed
  faults   \* faults so far

\* The developer's token, and those of Supabase as they are issued
Token == Nat

Status == {"idle", "connecting", "open", "closed", "reconnecting"}

\* What a socket is to the browser: "closing" has its close event still to come.
Phase == {"free", "connecting", "open", "closing"}

\* The manager: status, intentionalClose, reconnectAttempt > 0, socket (ref), the
\* keys of subs, the heartbeat with its fails, the reconnect timer it can still
\* clear (armed) and those it has lost the handle of (strays).  The sockets: their
\* phase, the token in their URL, and the topics subscribed on them at the server.
Managers ==
  [status : Status, intentional : BOOLEAN, retried : BOOLEAN,
   ref : Socket \cup {None}, subs : SUBSET Topic,
   beat : BOOLEAN, fails : 0..HeartbeatFailLimit - 1, armed : BOOLEAN, strays : Nat,
   phase : [Socket -> Phase], url : [Socket -> Token \cup {None}],
   sent : [Socket -> SUBSET Topic]]

Fresh ==
  [status |-> "idle", intentional |-> FALSE, retried |-> FALSE,
   ref |-> None, subs |-> {},
   beat |-> FALSE, fails |-> 0, armed |-> FALSE, strays |-> 0,
   phase |-> [s \in Socket |-> "free"], url |-> [s \in Socket |-> None],
   sent |-> [s \in Socket |-> {}]]

----------------------------------------------------------------------------
(* The methods.                                                            *)

Sendable(w) == w.ref # None /\ w.phase[w.ref] = "open"

\* sendRaw drops a frame when the socket it refers to is not open.
SendSubscribes(w, topics) ==
  IF Sendable(w) THEN [w EXCEPT !.sent[w.ref] = @ \cup topics] ELSE w
SendUnsubscribes(w, topics) ==
  IF Sendable(w) THEN [w EXCEPT !.sent[w.ref] = @ \ topics] ELSE w

\* Every topic has one subscriber at a time in this program: the layout, a page.
Subscribe(w, topics) ==
  [SendSubscribes(w, topics \ w.subs) EXCEPT !.subs = @ \cup topics]
Unsubscribe(w, topics) ==
  [SendUnsubscribes(w, topics \cap w.subs) EXCEPT !.subs = @ \ topics]

\* a slip: no new timer while the handle of the last one is set
ScheduleReconnectOnce(w) ==
  [w EXCEPT !.status = "reconnecting", !.retried = TRUE, !.armed = @ \/ ~w.retried]
\* The new timer takes the place of the handle, not of the timer.
ScheduleReconnect(w) ==
  [w EXCEPT !.status = "reconnecting", !.retried = TRUE, !.armed = TRUE,
            !.strays = IF w.armed THEN @ + 1 ELSE @]

Spare(w) == {s \in Socket : w.phase[s] = "free"}
NextSocket(w) == CHOOSE s \in Spare(w) : TRUE

\* connect(): "made" says whether the constructor returns.
Connect(w, token, made) ==
  LET on == [w EXCEPT !.intentional = FALSE,
                      !.status = IF w.retried THEN "reconnecting" ELSE "connecting"]
  IN CASE w.status \in {"open", "connecting"} -> w
       [] w.status \notin {"open", "connecting"} /\ ~made -> ScheduleReconnect(on)
       [] OTHER -> [on EXCEPT !.ref = NextSocket(w), !.phase[NextSocket(w)] = "connecting",
                              !.url[NextSocket(w)] = token]

\* socket.close() returns at once; the close event comes later.
CloseSocket(w) ==
  IF w.ref # None /\ w.phase[w.ref] \in {"connecting", "open"}
    THEN [w EXCEPT !.phase[w.ref] = "closing"] ELSE w

\* a slip: the manager keeps its reference
DisconnectKeeps(w) ==
  [CloseSocket(w) EXCEPT !.intentional = TRUE, !.armed = FALSE, !.beat = FALSE,
                         !.status = "closed"]
Disconnect(w) ==
  [CloseSocket(w) EXCEPT !.intentional = TRUE, !.armed = FALSE, !.beat = FALSE,
                         !.ref = None, !.status = "closed"]

\* a slip: the topics are not sent again
HandleOpenForgets(w) ==
  [w EXCEPT !.retried = FALSE, !.fails = 0, !.status = "open", !.beat = TRUE]
HandleOpen(w) ==
  [SendSubscribes(w, w.subs) EXCEPT !.retried = FALSE, !.fails = 0, !.status = "open",
                                    !.beat = TRUE]

\* a slip: nothing to do when the manager has no socket
HandleCloseOwn(w) ==
  IF w.ref = None THEN w
  ELSE LET gone == [w EXCEPT !.beat = FALSE, !.ref = None]
       IN IF w.intentional THEN [gone EXCEPT !.status = "closed"]
                           ELSE ScheduleReconnect(gone)
\* The listener does not know which socket closed.
HandleClose(w) ==
  LET gone == [w EXCEPT !.beat = FALSE, !.ref = None]
  IN IF w.intentional THEN [gone EXCEPT !.status = "closed"] ELSE ScheduleReconnect(gone)

\* slips: the count is not reset; the limit only resets it
BeatCounts(w) ==
  LET fails == IF Sendable(w) THEN 0 ELSE w.fails + 1
  IN IF fails < HeartbeatFailLimit THEN [w EXCEPT !.fails = fails]
     ELSE ScheduleReconnect([Disconnect(w) EXCEPT !.fails = fails, !.intentional = FALSE])
BeatForgives(w) ==
  LET fails == IF Sendable(w) THEN 0 ELSE w.fails + 1
  IN [w EXCEPT !.fails = IF fails < HeartbeatFailLimit THEN fails ELSE 0]
\* One tick of the heartbeat.
Beat(w) ==
  LET fails == IF Sendable(w) THEN 0 ELSE w.fails + 1
  IN IF fails < HeartbeatFailLimit THEN [w EXCEPT !.fails = fails]
     ELSE ScheduleReconnect([Disconnect(w) EXCEPT !.fails = 0, !.intentional = FALSE])

----------------------------------------------------------------------------
(* What the browser does; "token" is what the tokenGetter returns.         *)

Fault == faults < MaxFaults /\ faults' = faults + 1
NoFault == UNCHANGED faults

\* The constructor returns, or throws as a fault.
Made(made) == IF made THEN NoFault ELSE Fault

\* on_connect verifies the token of the URL, once: the tokens in "expired" have run out,
\* but a socket that was accepted with one stays open.
Accepted(s, expired) == ws.url[s] # None /\ ws.url[s] \notin expired

SocketOpens(s, expired) ==
  /\ ws.phase[s] = "connecting" /\ Accepted(s, expired)
  /\ ws' = HandleOpen([ws EXCEPT !.phase[s] = "open"])
  /\ NoFault

\* Without a token that holds, the socket is closed before it has opened.
SocketRefused(s, expired) ==
  /\ ws.phase[s] = "connecting" /\ ~Accepted(s, expired)
  /\ ws' = [ws EXCEPT !.phase[s] = "closing"]
  /\ NoFault

\* The network or the server ends a connection, or the server has no key to verify with.
SocketCut(s) ==
  /\ ws.phase[s] \in {"connecting", "open"}
  /\ ws' = [ws EXCEPT !.phase[s] = "closing"]
  /\ Fault

\* The close event of a socket, the current one or an earlier one.
SocketClosed(s) ==
  /\ ws.phase[s] = "closing"
  /\ ws' = HandleClose([ws EXCEPT !.phase[s] = "free", !.sent[s] = {}, !.url[s] = None])
  /\ NoFault

Tick ==
  /\ ws.beat
  /\ ws' = Beat(ws)
  /\ NoFault

TimerFires(token, made) ==
  /\ ws.armed /\ Spare(ws) # {}
  /\ ws' = Connect([ws EXCEPT !.armed = FALSE], token, made)
  /\ Made(made)

\* A reconnect timer whose handle was overwritten; clearTimeout cannot reach it.
StrayFires(token, made) ==
  /\ ws.strays > 0 /\ Spare(ws) # {}
  /\ ws' = Connect([ws EXCEPT !.strays = @ - 1], token, made)
  /\ Made(made)

=============================================================================
