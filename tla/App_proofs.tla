----------------------------- MODULE App_proofs -----------------------------
(***************************************************************************)
(* Proofs about App and WsClient, for every number of sockets, agents and  *)
(* moves, any topics, any heartbeat limit and any number of faults.        *)
(***************************************************************************)
EXTENDS App, TLAPS

----------------------------------------------------------------------------
(* What the methods of the manager keep.                                   *)

\* Nothing was ever sent on a socket that has not been open.
Base(w) ==
  /\ w \in Managers
  /\ \A s \in Socket : w.phase[s] \in {"free", "connecting"} => w.sent[s] = {}

InStep(w) == Sendable(w) => w.sent[w.ref] = w.subs
Pending(w) == \E s \in Socket : w.phase[s] \in {"connecting", "closing"}
Backed(w) == \E s \in Socket : w.phase[s] \in {"open", "closing"}
Anonymous(w) == w.ref # None => w.url[w.ref] = None

\* What holds of a manager in the middle of its reconnect timer.
Between(w) ==
  /\ Base(w) /\ InStep(w)
  /\ w.status = "connecting" => Pending(w)
  /\ w.status = "open" => Backed(w)

Ok(w) ==
  /\ Between(w)
  /\ w.status = "reconnecting" => w.armed \/ w.strays > 0 \/ Pending(w)

LEMMA FreshOk == Ok(Fresh) /\ Fresh.subs = {} /\ Fresh.ref = None
BY LimitAssumption, NoSocketAssumption
   DEF Ok, Between, Base, InStep, Sendable, Fresh, Managers, Status, Phase

LEMMA ScheduleOk ==
  ASSUME NEW w, Base(w), InStep(w)
  PROVE  LET v == ScheduleReconnect(w)
         IN Ok(v) /\ v.subs = w.subs /\ v.ref = w.ref /\ v.url = w.url
<1> DEFINE v == ScheduleReconnect(w)
           n == IF w.armed THEN w.strays + 1 ELSE w.strays
<1>0. w \in Managers /\ n \in Nat
  BY DEF Base, Managers
<1>1. /\ v \in Managers
      /\ v.subs = w.subs /\ v.ref = w.ref /\ v.url = w.url
      /\ v.phase = w.phase /\ v.sent = w.sent
      /\ v.status = "reconnecting" /\ v.armed
  <2>1. v = [w EXCEPT !.status = "reconnecting", !.retried = TRUE, !.armed = TRUE,
                      !.strays = n]
    BY DEF ScheduleReconnect
  <2> HIDE DEF n, v
  <2>2. QED
    BY <1>0, <2>1 DEF Managers, Status
<1>2. QED
  BY <1>1 DEF Ok, Between, Base, InStep, Sendable

LEMMA DisconnectOk ==
  ASSUME NEW w, Base(w)
  PROVE  LET v == Disconnect(w)
         IN /\ Ok(v) /\ v.subs = w.subs /\ v.ref = None /\ v.status = "closed"
            /\ Spare(w) # {} => Spare(v) # {}
<1> DEFINE c == CloseSocket(w)
           v == Disconnect(w)
<1>1. c \in Managers /\ c.subs = w.subs /\ c.sent = w.sent
  BY DEF Base, CloseSocket, Managers, Phase
<1>2. \A s \in Socket : c.phase[s] \in {"free", "connecting"} => c.phase[s] = w.phase[s]
  BY DEF Base, CloseSocket, Managers
<1>3. /\ v \in Managers
      /\ v.subs = w.subs /\ v.ref = None /\ v.status = "closed"
      /\ v.phase = c.phase /\ v.sent = w.sent
  BY <1>1 DEF Disconnect, Managers, Status
<1>4. \A s \in Socket : w.phase[s] = "free" => c.phase[s] = "free"
  BY DEF Base, CloseSocket, Managers
<1>5. QED
  BY <1>2, <1>3, <1>4 DEF Ok, Between, Base, InStep, Sendable, Spare

LEMMA ConnectOk ==
  ASSUME NEW w, Between(w), Spare(w) # {}, NEW t \in Token \cup {None}, NEW made \in BOOLEAN
  PROVE  LET v == Connect(w, t, made)
         IN /\ Between(v) /\ v.subs = w.subs
            /\ Ok(w) \/ w.status = "reconnecting" => Ok(v)
            /\ Anonymous(w) /\ t = None => Anonymous(v)
<1> DEFINE n == NextSocket(w)
           on == [w EXCEPT !.intentional = FALSE,
                           !.status = IF w.retried THEN "reconnecting" ELSE "connecting"]
           v == Connect(w, t, made)
<1>1. n \in Socket /\ w.phase[n] = "free"
  BY DEF Spare, NextSocket
<1>2. /\ on \in Managers /\ on.subs = w.subs /\ on.ref = w.ref /\ on.url = w.url
      /\ on.phase = w.phase /\ on.sent = w.sent
      /\ on.status \in {"reconnecting", "connecting"}
  BY DEF Between, Base, Managers, Status
<1>3. CASE w.status \in {"open", "connecting"}
  BY <1>3 DEF Connect, Ok
<1>4. CASE w.status \notin {"open", "connecting"} /\ ~made
  <2>1. v = ScheduleReconnect(on)
    BY <1>4 DEF Connect
  <2>2. Base(on) /\ InStep(on)
    BY <1>2 DEF Between, Base, InStep, Sendable
  <2>3. Ok(v) /\ v.subs = on.subs /\ v.ref = on.ref /\ v.url = on.url
    <3> HIDE DEF on, v
    <3>1. QED
      BY <2>1, <2>2, ScheduleOk
  <2>4. QED
    BY <1>2, <2>3 DEF Ok, Anonymous
<1>5. CASE w.status \notin {"open", "connecting"} /\ made
  <2>1. v = [on EXCEPT !.ref = n, !.phase[n] = "connecting", !.url[n] = t]
    <3>1. w.status \notin {"open", "connecting"} /\ made = TRUE
      BY <1>5
    <3>2. QED
      BY <3>1, Zenon DEF Connect
  <2>2. /\ v \in Managers
        /\ v.subs = w.subs /\ v.sent = w.sent /\ v.ref = n /\ v.status = on.status
        /\ v.phase = [w.phase EXCEPT ![n] = "connecting"]
        /\ v.url = [w.url EXCEPT ![n] = t]
    <3>1. [w.phase EXCEPT ![n] = "connecting"] \in [Socket -> Phase]
      BY <1>1 DEF Between, Base, Managers, Phase
    <3>2. [w.url EXCEPT ![n] = t] \in [Socket -> Token \cup {None}]
      BY <1>1 DEF Between, Base, Managers
    <3> HIDE DEF n, on, v
    <3>3. v = [on EXCEPT !.ref = n, !.phase = [on.phase EXCEPT ![n] = "connecting"],
                         !.url = [on.url EXCEPT ![n] = t]]
      BY <1>2, <2>1 DEF Managers
    <3>4. QED
      BY <1>1, <1>2, <3>1, <3>2, <3>3 DEF Managers
  <2>3. w.phase \in [Socket -> Phase] /\ w.url \in [Socket -> Token \cup {None}]
    BY DEF Between, Base, Managers
  <2>4. v.phase[n] = "connecting" /\ v.url[n] = t
    BY <1>1, <2>2, <2>3
  <2>5. Base(v)
    BY <1>1, <2>2, <2>3 DEF Between, Base
  <2>6. QED
    BY <1>1, <1>2, <2>2, <2>4, <2>5 DEF Ok, Between, InStep, Sendable, Pending, Anonymous
<1>6. QED
  BY <1>3, <1>4, <1>5

LEMMA SubscribeOk ==
  ASSUME NEW w, NEW topics \in SUBSET Topic
  PROVE  LET v == Subscribe(w, topics)
         IN /\ Ok(w) => Ok(v)
            /\ w \in Managers => /\ v.subs = w.subs \cup topics
                                 /\ v.ref = w.ref /\ v.url = w.url
<1> SUFFICES ASSUME w \in Managers
             PROVE  LET v == Subscribe(w, topics)
                    IN /\ Ok(w) => Ok(v)
                       /\ v.subs = w.subs \cup topics /\ v.ref = w.ref /\ v.url = w.url
  BY DEF Ok, Between, Base
<1> DEFINE v == Subscribe(w, topics)
<1>1. /\ v \in Managers
      /\ v.subs = w.subs \cup topics /\ v.ref = w.ref /\ v.url = w.url
      /\ v.phase = w.phase /\ v.status = w.status /\ v.armed = w.armed
      /\ v.strays = w.strays
      /\ v.sent = IF Sendable(w)
                    THEN [w.sent EXCEPT ![w.ref] = @ \cup (topics \ w.subs)] ELSE w.sent
  BY DEF Subscribe, SendSubscribes, Sendable, Managers
<1>2. w.sent \in [Socket -> SUBSET Topic] /\ w.ref \in Socket \cup {None}
  BY DEF Managers
<1>3. ASSUME Ok(w) PROVE Base(v) /\ InStep(v)
  BY <1>1, <1>2, <1>3 DEF Ok, Between, Base, InStep, Sendable
<1>4. QED
  BY <1>1, <1>3 DEF Ok, Between, Pending, Backed

LEMMA UnsubscribeOk ==
  ASSUME NEW w, Ok(w), NEW topics \in SUBSET Topic
  PROVE  LET v == Unsubscribe(w, topics)
         IN Ok(v) /\ v.subs = w.subs \ topics /\ v.ref = w.ref /\ v.url = w.url
<1> DEFINE v == Unsubscribe(w, topics)
<1>0. w \in Managers
  BY DEF Ok, Between, Base
<1>1. /\ v \in Managers
      /\ v.subs = w.subs \ topics /\ v.ref = w.ref /\ v.url = w.url
      /\ v.phase = w.phase /\ v.status = w.status /\ v.armed = w.armed
      /\ v.strays = w.strays
      /\ v.sent = IF Sendable(w)
                    THEN [w.sent EXCEPT ![w.ref] = @ \ (topics \cap w.subs)] ELSE w.sent
  BY <1>0 DEF Unsubscribe, SendUnsubscribes, Sendable, Managers
<1>2. w.sent \in [Socket -> SUBSET Topic] /\ w.ref \in Socket \cup {None}
  BY <1>0 DEF Managers
<1>3. Base(v) /\ InStep(v)
  BY <1>1, <1>2 DEF Ok, Between, Base, InStep, Sendable
<1>4. QED
  BY <1>1, <1>3 DEF Ok, Between, Pending, Backed

----------------------------------------------------------------------------
(* What the events of the browser keep.                                    *)

\* The subscriptions stay, and the reference stays or goes.
Same(v, w) ==
  /\ v.subs = w.subs
  /\ v.ref # None => v.ref = w.ref /\ v.url = w.url

LEMMA OpensOk ==
  ASSUME NEW w, Ok(w), NEW s \in Socket, w.phase[s] = "connecting"
  PROVE  LET v == HandleOpen([w EXCEPT !.phase[s] = "open"]) IN Ok(v) /\ Same(v, w)
<1> DEFINE o == [w EXCEPT !.phase = [w.phase EXCEPT ![s] = "open"]]
           sent == IF Sendable(o) THEN [w.sent EXCEPT ![w.ref] = @ \cup w.subs] ELSE w.sent
           v == HandleOpen(o)
<1>1. w \in Managers /\ w.phase \in [Socket -> Phase]
  BY DEF Ok, Between, Base, Managers
<1>2. o \in Managers /\ o.subs = w.subs /\ o.ref = w.ref /\ o.sent = w.sent
      /\ o.phase = [w.phase EXCEPT ![s] = "open"] /\ o.url = w.url
  BY <1>1 DEF Managers, Phase
<1>3. sent \in [Socket -> SUBSET Topic]
  BY <1>1 DEF Managers, Sendable
<1>4. v = [o EXCEPT !.sent = sent, !.retried = FALSE, !.fails = 0, !.status = "open",
                    !.beat = TRUE]
  <2> HIDE DEF o
  <2>1. QED
    BY <1>2 DEF HandleOpen, SendSubscribes, Managers
<1>5. /\ v \in Managers /\ v.subs = w.subs /\ v.ref = w.ref /\ v.phase = o.phase
      /\ v.url = w.url /\ v.sent = sent /\ v.status = "open"
  <2>1. 0 \in 0..HeartbeatFailLimit - 1
    BY LimitAssumption
  <2> HIDE DEF o, sent, v
  <2>2. QED
    BY <1>2, <1>3, <1>4, <2>1 DEF Managers, Status
<1>6. w.sent \in [Socket -> SUBSET Topic] /\ w.ref \in Socket \cup {None}
  BY <1>1 DEF Managers
<1>7. Sendable(o) <=> w.ref # None /\ o.phase[w.ref] = "open"
  BY <1>2 DEF Sendable
<1>8. Base(v)
  BY <1>1, <1>2, <1>5, <1>6, <1>7 DEF Ok, Between, Base
<1>9. InStep(v)
  <2>1. SUFFICES ASSUME w.ref # None, o.phase[w.ref] = "open"
                 PROVE  sent[w.ref] = w.subs
    BY <1>5 DEF InStep, Sendable
  <2>2. sent[w.ref] = w.sent[w.ref] \cup w.subs /\ w.ref \in Socket
    BY <1>6, <1>7, <2>1
  <2>3. CASE w.ref = s
    BY <2>2, <2>3 DEF Ok, Between, Base
  <2>4. CASE w.ref # s
    <3>1. w.phase[w.ref] = "open"
      BY <1>1, <1>2, <2>1, <2>2, <2>4
    <3>2. QED
      BY <2>1, <2>2, <3>1 DEF Ok, Between, InStep, Sendable
  <2>5. QED
    BY <2>3, <2>4
<1>10. Backed(v)
  BY <1>1, <1>2, <1>5 DEF Backed
<1>11. QED
  BY <1>5, <1>8, <1>9, <1>10 DEF Ok, Between, Same

LEMMA ClosingOk ==
  ASSUME NEW w, Ok(w), NEW s \in Socket, w.phase[s] \in {"connecting", "open"}
  PROVE  LET v == [w EXCEPT !.phase[s] = "closing"] IN Ok(v) /\ Same(v, w)
<1> DEFINE v == [w EXCEPT !.phase[s] = "closing"]
<1>1. w \in Managers /\ w.phase \in [Socket -> Phase]
  BY DEF Ok, Between, Base, Managers
<1>2. /\ v \in Managers /\ v.subs = w.subs /\ v.ref = w.ref /\ v.sent = w.sent
      /\ v.phase = [w.phase EXCEPT ![s] = "closing"] /\ v.url = w.url
      /\ v.status = w.status /\ v.armed = w.armed /\ v.strays = w.strays
  BY <1>1 DEF Managers, Phase
<1>3. Base(v)
  BY <1>1, <1>2 DEF Ok, Between, Base
<1>4. InStep(v)
  <2>1. SUFFICES ASSUME Sendable(v) PROVE v.sent[v.ref] = v.subs
    BY DEF InStep
  <2>2. w.ref \in Socket /\ w.phase[w.ref] = "open"
    BY <1>1, <1>2, <2>1 DEF Sendable, Managers
  <2>3. QED
    BY <1>2, <2>1, <2>2 DEF Ok, Between, InStep, Sendable
<1>5. Pending(v) /\ Backed(v)
  BY <1>1, <1>2 DEF Pending, Backed
<1>6. QED
  BY <1>2, <1>3, <1>4, <1>5 DEF Ok, Between, Same

LEMMA CloseOk ==
  ASSUME NEW w, Ok(w), NEW s \in Socket
  PROVE  LET v == HandleClose([w EXCEPT !.phase[s] = "free", !.sent[s] = {},
                                        !.url[s] = None])
         IN Ok(v) /\ Same(v, w)
<1> DEFINE f == [w EXCEPT !.phase[s] = "free", !.sent[s] = {}, !.url[s] = None]
           gone == [f EXCEPT !.beat = FALSE, !.ref = None]
           v == HandleClose(f)
<1>1. /\ w \in Managers
      /\ w.phase \in [Socket -> Phase] /\ w.sent \in [Socket -> SUBSET Topic]
      /\ w.url \in [Socket -> Token \cup {None}]
  BY DEF Ok, Between, Base, Managers
<1>2. /\ f \in Managers /\ f.subs = w.subs
      /\ f.phase = [w.phase EXCEPT ![s] = "free"] /\ f.sent = [w.sent EXCEPT ![s] = {}]
  BY <1>1 DEF Managers, Phase
<1>3. /\ gone \in Managers /\ gone.subs = w.subs /\ gone.ref = None
      /\ gone.phase = f.phase /\ gone.sent = f.sent
  <2> HIDE DEF f
  <2>1. QED
    BY <1>2 DEF Managers
<1>4. Base(gone) /\ InStep(gone)
  BY <1>1, <1>2, <1>3 DEF Ok, Between, Base, InStep, Sendable
<1>5. CASE f.intentional
  <2>1. v = [gone EXCEPT !.status = "closed"]
    BY <1>5 DEF HandleClose
  <2>2. /\ v \in Managers /\ v.subs = w.subs /\ v.ref = None /\ v.status = "closed"
        /\ v.phase = gone.phase /\ v.sent = gone.sent
    <3> HIDE DEF gone, v
    <3>1. QED
      BY <1>3, <2>1 DEF Managers, Status
  <2>3. Ok(v) /\ Same(v, w)
    <3> HIDE DEF gone, v
    <3>1. QED
      BY <1>4, <2>2 DEF Ok, Between, Base, InStep, Sendable, Same
  <2>4. QED
    BY <2>3
<1>6. CASE ~f.intentional
  <2>1. v = ScheduleReconnect(gone)
    BY <1>6 DEF HandleClose
  <2>2. Ok(v) /\ v.subs = gone.subs /\ v.ref = gone.ref
    <3> HIDE DEF gone, v
    <3>1. QED
      BY <1>4, <2>1, ScheduleOk
  <2>3. Same(v, w)
    <3> HIDE DEF gone, v
    <3>1. QED
      BY <1>3, <2>2 DEF Same
  <2>4. QED
    BY <2>2, <2>3
<1>7. QED
  BY <1>5, <1>6

LEMMA BeatOk ==
  ASSUME NEW w, Ok(w)
  PROVE  LET v == Beat(w) IN Ok(v) /\ Same(v, w)
<1> DEFINE fails == IF Sendable(w) THEN 0 ELSE w.fails + 1
           v == Beat(w)
<1>0. 0 \in 0..HeartbeatFailLimit - 1
  BY LimitAssumption
<1>1. w \in Managers /\ fails \in Nat
  BY LimitAssumption DEF Ok, Between, Base, Managers
<1>2. CASE fails < HeartbeatFailLimit
  <2>1. v = [w EXCEPT !.fails = fails]
    BY <1>2 DEF Beat
  <2>2. /\ v \in Managers /\ v.subs = w.subs /\ v.ref = w.ref /\ v.sent = w.sent
        /\ v.phase = w.phase /\ v.url = w.url
        /\ v.status = w.status /\ v.armed = w.armed /\ v.strays = w.strays
    <3> HIDE DEF fails, v
    <3>1. fails \in 0..HeartbeatFailLimit - 1
      BY <1>1, <1>2, LimitAssumption
    <3>2. QED
      BY <1>1, <2>1, <3>1 DEF Managers
  <2>3. QED
    BY <2>2 DEF Ok, Between, Base, InStep, Sendable, Pending, Backed, Same
<1>3. CASE ~(fails < HeartbeatFailLimit)
  <2> DEFINE d == Disconnect(w)
             e == [d EXCEPT !.fails = 0, !.intentional = FALSE]
  <2>1. v = ScheduleReconnect(e)
    BY <1>3 DEF Beat
  <2>2. Ok(d) /\ d.subs = w.subs /\ d.ref = None
    BY DisconnectOk DEF Ok, Between
  <2>3. d \in Managers
    BY <2>2 DEF Ok, Between, Base
  <2>4. /\ e \in Managers /\ e.subs = w.subs /\ e.ref = None
        /\ e.phase = d.phase /\ e.sent = d.sent
    <3> HIDE DEF d
    <3>1. QED
      BY <2>2, <2>3, <1>0 DEF Managers
  <2>5. Base(e) /\ InStep(e)
    BY <2>2, <2>4 DEF Ok, Between, Base, InStep, Sendable
  <2>6. Ok(v) /\ v.subs = e.subs /\ v.ref = e.ref
    <3> HIDE DEF e, v
    <3>1. QED
      BY <2>1, <2>5, ScheduleOk
  <2>7. Same(v, w)
    <3> HIDE DEF e, v
    <3>1. QED
      BY <2>4, <2>6 DEF Same
  <2>8. QED
    BY <2>6, <2>7
<1>4. QED
  BY <1>2, <1>3

----------------------------------------------------------------------------
(* The inductive invariant.                                                *)

Layouts == {"tutorial", "firstAgent", "app"}

\* A call that is live belongs to what is mounted and to the token of the store.
CallOk(e) ==
  /\ e.by = "callback" => route = "callback" /\ token # None
  /\ e.live /\ e.by = "app" => route = "app" /\ e.token = token
  /\ e.live /\ e.by = "onboarding" => route \in {"tutorial", "firstAgent"} /\ e.token = token

\* What is in the store is the developer's token or the newest of Supabase.
TokenOk == token \in {None, DevToken, issued}

SessionOk ==
  /\ route \in Layouts => token # None
  /\ route # "app" => page = {} /\ chosen = None
  /\ \A e \in ensuring : CallOk(e)
  /\ \A e, f \in ensuring : e.by = "callback" /\ f.by = "callback" => e = f
  /\ TokenOk
  /\ mine # None => mine <= owned
  /\ chosen # None => activeAgent = chosen /\ chosen \in 1..owned

WsOk == Ok(ws) /\ ws.subs = Screen /\ LoggedOutIsAnonymous

IInv == TypeOK /\ SessionOk /\ WsOk

USE NoneAssumption

LEMMA InitOk == Init => IInv
<1> SUFFICES ASSUME Init PROVE IInv
  OBVIOUS
<1>1. ws \in Managers
  BY FreshOk DEF Init, Ok, Between, Base
<1>2. QED
  BY <1>1, FreshOk, AgentsAssumption, FaultsAssumption, MovesAssumption
     DEF Init, IInv, TypeOK, SessionOk, WsOk, Screen, LoggedOutIsAnonymous, TokenOk,
         Layouts, Route, Agent, Token

\* What leaves the session alone.
LEMMA ManagerStep ==
  ASSUME IInv, UNCHANGED session, Ok(ws'), ws'.subs = ws.subs, faults' \in 0..MaxFaults,
         token = None => Anonymous(ws')
  PROVE  IInv'
<1>1. ws' \in Managers
  BY DEF Ok, Between, Base
<1>2. TypeOK' /\ SessionOk'
  BY <1>1 DEF IInv, TypeOK, SessionOk, CallOk, TokenOk, session
<1>3. WsOk'
  BY DEF IInv, WsOk, Screen, LoggedOutIsAnonymous, Anonymous, session
<1>4. QED
  BY <1>2, <1>3 DEF IInv

LEMMA FaultsBounded ==
  ASSUME IInv, NoFault \/ Fault \/ (\E made \in BOOLEAN : Made(made))
  PROVE  faults' \in 0..MaxFaults
BY FaultsAssumption DEF IInv, TypeOK, NoFault, Fault, Made

LEMMA BrowserStep ==
  ASSUME IInv, NEW s \in Socket, Browser(s) \/ SocketCut(s), UNCHANGED session
  PROVE  IInv'
<1>1. Ok(ws) /\ (token = None => Anonymous(ws))
  BY DEF IInv, WsOk, LoggedOutIsAnonymous, Anonymous
<1>2. faults' \in 0..MaxFaults
  BY FaultsBounded DEF Browser, SocketOpens, SocketRefused, SocketClosed, SocketCut
<1>3. Ok(ws') /\ Same(ws', ws)
  <2>1. CASE SocketOpens(s, expired)
    BY <1>1, <2>1, OpensOk DEF SocketOpens
  <2>2. CASE SocketRefused(s, expired)
    BY <1>1, <2>2, ClosingOk DEF SocketRefused
  <2>3. CASE SocketClosed(s)
    BY <1>1, <2>3, CloseOk DEF SocketClosed
  <2>4. CASE SocketCut(s)
    BY <1>1, <2>4, ClosingOk DEF SocketCut
  <2>5. QED
    BY <2>1, <2>2, <2>3, <2>4 DEF Browser
<1>4. QED
  BY <1>1, <1>2, <1>3, ManagerStep DEF Same, Anonymous

LEMMA TimerStep ==
  ASSUME IInv, Tick \/ Timer \/ Stray, UNCHANGED session
  PROVE  IInv'
<1>1. Ok(ws) /\ (token = None => Anonymous(ws)) /\ ws \in Managers
  BY DEF IInv, WsOk, TypeOK, LoggedOutIsAnonymous, Anonymous
<1>2. faults' \in 0..MaxFaults
  BY FaultsBounded DEF Tick, Timer, Stray, TimerFires, StrayFires
<1>3. CASE Tick
  <2>1. Ok(ws') /\ Same(ws', ws)
    BY <1>1, <1>3, BeatOk DEF Tick
  <2>2. QED
    BY <1>1, <1>2, <2>1, ManagerStep DEF Same, Anonymous
<1>4. ASSUME NEW w, w \in Managers, Between(w), Ok(w) \/ w.status = "reconnecting" \/ w.status = "open",
             w.subs = ws.subs, token = None => Anonymous(w), Spare(w) # {},
             NEW made \in BOOLEAN, ws' = Connect(w, token, made)
      PROVE  IInv'
  <2>1. Ok(w) \/ w.status = "reconnecting"
    BY <1>4 DEF Ok
  <2>2. /\ Ok(ws') /\ ws'.subs = w.subs
        /\ Anonymous(w) /\ token = None => Anonymous(ws')
    <3>1. token \in Token \cup {None}
      BY DEF IInv, TypeOK
    <3>2. QED
      BY <1>4, <2>1, <3>1, ConnectOk
  <2>3. QED
    BY <1>2, <1>4, <2>2, ManagerStep
<1>5. CASE Timer
  <2>1. PICK made \in BOOLEAN : TimerFires(token, made)
    BY <1>5 DEF Timer
  <2> DEFINE w == [ws EXCEPT !.armed = FALSE]
  <2>2. /\ w \in Managers /\ w.subs = ws.subs /\ w.ref = ws.ref /\ w.url = ws.url
        /\ w.phase = ws.phase /\ w.sent = ws.sent /\ w.status = ws.status
    BY <1>1 DEF Managers
  <2>3. Between(w) /\ (Ok(w) \/ w.status = "reconnecting" \/ w.status = "open")
    BY <1>1, <2>2 DEF Ok, Between, Base, InStep, Sendable, Pending, Backed
  <2>4. Spare(w) # {} /\ (token = None => Anonymous(w)) /\ ws' = Connect(w, token, made)
    BY <1>1, <2>1, <2>2 DEF TimerFires, Spare, Anonymous
  <2>5. QED
    <3> HIDE DEF w
    <3>1. QED
      BY <1>4, <2>2, <2>3, <2>4
<1>6. CASE Stray
  <2>1. PICK made \in BOOLEAN : StrayFires(token, made)
    BY <1>6 DEF Stray
  <2> DEFINE w == [ws EXCEPT !.strays = @ - 1]
  <2>2. /\ w \in Managers /\ w.subs = ws.subs /\ w.ref = ws.ref /\ w.url = ws.url
        /\ w.phase = ws.phase /\ w.sent = ws.sent /\ w.status = ws.status
    BY <1>1, <2>1 DEF Managers, StrayFires
  <2>3. Between(w) /\ (Ok(w) \/ w.status = "reconnecting" \/ w.status = "open")
    BY <1>1, <2>2 DEF Ok, Between, Base, InStep, Sendable, Pending, Backed
  <2>4. Spare(w) # {} /\ (token = None => Anonymous(w)) /\ ws' = Connect(w, token, made)
    BY <1>1, <2>1, <2>2 DEF StrayFires, Spare, Anonymous
  <2>5. QED
    <3> HIDE DEF w
    <3>1. QED
      BY <1>4, <2>2, <2>3, <2>4
<1>7. QED
  BY <1>3, <1>5, <1>6

----------------------------------------------------------------------------
(* The actions of the session.                                             *)

LEMMA TopicsTyped ==
  /\ \A a \in Agent \cup {None} : AgentTopic(a) \in SUBSET Topic
  /\ \A a \in Agent \cup {None} : AgentTopic(a) \cap PageTopic = {}
  /\ PageTopic \in SUBSET Topic
BY TopicAssumption DEF AgentTopic, Agent

LEMMA SelectedTyped ==
  \A a, list \in Agent \cup {None} :
    /\ Selected(a, list) \in Agent \cup {None}
    /\ list # None /\ a \in 1..list => Selected(a, list) = a
BY AgentsAssumption DEF Selected, Agent

LEMMA HoldsTyped == \A t : Holds(t) \in BOOLEAN
BY DEF Holds

LEMMA MoveBounded == ASSUME IInv, Move \/ UNCHANGED moves PROVE moves' \in 0..MaxMoves
BY MovesAssumption DEF Move, IInv, TypeOK

LEMMA CallsOk ==
  ASSUME NEW calls \in SUBSET Ensure, \A c \in calls : ~c.live /\ c.by # "callback",
         NEW new \in Ensure, ensuring' = calls \cup {new}, new.token = token',
         \/ new.by = "app" /\ route' = "app"
         \/ new.by = "onboarding" /\ route' \in {"tutorial", "firstAgent"}
  PROVE  /\ \A e \in ensuring' : CallOk(e)'
         /\ \A e, f \in ensuring' : e.by = "callback" /\ f.by = "callback" => e = f
<1>1. CallOk(new)' /\ new.by # "callback"
  BY DEF CallOk
<1>2. \A c \in calls : CallOk(c)'
  BY DEF CallOk
<1>3. QED
  BY <1>1, <1>2

\* What Arrive keeps: the user comes from a page outside the app.
LEMMA ArriveOk ==
  ASSUME IInv, route # "app", NEW t \in Token, token' = t, TokenOk',
         NEW agent \in Agent \cup {None}, NEW onb \in BOOLEAN, NEW authed \in BOOLEAN,
         NEW calls \in SUBSET Ensure, \A c \in calls : ~c.live /\ c.by # "callback",
         Arrive(t, agent, ws, calls, onb, authed),
         issued' = issued, expired' = expired, page' = page, mine' = mine, chosen' = None,
         onboarded' \in BOOLEAN, owned' \in Agent, owned' >= owned,
         faults' = faults, moves' \in 0..MaxMoves
  PROVE  IInv'
<1>0. /\ page = {} /\ ws.subs = {} /\ Ok(ws) /\ token' # None /\ owned \in Nat
      /\ mine \in Agent \cup {None} /\ ws \in Managers
      /\ mine # None => mine <= owned
  BY DEF IInv, TypeOK, SessionOk, WsOk, Screen, Token, Agent
<1>1. CASE onb
  <2> DEFINE a == Selected(agent, mine)
  <2>1. a \in Agent \cup {None} /\ AgentTopic(a) \cup page \in SUBSET Topic
    <3>1. a \in Agent \cup {None}
      BY <1>0, SelectedTyped
    <3> HIDE DEF a
    <3>2. AgentTopic(a) \in SUBSET Topic
      BY <3>1, TopicsTyped
    <3>3. QED
      BY <1>0, <3>1, <3>2
  <2>2. /\ route' = "app" /\ activeAgent' = a
        /\ ws' = Subscribe(ws, AgentTopic(a) \cup page)
        /\ ensuring' = calls \cup {Call("app", t, authed)}
    BY <1>1 DEF Arrive
  <2>3. Ok(ws') /\ ws'.subs = AgentTopic(a) \cup page
    <3> DEFINE topics == AgentTopic(a) \cup page
    <3>1. topics \in SUBSET Topic /\ ws' = Subscribe(ws, topics)
      BY <2>1, <2>2
    <3> HIDE DEF a, topics
    <3>2. Ok(ws') /\ ws'.subs = ws.subs \cup topics
      BY <1>0, <3>1, SubscribeOk
    <3>3. QED
      BY <1>0, <3>2 DEF topics
  <2>4. TypeOK'
    <3>1. Call("app", t, authed) \in Ensure
      BY DEF Call, Ensure
    <3>2. ws' \in Managers
      BY <2>3 DEF Ok, Between, Base
    <3>3. QED
      BY <1>0, <2>1, <2>2, <3>1, <3>2 DEF IInv, TypeOK, Route
  <2>5. SessionOk'
    <3> DEFINE new == Call("app", t, authed)
    <3>1. /\ new.by = "app" /\ new.token = t /\ new \in Ensure
          /\ ensuring' = calls \cup {new}
      BY <2>2 DEF Call, Ensure
    <3> HIDE DEF new
    <3>2. /\ \A e \in ensuring' : CallOk(e)'
          /\ \A e, f \in ensuring' : e.by = "callback" /\ f.by = "callback" => e = f
      BY <2>2, <3>1, CallsOk
    <3>3. mine' # None => mine' <= owned'
      BY <1>0, AgentsAssumption DEF Agent
    <3>4. QED
      BY <1>0, <2>2, <3>2, <3>3 DEF SessionOk, CallOk, TokenOk
  <2>6. WsOk'
    BY <1>0, <2>2, <2>3 DEF WsOk, Screen, LoggedOutIsAnonymous
  <2>7. QED
    BY <2>4, <2>5, <2>6 DEF IInv
<1>2. CASE ~onb
  <2>1. /\ route' = "tutorial" /\ activeAgent' = agent /\ ws' = ws
        /\ ensuring' = calls \cup {Call("onboarding", t, authed)}
    BY <1>2 DEF Arrive
  <2>2. TypeOK'
    <3>1. Call("onboarding", t, authed) \in Ensure
      BY DEF Call, Ensure
    <3>2. QED
      BY <1>0, <2>1, <3>1 DEF IInv, TypeOK, Route
  <2>3. SessionOk'
    <3> DEFINE new == Call("onboarding", t, authed)
    <3>1. /\ new.by = "onboarding" /\ new.token = t /\ new \in Ensure
          /\ ensuring' = calls \cup {new}
      BY <2>1 DEF Call, Ensure
    <3> HIDE DEF new
    <3>2. /\ \A e \in ensuring' : CallOk(e)'
          /\ \A e, f \in ensuring' : e.by = "callback" /\ f.by = "callback" => e = f
      BY <2>1, <3>1, CallsOk
    <3>3. mine' # None => mine' <= owned'
      BY <1>0, AgentsAssumption DEF Agent
    <3>4. QED
      BY <1>0, <2>1, <3>2, <3>3 DEF SessionOk, CallOk, TokenOk
  <2>4. WsOk'
    BY <1>0, <2>1 DEF WsOk, Screen, LoggedOutIsAnonymous
  <2>5. QED
    BY <2>2, <2>3, <2>4 DEF IInv
<1>3. QED
  BY <1>1, <1>2

LEMMA CancelledOk ==
  ASSUME IInv
  PROVE  /\ Cancelled \in SUBSET Ensure
         /\ \A e \in Cancelled : e.by # "onboarding" /\ (e.live => e.by = "callback")
         /\ route # "callback" => \A e \in Cancelled : ~e.live /\ e.by = "app"
<1>1. ensuring \in SUBSET Ensure /\ \A e \in ensuring : CallOk(e)
  BY DEF IInv, TypeOK, SessionOk
<1>2. ASSUME NEW c \in Cancelled
      PROVE  /\ c \in Ensure /\ c.by # "onboarding" /\ (c.live => c.by = "callback")
             /\ route # "callback" => ~c.live /\ c.by = "app"
  <2>1. PICK e \in ensuring : e.by # "onboarding" /\ c = [e EXCEPT !.live = (e.by = "callback")]
    BY <1>2 DEF Cancelled
  <2>2. e \in Ensure /\ CallOk(e)
    BY <1>1, <2>1
  <2>3. c.by = e.by /\ c.live = (e.by = "callback") /\ c \in Ensure
    BY <2>1, <2>2 DEF Ensure
  <2>4. QED
    BY <2>1, <2>2, <2>3 DEF CallOk, Ensure
<1>3. QED
  BY <1>2

\* Outside the layouts no live call waits but the callback page's.
LEMMA OutsideOk ==
  ASSUME IInv, route \notin Layouts
  PROVE  \A e \in ensuring : e.live => e.by = "callback"
BY DEF IInv, TypeOK, SessionOk, CallOk, Ensure, Layouts

LEMMA DevLoginStep == ASSUME IInv, DevLogin PROVE IInv'
<1>1. PICK a \in {0, 1} \cap Agent : Arrive(DevToken, a, ws, ensuring, onboarded, Holds(DevToken))
  BY DEF DevLogin
<1>2. /\ a \in Agent \cup {None} /\ DevToken \in Token /\ onboarded \in BOOLEAN
      /\ ensuring \in SUBSET Ensure /\ owned \in Agent
  BY <1>1 DEF DevToken, Token, IInv, TypeOK
<1>3. \A c \in ensuring : ~c.live /\ c.by # "callback"
  BY OutsideOk DEF DevLogin, IInv, SessionOk, CallOk, Layouts
<1>4. owned' = owned /\ owned >= owned
  BY <1>2, AgentsAssumption DEF DevLogin, Agent
<1>5. moves' \in 0..MaxMoves
  BY MoveBounded DEF DevLogin
<1>6. TokenOk'
  BY DEF DevLogin, TokenOk
<1>7. QED
  BY <1>1, <1>2, <1>3, <1>4, <1>5, <1>6, ArriveOk, HoldsTyped DEF DevLogin

LEMMA LoginWithGithubStep == ASSUME IInv, LoginWithGithub PROVE IInv'
<1>1. moves' \in 0..MaxMoves
  BY MoveBounded DEF LoginWithGithub
<1>2. ws' \in Managers
  BY FreshOk DEF LoginWithGithub, Ok, Between, Base
<1>3. TypeOK'
  BY <1>1, <1>2 DEF LoginWithGithub, IInv, TypeOK, Route
<1>4. SessionOk'
  BY DEF LoginWithGithub, IInv, SessionOk, CallOk, TokenOk, Layouts
<1>5. WsOk'
  BY FreshOk DEF LoginWithGithub, IInv, SessionOk, WsOk, Screen, LoggedOutIsAnonymous
<1>6. QED
  BY <1>3, <1>4, <1>5 DEF IInv

LEMMA CallbackGivesUpStep == ASSUME IInv, CallbackGivesUp PROVE IInv'
<1>1. TypeOK'
  BY DEF CallbackGivesUp, IInv, TypeOK, Route
<1>2. SessionOk'
  BY DEF CallbackGivesUp, Finishing, IInv, SessionOk, CallOk, TokenOk, Layouts
<1>3. WsOk'
  BY DEF CallbackGivesUp, IInv, SessionOk, WsOk, Screen, LoggedOutIsAnonymous
<1>4. QED
  BY <1>1, <1>2, <1>3 DEF IInv

LEMMA FinishTutorialStep == ASSUME IInv, FinishTutorial PROVE IInv'
<1>1. TypeOK'
  BY DEF FinishTutorial, IInv, TypeOK, Route
<1>2. SessionOk'
  BY DEF FinishTutorial, IInv, SessionOk, CallOk, TokenOk, Layouts
<1>3. WsOk'
  BY DEF FinishTutorial, IInv, SessionOk, WsOk, Screen, LoggedOutIsAnonymous
<1>4. QED
  BY <1>1, <1>2, <1>3 DEF IInv

LEMMA CreateAgentStep == ASSUME IInv, CreateAgent PROVE IInv'
<1>1. moves' \in 0..MaxMoves
  BY MoveBounded DEF CreateAgent
<1>2. owned' = owned + 1 /\ owned' \in Agent /\ owned \in Agent
  BY AgentsAssumption DEF CreateAgent, IInv, TypeOK, Agent
<1>3. TypeOK'
  BY <1>1, <1>2 DEF CreateAgent, IInv, TypeOK
<1>4. mine' # None => mine' <= owned'
  BY <1>2, AgentsAssumption DEF CreateAgent, IInv, TypeOK, SessionOk, Agent
<1>5. chosen' # None => chosen' \in 1..owned'
  BY <1>2, AgentsAssumption DEF CreateAgent, IInv, TypeOK, SessionOk, Agent
<1>6. SessionOk'
  BY <1>4, <1>5 DEF CreateAgent, IInv, SessionOk, CallOk, TokenOk, Layouts
<1>7. WsOk'
  BY DEF CreateAgent, IInv, WsOk, Screen, LoggedOutIsAnonymous
<1>8. QED
  BY <1>3, <1>6, <1>7 DEF IInv

LEMMA LogoutStep == ASSUME IInv, Logout PROVE IInv'
<1>1. moves' \in 0..MaxMoves
  BY MoveBounded DEF Logout
<1> DEFINE u == Unsubscribe(ws, ws.subs)
<1>2. Ok(ws) /\ ws.subs \in SUBSET Topic
  BY DEF IInv, WsOk, TypeOK, Managers
<1>3. Ok(u) /\ u.subs = {}
  BY <1>2, UnsubscribeOk
<1>4. Ok(ws') /\ ws'.subs = {} /\ ws'.ref = None
  <2>1. Base(u) /\ ws' = Disconnect(u)
    BY <1>3 DEF Ok, Between, Logout
  <2> HIDE DEF u
  <2>2. QED
    BY <1>3, <2>1, DisconnectOk
<1>5. TypeOK'
  <2>1. ws' \in Managers
    BY <1>4 DEF Ok, Between, Base
  <2>2. QED
    BY <1>1, <2>1, CancelledOk DEF Logout, IInv, TypeOK, Route
<1>6. SessionOk'
  <2>1. \A e \in Cancelled : ~e.live /\ e.by = "app"
    BY CancelledOk DEF Logout
  <2>2. QED
    BY <2>1 DEF Logout, IInv, SessionOk, CallOk, TokenOk, Layouts
<1>7. WsOk'
  BY <1>4 DEF Logout, WsOk, Screen, LoggedOutIsAnonymous
<1>8. QED
  BY <1>5, <1>6, <1>7 DEF IInv

LEMMA FirstAgentStep == ASSUME IInv, FirstAgent PROVE IInv'
<1>1. Arrive(token, activeAgent, ws, Cancelled, TRUE, Holds(token)) /\ route = "firstAgent"
  BY DEF FirstAgent
<1>2. /\ activeAgent \in Agent \cup {None} /\ token \in Token /\ owned \in Agent
      /\ chosen = None
  BY <1>1 DEF IInv, TypeOK, SessionOk, Layouts
<1>3. Cancelled \in SUBSET Ensure /\ \A c \in Cancelled : ~c.live /\ c.by # "callback"
  BY <1>1, CancelledOk
<1>4. owned' \in Agent /\ owned' >= owned
  BY <1>2, AgentsAssumption DEF FirstAgent, Agent
<1>5. moves' \in 0..MaxMoves
  BY MoveBounded DEF FirstAgent
<1>6. TokenOk' /\ token' = token
  BY DEF FirstAgent, IInv, SessionOk, TokenOk
<1>7. QED
  BY <1>1, <1>2, <1>3, <1>4, <1>5, <1>6, ArriveOk, HoldsTyped DEF FirstAgent

LEMMA CallbackEnsuredStep ==
  ASSUME IInv, NEW e \in ensuring, CallbackEnsured(e) PROVE IInv'
<1> DEFINE calls == ensuring \ {e}
<1>1. /\ Arrive(token, activeAgent, ws, calls, onboarded, Holds(token))
      /\ route = "callback" /\ token # None /\ e.by = "callback"
  BY DEF CallbackEnsured, IInv, SessionOk, CallOk
<1>2. /\ activeAgent \in Agent \cup {None} /\ token \in Token /\ owned \in Agent
      /\ chosen = None /\ onboarded \in BOOLEAN /\ calls \in SUBSET Ensure
  BY <1>1 DEF IInv, TypeOK, SessionOk
<1>3. \A c \in calls : ~c.live /\ c.by # "callback"
  BY <1>1, OutsideOk DEF IInv, SessionOk, Layouts
<1>4. owned' = owned /\ owned >= owned
  BY <1>2, AgentsAssumption DEF CallbackEnsured, Agent
<1>5. moves' \in 0..MaxMoves
  BY MoveBounded DEF CallbackEnsured
<1>6. TokenOk' /\ token' = token
  BY DEF CallbackEnsured, IInv, SessionOk, TokenOk
<1> HIDE DEF calls
<1>7. QED
  BY <1>1, <1>2, <1>3, <1>4, <1>5, <1>6, ArriveOk, HoldsTyped DEF CallbackEnsured

\* disconnect(); connect(): the manager is closed when connect starts.
LEMMA RenewOk ==
  ASSUME IInv, Spare(ws) # {}, NEW t \in Token \cup {None}, NEW made \in BOOLEAN
  PROVE  LET v == Connect(Disconnect(ws), t, made) IN Ok(v) /\ v.subs = ws.subs
<1> DEFINE d == Disconnect(ws)
<1>1. Base(ws)
  BY DEF IInv, WsOk, Ok, Between
<1>2. Ok(d) /\ d.subs = ws.subs /\ Spare(d) # {}
  BY <1>1, DisconnectOk
<1>3. Between(d)
  BY <1>2 DEF Ok
<1> HIDE DEF d
<1>4. LET v == Connect(d, t, made) IN Ok(v) /\ v.subs = d.subs
  BY <1>2, <1>3, ConnectOk
<1>5. QED
  BY <1>2, <1>4 DEF d

LEMMA CallbackSessionStep ==
  ASSUME IInv, NEW t \in {issued, issued + 1}, NEW signedIn \in BOOLEAN, NEW made \in BOOLEAN,
         CallbackSession(t, signedIn, made)
  PROVE  IInv'
<1>1. /\ moves' \in 0..MaxMoves
      /\ faults' \in 0..MaxFaults
  BY MoveBounded, FaultsBounded DEF CallbackSession
<1>2. t \in Nat \ {0} /\ token' = t /\ issued' = t /\ t \in Token
  BY DEF CallbackSession, IInv, TypeOK, Token
<1>3. Ok(ws') /\ ws'.subs = ws.subs
  <2>1. CASE signedIn
    BY <1>2, <2>1, RenewOk DEF CallbackSession
  <2>2. CASE ~signedIn
    BY <2>2 DEF CallbackSession, IInv, WsOk
  <2>3. QED
    BY <2>1, <2>2
<1> DEFINE new == Call("callback", t, Holds(t))
<1>4. new \in Ensure /\ new.by = "callback" /\ ensuring' = ensuring \cup {new}
  BY <1>2, HoldsTyped DEF Call, Ensure, CallbackSession
<1> HIDE DEF new
<1>5. TypeOK'
  <2>1. ws' \in Managers
    BY <1>3 DEF Ok, Between, Base
  <2>2. QED
    BY <1>1, <1>2, <1>4, <2>1 DEF CallbackSession, IInv, TypeOK
<1>6. SessionOk'
  <2>1. \A e \in ensuring : ~e.live /\ e.by # "callback"
    BY OutsideOk DEF CallbackSession, Finishing, Layouts
  <2>2. token' # None /\ route = "callback" /\ route' = "callback"
    BY <1>2 DEF CallbackSession
  <2>3. \A e \in ensuring' : CallOk(e)'
    BY <1>4, <2>1, <2>2 DEF CallOk
  <2>4. \A e, f \in ensuring' : e.by = "callback" /\ f.by = "callback" => e = f
    BY <1>4, <2>1
  <2>5. QED
    BY <1>2, <2>2, <2>3, <2>4 DEF CallbackSession, IInv, SessionOk, CallOk, TokenOk
<1>7. WsOk'
  BY <1>3, <1>2 DEF CallbackSession, IInv, WsOk, Screen, LoggedOutIsAnonymous
<1>8. QED
  BY <1>5, <1>6, <1>7 DEF IInv

LEMMA SessionEventStep ==
  ASSUME IInv, NEW t \in {issued, issued + 1}, NEW made \in BOOLEAN, SessionEvent(t, made)
  PROVE  IInv'
<1>1. /\ moves' \in 0..MaxMoves
      /\ faults' \in 0..MaxFaults
  BY MoveBounded, FaultsBounded DEF SessionEvent
<1>2. t \in Nat \ {0} /\ token' = t /\ issued' = t /\ t \in Token /\ token' # None
  BY DEF SessionEvent, IInv, TypeOK, Token
<1> DEFINE renewed == Connect(Disconnect(ws), t, made)
<1>3. Ok(renewed) /\ renewed.subs = ws.subs
  BY <1>2, RenewOk DEF SessionEvent
<1>4. LET v == Disconnect(renewed) IN Ok(v) /\ v.subs = ws.subs
  <2>1. Base(renewed)
    BY <1>3 DEF Ok, Between
  <2> HIDE DEF renewed
  <2>2. QED
    BY <1>3, <2>1, DisconnectOk
<1>5. Ok(ws') /\ ws'.subs = ws.subs /\ ws' \in Managers
  <2>1. ws' = renewed \/ ws' = Disconnect(renewed)
    BY DEF SessionEvent
  <2> HIDE DEF renewed
  <2>2. QED
    BY <1>3, <1>4, <2>1 DEF Ok, Between, Base
<1>6. /\ ensuring' \in SUBSET Ensure
      /\ \A e \in ensuring' : CallOk(e)'
      /\ \A e, f \in ensuring' : e.by = "callback" /\ f.by = "callback" => e = f
  <2>1. CASE route \in Layouts /\ t # token
    <3> DEFINE by == IF route = "app" THEN "app" ELSE "onboarding"
               new == Call(by, t, Holds(t))
    <3>1. ensuring' = Cancelled \cup {new}
      BY <2>1 DEF SessionEvent, Layouts
    <3>2. new \in Ensure /\ new.by = by /\ new.token = token'
      BY <1>2, HoldsTyped DEF Call, Ensure
    <3>3. /\ Cancelled \in SUBSET Ensure
          /\ \A c \in Cancelled : ~c.live /\ c.by # "callback"
      BY <2>1, CancelledOk DEF Layouts
    <3>4. \/ new.by = "app" /\ route' = "app"
          \/ new.by = "onboarding" /\ route' \in {"tutorial", "firstAgent"}
      BY <2>1, <3>2 DEF SessionEvent, Layouts
    <3> HIDE DEF new
    <3>5. QED
      BY <3>1, <3>2, <3>3, <3>4, CallsOk
  <2>2. CASE ~(route \in Layouts /\ t # token)
    <3>1. ensuring' = ensuring
      BY <2>2 DEF SessionEvent, Layouts
    <3>2. ASSUME NEW e \in ensuring PROVE CallOk(e)'
      <4>1. CASE route \in Layouts
        BY <1>2, <2>2, <4>1 DEF SessionEvent, IInv, SessionOk, CallOk
      <4>2. CASE route \notin Layouts
        BY <1>2, <4>2, OutsideOk DEF SessionEvent, IInv, SessionOk, CallOk
      <4>3. QED
        BY <4>1, <4>2
    <3>3. QED
      BY <3>1, <3>2 DEF IInv, TypeOK, SessionOk
  <2>3. QED
    BY <2>1, <2>2
<1>7. TypeOK'
  BY <1>1, <1>2, <1>5, <1>6 DEF SessionEvent, IInv, TypeOK
<1>8. SessionOk'
  BY <1>2, <1>6 DEF SessionEvent, IInv, SessionOk, CallOk, TokenOk
<1>9. WsOk'
  BY <1>2, <1>5 DEF SessionEvent, IInv, WsOk, Screen, LoggedOutIsAnonymous
<1>10. QED
  BY <1>7, <1>8, <1>9 DEF IInv

\* The token does not change, or had not changed since the effect began.
LEMMA EnsuredOk ==
  ASSUME IInv, NEW e \in ensuring, e.by # "callback", NEW ok \in BOOLEAN, Ensured(e, ok)
  PROVE  token' = token
BY DEF IInv, TypeOK, SessionOk, CallOk, Ensure, Ensured

LEMMA AppEnsuredStep ==
  ASSUME IInv, NEW e \in ensuring, NEW ok \in BOOLEAN, NEW made \in BOOLEAN,
         AppEnsured(e, ok, made)
  PROVE  IInv'
<1>1. token' = token /\ faults' \in 0..MaxFaults
  BY EnsuredOk, FaultsBounded DEF AppEnsured
<1>2. Ok(ws') /\ ws'.subs = ws.subs /\ ws' \in Managers
      /\ (e.live => token # None) /\ (~e.live => ws' = ws)
  <2>1. Ok(ws) /\ Between(ws) /\ ws \in Managers
    BY DEF IInv, WsOk, TypeOK, Ok
  <2>2. CASE e.live
    <3>1. ws' = Connect(ws, token', made) /\ Spare(ws) # {}
      BY <2>2 DEF AppEnsured
    <3>2. Ok(ws') /\ ws'.subs = ws.subs
      <4>1. token' \in Token \cup {None}
        BY <1>1 DEF IInv, TypeOK
      <4>2. QED
        BY <2>1, <3>1, <4>1, ConnectOk
    <3>3. token # None
      BY <2>2 DEF AppEnsured, IInv, SessionOk, CallOk, Layouts
    <3>4. QED
      BY <2>2, <3>2, <3>3 DEF Ok, Between, Base
  <2>3. CASE ~e.live
    BY <2>1, <2>3 DEF AppEnsured
  <2>4. QED
    BY <2>2, <2>3
<1>3. TypeOK'
  BY <1>1, <1>2 DEF AppEnsured, IInv, TypeOK
<1>4. SessionOk'
  BY <1>1 DEF AppEnsured, IInv, SessionOk, CallOk, TokenOk
<1>5. WsOk'
  BY <1>1, <1>2 DEF AppEnsured, IInv, WsOk, Screen, LoggedOutIsAnonymous
<1>6. QED
  BY <1>3, <1>4, <1>5 DEF IInv

LEMMA OnboardingEnsuredStep ==
  ASSUME IInv, NEW e \in ensuring, NEW ok \in BOOLEAN, OnboardingEnsured(e, ok)
  PROVE  IInv'
<1>1. token' = token
  BY EnsuredOk DEF OnboardingEnsured
<1>2. TypeOK'
  BY <1>1 DEF OnboardingEnsured, IInv, TypeOK
<1>3. SessionOk'
  BY <1>1 DEF OnboardingEnsured, IInv, SessionOk, CallOk, TokenOk
<1>4. WsOk'
  BY <1>1 DEF OnboardingEnsured, IInv, WsOk, Screen, LoggedOutIsAnonymous
<1>5. QED
  BY <1>2, <1>3, <1>4 DEF IInv

\* Selecting an agent, with what is subscribed following the screen.
LEMMA SetActiveAgentOk ==
  ASSUME IInv, route = "app", NEW a \in Agent \cup {None}, SetActiveAgent(a)
  PROVE  /\ Ok(ws') /\ ws' \in Managers
         /\ ws'.subs = AgentTopic(a) \cup page
<1>1. /\ Ok(ws) /\ ws.subs = AgentTopic(activeAgent) \cup page
      /\ activeAgent \in Agent \cup {None} /\ page \in {{}, PageTopic}
  BY DEF IInv, WsOk, Screen, TypeOK
<1>2. /\ AgentTopic(activeAgent) \in SUBSET Topic
      /\ AgentTopic(activeAgent) \cap PageTopic = {}
      /\ AgentTopic(a) \in SUBSET Topic
  BY <1>1, TopicsTyped
<1>3. CASE a = activeAgent
  BY <1>1, <1>3 DEF SetActiveAgent, Ok, Between, Base
<1>4. CASE a # activeAgent
  <2> DEFINE u == Unsubscribe(ws, AgentTopic(activeAgent))
  <2>1. Ok(u) /\ u.subs = page
    <3>1. Ok(u) /\ u.subs = ws.subs \ AgentTopic(activeAgent)
      BY <1>1, <1>2, UnsubscribeOk
    <3>2. QED
      BY <1>1, <1>2, <3>1
  <2>2. ws' = Subscribe(u, AgentTopic(a)) /\ u \in Managers
    BY <1>4, <2>1 DEF SetActiveAgent, Ok, Between, Base
  <2> HIDE DEF u
  <2>3. Ok(ws') /\ ws'.subs = u.subs \cup AgentTopic(a)
    BY <1>2, <2>1, <2>2, SubscribeOk
  <2>4. QED
    BY <2>1, <2>3 DEF Ok, Between, Base
<1>5. QED
  BY <1>3, <1>4

LEMMA ChooseAgentStep == ASSUME IInv, NEW a \in Agent, ChooseAgent(a) PROVE IInv'
<1>1. moves' \in 0..MaxMoves
  BY MoveBounded DEF ChooseAgent
<1>2. Ok(ws') /\ ws' \in Managers /\ ws'.subs = AgentTopic(a) \cup page
  BY SetActiveAgentOk DEF ChooseAgent
<1>3. activeAgent' = a /\ chosen' = a /\ mine # None /\ a \in 1..mine
  BY DEF ChooseAgent, SetActiveAgent
<1>4. chosen' \in 1..owned
  BY <1>3, AgentsAssumption DEF IInv, TypeOK, SessionOk, Agent
<1>5. TypeOK'
  BY <1>1, <1>2, <1>3 DEF ChooseAgent, IInv, TypeOK
<1>6. SessionOk'
  BY <1>3, <1>4 DEF ChooseAgent, IInv, SessionOk, CallOk, TokenOk, Layouts
<1>7. WsOk'
  BY <1>2, <1>3 DEF ChooseAgent, IInv, SessionOk, WsOk, Screen, LoggedOutIsAnonymous, Layouts
<1>8. QED
  BY <1>5, <1>6, <1>7 DEF IInv

LEMMA MineLoadsStep == ASSUME IInv, MineLoads PROVE IInv'
<1> DEFINE a == Selected(activeAgent, owned)
<1>1. /\ activeAgent \in Agent \cup {None} /\ owned \in Agent /\ owned # None
      /\ chosen # None => chosen = activeAgent /\ activeAgent \in 1..owned
  BY DEF IInv, TypeOK, SessionOk, Agent
<1>2. a \in Agent \cup {None} /\ (chosen # None => a = chosen)
  BY <1>1, SelectedTyped
<1>3. SetActiveAgent(a) /\ route = "app" /\ mine' = owned
  BY DEF MineLoads
<1> HIDE DEF a
<1>4. Ok(ws') /\ ws' \in Managers /\ ws'.subs = AgentTopic(a) \cup page /\ activeAgent' = a
  BY <1>2, <1>3, SetActiveAgentOk DEF SetActiveAgent
<1>5. TypeOK'
  BY <1>1, <1>2, <1>3, <1>4 DEF MineLoads, IInv, TypeOK
<1>6. SessionOk'
  <2>1. mine' <= owned'
    BY <1>1, <1>3, AgentsAssumption DEF MineLoads, Agent
  <2>2. QED
    BY <1>1, <1>2, <1>4, <2>1 DEF MineLoads, IInv, SessionOk, CallOk, TokenOk, Layouts
<1>7. WsOk'
  BY <1>4 DEF MineLoads, IInv, SessionOk, WsOk, Screen, LoggedOutIsAnonymous, Layouts
<1>8. QED
  BY <1>5, <1>6, <1>7 DEF IInv

LEMMA OpenConversationStep == ASSUME IInv, OpenConversation PROVE IInv'
<1>1. moves' \in 0..MaxMoves
  BY MoveBounded DEF OpenConversation
<1>2. Ok(ws') /\ ws' \in Managers /\ ws'.subs = ws.subs \cup PageTopic
  <2>1. Ok(ws) /\ ws \in Managers /\ PageTopic \in SUBSET Topic
    BY TopicsTyped DEF IInv, WsOk, TypeOK
  <2>2. Ok(ws') /\ ws'.subs = ws.subs \cup PageTopic
    BY <2>1, SubscribeOk DEF OpenConversation
  <2>3. QED
    BY <2>2 DEF Ok, Between, Base
<1>3. TypeOK'
  BY <1>1, <1>2 DEF OpenConversation, IInv, TypeOK
<1>4. SessionOk'
  BY DEF OpenConversation, IInv, SessionOk, CallOk, TokenOk, Layouts
<1>5. WsOk'
  BY <1>2 DEF OpenConversation, IInv, SessionOk, WsOk, Screen, LoggedOutIsAnonymous, Layouts
<1>6. QED
  BY <1>3, <1>4, <1>5 DEF IInv

LEMMA LeaveConversationStep == ASSUME IInv, LeaveConversation PROVE IInv'
<1>1. moves' \in 0..MaxMoves
  BY MoveBounded DEF LeaveConversation
<1>2. /\ ws.subs = AgentTopic(activeAgent) \cup PageTopic
      /\ AgentTopic(activeAgent) \cap PageTopic = {}
  <2>1. activeAgent \in Agent \cup {None}
    BY DEF IInv, TypeOK
  <2>2. QED
    BY <2>1, TopicsTyped DEF LeaveConversation, IInv, TypeOK, WsOk, Screen
<1>3. Ok(ws') /\ ws' \in Managers /\ ws'.subs = AgentTopic(activeAgent)
  <2>1. Ok(ws) /\ PageTopic \in SUBSET Topic
    BY TopicsTyped DEF IInv, WsOk
  <2>2. Ok(ws') /\ ws'.subs = ws.subs \ PageTopic
    BY <2>1, UnsubscribeOk DEF LeaveConversation
  <2>3. QED
    BY <1>2, <2>2 DEF Ok, Between, Base
<1>4. TypeOK'
  BY <1>1, <1>3 DEF LeaveConversation, IInv, TypeOK
<1>5. SessionOk'
  BY DEF LeaveConversation, IInv, SessionOk, CallOk, TokenOk, Layouts
<1>6. WsOk'
  BY <1>3 DEF LeaveConversation, IInv, SessionOk, WsOk, Screen, LoggedOutIsAnonymous, Layouts
<1>7. QED
  BY <1>4, <1>5, <1>6 DEF IInv

LEMMA ReloadStep == ASSUME IInv, Reload PROVE IInv'
<1>1. moves' \in 0..MaxMoves
  BY MoveBounded DEF Reload
<1>2. /\ token \in Token \cup {None} /\ activeAgent \in Agent \cup {None}
      /\ page \in {{}, PageTopic} /\ route \in Route
  BY DEF IInv, TypeOK
<1>3. Ok(ws') /\ ws' \in Managers /\ ws'.subs = Screen /\ ws'.ref = None
  <2>1. CASE route = "app"
    <3> DEFINE topics == AgentTopic(activeAgent) \cup page
    <3>1. topics \in SUBSET Topic /\ ws' = Subscribe(Fresh, topics)
      BY <1>2, <2>1, TopicsTyped DEF Reload
    <3> HIDE DEF topics
    <3>2. Fresh \in Managers
      BY FreshOk DEF Ok, Between, Base
    <3>3. Ok(ws') /\ ws'.subs = topics /\ ws'.ref = None
      <4>1. Ok(ws') /\ ws'.subs = Fresh.subs \cup topics /\ ws'.ref = Fresh.ref
        BY <3>1, <3>2, FreshOk, SubscribeOk
      <4>2. QED
        BY <4>1, FreshOk
    <3>4. topics = Screen
      BY <2>1 DEF Screen, topics
    <3>5. QED
      BY <3>3, <3>4 DEF Ok, Between, Base
  <2>2. CASE route # "app"
    BY <2>2, FreshOk DEF Reload, Screen, Ok, Between, Base
  <2>3. QED
    BY <2>1, <2>2
<1>4. /\ ensuring' \in SUBSET Ensure
      /\ \A e \in ensuring' : CallOk(e)'
      /\ \A e, f \in ensuring' : e.by = "callback" /\ f.by = "callback" => e = f
  <2>1. CASE route \in Layouts
    <3> DEFINE by == IF route = "app" THEN "app" ELSE "onboarding"
               new == Call(by, token, FALSE)
    <3>1. token \in Token /\ token' = token
      BY <1>2, <2>1 DEF IInv, SessionOk, Reload
    <3>2. ensuring' = {} \cup {new}
      BY <2>1 DEF Reload, Layouts
    <3>3. new \in Ensure /\ new.token = token' /\ new.by = by
      BY <3>1 DEF Call, Ensure
    <3>4. \/ new.by = "app" /\ route' = "app"
          \/ new.by = "onboarding" /\ route' \in {"tutorial", "firstAgent"}
      BY <2>1, <3>3 DEF Reload, Layouts
    <3> HIDE DEF new
    <3>5. QED
      BY <3>2, <3>3, <3>4, CallsOk
  <2>2. CASE route \notin Layouts
    BY <2>2 DEF Reload, Layouts
  <2>3. QED
    BY <2>1, <2>2
<1>5. TypeOK'
  BY <1>1, <1>3, <1>4 DEF Reload, IInv, TypeOK
<1>6. SessionOk'
  BY <1>4 DEF Reload, IInv, SessionOk, CallOk, TokenOk, Layouts
<1>7. WsOk'
  BY <1>3 DEF Reload, WsOk, Screen, LoggedOutIsAnonymous
<1>8. QED
  BY <1>5, <1>6, <1>7 DEF IInv

----------------------------------------------------------------------------
(* The theorems.                                                           *)

LEMMA StutterStep == ASSUME IInv, UNCHANGED vars PROVE IInv'
<1>1. Ok(ws') /\ ws'.subs = ws.subs /\ UNCHANGED session /\ faults' \in 0..MaxFaults
  BY DEF vars, IInv, TypeOK, WsOk
<1>2. token = None => Anonymous(ws')
  BY DEF vars, IInv, WsOk, LoggedOutIsAnonymous, Anonymous
<1>3. QED
  BY <1>1, <1>2, ManagerStep

\* A token that runs out changes nothing in the browser.
LEMMA ExpireStep == ASSUME IInv, NEW t \in 0..issued, Expire(t) PROVE IInv'
<1>1. TypeOK'
  BY FaultsAssumption DEF Expire, Fault, IInv, TypeOK
<1>2. SessionOk'
  BY DEF Expire, IInv, SessionOk, CallOk, TokenOk
<1>3. WsOk'
  BY DEF Expire, IInv, WsOk, Screen, LoggedOutIsAnonymous
<1>4. QED
  BY <1>1, <1>2, <1>3 DEF IInv

LEMMA Inductive == IInv /\ [Next]_vars => IInv'
<1> SUFFICES ASSUME IInv, [Next]_vars PROVE IInv'
  OBVIOUS
<1>1. ASSUME NEW s \in Socket, Browser(s) \/ SocketCut(s), UNCHANGED session PROVE IInv'
  BY <1>1, BrowserStep
<1>2. CASE (Tick \/ Timer \/ Stray) /\ UNCHANGED session
  BY <1>2, TimerStep
<1>3. CASE Answer
  BY <1>3, AppEnsuredStep, OnboardingEnsuredStep, CallbackEnsuredStep, MineLoadsStep DEF Answer
<1>4. CASE SignIn
  BY <1>4, DevLoginStep, LoginWithGithubStep, CallbackSessionStep, CallbackGivesUpStep,
     SessionEventStep, FinishTutorialStep, FirstAgentStep DEF SignIn
<1>5. CASE Use
  BY <1>5, ChooseAgentStep, CreateAgentStep, OpenConversationStep, LeaveConversationStep,
     LogoutStep, ReloadStep DEF Use
<1>6. CASE UNCHANGED vars
  BY <1>6, StutterStep
<1>7. ASSUME NEW t \in 0..issued, Expire(t) PROVE IInv'
  BY <1>7, ExpireStep
<1>8. QED
  BY <1>1, <1>2, <1>3, <1>4, <1>5, <1>6, <1>7 DEF Next

LEMMA Invariant == Spec => []IInv
BY InitOk, Inductive, PTL DEF Spec

\* Every variable stays within its type, for any number of sockets, agents, faults.
THEOREM TypeCorrect == Spec => []TypeOK
<1>1. IInv => TypeOK
  BY DEF IInv
<1>2. QED
  BY <1>1, Invariant, PTL

\* The open socket's subscriptions are the topics of the screen.
THEOREM HearsTheScreen == Spec => []ServerHearsTheScreen
<1>1. IInv => ServerHearsTheScreen
  BY DEF IInv, WsOk, Ok, Between, InStep, ServerHearsTheScreen
<1>2. QED
  BY <1>1, Invariant, PTL

\* Whoever waits for a connection waits for something that is under way.
THEOREM NotStuck == Spec => []NeverStuck
<1>1. IInv => NeverStuck
  BY DEF IInv, WsOk, Ok, Between, Pending, NeverStuck
<1>2. QED
  BY <1>1, Invariant, PTL

\* "open" is said of a socket that is, or was until the event that is on its way.
THEOREM OpenIsReal == Spec => []OpenIsBacked
<1>1. IInv => OpenIsBacked
  BY DEF IInv, WsOk, Ok, Between, Backed, OpenIsBacked
<1>2. QED
  BY <1>1, Invariant, PTL

\* What may happen to the token: a logout, the developer's login, or an event of Supabase
\* with its newest token.
TokenStep ==
  token' # token =>
    /\ moves' # moves
    /\ \/ token' = None /\ route = "app" /\ route' = "login"
       \/ token' = DevToken /\ route = "login"
       \/ token' = issued' /\ issued' >= issued /\ issued' # 0

LEMMA MovesOn == ASSUME IInv, Move PROVE moves' # moves
BY MovesAssumption DEF Move, IInv, TypeOK

\* No answer, however late, no timer and no socket writes the token of the store: what
\* puts one there, after a logout too, is a login or an event of Supabase, and it is the
\* newest of its kind (AuthedLayout.tsx:72-105).
THEOREM TokenIsCurrent == Spec => NoTokenReturns
<1>1. ASSUME IInv, [Next]_vars PROVE TokenStep
  <2>1. ASSUME NEW e \in ensuring, NEW ok \in BOOLEAN, e.by # "callback", Ensured(e, ok)
        PROVE  TokenStep
    BY <1>1, <2>1, EnsuredOk DEF TokenStep
  <2>2. CASE Answer
    <3>1. ASSUME NEW e \in ensuring, NEW ok \in BOOLEAN, NEW made \in BOOLEAN,
                 AppEnsured(e, ok, made) \/ OnboardingEnsured(e, ok)
          PROVE  TokenStep
      BY <2>1, <3>1 DEF AppEnsured, OnboardingEnsured
    <3>2. QED
      BY <2>2, <3>1 DEF Answer, CallbackEnsured, MineLoads, TokenStep
  <2>3. ASSUME NEW t \in {issued, issued + 1}, t # 0, issued' = t, token' = t, Move
        PROVE  TokenStep
    <3>1. issued' >= issued
      BY <1>1, <2>3 DEF IInv, TypeOK
    <3>2. QED
      BY <1>1, <2>3, <3>1, MovesOn DEF TokenStep
  <2>4. CASE SignIn
    <3>1. CASE DevLogin
      BY <1>1, <3>1, MovesOn DEF DevLogin, TokenStep
    <3>2. ASSUME NEW t \in {issued, issued + 1}, NEW signedIn \in BOOLEAN,
                 NEW made \in BOOLEAN, CallbackSession(t, signedIn, made)
          PROVE  TokenStep
      BY <2>3, <3>2 DEF CallbackSession
    <3>3. ASSUME NEW t \in {issued, issued + 1}, NEW made \in BOOLEAN, SessionEvent(t, made)
          PROVE  TokenStep
      BY <2>3, <3>3 DEF SessionEvent
    <3>4. QED
      BY <2>4, <3>1, <3>2, <3>3
         DEF SignIn, LoginWithGithub, CallbackGivesUp, FinishTutorial, FirstAgent, TokenStep
  <2>5. CASE Use
    <3>1. CASE Logout
      BY <1>1, <3>1, MovesOn DEF Logout, TokenStep
    <3>2. QED
      BY <2>5, <3>1 DEF Use, ChooseAgent, CreateAgent, OpenConversation, LeaveConversation,
         Reload, TokenStep
  <2>6. CASE UNCHANGED token
    BY <2>6 DEF TokenStep
  <2>7. QED
    BY <1>1, <2>2, <2>4, <2>5, <2>6 DEF Next, Expire, session, vars
<1>2. QED
  BY Invariant, <1>1, PTL DEF Spec, NoTokenReturns, TokenStep

\* The agent the user picked is the selected one.
THEOREM ChoiceIsKept == Spec => []ChoiceStands
<1>1. IInv => ChoiceStands
  BY DEF IInv, SessionOk, ChoiceStands
<1>2. QED
  BY <1>1, Invariant, PTL

\* A socket that is used after the logout was opened after it.
THEOREM LogoutIsFinal == Spec => []LoggedOutIsAnonymous
<1>1. IInv => LoggedOutIsAnonymous
  BY DEF IInv, WsOk
<1>2. QED
  BY <1>1, Invariant, PTL

----------------------------------------------------------------------------
(* The heartbeat: what liveness rests on.                                  *)

\* An open manager has a heartbeat running, which notices a socket that is gone.
Watched(w) == w.status = "open" => w.beat

\* As long as the manager is to be connected and cannot send, something is still to
\* come: a heartbeat, a timer, or an event of a socket.
NeverAsleep ==
  ws.status \notin {"closed", "idle"} /\ ~Sendable(ws) =>
    \/ ws.beat \/ ws.armed \/ ws.strays > 0
    \/ \E s \in Socket : ws.phase[s] \in {"connecting", "closing"}

LEMMA DisconnectWatched ==
  ASSUME NEW w, Ok(w) PROVE Watched(Disconnect(w)) /\ Ok(Disconnect(w))
<1>1. Disconnect(w).status = "closed" /\ Ok(Disconnect(w))
  BY DisconnectOk DEF Ok, Between
<1> QED
  BY <1>1 DEF Watched

LEMMA ConnectWatched ==
  ASSUME NEW w \in Managers, Watched(w), Spare(w) # {}, NEW t, NEW made \in BOOLEAN
  PROVE  Watched(Connect(w, t, made))
<1> DEFINE n == NextSocket(w)
           on == [w EXCEPT !.intentional = FALSE,
                           !.status = IF w.retried THEN "reconnecting" ELSE "connecting"]
           v == Connect(w, t, made)
<1>1. on \in Managers /\ on.status \in {"reconnecting", "connecting"}
  BY DEF Managers, Status
<1>2. CASE w.status \in {"open", "connecting"}
  BY <1>2 DEF Connect
<1>3. CASE w.status \notin {"open", "connecting"} /\ ~made
  <2>1. v = ScheduleReconnect(on)
    BY <1>3 DEF Connect
  <2>2. ScheduleReconnect(on).status = "reconnecting"
    <3> HIDE DEF on
    <3>1. QED
      BY <1>1 DEF ScheduleReconnect, Managers
  <2>3. QED
    BY <2>1, <2>2 DEF Watched
<1>4. CASE w.status \notin {"open", "connecting"} /\ made
  <2>1. v = [on EXCEPT !.ref = n, !.phase[n] = "connecting", !.url[n] = t]
    <3>1. w.status \notin {"open", "connecting"} /\ made = TRUE
      BY <1>4
    <3>2. QED
      BY <3>1, Zenon DEF Connect
  <2>2. v.status = on.status
    <3> HIDE DEF on, n
    <3>1. QED
      BY <1>1, <2>1 DEF Managers
  <2>3. QED
    BY <1>1, <2>2 DEF Watched
<1>5. QED
  BY <1>2, <1>3, <1>4

LEMMA SubscribeWatched ==
  ASSUME NEW w \in Managers, Watched(w), NEW topics
  PROVE  Watched(Subscribe(w, topics)) /\ Watched(Unsubscribe(w, topics))
BY DEF Watched, Subscribe, SendSubscribes, Unsubscribe, SendUnsubscribes, Managers

LEMMA BrowserWatched ==
  ASSUME IInv, Watched(ws), NEW s \in Socket, Browser(s) \/ SocketCut(s) PROVE Watched(ws')
<1>1. ws \in Managers /\ ws.phase \in [Socket -> Phase]
  BY DEF IInv, TypeOK, Managers
<1>2. CASE SocketRefused(s, expired) \/ SocketCut(s)
  BY <1>1, <1>2 DEF SocketRefused, SocketCut, Watched, Managers
<1>3. CASE SocketOpens(s, expired)
  <2> DEFINE o == [ws EXCEPT !.phase[s] = "open"]
  <2>1. ws' = HandleOpen(o) /\ o \in Managers
    BY <1>1, <1>3 DEF SocketOpens, Managers, Phase
  <2> HIDE DEF o
  <2>2. ws'.beat = TRUE
    BY <2>1 DEF HandleOpen, SendSubscribes, Managers
  <2>3. QED
    BY <2>2 DEF Watched
<1>4. CASE SocketClosed(s)
  <2> DEFINE f == [ws EXCEPT !.phase[s] = "free", !.sent[s] = {}, !.url[s] = None]
             gone == [f EXCEPT !.beat = FALSE, !.ref = None]
  <2>1. f \in Managers /\ ws' = HandleClose(f)
    BY <1>1, <1>4 DEF SocketClosed, Managers, Phase
  <2> HIDE DEF f
  <2>2. gone \in Managers
    BY <2>1 DEF Managers
  <2>3. ws' = [gone EXCEPT !.status = "closed"] \/ ws' = ScheduleReconnect(gone)
    BY <2>1 DEF HandleClose
  <2> HIDE DEF gone
  <2>4. ws'.status # "open"
    BY <2>2, <2>3 DEF ScheduleReconnect, Managers
  <2>5. QED
    BY <2>4 DEF Watched
<1>5. QED
  BY <1>2, <1>3, <1>4 DEF Browser

LEMMA TimerWatched ==
  ASSUME IInv, Watched(ws), Tick \/ Timer \/ Stray PROVE Watched(ws')
<1>1. ws \in Managers /\ Ok(ws)
  BY DEF IInv, TypeOK, WsOk
<1>2. CASE Tick
  <2> DEFINE fails == IF Sendable(ws) THEN 0 ELSE ws.fails + 1
             d == Disconnect(ws)
             e == [d EXCEPT !.fails = 0, !.intentional = FALSE]
  <2>1. ws' = [ws EXCEPT !.fails = fails] \/ ws' = ScheduleReconnect(e)
    BY <1>2 DEF Tick, Beat
  <2>2. CASE ws' = [ws EXCEPT !.fails = fails]
    <3> HIDE DEF fails
    <3>1. QED
      BY <1>1, <2>2 DEF Watched, Managers
  <2>3. CASE ws' = ScheduleReconnect(e)
    <3>1. d \in Managers
      BY <1>1, DisconnectWatched DEF Ok, Between, Base
    <3> HIDE DEF d
    <3>2. ws'.status = "reconnecting"
      BY <2>3, <3>1 DEF ScheduleReconnect, Managers
    <3>3. QED
      BY <3>2 DEF Watched
  <2>4. QED
    BY <2>1, <2>2, <2>3
<1>3. ASSUME NEW w \in Managers, w.status = ws.status, w.beat = ws.beat, Spare(w) # {},
             NEW made \in BOOLEAN, ws' = Connect(w, token, made)
      PROVE  Watched(ws')
  BY <1>3, ConnectWatched DEF Watched
<1>4. CASE Timer
  <2>1. PICK made \in BOOLEAN : TimerFires(token, made)
    BY <1>4 DEF Timer
  <2> DEFINE w == [ws EXCEPT !.armed = FALSE]
  <2>2. /\ w \in Managers /\ w.status = ws.status /\ w.beat = ws.beat /\ w.phase = ws.phase
        /\ Spare(ws) # {} /\ ws' = Connect(w, token, made)
    BY <1>1, <2>1 DEF Managers, TimerFires
  <2> HIDE DEF w
  <2>3. QED
    BY <1>3, <2>2 DEF Spare
<1>5. CASE Stray
  <2>1. PICK made \in BOOLEAN : StrayFires(token, made)
    BY <1>5 DEF Stray
  <2> DEFINE w == [ws EXCEPT !.strays = @ - 1]
  <2>2. /\ w \in Managers /\ w.status = ws.status /\ w.beat = ws.beat /\ w.phase = ws.phase
        /\ Spare(ws) # {} /\ ws' = Connect(w, token, made)
    BY <1>1, <2>1 DEF Managers, StrayFires
  <2> HIDE DEF w
  <2>3. QED
    BY <1>3, <2>2 DEF Spare
<1>6. QED
  BY <1>2, <1>4, <1>5

LEMMA SessionWatched ==
  ASSUME IInv, Watched(ws), Answer \/ SignIn \/ Use PROVE Watched(ws')
<1>1. ws \in Managers /\ Ok(ws)
  BY DEF IInv, TypeOK, WsOk
<1>2. ASSUME NEW t \in Token \cup {None}, NEW made \in BOOLEAN, Spare(ws) # {}
      PROVE  LET v == Connect(Disconnect(ws), t, made) IN Watched(v) /\ Ok(v)
  <2> DEFINE d == Disconnect(ws)
  <2>1. Watched(d) /\ d \in Managers
    BY <1>1, DisconnectWatched DEF Ok, Between, Base
  <2>2. Spare(d) # {}
    BY <1>1, <1>2, DisconnectOk DEF Ok, Between
  <2>3. Ok(Connect(d, t, made))
    BY <1>2, RenewOk
  <2> HIDE DEF d
  <2>4. Watched(Connect(d, t, made))
    BY <2>1, <2>2, ConnectWatched
  <2>5. QED
    BY <2>3, <2>4 DEF d
<1>3. Watched(Fresh) /\ Fresh \in Managers
  BY FreshOk DEF Watched, Fresh, Ok, Between, Base
<1>4. ASSUME NEW t, NEW a, NEW calls, NEW onb \in BOOLEAN, NEW authed, Arrive(t, a, ws, calls, onb, authed)
      PROVE  Watched(ws')
  BY <1>1, <1>4, SubscribeWatched DEF Arrive
<1>5. ASSUME NEW a, SetActiveAgent(a) PROVE Watched(ws')
  <2>1. Watched(Unsubscribe(ws, AgentTopic(activeAgent)))
    BY <1>1, SubscribeWatched
  <2>2. Unsubscribe(ws, AgentTopic(activeAgent)) \in Managers
    BY <1>1, UnsubscribeOk, TopicsTyped DEF IInv, TypeOK, Ok, Between, Base
  <2>3. QED
    BY <1>5, <2>1, <2>2, SubscribeWatched DEF SetActiveAgent
<1>6. CASE Answer
  <2>1. ASSUME NEW e \in ensuring, NEW ok \in BOOLEAN, NEW made \in BOOLEAN, AppEnsured(e, ok, made)
        PROVE  Watched(ws')
    BY <1>1, <2>1, ConnectWatched DEF AppEnsured
  <2>2. ASSUME NEW e \in ensuring, CallbackEnsured(e) PROVE Watched(ws')
    BY <1>4, <2>2 DEF CallbackEnsured, IInv, TypeOK
  <2>3. QED
    BY <1>5, <1>6, <2>1, <2>2 DEF Answer, OnboardingEnsured, MineLoads
<1>7. CASE SignIn
  <2>0. {issued, issued + 1} \subseteq Token
    BY DEF IInv, TypeOK, Token
  <2>1. ASSUME DevLogin PROVE Watched(ws')
    BY <1>4, <2>1 DEF DevLogin, IInv, TypeOK
  <2>2. ASSUME NEW t \in {issued, issued + 1}, NEW signedIn \in BOOLEAN, NEW made \in BOOLEAN,
               CallbackSession(t, signedIn, made)
        PROVE  Watched(ws')
    BY <1>1, <1>2, <2>0, <2>2 DEF CallbackSession
  <2>3. ASSUME NEW t \in {issued, issued + 1}, NEW made \in BOOLEAN, SessionEvent(t, made)
        PROVE  Watched(ws')
    <3> DEFINE renewed == Connect(Disconnect(ws), t, made)
    <3>1. ws' = renewed \/ ws' = Disconnect(renewed)
      BY <2>3 DEF SessionEvent
    <3>2. Watched(renewed) /\ Ok(renewed)
      BY <1>2, <2>0, <2>3 DEF SessionEvent
    <3> HIDE DEF renewed
    <3>3. QED
      BY <3>1, <3>2, DisconnectWatched
  <2>4. ASSUME FirstAgent PROVE Watched(ws')
    BY <1>4, <2>4 DEF FirstAgent
  <2>5. QED
    BY <1>3, <1>7, <2>1, <2>2, <2>3, <2>4
       DEF SignIn, LoginWithGithub, CallbackGivesUp, FinishTutorial
<1>8. CASE Use
  <2>1. ASSUME Logout PROVE Watched(ws')
    <3> DEFINE u == Unsubscribe(ws, ws.subs)
    <3>1. Ok(u)
      BY <1>1, UnsubscribeOk DEF Managers
    <3>2. ws' = Disconnect(u)
      BY <2>1 DEF Logout
    <3> HIDE DEF u
    <3>3. QED
      BY <3>1, <3>2, DisconnectWatched
  <2>2. ASSUME Reload PROVE Watched(ws')
    <3>1. ws' = Fresh \/ ws' = Subscribe(Fresh, AgentTopic(activeAgent) \cup page)
      BY <2>2 DEF Reload
    <3>2. QED
      BY <1>3, <3>1, SubscribeWatched
  <2>3. QED
    BY <1>1, <1>5, <1>8, <2>1, <2>2, SubscribeWatched
       DEF Use, ChooseAgent, CreateAgent, OpenConversation, LeaveConversation
<1>9. QED
  BY <1>6, <1>7, <1>8

\* Whatever was cut, replaced, forgotten or closed: a manager that is to be connected
\* and cannot send has a heartbeat, a timer or an event of a socket to wake it
\* (client.ts:142-152, 258-310).
THEOREM WakesUp == Spec => []NeverAsleep
<1>1. Init => Watched(ws)
  BY DEF Init, Fresh, Watched
<1>2. IInv /\ Watched(ws) /\ [Next]_vars => Watched(ws)'
  <2> SUFFICES ASSUME IInv, Watched(ws), [Next]_vars PROVE Watched(ws')
    BY DEF Watched
  <2>1. CASE UNCHANGED vars
    BY <2>1 DEF vars, Watched
  <2>2. ASSUME NEW t, Expire(t) PROVE Watched(ws')
    BY <2>2 DEF Expire
  <2>3. QED
    BY <2>1, <2>2, BrowserWatched, TimerWatched, SessionWatched DEF Next
<1>3. IInv /\ Watched(ws) => NeverAsleep
  BY DEF IInv, TypeOK, WsOk, Ok, Between, Pending, Watched, NeverAsleep, Managers, Status
<1>4. QED
  BY Invariant, <1>1, <1>2, <1>3, PTL DEF Spec
=============================================================================
