------------------------------- MODULE Pages -------------------------------
(***************************************************************************)
(* The dating pages of the frontend: feed, discover, matches, start of a   *)
(* date, conversation, live date, result and history, with the requests    *)
(* they send, the answers' callbacks, and the list of matches that React   *)
(* Query keeps per agent.                                                  *)
(*                                                                         *)
(* The server is what the pages see of it: rows of matches, of dates and   *)
(* of ratings, which the partner changes as well.  One action is one task  *)
(* of the browser, one step of the server or one step of the partner.      *)
(***************************************************************************)
EXTENDS Integers, Sequences, FiniteSets

CONSTANTS
  Mine,      \* the user's agents
  Other,     \* agents of other users
  None,
  MaxDates,  \* bound: dates of a match
  MaxCalls,  \* bound: requests awaiting an answer
  MaxMoves   \* bound: clicks in a behaviour

ASSUME AgentsAssumption ==
  /\ Mine # {} /\ Mine \cap Other = {}
  /\ None \notin Mine \cup Other \cup ((Mine \cup Other) \X (Mine \cup Other))
ASSUME BoundsAssumption == MaxDates \in Nat /\ MaxCalls \in Nat /\ MaxMoves \in Nat

VARIABLES
  \* the server
  matched,  \* rows of matches
  dates,    \* the dates of every match, in the order of created_at
  rated,    \* rows of ratings: match, date, rated agent
  \* the browser
  agent,    \* the active agent of the auth store
  screen,   \* the page and the state the router gave it
  modal,    \* the match "It's a match!" shows, or None
  list,     \* for each agent, its query ["matches", agent, "active"]
  calls,    \* requests awaiting an answer
  moves     \* clicks so far

server == <<matched, dates, rated>>
vars == <<matched, dates, rated, agent, screen, modal, list, calls, moves>>

Agent == Mine \cup Other
\* A row names its agents in either order (agent_a, agent_b).
Match == (Mine \X Other) \cup (Other \X Mine)
\* "dropped": ended before it started, while the server still waits for a second
\* proposal of the match.
DateStatus == {"proposed", "running", "ended", "dropped"}
Rating == Match \X Nat \X Agent

Screen == [at : {"feed", "discover", "matches", "start", "chat", "live", "result",
                 "history"},
           match : Match \cup {None}, date : Nat, partner : Agent \cup {None}]
Row == [match : Match, date : Nat, partner : Agent,
        status : {"idle", "coffee_chatting", "rating_pending", "deep_diving"}]
List == [rows : (SUBSET Row) \cup {None}, fresh : BOOLEAN, error : BOOLEAN,
         fetch : {"none", "sent", "read"}, got : SUBSET Row]

\* A request: what it asks, which callbacks its answer still runs ("page": those given
\* to mutate(), as the page that sent it is open and has sent no later one, and the
\* hook's; "app": the hook's only; "gone": none, the browser has loaded the page
\* again), and how far it is.
CallKind == {"swipe", "schedule", "result", "live"}
Call == [n : Nat, kind : CallKind, match : Match, date : Nat,
         rated : Agent \cup {None}, here : {"page", "app", "gone"}, state : {"sent", "done"},
         answer : Match \cup {None}]

TypeOK ==
  /\ matched \subseteq Match
  /\ dates \in [Match -> Seq(DateStatus)]
  /\ rated \subseteq Rating
  /\ agent \in Mine
  /\ screen \in Screen
  /\ modal \in Match \cup {None}
  /\ list \in [Mine -> List]
  /\ calls \subseteq Call
  /\ moves \in 0..MaxMoves

At(p) == [at |-> p, match |-> None, date |-> 0, partner |-> None]
Empty == [rows |-> None, fresh |-> FALSE, error |-> FALSE, fetch |-> "none", got |-> {}]

Init ==
  /\ matched = {} /\ dates = [m \in Match |-> <<>>] /\ rated = {}
  /\ agent \in Mine
  /\ screen = At("feed") /\ modal = None
  /\ list = [a \in Mine |-> Empty]
  /\ calls = {}
  /\ moves = 0

----------------------------------------------------------------------------
(* The server.                                                             *)

Known(m) == m \in matched \/ <<m[2], m[1]>> \in matched
Over(status) == status \in {"ended", "dropped"}
Last(s) == s[Len(s)]

\* POST /matches/{m}/dates: a new date that waits, or, when the server still waits,
\* the start of the last one.  After a restart it no longer waits for anyone.
Proposed(m) ==
  (IF Len(dates[m]) < MaxDates THEN {Append(dates[m], "proposed")} ELSE {})
    \cup (IF dates[m] = <<>> THEN {} ELSE
          {[dates[m] EXCEPT ![Len(dates[m])] =
              CASE Last(dates[m]) = "proposed" -> "running"
                [] Last(dates[m]) = "dropped"  -> "ended"
                [] OTHER -> Last(dates[m])]} \ {dates[m]})

\* POST /dates/{i}/end, possibly with a rating: the second one of an agent is dropped.
Closed(status) ==
  CASE status = "running" -> "ended" [] status = "proposed" -> "dropped" [] OTHER -> status

ServeSwipe(c) ==
  /\ c.kind = "swipe"
  /\ \/ calls' = (calls \ {c}) \cup {[c EXCEPT !.state = "done"]} /\ UNCHANGED matched
     \/ /\ ~Known(c.match)
        /\ \E m \in {c.match, <<c.match[2], c.match[1]>>} :
             /\ matched' = matched \cup {m}
             /\ calls' = (calls \ {c}) \cup {[c EXCEPT !.state = "done", !.answer = m]}
  /\ UNCHANGED <<dates, rated>>

ServeSchedule(c) ==
  /\ c.kind = "schedule"
  /\ \E s \in Proposed(c.match) : dates' = [dates EXCEPT ![c.match] = s]
  /\ calls' = (calls \ {c}) \cup {[c EXCEPT !.state = "done"]}
  /\ UNCHANGED <<matched, rated>>

ServeEnd(c) ==
  /\ c.kind \in {"result", "live"}
  /\ dates' = [dates EXCEPT ![c.match][c.date] = Closed(@)]
  /\ rated' = IF c.rated = None THEN rated ELSE rated \cup {<<c.match, c.date, c.rated>>}
  /\ calls' = (calls \ {c}) \cup {[c EXCEPT !.state = "done"]}
  /\ UNCHANGED matched

Serve(c) ==
  /\ c \in calls /\ c.state = "sent"
  /\ ServeSwipe(c) \/ ServeSchedule(c) \/ ServeEnd(c)
  /\ UNCHANGED <<agent, screen, modal, list, moves>>

\* The partner, the automatic engine and the conversation loop.
MatchForms(m) ==
  /\ ~Known(m)
  /\ matched' = matched \cup {m}
  /\ UNCHANGED <<dates, rated>>

PartnerProposes(m) ==
  /\ m \in matched
  /\ \E s \in Proposed(m) : dates' = [dates EXCEPT ![m] = s]
  /\ UNCHANGED <<matched, rated>>

DateEnds(m) ==
  /\ m \in matched /\ dates[m] # <<>> /\ Last(dates[m]) = "running"
  /\ dates' = [dates EXCEPT ![m][Len(dates[m])] = "ended"]
  /\ UNCHANGED <<matched, rated>>

PartnerRates(m, i) ==
  /\ m \in matched /\ i \in DOMAIN dates[m] /\ Over(dates[m][i])
  /\ \E a \in Mine \cap {m[1], m[2]} : rated' = rated \cup {<<m, i, a>>}
  /\ UNCHANGED <<matched, dates>>

Elsewhere ==
  /\ \E m \in Match :
       MatchForms(m) \/ PartnerProposes(m) \/ DateEnds(m) \/ \E i \in 1..MaxDates : PartnerRates(m, i)
  /\ UNCHANGED <<agent, screen, modal, list, calls, moves>>

----------------------------------------------------------------------------
(* The list of matches: GET /matches?agent_id=a and its mapping.           *)

\* partnerIdOf
Partner(m, viewer) == IF m[1] = viewer THEN m[2] ELSE m[1]

HasRating(m, i) == \E a \in Agent : <<m, i, a>> \in rated

\* a slip: a date that ended is done
DerivedEarly(m) ==
  IF dates[m] = <<>> THEN "idle"
  ELSE CASE Last(dates[m]) = "running" -> "coffee_chatting"
         [] Over(Last(dates[m])) -> "deep_diving"
         [] OTHER -> "idle"
\* a slip: a date that was proposed is as good as over
DerivedOver(m) ==
  IF dates[m] = <<>> THEN "idle"
  ELSE CASE Last(dates[m]) = "running" -> "coffee_chatting"
         [] HasRating(m, Len(dates[m])) -> "deep_diving"
         [] OTHER -> "rating_pending"
\* deriveDateStatus, of the latest date and of whether anyone has rated it
Derived(m) ==
  IF dates[m] = <<>> THEN "idle"
  ELSE CASE Last(dates[m]) = "running" -> "coffee_chatting"
         [] Over(Last(dates[m])) ->
              IF HasRating(m, Len(dates[m])) THEN "deep_diving" ELSE "rating_pending"
         [] OTHER -> "idle"

RowOf(m, viewer) ==
  [match |-> m, date |-> Len(dates[m]), partner |-> Partner(m, viewer), status |-> Derived(m)]

\* a slip: the rows are mapped for the agent that is active now
RowsOfActive(a) ==
  {RowOf(m, agent) : m \in {x \in matched : a \in {x[1], x[2]}}}
\* mapActiveMatches, for the agent of the query
RowsOf(a) == {RowOf(m, a) : m \in {x \in matched : a \in {x[1], x[2]}}}

\* What QueryBoundary shows of a query: nothing after a fetch that failed.
Rows(q) == IF q.rows = None \/ q.error THEN {} ELSE q.rows

\* The query of a mounted page that is asked for: not while it is fresh or on its way.
Mounted(q) == IF q.fresh \/ q.fetch # "none" THEN q ELSE [q EXCEPT !.fetch = "sent"]

\* invalidateQueries(["matches"]): what is shown is fetched again, from the start if
\* there is something to show; what is not shown is only no longer fresh.
Invalidated(q, shown) ==
  LET stale == [q EXCEPT !.fresh = FALSE]
  IN IF ~shown THEN stale
     ELSE IF q.rows # None THEN [stale EXCEPT !.fetch = "sent", !.got = {}]
     ELSE Mounted(stale)

FetchIsRead(a) ==
  /\ list[a].fetch = "sent"
  /\ list' = [list EXCEPT ![a].fetch = "read", ![a].got = RowsOf(a)]

FetchArrives(a) ==
  /\ list[a].fetch = "read"
  /\ list' = [list EXCEPT ![a] = [rows |-> @.got, fresh |-> TRUE, error |-> FALSE,
                                  fetch |-> "none", got |-> {}]]

FetchFails(a) ==
  /\ list[a].fetch # "none"
  /\ list' = [list EXCEPT ![a].error = (list[a].rows # None), ![a].fetch = "none", ![a].got = {}]

\* thirty seconds later
Ages(a) ==
  /\ list[a].fresh
  /\ list' = [list EXCEPT ![a].fresh = FALSE]

Cache ==
  /\ \E a \in Mine : FetchIsRead(a) \/ FetchArrives(a) \/ FetchFails(a) \/ Ages(a)
  /\ UNCHANGED <<matched, dates, rated, agent, screen, modal, calls, moves>>

----------------------------------------------------------------------------
(* Moving between pages.                                                   *)

Left(waiting) == {[c EXCEPT !.here = IF @ = "page" THEN "app" ELSE @] : c \in waiting}

\* The page that unmounts takes its modal and its mutations' callbacks with it; the
\* matches page asks for its list as it mounts.
Open(s, waiting) ==
  /\ screen' = s
  /\ modal' = None
  /\ calls' = Left(waiting)
  /\ list' = IF s.at = "matches" THEN [list EXCEPT ![agent] = Mounted(@)] ELSE list

Move == moves < MaxMoves /\ moves' = moves + 1
Stays == UNCHANGED <<matched, dates, rated, agent>>

\* The bottom navigation, "Unmatch", and "Done" without stars or without a date.
Go(p) ==
  /\ Move /\ modal = None /\ screen.at # p
  /\ Open(At(p), calls)
  /\ Stays

\* TopBar's menu, on the feed and on the discover page
ChooseAgent(a) ==
  /\ Move /\ modal = None /\ screen.at \in {"feed", "discover"}
  /\ agent' = a
  /\ UNCHANGED <<matched, dates, rated, screen, modal, list, calls>>

KeepSwiping ==
  /\ modal # None
  /\ modal' = None
  /\ UNCHANGED <<matched, dates, rated, agent, screen, list, calls, moves>>

StartFromModal ==
  /\ Move /\ modal # None
  /\ Open([At("start") EXCEPT !.match = modal], calls)
  /\ Stays

\* a slip: a route that has become a page of another name
CtaPageOld(status) ==
  CASE status = "coffee_chatting" -> "chat"
    [] status \in {"deep_diving", "rating_pending"} -> "result"
    [] OTHER -> "schedule"
\* AgentMatchCard's button
CtaPage(status) ==
  CASE status = "coffee_chatting" -> "chat"
    [] status \in {"deep_diving", "rating_pending"} -> "result"
    [] OTHER -> "start"

OpenCard(r) ==
  /\ Move /\ screen.at = "matches"
  /\ r \in Rows(list[agent])
  /\ Open([at |-> CtaPage(r.status), match |-> r.match, date |-> r.date,
           partner |-> r.partner], calls)
  /\ Stays

\* the history of a match, from the card of a relationship, and its "Rate", which
\* passes neither the date nor the agent on
OpenHistory(m) ==
  /\ Move /\ modal = None /\ m \in matched
  /\ Open([At("history") EXCEPT !.match = m], calls)
  /\ Stays

RateFromHistory ==
  /\ Move /\ screen.at = "history"
  /\ \E i \in DOMAIN dates[screen.match] : Over(dates[screen.match][i])
  /\ Open([At("result") EXCEPT !.match = screen.match], calls)
  /\ Stays

\* /dates/{i}/live, which only a typed address reaches: the page is loaded again
OpenLive(m, i) ==
  /\ Move /\ m \in matched /\ i \in DOMAIN dates[m]
  /\ screen' = [at |-> "live", match |-> m, date |-> i, partner |-> None] /\ modal' = None
  /\ calls' = {[c EXCEPT !.here = "gone"] : c \in calls}
  /\ list' = [a \in Mine |-> Empty]
  /\ Stays

----------------------------------------------------------------------------
(* Requests.                                                               *)

Pending(kind) == \E c \in calls : c.here = "page" /\ c.kind = kind

\* Numbers for a request, bounded by MaxCalls; only the model has them.
Unused == {k \in 1..MaxCalls : \A c \in calls : c.n # k}

\* mutate(): the callbacks of an earlier call of the page are forgotten.
Send(kind, m, i, a) ==
  /\ Unused # {}
  /\ calls' = Left(calls) \cup
       {[n |-> CHOOSE k \in Unused : TRUE, kind |-> kind, match |-> m, date |-> i, rated |-> a,
         here |-> "page", state |-> "sent", answer |-> None]}
  /\ UNCHANGED <<matched, dates, rated, agent, screen, modal, list>>

\* The sheet with the details of a card, which both pages open, has a heart as well.
HeartShown == modal = None /\ screen.at \in {"feed", "discover"}

\* The heart of a card, on the feed or on the discover page.
Like(o) ==
  /\ Move /\ HeartShown
  /\ ~Pending("swipe")
  /\ Send("swipe", <<agent, o>>, 0, None)

\* StartDatePage's start, with a time
Start ==
  /\ Move /\ screen.at = "start"
  /\ ~Pending("schedule")
  /\ Send("schedule", screen.match, 0, None)

\* DateResultPage's done with stars; it can be pressed again while it is saving
Done ==
  /\ Move /\ screen.at = "result" /\ screen.date > 0
  /\ Send("result", screen.match, screen.date, screen.partner)

\* DateLivePage's rating sheet: no agent is named, so no rating is stored
RateLive ==
  /\ Move /\ screen.at = "live"
  /\ Send("live", screen.match, screen.date, None)

----------------------------------------------------------------------------
(* Answers.                                                                *)

\* a slip: every answer is a match
MatchInAlways(c) == IF c.kind = "swipe" THEN c.match ELSE None
\* mapSwipeResponse: whether the answer has a match
MatchIn(c) == c.answer

\* useSwipe's onSuccess, which runs wherever the user is by now
Refreshed(c) ==
  IF MatchIn(c) = None \/ c.here = "gone" THEN list
  ELSE [a \in Mine |-> Invalidated(list[a], screen.at = "matches" /\ a = agent)]

\* a slip: what the callbacks do is done on whatever page is open
AfterwardsAnywhere(c, ok) ==
  CASE ok /\ c.kind = "schedule" -> "chat"
    [] ok /\ c.kind \in {"live", "result"} -> "matches"
    [] OTHER -> "stay"
\* a slip: the result page leaves only when its rating was saved
AfterwardsSaved(c, ok) ==
  IF c.here # "page" \/ ~ok \/ c.kind = "swipe" THEN "stay"
  ELSE IF c.kind = "schedule" THEN "chat" ELSE "matches"
\* Where the callbacks given to mutate() go: onSuccess of the start and of the live
\* page, onSettled of the result page.
Afterwards(c, ok) ==
  IF c.here # "page" THEN "stay"
  ELSE CASE c.kind = "schedule" /\ ok -> "chat"
         [] c.kind = "live" /\ ok -> "matches"
         [] c.kind = "result" -> "matches"
         [] OTHER -> "stay"

\* FeedPage's onSuccess
ModalAfter(c, ok) ==
  IF ok /\ c.here = "page" /\ screen.at = "feed" /\ MatchIn(c) # None THEN MatchIn(c) ELSE modal

Answer(c, ok) ==
  /\ c \in calls /\ (ok => c.state = "done")
  /\ CASE Afterwards(c, ok) = "chat" ->
            Open([At("chat") EXCEPT !.match = c.match], calls \ {c})
       [] Afterwards(c, ok) = "matches" -> Open(At("matches"), calls \ {c})
       [] OTHER ->
            /\ calls' = calls \ {c}
            /\ modal' = ModalAfter(c, ok)
            /\ list' = IF ok THEN Refreshed(c) ELSE list
            /\ UNCHANGED screen
  /\ UNCHANGED <<matched, dates, rated, agent, moves>>

----------------------------------------------------------------------------

Navigate ==
  \/ \E p \in {"feed", "discover", "matches"} : Go(p)
  \/ \E a \in Mine : ChooseAgent(a)
  \/ KeepSwiping \/ StartFromModal
  \/ \E r \in Rows(list[agent]) : OpenCard(r)
  \/ \E m \in Match : OpenHistory(m)
  \/ RateFromHistory
  \/ \E m \in Match : \E i \in 1..MaxDates : OpenLive(m, i)

Press ==
  \/ \E o \in Other : Like(o)
  \/ Start \/ Done \/ RateLive

Settle == \E c \in calls : \E ok \in BOOLEAN : Answer(c, ok)

Next ==
  \/ \E c \in calls : Serve(c)
  \/ Elsewhere
  \/ Cache
  \/ Navigate
  \/ Press
  \/ Settle

Spec == Init /\ [][Next]_vars

\* Every request is answered or fails; nobody has to click.
FairSpec == Spec /\ WF_vars(Settle)

----------------------------------------------------------------------------
(* Properties                                                              *)

OtherSide(m) == Other \cap {m[1], m[2]}

\* Whichever agent was active when the list was asked for, read and shown, and
\* whichever is now: a card, a page and a rating name the other side of their match.
NamesThePartner ==
  /\ \A a \in Mine : \A r \in Rows(list[a]) : r.partner \in OtherSide(r.match)
  /\ screen.partner # None => screen.partner \in OtherSide(screen.match)
  /\ \A c \in calls : c.kind = "result" => c.rated \in OtherSide(c.match)

\* A stale list never lets the result page end a date that is still waited for or
\* still running.
RatesOnlyEnded ==
  \A c \in calls : c.kind = "result" =>
    c.date \in DOMAIN dates[c.match] /\ Over(dates[c.match][c.date])

\* The modal, the pages and the lists only ever show matches the server has.
MatchExists ==
  /\ modal # None => modal \in matched
  /\ screen.match # None => screen.match \in matched
  /\ \A a \in Mine : \A r \in Rows(list[a]) : r.match \in matched

\* "레이팅이 저장된 후에야 완전히 완료된 것으로 표시" (matches.adapter.ts:19): a card that says
\* Done is of a date somebody has rated.
DoneMeansRated ==
  \A a \in Mine : \A r \in Rows(list[a]) :
    r.status = "deep_diving" => HasRating(r.match, r.date)

\* An answer takes the user away only from the page that asked, never from the page
\* they have moved on to.
Home(c) == CASE c.kind = "schedule" -> "start" [] c.kind = "swipe" -> "feed" [] OTHER -> c.kind
AnswersStayHome ==
  [][moves' = moves /\ screen' # screen =>
       \E c \in calls \ calls' : screen.at = Home(c) /\ screen.match = c.match]_vars

\* Whoever pressed Done with stars leaves the result page, whether the rating was
\* saved or not.
DoneLeaves ==
  (screen.at = "result" /\ Pending("result")) ~> (screen.at # "result")

=============================================================================
