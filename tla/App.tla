-------------------------------- MODULE App --------------------------------
(***************************************************************************)
(* The frontend's session and the WebSocket that follows it: App.tsx,      *)
(* store/auth.ts, the login and onboarding pages and the two layouts,      *)
(* composed with WsClient.                                                 *)
(*                                                                         *)
(* One action is one task of the browser: a click, an event of Supabase,   *)
(* the answer of a request, an event of a socket or a timer, each with the *)
(* React effects it causes (unmount and cleanup first, then mount), which  *)
(* run before the next task.                                               *)
(***************************************************************************)
EXTENDS WsClient

CONSTANTS
  MaxAgents,   \* bound: agents the user owns
  InitialAgents,  \* how many the user may own at the beginning
  PageTopic,   \* topics of an open conversation; the topic matches.{a} is written a
  MaxMoves     \* bound: clicks, reloads and events of Supabase in a behaviour

ASSUME AgentsAssumption == MaxAgents \in Nat /\ InitialAgents \subseteq 0..MaxAgents
ASSUME TopicAssumption ==
  (0..MaxAgents) \cup PageTopic \subseteq Topic /\ (0..MaxAgents) \cap PageTopic = {}
ASSUME MovesAssumption == MaxMoves \in Nat
ASSUME NoneAssumption == None \notin Nat

VARIABLES
  token,        \* of the auth store: None, 0 (the developer's), or one of Supabase
  issued,       \* tokens Supabase has issued: it holds the newest until the end
  expired,      \* tokens that have run out: the server refuses them
  activeAgent,  \* of the auth store
  onboarded,    \* the flag in localStorage
  route,        \* where the router is
  page,         \* the topics of the page that is open under the layout
  owned,        \* agents at the server: 1..owned
  mine,         \* the query ["agents", "mine"]: how many of them it has, or None
  ensuring,     \* calls of ensurePrincipal whose answer is awaited
  chosen,       \* history: the agent the user picked in this session
  moves         \* moves so far

session == <<token, issued, expired, activeAgent, onboarded, route, page, owned, mine, ensuring,
             chosen, moves>>
vars == <<ws, faults, session>>

DevToken == 0
Agent == 0..MaxAgents
Route == {"login", "callback", "tutorial", "firstAgent", "app"}

\* A call holds the token its effect closed over; "live" is ~cancelled; "authed"
\* says whether the request carried a token that had not run out.
Ensure == [by : {"app", "onboarding", "callback"}, token : Token, live : BOOLEAN,
           authed : BOOLEAN]

TypeOK ==
  /\ ws \in Managers
  /\ faults \in 0..MaxFaults
  /\ token \in Token \cup {None}
  /\ issued \in Nat /\ expired \subseteq 0..issued
  /\ activeAgent \in Agent \cup {None} /\ chosen \in Agent \cup {None}
  /\ onboarded \in BOOLEAN
  /\ route \in Route
  /\ page \in {{}, PageTopic}
  /\ owned \in Agent /\ mine \in Agent \cup {None}
  /\ ensuring \in SUBSET Ensure
  /\ moves \in 0..MaxMoves

Init ==
  /\ ws = Fresh
  /\ faults = 0
  /\ token = None /\ issued = 0 /\ expired = {}
  /\ activeAgent = None /\ chosen = None
  /\ onboarded \in BOOLEAN
  /\ route = "login"
  /\ page = {}
  /\ owned \in InitialAgents /\ mine = None
  /\ ensuring = {}
  /\ moves = 0

----------------------------------------------------------------------------
(* The effects of the layouts.                                             *)

Move == moves < MaxMoves /\ moves' = moves + 1
AgentTopic(a) == IF a = None THEN {} ELSE {a}

\* a slip: the first of the list whenever a list arrives
SelectedFirst(agent, list) == IF list # None /\ list > 0 THEN 1 ELSE agent
\* AuthedLayout's first effect: without a selected agent that is on the loaded
\* list, the first of the list is selected.
Selected(agent, list) ==
  IF list # None /\ list > 0 /\ agent \notin 1..list THEN 1 ELSE agent

\* The cleanup of a token effect.  A cancelled call of OnboardingLayout has nothing
\* left to do and is dropped; one of AuthedLayout ends in its finally block.
Cancelled ==
  {[e EXCEPT !.live = (e.by = "callback")] : e \in {c \in ensuring : c.by # "onboarding"}}
Holds(t) == t \notin expired
Call(by, t, authed) == [by |-> by, token |-> t, live |-> TRUE, authed |-> authed]

\* navigate("/"): AuthedLayout mounts with token t and the agent of the store, and
\* sends a user who has not been onboarded to the tutorial.  Its request carries a
\* token unless the page has just been loaded: App's effect, which installs the
\* token getter, runs after the effects of the layout it renders.
Arrive(t, agent, w, calls, onb, authed) ==
  IF onb
    THEN /\ route' = "app"
         /\ activeAgent' = Selected(agent, mine)
         /\ ws' = Subscribe(w, AgentTopic(Selected(agent, mine)) \cup page)
         /\ ensuring' = calls \cup {Call("app", t, authed)}
    ELSE /\ route' = "tutorial"
         /\ activeAgent' = agent
         /\ ws' = w
         /\ ensuring' = calls \cup {Call("onboarding", t, authed)}

----------------------------------------------------------------------------
(* Signing in.                                                             *)

\* LoginPage's devLogin; VITE_DEV_AGENT_ID may be on the user's list or not.
DevLogin ==
  /\ route = "login" /\ Move
  /\ token' = DevToken
  /\ \E a \in {0, 1} \cap Agent : Arrive(DevToken, a, ws, ensuring, onboarded, Holds(DevToken))
  /\ chosen' = None
  /\ UNCHANGED <<faults, issued, expired, onboarded, page, owned, mine>>

\* loginWithGithub leaves the page; Supabase comes back to /auth/callback.
LoginWithGithub ==
  /\ route = "login" /\ Move
  /\ route' = "callback"
  /\ ws' = Fresh
  /\ mine' = None /\ ensuring' = {}
  /\ UNCHANGED <<faults, token, issued, expired, activeAgent, onboarded, page, owned, chosen>>

Finishing == \E e \in ensuring : e.by = "callback"

\* finish() of AuthCallbackPage, once: with the session getSession finds or the one
\* of an event.  The event SIGNED_IN reaches App's listener as well.
CallbackSession(t, signedIn, made) ==
  /\ route = "callback" /\ ~Finishing /\ Move
  /\ t \in {issued, issued + 1} \ {0}
  /\ Spare(ws) # {}
  /\ issued' = t /\ token' = t
  /\ activeAgent' = None /\ chosen' = None
  /\ ensuring' = ensuring \cup {Call("callback", t, Holds(t))}
  /\ ws' = IF signedIn THEN Connect(Disconnect(ws), t, made) ELSE ws
  /\ IF signedIn THEN Made(made) ELSE made /\ NoFault
  /\ UNCHANGED <<expired, onboarded, route, page, owned, mine>>

\* No session after four seconds, or an error: back to the login page.
CallbackGivesUp ==
  /\ route = "callback" /\ ~Finishing
  /\ route' = "login"
  /\ UNCHANGED <<ws, faults, token, issued, expired, activeAgent, onboarded, page, owned,
                 mine, ensuring, chosen, moves>>

\* App's listener on TOKEN_REFRESHED and SIGNED_IN, wherever the router is, also
\* after a logout, of which Supabase is not told, and in every tab.  A new token
\* runs the token effect of the layout that is mounted.
SessionEvent(t, made) ==
  /\ route = "callback" => Finishing
  /\ Move
  /\ t \in {issued, issued + 1} \ {0}
  /\ Spare(ws) # {}
  /\ issued' = t /\ token' = t
  /\ LET renewed == Connect(Disconnect(ws), t, made)
     IN CASE route = "app" /\ t # token ->
               /\ ws' = Disconnect(renewed)
               /\ ensuring' = Cancelled \cup {Call("app", t, Holds(t))}
          [] route \in {"tutorial", "firstAgent"} /\ t # token ->
               /\ ws' = renewed
               /\ ensuring' = Cancelled \cup {Call("onboarding", t, Holds(t))}
          [] OTHER -> ws' = renewed /\ UNCHANGED ensuring
  /\ Made(made)
  /\ UNCHANGED <<expired, activeAgent, onboarded, route, page, owned, mine, chosen>>

----------------------------------------------------------------------------
(* The answer of ensurePrincipal.                                          *)

\* a slip: the answer is used whatever happened to its effect
EnsuredAnyway(e, ok) == IF ok THEN token' = e.token ELSE UNCHANGED token
\* setSession with the token the effect closed over, unless it was cancelled.
Ensured(e, ok) == IF ok /\ e.live THEN token' = e.token ELSE UNCHANGED token

\* AuthedLayout: the socket is connected in any case, unless the effect is over.
AppEnsured(e, ok, made) ==
  /\ e \in ensuring /\ e.by = "app" /\ (ok => e.authed)
  /\ Spare(ws) # {}
  /\ ensuring' = ensuring \ {e}
  /\ Ensured(e, ok)
  /\ IF e.live THEN ws' = Connect(ws, token', made) /\ Made(made)
               ELSE UNCHANGED ws /\ made /\ NoFault
  /\ UNCHANGED <<issued, expired, activeAgent, onboarded, route, page, owned, mine, chosen,
                 moves>>

OnboardingEnsured(e, ok) ==
  /\ e \in ensuring /\ e.by = "onboarding" /\ (ok => e.authed)
  /\ ensuring' = ensuring \ {e}
  /\ Ensured(e, ok)
  /\ UNCHANGED <<ws, faults, issued, expired, activeAgent, onboarded, route, page, owned,
                 mine, chosen, moves>>

\* The callback page goes home whether the call succeeded or not.
CallbackEnsured(e) ==
  /\ e \in ensuring /\ e.by = "callback"
  /\ Arrive(token, activeAgent, ws, ensuring \ {e}, onboarded, Holds(token))
  /\ UNCHANGED <<faults, token, issued, expired, onboarded, page, owned, mine, chosen, moves>>

----------------------------------------------------------------------------
(* Onboarding.                                                             *)

\* The last "next", or "skip", of the tutorial.
FinishTutorial ==
  /\ route = "tutorial"
  /\ route' = "firstAgent"
  /\ UNCHANGED <<ws, faults, token, issued, expired, activeAgent, onboarded, page, owned,
                 mine, ensuring, chosen, moves>>

\* finish() of FirstAgentPage, after an agent was created or not.
FirstAgent ==
  /\ route = "firstAgent"
  /\ onboarded' = TRUE
  /\ owned' \in {owned, owned + 1} \cap Agent
  /\ Arrive(token, activeAgent, ws, Cancelled, TRUE, Holds(token))
  /\ UNCHANGED <<faults, token, issued, expired, page, mine, chosen, moves>>

----------------------------------------------------------------------------
(* In the app.                                                             *)

\* The store's agent changes: the subscription of AuthedLayout follows.
SetActiveAgent(a) ==
  /\ activeAgent' = a
  /\ ws' = IF a = activeAgent THEN ws
           ELSE Subscribe(Unsubscribe(ws, AgentTopic(activeAgent)), AgentTopic(a))

\* The user picks an agent of the list in the top bar.
ChooseAgent(a) ==
  /\ route = "app" /\ Move
  /\ mine # None /\ a \in 1..mine
  /\ SetActiveAgent(a)
  /\ chosen' = a
  /\ UNCHANGED <<faults, token, issued, expired, onboarded, route, page, owned, mine, ensuring>>

CreateAgent ==
  /\ route = "app" /\ Move
  /\ owned < MaxAgents
  /\ owned' = owned + 1
  /\ UNCHANGED <<ws, faults, token, issued, expired, activeAgent, onboarded, route, page,
                 mine, ensuring, chosen>>

\* useMyAgents has an answer, of the first fetch or of one after a creation.
MineLoads ==
  /\ route = "app" /\ mine # owned /\ Holds(token)
  /\ mine' = owned
  /\ SetActiveAgent(Selected(activeAgent, owned))
  /\ UNCHANGED <<faults, token, issued, expired, onboarded, route, page, owned, ensuring,
                 chosen, moves>>

OpenConversation ==
  /\ route = "app" /\ page = {} /\ Move
  /\ page' = PageTopic
  /\ ws' = Subscribe(ws, PageTopic)
  /\ UNCHANGED <<faults, token, issued, expired, activeAgent, onboarded, route, owned, mine,
                 ensuring, chosen>>

LeaveConversation ==
  /\ route = "app" /\ page # {} /\ Move
  /\ page' = {}
  /\ ws' = Unsubscribe(ws, PageTopic)
  /\ UNCHANGED <<faults, token, issued, expired, activeAgent, onboarded, route, owned, mine,
                 ensuring, chosen>>

\* The logout buttons clear the store; AuthedLayout cleans up and unmounts.  The
\* query cache stays, and so does the session of Supabase.
Logout ==
  /\ route = "app" /\ Move
  /\ token' = None /\ activeAgent' = None /\ chosen' = None
  /\ route' = "login" /\ page' = {}
  /\ ws' = Disconnect(Unsubscribe(ws, ws.subs))
  /\ ensuring' = Cancelled
  /\ UNCHANGED <<faults, issued, expired, onboarded, owned, mine>>

\* The page is loaded again at the same URL: what is not in localStorage is lost.
Reload ==
  /\ Move
  /\ mine' = None
  /\ CASE route = "app" ->
            /\ ws' = Subscribe(Fresh, AgentTopic(activeAgent) \cup page)
            /\ ensuring' = {Call("app", token, FALSE)}
       [] route \in {"tutorial", "firstAgent"} ->
            ws' = Fresh /\ ensuring' = {Call("onboarding", token, FALSE)}
       [] OTHER -> ws' = Fresh /\ ensuring' = {}
  /\ UNCHANGED <<faults, token, issued, expired, activeAgent, onboarded, route, page, owned,
                 chosen>>

----------------------------------------------------------------------------

\* A token runs out: the developer's one day, those of Supabase in the order of issue.
Expire(t) ==
  /\ t \notin expired
  /\ t = DevToken \/ 1..(t - 1) \subseteq expired
  /\ expired' = expired \cup {t}
  /\ Fault
  /\ UNCHANGED <<ws, token, issued, activeAgent, onboarded, route, page, owned, mine,
                 ensuring, chosen, moves>>

Browser(s) == SocketOpens(s, expired) \/ SocketRefused(s, expired) \/ SocketClosed(s)

Timer == \E made \in BOOLEAN : TimerFires(token, made)
Stray == \E made \in BOOLEAN : StrayFires(token, made)

Answer ==
  \/ \E e \in ensuring, ok, made \in BOOLEAN : AppEnsured(e, ok, made)
  \/ \E e \in ensuring, ok \in BOOLEAN : OnboardingEnsured(e, ok)
  \/ \E e \in ensuring : CallbackEnsured(e)
  \/ MineLoads

SignIn ==
  \/ DevLogin
  \/ LoginWithGithub
  \/ \E t \in {issued, issued + 1}, signedIn, made \in BOOLEAN :
       CallbackSession(t, signedIn, made)
  \/ CallbackGivesUp
  \/ \E t \in {issued, issued + 1}, made \in BOOLEAN : SessionEvent(t, made)
  \/ FinishTutorial
  \/ FirstAgent

Use ==
  \/ \E a \in Agent : ChooseAgent(a)
  \/ CreateAgent \/ OpenConversation \/ LeaveConversation \/ Logout \/ Reload

Next ==
  \/ \E s \in Socket : (Browser(s) \/ SocketCut(s)) /\ UNCHANGED session
  \/ (Tick \/ Timer \/ Stray) /\ UNCHANGED session
  \/ Answer
  \/ SignIn
  \/ Use
  \/ \E t \in 0..issued : Expire(t)

Spec == Init /\ [][Next]_vars

\* The browser delivers the events of every socket and runs every timer, and every
\* request is answered.  Nobody has to click, and nothing has to fail.
Fairness ==
  /\ \A s \in Socket : WF_vars(Browser(s) /\ UNCHANGED session)
  /\ WF_vars(Tick /\ UNCHANGED session)
  /\ WF_vars(Timer /\ UNCHANGED session)
  /\ WF_vars(Answer)

FairSpec == Spec /\ Fairness

----------------------------------------------------------------------------
(* Properties                                                              *)

\* The topics of what is shown.
Screen == IF route = "app" THEN AgentTopic(activeAgent) \cup page ELSE {}

\* Whatever sockets came and went, the server has subscribed the open socket the
\* manager uses to what the screen shows and to nothing else: the matches of the
\* selected agent and the topics of the open conversation (client.ts:109-152).
ServerHearsTheScreen == Sendable(ws) => ws.sent[ws.ref] = Screen

\* "connecting" and "reconnecting" are never the last word: a timer runs, or a
\* socket has yet to open or to report its end (client.ts:258-277).
NeverStuck ==
  ws.status \in {"connecting", "reconnecting"} =>
    \/ ws.armed \/ ws.strays > 0
    \/ \E s \in Socket : ws.phase[s] \in {"connecting", "closing"}

\* The status is "open" only while a socket of this page is open or its end is
\* about to be reported, whichever socket it is (client.ts:142-152, 258-266).
OpenIsBacked ==
  ws.status = "open" => \E s \in Socket : ws.phase[s] \in {"open", "closing"}

\* Only a login, a logout and Supabase change the token of the store.  An answer, however
\* late, a timer or a socket never does: it brings back no older token, and after the
\* logout none at all (AuthedLayout.tsx:72-105).
NoTokenReturns ==
  [][token' # token =>
       /\ moves' # moves
       /\ \/ token' = None /\ route = "app" /\ route' = "login"
          \/ token' = DevToken /\ route = "login"
          \/ token' = issued' /\ issued' >= issued /\ issued' # 0]_vars

\* The agent the user picked stays selected through lists that load, answers that
\* write the session, new tokens and reloads, until the user signs in or out.
ChoiceStands == chosen # None => activeAgent = chosen

\* After a logout the manager never uses a socket that was opened as the user, also
\* if a forgotten timer connects again.
LoggedOutIsAnonymous ==
  token = None /\ ws.ref # None => ws.url[ws.ref] = None

\* Whatever sockets were refused, cut or replaced, with whatever tokens: who is signed in
\* with a token that holds has in the end a socket the manager can send on, if only at
\* the third heartbeat, or the manager has been told to close.  A token that has run out
\* is refused again and again until Supabase renews it (App.tsx:36-37).
Settles ==
  <>[](token # None /\ Holds(token) =>
         \/ ws.status = "open" /\ Sendable(ws)
         \/ ws.status \in {"closed", "idle"})

=============================================================================
