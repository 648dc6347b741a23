------------------------------ MODULE Profiles ------------------------------
(***************************************************************************)
(* The profile pages of the frontend: the Profile tab with the card of the *)
(* active agent and the form of a new one, the pages that show, edit and   *)
(* create an agent, their PATCH and POST requests, and the queries React   *)
(* Query keeps of the agents and of each profile.                          *)
(*                                                                         *)
(* A value of a field is the agent it was entered for and its version,     *)
(* version 0 being what the server puts where nothing was entered.  One    *)
(* action is one task of the browser or one step of the server.            *)
(***************************************************************************)
EXTENDS Integers

CONSTANTS
  Agent,     \* agents the user has or creates
  None,
  Versions,  \* bound: versions of a field
  MaxCalls,  \* bound: requests awaiting an answer
  MaxMoves   \* bound: clicks and entries in a behaviour

ASSUME AgentAssumption == None \notin Agent
ASSUME BoundsAssumption == Versions \in Nat /\ MaxCalls \in Nat /\ MaxMoves \in Nat

VARIABLES
  row,      \* the server: the profile of every agent that exists
  active,   \* the active agent of the auth store
  view,     \* the page and the agent its address names
  form,     \* what the open card or form holds, None if it is not mounted
  touched,  \* the user has entered something since it was filled
  modal,    \* the agent whose key CredentialModal shows, or None
  list,     \* the query ["agents", "mine"]
  profile,  \* for each agent, the query ["agents", a, "profile"]
  calls,    \* requests awaiting an answer
  untold,   \* queries that no answer has told of a change (None: the list)
  moves     \* clicks and entries so far

vars == <<row, active, view, form, touched, modal, list, profile, calls, untold, moves>>

\* bio and tags; auto-match and its task; the sliders of the interaction style
Field == {"text", "task", "style"}
Value == Agent \X (0..Versions)
Profile == [Field -> Value]
ASSUME NoProfileAssumption == None \notin Profile
View == [at : {"tab", "new", "edit", "detail", "create", "away"}, about : Agent \cup {None}]

\* A query: its data, whether that is fresh or an error hides it, its fetch and what
\* the server has put in the answer.
Query(V) == [data : V \cup {None}, fresh : BOOLEAN, error : BOOLEAN,
             fetch : {"none", "sent", "read"}, got : V \cup {None}]

\* A request: the form it came from, the fields it sends, the agent whose queries the
\* hook's onSuccess would tell, and whether its form is open and holds it, or is left,
\* or the page was loaded again.
Body == UNION {[fs -> Value] : fs \in SUBSET Field}
Call == [n : Nat, form : {"tab", "new", "edit", "create"}, agent : Agent \cup {None},
         body : Body, tells : Agent \cup {None}, here : {"form", "left", "gone"},
         state : {"sent", "done"}]

TypeOK ==
  /\ row \in [Agent -> Profile \cup {None}]
  /\ active \in Agent
  /\ view \in View
  /\ form \in Profile \cup {None}
  /\ touched \in BOOLEAN
  /\ modal \in Agent \cup {None}
  /\ list \in Query(SUBSET Agent)
  /\ profile \in [Agent -> Query(Profile)]
  /\ calls \subseteq Call
  /\ untold \subseteq Agent \cup {None}
  /\ moves \in 0..MaxMoves

Blank(a) == [f \in Field |-> <<a, 0>>]
Empty == [data |-> None, fresh |-> FALSE, error |-> FALSE, fetch |-> "none", got |-> None]

\* An observer mounts: fetch what is not fresh.
Mounted(q) == IF q.fresh \/ q.fetch # "none" THEN q ELSE [q EXCEPT !.fetch = "sent"]

Init ==
  /\ \E mine \in (SUBSET Agent) \ {{}} :
       row = [a \in Agent |-> IF a \in mine THEN Blank(a) ELSE None] /\ active \in mine
  /\ view = [at |-> "away", about |-> None]
  /\ form = None /\ touched = FALSE /\ modal = None
  /\ list = Mounted(Empty) /\ profile = [a \in Agent |-> Empty]
  /\ calls = {} /\ untold = {}
  /\ moves = 0

Exists == {a \in Agent : row[a] # None}

----------------------------------------------------------------------------
(* Queries and what is shown of them.                                      *)

\* QueryBoundary
Shown(q) == q.data # None /\ ~q.error

\* invalidateQueries: what is watched is fetched again, from the start if it has data.
Invalidated(q, watched) ==
  LET stale == [q EXCEPT !.fresh = FALSE]
  IN IF watched /\ q.data # None THEN [stale EXCEPT !.fetch = "sent", !.got = None]
     ELSE IF watched THEN Mounted(stale) ELSE stale

Read(q, truth) == [q EXCEPT !.fetch = "read", !.got = truth]
Arrived(q) == [data |-> q.got, fresh |-> TRUE, error |-> FALSE, fetch |-> "none", got |-> None]
Failed(q) == [q EXCEPT !.error = (q.data # None), !.fetch = "none", !.got = None]

\* The layout of all pages watches the list; the card asks for its profile once the list
\* is shown.
Watched(v, a, l) ==
  IF v.at = "tab" THEN (IF Shown(l) THEN {a} ELSE {})
  ELSE IF v.at \in {"edit", "detail"} THEN {v.about} ELSE {}

\* The profile an open card or form is filled from.
Source(v, a, l, p) ==
  LET of == IF v.at = "edit" THEN v.about ELSE a
  IN IF v.at \in {"tab", "edit"} /\ of \in Watched(v, a, l) /\ Shown(p[of]) THEN p[of].data ELSE None

Subject == IF view.at = "edit" THEN view.about ELSE active

Left(waiting) == {[c EXCEPT !.here = IF @ = "form" THEN "left" ELSE @] : c \in waiting}

\* a slip: a card or form is filled only as it mounts
FilledOnce(v, a, source) == source # None /\ (form = None \/ v # view)
\* a slip: a new value of the same profile goes unnoticed
FilledPerAgent(v, a, source) ==
  source # None /\ (form = None \/ v # view \/ (v.at = "tab" /\ a # active))
\* Editor fills itself again for another agent and for any other value, ProfileForm only
\* as it mounts.
Filled(v, a, source) ==
  /\ source # None
  /\ \/ form = None \/ v # view
     \/ v.at = "tab" /\ (a # active \/ source # Source(view, active, list, profile))

\* React renders page v with active agent a, list l and profiles p, of which those that
\* come to be watched are asked for.  A card that stays takes its pending request along
\* to the other agent (MutationObserver.setOptions); one that goes leaves it behind.
Render(v, a, l, p, waiting) ==
  LET source == Source(v, a, l, p)
      again(x) == x \in Watched(v, a, l) /\ (v # view \/ x \notin Watched(view, active, list))
  IN /\ view' = v /\ active' = a /\ list' = l
     /\ profile' = [x \in Agent |-> IF again(x) THEN Mounted(p[x]) ELSE p[x]]
     /\ form' = IF source = None THEN None ELSE IF Filled(v, a, source) THEN source ELSE form
     /\ touched' = (touched /\ source # None /\ ~Filled(v, a, source))
     /\ calls' =
          IF v # view \/ (v.at = "tab" /\ source = None) THEN Left(waiting)
          ELSE IF a # active /\ v.at = "tab"
            THEN {[c EXCEPT !.tells = IF c.here = "form" THEN a ELSE @] : c \in waiting}
          ELSE waiting

----------------------------------------------------------------------------
(* Fetches.                                                                *)

ListIsRead ==
  /\ list.fetch = "sent"
  /\ list' = Read(list, Exists) /\ untold' = untold \ {None}
  /\ UNCHANGED <<row, active, view, form, touched, modal, profile, calls, moves>>

ProfileIsRead(a) ==
  /\ profile[a].fetch = "sent" /\ row[a] # None
  /\ profile' = [profile EXCEPT ![a] = Read(@, row[a])] /\ untold' = untold \ {a}
  /\ UNCHANGED <<row, active, view, form, touched, modal, list, calls, moves>>

\* The answer arrives, the fetch and its retry fail, or thirty seconds pass.
After(q) ==
  {Arrived(x) : x \in {y \in {q} : y.fetch = "read"}}
    \cup {Failed(x) : x \in {y \in {q} : y.fetch # "none"}}
    \cup {[x EXCEPT !.fresh = FALSE] : x \in {y \in {q} : y.fresh}}

ListChanges ==
  /\ \E q \in After(list) : Render(view, active, q, profile, calls)
  /\ UNCHANGED <<row, modal, untold, moves>>

ProfileChanges(a) ==
  /\ \E q \in After(profile[a]) :
       Render(view, active, list, [profile EXCEPT ![a] = q], calls)
  /\ UNCHANGED <<row, modal, untold, moves>>

----------------------------------------------------------------------------
(* Moving between pages.                                                   *)

Move == moves < MaxMoves /\ moves' = moves + 1

Page(p) == [at |-> p, about |-> None]

\* The pages with a TopBar, which asks for the list as it mounts; the tab and its new
\* form are one page, "away" the feed or another with a TopBar.
HasTopBar(v) == v.at \in {"tab", "new", "away"}
Asked(v, l) ==
  IF HasTopBar(v) /\ ~({view.at, v.at} \subseteq {"tab", "new"}) THEN Mounted(l) ELSE l
Open(v, a, l, waiting) == Render(v, a, Asked(v, l), profile, waiting)

\* The bottom navigation, "Add profile" of TopBar, the cross of the new form.
Go(p) ==
  /\ Move /\ modal = None /\ view.at # p
  /\ p = "new" => HasTopBar(view)
  /\ Open(Page(p), active, list, calls)
  /\ UNCHANGED <<row, modal, untold>>

\* TopBar's menu; on the tab it closes the new form.
Choose(a) ==
  /\ Move /\ HasTopBar(view) /\ list.data # None /\ a \in list.data
  /\ IF view.at = "new" THEN Open(Page("tab"), a, list, calls)
     ELSE Render(view, a, list, profile, calls)
  /\ UNCHANGED <<row, modal, untold>>

\* "Edit" of the page of an agent
EditIt ==
  /\ Move /\ view.at = "detail" /\ Shown(profile[view.about])
  /\ Open([view EXCEPT !.at = "edit"], active, list, calls)
  /\ UNCHANGED <<row, modal, untold>>

\* An address is typed: nothing but the auth store survives, and the layout asks for the
\* list.
Load(v) ==
  /\ Move
  /\ view' = v /\ form' = None /\ touched' = FALSE /\ modal' = None
  /\ list' = Mounted(Empty)
  /\ profile' = [a \in Agent |-> IF a = v.about THEN Mounted(Empty) ELSE Empty]
  /\ calls' = {[c EXCEPT !.here = "gone"] : c \in calls}
  /\ UNCHANGED <<row, active, untold>>

\* "I've saved it"
KeySaved ==
  /\ modal # None
  /\ modal' = None
  /\ Open(Page("tab"), active, list, calls)
  /\ UNCHANGED <<row, untold, moves>>

----------------------------------------------------------------------------
(* Entries and requests.                                                   *)

Pending == \E c \in calls : c.here = "form"

\* Numbers for a request, bounded by MaxCalls; only the model has them.
Unused == {k \in 1..MaxCalls : \A c \in calls : c.n # k}

\* mutate(): the callbacks of an earlier call of the form are forgotten.
Send(a, body) ==
  /\ Unused # {}
  /\ calls' = Left(calls) \cup
       {[n |-> CHOOSE k \in Unused : TRUE, form |-> view.at, agent |-> a, body |-> body,
         tells |-> a, here |-> "form", state |-> "sent"]}

Sent(fs, values) == [f \in fs |-> values[f]]

Enter(f, v) ==
  /\ Move /\ form # None /\ (view.at = "edit" => f # "task")
  /\ form' = [form EXCEPT ![f] = <<Subject, v>>] /\ touched' = TRUE
  /\ UNCHANGED <<row, active, view, modal, list, profile, calls, untold>>

\* Save, or leaving the bio, which does not ask whether one is pending: not the sliders.
SaveCard ==
  /\ Move /\ view.at = "tab" /\ form # None
  /\ Send(active, Sent({"text", "task"}, form))
  /\ UNCHANGED <<row, active, view, form, touched, modal, list, profile, untold>>

\* toggleTag
ToggleTag(v) ==
  /\ Move /\ view.at = "tab" /\ form # None
  /\ form' = [form EXCEPT !["text"] = <<active, v>>] /\ touched' = TRUE
  /\ Send(active, Sent({"text"}, form'))
  /\ UNCHANGED <<row, active, view, modal, list, profile, untold>>

\* Done of the edit page: not the task.
SubmitEdit ==
  /\ Move /\ view.at = "edit" /\ form # None /\ ~Pending
  /\ Send(view.about, Sent({"text", "style"}, form))
  /\ UNCHANGED <<row, active, view, form, touched, modal, list, profile, untold>>

SubmitNew ==
  /\ Move /\ view.at \in {"new", "create"} /\ ~Pending /\ modal = None
  /\ Send(None, [f \in {} |-> None])
  /\ UNCHANGED <<row, active, view, form, touched, modal, list, profile, untold>>

----------------------------------------------------------------------------
(* The server.                                                             *)

\* a slip: the row becomes what was sent
PatchedWhole(a, body) == [f \in DOMAIN body \cup {"style"} |-> IF f \in DOMAIN body THEN body[f] ELSE <<a, 0>>]
\* PATCH /agents/{a}: what is not sent stays, except the style, which goes with the bio
\* (_personality_to_db).
Patched(a, body) ==
  [f \in Field |-> IF f \in DOMAIN body THEN body[f]
                   ELSE IF f = "style" THEN <<a, 0>> ELSE row[a][f]]

Serve(c) ==
  /\ c \in calls /\ c.state = "sent"
  /\ \/ /\ c.form \in {"tab", "edit"}
        /\ row' = [row EXCEPT ![c.agent] = Patched(c.agent, c.body)]
        /\ calls' = (calls \ {c}) \cup {[c EXCEPT !.state = "done"]}
     \/ /\ c.form \in {"new", "create"}
        /\ \E a \in Agent \ Exists :
             /\ row' = [row EXCEPT ![a] = Blank(a)]
             /\ calls' = (calls \ {c}) \cup {[c EXCEPT !.state = "done", !.agent = a]}
  /\ UNCHANGED <<active, view, form, touched, modal, list, profile, untold, moves>>

----------------------------------------------------------------------------
(* Answers.                                                                *)

\* What the request changed: a profile, or the list.
Changed(c) == IF c.form \in {"tab", "edit"} THEN c.agent ELSE None

\* a slip: an update tells the list only
ToldOfList(c, ok) == IF ~ok \/ c.here = "gone" THEN {} ELSE {None}
\* The queries the hook's onSuccess tells: an update the list as well.
Told(c, ok) ==
  IF ~ok \/ c.here = "gone" THEN {}
  ELSE IF c.form \in {"tab", "edit"} THEN {c.tells, None} ELSE {None}

\* The answer came, and told the agent that was changed.
Heard(c, ok) == ok /\ c.here # "gone" /\ (c.form \in {"tab", "edit"} => c.tells = c.agent)

\* An answer read before the change is on its way, and is not fetched again: nobody
\* watches the query, or it has no data yet.
Overtaken(q, watched) == q.fetch = "read" /\ ~(watched /\ q.data # None)

WatchedNow(k) == k = None \/ k \in Watched(view, active, list)
QueryOf(k) == IF k = None THEN list ELSE profile[k]

\* Where an answer leaves the user: the new form closes, the edit page goes back to the
\* page of its agent.
ViewAfter(c, ok) ==
  IF ok /\ c.here = "form" /\ c.form = "new" THEN Page("tab")
  ELSE IF ok /\ c.here = "form" /\ c.form = "edit" THEN [at |-> "detail", about |-> c.agent]
  ELSE view

\* a slip: the key of whatever was created is shown on whatever page
KeyAnywhere(c, ok) == IF ok /\ c.form = "create" /\ c.here # "gone" THEN c.agent ELSE modal
\* CredentialModal opens on the page that created the agent.
KeyAfter(c, ok) == IF ok /\ c.form = "create" /\ c.here = "form" THEN c.agent ELSE modal

Answer(c, ok) ==
  /\ c \in calls /\ (ok => c.state = "done")
  /\ LET told == Told(c, ok)
         l == IF None \in told THEN Invalidated(list, WatchedNow(None)) ELSE list
         p == [a \in Agent |-> IF a \in told THEN Invalidated(profile[a], WatchedNow(a))
                               ELSE profile[a]]
         v == ViewAfter(c, ok)
     IN /\ Render(v, active, IF v # view THEN Asked(v, l) ELSE l, p, calls \ {c})
        /\ untold' = untold \cup
             {k \in {Changed(c)} : c.state = "done" /\
                (~Heard(c, ok) \/ Overtaken(QueryOf(k), WatchedNow(k)))}
  /\ modal' = KeyAfter(c, ok)
  /\ UNCHANGED <<row, moves>>

----------------------------------------------------------------------------

Fetch ==
  \/ ListIsRead \/ ListChanges
  \/ \E a \in Agent : ProfileIsRead(a) \/ ProfileChanges(a)

Navigate ==
  \/ \E p \in {"tab", "new", "away"} : Go(p)
  \/ \E a \in Agent : Choose(a)
  \/ EditIt \/ KeySaved
  \/ \E p \in {"edit", "detail"}, a \in Exists : Load([at |-> p, about |-> a])
  \/ Load(Page("create"))

Press ==
  \/ \E v \in 1..Versions : ToggleTag(v) \/ \E f \in Field : Enter(f, v)
  \/ SaveCard \/ SubmitEdit \/ SubmitNew

Settle == \E c \in calls : \E ok \in BOOLEAN : Answer(c, ok)

Next ==
  \/ Fetch
  \/ Navigate
  \/ Press
  \/ \E c \in calls : Serve(c)
  \/ Settle

Spec == Init /\ [][Next]_vars

----------------------------------------------------------------------------
(* Properties                                                              *)

Of(a, values) == \A f \in DOMAIN values : values[f][1] = a

\* However the cards of two agents take turns on the tab, and whichever requests and
\* fetches are still on their way, what was entered for one agent reaches no other: not
\* its row, its query, its card, nor a request to it.
EditsStayHome ==
  /\ \A a \in Agent : row[a] # None => Of(a, row[a])
  /\ \A a \in Agent : profile[a].data # None => Of(a, profile[a].data)
  /\ form # None => Of(Subject, form)
  /\ \A c \in calls : c.form \in {"tab", "edit"} => Of(c.agent, c.body)

\* A query that counts as fresh has what the server has, unless an answer that would
\* have told it is still to come, failed, or told the query of another agent, or an
\* older fetch overtook it.
FreshIsTrue ==
  /\ \A a \in Agent :
       profile[a].fresh /\ a \notin untold /\ (\A c \in calls : c.state = "done" => Changed(c) # a)
         => profile[a].data = row[a]
  /\ list.fresh /\ None \notin untold /\ (\A c \in calls : c.state = "done" => Changed(c) # None)
       => list.data = Exists

\* The card of the tab shows the profile its query has until the user enters something:
\* after every fetch and every change of the agent.
CardShowsProfile ==
  view.at = "tab" /\ form # None /\ ~touched => form = profile[active].data

\* Only the answer to the form that is open closes it, leaves it or shows a key.
AnswersStayOnForm ==
  [][moves' = moves /\ (view' # view \/ (modal' # modal /\ modal' # None)) =>
       modal # None \/ \E c \in calls \ calls' : c.form = view.at /\ c.here = "form"]_vars

=============================================================================
