# Agentinder in TLA+

Agentinder matches software agents the way a dating service matches people: owners
(principals) let their agents swipe, matched agents go on a *date* (a conversation
generated by an LLM), dates are rated, ratings become trust and relationship tiers.
This directory models the backend that does it (`src/backend/app`, with the domain
models of `src/models` and the schema of `src/db`) and the frontend through which
owners use it (`src/frontend/src`), checks the models with TLC and proves their
invariants with TLAPS.

## Inventory

The backend is one asyncio process. Handlers (HTTP), WebSocket commands and background
tasks run on one event loop and interleave at every `await`; almost every await is one
SQL statement on a pooled connection with its own transaction. State is kept in
PostgreSQL, in module-level dictionaries and singletons (`deps.py`), and in tasks. A
restart loses everything but the tables.

The frontend is a React application in one browser tab. JavaScript is single-threaded:
clicks, timers, socket events and answers are tasks that run to their end, with the
React effects they cause, and interleave only between tasks. State is kept in stores
(part of it in `localStorage`), in the components of the page that is open, in the
WebSocket manager and in the query cache of TanStack Query, which outlives the pages.

| Component | State | Operations | Hard part | What makes it correct |
|---|---|---|---|---|
| Date lifecycle (`handlers/date_handler.py`) | `dates`, `messages`; `_pending_starts`, `_pending_joins`; the conversation task | propose (first and second press), join, end, converse | presses that race over two awaits; a date ended while a reply is generated; restart | one conversation per date, silence after the end, budget, truthful and complete announcements |
| Reputation (`models/score/score_manager.py`, rating branch of `end_date`) | trust points, trust cache, relationship records (memory); `ratings`, `relationships`, `trust_scores` | rate, record, upgrade, persist | memory first and tables later; upserts that overtake each other; memory lost on restart | tier follows dates, rows are consistent readings, a rating counts once, no tier is lost |
| Matching (`feed_handler.py` swipe, `services/matching_service_impl.py`, `match_handler.py`) | `swipes`, `matches` | swipe, automatic match, AI match, launch a session, approve, reject | simultaneous mutual swipes; three creators of one match | one match, one announcement, one session; mutual swipes find each other; decisions stand |
| Automatic date session (`auto_match_handler.py`, `models/date/date_session.py`) | the session in a worker thread; semaphore | handshake, converse, rate, persist | a thread beside the event loop on one ScoreManager; five statements without a transaction | outcome, rows and memory agree; every started date ends |
| Event bus and gateway (`event_bus.py`, `ws_gateway.py`, `ws_transport.py`) | subscribers; topics and connections | publish, push, subscribe, connect, disconnect, dispatch | one task per event; slow and dead sockets | no push to a socket that left, order per date, nothing lost for a live subscriber |
| Messages (`message_handler.py`) | `messages` | send and answer, list | failure between message and answer | both stored or an error; what is published |
| Feed and discover (`feed_handler.py`) | none of its own | list, filter, paginate | a cursor while swipes go on | every visible agent appears, none twice |
| Principals and agents (`deps.py`, `principal_handler.py`, `agent_profile_handler.py`, `agent_service.py`) | `_principal_cache`, AgentService; the tables | load, create, update | cache filled across awaits; memory and table updated in turn | one object per principal, memory agrees with the table |
| LLM client (`models/llm`) | anchor, turn counter | generate, check for drift | retries, the turns of anchor and check | the anchor is present where the code promises it |
| Frontend session and WebSocket client (`api/ws/client.ts`, `App.tsx`, `store/auth.ts`, the layouts, login and onboarding) | the manager with its socket, timers and topics; token, active agent; route | sign in and out, onboard, choose an agent, connect, disconnect, subscribe, heartbeat, reconnect, reload | events of a replaced socket; two reconnects at once; answers and tokens that arrive after a logout | the server has subscribed what is shown; the connection settles; no old token returns |
| Frontend dating pages (`features/feed`, `discover`, `matches`, `conversation`, `date-live`, `date-history`) | the page and what the router handed it; the match modal; lists of matches per agent | swipe, start, end and rate a date, move between pages | lists that are older than what they show; answers for a page that was left | the right agent and an ended date are rated; answers move only their page |
| Frontend profile pages (`features/agents`, `api/endpoints/agents.ts`) | the open form; queries of the agents and profiles | edit, save, create, switch the agent | edits, saves and fetches of two agents on their way at once | edits reach their own agent; fresh queries are true |
| Frontend REST client and query cache (`api/client.ts`, TanStack Query) | queries, mutations | request, retry, invalidate | invalidation that meets a fetch on its way | part of the three rows above |
| Settings, relationship and analytics pages; authentication and error mapping; read-only handlers; startup; test engine and scripts | little or none | – | – | not modelled, see below |

Interactions: handlers call the database and publish to the bus; the bus calls the
gateway; the gateway pushes to sockets of the frontend client; the socket's commands
call the date and message handlers; matching launches automatic sessions; sessions and
`end_date` share the one `ScoreManager`, whose trust feeds the handshake, the feed and
the AI match. In the browser the answers of requests invalidate queries, queries fill
the pages, the active agent of the auth store decides which queries and topics are
wanted, and `AuthedLayout` connects the socket when the session has been confirmed.

## Modules

| Module | What it is |
|---|---|
| `DateLifecycle` | `propose_date`, `handle_join_date`, `end_date`, `_run_conversation_loop` |
| `DateLifecycle_proofs` | its inductive invariant and the theorems |
| `Reputation` | the rating branch of `end_date`, `ScoreManager`, the tables behind it |
| `Reputation_proofs` | its inductive invariant and the theorems |
| `Matching` | `swipe`, `runAsyncMatch`, `runAiMatch`, `_launch_date_session`, approve and reject |
| `Introduction` | the abstract specification of how two agents come together |
| `Matching_proofs` | the inductive invariant of `Matching`, that it implements `Introduction`, and the theorems |
| `Conversation` | the abstract specification of a date |
| `Conversation_proofs` | that `DateLifecycle` implements it |
| `WsClient` | the WebSocket manager of the frontend and its sockets |
| `App` | the session around it: login, onboarding, layouts, logout, reload (extends `WsClient`) |
| `App_proofs` | their inductive invariant and the theorems |
| `Pages` | swiping, matches, dates and ratings in the browser, over what it sees of the server |
| `Pages_proofs` | its inductive invariant and the theorems |
| `Profiles` | the profile card, the forms and the queries of the agents |
| `Profiles_proofs` | its inductive invariant and the theorems |
| `MCDate`, `MCReputation`, `MCMatching`, `MCApp`, `MCPages`, `MCProfiles` | the instances TLC checks, with the `.cfg` files |

Definitions marked "a slip" are variants of their neighbours that no specification
uses: each is a mistake one could make in that code, and breaks a property.

**Granularity.** In the backend one action is the code from one await to the next *and* the statement
the segment ends in. Read-only statements whose result only serves existence or
ownership checks are guards: the models take requests that pass them. In `Reputation`
the capture of a statement's arguments and its execution are separate actions, because
there the order of execution is what the properties are about. Requests in progress
live in `rq`, one slot each, with the await they are at; a handler's local variables
are fields of the slot. In the frontend one action is one task of the browser with all
the effects it causes, or one step of the server or of somebody else.

**Failures.** `HandlerFails` ends a request at any await (an exception of the database,
the LLM or a validation; whatever was done stays done), `LoopFails` does so for the
conversation task, and `Restart` empties everything that lives in memory. `MaxFaults`
bounds them. In the frontend every request and fetch may fail, a connection may be cut
and the WebSocket constructor may throw, and the page may be loaded again.

### DateLifecycle

`dates` is the table (the match, whether `started_at` and `ended_at` are set, the
outcome); `said` the senders of the messages the conversation stored; `pending` and
`joins` the dictionaries `_pending_starts` and `_pending_joins`; `active` the agents'
`_active_date_ids`; `loop` the conversation task. `ProposeFirst`/`AwaitSecond` and
`ProposeSecond`/`StartConversation` are the two branches of `propose_date`, split at
the awaits that matter: the check of `_pending_starts` happens in `ProposeFirst`, the
write in `AwaitSecond`, so two first presses can overlap as they can in the code.
`SendFirst`, `CheckDate`, `Reply`, `AutoEnd` and `AnnounceAutoEnd` are the task.
`published` and `late` are history variables: the events given to the bus, and how many
messages were stored after the end. The text of messages, `scheduled_at` and `type`,
and the date counter of `Agent.leaveDate` (never written to a table) are left out. The
outcome `"limit"` stands for the task's own `"completed"`, kept apart from the outcomes
users send.

### Conversation

What the component promises about a date, without requests, dictionaries or tasks:
facts (`proposed`, `started`, `ended`) are only ever added to its row, only committed
facts are announced, there is at most one conversation, it begins after the start is
committed, keeps the budget of `MAX_MESSAGES`, says at most one thing after the end and
stops. `DateLifecycle` instantiates it as `Promise`: `facts` is read off the columns of
the row (`Facts`), `heard` off the published events, `talk` off the conversation task
(`Talk`), `count` is the number of stored messages, and `late` is the history variable
of the same name. A failed await of the task and a restart of the process map to
`Silence`, of one conversation or of all that are going on.

### Reputation

One pair of agents. `points`, `trust` and `rel` are `_trust_data`, `_trust_cache` and
the pair's `RelationshipRecord`; `ratings`, `relRow` and `trustRow` the tables.
`Rate` is everything `end_date` does in memory before the rating's INSERT; `StoreRating`
the INSERT and the second `checkUpgrade`, with the values captured for
`upsert_relationship`; `StoreRelation`, `ReadTrust` and `StoreTrust` the rest. Averages
are kept as exact sums (`avg_rating` is stars / (5 n), the composite counts units of
1/(50 n)); no threshold lies within rounding of a reachable value. Frozen relationships
are left out because nothing in the backend freezes one. The trigger that copies the
composite to `agent_profiles.trust_score` (`002_team_b.sql:262-278`) follows
`trustRow` and has no variable.

### Matching

`swipes` and `matches` are the tables (`up` counts as `right`: no code tells them
apart); `announced` and `sessions` are history. `Swipe`, `LookUp`, `MakeMatch` and
`Announce` are the handler of a swipe; `Scan`, `Pick`, `MakeMatch`, `Announce`,
`LaunchRow` and `LaunchTask` the automatic engine, whether the background loop or a
request drives it: the loop takes agents with `auto_match`, a request
(`/{agent_id}/auto-match/run`) any agent of its caller, and the engine asks for
`auto_match` of the partner only; `AiMatch` enters the same path with any candidate as the best, since
compatibility is not part of the model. Agents belong to different principals, and
`auto_match` is a constant. `runSelectMatch` has no caller and is left out, and so is
what a launched session does.

### Introduction

What the backend promises about two agents, without requests: what one said of the other
stands (`Judge`), they are matched only for a reason and only once (`Meet`), told of it
once (`Tell`), given one session at most and only after that (`Date`), and nothing about
their match changes but the verdict of an owner (`Decide`). The `Reason` is what the code
lets count: the target has been dealt with by the agent that matches, and it wants that
agent, or is open to the engine, or the owner of that agent asked for an AI match. `Matching` instantiates it as
`Introductions`: `view` is the table `swipes`, `verdict` the status in `matches`, `told`
and `dated` the history variables. That the agent that matches has itself swiped right is
not promised, and is what `match_mutual` shows.

### WsClient and App

`ws` is the one manager object of `client.ts` together with the sockets it has
constructed. Since a caller may run several methods in one task (`disconnect` then
`connect` on a new token), methods are operators from the manager's state to its next
state, and what the browser calls are actions. A socket keeps its listeners after it
was closed or replaced, so the close event of *any* socket runs `HandleClose`, as in
the code, which does not compare it with the current one. `armed` is the reconnect
timer whose handle the manager holds, `strays` counts the timers whose handle was
overwritten; `sent` is what the server has subscribed on each socket. The attempt
counter and its delays are reduced to whether there was an attempt. `url` is the token in
the URL of a socket: the server accepts the socket if it holds (`Accepted`, after
`on_connect` of `ws_gateway.py`), and closes it before it has opened if there is none or it
has run out, so the manager can be refused any number of times.

`App` adds the auth store (`token`, `activeAgent`), `localStorage` (`onboarded`), the
router, the topics of the open page, the query of the user's agents, and the calls of
`ensurePrincipal` whose answer is awaited, each with the token its effect closed over
and whether the effect was cancelled. Tokens are numbered in the order Supabase issues
them; 0 is the token of the developer's login. A token may run out at any moment
(`Expire`): a socket that was accepted with it stays open, new ones and requests are
refused until Supabase renews it. A socket's record is used again once its
close event has come.

### Pages

The server is what the pages see of it: rows of matches, dates and ratings, changed by
the user's requests and by everybody else (`Elsewhere`). `screen` is the open page with
the state the router handed it, `list` the query `["matches", agent, "active"]` of each
agent, in four parts TanStack Query keeps: data, freshness, error and fetch. A fetch is
sent, read by the server and answered in three steps. `calls` are requests in progress:
`here` says which of their callbacks will still run, those given to `mutate()`, the
hook's only, or none after the page was loaded again. `Open` is a change of page with
everything that unmounts. The browser's Back is not an action: it leads to pages that
`Go` and the cards lead to as well. Only a typed address reaches the live page.

### Profiles

A field's value is the agent it was entered for and a version, so a value that strays to
another agent is visible. `row` is the table; `list` and `profile` the queries of the
agents and of each profile; `form` what the open card or form holds, with `touched` if
the user has entered something since it was filled. The list is watched on every page,
because `AuthedLayout` around them calls `useMyAgents`; a `TopBar` that mounts asks for it
again (`Asked`). `Render` is React rendering a page
from an agent and the queries: which queries are watched and asked for, whether the
card is filled again, and what happens to the pending requests: a card that stays hands
the callbacks of its pending request to the other agent, since `useUpdateAgent(agentId)`
closes over the new one. `Patched` is the update of the row: the style goes with the
bio, as `_personality_to_db` writes the whole column. `untold` records which queries
were changed without being told, for one of the reasons `FreshIsTrue` names.

## Runs

| Run | Shows | Bounds |
|---|---|---|
| `date_safety` | `TypeOK`, `AtMostOneLateMessage`, `WithinBudget`, `AnnouncedIsCommitted`, `WaitingIsSilent`, `SpeakersTakeTurns`, `KeepsPromise` (the refinement), `ConversationEnds`, `EndIsAnnounced` hold | 2 matches, 2 dates, 2 overlapping requests, 4 requests, 1 fault, 3 messages |
| `rating_safety` | `TypeOK`, `TierFollowsDates`, `BadgeWriteUnreachable`, `RowIsOneReading`, `NewAgentHasNoComposite`, `RatingIsStored` hold | 2 dates, 2 overlapping requests, 4 ratings of 2 or 5 stars, 1 fault, trust from 2 points |
| `match_safety` | `TypeOK`, `MatchCreatedOnce`, `KeepsIntroduction` (the refinement), `MutualSwipesMatch`, `MatchIsAnnounced` hold | 3 agents, one of them with `auto_match` and an owner who asks for AI matches, the engine run for any of them, 3 overlapping requests, 3 requests, 1 fault |
| `date_turns` | `SpeakersAlternate` is violated | two presses |
| `date_both_press` | `BothSidesPressed` is violated | two presses |
| `rating_twice` | `RatingCountedOnce` is violated | one rating sent twice |
| `rating_partner` | `TrustedPartnerReached` is violated | ten ratings of five stars |
| `rating_downgrade` | `StoredTierNeverDrops` is violated | one restart |
| `match_mutual` | `MatchIsMutual` is violated | three swipes |
| `app_session` | `TypeOK`, `ServerHearsTheScreen`, `NeverStuck`, `OpenIsBacked`, `NoTokenReturns`, `ChoiceStands`, `LoggedOutIsAnonymous`, `Settles` hold | 3 sockets alive at once, at most 2 agents, 3 clicks, reloads or session events, 1 fault (a connection cut, a constructor that throws, a token that runs out), heartbeat limit 2 |
| `pages` | `TypeOK`, `NamesThePartner`, `RatesOnlyEnded`, `MatchExists`, `DoneMeansRated`, `AnswersStayHome`, `DoneLeaves` hold | 2 agents of the user, 1 of somebody else, 1 date of a match, 2 requests at once, 4 clicks |
| `forms` | `TypeOK`, `EditsStayHome`, `FreshIsTrue`, `CardShowsProfile`, `AnswersStayOnForm` hold | 2 agents (symmetric), 1 version besides the server's, 2 requests at once, 5 clicks or entries |

The bounds let every interesting case happen: two dates of one match exist at once when
two first presses overlap, two requests are enough for one to act inside another's
await, four ratings cross two tier thresholds and the trust threshold, three slots let a
swipe, the engine and an AI match meet on one pair, and two of the agents are open to no
service, so that the engine runs for agents it would not pick. With three messages a conversation
has a first message, a reply with the check before it, and the limit. In the browser
three sockets are a current one, one whose close event is late and one more of a timer
nobody could clear; three session events and one fault are enough to have all of them;
two agents of the user are enough for a list, a card or an answer to be about the other
one, and two requests for an answer to come when the next is already sent. Four clicks
go from a swipe to a rating and five from an entry over a switch of the agent to a save
and back. Deadlock checking is off: the system rests when nobody sends a request.

**Fairness.** The event loop resumes each handler and task whose await is over, so the
continuation of every request slot and of every conversation task is weakly fair. Users
and faults are not. The liveness properties are conditional on that: `EndIsAnnounced`,
`RatingIsStored`, `MutualSwipesMatch` and `MatchIsAnnounced` also exclude behaviours with
a failure, in which the code does lose the announcement or the row: they say that every
path without one arrives, not what becomes of a failure. The browser delivers the events
of every socket, runs the heartbeat and the reconnect timer, and settles every request
with an answer or an error: this is what `App` (`Fairness`) and `Pages` (`WF(Settle)`)
assume. Nobody has to click, a cut connection is not fair, a token need not run out, and a
timer whose handle was lost is not assumed to fire either. `Settles` is then a statement
about the code: after finitely many faults, and as long as the token holds, the manager
ends with an open socket it refers to, by way of the heartbeat where an old close event
has taken the reference from it, or has been told to close. With a token that has run out
nothing is promised: the manager is refused and tries again until Supabase renews the
token, which is a session event and not fair.

### Where the code and its documents differ

* **Turn order** (`date_turns`). The comment at `date_handler.py:144-145` wants initiator,
  second, initiator, ...; the index of the next speaker starts at 1 in a list that is
  already rotated, so the initiator speaks twice.
* **Both sides** (`date_both_press`). The comment at `date_handler.py:26` wants both sides
  to press; any second press starts the conversation.
* **One rating per date** (`rating_twice`). The table refuses the repetition, the memory
  has counted it.
* **The last tier** (`rating_partner`). The mean compared with 4.0 is on a scale of 0 to 1.
* **No downgrade** (`rating_downgrade`). Memory is empty after a restart and overwrites
  the table.
* **Mutual swipes** (`match_mutual`). A first LEFT stays in the table, a later RIGHT of the
  same agent is dropped but still creates the match.

Seen while modelling, and not a run of their own (they are about texts, or about what no
document promises):

* The repository's `README.md:250` speaks of a heartbeat of 30 seconds and a backoff to 30 seconds; it
  does not say that a close event of an old socket costs one more reconnect.
* `ConversationPage.tsx:52` wants to go to the result page on `date_ended`; the page tests
  `event`, while `adaptIncoming` has renamed it to `kind`, so it never goes there.
* `feed.ts:46` wants the list of matches refreshed at once after a match; a fetch that is
  already on its way for an unwatched list is not repeated, and its older answer counts
  as fresh for 30 seconds. `useEndDate` does not invalidate the list at all. So a card may
  say "Start date" for a date that runs.
* The logout clears the store but does not sign out of Supabase, so its next event
  (`TOKEN_REFRESHED`) puts a token back (`SessionEvent`): `NoTokenReturns` is about
  everything but that.
* The manager may be left `closed` in the app while a user is signed in with a token that
  holds, which is why `Settles` allows it: after the close event of an old socket has
  taken the manager's reference, the late `open` of the socket it has lost may set the
  status `open` between the cleanup of a token effect (`disconnect`) and the `connect` at
  its end, which then does nothing; the close event that follows finds
  `intentionalClose` set. The next new token or page load connects again.
* The gateway pushes `new_match` to the topic of the principal, while `AuthedLayout`
  subscribes `matches.{agentId}`, so the push never reaches it, although the comment at
  `client.ts:234` counts on it; `ServerHearsTheScreen` is
  about the subscriptions a client asks for, not about what is pushed.
* `CredentialModal.tsx:6-9` promises the key of a new agent exactly once; `NewAgentForm`,
  the form of the Profile tab, discards it.
* "Save" of `ProfileEditCard` sends no style, and the backend writes the whole style with
  the bio: the sliders go back to their default (`Patched`).
* Typed and unsaved edits of the card are lost when a fetch brings another value
  (`Filled`), and an update whose card has moved to the other agent tells the wrong query
  (`Heard`): these are the exceptions `CardShowsProfile` and `FreshIsTrue` spell out.

## Proofs

The theorems hold for all values of the constants that satisfy the named assumptions of
the modules: any number of matches, dates, agents, requests at once, requests sent and failures, and
any `MAX_MESSAGES` of at least two.

`DateLifecycle_proofs` proves `TypeCorrect`, `LateMessageBound`, `BudgetKept`,
`AnnouncementsAreTrue`, `WaitingSilence`, `SingleConversation` and `TurnsAreTaken`. None
of these is inductive alone. `IInv` adds what ties the pieces together: which dates a
request or a pending entry may hold and that no two of them hold the same waiting date,
that a date without a task has no messages, what the position of the task says about the
number of messages and about late ones. The argument for `SingleConversation`, for
example, is that a task is created only by a request that took the pending entry of the
date, that the entry is unique, and that a date with a task is never pending again.
`TurnsAreTaken` needs one more invariant, `TurnInv`: a task that is past the first message
has stored one, so that the index it computes is that of the next message. `FirstSpeaksTwice` is its consequence, and the law
behind `date_turns`: the first two messages of *every* conversation are of one agent, and
from then on its two agents alternate.

`Reputation_proofs` proves `TypeCorrect`, `TierIsFunctionOfDates`, `BadgeWriteIsDead`,
`RowsAreReadings` and `NullForNewAgents`. Here the strengthening says that what a request
has captured is itself a consistent reading: the row it carries satisfies the relation
between tier and dates, and its trust reading agrees on the threshold. So it does not
matter in which order the upserts run. That the second `checkUpgrade` never reports a
tier follows because the first one has already brought the tier to the function of the
dates, and every other request leaves it there. `ThresholdAssumption` says that the
thresholds are in order. The findings are given their reason: `PartnerUnreachable` (no
number of dates with whatever stars reaches the last tier, in memory or in the table,
because of the bound on the stars of a record that is part of the strengthening);
`TiersClimb` (in memory a tier drops only at a restart) and `DropsNeedOverlap` (with one
request at a time the stored tier does not drop before the first failure or restart), so
that what `rating_downgrade` shows is the work of a restart, and what else can lower a row
is two ratings that overlap. `TablesKeepUp` and `RowsAreNeverAhead` say how far tables and
memory may be apart: with one request at a time they agree whenever no rating is in
progress, and with any number no row is ahead. `OneAtATime`, the hypothesis of two of
these, is that the set `Request` of slots has at most one element.

`Matching_proofs` proves `TypeCorrect`, `OneMatchOneSession` and `DecisionsStand`. The
strengthening gives a match an owner: the one request between the row it created and the
session it launches. No two requests own the same pair, because the row is created only
where there is none and an owner's row exists; and the owner's position says how often
the pair has been announced and launched. `Refinement` proves `Spec => KeepsIntroduction`,
each action of the handlers being a step of `Introduction` or a stutter; it needs in
addition what each request has read: that the agent it works for has dealt with the
target, and where the reason it found lies (swipes never change, so a reason that was
found stays one). `MatchNeedsSwipes` follows from the abstract specification alone: an
agent is matched with one it never dealt with only if it has `auto_match` or the other's
owner asked for an AI match (what the comment at `matching_service_impl.py:52` wants of
the engine, and the AI match does not ask), and where neither applies to two agents, their
match has swipes of both and a right one of either.

`Conversation_proofs` proves `Refinement`, `Spec => KeepsPromise`: every step of
`DateLifecycle` is a step of `Conversation` or changes nothing of it, for any number of
matches, dates, requests and failures. The argument needs the inductive invariant of
`DateLifecycle_proofs` and one more conjunct (`BlankInv`: a date that was not proposed
is neither started nor ended), since for instance a `Commit` of anything but the proposal
must find a proposed date, and a conversation that is begun must find a silent one.

`App_proofs` proves `TypeCorrect`, `HearsTheScreen`, `NotStuck`, `OpenIsReal`,
`TokenIsCurrent`, `ChoiceIsKept` and `LogoutIsFinal`. The strengthening of the manager
(`Ok`, with `WsOk`) says that a socket has subscriptions only once it has opened, that the
open socket it refers to has subscribed exactly the manager's topics, that these are the
topics of the screen, and what socket or timer stands behind each status; methods are
shown to keep it one by one, so that the steps of `App` follow from the methods they
call. The strengthening of the session (`SessionOk`) says which token an awaited call may
still write: a live call closed over the token of the store, so its answer changes nothing,
and this is what `TokenIsCurrent` needs to prove `NoTokenReturns`.

`Pages_proofs` proves `TypeCorrect`, `PartnerIsNamed`, `OnlyEndedIsRated`,
`ShownExists`, `DoneIsRated` and `AnswersMoveTheirPage`. What makes stale lists harmless
is that everything they say is stable: a match stays, a date that is over stays over,
a rating stays. The invariant states this for rows that are shown and for those in an
answer on its way, for the page that was opened from a row, and for the requests that
page sent.

`Profiles_proofs` proves `TypeCorrect`, `EditsAtHome`, `FreshTruth`, `CardIsProfile` and
`AnswersOnForm`, all five properties of the run. Two ideas carry it. `RenderKeeps`: if
the queries, the page and the requests may be as they are (`Fits`), then rendering them
keeps the invariant; so moves, answers and what becomes of a fetch only have to show
`Fits`. And the notion of a *quiet* query (`Quiet`: nothing was changed that it might not
have heard of) with `Truth`: a quiet query that is fresh, or whose answer has been read,
has what the server has. An answer either tells the query (`ToldSound`) or leaves it in
`untold`, and a row can only change together with a request that makes its query not
quiet (`ServeTruth`).

`AgentsAreReal` adds that no page, list, key or request is about an agent the server
does not have, so that no update is of one that does not exist; and that a list that is
shown has the active agent, so that the effect of `AuthedLayout` that selects another
never does so on these pages, which is why `Profiles` has no action for it.

**Behind the liveness properties.** Liveness under fairness is out of the prover's reach
(`ConversationEnds`, `EndIsAnnounced`, `RatingIsStored`, `MutualSwipesMatch`,
`MatchIsAnnounced`, `Settles`, `DoneLeaves`), and TLC checks it. Each of these rests on a
safety fact, that whatever is to happen still has somebody to do it; fairness only makes
that somebody move. These facts are proved for all constants:

| Liveness (TLC) | What it rests on (proved) |
|---|---|
| `EndIsAnnounced` | `NothingIsUnsaid`: without failures, whatever the table says of a date and was not published has the request or the task that is about to publish it |
| `ConversationEnds` | `NoneIsLeftOpen`: a task that has stopped and did not fail has left its date ended |
| `RatingIsStored` | `CountedRatingsAreKept`: until something fails, an agent with points in memory has a rating in the table or a request at its INSERT |
| `MutualSwipesMatch`, `MatchIsAnnounced` | `NobodyIsForgotten`: without failures, two agents who swiped right on each other have a request that matches them, and a match a request that announces it |
| `Settles` | `WakesUp`: a manager that is to be connected and cannot send has a heartbeat, a timer or an event of a socket to come |
| `DoneLeaves` | `DoneWaits`: a result page that waits for an answer keeps the request until it leaves |

Every step of a model is treated by a lemma or a case of its own; those that leave an
invariant's conjunct alone share a frame lemma. Every safety property of the passing runs
is proved, and both refinements. Not proved, and only model-checked, is liveness alone;
the properties of the runs that are violated are refuted by TLC, and for three of them
(`date_turns`, `rating_partner`, `rating_downgrade`) a theorem says what holds instead.

What is left for the proofs: an abstract specification of the session as the server sees
it (who is subscribed to what, and as whom), which `App` would be shown to implement, and
one of a rating over `Reputation`; the law behind `match_mutual` beyond
`MatchNeedsSwipes`.

## Not modelled

Authentication and authorization are guards without state that matters, but for the tokens
of `App`; the read-only
handlers, the pages that show one query, the settings (a store in the browser without a
server), the scripts and the test engine have no interleavings worth a model. Also left
out:

* the automatic date session (`DateSession.run` in a worker thread): it shares the
  `ScoreManager` with the event loop at the grain of bytecodes, about which a model of
  the source says little; its launch is in `Matching`;
* the event bus and what the gateway does with events: a task per event whose push seldom
  waits; their effect, that an event may be lost or come late, is in none of the
  properties (the verdict on a socket's token is in `WsClient`);
* the principal cache, the API keys, and the message handler;
* the feed's cards, its paging and compatibility (read-only queries and a pure score);
* in the frontend: `handleMessage` and `adaptIncoming`, the content of chats, uploads and
  avatars, what a new agent is created with, the mock server and mock socket, the
  sheet `ScheduleDateSheet` and hooks without a caller.

The next subjects would be the automatic session over `Reputation`, the gateway composed
with the events of `DateLifecycle`, and the principal cache.
