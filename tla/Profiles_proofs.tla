--------------------------- MODULE Profiles_proofs ---------------------------
(***************************************************************************)
(* Proofs about Profiles, for any agents, versions, requests and clicks.   *)
(***************************************************************************)
EXTENDS Profiles, TLAPS

----------------------------------------------------------------------------
(* The inductive invariant.                                                *)

\* A page that shows or edits an agent names one; a key is shown where it was made.
PageOk(v) == v.at \in {"edit", "detail"} => v.about \in Agent
ViewOk == PageOk(view) /\ (modal # None => view.at = "create")

RowsOk == \A a \in Agent : row[a] # None => Of(a, row[a])

\* What a query has or is about to have was entered for its agent, which exists; a query
\* that is being fetched is not fresh.
ProfileOk(a, q) ==
  /\ q.fresh => q.fetch = "none" /\ q.data # None
  /\ q.fetch = "read" => q.got # None
  /\ q.data # None => row[a] # None /\ Of(a, q.data)
  /\ q.got # None => row[a] # None /\ Of(a, q.got)
ListOk(q) == q.fresh => q.fetch = "none"
QueriesOk == ListOk(list) /\ \A a \in Agent : ProfileOk(a, profile[a])

\* A form is open exactly where there is something to fill it from.
FormOk ==
  /\ form = None <=> Source(view, active, list, profile) = None
  /\ form # None => Of(Subject, form)
  /\ CardShowsProfile

\* A request whose callbacks still run came from the form that is open; an update is of an
\* agent that exists.
CallOk(c) ==
  /\ c.here = "form" => c.form = view.at
  /\ c.form \in {"tab", "edit"} =>
       c.agent \in Agent /\ c.tells \in Agent /\ row[c.agent] # None /\ Of(c.agent, c.body)
CallsOk == \A c \in calls : CallOk(c)

\* Nothing was changed that the query k might not have heard of.
Quiet(k, unheard, waiting) ==
  k \notin unheard /\ \A c \in waiting : c.state = "done" => Changed(c) # k
Sound(q, truth) ==
  /\ q.fresh => q.data = truth
  /\ q.fetch = "read" => q.got = truth
Truthful(l, p, unheard, waiting) ==
  /\ \A a \in Agent : Quiet(a, unheard, waiting) => Sound(p[a], row[a])
  /\ Quiet(None, unheard, waiting) => Sound(l, Exists)
Truth == Truthful(list, profile, untold, calls)

IInv == TypeOK /\ ViewOk /\ RowsOk /\ QueriesOk /\ FormOk /\ CallsOk /\ Truth

----------------------------------------------------------------------------
(* Queries.                                                                *)

LEMMA MountedKeeps ==
  ASSUME NEW V, NEW q \in Query(V)
  PROVE  /\ Mounted(q) \in Query(V)
         /\ Mounted(q).data = q.data /\ Mounted(q).fresh = q.fresh
         /\ Mounted(q).error = q.error /\ Mounted(q).got = q.got
         /\ \/ Mounted(q).fetch = q.fetch
            \/ Mounted(q).fetch = "sent" /\ q.fetch = "none" /\ ~q.fresh
BY DEF Mounted, Query

LEMMA InvalidatedKeeps ==
  ASSUME NEW V, NEW q \in Query(V), NEW w \in BOOLEAN
  PROVE  /\ Invalidated(q, w) \in Query(V)
         /\ Invalidated(q, w).data = q.data /\ ~Invalidated(q, w).fresh
         /\ Invalidated(q, w).error = q.error
         /\ Invalidated(q, w).got \in {q.got, None}
         /\ Invalidated(q, w).fetch = "read" =>
              /\ q.fetch = "read" /\ Invalidated(q, w).got = q.got
              /\ ~(w /\ q.data # None)
<1> DEFINE stale == [q EXCEPT !.fresh = FALSE]
<1>1. /\ stale \in Query(V)
      /\ stale.data = q.data /\ ~stale.fresh /\ stale.error = q.error
      /\ stale.got = q.got /\ stale.fetch = q.fetch
  BY DEF Query
<1>2. \/ w /\ q.data # None /\ Invalidated(q, w) = [stale EXCEPT !.fetch = "sent", !.got = None]
      \/ w /\ ~(q.data # None) /\ Invalidated(q, w) = Mounted(stale)
      \/ ~w /\ Invalidated(q, w) = stale
  BY <1>1 DEF Invalidated
<1> HIDE DEF stale
<1>3. CASE w /\ q.data # None
  <2>1. Invalidated(q, w) = [stale EXCEPT !.fetch = "sent", !.got = None]
    BY <1>3, <1>2
  <2>2. QED
    BY <1>1, <2>1 DEF Query
<1>4. CASE w /\ ~(q.data # None)
  <2>1. Invalidated(q, w) = Mounted(stale)
    BY <1>4, <1>2
  <2>2. /\ Mounted(stale) \in Query(V)
        /\ Mounted(stale).data = stale.data /\ Mounted(stale).fresh = stale.fresh
        /\ Mounted(stale).error = stale.error /\ Mounted(stale).got = stale.got
        /\ Mounted(stale).fetch = stale.fetch \/ Mounted(stale).fetch = "sent"
    BY <1>1, MountedKeeps
  <2>3. QED
    BY <1>1, <1>4, <2>1, <2>2
<1>5. CASE ~w
  BY <1>1, <1>5, <1>2
<1>6. QED
  BY <1>3, <1>4, <1>5

\* What an answer, a failure or the passing of time makes of a query.
LEMMA AfterKeeps ==
  ASSUME NEW V, NEW q \in Query(V), NEW x \in After(q)
  PROVE  /\ x \in Query(V)
         /\ \/ q.fetch = "read" /\ x.data = q.got /\ x.fresh /\ x.fetch = "none" /\ x.got = None
            \/ /\ x.data = q.data /\ x.got \in {q.got, None}
               /\ ~x.fresh \/ (x.fresh = q.fresh)
               /\ x.fetch = "none" \/ (x.fetch = q.fetch /\ x.got = q.got)
<1>1. CASE x = Arrived(q) /\ q.fetch = "read"
  BY <1>1 DEF Arrived, Query
<1>2. CASE x = Failed(q)
  BY <1>2 DEF Failed, Query
<1>3. CASE x = [q EXCEPT !.fresh = FALSE]
  BY <1>3 DEF Query
<1>4. QED
  BY <1>1, <1>2, <1>3 DEF After

LEMMA SourceTypes ==
  ASSUME NEW v \in View, PageOk(v), NEW a \in Agent, NEW l,
         NEW p \in [Agent -> Query(Profile)], Source(v, a, l, p) # None
  PROVE  /\ v.at \in {"tab", "edit"}
         /\ v.at = "tab" => Source(v, a, l, p) = p[a].data
         /\ v.at = "edit" => v.about \in Agent /\ Source(v, a, l, p) = p[v.about].data
         /\ Source(v, a, l, p) \in Profile
<1>1. v.at \in {"tab", "edit"}
  BY DEF Source
<1>2. CASE v.at = "tab"
  BY <1>2 DEF Source, Query
<1>3. CASE v.at = "edit"
  BY <1>3 DEF Source, Query, PageOk
<1>4. QED
  BY <1>1, <1>2, <1>3

\* A source does not depend on fetches.
LEMMA SourceSame ==
  ASSUME NEW v \in View, PageOk(v), NEW a \in Agent, NEW l,
         NEW p \in [Agent -> Query(Profile)], NEW p2 \in [Agent -> Query(Profile)],
         \A x \in Agent : p2[x].data = p[x].data /\ p2[x].error = p[x].error
  PROVE  Source(v, a, l, p2) = Source(v, a, l, p)
<1>1. CASE v.at \in {"tab", "edit"}
  <2> DEFINE of == IF v.at = "edit" THEN v.about ELSE a
  <2>1. of \in Agent
    BY <1>1 DEF PageOk
  <2>2. p2[of].data = p[of].data /\ Shown(p2[of]) = Shown(p[of])
    BY <2>1 DEF Shown
  <2>3. QED
    BY <2>2 DEF Source
<1>2. CASE v.at \notin {"tab", "edit"}
  BY <1>2 DEF Source
<1>3. QED
  BY <1>1, <1>2

----------------------------------------------------------------------------
(* Rendering.                                                              *)

\* d is the request c after page v was rendered with active agent a: the same, or left, or
\* handed to a.
Follows(d, c, v, a) ==
  /\ d.form = c.form /\ d.agent = c.agent /\ d.body = c.body /\ d.state = c.state
  /\ d.here = "form" => c.here = "form" /\ v = view
  /\ d.tells = c.tells \/ (d.tells = a /\ c.here = "form" /\ v = view /\ v.at = "tab")

LEMMA RenderCalls ==
  ASSUME NEW v, NEW a \in Agent, NEW l, NEW p, NEW waiting \in SUBSET Call,
         Render(v, a, l, p, waiting)
  PROVE  /\ calls' \subseteq Call
         /\ \A d \in calls' : \E c \in waiting : Follows(d, c, v, a)
         /\ \A c \in waiting : \E d \in calls' : Follows(d, c, v, a)
<1> DEFINE left(c) == [c EXCEPT !.here = IF @ = "form" THEN "left" ELSE @]
           handed(c) == [c EXCEPT !.tells = IF c.here = "form" THEN a ELSE @]
<1>1. ASSUME NEW c \in Call
      PROVE  left(c) \in Call /\ Follows(left(c), c, v, a)
  BY DEF Call, Follows
<1>2. ASSUME NEW c \in Call, v = view, v.at = "tab"
      PROVE  handed(c) \in Call /\ Follows(handed(c), c, v, a)
  BY <1>2 DEF Call, Follows
<1> HIDE DEF left, handed
<1>3. CASE calls' = {left(c) : c \in waiting}
  BY <1>1, <1>3
<1>4. CASE calls' = {handed(c) : c \in waiting} /\ v = view /\ v.at = "tab"
  BY <1>2, <1>4
<1>5. CASE calls' = waiting /\ v = view
  BY <1>5 DEF Follows
<1>6. QED
  BY <1>3, <1>4, <1>5 DEF Render, Left, left, handed

LEMMA RenderTypes ==
  ASSUME TypeOK, NEW v \in View, PageOk(v), NEW a \in Agent,
         NEW l \in Query(SUBSET Agent), NEW p \in [Agent -> Query(Profile)], NEW waiting,
         Render(v, a, l, p, waiting)
  PROVE  /\ view' = v /\ active' = a /\ list' = l
         /\ profile' \in [Agent -> Query(Profile)]
         /\ \A x \in Agent : profile'[x] = p[x] \/ profile'[x] = Mounted(p[x])
         /\ form' \in Profile \cup {None}
         /\ touched' \in BOOLEAN
         /\ Source(v, a, l, profile') = Source(v, a, l, p)
<1>1. /\ view' = v /\ active' = a /\ list' = l
      /\ \A x \in Agent : profile'[x] = p[x] \/ profile'[x] = Mounted(p[x])
  BY DEF Render
<1>2. \A x \in Agent : Mounted(p[x]) \in Query(Profile)
  BY MountedKeeps
<1>3. profile' \in [Agent -> Query(Profile)]
  BY <1>2 DEF Render
<1>4. form' \in Profile \cup {None} /\ touched' \in BOOLEAN
  BY SourceTypes DEF Render, TypeOK
<1>5. \A x \in Agent : profile'[x].data = p[x].data /\ profile'[x].error = p[x].error
  BY <1>1, MountedKeeps
<1>6. Source(v, a, l, profile') = Source(v, a, l, p)
  BY <1>3, <1>5, SourceSame
<1>7. QED
  BY <1>1, <1>3, <1>4, <1>6

LEMMA RenderForm ==
  ASSUME TypeOK, ViewOk, FormOk, NEW v \in View, PageOk(v), NEW a \in Agent,
         NEW l \in Query(SUBSET Agent), NEW p \in [Agent -> Query(Profile)], NEW waiting,
         \A x \in Agent : p[x].data # None => Of(x, p[x].data),
         Render(v, a, l, p, waiting)
  PROVE  FormOk'
<1> DEFINE source == Source(v, a, l, p)
           old == Source(view, active, list, profile)
<1>1. /\ view' = v /\ active' = a /\ list' = l
      /\ source = Source(view', active', list', profile')
      /\ Subject' = IF v.at = "edit" THEN v.about ELSE a
  BY RenderTypes DEF Subject
<1>2. /\ Source(v, a, l, profile') = source
      /\ profile' \in [Agent -> Query(Profile)]
  BY RenderTypes
<1>3. source # None /\ v.at = "tab" => source = profile'[a].data
  BY <1>2, SourceTypes
<1> HIDE DEF source, old
<1>4. CASE source = None
  <2>1. form' = None
    BY <1>4 DEF Render, source
  <2>2. QED
    BY <1>1, <1>4, <2>1 DEF FormOk, CardShowsProfile
<1>5. CASE source # None /\ Filled(v, a, source)
  <2>1. form' = source
    BY <1>5 DEF Render, source
  <2>2. Of(Subject', source) /\ (v.at = "tab" => source = p[a].data)
    BY <1>1, <1>5, SourceTypes DEF source
  <2>3. v.at = "tab" => source = profile'[active'].data
    BY <1>1, <1>5, <1>3
  <2>4. QED
    BY <1>1, <1>5, <2>1, <2>2, <2>3 DEF FormOk, CardShowsProfile, Of
<1>6. CASE source # None /\ ~Filled(v, a, source)
  <2>1. form' = form /\ touched' = touched /\ form # None /\ v = view
    BY <1>6 DEF Render, Filled, TypeOK, source
  <2>2. v.at = "tab" => a = active /\ source = old
    BY <1>6 DEF Filled, old
  <2>3. v.at \in {"tab", "edit"}
    BY <1>6, SourceTypes DEF source
  <2>4. Subject' = Subject
    BY <1>1, <2>1, <2>2, <2>3 DEF Subject
  <2>5. v.at = "tab" => source = profile[active].data /\ source = profile'[active'].data
    <3>1. old # None
      BY <2>1 DEF FormOk, old
    <3>2. view.at = "tab" => old = profile[active].data
      BY <3>1, SourceTypes DEF TypeOK, ViewOk, old
    <3>3. v.at = "tab" => source = profile'[active'].data
      BY <1>1, <1>6, <1>3
    <3>4. QED
      BY <2>1, <2>2, <3>2, <3>3
  <2>6. CardShowsProfile'
    BY <1>1, <2>1, <2>5 DEF FormOk, CardShowsProfile
  <2>7. QED
    BY <1>1, <1>6, <2>1, <2>4, <2>6 DEF FormOk, Of
<1>7. QED
  BY <1>4, <1>5, <1>6

LEMMA SoundMounted ==
  ASSUME NEW V, NEW q \in Query(V), NEW truth, Sound(q, truth)
  PROVE  Sound(Mounted(q), truth)
BY MountedKeeps DEF Sound

\* What a step does to the requests matters to no query, unless it answers one.
LEMMA QuietBefore ==
  ASSUME NEW k, NEW unheard, NEW waiting, NEW later,
         NEW v, NEW a, \A c \in waiting : \E d \in later : Follows(d, c, v, a),
         Quiet(k, unheard, later)
  PROVE  Quiet(k, unheard, waiting)
BY DEF Quiet, Changed, Follows

LEMMA RenderTruth ==
  ASSUME TypeOK, NEW v \in View, PageOk(v), NEW a \in Agent,
         NEW l \in Query(SUBSET Agent), NEW p \in [Agent -> Query(Profile)],
         NEW waiting \in SUBSET Call, NEW unheard,
         row' = row, untold' = unheard, Truthful(l, p, unheard, waiting),
         Render(v, a, l, p, waiting)
  PROVE  Truth'
<1>1. list' = l /\ \A x \in Agent : profile'[x] = p[x] \/ profile'[x] = Mounted(p[x])
  BY RenderTypes
<1>2. \A c \in waiting : \E d \in calls' : Follows(d, c, v, a)
  BY RenderCalls, Zenon
<1>3. ASSUME NEW k, Quiet(k, unheard, calls')
      PROVE  Quiet(k, unheard, waiting)
  BY <1>2, <1>3, QuietBefore
<1>4. ASSUME NEW x \in Agent, Quiet(x, unheard, calls')
      PROVE  Sound(profile'[x], row[x])
  <2>1. Sound(p[x], row[x])
    BY <1>3, <1>4 DEF Truthful
  <2>2. QED
    BY <1>1, <2>1, SoundMounted
<1>5. Quiet(None, unheard, calls') => Sound(list', Exists)
  BY <1>1, <1>3 DEF Truthful
<1>6. Truthful(list', profile', unheard, calls')
  BY <1>4, <1>5 DEF Truthful
<1>7. Exists' = Exists
  BY DEF Exists
<1>8. QED
  BY <1>4, <1>5, <1>7 DEF Truth, Truthful, Quiet, Sound, Changed

LEMMA RenderQueries ==
  ASSUME TypeOK, NEW v \in View, PageOk(v), NEW a \in Agent,
         NEW l \in Query(SUBSET Agent), NEW p \in [Agent -> Query(Profile)], NEW waiting,
         row' = row, ListOk(l), \A x \in Agent : ProfileOk(x, p[x]),
         Render(v, a, l, p, waiting)
  PROVE  QueriesOk'
<1>1. list' = l /\ \A x \in Agent : profile'[x] = p[x] \/ profile'[x] = Mounted(p[x])
  BY RenderTypes
<1>2. ASSUME NEW x \in Agent
      PROVE  ProfileOk(x, profile'[x])
  <2>1. ProfileOk(x, Mounted(p[x]))
    BY MountedKeeps DEF ProfileOk
  <2>2. QED
    BY <1>1, <2>1
<1>3. QED
  BY <1>1, <1>2 DEF QueriesOk, ListOk, ProfileOk, Of

\* What may be rendered: a page that exists, with queries as they may be, no less truthful
\* than what is known of them.
Fits(v, a, l, p, waiting, unheard) ==
  /\ v \in View /\ PageOk(v) /\ a \in Agent
  /\ l \in Query(SUBSET Agent) /\ ListOk(l)
  /\ p \in [Agent -> Query(Profile)] /\ \A x \in Agent : ProfileOk(x, p[x])
  /\ waiting \subseteq Call /\ \A c \in waiting : CallOk(c)
  /\ unheard \subseteq Agent \cup {None}
  /\ Truthful(l, p, unheard, waiting)
KeyOk(key, v) == key \in Agent \cup {None} /\ (key # None => v.at = "create")

LEMMA NowFits ==
  ASSUME IInv
  PROVE  Fits(view, active, list, profile, calls, untold) /\ KeyOk(modal, view)
BY DEF IInv, TypeOK, ViewOk, QueriesOk, CallsOk, Truth, Fits, KeyOk

\* Rendering keeps the invariant, whatever page, agent and queries it is of.
LEMMA RenderKeeps ==
  ASSUME IInv, NEW v, NEW a, NEW l, NEW p, NEW waiting, NEW unheard,
         Fits(v, a, l, p, waiting, unheard), KeyOk(modal', v),
         row' = row, untold' = unheard, moves' \in 0..MaxMoves,
         Render(v, a, l, p, waiting)
  PROVE  IInv'
<1> USE DEF Fits, KeyOk
<1> TypeOK
  BY DEF IInv
<1>1. TypeOK'
  <2>1. calls' \subseteq Call
    BY RenderCalls, Zenon
  <2>2. QED
    BY <2>1, RenderTypes DEF TypeOK
<1>2. ViewOk'
  BY RenderTypes DEF ViewOk, PageOk
<1>3. RowsOk'
  BY DEF IInv, RowsOk, Of
<1>4. QueriesOk'
  BY RenderQueries DEF IInv
<1>5. FormOk'
  BY RenderForm DEF IInv, ProfileOk
<1>6. CallsOk'
  <2> SUFFICES ASSUME NEW d \in calls' PROVE CallOk(d)'
    BY DEF CallsOk
  <2>1. PICK c \in waiting : Follows(d, c, v, a)
    BY RenderCalls, Zenon
  <2>2. CallOk(c) /\ view' = v
    BY RenderTypes DEF IInv
  <2>3. QED
    BY <2>1, <2>2 DEF CallOk, Of, Follows
<1>7. Truth'
  BY RenderTruth DEF IInv
<1>8. QED
  BY <1>1, <1>2, <1>3, <1>4, <1>5, <1>6, <1>7 DEF IInv

\* Moving to another page or agent.
LEMMA MoveKeeps ==
  ASSUME IInv, NEW v \in View, PageOk(v), NEW a \in Agent,
         NEW l \in {list, Mounted(list)}, KeyOk(modal', v),
         row' = row, untold' = untold, moves' \in 0..MaxMoves,
         Render(v, a, l, profile, calls)
  PROVE  IInv'
<1>1. Fits(view, active, list, profile, calls, untold)
  BY NowFits
<1>2. l \in Query(SUBSET Agent) /\ ListOk(l)
  BY <1>1, MountedKeeps DEF Fits, ListOk
<1>3. Quiet(None, untold, calls) => Sound(l, Exists)
  BY <1>1, SoundMounted DEF Fits, Truthful
<1>4. Fits(v, a, l, profile, calls, untold)
  BY <1>1, <1>2, <1>3 DEF Fits, Truthful
<1>5. QED
  BY <1>4, RenderKeeps

----------------------------------------------------------------------------
(* Fetches.                                                                *)

\* A fetch that only goes on: no page shows it yet.
LEMMA ListIsReadKeeps ==
  ASSUME IInv, ListIsRead
  PROVE  IInv'
<1> USE DEF ListIsRead
<1>1. /\ list' \in Query(SUBSET Agent) /\ list'.data = list.data /\ list'.error = list.error
      /\ list'.fresh = list.fresh /\ list'.fetch = "read" /\ list'.got = Exists
  BY DEF IInv, TypeOK, Query, Read, Exists
<1>2. ~list.fresh
  BY DEF IInv, QueriesOk, ListOk
<1>3. Exists' = Exists
  BY DEF Exists
<1>4. TypeOK'
  BY <1>1 DEF IInv, TypeOK
<1>5. ViewOk' /\ RowsOk' /\ CallsOk'
  BY DEF IInv, ViewOk, PageOk, RowsOk, CallsOk, CallOk, Of
<1>6. QueriesOk'
  BY <1>1, <1>2 DEF IInv, QueriesOk, ListOk, ProfileOk, Of
<1>7. FormOk'
  <2>1. Source(view, active, list, profile)' = Source(view, active, list, profile)
    BY <1>1 DEF Source, Watched, Shown
  <2>2. QED
    BY <2>1 DEF IInv, FormOk, CardShowsProfile, Subject, Of
<1>8. Truth'
  <2>1. \A a \in Agent : Quiet(a, untold, calls)' => Quiet(a, untold, calls)
    BY AgentAssumption DEF Quiet, Changed
  <2>2. Sound(list', Exists')
    BY <1>1, <1>2, <1>3 DEF Sound
  <2>3. \A a \in Agent : Sound(profile[a], row[a])' = Sound(profile[a], row[a])
    BY DEF Sound
  <2>4. QED
    BY <2>1, <2>2, <2>3 DEF IInv, Truth, Truthful, Sound
<1>9. QED
  BY <1>4, <1>5, <1>6, <1>7, <1>8 DEF IInv

LEMMA ProfileIsReadKeeps ==
  ASSUME IInv, NEW a \in Agent, ProfileIsRead(a)
  PROVE  IInv'
<1>1. /\ profile' \in [Agent -> Query(Profile)]
      /\ profile'[a].data = profile[a].data /\ profile'[a].error = profile[a].error
      /\ profile'[a].fresh = profile[a].fresh /\ profile'[a].fetch = "read"
      /\ profile'[a].got = row[a]
      /\ \A x \in Agent : x # a => profile'[x] = profile[x]
  BY DEF ProfileIsRead, IInv, TypeOK, Query, Read
<1>2. ~profile[a].fresh
  BY DEF ProfileIsRead, IInv, QueriesOk, ProfileOk
<1>3. Exists' = Exists
  BY DEF ProfileIsRead, Exists
<1>4. TypeOK'
  BY <1>1 DEF ProfileIsRead, IInv, TypeOK
<1>5. ViewOk' /\ RowsOk' /\ CallsOk'
  BY DEF ProfileIsRead, IInv, ViewOk, PageOk, RowsOk, CallsOk, CallOk, Of
<1>6. QueriesOk'
  <2>1. ProfileOk(a, profile'[a])
    BY <1>1, <1>2 DEF ProfileIsRead, IInv, QueriesOk, RowsOk, ProfileOk
  <2>2. \A x \in Agent : ProfileOk(x, profile'[x])
    BY <1>1, <2>1 DEF IInv, QueriesOk
  <2>3. QED
    BY <2>2 DEF ProfileIsRead, IInv, QueriesOk, ListOk, ProfileOk, Of
<1>7. FormOk'
  <2>1. \A x \in Agent :
          profile'[x].data = profile[x].data /\ profile'[x].error = profile[x].error
    BY <1>1
  <2>2. Source(view, active, list, profile') = Source(view, active, list, profile)
    <3>1. /\ view \in View /\ PageOk(view) /\ active \in Agent
          /\ profile \in [Agent -> Query(Profile)]
      BY DEF IInv, TypeOK, ViewOk
    <3>2. QED
      BY <1>1, <2>1, <3>1, SourceSame
  <2>3. profile'[active].data = profile[active].data
    BY <2>1 DEF IInv, TypeOK
  <2>4. QED
    BY <2>2, <2>3 DEF ProfileIsRead, IInv, FormOk, CardShowsProfile, Subject, Of
<1>8. Truth'
  <2>1. \A k \in Agent \cup {None} :
          k # a /\ Quiet(k, untold', calls) => Quiet(k, untold, calls)
    BY DEF ProfileIsRead, Quiet
  <2>2. Sound(profile'[a], row[a])
    BY <1>1, <1>2 DEF Sound
  <2>3. \A x \in Agent : Quiet(x, untold', calls) => Sound(profile'[x], row[x])
    BY <1>1, <2>1, <2>2 DEF IInv, Truth, Truthful
  <2>4. Quiet(None, untold', calls) => Sound(list, Exists)
    BY <2>1, AgentAssumption DEF IInv, Truth, Truthful
  <2>5. QED
    BY <1>3, <2>3, <2>4 DEF ProfileIsRead, Truth, Truthful, Quiet, Sound, Changed
<1>9. QED
  BY <1>4, <1>5, <1>6, <1>7, <1>8 DEF IInv

LEMMA ListChangesKeeps ==
  ASSUME IInv, ListChanges
  PROVE  IInv'
<1>1. PICK q \in After(list) : Render(view, active, q, profile, calls)
  BY DEF ListChanges
<1>2. Fits(view, active, list, profile, calls, untold) /\ KeyOk(modal, view)
  BY NowFits
<1>3. list \in Query(SUBSET Agent) /\ q \in Query(SUBSET Agent)
  BY <1>2, AfterKeeps DEF Fits
<1>4. ListOk(q)
  BY <1>2, <1>3, AfterKeeps DEF Fits, ListOk
<1>5. Sound(list, Exists) => Sound(q, Exists)
  BY <1>3, AfterKeeps DEF Sound
<1>6. Fits(view, active, q, profile, calls, untold)
  BY <1>2, <1>3, <1>4, <1>5 DEF Fits, Truthful
<1>7. /\ row' = row /\ modal' = modal /\ untold' = untold /\ moves' \in 0..MaxMoves
  BY DEF ListChanges, IInv, TypeOK
<1>8. QED
  BY <1>1, <1>2, <1>6, <1>7, RenderKeeps

LEMMA ProfileChangesKeeps ==
  ASSUME IInv, NEW a \in Agent, ProfileChanges(a)
  PROVE  IInv'
<1>1. PICK q \in After(profile[a]) :
        Render(view, active, list, [profile EXCEPT ![a] = q], calls)
  BY DEF ProfileChanges
<1> DEFINE p == [profile EXCEPT ![a] = q]
<1>2. Fits(view, active, list, profile, calls, untold) /\ KeyOk(modal, view)
  BY NowFits
<1>3. profile[a] \in Query(Profile) /\ q \in Query(Profile)
  BY <1>2, AfterKeeps DEF Fits
<1>4. p \in [Agent -> Query(Profile)] /\ p[a] = q /\ \A x \in Agent : x # a => p[x] = profile[x]
  BY <1>2, <1>3 DEF Fits
<1> HIDE DEF p
<1>5. ProfileOk(a, q)
  BY <1>2, <1>3, AfterKeeps DEF Fits, ProfileOk
<1>6. Sound(profile[a], row[a]) => Sound(q, row[a])
  BY <1>3, AfterKeeps DEF Sound
<1>7. Fits(view, active, list, p, calls, untold)
  BY <1>2, <1>4, <1>5, <1>6 DEF Fits, Truthful
<1>8. row' = row /\ modal' = modal /\ untold' = untold /\ moves' \in 0..MaxMoves
  BY DEF ProfileChanges, IInv, TypeOK
<1>9. QED
  BY <1>1, <1>2, <1>7, <1>8, RenderKeeps DEF p

----------------------------------------------------------------------------
(* Moving between pages.                                                   *)

LEMMA GoKeeps ==
  ASSUME IInv, NEW q \in {"tab", "new", "away"}, Go(q)
  PROVE  IInv'
<1>1. Page(q) \in View /\ PageOk(Page(q))
  BY DEF Page, View, PageOk
<1>2. KeyOk(modal', Page(q)) /\ row' = row /\ untold' = untold /\ moves' \in 0..MaxMoves
  BY BoundsAssumption DEF Go, Move, KeyOk, IInv, TypeOK
<1>3. PICK l \in {list, Mounted(list)} : Render(Page(q), active, l, profile, calls)
  BY DEF Go, Open, Asked
<1>4. active \in Agent
  BY DEF IInv, TypeOK
<1>5. QED
  BY <1>1, <1>2, <1>3, <1>4, MoveKeeps

LEMMA ChooseKeeps ==
  ASSUME IInv, NEW a \in Agent, Choose(a)
  PROVE  IInv'
<1>1. row' = row /\ untold' = untold /\ moves' \in 0..MaxMoves
  BY BoundsAssumption DEF Choose, Move, IInv, TypeOK
<1>2. modal' = None
  BY DEF Choose, HasTopBar, IInv, ViewOk
<1>3. PICK v \in {view, Page("tab")}, l \in {list, Mounted(list)} :
        Render(v, a, l, profile, calls)
  BY DEF Choose, Open, Asked
<1>4. v \in View /\ PageOk(v) /\ KeyOk(modal', v)
  BY <1>2 DEF IInv, TypeOK, ViewOk, Page, View, PageOk, KeyOk
<1>5. QED
  BY <1>1, <1>3, <1>4, MoveKeeps

LEMMA EditItKeeps ==
  ASSUME IInv, EditIt
  PROVE  IInv'
<1> DEFINE v == [view EXCEPT !.at = "edit"]
<1>1. v \in View /\ PageOk(v)
  BY DEF EditIt, IInv, TypeOK, ViewOk, View, PageOk
<1>2. row' = row /\ untold' = untold /\ moves' \in 0..MaxMoves
  BY BoundsAssumption DEF EditIt, Move, IInv, TypeOK
<1>3. KeyOk(modal', v)
  BY DEF EditIt, KeyOk, IInv, ViewOk, TypeOK
<1>4. PICK l \in {list, Mounted(list)} : Render(v, active, l, profile, calls)
  BY DEF EditIt, Open, Asked
<1>5. active \in Agent
  BY DEF IInv, TypeOK
<1> HIDE DEF v
<1>6. QED
  BY <1>1, <1>2, <1>3, <1>4, <1>5, MoveKeeps

LEMMA KeySavedKeeps ==
  ASSUME IInv, KeySaved
  PROVE  IInv'
<1>1. Page("tab") \in View /\ PageOk(Page("tab"))
  BY DEF Page, View, PageOk
<1>2. /\ KeyOk(modal', Page("tab")) /\ row' = row /\ untold' = untold
      /\ moves' \in 0..MaxMoves
  BY DEF KeySaved, KeyOk, IInv, TypeOK
<1>3. PICK l \in {list, Mounted(list)} : Render(Page("tab"), active, l, profile, calls)
  BY DEF KeySaved, Open, Asked
<1>4. active \in Agent
  BY DEF IInv, TypeOK
<1>5. QED
  BY <1>1, <1>2, <1>3, <1>4, MoveKeeps

\* A new page load starts with nothing but the list asked for.
LEMMA LoadKeeps ==
  ASSUME IInv, NEW v \in View, PageOk(v), v.at \in {"edit", "detail", "create"}, Load(v)
  PROVE  IInv'
<1> USE DEF Load
<1>1. /\ Empty \in Query(SUBSET Agent) /\ Empty \in Query(Profile)
      /\ Empty.data = None /\ ~Empty.fresh /\ Empty.fetch = "none" /\ Empty.got = None
  BY DEF Empty, Query
<1>2. /\ Mounted(Empty) \in Query(SUBSET Agent) /\ Mounted(Empty) \in Query(Profile)
      /\ Mounted(Empty).data = None
      /\ ~Mounted(Empty).fresh /\ Mounted(Empty).fetch = "sent" /\ Mounted(Empty).got = None
  BY <1>1 DEF Mounted, Query
<1>3. /\ profile' \in [Agent -> Query(Profile)]
      /\ \A x \in Agent : /\ profile'[x].data = None /\ ~profile'[x].fresh
                           /\ profile'[x].fetch # "read" /\ profile'[x].got = None
  BY <1>1, <1>2
<1>4. /\ calls' \subseteq Call
      /\ \A d \in calls' : \E c \in calls :
           /\ d.form = c.form /\ d.agent = c.agent /\ d.body = c.body /\ d.tells = c.tells
           /\ d.here = "gone"
  <2> DEFINE gone(c) == [c EXCEPT !.here = "gone"]
  <2>1. ASSUME NEW c \in Call
        PROVE  /\ gone(c) \in Call
               /\ gone(c).form = c.form /\ gone(c).agent = c.agent /\ gone(c).body = c.body
               /\ gone(c).tells = c.tells /\ gone(c).here = "gone"
    BY DEF Call
  <2>2. calls' = {gone(c) : c \in calls}
    OBVIOUS
  <2> HIDE DEF gone
  <2>3. QED
    BY <2>1, <2>2 DEF IInv, TypeOK
<1>5. TypeOK'
  <2>1. moves' \in 0..MaxMoves
    BY BoundsAssumption DEF Move, IInv, TypeOK
  <2>2. QED
    BY <1>2, <1>3, <1>4, <2>1 DEF IInv, TypeOK
<1>6. ViewOk' /\ RowsOk'
  BY DEF IInv, ViewOk, PageOk, RowsOk, Of
<1>7. QueriesOk'
  BY <1>2, <1>3 DEF QueriesOk, ListOk, ProfileOk
<1>8. FormOk'
  <2>1. v.at = "edit" => v.about \in Agent
    BY DEF PageOk
  <2>2. Source(v, active, list', profile') = None
    BY <1>3, <2>1 DEF Source, Shown
  <2>3. QED
    BY <2>2 DEF FormOk, CardShowsProfile
<1>9. CallsOk'
  BY <1>4 DEF IInv, CallsOk, CallOk, Of
<1>10. Truth'
  BY <1>2, <1>3 DEF Truth, Truthful, Sound
<1>11. QED
  BY <1>5, <1>6, <1>7, <1>8, <1>9, <1>10 DEF IInv

----------------------------------------------------------------------------
(* Entries and requests.                                                   *)

LEMMA FormHasProfile ==
  ASSUME IInv, form # None
  PROVE  /\ form \in Profile /\ view.at \in {"tab", "edit"}
         /\ Subject \in Agent /\ row[Subject] # None /\ Of(Subject, form)
<1>1. /\ view \in View /\ PageOk(view) /\ active \in Agent
      /\ profile \in [Agent -> Query(Profile)] /\ form \in Profile
  BY DEF IInv, TypeOK, ViewOk
<1>2. Source(view, active, list, profile) # None /\ Of(Subject, form)
  BY DEF IInv, FormOk
<1>3. view.at \in {"tab", "edit"} /\ Subject \in Agent /\ profile[Subject].data # None
  BY <1>1, <1>2, SourceTypes DEF Subject
<1>4. row[Subject] # None
  BY <1>3 DEF IInv, QueriesOk, ProfileOk
<1>5. QED
  BY <1>1, <1>2, <1>3, <1>4

LEMMA SentTypes ==
  ASSUME NEW fs \in SUBSET Field, NEW values \in Profile, NEW a, Of(a, values)
  PROVE  Sent(fs, values) \in Body /\ Of(a, Sent(fs, values))
<1>1. Sent(fs, values) \in [fs -> Value]
  BY DEF Sent, Profile
<1>2. Of(a, Sent(fs, values))
  BY DEF Sent, Of, Profile
<1>3. QED
  BY <1>1, <1>2 DEF Body

LEMMA EnteredTypes ==
  ASSUME NEW values \in Profile, NEW a \in Agent, Of(a, values),
         NEW f \in Field, NEW x \in 1..Versions
  PROVE  LET entered == [values EXCEPT ![f] = <<a, x>>]
         IN entered \in Profile /\ Of(a, entered)
<1> DEFINE entered == [values EXCEPT ![f] = <<a, x>>]
<1>1. <<a, x>> \in Value /\ <<a, x>>[1] = a
  BY BoundsAssumption DEF Value
<1>2. entered \in Profile
  BY <1>1 DEF Profile
<1>3. Of(a, entered)
  BY <1>1 DEF Of, Profile
<1>4. QED
  BY <1>2, <1>3

\* The requests after a new one was sent are as they may be, and hide no change.
LEMMA SendKeeps ==
  ASSUME IInv, NEW a \in Agent \cup {None}, NEW body \in Body, Send(a, body),
         view.at \in {"tab", "new", "edit", "create"},
         view.at \in {"tab", "edit"} => a \in Agent /\ row[a] # None /\ Of(a, body),
         row' = row, view' = view
  PROVE  /\ calls' \subseteq Call /\ CallsOk'
         /\ \A k : Quiet(k, untold, calls') => Quiet(k, untold, calls)
<1> DEFINE left(c) == [c EXCEPT !.here = IF @ = "form" THEN "left" ELSE @]
           n == CHOOSE k \in Unused : TRUE
           new == [n |-> n, form |-> view.at, agent |-> a, body |-> body, tells |-> a,
                   here |-> "form", state |-> "sent"]
<1>1. n \in Nat
  <2>1. n \in Unused
    BY DEF Send
  <2>2. QED
    BY <2>1, BoundsAssumption DEF Unused
<1>2. /\ new \in Call /\ new.form = view.at /\ new.agent = a /\ new.body = body
      /\ new.tells = a /\ new.state = "sent"
  BY <1>1 DEF Call
<1>3. ASSUME NEW c \in Call
      PROVE  /\ left(c) \in Call /\ left(c).form = c.form /\ left(c).agent = c.agent
             /\ left(c).body = c.body /\ left(c).tells = c.tells /\ left(c).state = c.state
             /\ left(c).here # "form"
  BY DEF Call
<1>4. calls' = {left(c) : c \in calls} \cup {new}
  BY DEF Send, Left
<1>5. calls \subseteq Call /\ \A c \in calls : CallOk(c)
  BY DEF IInv, TypeOK, CallsOk
<1> HIDE DEF left, n, new
<1>6. calls' \subseteq Call
  BY <1>2, <1>3, <1>4, <1>5
<1>7. \A d \in calls' : CallOk(d)
  <2>1. CallOk(new)
    BY <1>2 DEF CallOk
  <2>2. \A c \in calls : CallOk(left(c))
    BY <1>3, <1>5 DEF CallOk
  <2>3. QED
    BY <1>4, <2>1, <2>2
<1>8. CallsOk'
  BY <1>7 DEF CallsOk, CallOk, Of
<1>9. ASSUME NEW k, Quiet(k, untold, calls'), NEW c \in calls, c.state = "done"
      PROVE  Changed(c) # k
  <2>1. left(c) \in calls' /\ left(c).state = "done" /\ Changed(left(c)) = Changed(c)
    BY <1>3, <1>4, <1>5, <1>9 DEF Changed
  <2>2. QED
    BY <1>9, <2>1 DEF Quiet
<1>10. QED
  BY <1>6, <1>8, <1>9 DEF Quiet

\* What is entered, and the requests, may change as long as no query does.
LEMMA PressKeeps ==
  ASSUME IInv, UNCHANGED <<row, active, view, modal, list, profile, untold>>,
         moves' \in 0..MaxMoves,
         \/ form' = form /\ touched' = touched
         \/ form # None /\ form' \in Profile /\ touched' = TRUE /\ Of(Subject, form'),
         calls' \subseteq Call, CallsOk',
         \A k : Quiet(k, untold, calls') => Quiet(k, untold, calls)
  PROVE  IInv'
<1>1. TypeOK'
  BY DEF IInv, TypeOK
<1>2. ViewOk' /\ RowsOk' /\ QueriesOk'
  BY DEF IInv, ViewOk, PageOk, RowsOk, QueriesOk, ListOk, ProfileOk, Of
<1>3. FormOk'
  <2>1. Source(view, active, list, profile)' = Source(view, active, list, profile)
    BY DEF Source, Watched, Shown
  <2>2. Subject' = Subject
    BY DEF Subject
  <2>3. form' = None <=> form = None
    BY NoProfileAssumption
  <2>4. form' # None => Of(Subject, form')
    BY DEF IInv, FormOk
  <2>5. CardShowsProfile'
    BY DEF IInv, FormOk, CardShowsProfile
  <2>6. QED
    BY <2>1, <2>2, <2>3, <2>4, <2>5 DEF IInv, FormOk, Of
<1>4. Truth'
  <2>1. Truthful(list, profile, untold, calls')
    BY DEF IInv, Truth, Truthful
  <2>2. Exists' = Exists
    BY DEF Exists
  <2>3. QED
    BY <2>1, <2>2 DEF Truth, Truthful, Quiet, Sound, Changed
<1>5. QED
  BY <1>1, <1>2, <1>3, <1>4 DEF IInv

LEMMA EnterKeeps ==
  ASSUME IInv, NEW f \in Field, NEW x \in 1..Versions, Enter(f, x)
  PROVE  IInv'
<1>1. /\ form \in Profile /\ Subject \in Agent /\ Of(Subject, form)
  BY FormHasProfile DEF Enter
<1>2. form' \in Profile /\ Of(Subject, form')
  BY <1>1, EnteredTypes DEF Enter
<1>3. /\ UNCHANGED <<row, active, view, modal, list, profile, untold>>
      /\ calls' = calls /\ form # None /\ touched' = TRUE
  BY DEF Enter
<1>4. moves' \in 0..MaxMoves
  BY BoundsAssumption DEF Enter, Move, IInv, TypeOK
<1>5. calls' \subseteq Call /\ CallsOk'
  BY <1>3 DEF IInv, TypeOK, CallsOk, CallOk, Of
<1>6. QED
  BY <1>2, <1>3, <1>4, <1>5, PressKeeps

LEMMA SaveCardKeeps ==
  ASSUME IInv, SaveCard
  PROVE  IInv'
<1> DEFINE body == Sent({"text", "task"}, form)
<1>1. form \in Profile /\ Subject = active /\ Of(active, form) /\ row[active] # None
  BY FormHasProfile DEF SaveCard, Subject
<1>2. body \in Body /\ Of(active, body)
  BY <1>1, SentTypes DEF Field
<1> HIDE DEF body
<1>3. /\ UNCHANGED <<row, active, view, form, touched, modal, list, profile, untold>>
      /\ Send(active, body) /\ view.at = "tab" /\ active \in Agent
  BY DEF SaveCard, IInv, TypeOK, body
<1>4. moves' \in 0..MaxMoves
  BY BoundsAssumption DEF SaveCard, Move, IInv, TypeOK
<1>5. /\ calls' \subseteq Call /\ CallsOk'
      /\ \A k : Quiet(k, untold, calls') => Quiet(k, untold, calls)
  BY <1>1, <1>2, <1>3, SendKeeps
<1>6. QED
  BY <1>3, <1>4, <1>5, PressKeeps

LEMMA ToggleTagKeeps ==
  ASSUME IInv, NEW x \in 1..Versions, ToggleTag(x)
  PROVE  IInv'
<1> DEFINE body == Sent({"text"}, form')
<1>1. /\ form \in Profile /\ Subject = active /\ active \in Agent
      /\ Of(active, form) /\ row[active] # None
  BY FormHasProfile DEF ToggleTag, Subject
<1>2. form' \in Profile /\ Of(active, form')
  BY <1>1, EnteredTypes DEF ToggleTag, Field
<1>3. body \in Body /\ Of(active, body)
  BY <1>2, SentTypes DEF Field
<1> HIDE DEF body
<1>4. /\ UNCHANGED <<row, active, view, modal, list, profile, untold>>
      /\ Send(active, body) /\ view.at = "tab" /\ form # None /\ touched' = TRUE
  BY DEF ToggleTag, body
<1>5. moves' \in 0..MaxMoves
  BY BoundsAssumption DEF ToggleTag, Move, IInv, TypeOK
<1>6. /\ calls' \subseteq Call /\ CallsOk'
      /\ \A k : Quiet(k, untold, calls') => Quiet(k, untold, calls)
  BY <1>1, <1>3, <1>4, SendKeeps
<1>7. QED
  BY <1>1, <1>2, <1>4, <1>5, <1>6, PressKeeps

LEMMA SubmitEditKeeps ==
  ASSUME IInv, SubmitEdit
  PROVE  IInv'
<1> DEFINE body == Sent({"text", "style"}, form)
<1>1. /\ form \in Profile /\ Subject = view.about /\ view.about \in Agent
      /\ Of(view.about, form) /\ row[view.about] # None
  BY FormHasProfile DEF SubmitEdit, Subject
<1>2. body \in Body /\ Of(view.about, body)
  BY <1>1, SentTypes DEF Field
<1> HIDE DEF body
<1>3. /\ UNCHANGED <<row, active, view, form, touched, modal, list, profile, untold>>
      /\ Send(view.about, body) /\ view.at = "edit"
  BY DEF SubmitEdit, body
<1>4. moves' \in 0..MaxMoves
  BY BoundsAssumption DEF SubmitEdit, Move, IInv, TypeOK
<1>5. /\ calls' \subseteq Call /\ CallsOk'
      /\ \A k : Quiet(k, untold, calls') => Quiet(k, untold, calls)
  BY <1>1, <1>2, <1>3, SendKeeps
<1>6. QED
  BY <1>3, <1>4, <1>5, PressKeeps

LEMMA SubmitNewKeeps ==
  ASSUME IInv, SubmitNew
  PROVE  IInv'
<1> DEFINE body == [f \in {} |-> None]
<1>1. body \in Body
  <2>1. body \in [{} -> Value]
    OBVIOUS
  <2>2. QED
    BY <2>1 DEF Body
<1>2. /\ UNCHANGED <<row, active, view, form, touched, modal, list, profile, untold>>
      /\ Send(None, body) /\ view.at \in {"new", "create"}
  BY DEF SubmitNew
<1> HIDE DEF body
<1>3. moves' \in 0..MaxMoves
  BY BoundsAssumption DEF SubmitNew, Move, IInv, TypeOK
<1>4. /\ calls' \subseteq Call /\ CallsOk'
      /\ \A k : Quiet(k, untold, calls') => Quiet(k, untold, calls)
  BY <1>1, <1>2, SendKeeps
<1>5. QED
  BY <1>2, <1>3, <1>4, PressKeeps

----------------------------------------------------------------------------
(* The server.                                                             *)

LEMMA PatchedTypes ==
  ASSUME IInv, NEW a \in Agent, row[a] # None, NEW body \in Body, Of(a, body)
  PROVE  Patched(a, body) \in Profile /\ Of(a, Patched(a, body))
<1>1. row[a] \in Profile /\ Of(a, row[a])
  BY DEF IInv, TypeOK, RowsOk
<1>2. PICK fs \in SUBSET Field : body \in [fs -> Value]
  BY DEF Body
<1>3. <<a, 0>> \in Value /\ <<a, 0>>[1] = a
  BY BoundsAssumption DEF Value
<1>4. ASSUME NEW f \in Field
      PROVE  Patched(a, body)[f] \in Value /\ Patched(a, body)[f][1] = a
  BY <1>1, <1>2, <1>3 DEF Patched, Of, Profile
<1>5. QED
  BY <1>4 DEF Patched, Profile, Of

\* A row may change once its agent is not quiet, and a row may appear where no query has
\* anything of its agent.
LEMMA ServeTruth ==
  ASSUME IInv, NEW a \in Agent, NEW k, NEW later,
         \A x \in Agent : x # a => row'[x] = row[x],
         \A u : Quiet(u, untold, later) => u # k /\ Quiet(u, untold, calls),
         (k = a /\ Exists' = Exists) \/ (k = None /\ row[a] = None),
         UNCHANGED <<list, profile, untold>>, calls' = later
  PROVE  Truth'
<1>1. ASSUME NEW x \in Agent, Quiet(x, untold, later)
      PROVE  Sound(profile[x], row'[x])
  <2>1. Sound(profile[x], row[x]) /\ ProfileOk(x, profile[x])
    BY <1>1 DEF IInv, Truth, Truthful, QueriesOk
  <2>2. CASE x # a
    BY <2>1, <2>2
  <2>3. CASE x = a
    BY <1>1, <2>1, <2>3 DEF ProfileOk, Sound
  <2>4. QED
    BY <2>2, <2>3
<1>2. Quiet(None, untold, later) => Sound(list, Exists')
  BY AgentAssumption DEF IInv, Truth, Truthful
<1>3. QED
  BY <1>1, <1>2 DEF Truth, Truthful, Quiet, Sound, Changed

LEMMA ServeKeeps ==
  ASSUME IInv, NEW c \in calls, Serve(c)
  PROVE  IInv'
<1>1. PICK d \in Call, a \in Agent, r \in Profile :
        /\ c.state = "sent" /\ d.state = "done" /\ d.form = c.form /\ d.body = c.body
        /\ d.tells = c.tells /\ d.here = c.here /\ d.agent = a
        /\ calls' = (calls \ {c}) \cup {d}
        /\ row' = [row EXCEPT ![a] = r] /\ Of(a, r)
        /\ \/ c.form \in {"tab", "edit"} /\ a = c.agent /\ row[a] # None
           \/ c.form \notin {"tab", "edit"} /\ row[a] = None
  <2>1. c \in Call /\ CallOk(c) /\ c.state = "sent"
    BY DEF Serve, IInv, TypeOK, CallsOk
  <2>2. CASE c.form \in {"tab", "edit"}
    <3> DEFINE d == [c EXCEPT !.state = "done"]
               r == Patched(c.agent, c.body)
    <3>1. /\ c.agent \in Agent /\ row[c.agent] # None /\ c.body \in Body
          /\ Of(c.agent, c.body)
      BY <2>1, <2>2 DEF CallOk, Call
    <3>2. r \in Profile /\ Of(c.agent, r)
      BY <3>1, PatchedTypes
    <3>3. /\ d \in Call /\ d.state = "done" /\ d.form = c.form /\ d.body = c.body
          /\ d.tells = c.tells /\ d.here = c.here /\ d.agent = c.agent
      BY <2>1 DEF Call
    <3>4. calls' = (calls \ {c}) \cup {d} /\ row' = [row EXCEPT ![c.agent] = r]
      BY <2>2 DEF Serve
    <3> HIDE DEF d, r
    <3>5. QED
      BY <2>1, <2>2, <3>1, <3>2, <3>3, <3>4
  <2>3. CASE c.form \notin {"tab", "edit"}
    <3>1. PICK a \in Agent \ Exists :
            /\ row' = [row EXCEPT ![a] = Blank(a)]
            /\ calls' = (calls \ {c}) \cup {[c EXCEPT !.state = "done", !.agent = a]}
      BY <2>3 DEF Serve
    <3> DEFINE d == [c EXCEPT !.state = "done", !.agent = a]
    <3>2. /\ d \in Call /\ d.state = "done" /\ d.form = c.form /\ d.body = c.body
          /\ d.tells = c.tells /\ d.here = c.here /\ d.agent = a
      BY <2>1 DEF Call
    <3>3. <<a, 0>> \in Value /\ <<a, 0>>[1] = a
      BY BoundsAssumption DEF Value
    <3>4. Blank(a) \in Profile /\ Of(a, Blank(a))
      BY <3>3 DEF Blank, Profile, Of
    <3>5. row[a] = None
      BY <3>1 DEF Exists
    <3> HIDE DEF d
    <3>6. QED
      BY <2>1, <2>3, <3>1, <3>2, <3>4, <3>5 DEF d
  <2>4. QED
    BY <2>2, <2>3
<1>2. /\ row' \in [Agent -> Profile \cup {None}] /\ row'[a] = r /\ r # None
      /\ \A x \in Agent : x # a => row'[x] = row[x]
  BY <1>1, NoProfileAssumption DEF IInv, TypeOK
<1>3. UNCHANGED <<active, view, form, touched, modal, list, profile, untold, moves>>
  BY DEF Serve
<1>4. TypeOK'
  <2>1. calls' \subseteq Call
    BY <1>1 DEF IInv, TypeOK
  <2>2. QED
    BY <1>2, <1>3, <2>1 DEF IInv, TypeOK
<1>5. ViewOk'
  BY <1>3 DEF IInv, ViewOk, PageOk
<1>6. RowsOk'
  <2>1. \A x \in Agent : row'[x] # None => Of(x, row'[x])
    BY <1>1, <1>2 DEF IInv, RowsOk
  <2>2. QED
    BY <2>1 DEF RowsOk, Of
<1>7. QueriesOk'
  <2>1. \A x \in Agent : row[x] # None => row'[x] # None
    BY <1>2
  <2>2. QED
    BY <1>3, <2>1 DEF IInv, QueriesOk, ListOk, ProfileOk, Of
<1>8. FormOk'
  <2>1. Source(view, active, list, profile)' = Source(view, active, list, profile)
    BY <1>3 DEF Source, Watched, Shown
  <2>2. QED
    BY <1>3, <2>1 DEF IInv, FormOk, CardShowsProfile, Subject, Of
<1>9. CallsOk'
  <2>1. \A x \in Agent : row[x] # None => row'[x] # None
    BY <1>2
  <2>2. CallOk(c) /\ \A e \in calls : CallOk(e)
    BY DEF IInv, CallsOk
  <2>3. CallOk(d)'
    BY <1>1, <1>2, <1>3, <2>2 DEF CallOk, Of
  <2>4. \A e \in calls : CallOk(e)'
    BY <1>3, <2>1, <2>2 DEF CallOk, Of
  <2>5. QED
    BY <1>1, <2>3, <2>4 DEF CallsOk
<1>10. Truth'
  <2>1. (Changed(d) = a /\ Exists' = Exists) \/ (Changed(d) = None /\ row[a] = None)
    BY <1>1, <1>2 DEF Changed, Exists
  <2>2. ASSUME NEW u, Quiet(u, untold, calls')
        PROVE  u # Changed(d) /\ Quiet(u, untold, calls)
    BY <1>1, <2>2 DEF Quiet
  <2>3. QED
    BY <1>2, <1>3, <2>1, <2>2, ServeTruth
<1>11. QED
  BY <1>4, <1>5, <1>6, <1>7, <1>8, <1>9, <1>10 DEF IInv

----------------------------------------------------------------------------
(* Answers.                                                                *)

\* Telling a query of a change keeps what is known of it, unless a fetch that was read
\* before the change goes on.
LEMMA ToldSound ==
  ASSUME NEW V, NEW q \in Query(V), NEW w \in BOOLEAN, NEW truth,
         Sound(q, truth) \/ ~Overtaken(q, w)
  PROVE  Sound(Invalidated(q, w), truth)
BY InvalidatedKeeps DEF Sound, Overtaken

LEMMA AnswerKeeps ==
  ASSUME IInv, NEW c \in calls, NEW ok \in BOOLEAN, Answer(c, ok)
  PROVE  IInv'
<1> DEFINE told == Told(c, ok)
           l0 == IF None \in told THEN Invalidated(list, WatchedNow(None)) ELSE list
           p == [a \in Agent |-> IF a \in told THEN Invalidated(profile[a], WatchedNow(a))
                                 ELSE profile[a]]
           v == ViewAfter(c, ok)
           l == IF v # view THEN Asked(v, l0) ELSE l0
           missed == {k \in {Changed(c)} : c.state = "done" /\
                       (~Heard(c, ok) \/ Overtaken(QueryOf(k), WatchedNow(k)))}
           rest == calls \ {c}
<1>1. /\ Render(v, active, l, p, rest) /\ untold' = untold \cup missed
      /\ modal' = KeyAfter(c, ok) /\ row' = row /\ moves' = moves
      /\ ok => c.state = "done"
  BY DEF Answer
<1>2. Fits(view, active, list, profile, calls, untold) /\ KeyOk(modal, view)
  BY NowFits
<1>3. c \in Call /\ CallOk(c)
  BY <1>2 DEF Fits
<1>4. v \in View /\ PageOk(v) /\ KeyOk(modal', v)
  <2>1. modal # None => view.at = "create"
    BY <1>2 DEF KeyOk
  <2>2. c.here = "form" => c.form = view.at
    BY <1>3 DEF CallOk
  <2>3. c.agent \in Agent \cup {None} /\ (c.form = "edit" => c.agent \in Agent)
    BY <1>3 DEF CallOk, Call
  <2>4. v \in View /\ PageOk(v)
    BY <1>2, <2>3 DEF Fits, ViewAfter, View, PageOk, Page
  <2>5. KeyOk(modal', v)
    BY <1>1, <1>2, <2>1, <2>2, <2>3 DEF KeyOk, KeyAfter, ViewAfter
  <2>6. QED
    BY <2>4, <2>5
<1>5. /\ \A a \in Agent : WatchedNow(a) \in BOOLEAN /\ QueryOf(a) = profile[a]
      /\ WatchedNow(None) = TRUE /\ QueryOf(None) = list
  <2>1. ASSUME NEW a \in Agent
        PROVE  WatchedNow(a) \in BOOLEAN /\ QueryOf(a) = profile[a]
    <3>1. a # None
      BY AgentAssumption
    <3>2. WatchedNow(a) \in BOOLEAN
      BY Zenon DEF WatchedNow
    <3>3. QED
      BY <3>1, <3>2 DEF QueryOf
  <2>2. WatchedNow(None) = TRUE /\ QueryOf(None) = list
    BY Zenon DEF WatchedNow, QueryOf
  <2>3. QED
    BY <2>1, <2>2
<1>6. l0 \in Query(SUBSET Agent) /\ ListOk(l0)
  BY <1>2, <1>5, InvalidatedKeeps DEF Fits, ListOk
<1>7. l \in Query(SUBSET Agent) /\ ListOk(l)
  BY <1>6, MountedKeeps DEF ListOk, Asked
<1>8. /\ p \in [Agent -> Query(Profile)]
      /\ \A a \in Agent : p[a] = IF a \in told THEN Invalidated(profile[a], WatchedNow(a))
                                 ELSE profile[a]
  BY <1>2, <1>5, InvalidatedKeeps DEF Fits
<1> HIDE DEF p, v
<1>9. ASSUME NEW a \in Agent
      PROVE  ProfileOk(a, p[a])
  <2>1. profile[a] \in Query(Profile) /\ ProfileOk(a, profile[a])
    BY <1>2 DEF Fits
  <2>2. ProfileOk(a, Invalidated(profile[a], WatchedNow(a)))
    BY <1>5, <2>1, InvalidatedKeeps DEF ProfileOk
  <2>3. QED
    BY <1>8, <2>1, <2>2
\* A query that is quiet now was quiet before, or the answer told it in time.
<1>10. ASSUME NEW k \in Agent \cup {None}, Quiet(k, untold \cup missed, rest)
       PROVE  \/ Quiet(k, untold, calls)
              \/ k \in told /\ ~Overtaken(QueryOf(k), WatchedNow(k))
  <2>1. SUFFICES ASSUME ~Quiet(k, untold, calls)
                 PROVE  k \in told /\ ~Overtaken(QueryOf(k), WatchedNow(k))
    OBVIOUS
  <2>2. c.state = "done" /\ Changed(c) = k
    BY <1>10, <2>1 DEF Quiet
  <2>3. Heard(c, ok) /\ ~Overtaken(QueryOf(k), WatchedNow(k))
    BY <1>10, <2>2 DEF Quiet
  <2>4. k \in told
    BY <2>2, <2>3 DEF Heard, Told, Changed
  <2>5. QED
    BY <2>3, <2>4
<1>11. ASSUME NEW a \in Agent, Quiet(a, untold \cup missed, rest)
       PROVE  Sound(p[a], row[a])
  <2>1. profile[a] \in Query(Profile) /\ (Quiet(a, untold, calls) => Sound(profile[a], row[a]))
    BY <1>2 DEF Fits, Truthful
  <2>2. \/ Quiet(a, untold, calls)
        \/ a \in told /\ ~Overtaken(profile[a], WatchedNow(a))
    BY <1>5, <1>10, <1>11
  <2>3. CASE a \in told
    <3>1. Sound(Invalidated(profile[a], WatchedNow(a)), row[a])
      BY <1>5, <2>1, <2>2, ToldSound
    <3>2. QED
      BY <1>8, <2>3, <3>1
  <2>4. CASE a \notin told
    BY <1>8, <2>1, <2>2, <2>4
  <2>5. QED
    BY <2>3, <2>4
<1>12. ASSUME Quiet(None, untold \cup missed, rest)
       PROVE  Sound(l, Exists)
  <2>1. /\ list \in Query(SUBSET Agent)
        /\ Quiet(None, untold, calls) => Sound(list, Exists)
    BY <1>2 DEF Fits, Truthful
  <2>2. \/ Quiet(None, untold, calls)
        \/ None \in told /\ ~Overtaken(list, WatchedNow(None))
    BY <1>5, <1>10, <1>12
  <2>3. Sound(l0, Exists)
    BY <1>5, <2>1, <2>2, ToldSound
  <2>4. QED
    BY <1>6, <2>3, SoundMounted DEF Asked
<1>13. untold \cup missed \subseteq Agent \cup {None}
  BY <1>2, <1>3 DEF Fits, Changed, Call
<1>14. active \in Agent /\ rest \subseteq Call /\ \A d \in rest : CallOk(d)
  BY <1>2 DEF Fits
<1>15. Fits(v, active, l, p, rest, untold \cup missed)
  BY <1>4, <1>7, <1>8, <1>9, <1>11, <1>12, <1>13, <1>14 DEF Fits, Truthful
<1>16. moves' \in 0..MaxMoves
  BY <1>1 DEF IInv, TypeOK
<1> HIDE DEF l, missed, rest
<1>17. QED
  BY <1>1, <1>4, <1>15, <1>16, RenderKeeps

----------------------------------------------------------------------------
(* The theorems.                                                           *)

LEMMA InitInvariant == Init => IInv
<1> SUFFICES ASSUME Init PROVE IInv
  OBVIOUS
<1>1. PICK mine \in SUBSET Agent :
        row = [a \in Agent |-> IF a \in mine THEN Blank(a) ELSE None] /\ active \in mine
  BY DEF Init
<1>2. ASSUME NEW a \in Agent
      PROVE  Blank(a) \in Profile /\ Of(a, Blank(a))
  <2>1. <<a, 0>> \in Value /\ <<a, 0>>[1] = a
    BY BoundsAssumption DEF Value
  <2>2. QED
    BY <2>1 DEF Blank, Profile, Of
<1>3. /\ Empty \in Query(SUBSET Agent) /\ Empty \in Query(Profile)
      /\ Empty.data = None /\ ~Empty.fresh /\ Empty.fetch = "none" /\ Empty.got = None
      /\ Mounted(Empty) \in Query(SUBSET Agent)
      /\ ~Mounted(Empty).fresh /\ Mounted(Empty).fetch = "sent"
  BY DEF Empty, Query, Mounted
<1>4. /\ profile \in [Agent -> Query(Profile)]
      /\ \A a \in Agent : profile[a] = Empty
  BY <1>3 DEF Init
<1>5. TypeOK
  <2>1. view \in View
    BY DEF Init, View
  <2>2. moves \in 0..MaxMoves
    BY BoundsAssumption DEF Init
  <2>3. QED
    BY <1>1, <1>2, <1>3, <1>4, <2>1, <2>2 DEF Init, TypeOK
<1>6. ViewOk
  BY DEF Init, ViewOk, PageOk
<1>7. RowsOk
  BY <1>1, <1>2 DEF RowsOk
<1>8. QueriesOk
  BY <1>3, <1>4 DEF Init, QueriesOk, ListOk, ProfileOk
<1>9. FormOk
  BY DEF Init, FormOk, CardShowsProfile, Source
<1>10. CallsOk
  BY DEF Init, CallsOk
<1>11. Truth
  BY <1>3, <1>4 DEF Init, Truth, Truthful, Sound
<1>12. QED
  BY <1>5, <1>6, <1>7, <1>8, <1>9, <1>10, <1>11 DEF IInv

LEMMA NextInvariant == IInv /\ [Next]_vars => IInv'
<1> SUFFICES ASSUME IInv, [Next]_vars PROVE IInv'
  OBVIOUS
<1>1. CASE Fetch
  BY <1>1, ListIsReadKeeps, ListChangesKeeps, ProfileIsReadKeeps, ProfileChangesKeeps DEF Fetch
<1>2. CASE Navigate
  <2>1. ASSUME NEW q \in {"edit", "detail"}, NEW a \in Exists, Load([at |-> q, about |-> a])
        PROVE  IInv'
    <3> DEFINE v == [at |-> q, about |-> a]
    <3>1. v \in View /\ PageOk(v) /\ v.at \in {"edit", "detail", "create"}
      BY DEF Exists, View, PageOk
    <3>2. Load(v)
      BY <2>1
    <3> HIDE DEF v
    <3>3. QED
      BY <3>1, <3>2, LoadKeeps
  <2>2. CASE Load(Page("create"))
    <3>1. Page("create") \in View /\ PageOk(Page("create")) /\ Page("create").at = "create"
      BY DEF Page, View, PageOk
    <3>2. QED
      BY <2>2, <3>1, LoadKeeps
  <2>3. QED
    BY <1>2, <2>1, <2>2, GoKeeps, ChooseKeeps, EditItKeeps, KeySavedKeeps DEF Navigate
<1>3. CASE Press
  BY <1>3, ToggleTagKeeps, EnterKeeps, SaveCardKeeps, SubmitEditKeeps, SubmitNewKeeps DEF Press
<1>4. CASE \E c \in calls : Serve(c)
  BY <1>4, ServeKeeps
<1>5. CASE Settle
  BY <1>5, AnswerKeeps DEF Settle
<1>6. CASE UNCHANGED vars
  BY <1>6 DEF vars, IInv, TypeOK, ViewOk, PageOk, RowsOk, QueriesOk, ListOk, ProfileOk,
    FormOk, Source, Watched, Shown, Subject, CardShowsProfile, CallsOk, CallOk, Truth,
    Truthful, Quiet, Sound, Changed, Exists, Of
<1>7. QED
  BY <1>1, <1>2, <1>3, <1>4, <1>5, <1>6 DEF Next

THEOREM Invariance == Spec => []IInv
BY InitInvariant, NextInvariant, PTL DEF Spec

\* Every variable of the pages and of the query cache keeps its type.
THEOREM TypeCorrect == Spec => []TypeOK
<1>1. IInv => TypeOK
  BY DEF IInv
<1>2. QED
  BY <1>1, Invariance, PTL

\* What is entered for one agent (ProfileEditCard, ProfileForm) never reaches the row, the
\* query or the card of another, for any number of agents, requests and clicks.
THEOREM EditsAtHome == Spec => []EditsStayHome
<1>1. IInv => EditsStayHome
  BY DEF IInv, RowsOk, QueriesOk, ProfileOk, FormOk, CallsOk, CallOk, EditsStayHome
<1>2. QED
  BY <1>1, Invariance, PTL

\* A query that counts as fresh is what the server has, unless it was left untold of a
\* change in one of the ways useUpdateAgent and useCreateAgent can leave it.
THEOREM FreshTruth == Spec => []FreshIsTrue
<1>1. IInv => FreshIsTrue
  BY DEF IInv, Truth, Truthful, Quiet, Sound, FreshIsTrue
<1>2. QED
  BY <1>1, Invariance, PTL

\* An untouched card of the Profile tab shows the profile of the active agent.
THEOREM CardIsProfile == Spec => []CardShowsProfile
<1>1. IInv => CardShowsProfile
  BY DEF IInv, FormOk
<1>2. QED
  BY <1>1, Invariance, PTL

\* A request that is answered is not among those that are left.
LEMMA AnsweredIsGone ==
  ASSUME NEW v, NEW a, NEW l, NEW p, NEW waiting \in SUBSET Call, NEW c \in Call,
         c.here = "form", c \notin waiting, v # view \/ v.at # "tab",
         Render(v, a, l, p, waiting)
  PROVE  c \notin calls'
<1> DEFINE left(d) == [d EXCEPT !.here = IF @ = "form" THEN "left" ELSE @]
<1>1. \A d \in Call : left(d).here # "form"
  BY DEF Call
<1>2. calls' = {left(d) : d \in waiting} \/ calls' = waiting
  BY DEF Render, Left
<1> HIDE DEF left
<1>3. QED
  BY <1>1, <1>2

\* No answer but that to the open form leaves a page or shows a key, whichever requests of
\* pages that were left are still awaited.
THEOREM AnswersOnForm == Spec => AnswersStayOnForm
<1> DEFINE Moved == view' # view \/ (modal' # modal /\ modal' # None)
           Cause == modal # None \/ \E c \in calls \ calls' : c.form = view.at /\ c.here = "form"
<1>1. IInv /\ [Next]_vars => [moves' = moves /\ Moved => Cause]_vars
  <2> SUFFICES ASSUME IInv, Next, moves' = moves, Moved PROVE Cause
    BY DEF vars
  <2>1. moves \in Nat
    BY BoundsAssumption DEF IInv, TypeOK
  <2>2. ~Move
    BY <2>1 DEF Move
  <2>3. ~Fetch
    BY DEF Fetch, ListIsRead, ListChanges, ProfileIsRead, ProfileChanges, Render
  <2>4. CASE Navigate
    BY <2>2, <2>4 DEF Navigate, Go, Choose, EditIt, KeySaved, Load
  <2>5. ~Press
    BY <2>2 DEF Press, ToggleTag, Enter, SaveCard, SubmitEdit, SubmitNew
  <2>6. ~\E c \in calls : Serve(c)
    BY DEF Serve
  <2>7. CASE Settle
    <3>1. PICK c \in calls, ok \in BOOLEAN : Answer(c, ok)
      BY <2>7 DEF Settle
    <3> DEFINE v == ViewAfter(c, ok)
    <3>2. PICK l, p : Render(v, active, l, p, calls \ {c})
      BY <3>1 DEF Answer
    <3>3. view' = v /\ modal' = KeyAfter(c, ok)
      BY <3>1 DEF Answer, Render
    <3>4. c \in Call /\ calls \ {c} \in SUBSET Call /\ CallOk(c)
      BY DEF IInv, TypeOK, CallsOk
    <3>5. c.here = "form" /\ c.form = view.at /\ (v # view \/ c.form = "create")
      BY <3>3, <3>4 DEF CallOk, ViewAfter, KeyAfter
    <3>6. v # view \/ v.at # "tab"
      BY <3>5
    <3> HIDE DEF v
    <3>7. c \notin calls'
      BY <3>2, <3>4, <3>5, <3>6, AnsweredIsGone
    <3>8. QED
      BY <3>5, <3>7
  <2>8. QED
    BY <2>3, <2>4, <2>5, <2>6, <2>7 DEF Next
<1>2. QED
  BY <1>1, Invariance, PTL DEF Spec, AnswersStayOnForm

----------------------------------------------------------------------------
(* Agents that exist.                                                      *)

Real(a) == a = None \/ a \in Exists
\* A list has agents of the server, the active one a among them, and one that is to
\* replace it has no fewer.
RealList(q, a) ==
  /\ q.data # None => a \in q.data /\ q.data \subseteq Exists
  /\ q.got # None => a \in q.got /\ q.got \subseteq Exists
  /\ q.data # None /\ q.got # None => q.data \subseteq q.got
RealCalls(waiting) == \A c \in waiting : Real(c.agent) /\ Real(c.tells)

\* Pages, lists, requests and the modal are only about agents the server has, so no
\* update is of one that it has not, and the list always has the active agent, so that
\* AuthedLayout never selects another.
OnlyRealAgents ==
  /\ active \in Exists /\ Real(view.about) /\ Real(modal)
  /\ RealList(list, active) /\ RealCalls(calls)

LEMMA MountedReal ==
  ASSUME NEW q \in Query(SUBSET Agent), NEW a, RealList(q, a)
  PROVE  RealList(Mounted(q), a)
BY MountedKeeps DEF RealList

LEMMA InvalidatedReal ==
  ASSUME NEW q \in Query(SUBSET Agent), NEW w \in BOOLEAN, NEW a, RealList(q, a)
  PROVE  RealList(Invalidated(q, w), a)
BY InvalidatedKeeps DEF RealList

LEMMA RenderReal ==
  ASSUME NEW v, NEW a \in Exists, NEW l, NEW p, NEW waiting \in SUBSET Call,
         Render(v, a, l, p, waiting), row' = row,
         Real(v.about), Real(modal'), RealList(l, a), RealCalls(waiting)
  PROVE  OnlyRealAgents'
<1>1. view' = v /\ active' = a /\ list' = l /\ Exists' = Exists
  BY DEF Render, Exists
<1>2. ASSUME NEW d \in calls' PROVE Real(d.agent) /\ Real(d.tells)
  <2>1. a \in Agent
    BY DEF Exists
  <2>2. PICK c \in waiting : Follows(d, c, v, a)
    BY <2>1, RenderCalls, Zenon
  <2>3. QED
    BY <2>2 DEF Follows, RealCalls, Real
<1>3. QED
  BY <1>1, <1>2 DEF OnlyRealAgents, Real, RealList, RealCalls

\* A step of the server or an entry: agents only come into being.
LEMMA StaysReal ==
  ASSUME OnlyRealAgents, Exists \subseteq Exists', UNCHANGED <<active, view, modal>>,
         RealList(list, active)', RealCalls(calls)'
  PROVE  OnlyRealAgents'
BY DEF OnlyRealAgents, Real

LEMMA FetchReal ==
  ASSUME IInv, OnlyRealAgents, Fetch PROVE OnlyRealAgents'
<1>1. CASE ListIsRead
  <2>1. Exists' = Exists /\ RealCalls(calls)' /\ UNCHANGED <<active, view, modal>>
    BY <1>1 DEF ListIsRead, Exists, OnlyRealAgents, RealCalls, Real
  <2>2. list'.data = list.data /\ list'.got = Exists
    BY <1>1 DEF ListIsRead, Read, IInv, TypeOK, Query
  <2>3. RealList(list, active)'
    BY <2>1, <2>2 DEF OnlyRealAgents, RealList
  <2>4. QED
    BY <2>1, <2>3, StaysReal
<1>2. CASE ListChanges
  <2>1. PICK q \in After(list) : Render(view, active, q, profile, calls)
    BY <1>2 DEF ListChanges
  <2>2. list \in Query(SUBSET Agent) /\ calls \in SUBSET Call
    BY DEF IInv, TypeOK
  <2>3. RealList(q, active)
    BY <2>2, AfterKeeps DEF OnlyRealAgents, RealList
  <2>4. row' = row /\ Real(modal')
    BY <1>2 DEF ListChanges, OnlyRealAgents
  <2>5. QED
    BY <2>1, <2>2, <2>3, <2>4, RenderReal DEF OnlyRealAgents
<1>3. ASSUME NEW a \in Agent, ProfileIsRead(a) PROVE OnlyRealAgents'
  BY <1>3, StaysReal DEF ProfileIsRead, OnlyRealAgents, RealList, RealCalls, Real, Exists
<1>4. ASSUME NEW a \in Agent, ProfileChanges(a) PROVE OnlyRealAgents'
  <2>1. PICK p : Render(view, active, list, p, calls)
    BY <1>4 DEF ProfileChanges
  <2>2. row' = row /\ Real(modal') /\ calls \in SUBSET Call
    BY <1>4 DEF ProfileChanges, OnlyRealAgents, IInv, TypeOK
  <2>3. QED
    BY <2>1, <2>2, RenderReal DEF OnlyRealAgents
<1>5. QED
  BY <1>1, <1>2, <1>3, <1>4 DEF Fetch

LEMMA OpenReal ==
  ASSUME IInv, OnlyRealAgents, NEW v, NEW a \in Exists, Open(v, a, list, calls), row' = row,
         Real(v.about), Real(modal'), RealList(list, a)
  PROVE  OnlyRealAgents'
<1>1. list \in Query(SUBSET Agent) /\ calls \in SUBSET Call
  BY DEF IInv, TypeOK
<1>2. PICK l \in {list, Mounted(list)} : Render(v, a, l, profile, calls)
  BY DEF Open, Asked
<1>3. RealList(l, a)
  BY <1>1, MountedReal DEF OnlyRealAgents
<1>4. QED
  BY <1>1, <1>2, <1>3, RenderReal DEF OnlyRealAgents

LEMMA NavigateReal ==
  ASSUME IInv, OnlyRealAgents, Navigate PROVE OnlyRealAgents'
<1> \A p : Real(Page(p).about)
  BY DEF Page, Real
<1> Real(None)
  BY DEF Real
<1>1. ASSUME NEW p, Go(p) PROVE OnlyRealAgents'
  BY <1>1, OpenReal DEF Go, OnlyRealAgents
<1>2. ASSUME NEW a \in Agent, Choose(a) PROVE OnlyRealAgents'
  <2>1. /\ a \in Exists /\ row' = row /\ Real(modal') /\ calls \in SUBSET Call
        /\ RealList(list, a)
    BY <1>2 DEF Choose, OnlyRealAgents, RealList, IInv, TypeOK
  <2>2. CASE view.at = "new"
    BY <1>2, <2>1, <2>2, OpenReal DEF Choose
  <2>3. CASE view.at # "new"
    BY <1>2, <2>1, <2>3, RenderReal DEF Choose, OnlyRealAgents
  <2>4. QED
    BY <2>2, <2>3
<1>3. CASE EditIt
  <2>1. [view EXCEPT !.at = "edit"].about = view.about
    BY DEF IInv, TypeOK, View
  <2>2. QED
    BY <1>3, <2>1, OpenReal DEF EditIt, OnlyRealAgents
<1>4. CASE KeySaved
  BY <1>4, OpenReal DEF KeySaved, OnlyRealAgents
<1>5. ASSUME NEW v, Real(v.about), Load(v) PROVE OnlyRealAgents'
  <2>1. /\ Exists' = Exists /\ active' = active /\ view' = v /\ modal' = None
        /\ list' = Mounted(Empty)
    BY <1>5 DEF Load, Exists
  <2>2. ASSUME NEW d \in calls' PROVE Real(d.agent) /\ Real(d.tells)
    <3>1. PICK c \in calls : d = [c EXCEPT !.here = "gone"]
      BY <1>5, <2>2 DEF Load
    <3>2. c \in Call /\ d.agent = c.agent /\ d.tells = c.tells
      BY <3>1 DEF IInv, TypeOK, Call
    <3>3. QED
      BY <3>2 DEF OnlyRealAgents, RealCalls
  <2>3. RealList(Mounted(Empty), active)
    BY DEF RealList, Empty, Mounted
  <2>4. QED
    BY <1>5, <2>1, <2>2, <2>3 DEF OnlyRealAgents, Real, RealList, RealCalls
<1>6. ASSUME NEW p, NEW a \in Exists, Load([at |-> p, about |-> a]) PROVE OnlyRealAgents'
  <2>1. Real([at |-> p, about |-> a].about)
    BY DEF Real
  <2>2. QED
    BY <1>6, <2>1, <1>5
<1>7. QED
  BY <1>1, <1>2, <1>3, <1>4, <1>5, <1>6 DEF Navigate

LEMMA PressReal ==
  ASSUME IInv, OnlyRealAgents, Press PROVE OnlyRealAgents'
<1> DEFINE entered == UNCHANGED <<row, active, view, modal, list>>
<1>1. ASSUME entered, NEW a, Real(a), NEW body, Send(a, body) PROVE OnlyRealAgents'
  <2>1. Exists' = Exists /\ RealList(list, active)'
    BY <1>1 DEF Exists, OnlyRealAgents, RealList
  <2>2. ASSUME NEW d \in calls' PROVE Real(d.agent) /\ Real(d.tells)
    <3>1. CASE d \in Left(calls)
      <4>1. PICK c \in calls : d = [c EXCEPT !.here = IF @ = "form" THEN "left" ELSE @]
        BY <3>1 DEF Left
      <4>2. c \in Call /\ d.agent = c.agent /\ d.tells = c.tells
        BY <4>1 DEF IInv, TypeOK, Call
      <4>3. QED
        BY <4>2 DEF OnlyRealAgents, RealCalls
    <3>2. CASE d \notin Left(calls)
      BY <1>1, <2>2, <3>2 DEF Send
    <3>3. QED
      BY <3>1, <3>2
  <2>3. QED
    BY <1>1, <2>1, <2>2, StaysReal DEF RealCalls, Real
<1>2. Real(active) /\ Real(view.about) /\ Real(None)
  BY DEF OnlyRealAgents, Real
<1>3. ASSUME NEW f, NEW v, Enter(f, v) PROVE OnlyRealAgents'
  BY <1>3, StaysReal DEF Enter, OnlyRealAgents, RealList, RealCalls, Real, Exists
<1>4. QED
  BY <1>1, <1>2, <1>3 DEF Press, ToggleTag, SaveCard, SubmitEdit, SubmitNew

LEMMA BlankReal ==
  ASSUME NEW a \in Agent PROVE Blank(a) # None
<1>1. <<a, 0>> \in Value
  BY BoundsAssumption DEF Value
<1>2. Blank(a) \in Profile
  BY <1>1 DEF Blank, Profile
<1>3. QED
  BY <1>2, NoProfileAssumption

LEMMA ServeReal ==
  ASSUME IInv, OnlyRealAgents, NEW c \in calls, Serve(c)
  PROVE  OnlyRealAgents'
<1>1. c \in Call /\ CallOk(c) /\ row \in [Agent -> Profile \cup {None}]
  BY DEF IInv, TypeOK, CallsOk
<1>2. UNCHANGED <<active, view, modal, list>>
  BY DEF Serve
<1>3. CASE /\ c.form \in {"tab", "edit"}
           /\ row' = [row EXCEPT ![c.agent] = Patched(c.agent, c.body)]
           /\ calls' = (calls \ {c}) \cup {[c EXCEPT !.state = "done"]}
  <2>1. c.agent \in Agent /\ row[c.agent] # None /\ c.body \in Body /\ Of(c.agent, c.body)
    BY <1>1, <1>3 DEF CallOk, Call
  <2>2. Patched(c.agent, c.body) # None
    BY <2>1, PatchedTypes, NoProfileAssumption
  <2>3. Exists \subseteq Exists'
    BY <1>1, <1>3, <2>2 DEF Exists
  <2>4. [c EXCEPT !.state = "done"].agent = c.agent /\ [c EXCEPT !.state = "done"].tells = c.tells
    BY <1>1 DEF Call
  <2>5. RealCalls(calls)' /\ RealList(list, active)'
    BY <1>2, <1>3, <2>3, <2>4 DEF OnlyRealAgents, RealCalls, RealList, Real
  <2>6. QED
    BY <1>2, <2>3, <2>5, StaysReal
<1>4. ASSUME NEW a \in Agent \ Exists,
             row' = [row EXCEPT ![a] = Blank(a)],
             calls' = (calls \ {c}) \cup {[c EXCEPT !.state = "done", !.agent = a]}
      PROVE  OnlyRealAgents'
  <2>1. Blank(a) # None
    BY BlankReal
  <2>2. Exists \subseteq Exists' /\ a \in Exists'
    BY <1>1, <1>4, <2>1 DEF Exists
  <2>3. /\ [c EXCEPT !.state = "done", !.agent = a].agent = a
        /\ [c EXCEPT !.state = "done", !.agent = a].tells = c.tells
    BY <1>1 DEF Call
  <2>4. RealCalls(calls)' /\ RealList(list, active)'
    BY <1>2, <1>4, <2>2, <2>3 DEF OnlyRealAgents, RealCalls, RealList, Real
  <2>5. QED
    BY <1>2, <2>2, <2>4, StaysReal
<1>5. QED
  BY <1>3, <1>4 DEF Serve

LEMMA AnswerReal ==
  ASSUME IInv, OnlyRealAgents, NEW c \in calls, NEW ok \in BOOLEAN, Answer(c, ok)
  PROVE  OnlyRealAgents'
<1>1. list \in Query(SUBSET Agent) /\ calls \ {c} \in SUBSET Call /\ view \in View
  BY DEF IInv, TypeOK
<1>2. WatchedNow(None) \in BOOLEAN
  BY Zenon DEF WatchedNow
<1>3. PICK l0 \in {list, Invalidated(list, WatchedNow(None))} :
        \E l \in {l0, Mounted(l0)} : \E p :
          Render(ViewAfter(c, ok), active, l, p, calls \ {c})
  BY DEF Answer, Asked
<1>4. l0 \in Query(SUBSET Agent) /\ RealList(l0, active)
  BY <1>1, <1>2, <1>3, InvalidatedKeeps, InvalidatedReal DEF OnlyRealAgents
<1>5. PICK l \in {l0, Mounted(l0)} : \E p :
        Render(ViewAfter(c, ok), active, l, p, calls \ {c})
  BY <1>3
<1>6. RealList(l, active)
  BY <1>4, <1>5, MountedReal
<1>7. Real(c.agent) /\ RealCalls(calls \ {c})
  BY DEF OnlyRealAgents, RealCalls
<1>8. row' = row /\ Real(modal') /\ Real(ViewAfter(c, ok).about)
  <2>1. row' = row /\ modal' = KeyAfter(c, ok)
    BY DEF Answer
  <2>2. Real(KeyAfter(c, ok))
    BY <1>7 DEF OnlyRealAgents, KeyAfter
  <2>3. Real(ViewAfter(c, ok).about)
    BY <1>7 DEF OnlyRealAgents, ViewAfter, Page, Real
  <2>4. QED
    BY <2>1, <2>2, <2>3 DEF Real, Exists
<1>9. QED
  BY <1>1, <1>5, <1>6, <1>7, <1>8, RenderReal DEF OnlyRealAgents

\* However late an answer, a list or a moved card: no page, list, key or request is about
\* an agent that does not exist (agents.ts:32-79), and no list that arrives lacks the
\* active agent, which AuthedLayout would then replace (AuthedLayout.tsx:52-61).
THEOREM AgentsAreReal == Spec => []OnlyRealAgents
<1>1. Init => OnlyRealAgents
  BY BlankReal DEF Init, OnlyRealAgents, Real, RealList, RealCalls, Exists, Empty, Mounted
<1>2. IInv /\ OnlyRealAgents /\ [Next]_vars => OnlyRealAgents'
  <2> SUFFICES ASSUME IInv, OnlyRealAgents, [Next]_vars PROVE OnlyRealAgents'
    OBVIOUS
  <2>1. CASE UNCHANGED vars
    BY <2>1, StaysReal DEF vars, OnlyRealAgents, RealList, RealCalls, Real, Exists
  <2>2. QED
    BY <2>1, FetchReal, NavigateReal, PressReal, ServeReal, AnswerReal DEF Next, Settle
<1>3. QED
  BY Invariance, <1>1, <1>2, PTL DEF Spec

=============================================================================
