---------------------------- MODULE Pages_proofs ----------------------------
(***************************************************************************)
(* What the dating pages keep, for every set of agents and every bound.    *)
(*                                                                         *)
(* The server only grows: a match stays, an end of a date is final and a   *)
(* rating stays.  So what a row, a page or a request said truly when it    *)
(* was made stays true however late it is used.  What remains is that each *)
(* of them is made truly: rows from the server, pages from rows, requests  *)
(* from pages.                                                             *)
(***************************************************************************)
EXTENDS Pages, TLAPS

Client == <<agent, screen, modal, list, calls, moves>>

\* What the server never takes back.
EndedDate(m, i) == i \in DOMAIN dates[m] /\ Over(dates[m][i])
Grows ==
  /\ matched \subseteq matched'
  /\ rated \subseteq rated'
  /\ \A m \in Match : DOMAIN dates[m] \subseteq DOMAIN dates'[m]
  /\ \A m \in Match : \A i \in DOMAIN dates[m] : Over(dates[m][i]) => Over(dates'[m][i])

GoodRow(r) ==
  /\ r.match \in matched
  /\ r.partner \in OtherSide(r.match)
  /\ r.status \in {"deep_diving", "rating_pending"} => EndedDate(r.match, r.date)
  /\ r.status = "deep_diving" => HasRating(r.match, r.date)
GoodRows == \A a \in Mine : \A r \in Rows(list[a]) \cup list[a].got : GoodRow(r)

GoodScreen ==
  /\ screen.match # None => screen.match \in matched
  /\ screen.at \in {"start", "live", "result", "history"} => screen.match # None
  /\ screen.partner # None => screen.match # None /\ screen.partner \in OtherSide(screen.match)
  /\ screen.at = "result" /\ screen.date > 0 =>
       screen.partner # None /\ EndedDate(screen.match, screen.date)
  /\ screen.at = "live" => screen.date \in DOMAIN dates[screen.match]

GoodModal == modal # None => modal \in matched

\* What a request asks; where its page is, while its callbacks would run.
GoodCall(c) ==
  /\ c.answer # None => c.answer \in matched
  /\ c.kind = "schedule" => c.match \in matched
  /\ c.kind = "result" => EndedDate(c.match, c.date) /\ c.rated \in OtherSide(c.match)
  /\ c.kind = "live" => c.date \in DOMAIN dates[c.match]
AtHome(c) ==
  c.here = "page" /\ c.kind # "swipe" => screen.at = Home(c) /\ screen.match = c.match
GoodCalls == \A c \in calls : GoodCall(c) /\ AtHome(c)

IInv == TypeOK /\ GoodRows /\ GoodScreen /\ GoodModal /\ GoodCalls

----------------------------------------------------------------------------
(* The server.                                                             *)

\* Types of what a match and its parties are.
LEMMA Pairs ==
  ASSUME NEW m \in Match
  PROVE  m[1] \in Agent /\ m[2] \in Agent /\ <<m[2], m[1]>> \in Match /\ m # None
<1>1. CASE m \in Mine \X Other  BY <1>1, AgentsAssumption DEF Match, Agent
<1>2. CASE m \in Other \X Mine  BY <1>2, AgentsAssumption DEF Match, Agent
<1> QED  BY <1>1, <1>2 DEF Match

\* The agent a row shows to one of the user's agents is the other side's.
LEMMA PartnerIsOther ==
  ASSUME NEW m \in Match, NEW a \in Mine, a \in {m[1], m[2]}
  PROVE  Partner(m, a) \in OtherSide(m)
<1>1. CASE m \in Mine \X Other
  BY <1>1, AgentsAssumption DEF Partner, OtherSide
<1>2. CASE m \in Other \X Mine
  BY <1>2, AgentsAssumption DEF Partner, OtherSide
<1> QED  BY <1>1, <1>2 DEF Match

\* A proposal keeps what the match has: its dates, and that some of them are over.
LEMMA ProposedGrows ==
  ASSUME TypeOK, NEW m \in Match, NEW s \in Proposed(m)
  PROVE  /\ s \in Seq(DateStatus)
         /\ DOMAIN dates[m] \subseteq DOMAIN s
         /\ \A i \in DOMAIN dates[m] : Over(dates[m][i]) => Over(s[i])
<1> DEFINE d == dates[m]
<1>0. d \in Seq(DateStatus) /\ Len(d) \in Nat /\ DOMAIN d = 1..Len(d)  BY DEF TypeOK
<1>1. CASE s = Append(d, "proposed")
  <2>1. "proposed" \in DateStatus  BY DEF DateStatus
  <2> QED  BY <1>0, <1>1, <2>1
<1>2. CASE d # <<>> /\ \E x \in DateStatus :
              /\ s = [d EXCEPT ![Len(d)] = x]
              /\ Over(d[Len(d)]) => Over(x)
  <2>1. PICK x \in DateStatus :
          s = [d EXCEPT ![Len(d)] = x] /\ (Over(d[Len(d)]) => Over(x))
    BY <1>2
  <2>0. Len(d) \in DOMAIN d  BY <1>0, <1>2
  <2>2. s \in Seq(DateStatus) /\ DOMAIN s = DOMAIN d  BY <1>0, <2>0, <2>1
  <2>3. \A i \in DOMAIN d : i # Len(d) => s[i] = d[i]  BY <1>0, <2>1
  <2>4. Len(d) \in DOMAIN d => s[Len(d)] = x  BY <1>0, <2>1
  <2> QED  BY <2>1, <2>2, <2>3, <2>4
<1>3. s = Append(d, "proposed") \/ d # <<>>
  BY DEF Proposed
<1>4. s # Append(d, "proposed") =>
        \E x \in DateStatus : s = [d EXCEPT ![Len(d)] = x] /\ (Over(d[Len(d)]) => Over(x))
  <2> SUFFICES ASSUME s # Append(d, "proposed")
               PROVE  \E x \in DateStatus : s = [d EXCEPT ![Len(d)] = x] /\ (Over(d[Len(d)]) => Over(x))
    OBVIOUS
  <2> DEFINE x == CASE d[Len(d)] = "proposed" -> "running"
                    [] d[Len(d)] = "dropped"  -> "ended"
                    [] OTHER -> d[Len(d)]
  <2>1. s = [d EXCEPT ![Len(d)] = x] /\ d # <<>>  BY DEF Proposed, Last
  <2>2. Len(d) \in DOMAIN d  BY <1>0, <2>1
  <2>3. d[Len(d)] \in DateStatus  BY <1>0, <2>2
  <2>4. x \in DateStatus /\ (Over(d[Len(d)]) => Over(x))  BY <2>3 DEF DateStatus, Over
  <2> QED  BY <2>1, <2>4
<1> QED  BY <1>1, <1>2, <1>3, <1>4

\* Replacing the dates of one match by such a sequence makes the server grow.
LEMMA DatesGrow ==
  ASSUME TypeOK, NEW m \in Match, NEW s \in Seq(DateStatus),
         dates' = [dates EXCEPT ![m] = s],
         DOMAIN dates[m] \subseteq DOMAIN s,
         \A i \in DOMAIN dates[m] : Over(dates[m][i]) => Over(s[i])
  PROVE  /\ dates' \in [Match -> Seq(DateStatus)]
         /\ \A k \in Match : DOMAIN dates[k] \subseteq DOMAIN dates'[k]
         /\ \A k \in Match : \A i \in DOMAIN dates[k] : Over(dates[k][i]) => Over(dates'[k][i])
<1>1. dates' \in [Match -> Seq(DateStatus)]  BY DEF TypeOK
<1>2. \A k \in Match : dates'[k] = IF k = m THEN s ELSE dates[k]  BY DEF TypeOK
<1> QED  BY <1>1, <1>2

\* Setting the status of one date that exists.
LEMMA DateGrows ==
  ASSUME TypeOK, NEW m \in Match, NEW i \in DOMAIN dates[m], NEW x \in DateStatus,
         dates' = [dates EXCEPT ![m][i] = x], Over(dates[m][i]) => Over(x)
  PROVE  /\ dates' \in [Match -> Seq(DateStatus)]
         /\ \A k \in Match : DOMAIN dates[k] \subseteq DOMAIN dates'[k]
         /\ \A k \in Match : \A j \in DOMAIN dates[k] : Over(dates[k][j]) => Over(dates'[k][j])
         /\ dates'[m][i] = x
<1> DEFINE s == [dates[m] EXCEPT ![i] = x]
<1>1. dates[m] \in Seq(DateStatus)  BY DEF TypeOK
<1>2. s \in Seq(DateStatus) /\ DOMAIN s = DOMAIN dates[m]  BY <1>1
<1>3. \A j \in DOMAIN dates[m] : s[j] = IF j = i THEN x ELSE dates[m][j]  BY <1>1
<1>4. \A j \in DOMAIN dates[m] : Over(dates[m][j]) => Over(s[j])  BY <1>3
<1>5. dates' = [dates EXCEPT ![m] = s]  BY DEF TypeOK
<1>6. dates'[m] = s  BY <1>5 DEF TypeOK
<1> HIDE DEF s
<1> QED  BY <1>2, <1>3, <1>4, <1>5, <1>6, DatesGrow

\* What was true of a date, a rating, a row, a page or a request stays true.
LEMMA GoodStays ==
  ASSUME TypeOK, Grows
  PROVE  /\ \A m \in Match, i \in Nat : EndedDate(m, i) => EndedDate(m, i)'
         /\ \A m, i : HasRating(m, i) => HasRating(m, i)'
         /\ \A r \in Row : GoodRow(r) => GoodRow(r)'
         /\ \A c \in Call : GoodCall(c) => GoodCall(c)'
<1>1. \A m \in Match, i \in Nat : EndedDate(m, i) => EndedDate(m, i)'
  BY DEF EndedDate, Grows
<1>2. \A m, i : HasRating(m, i) => HasRating(m, i)'
  BY DEF HasRating, Grows
<1>3. ASSUME NEW r \in Row, GoodRow(r)  PROVE GoodRow(r)'
  <2>1. r.match \in Match /\ r.date \in Nat  BY DEF Row
  <2> QED  BY <1>1, <1>2, <1>3, <2>1 DEF GoodRow, Grows, OtherSide
<1>4. ASSUME NEW c \in Call, GoodCall(c)  PROVE GoodCall(c)'
  <2>1. c.match \in Match /\ c.date \in Nat  BY DEF Call
  <2> QED  BY <1>1, <1>4, <2>1 DEF GoodCall, Grows, OtherSide
<1> QED  BY <1>1, <1>2, <1>3, <1>4

\* A step of the server, with types, keeps the invariant if the requests stay good.
LEMMA ServerKeeps ==
  ASSUME IInv, Grows, UNCHANGED <<agent, screen, modal, list, moves>>,
         matched' \subseteq Match, dates' \in [Match -> Seq(DateStatus)], rated' \subseteq Rating,
         calls' \subseteq Call, \A c \in calls' : GoodCall(c)' /\ AtHome(c)
  PROVE  IInv'
<1> USE DEF IInv
<1>1. TypeOK'  BY DEF TypeOK
<1>2. GoodRows'
  <2>1. \A a \in Mine : Rows(list[a]) \cup list[a].got \subseteq Row
    BY DEF TypeOK, List, Rows
  <2>2. \A a \in Mine : \A r \in Rows(list[a]) \cup list[a].got : GoodRow(r)'
    BY <2>1, GoodStays DEF GoodRows
  <2> QED  BY <2>2 DEF GoodRows, Rows
<1>3. GoodScreen'
  <2>1. screen.match \in Match \cup {None} /\ screen.date \in Nat  BY DEF TypeOK, Screen
  <2>2. screen.match # None => screen.match \in Match  BY <2>1
  <2> QED  BY <2>1, <2>2, GoodStays DEF GoodScreen, Grows, OtherSide, TypeOK
<1>4. GoodModal'  BY DEF GoodModal, Grows
<1>5. GoodCalls'
  <2>1. \A c \in calls' : AtHome(c)'  BY DEF AtHome, Home
  <2> QED  BY <2>1 DEF GoodCalls
<1> QED  BY <1>1, <1>2, <1>3, <1>4, <1>5

\* Requests that were there are still good.
LEMMA CallsStay ==
  ASSUME IInv, Grows
  PROVE  \A c \in calls : GoodCall(c)' /\ AtHome(c)
BY GoodStays DEF IInv, TypeOK, GoodCalls

LEMMA ServeKeeps ==
  ASSUME IInv, NEW c \in calls, Serve(c)
  PROVE  IInv'
<1> USE DEF Serve
<1>0. TypeOK /\ c \in Call /\ GoodCall(c) /\ AtHome(c)
  BY DEF IInv, TypeOK, GoodCalls
<1> DEFINE d == [c EXCEPT !.state = "done"]
<1>1. d \in Call /\ d.kind = c.kind /\ d.match = c.match /\ d.date = c.date /\ d.rated = c.rated
      /\ d.here = c.here /\ d.answer = c.answer
  BY <1>0 DEF Call
<1>2. CASE ServeSwipe(c)
  <2>1. CASE UNCHANGED matched /\ calls' = (calls \ {c}) \cup {d}
    <3>1. Grows  BY <1>2, <2>1 DEF ServeSwipe, Grows
    <3>2. GoodCall(d)' /\ AtHome(d)
      BY <1>0, <1>1, <3>1, CallsStay DEF GoodCall, AtHome, Home
    <3>3. calls' \subseteq Call  BY <1>0, <1>1, <2>1 DEF TypeOK
    <3>4. \A k \in calls' : GoodCall(k)' /\ AtHome(k)  BY <2>1, <3>1, <3>2, CallsStay
    <3> HIDE DEF d
    <3> QED  BY <1>0, <1>2, <2>1, <3>1, <3>3, <3>4, ServerKeeps DEF TypeOK, ServeSwipe
  <2>2. ASSUME NEW m \in {c.match, <<c.match[2], c.match[1]>>},
               matched' = matched \cup {m},
               calls' = (calls \ {c}) \cup {[c EXCEPT !.state = "done", !.answer = m]}
        PROVE  IInv'
    <3> DEFINE e == [c EXCEPT !.state = "done", !.answer = m]
    <3>1. m \in Match  BY <1>0, Pairs DEF Call
    <3>2. e \in Call /\ e.kind = c.kind /\ e.match = c.match /\ e.here = c.here /\ e.answer = m
      BY <1>0, <3>1 DEF Call
    <3>3. Grows  BY <1>2, <2>2 DEF ServeSwipe, Grows
    <3>4. GoodCall(e)' /\ AtHome(e)
      BY <1>0, <1>2, <2>2, <3>2 DEF GoodCall, AtHome, Home, ServeSwipe
    <3>5. calls' \subseteq Call  BY <1>0, <2>2, <3>2 DEF TypeOK
    <3>6. \A k \in calls' : GoodCall(k)' /\ AtHome(k)  BY <2>2, <3>3, <3>4, CallsStay
    <3>7. matched' \subseteq Match  BY <1>0, <2>2, <3>1 DEF TypeOK
    <3> HIDE DEF e
    <3> QED  BY <1>0, <1>2, <3>3, <3>5, <3>6, <3>7, ServerKeeps DEF TypeOK, ServeSwipe
  <2> QED  BY <1>2, <2>1, <2>2 DEF ServeSwipe
<1>3. CASE ServeSchedule(c)
  <2>1. PICK s \in Proposed(c.match) : dates' = [dates EXCEPT ![c.match] = s]
    BY <1>3 DEF ServeSchedule
  <2>2. c.match \in Match  BY <1>0 DEF Call
  <2>3. /\ s \in Seq(DateStatus) /\ DOMAIN dates[c.match] \subseteq DOMAIN s
        /\ \A i \in DOMAIN dates[c.match] : Over(dates[c.match][i]) => Over(s[i])
    BY <1>0, <2>2, ProposedGrows
  <2>4. dates' \in [Match -> Seq(DateStatus)] /\ Grows
    BY <1>0, <1>3, <2>1, <2>2, <2>3, DatesGrow DEF Grows, ServeSchedule
  <2>5. GoodCall(d)' /\ AtHome(d)
    BY <1>0, <1>1, <2>4, CallsStay DEF GoodCall, AtHome, Home, EndedDate
  <2>6. calls' \subseteq Call  BY <1>0, <1>1, <1>3 DEF TypeOK, ServeSchedule
  <2>7. \A k \in calls' : GoodCall(k)' /\ AtHome(k)
    BY <1>3, <2>4, <2>5, CallsStay DEF ServeSchedule
  <2> HIDE DEF d
  <2> QED  BY <1>0, <1>3, <2>4, <2>6, <2>7, ServerKeeps DEF TypeOK, ServeSchedule
<1>4. CASE ServeEnd(c)
  <2>1. c.match \in Match /\ c.date \in DOMAIN dates[c.match]
    BY <1>0, <1>4 DEF Call, ServeEnd, GoodCall, EndedDate
  <2>2. dates[c.match][c.date] \in DateStatus  BY <1>0, <2>1 DEF TypeOK
  <2> DEFINE x == Closed(dates[c.match][c.date])
  <2>3. x \in DateStatus /\ Over(x)  BY <2>2 DEF Closed, DateStatus, Over
  <2>4. dates' = [dates EXCEPT ![c.match][c.date] = x]  BY <1>4 DEF ServeEnd
  <2>5. dates' \in [Match -> Seq(DateStatus)]
        /\ (\A k \in Match : DOMAIN dates[k] \subseteq DOMAIN dates'[k])
        /\ (\A k \in Match : \A j \in DOMAIN dates[k] : Over(dates[k][j]) => Over(dates'[k][j]))
    <3> HIDE DEF x
    <3> QED  BY <1>0, <2>1, <2>3, <2>4, DateGrows
  <2>6. Grows  BY <1>4, <2>5 DEF Grows, ServeEnd
  <2>7. rated' \subseteq Rating
    BY <1>0, <1>4 DEF TypeOK, ServeEnd, Rating, Call
  <2>8. GoodCall(d)' /\ AtHome(d)
    BY <1>0, <1>1, <2>6, CallsStay DEF GoodCall, AtHome, Home, EndedDate
  <2>9. calls' \subseteq Call  BY <1>0, <1>1, <1>4 DEF TypeOK, ServeEnd
  <2>10. \A k \in calls' : GoodCall(k)' /\ AtHome(k)
    BY <1>4, <2>6, <2>8, CallsStay DEF ServeEnd
  <2> HIDE DEF d, x
  <2> QED  BY <1>0, <1>4, <2>5, <2>6, <2>7, <2>9, <2>10, ServerKeeps DEF TypeOK, ServeEnd
<1> QED  BY <1>2, <1>3, <1>4

LEMMA ElsewhereKeeps ==
  ASSUME IInv, Elsewhere
  PROVE  IInv'
<1>0. TypeOK  BY DEF IInv
<1>1. PICK m \in Match : \/ MatchForms(m) \/ PartnerProposes(m) \/ DateEnds(m)
                         \/ \E i \in 1..MaxDates : PartnerRates(m, i)
  BY DEF Elsewhere
<1>2. /\ Grows
      /\ matched' \subseteq Match /\ dates' \in [Match -> Seq(DateStatus)] /\ rated' \subseteq Rating
  <2>1. CASE MatchForms(m)
    BY <1>0, <2>1 DEF MatchForms, Grows, TypeOK
  <2>2. CASE PartnerProposes(m)
    <3>1. PICK s \in Proposed(m) : dates' = [dates EXCEPT ![m] = s]
      BY <2>2 DEF PartnerProposes
    <3>2. /\ s \in Seq(DateStatus) /\ DOMAIN dates[m] \subseteq DOMAIN s
          /\ \A i \in DOMAIN dates[m] : Over(dates[m][i]) => Over(s[i])
      BY <1>0, ProposedGrows
    <3> QED  BY <1>0, <2>2, <3>1, <3>2, DatesGrow DEF Grows, PartnerProposes, TypeOK
  <2>3. CASE DateEnds(m)
    <3>1. Len(dates[m]) \in DOMAIN dates[m]  BY <1>0, <2>3 DEF TypeOK, DateEnds
    <3>2. "ended" \in DateStatus /\ Over("ended")  BY DEF DateStatus, Over
    <3> QED  BY <1>0, <2>3, <3>1, <3>2, DateGrows DEF Grows, DateEnds, TypeOK
  <2>4. ASSUME NEW i \in 1..MaxDates, PartnerRates(m, i)  PROVE <1>2!1 /\ <1>2!2
    <3>1. \A a \in Mine : <<m, i, a>> \in Rating
      BY BoundsAssumption DEF Rating, Agent
    <3> QED  BY <1>0, <2>4, <3>1 DEF PartnerRates, Grows, TypeOK
  <2> QED  BY <1>1, <2>1, <2>2, <2>3, <2>4
<1>3. \A c \in calls' : GoodCall(c)' /\ AtHome(c)  BY <1>2, CallsStay DEF Elsewhere
<1> QED  BY <1>0, <1>2, <1>3, ServerKeeps DEF Elsewhere, TypeOK

----------------------------------------------------------------------------
(* The browser.                                                            *)

\* A row, a page and a request are as good after a step that leaves the server alone.
LEMMA GoodSame ==
  ASSUME Stays \/ UNCHANGED server
  PROVE  /\ \A r : GoodRow(r)' <=> GoodRow(r)
         /\ \A c : GoodCall(c)' <=> GoodCall(c)
         /\ \A m, i : EndedDate(m, i)' <=> EndedDate(m, i)
BY DEF Stays, server, GoodRow, GoodCall, EndedDate, HasRating, OtherSide

\* The requests a page leaves behind.
LEMMA LeftKeeps ==
  ASSUME NEW w, w \subseteq Call, \A c \in w : GoodCall(c)
  PROVE  /\ Left(w) \subseteq Call
         /\ \A c \in Left(w) : GoodCall(c) /\ c.here # "page"
<1> SUFFICES ASSUME NEW c \in w
             PROVE  LET d == [c EXCEPT !.here = IF @ = "page" THEN "app" ELSE @]
                    IN d \in Call /\ GoodCall(d) /\ d.here # "page"
  BY DEF Left
<1> DEFINE d == [c EXCEPT !.here = IF @ = "page" THEN "app" ELSE @]
<1>1. d \in Call /\ d.kind = c.kind /\ d.match = c.match /\ d.date = c.date
      /\ d.rated = c.rated /\ d.answer = c.answer /\ d.here # "page"
  BY DEF Call
<1> HIDE DEF d
<1>2. GoodCall(d)  BY <1>1 DEF GoodCall
<1> QED  BY <1>1, <1>2 DEF d

\* A query that is asked for, or asked for again, has the rows it had.
LEMMA QueryKeeps ==
  ASSUME NEW q \in List, NEW shown \in BOOLEAN
  PROVE  /\ Mounted(q) \in List /\ Invalidated(q, shown) \in List
         /\ Rows(Mounted(q)) \cup Mounted(q).got \subseteq Rows(q) \cup q.got
         /\ Rows(Invalidated(q, shown)) \cup Invalidated(q, shown).got
              \subseteq Rows(q) \cup q.got
<1> DEFINE stale == [q EXCEPT !.fresh = FALSE]
<1>1. stale \in List /\ stale.rows = q.rows /\ stale.got = q.got /\ stale.error = q.error
  BY DEF List
<1>2. \A p \in List : /\ Mounted(p) \in List
                      /\ Mounted(p).rows = p.rows /\ Mounted(p).error = p.error
                      /\ Mounted(p).got = p.got
  BY DEF Mounted, List
<1>3. [stale EXCEPT !.fetch = "sent", !.got = {}] \in List
      /\ [stale EXCEPT !.fetch = "sent", !.got = {}].rows = q.rows
      /\ [stale EXCEPT !.fetch = "sent", !.got = {}].error = q.error
      /\ [stale EXCEPT !.fetch = "sent", !.got = {}].got = {}
  BY DEF List
<1>4. Invalidated(q, shown) \in {stale, [stale EXCEPT !.fetch = "sent", !.got = {}], Mounted(stale)}
  BY DEF Invalidated
<1>5. \A p \in List : p.rows = q.rows /\ p.error = q.error /\ (p.got = q.got \/ p.got = {}) =>
        Rows(p) \cup p.got \subseteq Rows(q) \cup q.got
  BY DEF Rows
<1> DEFINE again == [stale EXCEPT !.fetch = "sent", !.got = {}]
<1> HIDE DEF stale
<1>6. \A p \in {stale, again, Mounted(stale), Mounted(q)} :
        p \in List /\ p.rows = q.rows /\ p.error = q.error /\ (p.got = q.got \/ p.got = {})
  <2> HIDE DEF again
  <2> QED  BY <1>1, <1>2, <1>3 DEF again
<1> HIDE DEF again
<1>7. Invalidated(q, shown) \in {stale, again, Mounted(stale)}  BY <1>4 DEF again
<1> QED  BY <1>5, <1>6, <1>7

\* Opening a page that shows what is true.
LEMMA OpenKeeps ==
  ASSUME IInv, NEW s \in Screen, NEW w \in SUBSET calls, Open(s, w), Stays,
         moves' \in 0..MaxMoves, GoodScreen'
  PROVE  IInv'
<1>0. TypeOK /\ agent \in Mine /\ list \in [Mine -> List] /\ w \subseteq Call
  BY DEF IInv, TypeOK
<1>1. \A a \in Mine : /\ list'[a] \in List
                      /\ Rows(list'[a]) \cup list'[a].got \subseteq Rows(list[a]) \cup list[a].got
  BY <1>0, QueryKeeps DEF Open
<1>2. list' \in [Mine -> List]  BY <1>0, <1>1 DEF Open
<1>3. calls' \subseteq Call /\ \A c \in calls' : GoodCall(c) /\ c.here # "page"
  BY <1>0, LeftKeeps DEF Open, IInv, GoodCalls
<1>4. TypeOK'  BY <1>0, <1>2, <1>3 DEF TypeOK, Open, Stays
<1>5. GoodRows'
  <2>1. \A a \in Mine : \A r \in Rows(list'[a]) \cup list'[a].got : GoodRow(r)
    BY <1>1 DEF IInv, GoodRows
  <2> QED  BY <2>1, GoodSame DEF GoodRows, Rows
<1>6. GoodModal'  BY DEF Open, GoodModal
<1>7. GoodCalls'
  <2>1. \A c \in calls' : GoodCall(c)'  BY <1>3, GoodSame
  <2>2. \A c \in calls' : AtHome(c)'  BY <1>3 DEF AtHome
  <2> QED  BY <2>1, <2>2 DEF GoodCalls
<1> QED  BY <1>4, <1>5, <1>6, <1>7 DEF IInv

LEMMA MoveCounts ==
  ASSUME TypeOK, Move
  PROVE  moves' \in 0..MaxMoves /\ moves' # moves
BY BoundsAssumption DEF TypeOK, Move

LEMMA NavigateKeeps ==
  ASSUME IInv, Navigate
  PROVE  IInv'
<1> USE DEF IInv
<1>0. Move => moves' \in 0..MaxMoves
  BY MoveCounts
<1>00. TypeOK /\ screen \in Screen /\ calls \in SUBSET calls  BY DEF TypeOK
<1>a. None \notin Match  BY Pairs
<1>1. ASSUME NEW p \in {"feed", "discover", "matches"}, Go(p)  PROVE IInv'
  <2>1. At(p) \in Screen  BY DEF At, Screen
  <2>2. GoodScreen'  BY <1>1 DEF Go, Open, GoodScreen, At
  <2> QED  BY <1>0, <1>00, <1>1, <2>1, <2>2, OpenKeeps DEF Go
<1>2. ASSUME NEW a \in Mine, ChooseAgent(a)  PROVE IInv'
  <2>1. TypeOK'  BY <1>0, <1>00, <1>2 DEF ChooseAgent, TypeOK
  <2>2. GoodRows'  BY <1>2, GoodSame DEF ChooseAgent, GoodRows, server, Rows
  <2>3. GoodScreen'  BY <1>2 DEF ChooseAgent, GoodScreen, EndedDate, OtherSide
  <2>4. GoodModal'  BY <1>2 DEF ChooseAgent, GoodModal
  <2>5. GoodCalls'  BY <1>2, GoodSame DEF ChooseAgent, GoodCalls, AtHome, Home, server
  <2> QED  BY <2>1, <2>2, <2>3, <2>4, <2>5
<1>3. CASE KeepSwiping
  <2>1. TypeOK'  BY <1>3 DEF KeepSwiping, TypeOK
  <2>2. GoodRows'  BY <1>3, GoodSame DEF KeepSwiping, GoodRows, server, Rows
  <2>3. GoodScreen'  BY <1>3 DEF KeepSwiping, GoodScreen, EndedDate, OtherSide
  <2>4. GoodModal'  BY <1>3 DEF KeepSwiping, GoodModal
  <2>5. GoodCalls'  BY <1>3, GoodSame DEF KeepSwiping, GoodCalls, AtHome, Home, server
  <2> QED  BY <2>1, <2>2, <2>3, <2>4, <2>5
<1>4. CASE StartFromModal
  <2> DEFINE s == [At("start") EXCEPT !.match = modal]
  <2>1. s \in Screen /\ s.at = "start" /\ s.match = modal /\ s.partner = None
    BY <1>00 DEF At, Screen, TypeOK
  <2>2. screen' = s /\ matched' = matched /\ modal \in matched
    BY <1>4 DEF StartFromModal, Open, GoodModal, Stays
  <2>3. Open(s, calls)  BY <1>4 DEF StartFromModal
  <2> HIDE DEF s
  <2>4. GoodScreen'  BY <1>4, <2>1, <2>2 DEF StartFromModal, GoodScreen
  <2> QED  BY <1>0, <1>00, <1>4, <2>1, <2>3, <2>4, OpenKeeps DEF StartFromModal
<1>5. ASSUME NEW r \in Rows(list[agent]), OpenCard(r)  PROVE IInv'
  <2> DEFINE s == [at |-> CtaPage(r.status), match |-> r.match, date |-> r.date,
                   partner |-> r.partner]
  <2>1. r \in Row /\ GoodRow(r)  BY <1>00 DEF TypeOK, List, Rows, GoodRows
  <2>2. s \in Screen  BY <2>1 DEF Screen, Row, CtaPage
  <2>3. /\ s.match = r.match /\ s.date = r.date /\ s.partner = r.partner
        /\ s.at \in {"chat", "result", "start"}
        /\ s.at = "result" => r.status \in {"deep_diving", "rating_pending"}
    BY DEF CtaPage
  <2>4. Open(s, calls) /\ Stays /\ screen' = s  BY <1>5 DEF OpenCard, Open
  <2> HIDE DEF s
  <2>5. GoodRow(r)' /\ r.match # None /\ r.partner # None
    BY <1>a, <2>1, <2>4, GoodSame, AgentsAssumption DEF Row, GoodRow, OtherSide, TypeOK
  <2>6. GoodScreen'  BY <1>a, <2>1, <2>3, <2>4, <2>5 DEF GoodScreen, GoodRow, Row, EndedDate, OtherSide
  <2> QED  BY <1>0, <1>00, <1>5, <2>2, <2>4, <2>6, OpenKeeps DEF OpenCard
<1>6. ASSUME NEW m \in Match, OpenHistory(m)  PROVE IInv'
  <2> DEFINE s == [At("history") EXCEPT !.match = m]
  <2>1. s \in Screen /\ s.at = "history" /\ s.match = m /\ s.partner = None
    BY DEF At, Screen
  <2>2. Open(s, calls) /\ screen' = s  BY <1>6 DEF OpenHistory, Open
  <2> HIDE DEF s
  <2>3. GoodScreen'  BY <1>6, <1>a, <2>1, <2>2 DEF OpenHistory, GoodScreen, Stays
  <2> QED  BY <1>0, <1>00, <1>6, <2>1, <2>2, <2>3, OpenKeeps DEF OpenHistory
<1>7. CASE RateFromHistory
  <2> DEFINE s == [At("result") EXCEPT !.match = screen.match]
  <2>1. s \in Screen /\ s.at = "result" /\ s.match = screen.match /\ s.partner = None /\ s.date = 0
    BY <1>00 DEF At, Screen
  <2>2. Open(s, calls) /\ screen' = s  BY <1>7 DEF RateFromHistory, Open
  <2> HIDE DEF s
  <2>3. s.match # None /\ s.match \in matched'  BY <1>7, <2>1 DEF RateFromHistory, GoodScreen, Stays
  <2>4. GoodScreen'  BY <2>1, <2>2, <2>3 DEF GoodScreen
  <2> QED  BY <1>0, <1>00, <1>7, <2>1, <2>2, <2>4, OpenKeeps DEF RateFromHistory
<1>8. ASSUME NEW m \in Match, NEW i \in 1..MaxDates, OpenLive(m, i)  PROVE IInv'
  <2> DEFINE s == [at |-> "live", match |-> m, date |-> i, partner |-> None]
             blank == Empty
  <2>1. s \in Screen /\ s.at = "live" /\ s.match = m /\ s.partner = None /\ s.date = i
    <3>1. i \in Nat  BY BoundsAssumption
    <3> QED  BY <3>1 DEF Screen
  <2>2. screen' = s  BY <1>8 DEF OpenLive
  <2>3. blank \in List /\ Rows(blank) = {} /\ blank.got = {}  BY DEF List, Rows, Empty
  <2>4. list' \in [Mine -> List] /\ \A a \in Mine : list'[a] = blank
    <3>1. list' = [a \in Mine |-> blank]  BY <1>8 DEF OpenLive
    <3> HIDE DEF blank
    <3> QED  BY <2>3, <3>1
  <2> HIDE DEF s, blank
  <2>5. GoodScreen'
    BY <1>8, <1>a, <2>1, <2>2 DEF OpenLive, GoodScreen, Stays
  <2>6. calls' \subseteq Call /\ \A c \in calls' : GoodCall(c) /\ c.here # "page"
    <3>1. ASSUME NEW c \in calls
          PROVE  LET d == [c EXCEPT !.here = "gone"] IN d \in Call /\ GoodCall(d) /\ d.here # "page"
      <4> DEFINE d == [c EXCEPT !.here = "gone"]
      <4>1. c \in Call /\ GoodCall(c)  BY <1>00 DEF TypeOK, GoodCalls
      <4>2. d \in Call /\ d.kind = c.kind /\ d.match = c.match /\ d.date = c.date
            /\ d.rated = c.rated /\ d.answer = c.answer /\ d.here # "page"
        BY <4>1 DEF Call
      <4> HIDE DEF d
      <4>3. GoodCall(d)  BY <4>1, <4>2 DEF GoodCall
      <4> QED  BY <4>2, <4>3 DEF d
    <3> QED  BY <1>8, <3>1 DEF OpenLive
  <2>7. TypeOK'  BY <1>0, <1>00, <1>8, <2>1, <2>2, <2>4, <2>6 DEF OpenLive, TypeOK, Stays
  <2>8. GoodRows'  BY <2>3, <2>4 DEF GoodRows, Rows
  <2>9. GoodModal'  BY <1>8 DEF OpenLive, GoodModal
  <2>10. GoodCalls'
    <3>1. \A c \in calls' : GoodCall(c)'  BY <1>8, <2>6, GoodSame DEF OpenLive
    <3>2. \A c \in calls' : AtHome(c)'  BY <2>6 DEF AtHome
    <3> QED  BY <3>1, <3>2 DEF GoodCalls
  <2> QED  BY <2>5, <2>7, <2>8, <2>9, <2>10
<1> QED  BY <1>1, <1>2, <1>3, <1>4, <1>5, <1>6, <1>7, <1>8 DEF Navigate

\* A request that asks well, sent by the page it belongs to.
LEMMA SendKeeps ==
  ASSUME IInv, NEW kind \in CallKind, NEW m \in Match, NEW i \in Nat, NEW a \in Agent \cup {None},
         Send(kind, m, i, a), moves' \in 0..MaxMoves,
         kind = "schedule" => m \in matched,
         kind = "result" => EndedDate(m, i) /\ a \in OtherSide(m),
         kind = "live" => i \in DOMAIN dates[m],
         kind # "swipe" => screen.match = m /\ screen.at = CASE kind = "schedule" -> "start"
                                                             [] OTHER -> kind
  PROVE  IInv'
<1> USE DEF IInv
<1>0. TypeOK /\ calls \subseteq Call  BY DEF TypeOK
<1> DEFINE k == CHOOSE x \in Unused : TRUE
           c == [n |-> k, kind |-> kind, match |-> m, date |-> i, rated |-> a,
                 here |-> "page", state |-> "sent", answer |-> None]
<1>1. k \in Nat
  <2>1. k \in Unused  BY DEF Send
  <2> QED  BY <2>1, BoundsAssumption DEF Unused
<1>2. calls' = Left(calls) \cup {c}  BY DEF Send
<1> HIDE DEF k
<1>3. c \in Call /\ c.kind = kind /\ c.match = m /\ c.date = i /\ c.rated = a
      /\ c.answer = None /\ c.here = "page"
  BY <1>1 DEF Call
<1> HIDE DEF c
<1>4. GoodCall(c) /\ AtHome(c)  BY <1>3 DEF GoodCall, AtHome, Home, CallKind
<1>5. calls' \subseteq Call /\ \A d \in calls' : GoodCall(d) /\ AtHome(d)
  <2>1. Left(calls) \subseteq Call /\ \A d \in Left(calls) : GoodCall(d) /\ d.here # "page"
    BY <1>0, LeftKeeps DEF GoodCalls
  <2> QED  BY <1>2, <1>3, <1>4, <2>1 DEF AtHome
<1>6. UNCHANGED server /\ UNCHANGED <<agent, screen, modal, list>>  BY DEF Send, server
<1>7. TypeOK'  BY <1>0, <1>5, <1>6 DEF TypeOK, server
<1>8. GoodRows'  BY <1>6, GoodSame DEF GoodRows, Rows
<1>9. GoodScreen'  BY <1>6 DEF GoodScreen, EndedDate, OtherSide, server
<1>10. GoodModal'  BY <1>6 DEF GoodModal, server
<1>11. GoodCalls'  BY <1>5, <1>6, GoodSame DEF GoodCalls, AtHome, Home
<1> QED  BY <1>7, <1>8, <1>9, <1>10, <1>11

LEMMA PressKeeps ==
  ASSUME IInv, Press
  PROVE  IInv'
<1> USE DEF IInv
<1>0. TypeOK /\ screen \in Screen /\ agent \in Mine  BY DEF TypeOK
<1>1. Move => moves' \in 0..MaxMoves  BY <1>0, MoveCounts
<1>2. ASSUME NEW o \in Other, Like(o)  PROVE IInv'
  <2>1. <<agent, o>> \in Match /\ "swipe" \in CallKind  BY <1>0 DEF Match, CallKind
  <2>2. Send("swipe", <<agent, o>>, 0, None)  BY <1>2 DEF Like
  <2> QED  BY <1>1, <1>2, <2>1, <2>2, SendKeeps DEF Like
<1>3. CASE Start
  <2>1. screen.match \in matched /\ screen.match \in Match /\ "schedule" \in CallKind
    BY <1>0, <1>3 DEF Start, GoodScreen, TypeOK, CallKind
  <2>2. Send("schedule", screen.match, 0, None) /\ screen.at = "start"  BY <1>3 DEF Start
  <2> QED  BY <1>1, <1>3, <2>1, <2>2, SendKeeps DEF Start
<1>4. CASE Done
  <2>1. /\ screen.at = "result" /\ screen.date \in Nat /\ screen.date > 0
        /\ Send("result", screen.match, screen.date, screen.partner)
        /\ screen.partner \in Agent \cup {None} /\ "result" \in CallKind
    BY <1>0, <1>4 DEF Done, Screen, CallKind
  <2>2. /\ screen.match \in Match
        /\ EndedDate(screen.match, screen.date)
        /\ screen.partner \in OtherSide(screen.match)
    BY <1>0, <2>1 DEF GoodScreen, Screen
  <2> QED  BY <1>1, <1>4, <2>1, <2>2, SendKeeps DEF Done
<1>5. CASE RateLive
  <2>1. /\ screen.at = "live" /\ screen.date \in Nat /\ "live" \in CallKind
        /\ Send("live", screen.match, screen.date, None)
    BY <1>0, <1>5 DEF RateLive, Screen, CallKind
  <2>2. screen.match \in Match /\ screen.date \in DOMAIN dates[screen.match]
    BY <1>0, <2>1 DEF GoodScreen, Screen
  <2> QED  BY <1>1, <1>5, <2>1, <2>2, SendKeeps DEF RateLive
<1> QED  BY <1>2, <1>3, <1>4, <1>5 DEF Press

\* A new list, with types and good rows, keeps the invariant.
LEMMA ListKeeps ==
  ASSUME IInv, UNCHANGED <<matched, dates, rated, agent, screen, modal, calls, moves>>,
         list' \in [Mine -> List],
         \A a \in Mine : \A r \in Rows(list'[a]) \cup list'[a].got : GoodRow(r)
  PROVE  IInv'
<1> USE DEF IInv
<1>1. UNCHANGED server  BY DEF server
<1>2. TypeOK'  BY DEF TypeOK
<1>3. GoodRows'  BY <1>1, GoodSame DEF GoodRows, Rows
<1>4. GoodScreen'  BY DEF GoodScreen, EndedDate, OtherSide
<1>5. GoodModal'  BY DEF GoodModal
<1>6. GoodCalls'  BY <1>1, GoodSame DEF GoodCalls, AtHome, Home
<1> QED  BY <1>2, <1>3, <1>4, <1>5, <1>6

\* The server's answer: rows of the agent of the query, whoever is active.
LEMMA RowsAreGood ==
  ASSUME TypeOK, NEW a \in Mine
  PROVE  RowsOf(a) \subseteq Row /\ \A r \in RowsOf(a) : GoodRow(r)
<1> SUFFICES ASSUME NEW m \in matched, a \in {m[1], m[2]}
             PROVE  RowOf(m, a) \in Row /\ GoodRow(RowOf(m, a))
  BY DEF RowsOf
<1>1. m \in Match /\ dates[m] \in Seq(DateStatus)  BY DEF TypeOK
<1>2. Len(dates[m]) \in Nat /\ (dates[m] # <<>> => Len(dates[m]) \in DOMAIN dates[m])
  BY <1>1
<1>3. Partner(m, a) \in OtherSide(m) /\ Partner(m, a) \in Agent
  BY <1>1, PartnerIsOther, Pairs DEF Partner
<1>4. /\ Derived(m) \in {"idle", "coffee_chatting", "rating_pending", "deep_diving"}
      /\ Derived(m) \in {"deep_diving", "rating_pending"} =>
           dates[m] # <<>> /\ Over(Last(dates[m]))
      /\ Derived(m) = "deep_diving" => HasRating(m, Len(dates[m]))
  <2>1. CASE dates[m] = <<>>  BY <2>1 DEF Derived
  <2>2. CASE dates[m] # <<>> /\ Last(dates[m]) = "running"  BY <2>2 DEF Derived
  <2>3. CASE dates[m] # <<>> /\ Last(dates[m]) # "running" /\ Over(Last(dates[m]))
    BY <2>3 DEF Derived
  <2>4. CASE dates[m] # <<>> /\ Last(dates[m]) # "running" /\ ~Over(Last(dates[m]))
    BY <2>4 DEF Derived
  <2> QED  BY <2>1, <2>2, <2>3, <2>4
<1> DEFINE r == RowOf(m, a)
<1>5. r = [match |-> m, date |-> Len(dates[m]), partner |-> Partner(m, a), status |-> Derived(m)]
  BY DEF RowOf
<1> HIDE DEF r
<1>6. r \in Row /\ r.match = m /\ r.date = Len(dates[m]) /\ r.partner = Partner(m, a)
      /\ r.status = Derived(m)
  BY <1>1, <1>2, <1>3, <1>4, <1>5 DEF Row
<1>7. GoodRow(r)  BY <1>2, <1>3, <1>4, <1>6 DEF GoodRow, EndedDate, Last
<1> QED  BY <1>6, <1>7 DEF r

LEMMA CacheKeeps ==
  ASSUME IInv, Cache
  PROVE  IInv'
<1>0. TypeOK /\ list \in [Mine -> List]  BY DEF IInv, TypeOK
<1>1. PICK a \in Mine : FetchIsRead(a) \/ FetchArrives(a) \/ FetchFails(a) \/ Ages(a)
  BY DEF Cache
<1>2. list[a] \in List /\ \A r \in Rows(list[a]) \cup list[a].got : GoodRow(r)
  BY <1>0 DEF IInv, GoodRows
<1>3. SUFFICES ASSUME NEW q \in List, list' = [list EXCEPT ![a] = q],
                      \A r \in Rows(q) \cup q.got : GoodRow(r)
               PROVE  IInv'
  <2>1. CASE FetchIsRead(a)
    <3> DEFINE q == [list[a] EXCEPT !.fetch = "read", !.got = RowsOf(a)]
    <3>1. q \in List /\ q.rows = list[a].rows /\ (list[a].error => q.error) /\ q.got = RowsOf(a)
      BY <1>0, <1>2, RowsAreGood DEF List
    <3>2. list' = [list EXCEPT ![a] = q]  BY <1>0, <2>1 DEF FetchIsRead
    <3> HIDE DEF q
    <3>3. \A r \in Rows(q) \cup q.got : GoodRow(r)
      BY <1>0, <1>2, <3>1, RowsAreGood DEF Rows
    <3> QED  BY <1>3, <3>1, <3>2, <3>3
  <2>2. CASE FetchArrives(a)
    <3> DEFINE q == [rows |-> list[a].got, fresh |-> TRUE, error |-> FALSE, fetch |-> "none", got |-> {}]
    <3>1. q \in List /\ q.rows = list[a].got /\ q.got = {} /\ ~q.error  BY <1>2 DEF List
    <3>2. list' = [list EXCEPT ![a] = q]  BY <2>2 DEF FetchArrives
    <3> HIDE DEF q
    <3>3. \A r \in Rows(q) \cup q.got : GoodRow(r)  BY <1>2, <3>1 DEF Rows
    <3> QED  BY <1>3, <3>1, <3>2, <3>3
  <2>3. CASE FetchFails(a)
    <3> DEFINE q == [list[a] EXCEPT !.error = (list[a].rows # None), !.fetch = "none", !.got = {}]
    <3>1. q \in List /\ q.rows = list[a].rows /\ (list[a].rows # None => q.error) /\ q.got = {}  BY <1>2 DEF List
    <3>2. list' = [list EXCEPT ![a] = q]  BY <1>0, <2>3 DEF FetchFails
    <3> HIDE DEF q
    <3>3. \A r \in Rows(q) \cup q.got : GoodRow(r)  BY <1>2, <3>1 DEF Rows
    <3> QED  BY <1>3, <3>1, <3>2, <3>3
  <2>4. CASE Ages(a)
    <3> DEFINE q == [list[a] EXCEPT !.fresh = FALSE]
    <3>1. q \in List /\ q.rows = list[a].rows /\ (list[a].error => q.error) /\ q.got = list[a].got  BY <1>2 DEF List
    <3>2. list' = [list EXCEPT ![a] = q]  BY <1>0, <2>4 DEF Ages
    <3> HIDE DEF q
    <3>3. \A r \in Rows(q) \cup q.got : GoodRow(r)  BY <1>2, <3>1 DEF Rows
    <3> QED  BY <1>3, <3>1, <3>2, <3>3
  <2> QED  BY <1>1, <2>1, <2>2, <2>3, <2>4
<1>4. \A b \in Mine : \A r \in Rows(list'[b]) \cup list'[b].got : GoodRow(r)
  <2>1. \A b \in Mine : list'[b] = IF b = a THEN q ELSE list[b]  BY <1>0, <1>3
  <2> QED  BY <1>3, <2>1 DEF IInv, GoodRows
<1>5. list' \in [Mine -> List]  BY <1>0, <1>3
<1> QED  BY <1>4, <1>5, ListKeeps DEF Cache

LEMMA SettleKeeps ==
  ASSUME IInv, Settle
  PROVE  IInv'
<1> USE DEF IInv
<1>0. TypeOK /\ list \in [Mine -> List] /\ calls \subseteq Call /\ moves' \in 0..MaxMoves /\ Stays
  BY DEF TypeOK, Settle, Answer, Stays
<1>a. None \notin Match  BY Pairs
<1>1. PICK c \in calls, ok \in BOOLEAN : Answer(c, ok)  BY DEF Settle
<1>2. c \in Call /\ GoodCall(c) /\ AtHome(c) /\ c.match \in Match  BY <1>0 DEF GoodCalls, Call
<1>3. CASE Afterwards(c, ok) = "chat"
  <2>1. c.kind = "schedule"  BY <1>3 DEF Afterwards
  <2> DEFINE s == [At("chat") EXCEPT !.match = c.match]
  <2>2. s \in Screen /\ s.at = "chat" /\ s.match = c.match /\ s.partner = None
    BY <1>2 DEF At, Screen
  <2>3. Open(s, calls \ {c}) /\ screen' = s  BY <1>1, <1>3 DEF Answer, Open
  <2> HIDE DEF s
  <2>4. GoodScreen'  BY <1>0, <1>2, <2>1, <2>2, <2>3 DEF GoodScreen, GoodCall, Stays
  <2> QED  BY <1>0, <2>2, <2>3, <2>4, OpenKeeps
<1>4. CASE Afterwards(c, ok) = "matches"
  <2> DEFINE s == At("matches")
  <2>2. s \in Screen /\ s.at = "matches" /\ s.match = None /\ s.partner = None
    BY DEF At, Screen
  <2>3. Open(s, calls \ {c}) /\ screen' = s  BY <1>1, <1>4 DEF Answer, Open
  <2> HIDE DEF s
  <2>4. GoodScreen'  BY <2>2, <2>3 DEF GoodScreen
  <2> QED  BY <1>0, <2>2, <2>3, <2>4, OpenKeeps
<1>5. CASE Afterwards(c, ok) \notin {"chat", "matches"}
  <2>1. /\ calls' = calls \ {c}
        /\ modal' = ModalAfter(c, ok)
        /\ list' = IF ok THEN Refreshed(c) ELSE list
        /\ UNCHANGED screen
    BY <1>1, <1>5 DEF Answer
  <2>2. UNCHANGED server /\ UNCHANGED agent  BY <1>0 DEF server, Stays
  <2>3. modal' \in Match \cup {None} /\ (modal' # None => modal' \in matched)
    BY <1>0, <1>2, <2>1 DEF ModalAfter, MatchIn, GoodCall, GoodModal, TypeOK
  <2>4. list' \in [Mine -> List]
        /\ \A a \in Mine : Rows(list'[a]) \cup list'[a].got \subseteq Rows(list[a]) \cup list[a].got
    <3>1. CASE list' = list  BY <1>0, <3>1
    <3>2. CASE list' = [a \in Mine |-> Invalidated(list[a], screen.at = "matches" /\ a = agent)]
      BY <1>0, <3>2, QueryKeeps
    <3> QED  BY <2>1, <3>1, <3>2 DEF Refreshed
  <2>5. TypeOK'  BY <1>0, <2>1, <2>2, <2>3, <2>4 DEF TypeOK, server
  <2>6. GoodRows'
    <3>1. \A a \in Mine : \A r \in Rows(list'[a]) \cup list'[a].got : GoodRow(r)
      BY <2>4 DEF GoodRows
    <3> QED  BY <2>2, <3>1, GoodSame DEF GoodRows, Rows
  <2>7. GoodScreen'  BY <2>1, <2>2 DEF GoodScreen, EndedDate, OtherSide, server
  <2>8. GoodModal'  BY <2>2, <2>3 DEF GoodModal, server
  <2>9. GoodCalls'  BY <2>1, <2>2, GoodSame DEF GoodCalls, AtHome, Home
  <2> QED  BY <2>5, <2>6, <2>7, <2>8, <2>9
<1> QED  BY <1>3, <1>4, <1>5

----------------------------------------------------------------------------
(* The theorems.                                                           *)

LEMMA InitGood == Init => IInv
<1> SUFFICES ASSUME Init PROVE IInv
  OBVIOUS
<1> DEFINE blank == Empty
<1>1. blank \in List /\ Rows(blank) = {} /\ blank.got = {}  BY DEF List, Rows, Empty
<1>2. list \in [Mine -> List] /\ \A a \in Mine : list[a] = blank
  <2>1. list = [a \in Mine |-> blank]  BY DEF Init
  <2> HIDE DEF blank
  <2> QED  BY <1>1, <2>1
<1> HIDE DEF blank
<1>3. screen \in Screen /\ screen.match = None /\ screen.at = "feed" /\ screen.partner = None
  BY DEF Init, At, Screen
<1>4. TypeOK
  <2>1. dates \in [Match -> Seq(DateStatus)]
    <3>1. <<>> \in Seq(DateStatus)  OBVIOUS
    <3> QED  BY <3>1 DEF Init
  <2>2. moves \in 0..MaxMoves  BY BoundsAssumption DEF Init
  <2> QED  BY <1>2, <1>3, <2>1, <2>2 DEF Init, TypeOK
<1>5. GoodRows  BY <1>1, <1>2 DEF GoodRows
<1>6. GoodScreen  BY <1>3 DEF GoodScreen
<1> QED  BY <1>4, <1>5, <1>6 DEF IInv, GoodModal, GoodCalls, Init

LEMMA NextKeeps == IInv /\ [Next]_vars => IInv'
<1> SUFFICES ASSUME IInv, [Next]_vars PROVE IInv'
  OBVIOUS
<1>1. ASSUME NEW c \in calls, Serve(c) PROVE IInv'  BY <1>1, ServeKeeps
<1>2. CASE Elsewhere  BY <1>2, ElsewhereKeeps
<1>3. CASE Cache  BY <1>3, CacheKeeps
<1>4. CASE Navigate  BY <1>4, NavigateKeeps
<1>5. CASE Press  BY <1>5, PressKeeps
<1>6. CASE Settle  BY <1>6, SettleKeeps
<1>7. CASE UNCHANGED vars
  <2>1. list' \in [Mine -> List]  BY <1>7 DEF IInv, TypeOK, vars
  <2> QED  BY <1>7, <2>1, ListKeeps DEF IInv, GoodRows, vars
<1> QED  BY <1>1, <1>2, <1>3, <1>4, <1>5, <1>6, <1>7 DEF Next

LEMMA Inductive == Spec => []IInv
BY InitGood, NextKeeps, PTL DEF Spec

\* The variables hold what their types say.
THEOREM TypeCorrect == Spec => []TypeOK
<1>1. IInv => TypeOK  BY DEF IInv
<1> QED  BY <1>1, Inductive, PTL

\* Cards, pages and ratings name the other side of their match, whichever agent was
\* active when the list was asked for, read and shown.
THEOREM PartnerIsNamed == Spec => []NamesThePartner
<1>1. IInv => NamesThePartner
  BY DEF IInv, GoodRows, GoodRow, GoodScreen, GoodCalls, GoodCall, NamesThePartner
<1> QED  BY <1>1, Inductive, PTL

\* Only dates that are over are rated from the result page, however stale its list is.
THEOREM OnlyEndedIsRated == Spec => []RatesOnlyEnded
<1>1. IInv => RatesOnlyEnded
  BY DEF IInv, GoodCalls, GoodCall, EndedDate, RatesOnlyEnded
<1> QED  BY <1>1, Inductive, PTL

\* What the pages show of matches is on the server.
THEOREM ShownExists == Spec => []MatchExists
<1>1. IInv => MatchExists
  BY DEF IInv, GoodRows, GoodRow, GoodScreen, GoodModal, MatchExists
<1> QED  BY <1>1, Inductive, PTL

\* A card that says Done is of a rated date.
THEOREM DoneIsRated == Spec => []DoneMeansRated
<1>1. IInv => DoneMeansRated
  BY DEF IInv, GoodRows, GoodRow, DoneMeansRated
<1> QED  BY <1>1, Inductive, PTL

\* An answer moves only the page that asked.
THEOREM AnswersMoveTheirPage == Spec => AnswersStayHome
<1> DEFINE A == moves' = moves /\ screen' # screen =>
                  \E c \in calls \ calls' : screen.at = Home(c) /\ screen.match = c.match
<1>1. IInv /\ [Next]_vars => [A]_vars
  <2> SUFFICES ASSUME IInv, Next, moves' = moves, screen' # screen PROVE A
    BY DEF vars
  <2>0. TypeOK /\ calls \subseteq Call  BY DEF IInv, TypeOK
  <2>1. ~Move  BY <2>0, MoveCounts
  <2>2. Settle
    BY <2>1 DEF Next, Serve, Elsewhere, Cache, Navigate, Go, ChooseAgent, KeepSwiping,
         StartFromModal, OpenCard, OpenHistory, RateFromHistory, OpenLive,
         Press, Like, Start, Done, RateLive
  <2>3. PICK c \in calls, ok \in BOOLEAN : Answer(c, ok)  BY <2>2 DEF Settle
  <2>4. Afterwards(c, ok) \in {"chat", "matches"}  BY <2>3 DEF Answer
  <2>5. c.here = "page" /\ c.kind # "swipe"  BY <2>4 DEF Afterwards
  <2>6. screen.at = Home(c) /\ screen.match = c.match  BY <2>5 DEF IInv, GoodCalls, AtHome
  <2>7. calls' = Left(calls \ {c})  BY <2>3, <2>4 DEF Answer, Open
  <2>8. \A d \in calls' : d.here # "page"
    <3>1. calls \ {c} \subseteq Call /\ \A d \in calls \ {c} : GoodCall(d)
      BY <2>0 DEF IInv, GoodCalls
    <3> HIDE DEF A
    <3> QED  BY <2>7, <3>1, LeftKeeps
  <2> QED  BY <2>5, <2>6, <2>8
<1> QED  BY <1>1, Inductive, PTL DEF Spec, AnswersStayHome

----------------------------------------------------------------------------
(* Done: what liveness rests on.                                           *)

\* A result page that waits for an answer stays open only with that answer to come.
DoneIsAwaited ==
  [][screen.at = "result" /\ Pending("result") /\ screen' = screen => Pending("result")']_vars

LEMMA ServedWaits ==
  ASSUME NEW c \in calls, Serve(c), Pending("result") PROVE Pending("result")'
<1>1. PICK d \in calls : d.here = "page" /\ d.kind = "result"
  BY DEF Pending
<1>2. CASE d # c
  BY <1>1, <1>2 DEF Serve, ServeSwipe, ServeSchedule, ServeEnd, Pending
<1>3. CASE d = c
  <2>1. [c EXCEPT !.state = "done"] \in calls' /\ screen' = screen
    BY <1>1, <1>3 DEF Serve, ServeSwipe, ServeSchedule, ServeEnd
  <2>2. [c EXCEPT !.state = "done"].here = "page" /\ [c EXCEPT !.state = "done"].kind = "result"
    BY <1>1, <1>3
  <2>3. QED
    BY <2>1, <2>2 DEF Pending
<1>4. QED
  BY <1>2, <1>3

\* While it is saving, Done may be pressed again and every other answer may come: the
\* page never loses the request whose answer leaves it (DateResultPage.tsx:54-68).
THEOREM DoneWaits == Spec => DoneIsAwaited
<1>1. ASSUME [Next]_vars, screen.at = "result", Pending("result"), screen' = screen
      PROVE  Pending("result")'
  <2>1. CASE calls' = calls
    BY <1>1, <2>1 DEF Pending
  <2>2. ASSUME NEW c \in calls, Serve(c) PROVE Pending("result")'
    BY <1>1, <2>2, ServedWaits
  <2>3. ASSUME NEW s, NEW waiting, Open(s, waiting) PROVE s.at = "result"
    BY <1>1, <2>3 DEF Open
  <2>4. CASE Navigate
    <3>1. ASSUME NEW p \in {"feed", "discover", "matches"}, Go(p) PROVE FALSE
      BY <2>3, <3>1 DEF Go, At
    <3>2. ~StartFromModal
      BY <2>3 DEF StartFromModal, At
    <3>3. ASSUME NEW m \in Match, OpenHistory(m) PROVE FALSE
      BY <2>3, <3>3 DEF OpenHistory, At
    <3>4. ASSUME NEW m \in Match, NEW i \in 1..MaxDates, OpenLive(m, i) PROVE FALSE
      BY <1>1, <3>4 DEF OpenLive
    <3>5. QED
      BY <1>1, <2>1, <2>4, <3>1, <3>2, <3>3, <3>4
         DEF Navigate, ChooseAgent, KeepSwiping, OpenCard, RateFromHistory
  <2>5. CASE Press
    <3>1. Done
      BY <1>1, <2>5 DEF Press, Like, HeartShown, Start, RateLive
    <3> DEFINE new == [n |-> CHOOSE k \in Unused : TRUE, kind |-> "result",
                       match |-> screen.match, date |-> screen.date, rated |-> screen.partner,
                       here |-> "page", state |-> "sent", answer |-> None]
    <3>2. new \in calls' /\ new.here = "page" /\ new.kind = "result"
      BY <3>1 DEF Done, Send
    <3> HIDE DEF new
    <3>3. QED
      BY <3>2 DEF Pending
  <2>6. ASSUME NEW c \in calls, NEW ok \in BOOLEAN, Answer(c, ok) PROVE Pending("result")'
    <3>1. PICK d \in calls : d.here = "page" /\ d.kind = "result"
      BY <1>1 DEF Pending
    <3>2. Afterwards(c, ok) \notin {"chat", "matches"}
      BY <1>1, <2>3, <2>6 DEF Answer, At
    <3>3. ASSUME NEW e, e.here = "page", e.kind = "result" PROVE Afterwards(e, ok) = "matches"
      BY <3>3 DEF Afterwards
    <3>4. d # c
      BY <3>1, <3>2, <3>3
    <3>5. calls' = calls \ {c}
      BY <2>6, <3>2 DEF Answer
    <3>6. QED
      BY <3>1, <3>4, <3>5 DEF Pending
  <2>7. QED
    BY <1>1, <2>1, <2>2, <2>4, <2>5, <2>6 DEF Next, Elsewhere, Cache, Settle, vars
<1>2. [Next]_vars =>
        (screen.at = "result" /\ Pending("result") /\ screen' = screen => Pending("result")')
  BY <1>1
<1>3. QED
  BY <1>2, PTL DEF Spec, DoneIsAwaited
=============================================================================
