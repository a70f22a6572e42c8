------------------------------- MODULE Screener -------------------------------
(* The screener: candidates from quotes and facts (services/screener/src/             *)
(* db-candidates.ts), a query's check, filter, order and page (query.ts, executor.ts, *)
(* result.ts, http.ts), and the workspace that edits a draft, asks and shows          *)
(* (web/src/screener/ScreenerWorkspace.tsx, queryDraft.ts).                           *)
EXTENDS Integers, FiniteSets, Sequences, SequencesExt, FiniteSetsExt

CONSTANTS
  Screened,        \* listings in the order of the statement: id, issuer, universe
  Books,           \* what quotes (fresh ones) and facts there may be
  UniverseChoices, RangeChoices, SortChoices, LimitChoices,   \* what the controls offer
  SavedQueries,    \* definitions of saved screens
  MaxSearches, MaxEdits, MaxRefreshes   \* bounds

VARIABLES
  book,            \* quotes and facts in the database
  draft,           \* the form
  searches,        \* requests that have not settled
  searched,        \* how many were made
  mine,            \* the search of the mount effect, whose cleanup aborts it
  current,         \* the search that controllerRef holds
  results,         \* the response shown, if any
  heard,           \* the search whose outcome was shown last
  status,
  strays,          \* searches of the form in flight when the session changed
  edits, refreshes \* counters

screenVars ==
  <<book, draft, searches, searched, mine, current, results, heard, status, strays, edits, refreshes>>

-------------------------------------------------------------------------------
\* Values are null ({}) or a fraction with a positive denominator.
Fraction(n, d) == IF d = 0 THEN {} ELSE IF d > 0 THEN {<<n, d>>} ELSE {<<-n, -d>>}
Less(p, q) == p[1] * q[2] < q[1] * p[2]
Ratio(ns, ds) == UNION {Fraction(n, d) : n \in ns, d \in ds}

\* loadLatestFundamentals: the latest year with revenue, or the one before (back = 1);
\* of several rows the one of the latest as_of
Reported(facts, metric, back) ==
  LET years == {f.year : f \in {f \in facts : f.metric = "revenue"}}
      rows == {f \in facts : f.metric = metric /\ years # {} /\ f.year = Max(years) - back}
  IN UNION {f.value : f \in {f \in rows : \A g \in rows : g.asOf <= f.asOf}}

\* the candidate of listing x with quote q
Hydrated(x, q, facts) ==
  LET ThisYear(metric) == Reported(facts, metric, 0)
      prior == Reported(facts, "revenue", 1)
  IN [id |-> x.id, universe |-> x.universe,
      of |-> [last_price |-> {<<q.price, 1>>},
              prev_close |-> {<<q.prev, 1>>},
              change_pct |-> Fraction(q.price - q.prev, q.prev),
              volume |-> {},
              market_cap |-> {<<s * q.price, 1>> : s \in ThisYear("shares")},
              pe_ratio |-> Ratio({q.price}, ThisYear("eps")),
              net_margin |-> Ratio(ThisYear("income"), ThisYear("revenue")),
              revenue_growth_yoy |-> UNION {Fraction(r - p, p) : r \in ThisYear("revenue"), p \in prior}]]

\* the fresh quote of a listing, the latest
QuoteOf(x, quotes) ==
  {q \in quotes : q.listing = x.id /\ \A p \in quotes : p.listing = x.id => p.asOf <= q.asOf}

\* the rows of the statement: a listing whose universe is complete and that has a quote
QuoteRows(quotes) ==
  LET has == SelectSeq(Screened, LAMBDA x : x.complete /\ QuoteOf(x, quotes) # {})
  IN [k \in DOMAIN has |-> [listing |-> has[k], quote |-> CHOOSE q \in QuoteOf(has[k], quotes) : TRUE]]

\* normalizedScreenerQuery: no clause whose min is above its max, and a page
SoundQuery(q) ==
  /\ \A c \in q.within : \A lo \in c.min, hi \in c.max : lo <= hi
  /\ q.sort # <<>> /\ q.limit >= 1

\* candidateMatchesQuery
Matches(q, c) ==
  /\ \A f \in DOMAIN q.universe : c.universe[f] \in q.universe[f]
  /\ \A r \in q.within :
       /\ c.of[r.field] # {}
       /\ \A v \in c.of[r.field] : /\ \A lo \in r.min : ~Less(v, <<lo, 1>>)
                                   /\ \A hi \in r.max : ~Less(<<hi, 1>>, v)

\* sortCandidates: by the first spec that tells two apart, no value last, else as listed
Sooner(spec, a, b) ==
  LET x == a.of[spec.field]
      y == b.of[spec.field]
  IN /\ x # {}
     /\ y = {} \/ \E v \in x, w \in y : IF spec.direction = "asc" THEN Less(v, w) ELSE Less(w, v)
Leads(sort, a, b) ==
  \E k \in DOMAIN sort : /\ Sooner(sort[k], a, b)
                         /\ \A j \in 1..(k - 1) : ~Sooner(sort[j], a, b) /\ ~Sooner(sort[j], b, a)
Ordered(sort, cs) ==
  LET Ahead(i, j) == Leads(sort, cs[i], cs[j]) \/ (i < j /\ ~Leads(sort, cs[j], cs[i]))
  IN [k \in DOMAIN cs |->
        cs[CHOOSE j \in DOMAIN cs : Cardinality({i \in DOMAIN cs \ {j} : Ahead(i, j)}) = k - 1]]

\* executeScreenerQuery: the page of the matches, ranked among all of them
PageOf(q, cs) ==
  LET all == Ordered(q.sort, SelectSeq(cs, LAMBDA c : Matches(q, c)))
      rows == SubSeq(all, q.offset + 1, Min({q.offset + q.limit, Len(all)}))
  IN [query |-> q, total |-> Len(all),
      rows |-> [k \in DOMAIN rows |-> [id |-> rows[k].id, rank |-> q.offset + k]]]

-------------------------------------------------------------------------------
DefaultDraft == [universe |-> <<>>, ranges |-> <<>>, sort |-> [field |-> "market_cap", direction |-> "desc"],
                 limit |-> 50, offset |-> 0]

\* fn with key set to v, or without it when nothing is chosen
Chosen(fn, key, v, nothing) ==
  [k \in (IF nothing THEN DOMAIN fn \ {key} ELSE DOMAIN fn \cup {key}) |-> IF k = key THEN v ELSE fn[k]]

\* draftToQuery, queryToDraft
QueryOf(d) ==
  [universe |-> d.universe,
   within |-> {[field |-> f, min |-> d.ranges[f].min, max |-> d.ranges[f].max] : f \in DOMAIN d.ranges},
   sort |-> <<d.sort>>, limit |-> d.limit, offset |-> d.offset]
DraftOf(q) ==
  [universe |-> q.universe,
   ranges |-> [f \in {c.field : c \in q.within} |->
                 LET c == CHOOSE c \in q.within : c.field = f IN [min |-> c.min, max |-> c.max]],
   sort |-> q.sort[1], limit |-> q.limit, offset |-> q.offset]

Search(n, q) ==
  [n |-> n, query |-> q, live |-> TRUE, at |-> "sent", rows |-> <<>>, got |-> <<>>, answer |-> {}]
Aborted(n) == {IF s.n = n THEN [s EXCEPT !.live = FALSE] ELSE s : s \in searches}

ScreenInit ==
  /\ book \in Books
  /\ draft = DefaultDraft
  /\ searches = {Search(1, QueryOf(DefaultDraft))} /\ searched = 1 /\ mine = 1 /\ current = 1
  /\ results = {} /\ heard = 0 /\ status = "loading"
  /\ strays = {} /\ edits = 0 /\ refreshes = 0

\* the controls; each turns back to the first page
EditDraft ==
  /\ edits < MaxEdits
  /\ edits' = edits + 1
  /\ \/ \E u \in UniverseChoices :
          draft' = [draft EXCEPT !.universe = Chosen(@, u.field, u.values, u.values = {}), !.offset = 0]
     \/ \E r \in RangeChoices :
          draft' = [draft EXCEPT !.ranges = Chosen(@, r.field, r.range, r.range.min \cup r.range.max = {}),
                                 !.offset = 0]
     \/ \E s \in SortChoices : draft' = [draft EXCEPT !.sort = s, !.offset = 0]
     \/ \E n \in LimitChoices : draft' = [draft EXCEPT !.limit = n, !.offset = 0]
  /\ UNCHANGED <<book, searches, searched, mine, current, results, heard, status, strays, refreshes>>

\* runSearch: aborts the one before
RunSearch(d) ==
  /\ searched < MaxSearches
  /\ searches' = Aborted(current) \cup {Search(searched + 1, QueryOf(d))}
  /\ searched' = searched + 1 /\ current' = searched + 1
  /\ status' = "loading"
  /\ draft' = d
  /\ UNCHANGED <<book, mine, results, heard, strays, edits, refreshes>>

SubmitDraft == status # "loading" /\ RunSearch(draft)

\* goToOffset: the page is counted from the response shown, the rest is the draft as it stands
Turn(forth) ==
  \E r \in results :
    /\ status # "loading"
    /\ IF forth THEN r.query.offset + Len(r.rows) < r.total ELSE r.query.offset > 0
    /\ RunSearch([draft EXCEPT !.offset = IF forth THEN r.query.offset + r.query.limit
                                          ELSE Max({0, r.query.offset - r.query.limit})])

OpenScreen(q) == RunSearch(DraftOf(q))

\* the session changes: the mount effect runs again with the draft of this render, after
\* its cleanup aborted the search it made itself
ChangeSession ==
  /\ searched < MaxSearches
  /\ searches' = Aborted(mine) \cup {Search(searched + 1, QueryOf(draft))}
  /\ searched' = searched + 1 /\ mine' = searched + 1 /\ current' = searched + 1
  /\ strays' = strays \cup {s.n : s \in {s \in searches : s.live /\ s.n # mine}}
  /\ UNCHANGED <<book, draft, results, heard, status, edits, refreshes>>

-------------------------------------------------------------------------------
Becomes(s, t) ==
  /\ searches' = (searches \ {s}) \cup {t}
  /\ UNCHANGED <<book, draft, searched, mine, current, results, heard, status, strays, edits, refreshes>>

\* handleSearch: the query is checked, then the quotes are read (for an aborted request
\* the server may go on, which nobody sees)
ListCandidates(s) ==
  /\ s.at = "sent" /\ s.live
  /\ Becomes(s, IF SoundQuery(s.query) THEN [s EXCEPT !.at = "reading", !.rows = QuoteRows(book.quotes)]
                ELSE [s EXCEPT !.at = "failed"])

\* the facts of one candidate, each by a statement of its own
HydrateNext(s) ==
  /\ s.at = "reading" /\ s.live /\ s.rows # <<>>
  /\ LET r == s.rows[1]
         facts == {f \in book.facts : f.issuer = r.listing.issuer}
     IN Becomes(s, [s EXCEPT !.rows = SubSeq(@, 2, Len(@)),
                             !.got = Append(@, Hydrated(r.listing, r.quote, facts))])

Finish(s) ==
  /\ s.at = "reading" /\ s.live /\ s.rows = <<>>
  /\ Becomes(s, [s EXCEPT !.at = "answered", !.got = <<>>, !.answer = {PageOf(s.query, s.got)}])

RefreshBook(b) ==
  /\ refreshes < MaxRefreshes /\ b # book
  /\ book' = b /\ refreshes' = refreshes + 1
  /\ UNCHANGED <<draft, searches, searched, mine, current, results, heard, status, strays, edits>>

\* performSearch: what a request came to is shown unless it was aborted
HeedsAny(s) == TRUE
Heeds(s) == s.live
Settles(s) ==
  /\ searches' = searches \ {s}
  /\ IF Heeds(s)
     THEN /\ status' = IF s.answer = {} THEN "error" ELSE "ready"
          /\ results' = IF s.answer = {} THEN results ELSE s.answer
          /\ heard' = s.n
     ELSE UNCHANGED <<status, results, heard>>
  /\ UNCHANGED <<book, draft, searched, mine, current, strays, edits, refreshes>>

\* its answer arrives, or the request fails
SearchArrives(s) == s.at \in {"answered", "failed"} /\ Settles(s)
SearchLost(s) == s.at \notin {"answered", "failed"} /\ Settles(s)

ScreenNext ==
  \/ EditDraft \/ SubmitDraft \/ ChangeSession
  \/ \E forth \in BOOLEAN : Turn(forth)
  \/ \E q \in SavedQueries : OpenScreen(q)
  \/ \E b \in Books : RefreshBook(b)
  \/ \E s \in searches : \/ ListCandidates(s) \/ HydrateNext(s) \/ Finish(s)
                         \/ SearchArrives(s) \/ SearchLost(s)

ScreenSpec == ScreenInit /\ [][ScreenNext]_screenVars

-------------------------------------------------------------------------------
ScreenTypeOK ==
  /\ book \in Books
  /\ current \in 1..searched /\ mine \in 1..searched /\ heard \in 0..searched
  /\ Cardinality(results) <= 1 /\ status \in {"loading", "ready", "error"}
  /\ \A s, t \in searches : s.n = t.n => s = t
  /\ \A r \in results : /\ Len(r.rows) <= r.query.limit /\ Len(r.rows) <= r.total
                        /\ \A k \in DOMAIN r.rows : r.rows[k].rank <= r.total

\* A search that a later one superseded is never shown over that one
\* (ScreenerWorkspace.tsx:84-86). Excepted are searches of the form that were in flight
\* when the session changed: the effect that asks again then aborts only its own.
AnswersInOrder == [][heard' # heard => heard' > heard \/ heard' \in strays]_screenVars

-------------------------------------------------------------------------------
(* Saved screens: the table and the requests for it (services/screener/src/         *)
(* screen-repository.ts, screen-subject.ts, http.ts) and the panel of the workspace *)
(* (web/src/screener/ScreenerWorkspace.tsx, savedScreens.ts).                       *)

CONSTANTS
  ScreenUsers, ScreenIds,
  PutIds,          \* ids that other clients name
  ScreensAtFirst,  \* screens saved before
  MaxBookCalls,    \* bound on the requests
  MaxSignIns       \* bound on changes of the session

ASSUME ScreensAssumption ==
  /\ IsFiniteSet(ScreensAtFirst)
  /\ \A x \in ScreensAtFirst : x \in [id : {x.id}, user : ScreenUsers, created : Nat, updated : Nat]

VARIABLES
  screens,         \* screener_screens: id, user, created, updated
  saves,           \* counts the saves, which is also their time
  user,            \* who is signed in ({} or one)
  panel,           \* savedScreensState: whose, and the screens
  bookCalls,       \* requests that have not settled
  booked,          \* how many were made
  signIns

bookVars == <<screens, saves, user, panel, bookCalls, booked, signIns>>

BookCall(n, op, u, row) ==
  [n |-> n, op |-> op, user |-> u, at |-> "sent", live |-> TRUE, row |-> row, answer |-> <<>>, result |-> "none"]
NoScreen == [id |-> "none", user |-> "none", created |-> 0, updated |-> 0]

ScreenRow(i) == {x \in screens : x.id = i}

\* listForUser: the latest first (no two are saved at the same time)
ListFor(u) ==
  LET own == {x \in screens : x.user = u}
  IN {q \in [1..Cardinality(own) -> own] :
        \A i, j \in DOMAIN q : i < j => q[i] # q[j] /\ q[i].updated >= q[j].updated}

\* the list without the screen of an id, which is in it at most once
WithoutRow(q, i) ==
  IF \E k \in DOMAIN q : q[k].id = i THEN RemoveAt(q, CHOOSE k \in DOMAIN q : q[k].id = i) ELSE q

DisplayedAny(p, u) == p.screens
\* the screens the panel renders
Displayed(p, u) == IF p.user = u THEN p.screens ELSE <<>>

BookInit ==
  /\ screens = ScreensAtFirst /\ saves = 0
  /\ user = {} /\ panel = [user |-> {}, screens |-> <<>>]
  /\ bookCalls = {} /\ booked = 0 /\ signIns = 0

AskBook(calls, op, u, row) ==
  /\ booked < MaxBookCalls
  /\ booked' = booked + 1
  /\ bookCalls' = calls \cup {BookCall(booked + 1, op, u, row)}

\* another sign-in or a sign-out: the request of the list is aborted, a new one made
SignIn(us) ==
  /\ us # user /\ signIns < MaxSignIns
  /\ signIns' = signIns + 1
  /\ user' = us
  /\ LET left == {IF c.op = "list" THEN [c EXCEPT !.live = FALSE] ELSE c : c \in bookCalls}
     IN IF us = {} THEN bookCalls' = left /\ UNCHANGED booked
        ELSE \E u \in us : AskBook(left, "list", u, NoScreen)
  /\ UNCHANGED <<screens, saves, panel>>

\* the save of the form comes without an id, the server makes one
SaveScreen(i) ==
  /\ ScreenRow(i) = {} /\ \A c \in bookCalls : c.row.id # i
  /\ \E u \in user : AskBook(bookCalls, "save", u, [NoScreen EXCEPT !.id = i, !.user = u])
  /\ UNCHANGED <<screens, saves, user, panel, signIns>>

\* another client of the service names it
PutScreen(u, i) ==
  /\ AskBook(bookCalls, "put", u, [NoScreen EXCEPT !.id = i, !.user = u])
  /\ UNCHANGED <<screens, saves, user, panel, signIns>>

\* handleDeleteSaved: off the panel at once
DeleteSaved(x) ==
  \E u \in user :
    /\ x \in Range(Displayed(panel, user))
    /\ panel' = [user |-> user, screens |-> WithoutRow(Displayed(panel, user), x.id)]
    /\ AskBook(bookCalls, "delete", u, x)
    /\ UNCHANGED <<screens, saves, user, signIns>>

-------------------------------------------------------------------------------
Turns(c, d) == bookCalls' = (bookCalls \ {c}) \cup {d}

ServeScreens(c) ==
  /\ c.op \in {"list", "refresh"} /\ c.at = "sent"
  /\ \E q \in ListFor(c.user) : Turns(c, [c EXCEPT !.at = "answered", !.answer = q, !.result = "ok"])
  /\ UNCHANGED <<screens, saves, user, panel, booked, signIns>>

\* the row of the id; another's is not found
FindScreen(c) ==
  /\ c.op \in {"save", "put", "delete"} /\ c.at = "sent"
  /\ IF \/ \E x \in ScreenRow(c.row.id) : x.user # c.user
        \/ c.op = "delete" /\ ScreenRow(c.row.id) = {}
     THEN Turns(c, [c EXCEPT !.at = "answered", !.result = "missing"]) /\ UNCHANGED saves
     ELSE IF c.op = "delete" THEN Turns(c, [c EXCEPT !.at = "found"]) /\ UNCHANGED saves
     ELSE /\ saves' = saves + 1
          /\ Turns(c, [c EXCEPT !.at = "found", !.row.updated = saves + 1,
                                !.row.created = IF ScreenRow(c.row.id) = {} THEN saves + 1
                                                ELSE (CHOOSE x \in ScreenRow(c.row.id) : TRUE).created])
  /\ UNCHANGED <<screens, user, panel, booked, signIns>>

\* save: first whether there is such a row, for the status
LookForScreen(c) ==
  /\ c.op \in {"save", "put"} /\ c.at = "found"
  /\ Turns(c, [c EXCEPT !.at = "looked", !.result = IF ScreenRow(c.row.id) = {} THEN "created" ELSE "replaced"])
  /\ UNCHANGED <<screens, saves, user, panel, booked, signIns>>

\* then the upsert, whoever's the row is
UpsertScreen(c) ==
  /\ c.at = "looked"
  /\ screens' = (screens \ ScreenRow(c.row.id)) \cup {c.row}
  /\ Turns(c, [c EXCEPT !.at = "answered", !.answer = <<c.row>>])
  /\ UNCHANGED <<saves, user, panel, booked, signIns>>

RemoveScreen(c) ==
  /\ c.op = "delete" /\ c.at = "found"
  /\ screens' = screens \ ScreenRow(c.row.id)
  /\ Turns(c, [c EXCEPT !.at = "answered", !.result = IF ScreenRow(c.row.id) = {} THEN "missing" ELSE "ok"])
  /\ UNCHANGED <<saves, user, panel, booked, signIns>>

\* the user's account is erased, and the screens with it
EraseScreens(u) ==
  /\ \E x \in screens : x.user = u
  /\ \A c \in bookCalls : c.op \notin {"save", "put"}
  /\ screens' = {x \in screens : x.user # u}
  /\ UNCHANGED <<saves, user, panel, bookCalls, booked, signIns>>

-------------------------------------------------------------------------------
\* the answer arrives at the panel; a screen that is missing is as good as deleted
BookAnswered(c) ==
  /\ c.at = "answered"
  /\ bookCalls' = bookCalls \ {c}
  /\ LET us == {c.user} IN
     panel' = CASE c.op = "refresh" \/ (c.op = "list" /\ c.live) -> [user |-> us, screens |-> c.answer]
                [] c.op = "save" /\ c.answer # <<>> ->
                     [user |-> us,
                      screens |-> c.answer \o WithoutRow(Displayed(panel, us), c.row.id)]
                [] OTHER -> panel
  /\ UNCHANGED <<screens, saves, user, booked, signIns>>

\* a request fails; after a delete that did, the list of that user is read again
BookLost(c) ==
  /\ IF c.op = "delete" THEN AskBook(bookCalls \ {c}, "refresh", c.user, NoScreen)
     ELSE bookCalls' = bookCalls \ {c} /\ UNCHANGED booked
  /\ UNCHANGED <<screens, saves, user, panel, signIns>>

BookNext ==
  \/ SignIn({}) \/ \E u \in ScreenUsers : SignIn({u})
  \/ \E i \in ScreenIds : SaveScreen(i)
  \/ \E u \in ScreenUsers, i \in PutIds : PutScreen(u, i)
  \/ \E x \in Range(panel.screens) : DeleteSaved(x)
  \/ \E u \in ScreenUsers : EraseScreens(u)
  \/ \E c \in bookCalls : \/ ServeScreens(c) \/ FindScreen(c) \/ LookForScreen(c) \/ UpsertScreen(c)
                          \/ RemoveScreen(c) \/ BookAnswered(c) \/ BookLost(c)

BookSpec == BookInit /\ [][BookNext]_bookVars

-------------------------------------------------------------------------------
BookTypeOK ==
  /\ \A x, y \in screens : x.id = y.id => x = y
  /\ \A x \in screens : x.created <= x.updated /\ x.user \in ScreenUsers
  /\ \A c \in bookCalls : c.user \in ScreenUsers
  /\ user \subseteq ScreenUsers /\ panel.user \subseteq ScreenUsers

\* Whatever order sign-ins, lists, saves and failed deletes come in, the panel shows
\* only screens of the user who is signed in (ScreenerWorkspace.tsx:76-81, 149-155).
PanelIsOwn == \A x \in Range(Displayed(panel, user)) : user = {x.user}
===============================================================================
