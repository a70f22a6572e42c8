------------------------------- MODULE HomeBoard -------------------------------
(* The Morning Call Board: a summary is five sections that are read one by one while *)
(* agents, findings, watchlists, screens and quotes change (services/home/src), and  *)
(* the page that shows it (web/src/pages/HomePage.tsx).                              *)
EXTENDS Integers, FiniteSets, Sequences, SequencesExt, FiniteSetsExt

CONSTANTS
  HomeUsers,
  HomeFindings,     \* id, agent, clusters, kind of its subject, severity, created
  FeedKinds,        \* SUBJECT_KINDS of the feed
  HomeAgents,       \* id, owner, created
  CandidateLimit, CardLimit,          \* of the feed
  HomeWindow,       \* hours of findings that a summary of an agent counts, in days
  HomeListings, PulseListings, MoversLimit,
  Moves,            \* the changes that a quote may show
  IdRank(_),        \* the order of ids
  DesksAtFirst,     \* what there may be at first: findings, listings, quotes
  MaxDay, MaxHomeVisits, MaxHomeChanges   \* bounds

VARIABLES
  enabledAgents, landed,   \* agents and findings there are
  supports,                \* support_count of each claim cluster
  homeRuns,                \* the newest run of each agent: status, started, ended
  watchedListings,         \* of each user's default list; {} or one list
  quoted,                  \* the change of each listing that has a quote
  board,                   \* the request and the page of each visit
  day, homeVisits, homeChanges   \* clock and counters

homeVars == <<enabledAgents, landed, supports, homeRuns, watchedListings, quoted, board, day, homeVisits, homeChanges>>

Parts == {"findings", "pulse", "movers", "agents"}
NoBoard == [user |-> "none", at |-> "none", now |-> 0, read |-> {}, cards |-> <<>>, pulse |-> <<>>,
            movers |-> <<>>, rows |-> <<>>]
Grave == [low |-> 1, medium |-> 2, high |-> 3, critical |-> 4]

HomeInit ==
  \E d \in DesksAtFirst :
    /\ enabledAgents = {a.id : a \in HomeAgents} /\ landed = d.findings
    /\ supports = [k \in UNION {f.clusters : f \in HomeFindings} |-> Cardinality({f \in d.findings : k \in f.clusters})]
    /\ homeRuns = [a \in {a.id : a \in HomeAgents} |-> {}]
    /\ watchedListings = {d.listings} /\ quoted = d.quotes
    /\ board = NoBoard /\ day = 0 /\ homeVisits = 0 /\ homeChanges = 0

-------------------------------------------------------------------------------
\* listHomeFindingCards: the newest findings of the user's enabled agents, one card for
\* each cluster that comes first among a finding's
OwnAgents(u) == {a \in HomeAgents : a.owner = u /\ a.id \in enabledAgents}
Newer(f, g) == f.created > g.created \/ (f.created = g.created /\ IdRank(f.id) < IdRank(g.id))
CandidateFindings(u) ==
  LET all == SetToSortSeq({f \in landed : \E a \in OwnAgents(u) : a.id = f.agent}, Newer)
  IN Range(SubSeq(all, 1, Min({CandidateLimit, Len(all)})))
CardKey(f) == IF f.clusters = {} THEN f.id ELSE CHOOSE k \in f.clusters : \A j \in f.clusters : IdRank(k) <= IdRank(j)
Foremost(f, g) ==
  \/ Grave[f.severity] > Grave[g.severity]
  \/ Grave[f.severity] = Grave[g.severity] /\ Newer(f, g)
CardOf(group, key) ==
  LET primary == CHOOSE f \in group : \A g \in group \ {f} : Foremost(f, g)
  IN [key |-> key, severity |-> primary.severity, created |-> primary.created, findings |-> group,
      support |-> IF primary.clusters = {} THEN Cardinality(group) ELSE supports[key]]
NewerCard(c, d) == c.created > d.created \/ (c.created = d.created /\ IdRank(c.key) < IdRank(d.key))
FeedOf(u) ==
  LET seen == CandidateFindings(u)
      cards == {CardOf({f \in seen : CardKey(f) = k}, k) : k \in {CardKey(f) : f \in seen}}
      sorted == SetToSortSeq(cards, NewerCard)
  IN SubSeq(sorted, 1, Min({CardLimit, Len(sorted)}))
\* a row that is not as the feed expects it fails the feed
Readable(u) == \A f \in CandidateFindings(u) : f.kind \in FeedKinds

\* rankHomeCards: recency halves with each day, in 400ths; a critical card comes before
\* the others unless they lead by more than the margin
CardScore(c, now) == (IF now - c.created <= 0 THEN 140 ELSE 140 \div (2 ^ (now - c.created))) + 50 * Grave[c.severity]
CriticalMargin == 100
RankedBefore(c, d, now) ==
  LET x == CardScore(c, now)
      y == CardScore(d, now)
      lead(e) == e.severity = "critical"
  IN CASE lead(c) /\ ~lead(d) /\ y <= x + CriticalMargin -> TRUE
       [] lead(d) /\ ~lead(c) /\ x <= y + CriticalMargin -> FALSE
       [] OTHER -> \/ x > y
                   \/ x = y /\ Grave[c.severity] > Grave[d.severity]
                   \/ x = y /\ Grave[c.severity] = Grave[d.severity] /\ NewerCard(c, d)

\* getHomeMarketPulse, getHomeWatchlistMovers: what has a quote, the others are omitted
PulseOf == SelectSeq(PulseListings, LAMBDA l : l \in DOMAIN quoted)
Size(n) == IF n < 0 THEN -n ELSE n
MovesMore(l, m) ==
  LET x == quoted[l]
      y == quoted[m]
  IN Size(x) > Size(y) \/ (Size(x) = Size(y) /\ (x > y \/ (x = y /\ IdRank(l) < IdRank(m))))
MoversOf ==
  LET priced == SetToSortSeq((UNION watchedListings) \cap DOMAIN quoted, MovesMore)
  IN SubSeq(priced, 1, Min({MoversLimit, Len(priced)}))

\* getHomeAgentSummaries
BoardRow(a, now) ==
  LET recent == {f \in landed : f.agent = a.id /\ f.created >= now - HomeWindow}
      grave == {f \in recent : Grave[f.severity] >= 3}
  IN [agent |-> a, run |-> homeRuns[a.id], total |-> Cardinality(recent), high |-> Cardinality(grave),
      critical |-> Cardinality({f \in grave : f.severity = "critical"}),
      latest |-> {f \in grave : \A g \in grave \ {f} : Newer(f, g)}]
EndedAt(row) == {r.ended : r \in {r \in row.run : r.status # "running"}}
RowBefore(r, s) ==
  LET first(x) == IF x.critical > 0 THEN 1 ELSE 0
      ends(x) == Max({-1} \cup EndedAt(x))
  IN \/ first(r) > first(s)
     \/ first(r) = first(s) /\ ends(r) > ends(s)
     \/ first(r) = first(s) /\ ends(r) = ends(s)
        /\ (r.agent.created > s.agent.created \/ (r.agent.created = s.agent.created /\ IdRank(r.agent.id) < IdRank(s.agent.id)))
AgentRows(u, now) == SetToSortSeq({BoardRow(a, now) : a \in OwnAgents(u)}, RowBefore)

-------------------------------------------------------------------------------
\* The page: a user visits, or another does and the page starts anew; an answer to the
\* former visit is dropped.
Visit(u) ==
  /\ homeVisits < MaxHomeVisits /\ board.user # u
  /\ homeVisits' = homeVisits + 1
  /\ board' = [NoBoard EXCEPT !.user = u, !.at = IF u = "none" THEN "none" ELSE "loading", !.now = day]
  /\ UNCHANGED <<enabledAgents, landed, supports, homeRuns, watchedListings, quoted, day, homeChanges>>

\* getHomeSummary: the sections in any order; one that fails fails the summary
ReadSection(p) ==
  /\ board.at = "loading" /\ p \notin board.read
  /\ board' = IF p = "findings" /\ ~Readable(board.user) THEN [NoBoard EXCEPT !.user = board.user, !.at = "error"]
              ELSE [board EXCEPT !.read = @ \cup {p},
                                 !.cards = IF p = "findings" THEN FeedOf(board.user) ELSE @,
                                 !.pulse = IF p = "pulse" THEN PulseOf ELSE @,
                                 !.movers = IF p = "movers" THEN MoversOf ELSE @,
                                 !.rows = IF p = "agents" THEN AgentRows(board.user, board.now) ELSE @]
  /\ UNCHANGED <<enabledAgents, landed, supports, homeRuns, watchedListings, quoted, day, homeVisits, homeChanges>>

ShowBoard ==
  /\ board.at = "loading" /\ board.read = Parts
  /\ board' = [board EXCEPT !.at = "ready",
                            !.cards = SortSeq(board.cards, LAMBDA c, d : RankedBefore(c, d, board.now))]
  /\ UNCHANGED <<enabledAgents, landed, supports, homeRuns, watchedListings, quoted, day, homeVisits, homeChanges>>

BoardFails ==
  /\ board.at = "loading"
  /\ board' = [NoBoard EXCEPT !.user = board.user, !.at = "error"]
  /\ UNCHANGED <<enabledAgents, landed, supports, homeRuns, watchedListings, quoted, day, homeVisits, homeChanges>>

\* What others write meanwhile.
Changes == homeChanges < MaxHomeChanges /\ homeChanges' = homeChanges + 1 /\ UNCHANGED <<board, homeVisits>>

FindingLands(f) ==
  /\ f.created = day /\ f \notin landed
  /\ landed' = landed \cup {f}
  /\ supports' = [k \in DOMAIN supports |-> IF k \in f.clusters THEN supports[k] + 1 ELSE supports[k]]
  /\ Changes /\ UNCHANGED <<enabledAgents, homeRuns, watchedListings, quoted, day>>
RunStarts(a) ==
  /\ homeRuns' = [homeRuns EXCEPT ![a] = {[status |-> "running", started |-> day, ended |-> -1]}]
  /\ homeRuns' # homeRuns
  /\ Changes /\ UNCHANGED <<enabledAgents, landed, supports, watchedListings, quoted, day>>
RunEnds(a, status) ==
  /\ \E r \in homeRuns[a] : r.status = "running" /\ homeRuns' = [homeRuns EXCEPT ![a] = {[r EXCEPT !.status = status, !.ended = day]}]
  /\ Changes /\ UNCHANGED <<enabledAgents, landed, supports, watchedListings, quoted, day>>
ToggleAgent(a) ==
  /\ enabledAgents' = IF a \in enabledAgents THEN enabledAgents \ {a} ELSE enabledAgents \cup {a}
  /\ Changes /\ UNCHANGED <<landed, supports, homeRuns, watchedListings, quoted, day>>
ListingsChange(ls) ==
  /\ watchedListings # ls /\ watchedListings' = ls
  /\ Changes /\ UNCHANGED <<enabledAgents, landed, supports, homeRuns, quoted, day>>
QuoteMoves(l, n) ==
  /\ quoted' = [m \in DOMAIN quoted \cup {l} |-> IF m = l THEN n ELSE quoted[m]] /\ quoted' # quoted
  /\ Changes /\ UNCHANGED <<enabledAgents, landed, supports, homeRuns, watchedListings, day>>
\* fetchQuote: a listing whose quote is late, refused or malformed is left out
QuoteLost(l) ==
  /\ l \in DOMAIN quoted /\ quoted' = [m \in DOMAIN quoted \ {l} |-> quoted[m]]
  /\ Changes /\ UNCHANGED <<enabledAgents, landed, supports, homeRuns, watchedListings, day>>
DayPasses ==
  /\ day < MaxDay /\ day' = day + 1
  /\ UNCHANGED <<enabledAgents, landed, supports, homeRuns, watchedListings, quoted, board, homeVisits, homeChanges>>

HomeNext ==
  \/ \E u \in HomeUsers \cup {"none"} : Visit(u)
  \/ \E p \in Parts : ReadSection(p)
  \/ ShowBoard \/ BoardFails \/ DayPasses
  \/ \E f \in HomeFindings : FindingLands(f)
  \/ \E a \in DOMAIN homeRuns : ToggleAgent(a) \/ RunStarts(a) \/ RunEnds(a, "completed") \/ RunEnds(a, "failed")
  \/ \E ls \in {{}} \cup {{s} : s \in {{}, HomeListings}} : ListingsChange(ls)
  \/ \E l \in HomeListings : QuoteLost(l) \/ \E n \in Moves : QuoteMoves(l, n)

HomeSpec == HomeInit /\ [][HomeNext]_homeVars

-------------------------------------------------------------------------------
\* A board shows the user's own, each finding on one card, the cards in one order whatever
\* the order they came in, and no count that is part of another above it.
HomeTypeOK ==
  LET cards == Range(board.cards) IN
  /\ \A i, j \in DOMAIN board.cards : i # j => board.cards[i].findings \cap board.cards[j].findings = {}
  /\ \A c \in cards, f \in HomeFindings : f \in c.findings => \E a \in HomeAgents : a.id = f.agent /\ a.owner = board.user
  /\ \A c, d \in cards : c # d => (RankedBefore(c, d, board.now) <=> ~RankedBefore(d, c, board.now))
  /\ \A c, d, e \in cards : RankedBefore(c, d, board.now) /\ RankedBefore(d, e, board.now) /\ c # e => RankedBefore(c, e, board.now)
  /\ \A r \in Range(board.rows) : r.agent.owner = board.user /\ r.critical <= r.high /\ r.high <= r.total /\ Cardinality(r.latest) <= 1
===============================================================================
