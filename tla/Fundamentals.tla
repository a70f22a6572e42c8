----------------------------- MODULE Fundamentals -----------------------------
(* Statements and key stats of the fundamentals service: requests (http.ts), and the    *)
(* repository that serves the reported facts of the database or else asks SEC EDGAR and *)
(* stores what it answers, line by line and in no transaction                           *)
(* (sec-facts-repository.ts). The finds of a request run at the same time, and go on    *)
(* when one of them fails the request.                                                  *)
EXTENDS FundamentalsRules, SequencesExt, FiniteSetsExt, Functions

CONSTANTS
  FundIssuers,
  CikOf(_),            \* the cik of an issuer: a set of at most one
  HasFetcher,          \* SEC_EDGAR_USER_AGENT is set
  MetricClasses,       \* unit classes of the registered metrics
  Payloads,            \* companyfacts that EDGAR may hold,
  NewPayloadsOf(_),    \* and those that a new filing of an issuer may lead to
  FailedFetches,       \* statuses of fetches that fail (403 is that of a lost connection or a malformed body as well)
  HeldAtFirst,         \* companyfacts and reported facts of the first state
  FundCalls,           \* requests
  FundAsksOf(_),       \* what a request may ask
  WithdrawnMetrics,    \* metrics of the facts that a review withdraws
  MaxFundFaults        \* bound on crashes, failed statements and withdrawn facts

VARIABLES
  edgar,               \* the companyfacts of each issuer
  reportedFacts,       \* reported facts that are neither invalidated nor superseded
  filings,             \* filings with a row in sources
  fundCalls,           \* each request
  finds,               \* the find of a statement, of the k-th of a request
  fundNow,             \* as_of of the latest fetch
  fundFaults

fundVars == <<edgar, reportedFacts, filings, fundCalls, finds, fundNow, fundFaults>>

FindIds == FundCalls \X {1, 2}
NoFind == [at |-> "none", ask |-> {}, year |-> 0, period |-> "FY", asOf |-> 0, accn |-> 0, statement |-> {},
           error |-> "none", left |-> <<>>, outcome |-> NoOutcome]
NoFundCall == [at |-> "idle", ask |-> {}, year |-> 0, status |-> 0, stats |-> {}]

FundInit ==
  /\ \E h \in HeldAtFirst : edgar = h.edgar /\ reportedFacts = h.facts
  /\ filings = {f.source : f \in reportedFacts}
  /\ fundCalls = [c \in FundCalls |-> NoFundCall] /\ finds = [x \in FindIds |-> NoFind]
  /\ fundNow = 1 /\ fundFaults = 0

\* --- requests -----------------------------------------------------------------------
\* what is refused before anything is read; 0 when nothing is
BodyRefusal(body) == [json |-> 0, text |-> 415, large |-> 413, empty |-> 400, broken |-> 400][body]
PeriodNames == {"FY", "Q1", "Q2", "Q3", "Q4"}
Bases == {"as_reported", "as_restated"}
Refusal(a) ==
  IF a.route = "stats" THEN IF a.issuer = "malformed" THEN 404 ELSE 0
  ELSE IF BodyRefusal(a.body) # 0 THEN BodyRefusal(a.body)
  ELSE IF \/ a.issuer = "malformed" \/ a.family \notin {"income", "balance", "cashflow"}
          \/ a.basis \notin Bases \/ a.periods = <<>>
          \/ \E k \in DOMAIN a.periods : a.periods[k].period \notin PeriodNames
          \/ ~IsInjective(a.periods)
       THEN 400 ELSE 0

FindOf(a, p) == [NoFind EXCEPT !.at = "load", !.ask = {a}, !.year = p.year, !.period = p.period]
AnsweredFund(c, status) == [fundCalls EXCEPT ![c] = [NoFundCall EXCEPT !.at = "answered", !.status = status]]
AskOf(c) == CHOOSE a \in fundCalls[c].ask : TRUE

AskFund(c, a) ==
  /\ fundCalls[c].at = "idle"
  /\ IF Refusal(a) # 0 THEN fundCalls' = AnsweredFund(c, Refusal(a)) /\ UNCHANGED finds
     ELSE /\ fundCalls' = [fundCalls EXCEPT ![c].at = IF a.route = "stats" THEN "latest" ELSE "finds", ![c].ask = {a}]
          /\ finds' = IF a.route = "stats" THEN finds
                      ELSE [x \in FindIds |-> IF x[1] = c /\ x[2] \in DOMAIN a.periods
                                              THEN FindOf(a, a.periods[x[2]]) ELSE finds[x]]
  /\ UNCHANGED <<edgar, reportedFacts, filings, fundNow, fundFaults>>

\* fetchStatementsResponse: Promise.all fails with the first find that throws;
\* otherwise the outcomes of the finds are the answer
RespondStatements(c) ==
  LET mine == [k \in DOMAIN AskOf(c).periods |-> finds[<<c, k>>]] IN
  /\ fundCalls[c].at = "finds"
  /\ IF \E k \in DOMAIN mine : mine[k].outcome = Thrown THEN fundCalls' = AnsweredFund(c, 502)
     ELSE (\A k \in DOMAIN mine : mine[k].at = "done") /\ fundCalls' = AnsweredFund(c, 200)
  /\ finds' = [x \in FindIds |-> IF x[1] = c /\ finds[x].at = "done" THEN NoFind ELSE finds[x]]
  /\ UNCHANGED <<edgar, reportedFacts, filings, fundNow, fundFaults>>

\* --- the statement of a period ----------------------------------------------------------
AskOfFind(x) == CHOOSE a \in finds[x].ask : TRUE
IssuerOf(x) == AskOfFind(x).issuer
ToFind(x, r) == finds' = [finds EXCEPT ![x] = r]
FundDone(x, o) == ToFind(x, [NoFind EXCEPT !.at = "done", !.outcome = o])

\* distinct on (metric_key) ... order by metric_key, as_of desc, created_at desc; no two
\* fetches have one as_of, so that created_at decides nothing
MetricNames ==
  <<"cost_of_revenue", "eps_basic", "eps_diluted", "gross_profit", "net_income", "operating_expenses",
    "operating_income", "revenue", "shares_outstanding_basic", "shares_outstanding_diluted">>
NameRank(m) == CHOOSE i \in DOMAIN MetricNames : MetricNames[i] = m
RowsFor(issuer, year, period) ==
  LET all == {f \in reportedFacts : f.issuer = issuer /\ f.year = year /\ f.period = period /\ f.metric \in IncomeMetrics}
  IN {CHOOSE f \in {g \in all : g.metric = m} : \A h \in all : h.metric = m => f.asOf >= h.asOf :
      m \in {g.metric : g \in all}}
FirstByName(rows) == CHOOSE f \in rows : \A g \in rows : NameRank(f.metric) <= NameRank(g.metric)

\* loadStatementFromFacts: the days and the source are those of the first line
StatementFrom(rows) ==
  LET base == FirstByName(rows)
  IN [year |-> base.year, period |-> base.period, start |-> base.start, end |-> base.end,
      currency |-> FirstByName({f \in rows : f.currency # {}}).currency, asOf |-> base.asOf, source |-> base.source,
      lines |-> {[metric |-> f.metric, value |-> f.value, unit |-> f.unit, currency |-> f.currency,
                  coverage |-> f.coverage] : f \in rows}]
InMoney(rows) == \E f \in rows : f.currency # {}
\* unitClassFor takes a unit that counts nothing for one of money
ReadsBack(s) == Contracted(s) /\ \A l \in s.lines : Monetary(l.unit) \/ l.unit \in {"shares", "count"}

FindLoads(x) ==
  LET a == AskOfFind(x)
      rows == RowsFor(a.issuer, finds[x].year, finds[x].period)
  IN
  /\ finds[x].at = "load"
  /\ IF a.family # "income" \/ a.basis # "as_reported" THEN FundDone(x, MissingCoverage) /\ UNCHANGED fundNow
     ELSE IF InMoney(rows)
     THEN FundDone(x, IF ReadsBack(StatementFrom(rows)) THEN Available(StatementFrom(rows)) ELSE Thrown) /\ UNCHANGED fundNow
     ELSE IF ~HasFetcher \/ CikOf(a.issuer) = {} THEN FundDone(x, MissingCoverage) /\ UNCHANGED fundNow
     ELSE ToFind(x, [finds[x] EXCEPT !.at = "fetch", !.asOf = fundNow + 1]) /\ fundNow' = fundNow + 1
  /\ UNCHANGED <<edgar, reportedFacts, filings, fundCalls, fundFaults>>

\* classifySecIngestionError of a failed fetch
FetchFailure(reply) ==
  CASE reply = 404 -> MissingCoverage
    [] reply = 429 -> UnavailableLine("rate_limited", TRUE)
    [] OTHER -> UnavailableLine("provider_error", reply >= 500)

FindFetches(x) ==
  LET p == edgar[IssuerOf(x)]
      r == finds[x]
      accn == AccessionOf(p, r.year, r.period)
      lines == ExtractedLines(p, r.year, r.period, accn)
      first == CHOOSE l \in lines : TRUE
  IN
  /\ r.at = "fetch"
  /\ \/ \E reply \in FailedFetches : FundDone(x, FetchFailure(reply))
     \/ IF ~p.gaap \/ accn = {} THEN FundDone(x, MissingCoverage)
        ELSE ToFind(x, [r EXCEPT !.at = "source", !.accn = CHOOSE a \in accn : TRUE, !.error = ExtractError(p, lines),
               !.statement = IF lines = {} THEN {}
                             ELSE {[year |-> r.year, period |-> r.period, start |-> first.start, end |-> first.end,
                                    currency |-> {"USD"}, asOf |-> r.asOf, source |-> CHOOSE a \in accn : TRUE,
                                    lines |-> {[metric |-> l.metric, value |-> l.value, unit |-> l.unit,
                                                currency |-> l.currency, coverage |-> l.coverage] : l \in lines}]}])
  /\ UNCHANGED <<edgar, reportedFacts, filings, fundCalls, fundNow, fundFaults>>

\* upsertSecFilingSource comes before the statement is built and its metrics are looked up
FindRecordsFiling(x) ==
  LET r == finds[x]
      s == CHOOSE t \in r.statement : TRUE
  IN
  /\ r.at = "source"
  /\ filings' = filings \cup {r.accn}
  /\ IF r.error \in {"taxonomy", "empty", "money"} THEN FundDone(x, MissingCoverage)
     ELSE IF r.error = "period" \/ ~Contracted(s) \/ ~Mappable(s, MetricClasses)
     THEN FundDone(x, UnavailableLine("provider_error", FALSE))
     ELSE ToFind(x, [r EXCEPT !.at = "persist",
                              !.left = SetToSortSeq(s.lines, LAMBDA k, l : FirstConcept(k.metric) < FirstConcept(l.metric))])
  /\ UNCHANGED <<edgar, reportedFacts, fundCalls, fundNow, fundFaults>>

\* facts_active_reported_identity_idx
SameFact(f, g) ==
  <<f.issuer, f.metric, f.year, f.period, f.source>> = <<g.issuer, g.metric, g.year, g.period, g.source>>

FindPersists(x) ==
  LET r == finds[x]
      s == CHOOSE t \in r.statement : TRUE
      l == r.left[1]
      f == [issuer |-> IssuerOf(x), metric |-> l.metric, year |-> r.year, period |-> r.period, start |-> s.start,
            end |-> s.end, value |-> l.value, unit |-> l.unit, currency |-> l.currency, coverage |-> l.coverage,
            asOf |-> s.asOf, source |-> r.accn]
  IN
  /\ r.at = "persist"
  /\ reportedFacts' = reportedFacts \cup IF \E g \in reportedFacts : SameFact(f, g) THEN {} ELSE {f}
  /\ IF Len(r.left) = 1 THEN FundDone(x, Available(s)) ELSE ToFind(x, [r EXCEPT !.left = Tail(@)])
  /\ UNCHANGED <<edgar, filings, fundCalls, fundNow, fundFaults>>

\* --- key stats --------------------------------------------------------------------------
ToStats(c, at, k, year) ==
  /\ fundCalls' = [fundCalls EXCEPT ![c].at = at, ![c].year = year]
  /\ finds' = [finds EXCEPT ![<<c, k>>] = FindOf(AskOf(c), [year |-> year, period |-> "FY"])]

\* loadLatestFiscalYear; without a cik or a fetcher there is nothing to discover
StatsLatest(c) ==
  LET years == {f.year : f \in {g \in reportedFacts : g.issuer = AskOf(c).issuer /\ g.period = "FY" /\ g.metric = "revenue"}}
  IN
  /\ fundCalls[c].at = "latest"
  /\ IF years # {} THEN ToStats(c, "current", 1, Max(years))
     ELSE /\ fundCalls' = IF HasFetcher /\ CikOf(AskOf(c).issuer) # {} THEN [fundCalls EXCEPT ![c].at = "discover"]
                          ELSE AnsweredFund(c, 404)
          /\ UNCHANGED finds
  /\ UNCHANGED <<edgar, reportedFacts, filings, fundNow, fundFaults>>

\* latestAnnualRevenueYear
RevenueYears(p) ==
  UNION {{v.fy : v \in {w \in ToSet(p.facts[Concepts[o[1]][1]][o[2]].values) : w.fp = "FY" /\ w.form = "10-K"}} :
         o \in {q \in OfferedBy(p) : p.gaap /\ Concepts[q[1]][2] = "revenue"}}
StatsDiscover(c) ==
  LET years == RevenueYears(edgar[AskOf(c).issuer]) IN
  /\ fundCalls[c].at = "discover"
  /\ \/ \E reply \in FailedFetches : fundCalls' = AnsweredFund(c, StatusOf(FetchFailure(reply))) /\ UNCHANGED finds
     \/ /\ years = {} /\ fundCalls' = AnsweredFund(c, 404) /\ UNCHANGED finds
     \/ years # {} /\ ToStats(c, "current", 1, Max(years))
  /\ UNCHANGED <<edgar, reportedFacts, filings, fundNow, fundFaults>>

StatsCurrent(c) ==
  LET r == finds[<<c, 1>>] IN
  /\ fundCalls[c].at = "current" /\ r.at = "done"
  /\ IF r.outcome.kind = "available"
     THEN ToStats(c, "prior", 2, fundCalls[c].year - 1)
     ELSE fundCalls' = AnsweredFund(c, StatusOf(r.outcome)) /\ finds' = [finds EXCEPT ![<<c, 1>>] = NoFind]
  /\ UNCHANGED <<edgar, reportedFacts, filings, fundNow, fundFaults>>

\* a year before that is not covered does not stop the stats; one that fails does
FailedFind(o) == o.kind = "thrown" \/ o.reason \notin {"none", "missing_coverage"}
StatsPrior(c) ==
  LET current == CHOOSE s \in finds[<<c, 1>>].outcome.statement : TRUE
      r == finds[<<c, 2>>]
      prior == r.outcome.statement
  IN
  /\ fundCalls[c].at = "prior" /\ r.at = "done"
  /\ fundCalls' = IF FailedFind(r.outcome) THEN AnsweredFund(c, StatusOf(r.outcome))
                  ELSE IF \E s \in {current} \cup prior : ~Mappable(s, MetricClasses) THEN AnsweredFund(c, 502)
                  ELSE [AnsweredFund(c, 200) EXCEPT ![c].stats = {KeyStats(current, prior)}]
  /\ finds' = [finds EXCEPT ![<<c, 1>>] = NoFind, ![<<c, 2>>] = NoFind]
  /\ UNCHANGED <<edgar, reportedFacts, filings, fundNow, fundFaults>>

\* --- the world around ---------------------------------------------------------------------
\* a database statement fails: outside of the try it is thrown, within it is a provider error
FindFails(x) ==
  /\ fundFaults < MaxFundFaults
  /\ \/ finds[x].at = "load" /\ FundDone(x, Thrown)
     \/ finds[x].at \in {"source", "persist"} /\ FundDone(x, UnavailableLine("provider_error", FALSE))
  /\ fundFaults' = fundFaults + 1
  /\ UNCHANGED <<edgar, reportedFacts, filings, fundCalls, fundNow>>
\* the select of the latest year, of the issuer, or of the metrics of both statements
StatsFails(c) ==
  LET prior == finds[<<c, 2>>] IN
  /\ fundFaults < MaxFundFaults /\ fundFaults' = fundFaults + 1
  /\ \/ fundCalls[c].at = "latest"
     \/ fundCalls[c].at = "prior" /\ prior.at = "done" /\ ~FailedFind(prior.outcome)
  /\ fundCalls' = AnsweredFund(c, StatusOf(Thrown))
  /\ finds' = [finds EXCEPT ![<<c, 1>>] = NoFind, ![<<c, 2>>] = NoFind]
  /\ UNCHANGED <<edgar, reportedFacts, filings, fundNow>>

FundCrashes ==
  /\ fundFaults < MaxFundFaults /\ \E c \in FundCalls : fundCalls[c].at \notin {"idle", "answered"}
  /\ fundCalls' = [c \in FundCalls |-> IF fundCalls[c].at \in {"idle", "answered"} THEN fundCalls[c]
                                       ELSE [NoFundCall EXCEPT !.at = "answered"]]
  /\ finds' = [x \in FindIds |-> NoFind] /\ fundFaults' = fundFaults + 1
  /\ UNCHANGED <<edgar, reportedFacts, filings, fundNow>>

\* a review invalidates a fact or supersedes it
FactWithdrawn(f) ==
  /\ fundFaults < MaxFundFaults /\ fundFaults' = fundFaults + 1
  /\ reportedFacts' = reportedFacts \ {f}
  /\ UNCHANGED <<edgar, filings, fundCalls, finds, fundNow>>

\* a new filing changes what EDGAR answers
FilingArrives(i, p) ==
  /\ fundFaults < MaxFundFaults /\ fundFaults' = fundFaults + 1
  /\ edgar[i] # p /\ edgar' = [edgar EXCEPT ![i] = p]
  /\ UNCHANGED <<reportedFacts, filings, fundCalls, finds, fundNow>>

FundNext ==
  \/ \E c \in FundCalls :
       \/ \E a \in FundAsksOf(c) : AskFund(c, a)
       \/ RespondStatements(c) \/ StatsLatest(c) \/ StatsDiscover(c) \/ StatsCurrent(c) \/ StatsPrior(c) \/ StatsFails(c)
  \/ \E x \in FindIds : FindLoads(x) \/ FindFetches(x) \/ FindRecordsFiling(x) \/ FindPersists(x) \/ FindFails(x)
  \/ FundCrashes
  \/ \E f \in {g \in reportedFacts : g.metric \in WithdrawnMetrics} : FactWithdrawn(f)
  \/ \E i \in FundIssuers : \E p \in NewPayloadsOf(i) : FilingArrives(i, p)

FundSpec == FundInit /\ [][FundNext]_fundVars

\* Type invariant: reported facts keep their unique index and their sources, and a
\* statement that is answered is of the period asked for and keeps its contract.
FundTypeOK ==
  /\ edgar \in [FundIssuers -> Payloads] /\ fundNow \in Nat /\ fundFaults \in 0..MaxFundFaults
  /\ \A f \in reportedFacts : f.source \in filings /\ \A g \in reportedFacts : SameFact(f, g) => f = g
  /\ \A c \in FundCalls : fundCalls[c].at \in {"idle", "latest", "discover", "current", "prior", "finds", "answered"}
  /\ \A c \in FundCalls : fundCalls[c].status \in {0, 200, 400, 404, 413, 415, 429, 502, 503}
  /\ \A x \in FindIds : \A s \in finds[x].outcome.statement : Contracted(s) /\ s.lines # {}
  /\ \A x \in FindIds :
       /\ finds[x].at \in {"none", "load", "fetch", "source", "persist", "done"}
       /\ finds[x].at = "persist" => finds[x].accn \in filings /\ finds[x].left # <<>>
       /\ finds[x].at = "done" => finds[x].outcome # NoOutcome

-------------------------------------------------------------------------------
(* Profiles, earnings, holders, consensus and segments of the fundamentals service.      *)
(* A profile is two selects, and with the sidecar of unofficial providers its missing    *)
(* fields are asked for, stored with their provenance in a transaction, and answered     *)
(* (dev-provider-profile.ts); earnings and holders are asked of the sidecar alone and    *)
(* nothing of them is kept (dev-provider-fundamentals.ts, earnings.ts, holders.ts).      *)

CONSTANTS
  DetailIssuers,
  HasSidecar,             \* the unofficial providers are enabled
  RowsAtFirst,            \* tables issuers and listings of the first state
  NewListings,            \* listings that the resolver may add
  CikOfIssuer(_),
  SidecarReplies(_),      \* what the sidecar may reply to a request for an operation
  DetailCalls,            \* requests
  DetailAsksOf(_),        \* what a request may ask
  MaxDetailFaults         \* bound on failed statements and added listings

VARIABLES
  issuerRows,             \* table issuers: the profile fields of each issuer
  activeListings,         \* table listings: the active ones of an issuer, in the order they are read
  enrichments,            \* table issuer_profile_enrichments
  detailCalls,            \* each request
  detailFaults

detailVars == <<issuerRows, activeListings, enrichments, detailCalls, detailFaults>>

ProfileFields == {"domicile", "sector", "industry"}
NoFields == [f \in ProfileFields |-> {}]
NoDetailCall == [at |-> "idle", ask |-> {}, fields |-> NoFields, fetched |-> NoFields, listings |-> <<>>,
                 status |-> 0, shown |-> NoFields, events |-> <<>>, holders |-> <<>>]

DetailInit ==
  /\ \E r \in RowsAtFirst : issuerRows = r.issuers /\ activeListings = r.listings
  /\ enrichments = {}
  /\ detailCalls = [c \in DetailCalls |-> NoDetailCall]
  /\ detailFaults = 0

AskOfDetail(c) == CHOOSE a \in detailCalls[c].ask : TRUE
SetDetail(c, r) == detailCalls' = [detailCalls EXCEPT ![c] = r]
AnswerDetail(c, o) == SetDetail(c, [NoDetailCall EXCEPT !.at = "answered", !.ask = detailCalls[c].ask, !.status = StatusOf(o)])
RefuseDetail(c, status) == SetDetail(c, [NoDetailCall EXCEPT !.at = "answered", !.status = status])

\* --- requests -----------------------------------------------------------------------
SegmentAxes == {"business", "geography"}

\* matchRoute: an id or a kind of holders that is none leads nowhere
Routed(a) ==
  a.issuer # "malformed" /\ a.op \in {"profile", "earnings", "institutional", "insider", "consensus"}

\* validateSegmentsRequest
SoundSegments(a) ==
  a.issuer # "malformed" /\ a.axis \in SegmentAxes /\ a.basis \in Bases /\ a.period \in PeriodNames

\* 0 when nothing is refused
DetailRefusal(a) ==
  CASE a.op # "segments" -> IF Routed(a) THEN 0 ELSE 404
    [] a.op = "segments" /\ BodyRefusal(a.body) # 0 -> BodyRefusal(a.body)
    [] OTHER -> IF SoundSegments(a) THEN 0 ELSE 400

\* no source of this service has segments or consensus, none but the sidecar the others
Unsupported(a) ==
  a.op \in {"segments", "consensus"} \/ (a.op \in {"earnings", "institutional", "insider"} /\ ~HasSidecar)
FoundUnsupported == {}

\* fetchSegmentsOutcome: what is not found is not covered
OutcomeOf(found) == IF found = {} THEN MissingCoverage ELSE Available(CHOOSE s \in found : TRUE)

AskDetail(c, a) ==
  /\ detailCalls[c].at = "idle"
  /\ CASE DetailRefusal(a) # 0 -> RefuseDetail(c, DetailRefusal(a))
       [] DetailRefusal(a) = 0 /\ Unsupported(a) -> RefuseDetail(c, StatusOf(OutcomeOf(FoundUnsupported)))
       [] OTHER -> SetDetail(c, [NoDetailCall EXCEPT !.at = "issuer", !.ask = {a}])
  /\ UNCHANGED <<issuerRows, activeListings, enrichments, detailFaults>>

\* --- the issuer and its listings: two selects -------------------------------------------
FindIssuer(c) ==
  LET i == AskOfDetail(c).issuer IN
  /\ detailCalls[c].at = "issuer"
  /\ IF i \in DOMAIN issuerRows
     THEN SetDetail(c, [detailCalls[c] EXCEPT !.at = "listings", !.fields = issuerRows[i]])
     ELSE AnswerDetail(c, MissingCoverage)
  /\ UNCHANGED <<issuerRows, activeListings, enrichments, detailFaults>>

ShowProfile(c, fields, listings) ==
  SetDetail(c, [NoDetailCall EXCEPT !.at = "answered", !.ask = detailCalls[c].ask, !.status = 200,
                                    !.shown = fields, !.listings = listings])

\* each exchange is another listing
FreezesExchanges(listings) == IsInjective(listings)
ReadListings(i) == activeListings[i]

\* needsProfileEnrichment
Incomplete(fields) == \E f \in ProfileFields : fields[f] = {}

FindListings(c) ==
  LET a == AskOfDetail(c)
      read == ReadListings(a.issuer)
      fields == detailCalls[c].fields
      asks == SetDetail(c, [detailCalls[c] EXCEPT !.at = "sidecar", !.listings = read])
  IN /\ detailCalls[c].at = "listings"
     /\ CASE ~FreezesExchanges(read) -> AnswerDetail(c, Thrown)
          [] FreezesExchanges(read) /\ a.op = "profile" ->
               IF HasSidecar /\ Incomplete(fields) /\ read # <<>> THEN asks
               ELSE ShowProfile(c, fields, read)
          [] FreezesExchanges(read) /\ a.op # "profile" /\ read = <<>> -> AnswerDetail(c, MissingCoverage)
          [] OTHER -> asks
     /\ UNCHANGED <<issuerRows, activeListings, enrichments, detailFaults>>

\* --- what the sidecar's reply becomes --------------------------------------------------
\* postSidecar throws, or its envelope says unavailable (sidecarUnavailableError)
SidecarOutcome(reply) ==
  CASE reply.kind = "lost" -> UnavailableLine("provider_error", TRUE)
    [] reply.kind = "malformed" -> UnavailableLine("provider_error", FALSE)
    [] reply.kind = "http" -> IF reply.status = 429 THEN UnavailableLine("rate_limited", TRUE)
                              ELSE UnavailableLine("provider_error", reply.status >= 500)
    [] reply.kind = "unavailable" ->
         LET reason == IF reply.reason \in AvailabilityReasons THEN reply.reason ELSE "provider_error"
         IN IF reason = "missing_coverage" THEN MissingCoverage
            ELSE UnavailableLine(reason, reply.retry # {FALSE})
    [] OTHER -> NoOutcome
MalformedReply == UnavailableLine("provider_error", FALSE)

\* computeSurprise; the percentage as a pair of numerator and denominator
Surprise(actual, estimate) ==
  IF actual = {} \/ estimate \in {{}, {0}} THEN [pct |-> {}, direction |-> {}]
  ELSE LET a == CHOOSE x \in actual : TRUE
           e == CHOOSE x \in estimate : TRUE
       IN [pct |-> {<<(a - e) * 100, IF e < 0 THEN -e ELSE e>>},
           direction |-> {IF a > e THEN "beat" ELSE IF a < e THEN "miss" ELSE "inline"}]

\* sorted by the keys of its members, the greatest first, in their order where it is equal
NewestRows(s, keys) ==
  LET order == SetToSortSeq(DOMAIN s, LAMBDA i, j : keys[i] > keys[j] \/ (keys[i] = keys[j] /\ i < j))
  IN [k \in DOMAIN s |-> s[order[k]]]

\* freezeEarningsEvent, of the fiscal quarter that the period ends with
EarningsEvent(e, label) ==
  [release |-> e.release, year |-> label.year, period |-> label.period, surprise |-> Surprise(e.actual, e.estimate)]

\* freezeEarningsEventsEnvelope: one event of a quarter
FrozenEarnings(events) ==
  IF IsInjective([k \in DOMAIN events |-> <<events[k].year, events[k].period>>])
  THEN {NewestRows(events, [k \in DOMAIN events |-> events[k].release])} ELSE {}

Currencies == {"USD", "EUR"}

\* sidecarEarningsInput: a set of at most one
EarningsFrom(data, calendar) ==
  LET Labels(k) == LabelForPeriodEnd(calendar, data.events[k].end)
  IN IF data.whole /\ data.currency \subseteq Currencies
        /\ \A k \in DOMAIN data.events : data.events[k].whole /\ Labels(k) # {}
     THEN FrozenEarnings([k \in DOMAIN data.events |->
                            EarningsEvent(data.events[k], CHOOSE l \in Labels(k) : TRUE)])
     ELSE {}

\* sidecarHolders
SoundHolders(data) == data.whole /\ data.currency \subseteq Currencies

SoundInstitution(r) == r.shares >= 0 /\ r.percent \in 0..100
SoundInsider(r) == /\ r.shares >= 0 /\ (r.price = {}) = (r.value = {})
                   /\ \A p \in r.price : p >= 0

\* two filings of a holder on a day would be counted twice
FrozenInstitutions(rows) ==
  IF IsInjective([k \in DOMAIN rows |-> <<rows[k].holder, rows[k].filed>>])
  THEN LET largest == NewestRows(rows, [k \in DOMAIN rows |-> rows[k].shares])
       IN {NewestRows(largest, [k \in DOMAIN rows |-> largest[k].filed])}
  ELSE {}
FrozenInsiders(rows) == {NewestRows(rows, [k \in DOMAIN rows |-> rows[k].traded])}

InstitutionsFrom(data) ==
  IF SoundHolders(data) /\ \A k \in DOMAIN data.rows : data.rows[k].whole /\ SoundInstitution(data.rows[k])
  THEN FrozenInstitutions(data.rows) ELSE {}

InsidersFrom(data) ==
  IF /\ SoundHolders(data)
     /\ \A k \in DOMAIN data.rows :
          /\ data.rows[k].whole /\ SoundInsider(data.rows[k])
          /\ data.rows[k].type \in {"buy", "sell", "option_exercise", "gift", "other"}
  THEN FrozenInsiders(data.rows) ELSE {}

\* mergeProfileNulls, changedProfileFields
Missing(fields, data) == [f \in ProfileFields |-> IF fields[f] = {} THEN data[f] ELSE {}]
MergedFields(fields, changed) == [f \in ProfileFields |-> fields[f] \cup changed[f]]

\* --- the sidecar answers, or does not within five seconds ---------------------------------
SidecarAnswersProfile(c, reply) ==
  LET r == detailCalls[c]
      changed == Missing(r.fields, reply.data)
  IN /\ r.at = "sidecar" /\ AskOfDetail(c).op = "profile"
     /\ IF SidecarOutcome(reply) # NoOutcome \/ changed = NoFields THEN ShowProfile(c, r.fields, r.listings)
        ELSE SetDetail(c, [r EXCEPT !.at = "persist", !.fetched = changed])
     /\ UNCHANGED <<issuerRows, activeListings, enrichments, detailFaults>>

SidecarAnswersEarnings(c, reply) ==
  LET a == AskOfDetail(c)
      events == EarningsFrom(reply.data, CalendarOf(CikOfIssuer(a.issuer)))
      o == SidecarOutcome(reply)
  IN /\ detailCalls[c].at = "sidecar" /\ a.op = "earnings"
     /\ CASE o # NoOutcome -> AnswerDetail(c, o)
          [] o = NoOutcome /\ events = {} -> AnswerDetail(c, MalformedReply)
          [] OTHER -> \E s \in events :
               SetDetail(c, [NoDetailCall EXCEPT !.at = "answered", !.ask = {a}, !.status = 200, !.events = s])
     /\ UNCHANGED <<issuerRows, activeListings, enrichments, detailFaults>>

SidecarAnswersHolders(c, reply) ==
  LET a == AskOfDetail(c)
      rows == IF a.op = "institutional" THEN InstitutionsFrom(reply.data) ELSE InsidersFrom(reply.data)
      o == SidecarOutcome(reply)
  IN /\ detailCalls[c].at = "sidecar" /\ a.op \in {"institutional", "insider"}
     /\ CASE o # NoOutcome -> AnswerDetail(c, o)
          [] o = NoOutcome /\ rows = {} -> AnswerDetail(c, MalformedReply)
          [] OTHER -> \E s \in rows :
               SetDetail(c, [NoDetailCall EXCEPT !.at = "answered", !.ask = {a}, !.status = 200, !.holders = s])
     /\ UNCHANGED <<issuerRows, activeListings, enrichments, detailFaults>>

\* persistProfileEnrichment: in one transaction the provenance is overwritten, while a field
\* that has got a value since keeps it; the answer has what was merged before
StoreEnrichment(c) ==
  LET r == detailCalls[c]
      i == AskOfDetail(c).issuer
      told == {f \in ProfileFields : r.fetched[f] # {}}
  IN /\ r.at = "persist"
     /\ enrichments' = {e \in enrichments : e.issuer # i \/ e.field \notin told}
                       \cup {[issuer |-> i, field |-> f, value |-> r.fetched[f]] : f \in told}
     /\ issuerRows' = [issuerRows EXCEPT ![i] =
                         [f \in ProfileFields |-> IF @[f] = {} THEN r.fetched[f] ELSE @[f]]]
     /\ ShowProfile(c, MergedFields(r.fields, r.fetched), r.listings)
     /\ UNCHANGED <<activeListings, detailFaults>>

\* a statement of a select or of the transaction fails: nothing is stored, and the request fails
DetailFails(c) ==
  /\ detailFaults < MaxDetailFaults
  /\ detailFaults' = detailFaults + 1
  /\ detailCalls[c].at \in {"issuer", "listings", "persist"}
  /\ AnswerDetail(c, Thrown)
  /\ UNCHANGED <<issuerRows, activeListings, enrichments>>

\* the resolver discovers another listing of an issuer; the ones without active_from come first
ListingDiscovered(i, l) ==
  /\ detailFaults < MaxDetailFaults
  /\ detailFaults' = detailFaults + 1
  /\ i \in DOMAIN activeListings /\ l \notin Range(activeListings[i])
  /\ activeListings' = [activeListings EXCEPT ![i] = <<l>> \o @]
  /\ UNCHANGED <<issuerRows, enrichments, detailCalls>>

DetailNext ==
  \/ \E c \in DetailCalls :
       \/ \E a \in DetailAsksOf(c) : AskDetail(c, a)
       \/ FindIssuer(c) \/ FindListings(c) \/ StoreEnrichment(c) \/ DetailFails(c)
       \/ \E reply \in SidecarReplies("profile") : SidecarAnswersProfile(c, reply)
       \/ \E reply \in SidecarReplies("earnings") : SidecarAnswersEarnings(c, reply)
       \/ \E op \in {"institutional", "insider"} : \E reply \in SidecarReplies(op) :
            detailCalls[c].ask # {} /\ AskOfDetail(c).op = op /\ SidecarAnswersHolders(c, reply)
  \/ \E i \in DetailIssuers, l \in NewListings : ListingDiscovered(i, l)

DetailSpec == DetailInit /\ [][DetailNext]_detailVars

-----------------------------------------------------------------------------------
\* Of each field one value is kept with its provenance, and only of fields the issuer has; a
\* profile shows nothing that the issuer has no value of, however its requests interleave;
\* earnings have one event of a quarter, the newest first (persistProfileEnrichment,
\* freezeEarningsEventsEnvelope).
DetailTypeOK ==
  /\ \A e \in enrichments : e.field \in ProfileFields /\ issuerRows[e.issuer][e.field] # {} /\ e.value # {}
  /\ \A d, e \in enrichments : d.issuer = e.issuer /\ d.field = e.field => d = e
  /\ \A c \in DetailCalls :
       LET r == detailCalls[c] IN
       /\ r.at \in {"idle", "issuer", "listings", "sidecar", "persist", "answered"}
       /\ (r.at = "answered") = (r.status # 0)
       /\ \A f \in ProfileFields : r.shown[f] # {} => issuerRows[AskOfDetail(c).issuer][f] # {}
       /\ IsInjective(r.listings)
       /\ \A k \in DOMAIN r.events, l \in DOMAIN r.events :
            k < l => /\ r.events[k].release >= r.events[l].release
                     /\ <<r.events[k].year, r.events[k].period>> # <<r.events[l].year, r.events[l].period>>
===============================================================================
