------------------------------ MODULE MarketData ------------------------------
(* What the market service decides without state (services/market): the ranges  *)
(* providers are asked for, what each provider's reply becomes, which replies    *)
(* let the next provider be tried, when cached data expires, and the identity    *)
(* a series is cached and reused under.  A reply is <<kind>> or, from the dev    *)
(* sidecar, <<"declined", reason, retryable>>.                                   *)
EXTENDS Integers, FiniteSets, Sequences, SequencesExt, FiniteSetsExt, Functions

FailureReasons == {"provider_error", "missing_coverage", "rate_limited", "stale_data"}
Adjusted == "split_and_div_adjusted"

-------------------------------------------------------------------------------
\* A zone is a function from instants to offsets.  The wall clock of an instant:
Wall(zone, t) == t + zone[t]

\* the instant of a wall clock reading: at most four corrections of a first guess
Instant(zone, wall) ==
  LET Next(g) == IF g \in DOMAIN zone THEN wall - zone[g] ELSE g
  IN Next(Next(Next(Next(wall))))

FloorBucket(zone, t, size) == Instant(zone, (Wall(zone, t) \div size) * size)

CeilBucket(zone, t, size) ==
  LET low == FloorBucket(zone, t, size)
  IN IF low = t THEN low ELSE Instant(zone, Wall(zone, low) + size)

\* canonicalizeProviderBarRange: whole buckets, at least one
CanonicalRange(zone, range, size) ==
  LET start == FloorBucket(zone, range[1], size)
      end == CeilBucket(zone, range[2], size)
  IN <<start, IF end <= start THEN Instant(zone, Wall(zone, start) + size) ELSE end>>

-------------------------------------------------------------------------------
Unavailable(source, reason, retryable, at) ==
  [ok |-> FALSE, reason |-> reason, retryable |-> retryable, source |-> source, as_of |-> at]

\* an upstream HTTP error, in all three adapters
HttpReason(kind) == CASE kind = "404" -> "missing_coverage"
                      [] kind = "429" -> "rate_limited"
                      [] OTHER -> "provider_error"
HttpRetryable(kind) == kind \in {"429", "5xx"}

Polygon(source, reply, at) ==
  Unavailable(source, HttpReason(reply[1]),
              HttpRetryable(reply[1]) \/ reply[1] \in {"network", "timeout"}, at)

Stooq(source, reply, at) ==
  IF reply[1] = "empty" THEN Unavailable(source, "missing_coverage", FALSE, at)
  ELSE Unavailable(source, HttpReason(reply[1]),
                   HttpRetryable(reply[1]) \/ reply[1] \in {"network", "unresolved"}, at)

\* the sidecar of unofficial providers answers with an envelope of its own
Sidecar(source, reply, at) ==
  IF reply[1] = "declined" THEN Unavailable(source, reply[2], reply[3], at)
  ELSE Unavailable(source, HttpReason(reply[1]),
                   HttpRetryable(reply[1]) \/ reply[1] \in {"network", "timeout", "unresolved"}, at)

Failed(adapter, reply, at) ==
  CASE adapter = "polygon" -> Polygon(adapter, reply, at)
    [] adapter = "stooq" -> Stooq(adapter, reply, at)
    [] OTHER -> Sidecar(adapter, reply, at)

\* what an adapter makes of a reply to a bars request
BarsOutcome(adapter, reply, interval, range, bars, at) ==
  IF adapter # "polygon" /\ interval # "1d"
  THEN Unavailable(adapter, "missing_coverage", FALSE, at)
  ELSE IF reply[1] \in {"ok", "unadjusted"} /\ ~(adapter = "stooq" /\ bars = {})
  THEN [ok |-> TRUE, source |-> adapter, range |-> range, bars |-> bars,
        basis |-> IF adapter # "stooq" /\ reply[1] = "unadjusted" THEN "unadjusted" ELSE Adjusted,
        as_of |-> IF bars = {} THEN range[2] ELSE Max(bars)]
  ELSE Failed(adapter, IF reply[1] \in {"ok", "unadjusted"} THEN <<"empty">> ELSE reply, at)

\* and to a quote request: polygon tries its daily bars when the snapshot is denied
\* or incomplete, and reports the snapshot's error when they do not help
QuoteOutcome(adapter, reply, daily, at, day) ==
  CASE adapter = "stooq" -> Unavailable(adapter, "missing_coverage", FALSE, at)
    [] reply[1] = "ok" -> [ok |-> TRUE, source |-> adapter, as_of |-> at]
    [] adapter = "polygon" /\ reply[1] \in {"403", "malformed"} /\ daily[1] = "ok" ->
         [ok |-> TRUE, source |-> adapter, as_of |-> day]
    [] OTHER -> Failed(adapter, reply, at)

\* firstAvailable goes on to the next adapter
Eligible(adapter, reply, outcome, op, interval, dailies) ==
  /\ ~outcome.ok
  /\ \/ outcome.retryable
     \/ adapter = "polygon" /\ reply[1] = "403"
     \/ op = "bars" /\ interval = "1d" /\ dailies # <<>> /\ outcome.reason = "missing_coverage"

\* the adapters an operation may reach
AdaptersFor(op, interval, realtime, dailies) ==
  IF op = "bars" /\ interval = "1d" THEN realtime \o dailies ELSE realtime

-------------------------------------------------------------------------------
\* daily bars last to the next weekday's midnight UTC, everything else half an hour
Weekend(day) == day % 7 \in {5, 6}
BarsExpiry(now, interval, ttl, dayLength) ==
  IF interval # "1d" THEN now + ttl
  ELSE Min({d * dayLength : d \in {d \in (now \div dayLength + 1)..(now \div dayLength + 3) : ~Weekend(d)}})

\* assertSeriesQueryContract, and the one normalization this service answers
QueryStatus(q) ==
  IF \/ q.subjects = <<>> \/ ~IsInjective(q.subjects) \/ q.range[1] >= q.range[2]
     \/ q.normalization # "raw" THEN 400 ELSE 200

\* seriesCacheKey: the subjects in canonical order, and the freshness boundary
SeriesKey(q) == [subjects |-> {q.subjects[i] : i \in DOMAIN q.subjects}, range |-> q.range,
                 interval |-> q.interval, basis |-> q.basis,
                 normalization |-> q.normalization, boundary |-> q.range[2]]

\* seriesTransformReuseDecision: a sealed series answers another query
Reuse(sealed, asOf, allowed, q) ==
  LET key == SeriesKey(q)
  IN CASE \/ key.subjects # sealed.subjects \/ key.basis # sealed.basis
          \/ key.normalization # sealed.normalization -> "identity_changed"
       [] key.range[2] > asOf -> "requires_fresher_data"
       [] \A t \in allowed : t[1] # key.interval -> "interval_not_allowed"
       [] <<key.interval, key.range>> \notin allowed -> "range_not_allowed"
       [] OTHER -> "allowed"

-------------------------------------------------------------------------------
(* The market service (services/market): quotes and price series over a cache   *)
(* table, a chain of providers and, for series, a response cache in memory.     *)
(* Requests interleave at every statement and every provider call; a series     *)
(* request has one leg per listing, all running at once.                        *)

CONSTANTS Asks,          \* requests
          Failing,       \* those whose statements may fail
          MarketQueriesOf(_), \* what a series request may ask
          Listings,      \* listing ids
          Zone,          \* the zone the listings trade in
          Realtime,      \* providers of everything, in order
          Dailies,       \* further providers of daily bars
          Replies,       \* what a provider may reply
          Ttl,           \* 30 minutes
          DayLength,     \* a day, in the same units
          SeriesMax,     \* seriesCacheMaxEntries
          MaxClock       \* bound: the clock

ASSUME MarketConstants ==
  /\ Ttl \in Nat \ {0} /\ DayLength \in Nat \ {0} /\ SeriesMax \in Nat /\ MaxClock \in Nat
  /\ Realtime # <<>>

VARIABLES clock,        \* the time
          known,        \* table listings
          quoteRows,    \* table market_quote_snapshots
          barRows,      \* tables market_bar_ranges and market_bars
          ask,          \* each request and its legs
          seriesCache,  \* seriesResponseCache, oldest first
          answers       \* history: what was answered, and when it was computed

marketVars == <<clock, known, quoteRows, barRows, ask, seriesCache, answers>>

IntervalSize(interval) == IF interval = "1d" THEN DayLength ELSE 1

\* the bars that exist at a time: those of the buckets that have begun
Tape(range, interval, at) ==
  {t \in range[1]..(range[2] - 1) : t <= at /\ Wall(Zone, t) % IntervalSize(interval) = 0}

MarketInit ==
  /\ clock = 0
  /\ known \in SUBSET Listings
  /\ quoteRows = {} /\ barRows = {}
  /\ ask = [a \in Asks |-> [at |-> "new"]]
  /\ seriesCache = <<>>
  /\ answers = {}

-------------------------------------------------------------------------------
\* legs
NewLeg(op, listing, interval, range) ==
  [at |-> "listing", op |-> op, listing |-> listing, interval |-> interval, range |-> range,
   start |-> clock, tried |-> {}, todo |-> <<>>, stale |-> {}, row |-> {}, out |-> {}]

SetLeg(a, l, leg) == ask' = [ask EXCEPT ![a].legs[l] = leg]
\* what a row or a store hands on says when it was fetched
Fetched(out, at) == [f \in DOMAIN out \cup {"fetched"} |-> IF f = "fetched" THEN at ELSE out[f]]
Answer1(leg, outcome) == [leg EXCEPT !.at = "done", !.out = {outcome}]
LegIs(a, l, where) == ask[a].at = "legs" /\ l \in DOMAIN ask[a].legs /\ ask[a].legs[l].at = where

\* GET /v1/market/quote
AskQuote(a, listing) ==
  /\ ask[a].at = "new"
  /\ ask' = [ask EXCEPT ![a] = [at |-> "legs", q |-> {}, legs |-> [l \in {listing} |-> NewLeg("quote", l, "", <<>>)]]]
  /\ UNCHANGED <<clock, known, quoteRows, barRows, seriesCache, answers>>

CacheHit(key) == {i \in DOMAIN seriesCache : seriesCache[i].key = key}

\* a key that is deleted and set again is the youngest
Promoted(e) ==
  LET hit == CacheHit(e.key)
  IN Append(IF hit = {} THEN seriesCache ELSE RemoveAt(seriesCache, CHOOSE i \in hit : TRUE), e)

\* POST /v1/market/series: a hit answers at once and becomes the youngest entry
AskSeries(a, q) ==
  /\ ask[a].at = "new"
  /\ LET hit == CacheHit(SeriesKey(q))
     IN CASE QueryStatus(q) # 200 ->
               ask' = [ask EXCEPT ![a] = [at |-> "done"]] /\ UNCHANGED <<seriesCache, answers>>
          [] QueryStatus(q) = 200 /\ hit # {} ->
               LET e == seriesCache[CHOOSE i \in hit : TRUE]
               IN /\ ask' = [ask EXCEPT ![a] = [at |-> "done"]]
                  /\ seriesCache' = Promoted(e)
                  /\ answers' = answers \cup {[q |-> {q}, at |-> clock, hit |-> TRUE, legs |-> e.legs]}
          [] OTHER ->
               /\ ask' = [ask EXCEPT ![a] = [at |-> "legs", q |-> {q},
                    legs |-> [l \in SeriesKey(q).subjects |-> NewLeg("bars", l, q.interval, q.range)]]]
               /\ UNCHANGED <<seriesCache, answers>>
  /\ UNCHANGED <<clock, known, quoteRows, barRows>>

\* the listing is looked up before the adapter, whose clock is read as its call begins
FindListing(a, l) ==
  LET leg == ask[a].legs[l]
  IN /\ LegIs(a, l, "listing")
     /\ SetLeg(a, l, IF leg.listing \notin known
          THEN Answer1(leg, Unavailable("cache", "missing_coverage", FALSE, clock))
          ELSE [leg EXCEPT !.at = "fresh", !.start = clock,
                  !.range = IF leg.op = "quote" THEN @ ELSE CanonicalRange(Zone, @, IntervalSize(leg.interval)),
                  !.todo = AdaptersFor(leg.op, leg.interval, Realtime, Dailies)])
     /\ UNCHANGED <<clock, known, quoteRows, barRows, seriesCache, answers>>

QuotesOf(listing) == {r \in quoteRows : r.listing = listing}
RangesOf(leg) == {r \in barRows : r.listing = leg.listing /\ r.interval = leg.interval
                                  /\ r.range = leg.range /\ r.basis = Adjusted}

\* order by as_of desc, fetched_at desc, and by fetched_at desc; limit 1
LatestQuotes(rows) ==
  {r \in rows : \A o \in rows : o.as_of < r.as_of \/ (o.as_of = r.as_of /\ o.fetched <= r.fetched)}
LatestRanges(rows) == {r \in rows : \A o \in rows : o.fetched <= r.fetched}
\* a bug: the rows that were fetched last are fresh
FreshAnyway(rows, at) == rows
Fresh(rows, at) == {r \in rows : r.expires > at}

\* the first select of a lookup: a fresh row answers, or its bars are read next
ReadFresh(a, l) ==
  LET leg == ask[a].legs[l]
      rows == IF leg.op = "quote" THEN LatestQuotes(Fresh(QuotesOf(leg.listing), leg.start))
              ELSE LatestRanges(Fresh(RangesOf(leg), leg.start))
  IN /\ LegIs(a, l, "fresh")
     /\ \/ rows = {} /\ SetLeg(a, l, [leg EXCEPT !.at = "latest"])
        \/ \E r \in rows : SetLeg(a, l, IF leg.op = "quote" THEN Answer1(leg, Fetched(r.out, r.fetched))
                                        ELSE [leg EXCEPT !.at = "freshBars", !.row = {r}])
     /\ UNCHANGED <<clock, known, quoteRows, barRows, seriesCache, answers>>

\* the bars are a second select, and may be those of a later store
SameRow(r, s) == [f \in {"listing", "source", "interval", "basis", "range"} |-> r[f]]
                 = [f \in {"listing", "source", "interval", "basis", "range"} |-> s[f]]

ReadBars(a, l) ==
  LET leg == ask[a].legs[l]
  IN /\ LegIs(a, l, "freshBars")
     /\ \E r \in leg.row, s \in barRows :
          /\ SameRow(r, s)
          /\ SetLeg(a, l, Answer1(leg, Fetched([r.out EXCEPT !.bars = s.out.bars], r.fetched)))
     /\ UNCHANGED <<clock, known, quoteRows, barRows, seriesCache, answers>>

\* the stale row is only reported when the provider fails; the bars it reads are not used
ReadLatest(a, l) ==
  LET leg == ask[a].legs[l]
      rows == IF leg.op = "quote" THEN LatestQuotes(QuotesOf(leg.listing))
              ELSE LatestRanges(RangesOf(leg))
  IN /\ LegIs(a, l, "latest")
     /\ \/ rows = {} /\ SetLeg(a, l, [leg EXCEPT !.at = "provider"])
        \/ \E r \in rows : SetLeg(a, l, [leg EXCEPT !.at = "provider", !.stale = {r.out}])
     /\ UNCHANGED <<clock, known, quoteRows, barRows, seriesCache, answers>>

\* what the cached adapter makes of the providers' last outcome
Concluded(leg, outcome) ==
  IF outcome.ok THEN [leg EXCEPT !.at = "store", !.out = {outcome}]
  ELSE Answer1(leg, IF leg.stale = {} THEN outcome
                    ELSE LET s == CHOOSE s \in leg.stale : TRUE
                         IN Unavailable(s.source, "stale_data", outcome.retryable, s.as_of))

\* one provider's reply
CallProvider(a, l, reply, daily) ==
  LET leg == ask[a].legs[l]
      adapter == Head(leg.todo)
      outcome == IF leg.op = "quote"
                 THEN QuoteOutcome(adapter, reply, daily, clock, (clock \div DayLength) * DayLength)
                 ELSE BarsOutcome(adapter, reply, leg.interval, leg.range,
                                  Tape(leg.range, leg.interval, clock), clock)
      goOn == Eligible(adapter, reply, outcome, leg.op, leg.interval, Dailies) /\ Tail(leg.todo) # <<>>
      told == [leg EXCEPT !.tried = @ \cup {adapter}, !.todo = Tail(@)]
  IN /\ LegIs(a, l, "provider")
     /\ SetLeg(a, l, IF goOn THEN told ELSE Concluded(told, outcome))
     /\ UNCHANGED <<clock, known, quoteRows, barRows, seriesCache, answers>>

\* storeQuote, storeBars: an upsert that says it was fetched when the call began
StoreAnswer(a, l) ==
  LET leg == ask[a].legs[l]
      out == CHOOSE o \in leg.out : TRUE
      row == [listing |-> leg.listing, source |-> out.source, as_of |-> out.as_of, out |-> out,
              fetched |-> leg.start, expires |-> leg.start + Ttl]
      bar == [listing |-> leg.listing, source |-> out.source, as_of |-> out.as_of, out |-> out,
              interval |-> leg.interval, range |-> leg.range, basis |-> out.basis, fetched |-> leg.start,
              expires |-> BarsExpiry(leg.start, leg.interval, Ttl, DayLength)]
  IN /\ LegIs(a, l, "store")
     /\ IF leg.op = "quote"
        THEN /\ quoteRows' = {r \in quoteRows : <<r.listing, r.source, r.as_of>> # <<leg.listing, out.source, out.as_of>>}
                             \cup {row}
             /\ UNCHANGED barRows
        ELSE /\ barRows' = {r \in barRows : ~SameRow(r, bar)} \cup {bar}
             /\ UNCHANGED quoteRows
     /\ SetLeg(a, l, Answer1(leg, Fetched(out, leg.start)))
     /\ UNCHANGED <<clock, known, seriesCache, answers>>

\* a statement fails: the leg of a series becomes retryable, the quote answers 502
LegFails(a, l) ==
  /\ a \in Failing
  /\ \E where \in {"listing", "fresh", "freshBars", "latest", "store"} : LegIs(a, l, where)
  /\ SetLeg(a, l, Answer1(ask[a].legs[l], [ok |-> FALSE, reason |-> "provider_error", retryable |-> TRUE,
                                          source |-> "cache", as_of |-> clock, threw |-> TRUE]))
  /\ UNCHANGED <<clock, known, quoteRows, barRows, seriesCache, answers>>

\* the basis the query binds is not relabelled
Bound(q, leg) ==
  LET out == CHOOSE o \in leg.out : TRUE
  IN IF out.ok /\ \E s \in q : s.basis # out.basis
     THEN Unavailable(out.source, "missing_coverage", FALSE, out.as_of) ELSE out

\* all legs have answered; a response with nothing to retry is kept
Respond(a) ==
  LET legs == [l \in DOMAIN ask[a].legs |->
                 [leg |-> [ask[a].legs[l] EXCEPT !.out = {}, !.row = {}, !.stale = {}],
                  out |-> Bound(ask[a].q, ask[a].legs[l])]]
      retry == \E l \in DOMAIN legs : ~legs[l].out.ok /\ legs[l].out.retryable
      kept == {[key |-> SeriesKey(q), legs |-> legs] : q \in ask[a].q}
  IN /\ ask[a].at = "legs" /\ \A l \in DOMAIN ask[a].legs : ask[a].legs[l].at = "done"
     /\ ask' = [ask EXCEPT ![a] = [at |-> "done"]]
     /\ answers' = answers \cup {[q |-> ask[a].q, at |-> clock, hit |-> FALSE, legs |-> legs]}
     /\ IF retry \/ kept = {} \/ SeriesMax = 0 THEN UNCHANGED seriesCache
        ELSE \E e \in kept :
             seriesCache' = IF Len(Promoted(e)) > SeriesMax THEN Tail(Promoted(e)) ELSE Promoted(e)
     /\ UNCHANGED <<clock, known, quoteRows, barRows>>

\* the resolver discovers a listing
Discover(listing) ==
  /\ listing \notin known
  /\ known' = known \cup {listing}
  /\ UNCHANGED <<clock, quoteRows, barRows, ask, seriesCache, answers>>

Pass ==
  /\ clock < MaxClock
  /\ clock' = clock + 1
  /\ UNCHANGED <<known, quoteRows, barRows, ask, seriesCache, answers>>

MarketStep(a, l) ==
  \/ FindListing(a, l) \/ ReadFresh(a, l) \/ ReadBars(a, l) \/ ReadLatest(a, l)
  \/ StoreAnswer(a, l) \/ LegFails(a, l)
  \/ \E reply \in Replies, daily \in Replies : CallProvider(a, l, reply, daily)

MarketNext ==
  \/ \E a \in Asks : \/ \E l \in Listings : AskQuote(a, l) \/ MarketStep(a, l)
                     \/ \E q \in MarketQueriesOf(a) : AskSeries(a, q)
                     \/ Respond(a)
  \/ \E l \in Listings : Discover(l)
  \/ Pass

MarketSpec == MarketInit /\ [][MarketNext]_marketVars

-------------------------------------------------------------------------------
MarketTypeOK ==
  /\ clock \in 0..MaxClock /\ known \subseteq Listings
  /\ \A r \in quoteRows \cup barRows : r.fetched <= clock /\ r.expires > r.fetched
  /\ Len(seriesCache) <= SeriesMax
  /\ \A i, j \in DOMAIN seriesCache : seriesCache[i].key = seriesCache[j].key => i = j

\* What a request is served is what it asked for: from one listing's canonical range,
\* in the basis it binds, and not expired when its call began (createCachedMarketDataAdapter,
\* fanOutOne, canonicalizeProviderBarRange).
ServedAsAsked ==
  \A x \in answers : \A l \in DOMAIN x.legs :
    LET leg == x.legs[l].leg
        out == x.legs[l].out
    IN out.ok =>
       /\ leg.listing = l
       /\ leg.start < IF leg.op = "quote" THEN out.fetched + Ttl
                      ELSE BarsExpiry(out.fetched, leg.interval, Ttl, DayLength)
       /\ \A q \in x.q :
            /\ out.basis = q.basis /\ SeriesKey(q).subjects = DOMAIN x.legs
            /\ out.range = CanonicalRange(Zone, q.range, IntervalSize(q.interval))
            /\ out.range[1] <= q.range[1] /\ q.range[2] <= out.range[2]
            /\ out.bars \subseteq out.range[1]..(out.range[2] - 1)

\* A series answered from memory has the bars that a provider had half an hour ago ("does
\* not require data newer than the request", finance_research_spec.md:775).
HitsAreCurrent ==
  \A x \in answers : x.hit => \A l \in DOMAIN x.legs : x.legs[l].out.ok =>
    Tape(x.legs[l].out.range, x.legs[l].leg.interval, x.at - Ttl) \subseteq x.legs[l].out.bars
===============================================================================
