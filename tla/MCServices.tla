------------------------------ MODULE MCServices ------------------------------
(* Fourteen components that share no state, in one run: focus says which one a    *)
(* behaviour is about, and the others rest in their initial states.          *)
EXTENDS EventStream, DailyCall, ThreadMessages, TurnPolicy, ChatPage, Migrations,
        Watchlists, HomeBoard, LlmSettings, AnalyzeRuns, Fundamentals

VARIABLE focus

MCUsers == {"u1", "u2"}
MCClients == {"c1"}
MCUserOf == [c1 |-> "u1"]
MCBudget == [low |-> 3, high |-> 2]

\* ChatPage: two threads that exist, or one and one to be started; messages that are
\* shorter, longer and as high as estimated.
MCStreamEvent(type, block, kind) == [type |-> type, block |-> block, kind |-> kind]
MCEnd(type) == MCStreamEvent(type, "none", "none")
MCBegan == MCStreamEvent("block.began", "b1", "rich_text")
MCTurnScripts ==
  {<<MCEnd("turn.started"), MCBegan, MCStreamEvent("block.delta", "b1", "none"),
     MCStreamEvent("block.completed", "b1", "none"), MCEnd("turn.completed")>>,
   <<MCEnd("turn.started"), MCBegan, MCEnd("turn.error")>>}
MCPageBudget(prompts, visits, retries, starts, listings, edits, faults) ==
  [prompts |-> prompts, visits |-> visits, retries |-> retries, starts |-> starts, lists |-> listings,
   edits |-> edits, faults |-> faults]
MCPageBudgets ==
  {MCPageBudget(2, 1, 0, 0, 0, 0, 0), MCPageBudget(1, 2, 1, 0, 0, 0, 1), MCPageBudget(1, 1, 0, 0, 0, 1, 0),
   MCPageBudget(0, 2, 0, 1, 1, 0, 1)}

MCMessageHeights == <<1, 3, 2, 1, 4>>

\* Migrations: two shells on checkouts of which one is older, one names a version
\* otherwise and one lacks a file; a third verifies, seeds and applies the schema.
MCPair(v, n, creates, needs) == [version |-> v, name |-> n, creates |-> creates, needs |-> needs]
MCBase == MCPair(1, "init", {"users"}, {})
MCLists == MCPair(2, "lists", {"lists"}, {"users"})
MCCheckouts ==
  {[complete |-> TRUE, pairs |-> <<MCBase>>],
   [complete |-> TRUE, pairs |-> <<MCBase, MCLists>>],
   [complete |-> TRUE, pairs |-> <<MCBase, MCPair(2, "notes", {"notes"}, {"users"})>>],
   [complete |-> FALSE, pairs |-> <<MCBase>>]}
MCSchemaTables == {"users", "lists"}
MCSeedTables == <<"users", "lists">>
MCScriptsOf(p) == IF p = "x" THEN {"seed", "apply", "verify", "status"} ELSE {"up", "down"}
MCAbortsOf(p) == IF p = "a" THEN {"applying", "listing"} ELSE IF p = "x" THEN {"working", "checking"} ELSE {}

\* Watchlists: two users, each with a default list, and one list more.
MCDefaultOf == [ann |-> "da", bob |-> "db"]

\* Portfolios: two users, and agents whose universes may lead to each other.
MCKindOf(s) == IF s = "theme" THEN "theme" ELSE "listing"
MCOverlayRequests == {<<"x", "theme">>}
MCDerivedLists == {[user |-> "ann", mode |-> "portfolio", id |-> "p1"], [user |-> "ann", mode |-> "agent", id |-> "a1"],
                   [user |-> "ann", mode |-> "theme", id |-> "t1"], [user |-> "ann", mode |-> "manual", id |-> "da"]}
MCDerivedScreens == [s1 |-> {"x"}]
MCDerivedAgents == [a1 |-> "ann", a2 |-> "ann", a3 |-> "bob"]
MCUniverses == {[mode |-> "static", refs |-> {"x"}], [mode |-> "agent", id |-> "a1"], [mode |-> "agent", id |-> "a2"],
                [mode |-> "agent", id |-> "a3"], [mode |-> "screen", id |-> "s1"], [mode |-> "portfolio", id |-> "p1"]}
MCUniversesAtFirst == {u \in [DOMAIN MCDerivedAgents -> MCUniverses] : u["a3"].mode = "static" /\ u["a2"].mode = "agent"}

\* HomeBoard: two users, three agents and findings of which one is of a kind that the
\* feed does not know.
HomeFinding(i, a, ks, k, s, t) == [id |-> i, agent |-> a, clusters |-> ks, kind |-> k, severity |-> s, created |-> t]
MCHomeFindings ==
  {HomeFinding("f1", "a1", {"k1"}, "issuer", "critical", 0), HomeFinding("f6", "a2", {}, "issuer", "medium", 0),
   HomeFinding("f2", "a2", {"k2", "k1"}, "issuer", "high", 1),
   HomeFinding("f3", "a2", {}, "issuer", "high", 1), HomeFinding("f4", "a3", {"k1"}, "issuer", "low", 1),
   HomeFinding("f5", "a1", {"k2"}, "commodity", "medium", 1)}
MCHomeAgents == {[id |-> "a1", owner |-> "ann", created |-> 0], [id |-> "a2", owner |-> "ann", created |-> 0],
                 [id |-> "a3", owner |-> "bob", created |-> 0]}
MCDesksAtFirst ==
  {[findings |-> {}, listings |-> {"x"}, quotes |-> [x |-> 1]],
   [findings |-> {f \in MCHomeFindings : f.created = 0}, listings |-> {"x", "y"}, quotes |-> [x |-> 1, y |-> -2]]}
MCPulseListings == <<"x">>
MCIdRank(i) == [f1 |-> 1, f2 |-> 2, f3 |-> 3, f4 |-> 4, f5 |-> 5, f6 |-> 13, k1 |-> 6, k2 |-> 7, a1 |-> 8, a2 |-> 9, a3 |-> 10, x |-> 11, y |-> 12][i]

\* LlmSettings: two pages, on the machine of dev-api or elsewhere, a chat turn, and two
\* channels of which one has two keys.
MCEnvNameOf(name) == IF name \in {"deepseek", "deepseek."} THEN "DEEPSEEK" ELSE "LOCAL"

TwoChannels ==
  (<<"", "CHANNELS">> :> <<"deepseek", "local">>) @@ (<<"", "MODEL">> :> <<<<"any", "large">>>>)
  @@ (<<"", "FALLBACK">> :> <<<<"local", "small">>, <<"local", "gone">>>>)
  @@ (<<"DEEPSEEK", "BASE_URL">> :> <<"https://deepseek">>) @@ (<<"DEEPSEEK", "API_KEY">> :> <<"kd">>)
  @@ (<<"DEEPSEEK", "MODELS">> :> <<"large">>)
  @@ (<<"LOCAL", "PROTOCOL">> :> <<"openai">>) @@ (<<"LOCAL", "API_KEYS">> :> <<"k1", "k2">>)
  @@ (<<"LOCAL", "MODELS">> :> <<"small">>)
MCFilesAtFirst == {TwoChannels, <<>>}

MCAccess == {[enabled |-> TRUE, configured |-> TRUE, local |-> {"t1", "t2"}],
             [enabled |-> TRUE, configured |-> TRUE, local |-> {}],
             [enabled |-> FALSE, configured |-> TRUE, local |-> {"t1"}]}

\* the second page only saves what it has loaded
MCOpsOf(t) == IF t = "t1" THEN {"save", "test", "discover", "edit"} ELSE {"save"}

MCBudgets == {[pages |-> 2, turns |-> 0, changes |-> 1], [pages |-> 1, turns |-> 1, changes |-> 0],
              [pages |-> 0, turns |-> 1, changes |-> 1]}

\* a channel is switched off by hand
MCHandEdits(vars) == {(<<"LOCAL", "ENABLED">> :> <<"false">>) @@ vars}

MCModelReplies == {[status |-> 200, text |-> t, hint |-> ""] : t \in {"Reply OK", ""}}
             \cup {[status |-> 0, text |-> "", hint |-> "auth"], [status |-> 429, text |-> "", hint |-> ""]}
MCModelListings == {[status |-> 200, malformed |-> FALSE, models |-> <<"large", "other">>],
               [status |-> 501, malformed |-> FALSE, models |-> <<>>]}
MCBlocks == <<[kind |-> "chart", text |-> ""], [kind |-> "rich_text", text |-> "draft"]>>

\* AnalyzeRuns: a memo older than run metadata, and one that the next may follow in its millisecond
MCMemosAtFirst ==
  {[id |-> 1, template |-> 1, version |-> 1, metadata |-> "none", of |-> 0, snapshot |-> 1, at |-> 0],
   [id |-> 3, template |-> 1, version |-> 1, metadata |-> "v1", of |-> 0, snapshot |-> 2, at |-> 2]}

\* Statements: issuers of different filings, and one without a cik.
MCCikOf(i) == IF i = "uncharted" THEN {} ELSE {1}
MCMetricClasses == [revenue |-> "currency", gross_profit |-> "currency", net_income |-> "currency",
                    eps_diluted |-> "currency", shares_outstanding_basic |-> "count"]

\* a value of days of year 2024 (or 2023) in a filing of 2024
FiledValue(start, end, val, accn, fp, framed) ==
  [start |-> {start}, end |-> end, val |-> val, accn |-> accn, fy |-> 24, fp |-> fp,
   form |-> IF fp = "FY" THEN "10-K" ELSE "10-Q", filed |-> accn, framed |-> framed]
Quarters(base) ==
  <<FiledValue(366, 456, base, 21, "Q1", TRUE), FiledValue(366, 547, 2 * base, 22, "Q2", FALSE),
    FiledValue(457, 547, base, 22, "Q2", FALSE), FiledValue(548, 639, base, 23, "Q3", TRUE)>>
InDollars(values) == <<[unit |-> "USD", values |-> values]>>

\* one year of two concepts; the same with the year before first, and an alias of revenue;
\* concepts that disagree about the days; shares only; another taxonomy
MCPlain ==
  [gaap |-> TRUE,
   facts |-> [Revenues |-> InDollars(<<FiledValue(366, 730, 10, 24, "FY", FALSE)>> \o Quarters(2)),
              EarningsPerShareDiluted |-> <<[unit |-> "EUR", values |-> <<>>],
                                            [unit |-> "USD/shares", values |-> <<FiledValue(366, 730, 1, 24, "FY", FALSE)>>]>>]]
MCComparative ==
  [gaap |-> TRUE,
   facts |-> [RevenueFromContractWithCustomerExcludingAssessedTax |->
                InDollars(<<FiledValue(1, 365, 8, 24, "FY", FALSE), FiledValue(366, 730, 10, 24, "FY", FALSE)>>),
              Revenues |-> InDollars(<<FiledValue(366, 730, 11, 24, "FY", FALSE)>>)]]
MCDisagreeing ==
  [gaap |-> TRUE,
   facts |-> [Revenues |-> InDollars(<<FiledValue(366, 730, 10, 24, "FY", FALSE)>>),
              GrossProfit |-> InDollars(<<FiledValue(1, 365, 5, 24, "FY", FALSE)>>)]]
MCSharesOnly ==
  [gaap |-> TRUE,
   facts |-> [WeightedAverageNumberOfSharesOutstandingBasic |->
                <<[unit |-> "shares", values |-> <<FiledValue(366, 730, 7, 24, "FY", FALSE)>>]>>]]
MCForeign == [gaap |-> FALSE, facts |-> [x \in {} |-> <<>>]]

MCPayloads == {MCPlain, MCComparative, MCDisagreeing, MCSharesOnly, MCForeign}

StoredFact(i, m, year, value, currency) ==
  [issuer |-> i, metric |-> m, year |-> year, period |-> "FY", start |-> {1}, end |-> 365, value |-> value,
   unit |-> "currency", currency |-> currency, coverage |-> IF value = {} THEN "partial" ELSE "full", asOf |-> 1, source |-> 19]
LastYear == {StoredFact("acme", "revenue", 23, {0}, {"USD"}), StoredFact("acme", "gross_profit", 23, {}, {"USD"})}
TwoCurrencies == {StoredFact("abroad", "revenue", 24, {9}, {"EUR"}), StoredFact("abroad", "net_income", 24, {2}, {"USD"})}
MCEdgar(p) == [acme |-> p, torn |-> MCDisagreeing, sharing |-> MCSharesOnly, abroad |-> MCForeign, uncharted |-> MCForeign]
MCNewPayloadsOf(i) == IF i = "acme" THEN {MCComparative} ELSE {}
MCHeldAtFirst == {[edgar |-> MCEdgar(MCPlain), facts |-> LastYear \cup TwoCurrencies]}

FundAsk(route, body, issuer, family, periods) ==
  [route |-> route, body |-> body, issuer |-> issuer, family |-> family, basis |-> "as_reported", periods |-> periods]
FiscalPeriod(y, p) == [year |-> y, period |-> p]
MCFundAsksOf(c) ==
  IF c = "q1"
  THEN {FundAsk("statements", "json", "acme", "income", <<FiscalPeriod(24, "FY"), FiscalPeriod(24, "Q4")>>),
        FundAsk("statements", "json", "acme", "income", <<FiscalPeriod(24, "FY"), FiscalPeriod(24, "FY")>>),
        FundAsk("statements", "text", "acme", "income", <<>>)}
  ELSE {FundAsk("statements", "json", i, "income", <<FiscalPeriod(24, "FY")>>) : i \in {"acme", "torn", "sharing", "abroad"}}
       \cup {FundAsk("stats", "json", i, "income", <<>>) : i \in {"acme", "sharing"}}
       \cup {FundAsk("statements", "json", "uncharted", "balance", <<FiscalPeriod(24, "FY")>>)}

\* Details: three issuers: one complete, one without sector and industry, one without
\* listings.
\* the quarters of a fiscal year follow each other; the first has a fourteenth week in some years
ASSUME CalendarReference ==
  \A c \in {CalendarYear, AppleCalendar, MicrosoftCalendar}, fy \in 2018..2032, q \in 1..4 :
    LET days == FiscalQuarterEnd(c, fy, q) - FiscalQuarterStart(c, fy, q) + 1
    IN IF c = AppleCalendar THEN days = 91 \/ (q = 1 /\ days = 98) ELSE days \in 90..92
\* FY2025 of Apple ends on 2025-09-27, that of Microsoft on 2025-06-30
ASSUME KnownYearEnds ==
  /\ FiscalYearEnd(AppleCalendar, 2025) = DayOf(<<2025, 9, 27>>)
  /\ FiscalYearEnd(MicrosoftCalendar, 2025) = DayOf(<<2025, 6, 30>>)

\* The replay of the stream is writeIfNew applied to the kept activities in their order.
ASSUME ReplayIsOneByOne ==
  \A seqs \in SUBSET (1..6), at \in 0..6 :
    Replay(at, Ascending({n \in seqs : n > at}))
      = FoldLeft(WriteIfNew, [Down EXCEPT !.open = TRUE, !.written = at], SetToSortSeq(seqs, <))

MCFields(sector, industry) == [domicile |-> {"US"}, sector |-> sector, industry |-> industry]
MCRowsAtFirst ==
  {[issuers |-> ("apple" :> MCFields({"tech"}, {"phones"}) @@ "fresh" :> MCFields({}, {}) @@ "unlisted" :> MCFields({}, {"x"})),
    listings |-> ("apple" :> <<"l1">> @@ "fresh" :> <<"l2">> @@ "unlisted" :> <<>>)]}
MCCikOfIssuer(i) == IF i = "apple" THEN {"320193"} ELSE {}

MCAsk(op, issuer, axis) ==
  [op |-> op, issuer |-> issuer, axis |-> axis, basis |-> "as_reported", body |-> "json", period |-> "FY"]
MCDetailAsksOf(c) ==
  IF c = "d1" THEN {MCAsk(op, i, "business") : op \in {"profile", "earnings", "institutional"}, i \in {"apple", "fresh", "unlisted"}}
                   \cup {MCAsk("profile", "absent", "business"), MCAsk("segments", "apple", "region"), MCAsk("consensus", "malformed", "business")}
  ELSE IF c = "d3" THEN {MCAsk("profile", "fresh", "business")}
  ELSE {MCAsk("profile", "fresh", "business"), MCAsk("insider", "apple", "business"),
        MCAsk("segments", "apple", "geography"), [MCAsk("segments", "apple", "business") EXCEPT !.period = "H1"],
        [MCAsk("segments", "apple", "business") EXCEPT !.body = "text"], MCAsk("holders", "apple", "business")}

MCReply(kind, code, reason, retry, data) == [kind |-> kind, status |-> code, reason |-> reason, retry |-> retry, data |-> data]
MCFailures(data) ==
  {MCReply("lost", 0, "none", {}, data), MCReply("malformed", 0, "none", {}, data)}
  \cup {MCReply("http", s, "none", {}, data) : s \in {404, 429, 500}}
  \cup {MCReply("unavailable", 0, "missing_coverage", {TRUE}, data), MCReply("unavailable", 0, "odd", {FALSE}, data),
        MCReply("unavailable", 0, "stale_data", {}, data)}
MCSent(data) == MCReply("available", 0, "none", {}, data)

MCEvent(release, end, actual, estimate) == [release |-> release, end |-> end, actual |-> actual, estimate |-> estimate, whole |-> TRUE]
MCEvents ==
  {<<MCEvent(1, <<2025, 3, 29>>, {2}, {3}), MCEvent(2, <<2025, 6, 30>>, {1}, {-2})>>,
   <<MCEvent(1, <<2025, 3, 29>>, {}, {3}), MCEvent(1, <<2025, 3, 31>>, {1}, {0})>>,
   <<MCEvent(1, <<2025, 2, 14>>, {2}, {2})>>,
   <<[MCEvent(1, <<2025, 9, 27>>, {3}, {3}) EXCEPT !.whole = FALSE]>>}
MCEarnings == {[whole |-> TRUE, currency |-> {}, events |-> s] : s \in MCEvents}
              \cup {[whole |-> w, currency |-> {"usd"}, events |-> <<>>] : w \in BOOLEAN}

MCInstitution(owner, filed, shares, percent) == [holder |-> owner, filed |-> filed, shares |-> shares, percent |-> percent, whole |-> TRUE]
MCInstitutions ==
  {[whole |-> TRUE, currency |-> {"USD"}, rows |-> s] :
     s \in {<<MCInstitution("f", 1, 5, 50), MCInstitution("g", 2, 3, 30), MCInstitution("h", 2, 4, 20)>>,
            <<MCInstitution("f", 1, 5, 50), MCInstitution("f", 1, 6, 40)>>, <<MCInstitution("f", 1, 5, 101)>>}}

MCInsider(traded, price, value) == [traded |-> traded, type |-> "buy", shares |-> 1, price |-> price, value |-> value, whole |-> TRUE]
MCInsiders ==
  {[whole |-> TRUE, currency |-> {}, rows |-> s] :
     s \in {<<MCInsider(1, {2}, {2}), MCInsider(3, {}, {})>>, <<MCInsider(1, {2}, {})>>}}

MCProfiles == {MCFields({"tech"}, {}), [NoFields EXCEPT !.sector = {"banks"}, !.industry = {"loans"}], NoFields}

MCSidecarReplies(op) ==
  CASE op = "profile" -> {MCSent(d) : d \in MCProfiles} \cup {MCReply("lost", 0, "none", {}, NoFields)}
    [] op = "earnings" -> {MCSent(d) : d \in MCEarnings} \cup MCFailures(CHOOSE d \in MCEarnings : TRUE)
    [] op = "institutional" -> {MCSent(d) : d \in MCInstitutions} \cup MCFailures(CHOOSE d \in MCInstitutions : TRUE)
    [] op = "insider" -> {MCSent(d) : d \in MCInsiders} \cup {MCReply("unavailable", 0, "missing_coverage", {}, CHOOSE d \in MCInsiders : TRUE)}

-------------------------------------------------------------------------------
vars == <<focus, streamVars, briefVars, threadVars, policyVars, chatPageVars, listVars,
          migrationVars, watchVars, folioVars, homeVars, llmVars,
          memoVars, fundVars, detailVars>>

Init ==
  /\ focus \in {"stream", "brief", "thread", "policy", "page", "list", "migrations",
                "watchlist", "portfolios", "home", "llm",
                "analyze", "statements", "details"}
  /\ StreamInit /\ BriefInit /\ ThreadInit /\ PolicyInit
  /\ ChatPageInit /\ ListInit /\ MigrationInit
  /\ WatchInit /\ FoliosInit /\ HomeInit /\ LlmInit
  /\ AnalyzeInit /\ FundInit /\ DetailInit
  /\ focus # "policy" => \A c \in Classes : initial[c] = 0
  /\ focus # "page" => pageBudget = CHOOSE b \in PageBudgets : TRUE
  /\ focus # "watchlist" => watcher = {}
  /\ focus # "portfolios" => universe = CHOOSE u \in UniversesAtFirst : TRUE
  /\ focus # "home" => landed = {}
  /\ focus # "llm" => /\ DOMAIN settingsFile = {}
                      /\ access = CHOOSE a \in AccessAtFirst : TRUE
                      /\ llmBudget = CHOOSE b \in LlmBudgets : TRUE

\* The components that f is not about are left alone.
Others(f) ==
  /\ focus = f /\ UNCHANGED focus
  /\ IF f = "stream" THEN TRUE ELSE UNCHANGED streamVars
  /\ IF f = "brief" THEN TRUE ELSE UNCHANGED briefVars
  /\ IF f = "thread" THEN TRUE ELSE UNCHANGED threadVars
  /\ IF f = "policy" THEN TRUE ELSE UNCHANGED policyVars
  /\ IF f = "page" THEN TRUE ELSE UNCHANGED chatPageVars
  /\ IF f = "list" THEN TRUE ELSE UNCHANGED listVars
  /\ IF f = "migrations" THEN TRUE ELSE UNCHANGED migrationVars
  /\ IF f = "watchlist" THEN TRUE ELSE UNCHANGED watchVars
  /\ IF f = "portfolios" THEN TRUE ELSE UNCHANGED folioVars
  /\ IF f = "home" THEN TRUE ELSE UNCHANGED homeVars
  /\ IF f = "llm" THEN TRUE ELSE UNCHANGED llmVars
  /\ IF f = "analyze" THEN TRUE ELSE UNCHANGED memoVars
  /\ IF f = "statements" THEN TRUE ELSE UNCHANGED fundVars
  /\ IF f = "details" THEN TRUE ELSE UNCHANGED detailVars

Streaming == focus = "stream" /\ StreamNext /\ Others("stream")
Briefing  == focus = "brief" /\ BriefNext /\ Others("brief")
Posting   == focus = "thread" /\ ThreadNext /\ Others("thread")
Calling   == focus = "policy" /\ PolicyNext /\ Others("policy")
Chatting  == focus = "page" /\ ChatPageNext /\ Others("page")
Scrolling == focus = "list" /\ ListNext /\ Others("list")
Migrating == focus = "migrations" /\ MigrationNext /\ Others("migrations")
Watching  == focus = "watchlist" /\ WatchNext /\ Others("watchlist")
Holding   == focus = "portfolios" /\ FoliosNext /\ Others("portfolios")
Boarding  == focus = "home" /\ HomeNext /\ Others("home")
Settling  == focus = "llm" /\ LlmNext /\ Others("llm")
Analyzing == focus = "analyze" /\ AnalyzeNext /\ Others("analyze")
Stating   == focus = "statements" /\ FundNext /\ Others("statements")
Detailing == focus = "details" /\ DetailNext /\ Others("details")

Next ==
  \/ Streaming \/ Briefing \/ Posting \/ Calling \/ Chatting \/ Scrolling \/ Migrating
  \/ Watching \/ Holding \/ Boarding \/ Settling \/ Analyzing \/ Stating \/ Detailing

\* StreamFairness, of the behaviours that are about the stream
Fairness ==
  \A c \in Clients :
    /\ WF_vars(focus = "stream" /\ (Connect(c) \/ Refused(c)) /\ Others("stream"))
    /\ WF_vars(focus = "stream" /\ Read(c) /\ Others("stream"))
    /\ WF_vars(focus = "stream" /\ Drain(c) /\ Others("stream"))

Spec == Init /\ [][Next]_vars /\ Fairness

\* The type invariants of the fourteen.
TypeOK ==
  /\ focus = "stream" => StreamTypeOK
  /\ focus = "brief" => BriefTypeOK
  /\ focus = "thread" => ThreadTypeOK
  /\ focus = "policy" => PolicyTypeOK
  /\ focus = "page" => ChatPageTypeOK
  /\ focus = "list" => ListTypeOK
  /\ focus = "migrations" => MigrationTypeOK
  /\ focus = "watchlist" => WatchTypeOK
  /\ focus = "portfolios" => FoliosTypeOK
  /\ focus = "home" => HomeTypeOK
  /\ focus = "llm" => LlmTypeOK
  /\ focus = "analyze" => AnalyzeTypeOK
  /\ focus = "statements" => FundTypeOK
  /\ focus = "details" => DetailTypeOK

\* BrowsersCatchUp, of the behaviours that are about the stream: a browser that is
\* cut off, too slow, refused or restarted gets in the end what the hub keeps.
StreamCatchesUp == focus = "stream" => BrowsersCatchUp

===============================================================================
