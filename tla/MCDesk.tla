-------------------------------- MODULE MCDesk --------------------------------
(* Components of the research desk that share no state, in one run: focus says *)
(* which one a behaviour is about, the others rest in their initial states.    *)
EXTENDS MCDeskCases, EvidenceIngest, EvidenceReads, ClaimClusters, ToolGate, AgentDesk,
        Screener, AuthInterrupt, ResearchPages, SubjectPages

VARIABLE focus

MCEvidenceClaims ==
  [c1 |-> [signature |-> "k1", relation |-> "support", confidence |-> 1],
   c2 |-> [signature |-> "k1", relation |-> "contradict", confidence |-> 2],
   c3 |-> [signature |-> "k2", relation |-> "support", confidence |-> 1]]
MCBatches == {<<"c1", "c3", "c2">>, <<"c3", "c1">>, <<"c2">>}

\* Resolver: whose the identifiers are; the sources and the seeds agree on it.
MCWhose ==
  <<"cik", "100">> :> "acme" @@ <<"figi", "g1">> :> "acme" @@ <<"figi", "g2">> :> "mines" @@
  <<"isin", "US1">> :> "acme" @@ <<"lei", "L1">> :> "acme"
ASSUME TheSourcesAgree == Agreed(MCWhose)

\* The confidence of members is the sum of theirs.
ASSUME ConfidenceIsTheSum ==
  \A members \in SUBSET {MemberOf(c) : c \in DOMAIN EvidenceClaims} :
    Confidence(members) = MapThenSumSet(LAMBDA m : EvidenceClaims[m.claim].confidence, members)

\* EvidenceIngest: two workers over one issuer's site: a release that ann holds as
\* her own upload, its mirror on another URL, a page served by a wire, and a news
\* article about the issuer found twice.
MCHosted == [release |-> "issuer_ir", mirror |-> "q4cdn", wire |-> "business_wire",
             blank |-> "notified", news |-> "other"]
MCServed == [release |-> "b1", mirror |-> "b1", wire |-> "b2", blank |-> "empty", news |-> "m1"]
MCExtracted == [b1 |-> {"acme"}, b2 |-> {}, m1 |-> {"bolt"}, empty |-> {}]

Page(url, kind) == [url |-> url, kind |-> kind]
Article(url, bytes, about) == [url |-> url, bytes |-> bytes, about |-> about]

MCIngestions == {
    [op |-> "upload", user |-> "ann", bytes |-> "b1"],
    [op |-> "upload", user |-> "ben", bytes |-> "b1"],
    [op |-> "news", kind |-> "article", tier |-> "tertiary", license |-> "ephemeral",
     url |-> "news", bytes |-> "b2"],
    [op |-> "news", kind |-> "press_release", tier |-> "tertiary", license |-> "public",
     url |-> "news", bytes |-> "b2"],
    [op |-> "filing", url |-> "wire", bytes |-> "b2"],
    [op |-> "mentions"],
    [op |-> "discover", subject |-> "acme",
     found |-> <<Article("news", "m1", {"acme"}), Article("wire", "m1", {})>>],
    [op |-> "crawl", issuer |-> "acme",
     found |-> <<Page("release", "press_release"), Page("blank", "presentation"),
                 Page("wire", "transcript")>>],
    [op |-> "crawl", issuer |-> "acme", found |-> <<Page("mirror", "press_release")>>]}

\* EvidenceReads: a filing, a page of an issuer's site, and an upload of ann with the
\* bytes of another page of that site: the claim extracted from that page hangs on
\* her document.
Doc(id, source, asset) == [id |-> id, source |-> source, asset |-> asset, mentions |-> {"acme"}]
Said(id, doc, source, state, at) ==
    [id |-> id, doc |-> doc, source |-> source, status |-> state, about |-> {"acme"}, at |-> at]

MCLibraries == {[
    sources |-> {[id |-> "sec", user |-> {}], [id |-> "site", user |-> {}], [id |-> "mine", user |-> {"ann"}]},
    documents |-> {Doc("filing", "sec", FALSE), Doc("page", "site", TRUE), Doc("upload", "mine", TRUE)},
    claims |-> {Said("grew", "filing", "sec", "extracted", 1), Said("fell", "filing", "sec", "rejected", 2),
                Said("expects", "page", "site", "corroborated", 3),
                Said(IF upload = "mine" THEN "hopes" ELSE "quotes", "upload", upload, "extracted", 4)},
    events |-> {[id |-> "release", claims |-> {"grew"}, sources |-> {"sec"}]},
    facts |-> {[id |-> "sales", source |-> "sec", channels |-> {"app"}],
               [id |-> "paid", source |-> "site", channels |-> {"export"}]},
    chats |-> {[user |-> "ben", by |-> "chat", published |-> TRUE,
                refs |-> {<<"event", "release">>, <<"fact", "sales">>, <<"fact", "paid">>,
                          <<"source", "sec">>, <<"source", "site">>, <<"claim", "grew">>}]}] : upload \in {"mine", "site"}}

MCAsking == {[about |-> "acme", categories |-> c] : c \in {{"other"}, {"issuer_ir"}, {"issuer_ir", "other"}}}

\* Themes: three claims about three subjects.
ThemeLink(c, r, k, n, s, v, d) ==
  [claim |-> c, relation |-> r, cluster |-> k, confidence |-> n, subject |-> s, via |-> v, direction |-> d]
MCThemeLinks ==
  {ThemeLink("c1", "support", "k1", 2, "x", "argument", "none"), ThemeLink("c1", "support", "k1", 2, "y", "impact", "down"),
   ThemeLink("c2", "support", "k1", 1, "y", "argument", "none"), ThemeLink("c2", "support", "k2", 1, "z", "argument", "none"), ThemeLink("c3", "contradict", "k2", 3, "x", "argument", "none"),
   ThemeLink("c3", "support", "k1", 3, "y", "impact", "up")}
MCThemeSpecs == {[clusters |-> {"k1", "k2"}, floor |-> {}, directions |-> {"up"}],
                 [clusters |-> {"k1"}, floor |-> {2}, directions |-> {}]}
MCRank(s) == [x |-> 1, y |-> 2, z |-> 3][s]

Tool(name, audience, schema, approval) ==
  [name |-> name, audience |-> audience, schema |-> schema, approval |-> approval,
   readOnly |-> ~approval, resolves |-> name = "resolve", bundles |-> {"calls"}]

\* ToolGate: one tool to resolve, one that reads, one that writes, one of the reader's
Base(schema) ==
  [bundles |-> {"calls", "quotes"},
   tools |-> <<Tool("resolve", "analyst", "closed", FALSE),
               [Tool("latest", "analyst", schema, FALSE) EXCEPT !.bundles = {"quotes"}],
               Tool("publish", "analyst", "closed", TRUE),
               Tool("fetch", "reader", "raw", FALSE)>>]

\* as they should be, and each with one thing wrong
MCRegistries ==
  {Base(schema) : schema \in {"closed", "untyped", "open", "raw"}}
  \cup {[Base("closed") EXCEPT !.tools[3].readOnly = TRUE],
        [Base("closed") EXCEPT !.tools[4].bundles = {"gone"}],
        [Base("closed") EXCEPT !.tools[4].name = "resolve"],
        [Base("closed") EXCEPT !.tools[4].name = "unwired"]}
MCRoutes == [screen |-> "screener", theme |-> "calls", listing |-> "quotes"]

\* AgentDesk: one rule that anything from medium up fires, one that fits a cluster,
\* one that the form sends without a channel; the claims of a filing.
MCRuleDrafts ==
  {[id |-> "r1", atLeast |-> {"medium"}, clusters |-> {}, channels |-> {"email"}],
   [id |-> "r1", atLeast |-> {}, clusters |-> {"k1"}, channels |-> {}]}

Clustered == [id |-> "r2", atLeast |-> {}, clusters |-> {"k1"}, channels |-> {"web"}]
Before(a) == [agent |-> a, owner |-> "ann", enabled |-> TRUE, rules |-> <<Clustered>>]

\* none, or one that was made before
MCAgentsAtFirst == {{}, {Before("b1")}}

MCClaimGroups ==
  {[cluster |-> "k1", tiers |-> {"primary"}, sources |-> 1, confidence |-> 90, direction |-> "negative"]}

\* Screener: three listings of three companies, one without a sector; before and
\* after a restatement that turns a profit into a loss; one screen saved before.
Listed(i, c, sector, complete) ==
  [id |-> i, issuer |-> c, universe |-> [sector |-> sector], complete |-> complete]
MCScreened == <<Listed("la", "ca", "tech", TRUE), Listed("lb", "cb", "food", TRUE), Listed("lc", "cc", "tech", FALSE)>>

Figure(c, m, y, v, t) == [issuer |-> c, metric |-> m, year |-> y, value |-> v, asOf |-> t]
Figures == {Figure("ca", "revenue", 2, {10}, 1), Figure("ca", "revenue", 1, {8}, 1), Figure("ca", "income", 2, {5}, 1),
            Figure("ca", "shares", 2, {4}, 1), Figure("ca", "eps", 1, {9}, 1), Figure("cb", "eps", 2, {3}, 1)}
Quotes == {[listing |-> "la", price |-> 6, prev |-> 5, asOf |-> 2], [listing |-> "la", price |-> 9, prev |-> 5, asOf |-> 1],
           [listing |-> "lb", price |-> 6, prev |-> 8, asOf |-> 1]}

MCBooks ==
  {[quotes |-> Quotes, facts |-> Figures \cup {Figure("ca", "eps", 2, {2}, 1)}],
   [quotes |-> Quotes,
    facts |-> Figures \cup {Figure("ca", "eps", 2, {-2}, 2), Figure("cb", "revenue", 2, {7}, 2), Figure("cb", "shares", 2, {9}, 2)}]}

MCUniverseChoices == {[field |-> "sector", values |-> {"tech"}]}
MCRangeChoices == {[field |-> "pe_ratio", range |-> [min |-> {0}, max |-> {}]],
                   [field |-> "pe_ratio", range |-> [min |-> {2}, max |-> {1}]]}
MCSortChoices == {[field |-> "change_pct", direction |-> "asc"]}
MCSavedQueries ==
  {[universe |-> <<>>, within |-> {}, sort |-> <<[field |-> "pe_ratio", direction |-> "asc"]>>, limit |-> 1, offset |-> 0]}

MCScreensAtFirst == {[id |-> "s1", user |-> "ann", created |-> 0, updated |-> 0]}

\* AuthInterrupt: one action of each kind and two routes.
MCActions ==
  {[name |-> "save", kind |-> "watchlist", from |-> "symbol"], [name |-> "keep", kind |-> "screen", from |-> "screener"]}
MCHandledOn(kind) == IF kind = "screen" THEN {"screener"} ELSE AppRoutes

\* ResearchPages: two reviews; the memos of two users; blocks with and without a section.
MCTraysAtFirst == {[v1 |-> "c0", v2 |-> "c0"]}
MCPagePlaybooks == <<[id |-> "p1", sources |-> {"news"}], [id |-> "p2", sources |-> {"stocks"}]>>
MCPageTemplates == <<[id |-> "t1", sources |-> {}], [id |-> "t2", sources |-> {"filings"}]>>
RunBy(u, r) == [by |-> u, rerunnable |-> r]
MCRunsAtFirst == <<RunBy("ann", TRUE), RunBy("ben", FALSE), RunBy("ann", FALSE)>>
DiffBlock(s, i, t, k, x) == [section |-> s, id |-> i, title |-> t, kind |-> k, text |-> x]
MCDiffBlocks ==
  {DiffBlock({"s1"}, {i}, {"Summary"}, {"rich_text"}, x) : i \in {"b1", "b2"}, x \in 1..2}
  \cup {DiffBlock({}, {"b1"}, {}, {k}, 1) : k \in {"table", "rich_text"}}
  \cup {DiffBlock({}, {}, {}, k, 1) : k \in {{}, {"table"}}}

\* SubjectPages: a text with one match, one with two, one without any.
MCTrimOf(t) == IF t = "acme " THEN "acme" ELSE t
MCPageSubjects ==
  [acme_l |-> [kind |-> "listing", issuer |-> {"acme_i"}, listing |-> {}],
   acme_i |-> [kind |-> "issuer", issuer |-> {}, listing |-> {"acme_l"}],
   copper |-> [kind |-> "theme", issuer |-> {}, listing |-> {}]]
Match(ref, context) == [ref |-> ref, known |-> context]
MCMatchesOf(t) ==
  CASE t = "acme" -> <<Match("acme_l", TRUE)>>
    [] t = "a" -> <<Match("acme_i", FALSE), Match("copper", FALSE)>>
    [] OTHER -> <<>>

-------------------------------------------------------------------------------
vars == <<focus, sealVars, marketVars, ingestVars, readVars, clusterVars, secVars,
          resolverVars, gateVars, agentVars, screenVars, bookVars, interruptVars, themeVars,
          reviewVars, pageVars, subjectVars>>

Init ==
  /\ focus \in {"seal", "market", "ingest", "reads", "clusters", "sec", "resolver", "tools",
                "agents", "screener", "screens", "interrupts", "themes", "review", "memos",
                "subjects"}
  /\ IngestInit /\ ClustersInit /\ SecInit /\ GateInit /\ BookInit
  /\ ReviewInit /\ PageInit /\ SubjectInit
  /\ SealInit
  /\ focus # "seal" => \A t \in Tools : log[t] = Logged(1, {"k1"})
  /\ MarketInit
  /\ focus # "market" => known = {}
  /\ ReadsInit
  /\ focus # "reads" => library = CHOOSE l \in Libraries : TRUE
  /\ ResolverInit
  /\ focus # "resolver" => identity = CHOOSE x \in Seeded0 : TRUE
  /\ AgentInit
  /\ focus # "agents" => agents = {}
  /\ ScreenInit
  /\ focus # "screener" => book = CHOOSE b \in Books : TRUE
  /\ InterruptInit
  /\ focus # "interrupts" => committed.route = "symbol"
  /\ ThemesInit
  /\ focus # "themes" => themeSpec = CHOOSE x \in ThemeSpecs : TRUE

\* The components that f is not about are left alone.
Others(f) ==
  /\ UNCHANGED focus
  /\ IF f = "seal" THEN TRUE ELSE UNCHANGED sealVars
  /\ IF f = "market" THEN TRUE ELSE UNCHANGED marketVars
  /\ IF f = "ingest" THEN TRUE ELSE UNCHANGED ingestVars
  /\ IF f = "reads" THEN TRUE ELSE UNCHANGED readVars
  /\ IF f = "clusters" THEN TRUE ELSE UNCHANGED clusterVars
  /\ IF f = "sec" THEN TRUE ELSE UNCHANGED secVars
  /\ IF f = "resolver" THEN TRUE ELSE UNCHANGED resolverVars
  /\ IF f = "tools" THEN TRUE ELSE UNCHANGED gateVars
  /\ IF f = "agents" THEN TRUE ELSE UNCHANGED agentVars
  /\ IF f = "screener" THEN TRUE ELSE UNCHANGED screenVars
  /\ IF f = "screens" THEN TRUE ELSE UNCHANGED bookVars
  /\ IF f = "interrupts" THEN TRUE ELSE UNCHANGED interruptVars
  /\ IF f = "themes" THEN TRUE ELSE UNCHANGED themeVars
  /\ IF f = "review" THEN TRUE ELSE UNCHANGED reviewVars
  /\ IF f = "memos" THEN TRUE ELSE UNCHANGED pageVars
  /\ IF f = "subjects" THEN TRUE ELSE UNCHANGED subjectVars

Sealing == focus = "seal" /\ SealNext /\ Others("seal")
Quoting == focus = "market" /\ MarketNext /\ Others("market")
Ingesting == focus = "ingest" /\ IngestNext /\ Others("ingest")
Reading == focus = "reads" /\ ReadsNext /\ Others("reads")
Clustering == focus = "clusters" /\ ClustersNext /\ Others("clusters")
Limiting == focus = "sec" /\ SecNext /\ Others("sec")
Resolving == focus = "resolver" /\ ResolverNext /\ Others("resolver")
Gating == focus = "tools" /\ GateNext /\ Others("tools")
Tending == focus = "agents" /\ AgentNext /\ Others("agents")
Screening == focus = "screener" /\ ScreenNext /\ Others("screener")
Booking == focus = "screens" /\ BookNext /\ Others("screens")
Interrupting == focus = "interrupts" /\ InterruptNext /\ Others("interrupts")
Theming == focus = "themes" /\ ThemesNext /\ Others("themes")
Reviewing == focus = "review" /\ ReviewNext /\ Others("review")
Drafting == focus = "memos" /\ PageNext /\ Others("memos")
Browsing == focus = "subjects" /\ SubjectNext /\ Others("subjects")

Next == Sealing \/ Quoting \/ Ingesting \/ Reading \/ Clustering \/ Limiting \/ Resolving \/
        Gating \/ Tending \/ Screening \/ Booking \/ Interrupting \/ Theming \/ Reviewing \/
        Drafting \/ Browsing

Spec == Init /\ [][Next]_vars

\* The type invariants of the components, each of the behaviours that are about it.
TypeOK ==
  /\ focus = "seal" => SealTypeOK
  /\ focus = "market" => MarketTypeOK
  /\ focus = "ingest" => IngestTypeOK
  /\ focus = "reads" => ReadsTypeOK
  /\ focus = "clusters" => ClustersTypeOK
  /\ focus = "sec" => SecTypeOK
  /\ focus = "resolver" => ResolverTypeOK
  /\ focus = "tools" => GateTypeOK
  /\ focus = "agents" => AgentTypeOK
  /\ focus = "screener" => ScreenTypeOK
  /\ focus = "screens" => BookTypeOK
  /\ focus = "interrupts" => InterruptTypeOK
  /\ focus = "themes" => ThemesTypeOK
  /\ focus = "review" => ReviewTypeOK
  /\ focus = "memos" => PageTypeOK
  /\ focus = "subjects" => SubjectTypeOK

===============================================================================
