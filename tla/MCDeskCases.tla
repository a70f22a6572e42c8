------------------------------ MODULE MCDeskCases ------------------------------
(* Values for three components of the desk run, and each of the three alone for *)
(* the run that shows a finding about it.                                       *)
EXTENDS SnapshotSeal, MarketData, Resolver, TLC

-------------------------------------------------------------------------------
(* Snapshots: a good artifact with every kind of node, one with what the chat   *)
(* runtime can hold, and each with one thing wrong with it.                     *)

f1 == <<"fact", "f1">>
c1 == <<"claim", "c1">>
e1 == <<"event", "e1">>
d1 == <<"document", "d1">>
s1 == <<"source", "s1">>
s2 == <<"source", "s2">>
x1 == <<"series", "x1">>
i1 == <<"issuer", "i1">>

Row(sources) == [sources |-> sources, meta |-> <<>>, signals |-> {}]
Point == [unit |-> "usd", period_kind |-> "point", period_end |-> "y1"]
SealHead == [asOf |-> 5, basis |-> "unadjusted", normalization |-> "raw",
         transforms |-> {{<<1, 4, "1d">>, <<1, 6, "1d">>}}]

Block(id, kind, shows, sources) ==
  [id |-> id, kind |-> kind, snapshot |-> "n1", asOf |-> 5, sources |-> sources,
   subjects |-> {i1}, shows |-> shows, tier |-> {}, items |-> {}, children |-> {}, tools |-> {"t1"},
   data |-> [kind |-> kind, series |-> {}, bindings |-> {}, snapshot |-> {}]]

Metric == [Block("metric", "metric_row", [value_ref |-> {f1}], {s1})
             EXCEPT !.data.bindings = {[fact |-> f1, meta |-> Point]}]
Text == Block("text", "rich_text", [segments |-> {c1, e1, d1}], {s1, s2})
Section == [Block("section", "section", <<>>, {}) EXCEPT !.children = {Text}]
Chart == [Block("chart", "line_chart", <<>>, {s1}) EXCEPT !.data.series = {x1}]
Notice == [Block("notice", "disclosure", <<>>, {s1, s2})
             EXCEPT !.items = {<<"candidate_data", 0>>, <<"eod_pricing", 5>>},
                    !.tier = {"candidate"}, !.data.kind = "disclosure_policy"]
Versus == Block("versus", "forecast_vs_market", [market_ref |-> {f1}, forecast_ref |-> {<<"fact", "f2">>}], {s1})

EodSpec == [ref |-> {x1}, source |-> {s1}, signals |-> {"eod_pricing"}]
Call(refs, series, body) ==
  [tool |-> "t1", subjects |-> {i1}, refs |-> refs, sources |-> {s1, s2}, series |-> series,
   result |-> {[contributes |-> [subjects |-> {i1}, refs |-> refs, sources |-> {s1, s2}],
                body |-> body]}]
AllRefs == {f1, c1, e1, d1}

Good ==
  [id |-> "n1", how |-> "staged", inTx |-> TRUE, thread |-> {}, malformed |-> {}, head |-> SealHead,
   subjects |-> {i1}, calls |-> {Call(AllRefs, {EodSpec}, 1)},
   blocks |-> {Metric, Section, Chart, Notice},
   rows |-> f1 :> [Row({s1}) EXCEPT !.meta = Point, !.signals = {"candidate_data"}]
            @@ c1 :> Row({s1}) @@ e1 :> Row({s1, s2}) @@ d1 :> Row({s2}),
   loaded |-> {s1, s2}, required |-> {}, actions |-> {}, pending |-> {}]

Answer == [Block("answer", "rich_text", [claim_refs |-> {c1}, document_refs |-> {d1}], {s1, s2})
             EXCEPT !.data.kind = "rich_text"]
Chat == [Good EXCEPT !.how = "assembled", !.inTx = FALSE, !.thread = {"k1"}, !.calls = {},
                     !.blocks = {Answer}, !.rows = c1 :> Row({s1}) @@ d1 :> Row({s2})]

Put(inp, old, new) == [inp EXCEPT !.blocks = (@ \ {old}) \cup new]
Without(f, n) == [m \in DOMAIN f \ {n} |-> f[m]]
Write == [tool |-> "trade", readOnly |-> FALSE, approvalRequired |-> TRUE, approved |-> FALSE,
          pending |-> {<<"trade", "buy">>}]
Pending == [id |-> <<"trade", "buy">>, tool |-> "trade", arguments |-> "buy",
            approvalRequired |-> TRUE, readOnly |-> FALSE]

Flawed ==
  {[Good EXCEPT !.loaded = {s1}],
   [Good EXCEPT !.rows = Without(@, e1)],
   [Good EXCEPT !.rows[d1].sources = {}],
   [Good EXCEPT !.rows[f1].meta = [unit |-> "usd", period_kind |-> "point"]],
   [Put(Good, Metric, {}) EXCEPT !.rows[f1].meta = [unit |-> "usd", period_kind |-> "range"]],
   [Good EXCEPT !.rows[f1].signals = @ \cup {"low_coverage"}],
   [Good EXCEPT !.calls = {Call(AllRefs \ {c1}, {EodSpec}, 1)}],
   [Good EXCEPT !.calls = {Call(AllRefs, {EodSpec}, 2)}],
   [Good EXCEPT !.calls = {Call(AllRefs, {[EodSpec EXCEPT !.source = {}]}, 1)}],
   [Good EXCEPT !.calls = {Call(AllRefs, {[EodSpec EXCEPT !.source = {}, !.signals = {}]}, 1)}],
   [Good EXCEPT !.calls = {Call(AllRefs, {EodSpec, [EodSpec EXCEPT !.ref = {}, !.source = {}]}, 1)}],
   [Good EXCEPT !.calls = @ \cup {Call(AllRefs, {EodSpec}, 2)}],
   [Good EXCEPT !.calls = {[Call(AllRefs, {EodSpec}, 1) EXCEPT !.refs = {c1}]}],
   [Good EXCEPT !.calls = {[Call(AllRefs, {EodSpec}, 1) EXCEPT !.result = {}]}],
   [Good EXCEPT !.head.basis = "restated"],
   [Good EXCEPT !.head.normalization = "currency_normalized"],
   [Good EXCEPT !.head.transforms = {}],
   [Good EXCEPT !.head.asOf = 4],
   [Good EXCEPT !.malformed = {"manifest"}], [Good EXCEPT !.malformed = {"blocks"}],
   [Good EXCEPT !.malformed = {"rows", "disclosures", "actions"}],
   [Good EXCEPT !.required = {[code |-> "low_coverage", tier |-> "estimate",
                               item |-> <<"low_coverage", 0>>, sources |-> {}]}],
   [Good EXCEPT !.actions = {Write}],
   [Good EXCEPT !.actions = {Write}, !.pending = {Pending}],
   [Good EXCEPT !.actions = {Write}, !.pending = {[Pending EXCEPT !.arguments = "sell"]}],
   [Good EXCEPT !.pending = {[Pending EXCEPT !.readOnly = TRUE]}],
   Put(Good, Notice, {}),
   Put(Good, Notice, {[Notice EXCEPT !.tier = {"estimate"}]}),
   Put(Good, Notice, {[Notice EXCEPT !.sources = {s2}]}),
   Put(Good, Metric, {[Metric EXCEPT !.data.bindings = {}]}),
   Put(Good, Metric, {[Metric EXCEPT !.sources = {s2}]}),
   Put(Good, Metric, {[Metric EXCEPT !.kind = "gauge", !.data.kind = "gauge"]}),
   Put(Good, Metric, {[Metric EXCEPT !.data.bindings =
                         {[fact |-> f1, meta |-> [unit |-> "usd", period_kind |-> "point"]]}]}),
   Put(Good, Chart, {[Chart EXCEPT !.data.series = {<<"series", "x2">>}]}),
   Put(Good, Chart, {[Chart EXCEPT !.data.series = {}]}),
   Put(Good, Chart, {[Chart EXCEPT !.data.snapshot = {"n2"}]}),
   Put(Good, Chart, {[Chart EXCEPT !.asOf = 6]}),
   Put(Good, Chart, {[Chart EXCEPT !.subjects = {<<"issuer", "i2">>}]}),
   Put(Good, Chart, {Chart, Block("list", "sources", [source_id |-> {<<"source", "s3">>}], {s1})}),
   Put(Good, Section, {[Section EXCEPT !.children = {[Text EXCEPT !.sources = {s1}]}]}),
   Put(Good, Section, {[Section EXCEPT !.snapshot = "n2"]})}

FlawedChats ==
  {Put(Chat, Answer, {[Answer EXCEPT !.shows = @ @@ [fact_refs |-> {f1}]]}),
   Put(Chat, Answer, {[Answer EXCEPT !.shows = @ @@ [event_refs |-> {e1}]]}),
   Put(Chat, Answer, {[Answer EXCEPT !.tools = {}]}),
   [Chat EXCEPT !.thread = {"k2"}],
   [Chat EXCEPT !.subjects = {}]}

MCInputsOf(r) == IF r = "r1" THEN {Good, Chat} \cup Flawed \cup FlawedChats ELSE {Good}

\* a block of a kind whose references the verifier does not read
Unread == Put(Good, Chart, {Chart, Versus})
MCUnreadInputs(r) == {Unread}

Logged(body, thread) ==
  [status |-> "ok", thread |-> thread,
   hash |-> [contributes |-> [subjects |-> {i1}, refs |-> AllRefs, sources |-> {s1, s2}],
             body |-> body]]
MCLogRows == {Logged(1, {"k1"}), Logged(2, {"k1"}), [Logged(1, {"k1"}) EXCEPT !.status = "error"]}

Query(end) == [subjects |-> <<i1>>, start |-> 1, end |-> end, interval |-> "1d",
               basis |-> "unadjusted", normalization |-> "raw"]
MCQueries == {Query(4), Query(6), [Query(4) EXCEPT !.normalization = "pct_return"],
              [Query(4) EXCEPT !.basis = "restated"],
              [Query(4) EXCEPT !.subjects = <<i1, <<"issuer", "i2">>>>], [Query(4) EXCEPT !.interval = "1h"]}

SealAlone ==
  /\ SealInit /\ MarketInit /\ ResolverInit
  /\ [][SealNext /\ UNCHANGED <<marketVars, resolverVars>>]_sealVars

-------------------------------------------------------------------------------
(* Market data: two requests over one listing, two providers and half-hour time. *)

MCQuery(subjects, range, interval, basis) ==
  [subjects |-> subjects, range |-> range, interval |-> interval, basis |-> basis, normalization |-> "raw"]
MCMarketQueriesOf(a) ==
  {MCQuery(<<"l1">>, <<0, 3>>, "1h", Adjusted)}
  \cup IF a = "a2" THEN {} ELSE
    {MCQuery(<<"l1">>, <<1, 2>>, "1d", Adjusted), MCQuery(<<"l1">>, <<0, 3>>, "1h", "unadjusted"),
     MCQuery(<<"l1", "l1">>, <<0, 3>>, "1h", Adjusted)}
MCZone == [t \in -4..12 |-> 1]
MCRealtime == <<"polygon", "yahoo">>
MCDailies == <<"stooq">>
MCReplies == {<<"ok">>, <<"unadjusted">>, <<"403">>, <<"5xx">>, <<"declined", "missing_coverage", FALSE>>}

MarketAlone ==
  /\ SealInit /\ MarketInit /\ ResolverInit
  /\ [][MarketNext /\ UNCHANGED <<sealVars, resolverVars>>]_marketVars

-------------------------------------------------------------------------------
(* Resolver: Acme is listed in New York and London, where a mining company has  *)
(* its ticker on another venue; its seeded row is still there.  Alpha has two   *)
(* classes of shares.                                                           *)

Told(ticker, mic, name, cik, figi) ==
    [ticker |-> ticker, mic |-> mic, name |-> name, type |-> "common_stock", cik |-> cik, figi |-> figi,
     active |-> TRUE, test |-> FALSE]

MCPolygonRows == {Told("ACM", "XNAS", "Acme", {"100"}, {"g1"}), Told("ACM", "XLON", "Mines", {}, {"g2"}),
                  [Told("ACM", "XNYS", "Acme", {}, {}) EXCEPT !.active = FALSE]}
MCDirectoryRows == {Told("ACM", "XNAS", "Acme Inc", {}, {})}
MCFigiRecords == {[ticker |-> "ACM", mic |-> {"XNAS"}, type |-> "common_stock", figi |-> "g1", isin |-> {"US1"}]}
MCLeiRecords == {[name |-> "Acme Inc", lei |-> "L1", status |-> "ISSUED"],
                 [name |-> "Acme Inc", lei |-> "L0", status |-> "LAPSED"]}
MCSidecarRows == {Told("ACM", "XNAS", "Acme", {}, {})}

MCVenueCompany == <<"XNAS", "ACM">> :> "acme" @@ <<"XLON", "ACM">> :> "mines"
MCNameCompany == [n \in {"Acme", "Acme Inc", "Acme Corp"} |-> "acme"] @@ "Mines" :> "mines"

LegacyRows(former) ==
    [issuers |-> {[id |-> 0, name |-> "Acme Corp", former |-> former, cik |-> {}, lei |-> {}]},
     instruments |-> {[id |-> 0, issuer |-> 0, type |-> "common_stock", isin |-> {}, figi |-> {}]},
     listings |-> {[id |-> 0, instrument |-> 0, mic |-> "XNAS", ticker |-> "ACM", active |-> TRUE]},
     refs |-> {}]
Held(table, kind, id) == [table |-> table, owner |-> "ann", ref |-> <<kind, id>>]
Elsewhere(rows) ==
    [rows EXCEPT !.issuers = @ \cup {[id |-> 1, name |-> "Acme", former |-> {}, cik |-> {}, lei |-> {}]},
                 !.instruments = @ \cup {[id |-> 1, issuer |-> 1, type |-> "common_stock", isin |-> {}, figi |-> {"g1"}]}]
MCSeeded0 ==
    {[LegacyRows({}) EXCEPT !.issuers = {}, !.instruments = {}, !.listings = {}],
     [LegacyRows({"Acme"}) EXCEPT !.refs = {Held("watchlist", "listing", 0), Held("holding", "instrument", 0)}],
     [Elsewhere(LegacyRows({})) EXCEPT !.refs = {Held("watchlist", "issuer", 0), Held("watchlist", "issuer", 1),
                                                 Held("holding", "listing", 0)}],
     [Elsewhere(LegacyRows({})) EXCEPT !.refs = {Held("fact", "issuer", 0), Held("fact", "issuer", 1)}]}
MCLegacyListing == [ticker |-> "ACM", mic |-> "XNAS"]
MCRefTables == [watchlist |-> "deduped", holding |-> "plain", fact |-> "unique"]

AllKinds == {"issuer", "instrument", "listing"}
SubjectQuery(hint, ticker, name, choice, kinds, meant) ==
    [hint |-> hint, ticker |-> ticker, name |-> name, choice |-> choice, kinds |-> kinds, meant |-> meant]
MCSubjectQueries ==
    {SubjectQuery({}, {"ACM"}, "acm", {<<"listing", 1>>}, {"listing"}, {"acme", "mines"}),
     SubjectQuery({}, {"ACME"}, "Acme", {}, AllKinds, {"acme"}),
     SubjectQuery({<<"cik", "100">>}, {"100"}, "100", {}, AllKinds, {"acme"})}

MCClassRows == {Told("ALPA", "XNAS", "Alpha", {"200"}, {"g3"}), Told("ALPC", "XNAS", "Alpha", {"200"}, {"g4"})}
MCNoRows == {}
MCNothing == {[issuers |-> {}, instruments |-> {}, listings |-> {}, refs |-> {}]}
MCClassQueries == {SubjectQuery({}, {t}, t, {}, AllKinds, {"alpha"}) : t \in {"ALPA", "ALPC"}}
MCClassVenues == <<"XNAS", "ALPA">> :> "alpha" @@ <<"XNAS", "ALPC">> :> "alpha"
MCClassNames == "Alpha" :> "alpha"

ResolverAlone ==
  /\ SealInit /\ MarketInit /\ ResolverInit
  /\ [][ResolverNext /\ UNCHANGED <<sealVars, marketVars>>]_resolverVars

===============================================================================
