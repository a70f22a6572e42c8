----------------------------- MODULE SnapshotSeal -----------------------------
(* Sealing snapshots (services/snapshot, called by the chat runtime over a pool *)
(* and by the agent runtime inside a transaction of its own).                   *)
(* First what is decided about one artifact: the manifest is staged from tool   *)
(* calls or assembled from blocks, the disclosure policy says what the artifact *)
(* has to disclose, the verifier compares blocks, manifest and loaded rows, the *)
(* audit compares the tool-call log, and the transform boundary says what a     *)
(* sealed snapshot may still serve.  Then a request is verified, writes each    *)
(* failure with a statement of its own, has its tool calls audited against a    *)
(* log that others overwrite, and inserts the snapshot; readers ask for         *)
(* transforms of what is stored.                                                *)
(* A node is a pair <<kind, id>>; times are integers; a hash is the value       *)
(* hashed.  Sets stand for the arrays, which keep the first of equal items.     *)
EXTENDS Integers, FiniteSets, Sequences

Of(kind, S) == {n \in S : n[1] = kind}

-------------------------------------------------------------------------------
(* Manifests *)

\* what a tool call contributes; result is {} when the caller keeps nothing else
PayloadOf(call) == [subjects |-> call.subjects, refs |-> call.refs, sources |-> call.sources]

ResultHash(call) ==
  IF call.result = {} THEN PayloadOf(call) ELSE CHOOSE r \in call.result : TRUE

\* a result repeats what it contributes, and a call named twice returned the same
StagingError(inp) ==
  \/ \E c \in inp.calls : \E r \in c.result : r.contributes # PayloadOf(c)
  \/ \E c, e \in inp.calls : c.tool = e.tool /\ ResultHash(c) # ResultHash(e)
  \/ inp.subjects \cup UNION {c.subjects : c \in inp.calls} = {}

\* head: as_of, basis, normalization and allowed_transforms ({} when they are not an
\* object, otherwise the set of the listed ranges and intervals)
StageManifest(inp) ==
  [subjects |-> inp.subjects \cup UNION {c.subjects : c \in inp.calls},
   refs     |-> UNION {c.refs : c \in inp.calls},
   sources  |-> UNION {c.sources : c \in inp.calls},
   series   |-> UNION {c.series : c \in inp.calls},
   tools    |-> {c.tool : c \in inp.calls},
   hashes   |-> [t \in {c.tool : c \in inp.calls} |->
                   ResultHash(CHOOSE c \in inp.calls : c.tool = t)],
   head     |-> inp.head,
   staged   |-> TRUE]

Shown(b, field) == IF field \in DOMAIN b.shows THEN b.shows[field] ELSE {}

\* the chat runtime takes the manifest from the top-level blocks and the hashes
\* from the log itself; it holds no facts and no series
ManifestOfBlocks(inp, log) ==
  LET tools == UNION {b.tools : b \in inp.blocks}
  IN [subjects |-> inp.subjects,
      refs     |-> UNION {Shown(b, f) : b \in inp.blocks,
                            f \in {"claim_refs", "event_refs", "document_refs"}},
      sources  |-> UNION {b.sources : b \in inp.blocks},
      series   |-> {},
      tools    |-> tools,
      hashes   |-> [t \in {t \in tools : log[t].status = "ok"} |-> log[t].hash],
      head     |-> inp.head,
      staged   |-> TRUE]

-------------------------------------------------------------------------------
(* Tool-call audit *)

HasProvenanceBearingRefs(m) == m.refs \cup m.sources # {} \/ m.series # {}

MissingProvenance(m) == HasProvenanceBearingRefs(m) /\ (m.tools = {} \/ ~m.staged)

\* thread is {} when the seal names none
Found(m, log, thread) ==
  {t \in m.tools : log[t].status = "ok" /\ (thread = {} \/ log[t].thread = thread)}

\* a bug: the hashes are not compared
AuditIdsOnly(m, log, thread) ==
  /\ ~MissingProvenance(m)
  /\ DOMAIN m.hashes = m.tools
  /\ m.tools = Found(m, log, thread)

\* a bug: a call without a hash passes
AuditHashedOnly(m, log, thread) ==
  /\ ~MissingProvenance(m)
  /\ m.tools = Found(m, log, thread)
  /\ \A t \in DOMAIN m.hashes : m.hashes[t] = log[t].hash

\* auditManifestToolCallLog: no missing, mismatched, extra or unhashed call
AuditOk(m, log, thread) ==
  /\ ~MissingProvenance(m)
  /\ DOMAIN m.hashes = m.tools
  /\ m.tools = Found(m, log, thread)
  /\ \A t \in m.tools : m.hashes[t] = log[t].hash

-------------------------------------------------------------------------------
(* Disclosure policy *)

Codes == {"delayed_pricing", "eod_pricing", "filing_time_basis", "low_coverage",
          "candidate_data", "fx_converted_values"}
TierOf == [delayed_pricing |-> "delayed_15m", eod_pricing |-> "eod",
           filing_time_basis |-> "filing_time", low_coverage |-> "estimate",
           fx_converted_values |-> "estimate", candidate_data |-> "candidate"]
TierRank == [real_time |-> 0, delayed_15m |-> 1, eod |-> 2, filing_time |-> 3,
             estimate |-> 4, candidate |-> 5, tertiary_source |-> 6]

\* the text of the first three names the time of the snapshot
DisclosureText(code, asOf) ==
  IF code \in {"delayed_pricing", "eod_pricing", "filing_time_basis"}
  THEN <<code, asOf>> ELSE <<code, 0>>

\* the sources of a series that shows a signal; a series without an identity of
\* its own falls back to the sources of the manifest
SpecSources(m, spec) == IF spec.source = {} THEN m.sources ELSE spec.source

\* the sources each reason for the code brings, one set per reason
Reasons(m, rows, code) ==
  {SpecSources(m, spec) : spec \in {s \in m.series : code \in s.signals}}
    \cup {rows[f].sources : f \in {f \in Of("fact", DOMAIN rows) : code \in rows[f].signals}}
    \cup (IF \/ code = "filing_time_basis" /\ m.head.basis \in {"reported", "restated"}
             \/ code = "fx_converted_values" /\ m.head.normalization = "currency_normalized"
          THEN {m.sources} ELSE {})

\* compileDisclosurePolicy: one requirement per code, with the sources of all reasons
RequiredDisclosures(m, rows) ==
  {[code |-> c, tier |-> TierOf[c], item |-> DisclosureText(c, m.head.asOf),
    sources |-> UNION Reasons(m, rows, c)] : c \in {c \in Codes : Reasons(m, rows, c) # {}}}

-------------------------------------------------------------------------------
(* Blocks *)

\* the kinds of the block schema that show nodes, and the fields that show them
ReadFields ==
  [rich_text |-> {"segments"},
   metric_row |-> {"value_ref", "delta_ref"},
   revenue_bars |-> {"value_ref", "delta_ref"},
   segment_donut |-> {"value_ref"},
   analyst_consensus |-> {"analyst_count_ref", "count_ref"},
   price_target_range |-> {"current_price_ref", "low_ref", "avg_ref", "high_ref", "upside_ref"},
   eps_surprise |-> {"estimate_ref", "actual_ref", "surprise_ref"},
   sources |-> {"source_id"},
   news_cluster |-> {"document_id"},
   filings_list |-> {"document_id"}]

BlockKinds ==
  DOMAIN ReadFields \cup
    {"section", "table", "line_chart", "perf_comparison", "segment_trajectory",
     "metrics_comparison", "finding_card", "sentiment_trend", "mention_volume",
     "daily_call_summary", "driver_board", "curve_chart", "spread_table",
     "inventory_bridge", "impact_matrix", "report_delta", "watch_item_table",
     "forecast_vs_market", "source_pack", "disclosure"}

NeedsData == {"line_chart", "table", "perf_comparison", "segment_trajectory",
              "metrics_comparison", "sentiment_trend", "mention_volume"}

\* extractBlockRefs: the fields of the kind, and four lists any block may carry
BlockRefs(b) ==
  UNION {Shown(b, f) : f \in {"fact_refs", "claim_refs", "event_refs", "document_refs"}
           \cup (IF b.kind \in DOMAIN ReadFields THEN ReadFields[b.kind] ELSE {})}

\* flattenBlocks; blocks nest two deep at most (a section and what it contains)
Flatten(blocks) == blocks \cup UNION {b.children : b \in blocks}

DataKindMatches(b) ==
  b.data.kind = b.kind \/ (b.kind = "disclosure" /\ b.data.kind = "disclosure_policy")

\* requiredFactBindingFields, by the period the row or else the binding names
BindingFields(meta, other) ==
  LET named == {g \in {meta, other} : "period_kind" \in DOMAIN g}
      kind  == IF named = {} THEN "none"
               ELSE IF meta \in named THEN meta["period_kind"] ELSE other["period_kind"]
  IN {"unit", "period_kind"} \cup
     CASE kind = "point"           -> {"period_end"}
       [] kind = "fiscal_q"        -> {"fiscal_year", "fiscal_period"}
       [] kind = "fiscal_y"        -> {"fiscal_year"}
       [] kind \in {"ttm", "range"} -> {"period_start", "period_end"}
       [] OTHER                    -> {}

\* factBindingMismatch
BindingMismatch(meta, binding) ==
  {f \in BindingFields(meta, binding) :
     \/ f \notin DOMAIN meta \cap DOMAIN binding
     \/ meta[f] # binding[f]}

-------------------------------------------------------------------------------
(* Verification.  d is a draft: id, thread, manifest, blocks, rows (what was     *)
(* loaded, a function of nodes), loaded (the loaded sources), required (the      *)
(* disclosures the caller adds), actions and pending.  A failure is its reason,  *)
(* the block or "manifest", and the node.                                       *)

\* The normalization throws at the first part that is not what it should be (a
\* wrong type, id, date or name: d.malformed says where) and, beyond types:
\* at a manifest whose transforms are not an object,
BadManifest(d) == "manifest" \in d.malformed \/ d.manifest.head.transforms = {}
\* or that has no subjects,
BadPolicyState(d) == d.manifest.subjects = {}
\* at a series with an identity and a signal but no source,
BadSeries(d) ==
  \E s \in d.manifest.series : s.signals # {} /\ s.ref # {} /\ s.source = {}
BadBlock(d) == "blocks" \in d.malformed
BadRow(d) == "rows" \in d.malformed
BadDisclosure(d) == "disclosures" \in d.malformed
\* at a pending action that needs no approval.
BadAction(d) ==
  \/ "actions" \in d.malformed
  \/ \E p \in d.pending : ~p.approvalRequired \/ p.readOnly

\* normalizeInput: all of them are one failure
Malformed(d) ==
  \/ BadManifest(d) \/ BadPolicyState(d) \/ BadSeries(d)
  \/ BadBlock(d) \/ BadRow(d) \/ BadDisclosure(d) \/ BadAction(d)

\* sources that are not both loaded and in the manifest
SourceGaps(d, where, sources) ==
  {<<"missing_source_ref", where, s>> : s \in sources \ (d.loaded \cap d.manifest.sources)}

NoNode == <<"none", "none">>

RenderedFacts(d) ==
  UNION {Of("fact", BlockRefs(b)) \cup {x.fact : x \in b.data.bindings} : b \in Flatten(d.blocks)}

\* validateManifestSeriesSpecs
SeriesFailures(d) ==
  UNION {IF s.source = {}
         THEN IF s.ref = {} /\ d.manifest.sources # {} THEN {}
              ELSE {<<"missing_source_ref", "series", NoNode>>}
         ELSE SourceGaps(d, "series", s.source) : s \in d.manifest.series}

\* verifyManifestRefs
ManifestFailures(d) ==
  LET held == d.manifest.refs
      there == held \cap DOMAIN d.rows
  IN SeriesFailures(d)
     \cup {<<"missing_ref", "manifest", n>> : n \in held \ DOMAIN d.rows}
     \cup {<<"missing_source_ref", "manifest", s>> : s \in d.manifest.sources \ d.loaded}
     \cup {<<"missing_source_ref", "manifest", n>> : n \in {n \in there : d.rows[n].sources = {}}}
     \cup (UNION {SourceGaps(d, "manifest", d.rows[n].sources) : n \in there})
     \cup {<<"fact_binding_mismatch", "manifest", f>> :
             f \in {f \in Of("fact", there) \ RenderedFacts(d) :
                      ~ BindingFields(d.rows[f].meta, <<>>) \subseteq DOMAIN d.rows[f].meta}}

\* a node a block shows: held, its sources cited, and a fact bound
RefFailures(d, b, n) ==
  LET held == n \in d.manifest.refs
      there == n \in DOMAIN d.rows
  IN (IF held THEN {} ELSE {<<"missing_ref", b.id, n>>})
     \cup (IF there /\ (n[1] # "document" \/ held)
           THEN {<<"missing_source_ref", b.id, s>> : s \in d.rows[n].sources \ b.sources}
           ELSE {})
     \cup (IF n[1] = "fact" /\ held /\ there /\ ~ \E x \in b.data.bindings : x.fact = n
           THEN {<<"fact_binding_mismatch", b.id, n>>} ELSE {})

BindingFailures(d, b, x) ==
  IF x.fact \notin d.manifest.refs \cap DOMAIN d.rows
  THEN {<<"missing_ref", b.id, x.fact>>}
  ELSE {<<"missing_source_ref", b.id, s>> : s \in d.rows[x.fact].sources \ b.sources}
       \cup (IF BindingMismatch(d.rows[x.fact].meta, x.meta) = {} THEN {}
             ELSE {<<"fact_binding_mismatch", b.id, x.fact>>})

\* the sealed series a block draws on, and their sources
SealedSpecs(d, b) == {s \in d.manifest.series : s.ref # {} /\ s.ref \subseteq b.data.series}

\* verifyDataRefBinding
DataFailures(d, b) ==
  (IF DataKindMatches(b) THEN {} ELSE {<<"invalid_block_binding", b.id, NoNode>>})
  \cup {<<"invalid_block_binding", b.id, x>> :
          x \in b.data.series \ UNION {s.ref : s \in SealedSpecs(d, b)}}
  \cup (UNION {IF s.source = {} THEN {<<"missing_source_ref", b.id, NoNode>>}
               ELSE SourceGaps(d, b.id, s.source)
                    \cup {<<"missing_source_ref", b.id, y>> : y \in s.source \ b.sources}
                 : s \in SealedSpecs(d, b)})
  \cup (IF /\ b.kind \in NeedsData
           /\ Of("fact", BlockRefs(b)) = {} /\ b.data.bindings = {} /\ SealedSpecs(d, b) = {}
        THEN {<<"invalid_block_binding", b.id, NoNode>>} ELSE {})
  \cup (IF b.data.snapshot \subseteq {d.id} THEN {}
        ELSE {<<"invalid_block_binding", b.id, NoNode>>})

\* verifyBlockBindings, of one block
BlockFailures(d, b) ==
  (IF b.kind \in BlockKinds /\ b.snapshot = d.id THEN {}
   ELSE {<<"invalid_block_binding", b.id, NoNode>>})
  \cup (IF b.asOf <= d.manifest.head.asOf THEN {}
        ELSE {<<"block_after_snapshot_as_of", b.id, NoNode>>})
  \cup SourceGaps(d, b.id, b.sources)
  \cup {<<"missing_subject_ref", b.id, s>> : s \in b.subjects \ d.manifest.subjects}
  \cup DataFailures(d, b)
  \cup (UNION {RefFailures(d, b, n) : n \in BlockRefs(b) \ Of("source", BlockRefs(b))})
  \cup {<<"missing_source_ref", b.id, s>> : s \in Of("source", BlockRefs(b)) \ b.sources}
  \cup SourceGaps(d, b.id, Of("source", BlockRefs(b)))
  \cup (UNION {BindingFailures(d, b, x) : x \in b.data.bindings})

TierCovers(actual, required) ==
  \E t \in actual : t \in DOMAIN TierRank /\ TierRank[t] >= TierRank[required]

Renders(b, r) ==
  /\ b.kind = "disclosure" /\ r.item \in b.items
  /\ TierCovers(b.tier, r.tier) /\ r.sources \subseteq b.sources

\* verifyDisclosures: derived and supplied ones
DisclosureFailures(d) ==
  UNION {IF r.sources = {} THEN {<<"missing_source_ref", r.code, NoNode>>}
         ELSE SourceGaps(d, r.code, r.sources)
              \cup (IF \E b \in Flatten(d.blocks) : Renders(b, r) THEN {}
                    ELSE {<<"missing_required_disclosure", r.code, NoNode>>})
           : r \in RequiredDisclosures(d.manifest, d.rows) \cup d.required}

\* the id of a pending action is computed from what it will do
PendingId(p) == <<p.tool, p.arguments>>

Awaited(d, a) ==
  \E p \in d.pending : {p.id} = a.pending /\ p.tool = a.tool /\ PendingId(p) = p.id

\* verifyApprovals: a write is approved, or waits as a pending action
ApprovalFailures(d) ==
  {<<"unapproved_side_effect", a.tool, NoNode>> :
     a \in {a \in d.actions : /\ ~a.readOnly
                              /\ ~(a.approvalRequired /\ (a.approved \/ Awaited(d, a)))}}

\* verifySnapshotSeal
Failures(d) ==
  IF Malformed(d) THEN {<<"invalid_verifier_input", "manifest", NoNode>>}
  ELSE ManifestFailures(d) \cup (UNION {BlockFailures(d, b) : b \in Flatten(d.blocks)})
       \cup DisclosureFailures(d) \cup ApprovalFailures(d)

-------------------------------------------------------------------------------
(* Transforms of a sealed snapshot: a request keeps the subjects (a sequence in   *)
(* the request, each as often as in the manifest), basis and normalization, ends  *)
(* within the snapshot, and is listed.                                           *)

SameSubjects(m, q) ==
  /\ Len(q.subjects) = Cardinality(m.subjects)
  /\ {q.subjects[i] : i \in 1..Len(q.subjects)} = m.subjects

\* snapshotTransformBoundaryResponse: "ok" or why a refresh is required
Boundary(m, q) ==
  IF q.basis # m.head.basis THEN "basis"
  ELSE IF q.normalization # m.head.normalization THEN "normalization"
  ELSE IF ~SameSubjects(m, q) THEN "peer_set"
  ELSE IF q.end > m.head.asOf THEN "freshness"
  ELSE IF <<q.start, q.end, q.interval>> \notin UNION m.head.transforms THEN "transform"
  ELSE "ok"

-------------------------------------------------------------------------------
(* The requests *)

CONSTANTS Requests,      \* seal requests
          InputsOf(_),   \* what a request may ask to seal
          Ids,           \* snapshot ids
          Tools,         \* tool calls
          LogRows,       \* rows the tool-call log may have for a call
          Queries        \* transform requests

ASSUME SealConstants ==
  /\ \A r \in Requests : \A inp \in InputsOf(r) :
       /\ {"id", "how", "inTx", "thread", "blocks", "rows", "loaded"} \subseteq DOMAIN inp
       /\ inp.id \in Ids /\ inp.head.asOf \in Int
       /\ \A c \in inp.calls : /\ c.tool \in Tools
                               /\ \A s \in c.series : /\ \A x, y \in s.ref : x = y
                                                      /\ s.signals \subseteq Codes
       /\ \A b \in inp.blocks : b.tools \subseteq Tools
       /\ \A f \in Of("fact", DOMAIN inp.rows) : inp.rows[f].signals \subseteq Codes
  /\ \A q \in Queries : q.end \in Int

VARIABLES request,     \* where each request is
          log,         \* table tool_call_logs
          observed,    \* history: the calls and results the log ever held
          snapshots,   \* table snapshots: {} or {artifact}
          failLog,     \* table verifier_fail_logs
          served       \* transforms executed

sealVars == <<request, log, observed, snapshots, failLog, served>>

LogPairs(l) == {<<t, l[t].hash>> : t \in {t \in Tools : l[t].status = "ok"}}

SealInit ==
  /\ request = [r \in Requests |-> [at |-> "new"]]
  /\ log \in [Tools -> LogRows]
  /\ observed = LogPairs(log)
  /\ snapshots = [id \in Ids |-> {}]
  /\ failLog = {}
  /\ served = {}

-------------------------------------------------------------------------------
Goto(r, where) == request' = [request EXCEPT ![r].at = where]
End(r, how) == request' = [request EXCEPT ![r] = [at |-> how]]

\* the caller builds the manifest: from its tool calls, or from its blocks
ManifestOf(inp) ==
  IF inp.how = "staged" THEN StageManifest(inp) ELSE ManifestOfBlocks(inp, log)

\* what is verified: the input and the manifest
Draft(inp) ==
  [x \in (DOMAIN inp) \cup {"manifest"} |-> IF x = "manifest" THEN ManifestOf(inp) ELSE inp[x]]

Open(r, inp) ==
  /\ request[r].at = "new"
  /\ IF inp.how = "staged" /\ StagingError(inp) THEN End(r, "failed")
     ELSE request' = [request EXCEPT ![r] =
            [at |-> "verify", written |-> {}, todo |-> {}, draft |-> Draft(inp)]]
  /\ UNCHANGED <<log, observed, snapshots, failLog, served>>

Verify(r) ==
  /\ request[r].at = "verify"
  /\ LET found == Failures(request[r].draft)
     IN request' = [request EXCEPT ![r].at = IF found = {} THEN "audit" ELSE "record",
                                   ![r].todo = found]
  /\ UNCHANGED <<log, observed, snapshots, failLog, served>>

\* one insert per failure; in the caller's transaction nobody sees it yet
Record(r) ==
  /\ request[r].at = "record"
  /\ \E f \in request[r].todo :
       /\ request' = [request EXCEPT ![r].todo = @ \ {f}, ![r].written = @ \cup {f}]
       /\ failLog' = IF request[r].draft.inTx THEN failLog ELSE failLog \cup {<<r, f>>}
  /\ UNCHANGED <<log, observed, snapshots, served>>

\* the result says which failures; the agent runtime throws, and rolls back
Refuse(r) ==
  /\ request[r].at = "record" /\ request[r].todo = {}
  /\ End(r, "refused")
  /\ UNCHANGED <<log, observed, snapshots, failLog, served>>

\* a second statement, after the verifier's
Audit(r) ==
  /\ request[r].at = "audit"
  /\ IF AuditOk(request[r].draft.manifest, log, request[r].draft.thread)
     THEN Goto(r, "insert")
     ELSE request' = [request EXCEPT ![r].at = "record",
                        ![r].todo = {<<"tool_call_log_audit_failed", "manifest", NoNode>>}]
  /\ UNCHANGED <<log, observed, snapshots, failLog, served>>

\* what is stored, with the rows it was verified against and what the log ever held
Artifact(d) == [manifest |-> d.manifest, blocks |-> d.blocks, rows |-> d.rows,
                loaded |-> d.loaded, observed |-> observed]

HeldBy(id) == {r \in Requests : request[r].at = "held" /\ request[r].draft.id = id}

\* the insert waits for another transaction that holds the id; an id that exists is
\* a unique violation, which is thrown (and rolled back); a pool commits at once
Insert(r) ==
  LET d == request[r].draft
  IN /\ request[r].at = "insert" /\ HeldBy(d.id) = {}
     /\ \/ /\ snapshots[d.id] # {} /\ End(r, "failed") /\ UNCHANGED snapshots
        \/ /\ snapshots[d.id] = {} /\ ~d.inTx
           /\ snapshots' = [snapshots EXCEPT ![d.id] = {Artifact(d)}] /\ End(r, "sealed")
        \/ /\ snapshots[d.id] = {} /\ d.inTx /\ Goto(r, "held") /\ UNCHANGED snapshots
     /\ UNCHANGED <<log, observed, failLog, served>>

\* the caller's transaction commits
CommitTx(r) ==
  /\ request[r].at = "held"
  /\ snapshots' = [snapshots EXCEPT ![request[r].draft.id] = {Artifact(request[r].draft)}]
  /\ End(r, "sealed")
  /\ UNCHANGED <<log, observed, failLog, served>>

\* a statement throws or the process ends; what was not committed is gone
LoseSeal(r) ==
  /\ request[r].at \in {"verify", "record", "audit", "insert", "held"}
  /\ End(r, "failed")
  /\ UNCHANGED <<log, observed, snapshots, failLog, served>>

\* a tool call is logged, or logged again under its id (on conflict do update)
LogCall(t, row) ==
  /\ row # log[t]
  /\ log' = [log EXCEPT ![t] = row]
  /\ observed' = observed \cup LogPairs(log')
  /\ UNCHANGED <<request, snapshots, failLog, served>>

\* POST /v1/snapshots/{id}/transform
Transform(id, q) ==
  /\ \E a \in snapshots[id] : Boundary(a.manifest, q) = "ok"
  /\ served' = served \cup {<<id, q>>}
  /\ UNCHANGED <<request, log, observed, snapshots, failLog>>

SealStep(r) == Verify(r) \/ Record(r) \/ Refuse(r) \/ Audit(r) \/ Insert(r) \/ CommitTx(r)

SealNext ==
  \/ \E r \in Requests : SealStep(r) \/ LoseSeal(r) \/ \E inp \in InputsOf(r) : Open(r, inp)
  \/ \E t \in Tools, row \in LogRows : LogCall(t, row)
  \/ \E id \in Ids, q \in Queries : Transform(id, q)

SealSpec == SealInit /\ [][SealNext]_sealVars

-------------------------------------------------------------------------------
\* Requests only leave failures of theirs, and a stored artifact passed the
\* verifier with the manifest that was stored.
SealTypeOK ==
  /\ \A r \in Requests : request[r].at \in {"new", "verify", "record", "audit", "insert",
                                            "held", "sealed", "refused", "failed"}
  /\ log \in [Tools -> LogRows]
  /\ LogPairs(log) \subseteq observed
  /\ \A id \in Ids : \A a \in snapshots[id] :
       DOMAIN a.manifest.hashes = a.manifest.tools /\ a.observed \subseteq observed
  /\ \A x \in failLog : x[1] \in Requests
  /\ \A x \in served : x[1] \in Ids /\ x[2] \in Queries

Store == INSTANCE SnapshotStore WITH stored <- snapshots

\* The sealing path implements the store: whatever is asked to be sealed, with tool
\* calls logged again and requests lost in between, what is stored is closed and
\* observed, is never replaced, and serves only what it holds (verifySnapshotSeal,
\* auditManifestToolCallLog, insertVerifiedSnapshot, snapshotTransformBoundaryResponse).
ImplementsStore == Store!StoreSpec

\* Every node a stored snapshot shows is held by its manifest ("Every displayed
\* number must trace to a Fact", stock-agent-v2.md:54).
ShownIsHeld ==
  \A id \in Ids : \A a \in snapshots[id] : \A b \in Store!AllBlocks(a) :
    Store!Nodes(b) \subseteq a.manifest.refs \cup a.manifest.sources

=============================================================================
