------------------------------ MODULE DeskProofs ------------------------------
(***************************************************************************)
(* What TLAPS proves of the components of the desk run: SnapshotSeal       *)
(* implements SnapshotStore; EvidenceIngest extracts the claims of a page  *)
(* once and never asks EDGAR for more than its bucket allows; ToolGate     *)
(* writes nothing for a reader and nothing that is not approved;           *)
(* EvidenceReads shows a user what is theirs or everyone's; AuthInterrupt  *)
(* acts at most as often as it was asked to; Screener shows outcomes in    *)
(* the order of their searches, and a user's saved screens to that user;   *)
(* MarketData serves what it is asked for.                                 *)
(***************************************************************************)
EXTENDS SnapshotSeal, MarketData, EvidenceIngest, ToolGate, EvidenceReads, AuthInterrupt, Screener,
        FiniteSetTheorems, SequenceTheorems, TLAPS

(***************************************************************************)
(* Snapshots.                                                              *)
(*                                                                         *)
(* The verifier reads the nodes of a block from the fields it knows for    *)
(* its kind.  What is sealed is closed only when blocks show nodes in      *)
(* these fields alone, which the schema does not ensure: ShownIsHeld fails *)
(* in the run that drops this hypothesis.                                  *)
(***************************************************************************)
ReadOf(blocks) == \A b \in Flatten(blocks) : Store!Nodes(b) \subseteq BlockRefs(b)

FieldsAreRead == \A r \in Requests : \A inp \in InputsOf(r) : ReadOf(inp.blocks)

\* what a draft takes from its input, as far as the verdict depends on it
DraftTyped(d) ==
  /\ d.id \in Ids
  /\ d.manifest.head.asOf \in Int
  /\ d.manifest.tools \subseteq Tools
  /\ \A s \in d.manifest.series : (\A x, y \in s.ref : x = y) /\ s.signals \subseteq Codes
  /\ \A f \in Of("fact", DOMAIN d.rows) : d.rows[f].signals \subseteq Codes

(* A draft without a failure, by the parts of the verdict.                 *)
LEMMA EmptyUnion ==
  ASSUME NEW S, UNION S = {}
  PROVE  \A s \in S : s = {}
  OBVIOUS

LEMMA NoFailure ==
  ASSUME NEW d, Failures(d) = {}
  PROVE  /\ ManifestFailures(d) = {} /\ DisclosureFailures(d) = {}
         /\ \A b \in Flatten(d.blocks) : BlockFailures(d, b) = {}
  <1> DEFINE OfBlocks == {BlockFailures(d, b) : b \in Flatten(d.blocks)}
             All == UNION OfBlocks
  <1>1. /\ Failures(d) = IF Malformed(d) THEN {<<"invalid_verifier_input", "manifest", NoNode>>}
                         ELSE ManifestFailures(d) \cup All \cup DisclosureFailures(d) \cup ApprovalFailures(d)
    BY Zenon DEF Failures
  <1>2. All = {} /\ ManifestFailures(d) = {} /\ DisclosureFailures(d) = {}
    <2> HIDE DEF All
    <2> QED
      BY <1>1
  <1>3. \A s \in OfBlocks : s = {}
    BY <1>2, EmptyUnion
  <1> QED
    BY <1>2, <1>3

LEMMA NoBlockFailure ==
  ASSUME NEW d, NEW b, BlockFailures(d, b) = {}
  PROVE  /\ b.asOf <= d.manifest.head.asOf
         /\ b.sources \subseteq d.loaded \cap d.manifest.sources
         /\ DataFailures(d, b) = {}
         /\ \A n \in BlockRefs(b) \ Of("source", BlockRefs(b)) : RefFailures(d, b, n) = {}
         /\ Of("source", BlockRefs(b)) \subseteq b.sources
         /\ \A x \in b.data.bindings : BindingFailures(d, b, x) = {}
  <1> DEFINE Known == IF b.kind \in BlockKinds /\ b.snapshot = d.id THEN {}
                      ELSE {<<"invalid_block_binding", b.id, NoNode>>}
             InTime == IF b.asOf <= d.manifest.head.asOf THEN {}
                       ELSE {<<"block_after_snapshot_as_of", b.id, NoNode>>}
             Subjects == {<<"missing_subject_ref", b.id, s>> : s \in b.subjects \ d.manifest.subjects}
             OfRefs == {RefFailures(d, b, n) : n \in BlockRefs(b) \ Of("source", BlockRefs(b))}
             Cited == {<<"missing_source_ref", b.id, s>> : s \in Of("source", BlockRefs(b)) \ b.sources}
             OfBindings == {BindingFailures(d, b, x) : x \in b.data.bindings}
             Held == UNION OfRefs
             Agree == UNION OfBindings
             Own == SourceGaps(d, b.id, b.sources)
             Shows == SourceGaps(d, b.id, Of("source", BlockRefs(b)))
  <1>1. BlockFailures(d, b) = Known \cup InTime \cup Own \cup Subjects \cup DataFailures(d, b)
          \cup Held \cup Cited \cup Shows \cup Agree
    BY Zenon DEF BlockFailures
  <1>2. /\ InTime = {} /\ Own = {} /\ DataFailures(d, b) = {} /\ Cited = {}
        /\ Held = {} /\ Agree = {}
    <2> HIDE DEF Known, InTime, Own, Subjects, Cited, Shows, Held, Agree
    <2> QED
      BY <1>1
  <1>3. b.asOf <= d.manifest.head.asOf
    BY <1>2
  <1>4. b.sources \subseteq d.loaded \cap d.manifest.sources
    <2>1. \A s \in b.sources \ (d.loaded \cap d.manifest.sources) : <<"missing_source_ref", b.id, s>> \in Own
      BY DEF SourceGaps
    <2> QED
      BY <1>2, <2>1
  <1>5. (\A s \in OfRefs : s = {}) /\ (\A s \in OfBindings : s = {})
    BY <1>2, EmptyUnion
  <1>6. Of("source", BlockRefs(b)) \subseteq b.sources
    <2>1. \A s \in Of("source", BlockRefs(b)) \ b.sources : <<"missing_source_ref", b.id, s>> \in Cited
      OBVIOUS
    <2> QED
      BY <1>2, <2>1
  <1> QED
    BY <1>2, <1>3, <1>4, <1>5, <1>6

(* A node a block shows is traced: held, loaded with sources, and cited.   *)
LEMMA ShownIsTraced ==
  ASSUME NEW d, Failures(d) = {}, NEW b \in Flatten(d.blocks), NEW n \in BlockRefs(b)
  PROVE  Store!Traced(Artifact(d), b, n)
  <1>1. /\ BlockFailures(d, b) = {} /\ ManifestFailures(d) = {}
        /\ Of("source", BlockRefs(b)) \subseteq b.sources
        /\ \A m \in BlockRefs(b) \ Of("source", BlockRefs(b)) : RefFailures(d, b, m) = {}
    BY NoFailure, NoBlockFailure
  <1>2. CASE n[1] = "source"
    BY <1>1, <1>2 DEF Of, Store!Traced
  <1>3. CASE n[1] # "source"
    <2>1. RefFailures(d, b, n) = {}
      BY <1>1, <1>3 DEF Of
    <2>2. n \in d.manifest.refs
      BY <2>1 DEF RefFailures
    <2>3. {<<"missing_ref", "manifest", m>> : m \in d.manifest.refs \ DOMAIN d.rows} = {}
      BY <1>1 DEF ManifestFailures
    <2>4. n \in DOMAIN d.rows
      BY <2>2, <2>3
    <2>5. {<<"missing_source_ref", "manifest", m>> :
             m \in {m \in d.manifest.refs \cap DOMAIN d.rows : d.rows[m].sources = {}}} = {}
      BY <1>1 DEF ManifestFailures
    <2>6. d.rows[n].sources # {}
      BY <2>2, <2>4, <2>5
    <2>7. {<<"missing_source_ref", b.id, s>> : s \in d.rows[n].sources \ b.sources} = {}
      BY <2>1, <2>2, <2>4 DEF RefFailures
    <2>8. d.rows[n].sources \subseteq b.sources
      BY <2>7
    <2> QED
      BY <1>3, <2>2, <2>4, <2>6, <2>8 DEF Store!Traced, Artifact
  <1> QED
    BY <1>2, <1>3

(* A fact a block shows has a binding that agrees with its row.            *)
LEMMA ShownIsBound ==
  ASSUME NEW d, Failures(d) = {}, NEW b \in Flatten(d.blocks), NEW n \in BlockRefs(b),
         n[1] = "fact"
  PROVE  Store!Bound(Artifact(d), b, n)
  <1>1. /\ \A m \in BlockRefs(b) \ Of("source", BlockRefs(b)) : RefFailures(d, b, m) = {}
        /\ \A x \in b.data.bindings : BindingFailures(d, b, x) = {}
    BY NoFailure, NoBlockFailure
  <1>2. RefFailures(d, b, n) = {}
    BY <1>1 DEF Of
  <1>3. n \in d.manifest.refs /\ n \in DOMAIN d.rows
    BY ShownIsTraced DEF Store!Traced, Artifact
  <1>4. PICK x \in b.data.bindings : x.fact = n
    BY <1>2, <1>3 DEF RefFailures
  <1> DEFINE meta == d.rows[n].meta
  <1>5. BindingMismatch(meta, x.meta) = {}
    BY <1>1, <1>3, <1>4 DEF BindingFailures
  <1>6. \A k \in BindingFields(meta, x.meta) :
          k \in DOMAIN meta \cap DOMAIN x.meta /\ x.meta[k] = meta[k]
    BY <1>5 DEF BindingMismatch
  <1>7. {"unit", "period_kind"} \subseteq BindingFields(meta, x.meta)
    BY DEF BindingFields
  <1>8. "period_kind" \in DOMAIN meta
    BY <1>6, <1>7
  <1>9. Store!PeriodFields(meta["period_kind"]) \subseteq BindingFields(meta, x.meta)
    BY <1>8 DEF BindingFields, Store!PeriodFields
  <1> QED
    BY <1>4, <1>6, <1>7, <1>9 DEF Store!Bound, Artifact

(* A series a block draws on is a sealed one, with sources.                *)
LEMMA DrawnIsSealed ==
  ASSUME NEW d, Failures(d) = {}, DraftTyped(d), NEW b \in Flatten(d.blocks),
         NEW x \in b.data.series
  PROVE  \E s \in d.manifest.series : s.ref = {x} /\ s.source # {}
  <1>1. DataFailures(d, b) = {}
    BY NoFailure, NoBlockFailure
  <1>2. {<<"invalid_block_binding", b.id, y>> :
           y \in b.data.series \ UNION {s.ref : s \in SealedSpecs(d, b)}} = {}
    BY <1>1 DEF DataFailures
  <1>3. PICK s \in SealedSpecs(d, b) : x \in s.ref
    <2>1. \A y \in b.data.series \ UNION {s.ref : s \in SealedSpecs(d, b)} :
            <<"invalid_block_binding", b.id, y>> \in
              {<<"invalid_block_binding", b.id, z>> :
                 z \in b.data.series \ UNION {s.ref : s \in SealedSpecs(d, b)}}
      OBVIOUS
    <2>2. x \in UNION {s.ref : s \in SealedSpecs(d, b)}
      BY <1>2, <2>1
    <2> QED
      BY <2>2
  <1>4. UNION {IF t.source = {} THEN {<<"missing_source_ref", b.id, NoNode>>}
               ELSE SourceGaps(d, b.id, t.source)
                    \cup {<<"missing_source_ref", b.id, y>> : y \in t.source \ b.sources}
                 : t \in SealedSpecs(d, b)} = {}
    BY <1>1 DEF DataFailures
  <1>5. s.source # {}
    BY <1>4
  <1>6. s \in d.manifest.series /\ s.ref = {x}
    BY <1>3 DEF SealedSpecs, DraftTyped
  <1> QED
    BY <1>5, <1>6

(* A reason to disclose is disclosed, with the sources it brings.          *)
LEMMA ReasonIsDisclosed ==
  ASSUME NEW d, Failures(d) = {}, NEW code \in Codes,
         NEW from \in Reasons(d.manifest, d.rows, code)
  PROVE  Store!Disclosed(Artifact(d), code, from)
  <1> DEFINE r == [code |-> code, tier |-> TierOf[code],
                   item |-> DisclosureText(code, d.manifest.head.asOf),
                   sources |-> UNION Reasons(d.manifest, d.rows, code)]
  <1>1. r \in RequiredDisclosures(d.manifest, d.rows)
    BY DEF RequiredDisclosures
  <1>2. DisclosureFailures(d) = {}
    BY NoFailure
  <1>3. (IF r.sources = {} THEN {<<"missing_source_ref", r.code, NoNode>>}
         ELSE SourceGaps(d, r.code, r.sources)
              \cup (IF \E b \in Flatten(d.blocks) : Renders(b, r) THEN {}
                    ELSE {<<"missing_required_disclosure", r.code, NoNode>>})) = {}
    BY <1>1, <1>2 DEF DisclosureFailures
  <1>4. PICK b \in Flatten(d.blocks) : Renders(b, r)
    BY <1>3
  <1>5. r.item \in b.items /\ r.item[1] = code
    BY <1>4 DEF Renders, DisclosureText
  <1>6. b.kind = "disclosure" /\ b.tier # {} /\ from \subseteq b.sources
    BY <1>4 DEF Renders, TierCovers
  <1> QED
    BY <1>5, <1>6 DEF Store!Disclosed, Store!AllBlocks, Artifact, Flatten

(* What passes the verifier is closed.                                     *)
LEMMA VerifiedIsClosed ==
  ASSUME NEW d, Failures(d) = {}, DraftTyped(d), ReadOf(d.blocks)
  PROVE  Store!Closed(Artifact(d))
  <1> DEFINE a == Artifact(d)
  <1>1. Store!AllBlocks(a) = Flatten(d.blocks)
    BY DEF Store!AllBlocks, Flatten, Artifact
  <1>2. /\ a.manifest = d.manifest /\ a.rows = d.rows /\ a.loaded = d.loaded
    BY DEF Artifact
  <1>3. ASSUME NEW b \in Flatten(d.blocks)
        PROVE  /\ b.sources \subseteq d.manifest.sources \cap d.loaded
               /\ b.asOf <= d.manifest.head.asOf
    BY NoFailure, NoBlockFailure
  <1>4. ASSUME NEW b \in Flatten(d.blocks), NEW n \in Store!Nodes(b)
        PROVE  Store!Traced(a, b, n) /\ (n[1] = "fact" => Store!Bound(a, b, n))
    <2>1. n \in BlockRefs(b)
      BY DEF ReadOf
    <2> QED
      BY <2>1, ShownIsTraced, ShownIsBound
  <1>5. ASSUME NEW b \in Flatten(d.blocks), NEW x \in b.data.series
        PROVE  \E s \in d.manifest.series : s.ref = {x} /\ s.source # {}
    BY DrawnIsSealed
  <1>6. ASSUME NEW f \in {n \in DOMAIN d.rows : n[1] = "fact"}, NEW signal \in d.rows[f].signals
        PROVE  Store!Disclosed(a, signal, d.rows[f].sources)
    <2>1. f \in Of("fact", DOMAIN d.rows)
      BY DEF Of
    <2>2. signal \in Codes
      BY <2>1 DEF DraftTyped
    <2>3. d.rows[f].sources \in Reasons(d.manifest, d.rows, signal)
      BY <2>1 DEF Reasons
    <2> QED
      BY <2>2, <2>3, ReasonIsDisclosed
  <1>7. ASSUME NEW s \in d.manifest.series, NEW signal \in s.signals
        PROVE  Store!Disclosed(a, signal, s.source)
    <2>1. signal \in Codes
      BY DEF DraftTyped
    <2>2. SpecSources(d.manifest, s) \in Reasons(d.manifest, d.rows, signal)
      BY DEF Reasons
    <2>3. s.source \subseteq SpecSources(d.manifest, s)
      BY DEF SpecSources
    <2>4. Store!Disclosed(a, signal, SpecSources(d.manifest, s))
      BY <2>1, <2>2, ReasonIsDisclosed
    <2> QED
      BY <2>3, <2>4 DEF Store!Disclosed
  <1> QED
    BY <1>1, <1>2, <1>3, <1>4, <1>5, <1>6, <1>7 DEF Store!Closed

-----------------------------------------------------------------------------
(***************************************************************************)
(* The inductive invariant: what is being sealed comes from an input, what *)
(* is past the verifier has no failure, what is past the audit was once in *)
(* the log, and a snapshot that a transaction holds is not stored yet and  *)
(* held by no other.                                                       *)
(***************************************************************************)
Working == {"verify", "record", "audit", "insert", "held"}

\* the log held each call of the manifest with the hash the manifest has
LoggedOnce(m) == DOMAIN m.hashes = m.tools /\ \A t \in m.tools : <<t, m.hashes[t]>> \in observed

Holds(r, id) == request[r].at = "held" /\ request[r].draft.id = id

RequestOK(r) ==
  /\ request[r].at \in Working \cup {"new", "sealed", "refused", "failed"}
  /\ request[r].at \in Working =>
       /\ DOMAIN request[r] = {"at", "written", "todo", "draft"}
       /\ DraftTyped(request[r].draft)
       /\ \E inp \in InputsOf(r) : request[r].draft.blocks = inp.blocks
  /\ request[r].at \in {"audit", "insert", "held"} => Failures(request[r].draft) = {}
  /\ request[r].at \in {"insert", "held"} => LoggedOnce(request[r].draft.manifest)

TablesOK ==
  /\ log \in [Tools -> LogRows] /\ LogPairs(log) \subseteq observed
  /\ \A x \in failLog : x[1] \in Requests
  /\ \A x \in served : x[1] \in Ids /\ x[2] \in Queries

StoredOK ==
  /\ DOMAIN snapshots = Ids
  /\ \A id \in Ids : \A a \in snapshots[id] :
       /\ DOMAIN a.manifest.hashes = a.manifest.tools /\ a.observed \subseteq observed
       /\ a.manifest.head.asOf \in Int

HeldApart ==
  /\ \A r \in Requests, id \in Ids : Holds(r, id) => snapshots[id] = {}
  /\ \A r, q \in Requests, id \in Ids : Holds(r, id) /\ Holds(q, id) => r = q

SealInv ==
  /\ DOMAIN request = Requests
  /\ \A r \in Requests : RequestOK(r)
  /\ TablesOK /\ StoredOK /\ HeldApart

\* the only steps that store: one artifact, closed and observed, where there was none
Stores ==
  \E r \in Requests :
    LET d == request[r].draft
    IN /\ request[r].at \in {"insert", "held"} /\ snapshots[d.id] = {}
       /\ snapshots' = [snapshots EXCEPT ![d.id] = {Artifact(d)}]

LEMMA SealInitially == SealInit => SealInv
  <1> SUFFICES ASSUME SealInit PROVE SealInv
    OBVIOUS
  <1> USE DEF SealInit
  <1>1. DOMAIN request = Requests /\ \A r \in Requests : request[r].at = "new"
    OBVIOUS
  <1>2. \A r \in Requests : RequestOK(r)
    BY <1>1 DEF RequestOK, Working
  <1>3. TablesOK /\ StoredOK
    BY DEF TablesOK, StoredOK
  <1>4. HeldApart
    BY <1>1 DEF HeldApart, Holds
  <1> QED
    BY <1>1, <1>2, <1>3, <1>4 DEF SealInv

(* What a caller builds of an input.                                       *)
LEMMA DraftOfInput ==
  ASSUME NEW r \in Requests, NEW inp \in InputsOf(r)
  PROVE  DraftTyped(Draft(inp)) /\ Draft(inp).blocks = inp.blocks
  <1> DEFINE d == Draft(inp)
  <1>1. /\ d.id = inp.id /\ d.blocks = inp.blocks /\ d.rows = inp.rows
        /\ d.manifest = ManifestOf(inp)
    BY SealConstants DEF Draft
  <1>2. d.id \in Ids /\ inp.head.asOf \in Int
    BY <1>1, SealConstants
  <1>3. \A f \in Of("fact", DOMAIN d.rows) : d.rows[f].signals \subseteq Codes
    BY <1>1, SealConstants
  <1>4. CASE inp.how = "staged"
    <2>1. d.manifest = StageManifest(inp)
      BY <1>1, <1>4 DEF ManifestOf
    <2>2. d.manifest.head = inp.head /\ d.manifest.tools = {c.tool : c \in inp.calls}
          /\ d.manifest.series = UNION {c.series : c \in inp.calls}
      BY <2>1 DEF StageManifest
    <2>3. d.manifest.tools \subseteq Tools
      BY <2>2, SealConstants
    <2>4. \A s \in d.manifest.series : (\A x, y \in s.ref : x = y) /\ s.signals \subseteq Codes
      BY <2>2, SealConstants
    <2> QED
      BY <1>1, <1>2, <1>3, <2>2, <2>3, <2>4 DEF DraftTyped
  <1>5. CASE inp.how # "staged"
    <2>1. d.manifest = ManifestOfBlocks(inp, log)
      BY <1>1, <1>5 DEF ManifestOf
    <2>2. d.manifest.head = inp.head /\ d.manifest.tools = UNION {b.tools : b \in inp.blocks}
          /\ d.manifest.series = {}
      BY <2>1 DEF ManifestOfBlocks
    <2>3. d.manifest.tools \subseteq Tools
      BY <2>2, SealConstants
    <2> QED
      BY <1>1, <1>2, <1>3, <2>2, <2>3 DEF DraftTyped
  <1> QED
    BY <1>4, <1>5

(* A step of one request that stores nothing and ends where it holds       *)
(* nothing.                                                                *)
LEMMA RequestMoves ==
  ASSUME SealInv, NEW r \in Requests, DOMAIN request' = Requests,
         \A q \in Requests \ {r} : request'[q] = request[q],
         RequestOK(r)', request'[r].at # "held", TablesOK',
         UNCHANGED <<observed, snapshots>>
  PROVE  SealInv'
  <1>1. \A q \in Requests : RequestOK(q)'
    <2>1. ASSUME NEW q \in Requests \ {r} PROVE RequestOK(q)'
      BY DEF SealInv, RequestOK, LoggedOnce
    <2> QED
      BY <2>1
  <1>2. StoredOK'
    BY DEF SealInv, StoredOK
  <1>3. \A q \in Requests, id \in Ids : Holds(q, id)' => Holds(q, id) /\ q # r
    BY DEF Holds
  <1>4. HeldApart'
    BY <1>3 DEF SealInv, HeldApart
  <1> QED
    BY <1>1, <1>2, <1>4 DEF SealInv

LEMMA GotoGoes ==
  ASSUME SealInv, NEW r \in Requests, request[r].at \in Working, NEW where,
         request' = [request EXCEPT ![r].at = where]
  PROVE  /\ DOMAIN request' = Requests
         /\ \A q \in Requests \ {r} : request'[q] = request[q]
         /\ request'[r].at = where /\ request'[r].draft = request[r].draft
         /\ DOMAIN request'[r] = {"at", "written", "todo", "draft"}
  BY DEF SealInv, RequestOK

LEMMA EndEnds ==
  ASSUME SealInv, NEW r \in Requests, NEW how, End(r, how)
  PROVE  /\ DOMAIN request' = Requests
         /\ \A q \in Requests \ {r} : request'[q] = request[q]
         /\ request'[r].at = how
  BY DEF SealInv, End

(* Every step keeps the invariant and stores, if anything, what was        *)
(* verified and audited.                                                   *)
LEMMA OpenKeeps ==
  ASSUME SealInv, NEW r \in Requests, NEW inp \in InputsOf(r), Open(r, inp)
  PROVE  SealInv'
  <1>1. UNCHANGED <<log, observed, snapshots, failLog, served>> /\ request[r].at = "new"
    BY DEF Open
  <1>2. TablesOK'
    BY <1>1 DEF SealInv, TablesOK, LogPairs
  <1>3. CASE End(r, "failed")
    <2>1. RequestOK(r)'
      BY <1>3, EndEnds DEF RequestOK, Working
    <2> QED
      BY <1>1, <1>2, <1>3, <2>1, EndEnds, RequestMoves
  <1>4. CASE request' = [request EXCEPT ![r] = [at |-> "verify", written |-> {}, todo |-> {},
                                                draft |-> Draft(inp)]]
    <2>1. /\ DOMAIN request' = Requests
          /\ \A q \in Requests \ {r} : request'[q] = request[q]
          /\ request'[r] = [at |-> "verify", written |-> {}, todo |-> {}, draft |-> Draft(inp)]
      BY <1>4 DEF SealInv
    <2>2. request'[r].at = "verify" /\ request'[r].draft = Draft(inp)
          /\ DOMAIN request'[r] = {"at", "written", "todo", "draft"}
      BY <2>1
    <2>3. DraftTyped(Draft(inp)) /\ Draft(inp).blocks = inp.blocks
      BY DraftOfInput
    <2>4. DraftTyped(request[r].draft)'
      BY <2>2, <2>3 DEF DraftTyped
    <2>5. RequestOK(r)'
      BY <2>2, <2>3, <2>4 DEF RequestOK, Working
    <2> QED
      BY <1>1, <1>2, <2>1, <2>2, <2>5, RequestMoves
  <1> QED
    BY <1>3, <1>4 DEF Open

LEMMA VerifyKeeps ==
  ASSUME SealInv, NEW r \in Requests, Verify(r)
  PROVE  SealInv'
  <1> DEFINE found == Failures(request[r].draft)
  <1>1. /\ UNCHANGED <<log, observed, snapshots, failLog, served>> /\ request[r].at = "verify"
        /\ request' = [request EXCEPT ![r].at = IF found = {} THEN "audit" ELSE "record",
                                      ![r].todo = found]
    BY DEF Verify
  <1>2. RequestOK(r) /\ request[r].at \in Working /\ DOMAIN request = Requests
    BY <1>1 DEF SealInv, Working
  <1>3. DOMAIN request[r] = {"at", "written", "todo", "draft"}
    BY <1>2 DEF RequestOK
  <1>4. /\ DOMAIN request' = Requests /\ \A q \in Requests \ {r} : request'[q] = request[q]
        /\ request'[r].at = (IF found = {} THEN "audit" ELSE "record")
        /\ request'[r].draft = request[r].draft
        /\ DOMAIN request'[r] = {"at", "written", "todo", "draft"}
    BY <1>1, <1>2, <1>3
  <1>5. TablesOK'
    BY <1>1 DEF SealInv, TablesOK, LogPairs
  <1>6. RequestOK(r)'
    <2>1. found' = found /\ DraftTyped(request[r].draft)' /\ DraftTyped(request[r].draft)
      BY <1>2, <1>4 DEF RequestOK, DraftTyped
    <2> QED
      BY <1>2, <1>4, <2>1 DEF RequestOK, Working
  <1> QED
    BY <1>1, <1>4, <1>5, <1>6, RequestMoves

LEMMA RecordKeeps ==
  ASSUME SealInv, NEW r \in Requests, Record(r)
  PROVE  SealInv'
  <1>1. PICK f \in request[r].todo :
          /\ request' = [request EXCEPT ![r].todo = @ \ {f}, ![r].written = @ \cup {f}]
          /\ failLog' = IF request[r].draft.inTx THEN failLog ELSE failLog \cup {<<r, f>>}
    BY DEF Record
  <1>2. UNCHANGED <<log, observed, snapshots, served>> /\ request[r].at = "record"
    BY DEF Record
  <1>3. RequestOK(r) /\ request[r].at \in Working /\ DOMAIN request = Requests
    BY <1>2 DEF SealInv, Working
  <1>4. DOMAIN request[r] = {"at", "written", "todo", "draft"}
    BY <1>3 DEF RequestOK
  <1>5. /\ DOMAIN request' = Requests /\ \A q \in Requests \ {r} : request'[q] = request[q]
        /\ request'[r].at = "record" /\ request'[r].draft = request[r].draft
        /\ DOMAIN request'[r] = {"at", "written", "todo", "draft"}
    BY <1>1, <1>2, <1>3, <1>4
  <1>6. TablesOK'
    BY <1>1, <1>2 DEF SealInv, TablesOK, LogPairs
  <1>7. RequestOK(r)'
    <2>1. DraftTyped(request[r].draft)'
      BY <1>3, <1>5 DEF RequestOK, DraftTyped
    <2> QED
      BY <1>3, <1>5, <2>1 DEF RequestOK, Working
  <1> QED
    BY <1>2, <1>5, <1>6, <1>7, RequestMoves

LEMMA LeavesKeep ==
  ASSUME SealInv, NEW r \in Requests, NEW how \in {"sealed", "refused", "failed"}, End(r, how),
         UNCHANGED <<log, observed, snapshots, failLog, served>>
  PROVE  SealInv'
  <1>1. TablesOK'
    BY DEF SealInv, TablesOK, LogPairs
  <1>2. RequestOK(r)'
    BY EndEnds DEF RequestOK, Working
  <1> QED
    BY <1>1, <1>2, EndEnds, RequestMoves

LEMMA AuditKeeps ==
  ASSUME SealInv, NEW r \in Requests, Audit(r)
  PROVE  SealInv'
  <1> DEFINE d == request[r].draft
  <1>1. UNCHANGED <<log, observed, snapshots, failLog, served>> /\ request[r].at = "audit"
    BY DEF Audit
  <1>2. RequestOK(r) /\ request[r].at \in Working /\ DOMAIN request = Requests
    BY <1>1 DEF SealInv, Working
  <1>3. DOMAIN request[r] = {"at", "written", "todo", "draft"}
    BY <1>2 DEF RequestOK
  <1>4. TablesOK'
    BY <1>1 DEF SealInv, TablesOK, LogPairs
  <1>5. CASE AuditOk(d.manifest, log, d.thread)
    <2>1. request' = [request EXCEPT ![r].at = "insert"]
      BY <1>5 DEF Audit, Goto
    <2>2. /\ DOMAIN request' = Requests /\ \A q \in Requests \ {r} : request'[q] = request[q]
          /\ request'[r].at = "insert" /\ request'[r].draft = d
          /\ DOMAIN request'[r] = {"at", "written", "todo", "draft"}
      BY <1>2, <2>1, GotoGoes
    <2>3. LoggedOnce(d.manifest)
      <3>1. d.manifest.tools \subseteq Tools
        BY <1>2 DEF RequestOK, DraftTyped
      <3>2. DOMAIN d.manifest.hashes = d.manifest.tools
        BY <1>5 DEF AuditOk
      <3>3. \A t \in d.manifest.tools : log[t].status = "ok" /\ d.manifest.hashes[t] = log[t].hash
        BY <1>5 DEF AuditOk, Found
      <3>4. \A t \in d.manifest.tools : <<t, log[t].hash>> \in LogPairs(log)
        BY <3>1, <3>3 DEF LogPairs
      <3>5. LogPairs(log) \subseteq observed
        BY DEF SealInv, TablesOK
      <3> QED
        BY <3>2, <3>3, <3>4, <3>5 DEF LoggedOnce
    <2>4. Failures(d) = {} /\ DraftTyped(d) /\ \E inp \in InputsOf(r) : d.blocks = inp.blocks
      BY <1>1, <1>2 DEF RequestOK
    <2>5. Failures(request[r].draft)' = {} /\ DraftTyped(request[r].draft)'
          /\ LoggedOnce(request[r].draft.manifest)'
      BY <1>1, <2>2, <2>3, <2>4 DEF DraftTyped, LoggedOnce
    <2>6. RequestOK(r)'
      BY <2>2, <2>4, <2>5 DEF RequestOK, Working
    <2> QED
      BY <1>1, <1>4, <2>2, <2>6, RequestMoves
  <1>6. CASE ~AuditOk(d.manifest, log, d.thread)
    <2>1. PICK f : request' = [request EXCEPT ![r].at = "record", ![r].todo = {f}]
      BY <1>6 DEF Audit
    <2>2. /\ DOMAIN request' = Requests /\ \A q \in Requests \ {r} : request'[q] = request[q]
          /\ request'[r].at = "record" /\ request'[r].draft = d
          /\ DOMAIN request'[r] = {"at", "written", "todo", "draft"}
      BY <1>2, <1>3, <2>1
    <2>3. DraftTyped(request[r].draft)'
      BY <1>2, <2>2 DEF RequestOK, DraftTyped
    <2>4. RequestOK(r)'
      BY <1>2, <2>2, <2>3 DEF RequestOK, Working
    <2> QED
      BY <1>1, <1>4, <2>2, <2>4, RequestMoves
  <1> QED
    BY <1>5, <1>6

(* What a request stores once it is past the audit and no transaction      *)
(* holds the id.                                                           *)
LEMMA StoringKeeps ==
  ASSUME SealInv, NEW r \in Requests, request[r].at \in {"insert", "held"},
         snapshots[request[r].draft.id] = {},
         \A q \in Requests \ {r} : ~Holds(q, request[r].draft.id),
         snapshots' = [snapshots EXCEPT ![request[r].draft.id] = {Artifact(request[r].draft)}],
         End(r, "sealed"), UNCHANGED <<log, observed, failLog, served>>
  PROVE  SealInv' /\ Stores
  <1> DEFINE d == request[r].draft
  <1>1. RequestOK(r) /\ DraftTyped(d) /\ LoggedOnce(d.manifest) /\ d.id \in Ids
    BY DEF SealInv, RequestOK, Working, DraftTyped
  <1>2. /\ DOMAIN snapshots' = Ids /\ snapshots'[d.id] = {Artifact(d)}
        /\ \A id \in Ids \ {d.id} : snapshots'[id] = snapshots[id]
    BY <1>1 DEF SealInv, StoredOK
  <1>3. /\ DOMAIN request' = Requests /\ request'[r].at = "sealed"
        /\ \A q \in Requests \ {r} : request'[q] = request[q]
    BY EndEnds
  <1>4. \A q \in Requests : RequestOK(q)'
    <2>1. RequestOK(r)'
      BY <1>3 DEF RequestOK, Working
    <2>2. ASSUME NEW q \in Requests \ {r} PROVE RequestOK(q)'
      BY <1>3 DEF SealInv, RequestOK, LoggedOnce
    <2> QED
      BY <2>1, <2>2
  <1>5. TablesOK'
    BY DEF SealInv, TablesOK, LogPairs
  <1>6. StoredOK'
    <2>1. Artifact(d).manifest = d.manifest /\ Artifact(d).observed = observed
      BY DEF Artifact
    <2>2. /\ DOMAIN Artifact(d).manifest.hashes = Artifact(d).manifest.tools
          /\ Artifact(d).observed \subseteq observed /\ Artifact(d).manifest.head.asOf \in Int
      BY <1>1, <2>1 DEF LoggedOnce, DraftTyped
    <2> QED
      BY <1>2, <2>2 DEF SealInv, StoredOK
  <1>7. HeldApart'
    <2>1. \A q \in Requests, id \in Ids : Holds(q, id)' => Holds(q, id) /\ q # r
      BY <1>3 DEF Holds
    <2>2. \A q \in Requests, id \in Ids : Holds(q, id)' => id # d.id
      BY <2>1
    <2> QED
      BY <1>2, <2>1, <2>2 DEF SealInv, HeldApart
  <1>8. Stores
    BY DEF Stores
  <1> QED
    BY <1>3, <1>4, <1>5, <1>6, <1>7, <1>8 DEF SealInv

LEMMA InsertKeeps ==
  ASSUME SealInv, NEW r \in Requests, Insert(r)
  PROVE  SealInv' /\ (UNCHANGED snapshots \/ Stores) /\ UNCHANGED served
  <1> DEFINE d == request[r].draft
  <1>1. /\ request[r].at = "insert" /\ HeldBy(d.id) = {}
        /\ UNCHANGED <<log, observed, failLog, served>>
    BY DEF Insert
  <1>2. \A q \in Requests : ~Holds(q, d.id)
    BY <1>1 DEF HeldBy, Holds
  <1>3. CASE End(r, "failed") /\ UNCHANGED snapshots
    BY <1>1, <1>3, LeavesKeep
  <1>4. CASE snapshots[d.id] = {} /\ snapshots' = [snapshots EXCEPT ![d.id] = {Artifact(d)}]
             /\ End(r, "sealed")
    BY <1>1, <1>2, <1>4, StoringKeeps
  <1>5. CASE snapshots[d.id] = {} /\ Goto(r, "held") /\ UNCHANGED snapshots
    <2>1. RequestOK(r) /\ request[r].at \in Working
      BY <1>1 DEF SealInv, Working
    <2>2. /\ DOMAIN request' = Requests /\ \A q \in Requests \ {r} : request'[q] = request[q]
          /\ request'[r].at = "held" /\ request'[r].draft = d
          /\ DOMAIN request'[r] = {"at", "written", "todo", "draft"}
      BY <1>5, <2>1, GotoGoes DEF Goto
    <2>3. /\ DraftTyped(d) /\ Failures(d) = {} /\ LoggedOnce(d.manifest)
          /\ \E inp \in InputsOf(r) : d.blocks = inp.blocks
      BY <1>1, <2>1 DEF RequestOK
    <2>4. /\ DraftTyped(request[r].draft)' /\ Failures(request[r].draft)' = {}
          /\ LoggedOnce(request[r].draft.manifest)'
      BY <1>1, <2>2, <2>3 DEF DraftTyped, LoggedOnce
    <2>5. RequestOK(r)'
      BY <2>2, <2>3, <2>4 DEF RequestOK, Working
    <2>6. \A q \in Requests : RequestOK(q)'
      <3>1. ASSUME NEW q \in Requests \ {r} PROVE RequestOK(q)'
        BY <1>1, <2>2 DEF SealInv, RequestOK, LoggedOnce
      <3> QED
        BY <2>5, <3>1
    <2>7. TablesOK' /\ StoredOK'
      BY <1>1, <1>5 DEF SealInv, TablesOK, StoredOK, LogPairs
    <2>8. \A q \in Requests, id \in Ids : Holds(q, id)' => (q = r /\ id = d.id) \/ (q # r /\ Holds(q, id))
      BY <2>2 DEF Holds
    <2>9. HeldApart'
      BY <1>2, <1>5, <2>8 DEF SealInv, HeldApart
    <2> QED
      BY <1>1, <1>5, <2>2, <2>6, <2>7, <2>9 DEF SealInv
  <1> QED
    BY <1>1, <1>3, <1>4, <1>5 DEF Insert

LEMMA CommitTxKeeps ==
  ASSUME SealInv, NEW r \in Requests, CommitTx(r)
  PROVE  SealInv' /\ Stores /\ UNCHANGED served
  <1>1. RequestOK(r) /\ request[r].at = "held"
    BY DEF SealInv, CommitTx
  <1>2. request[r].draft.id \in Ids
    BY <1>1 DEF RequestOK, Working, DraftTyped
  <1>3. Holds(r, request[r].draft.id)
    BY <1>1 DEF Holds
  <1>4. snapshots[request[r].draft.id] = {}
        /\ \A q \in Requests \ {r} : ~Holds(q, request[r].draft.id)
    BY <1>2, <1>3 DEF SealInv, HeldApart
  <1> QED
    BY <1>1, <1>4, StoringKeeps DEF CommitTx

LEMMA LogCallKeeps ==
  ASSUME SealInv, NEW t \in Tools, NEW row \in LogRows, LogCall(t, row)
  PROVE  SealInv'
  <1>1. /\ log' = [log EXCEPT ![t] = row] /\ observed' = observed \cup LogPairs(log')
        /\ UNCHANGED <<request, snapshots, failLog, served>>
    BY DEF LogCall
  <1>2. TablesOK'
    BY <1>1 DEF SealInv, TablesOK
  <1>3. \A r \in Requests : RequestOK(r)'
    BY <1>1 DEF SealInv, RequestOK, LoggedOnce
  <1>4. StoredOK' /\ HeldApart'
    BY <1>1 DEF SealInv, StoredOK, HeldApart, Holds
  <1> QED
    BY <1>1, <1>2, <1>3, <1>4 DEF SealInv

(* What is served, the snapshot answers.                                   *)
LEMMA TransformKeeps ==
  ASSUME SealInv, NEW id \in Ids, NEW q \in Queries, Transform(id, q)
  PROVE  SealInv' /\ UNCHANGED snapshots /\ (UNCHANGED served \/ Store!Serve(id))
  <1>1. PICK a \in snapshots[id] : Boundary(a.manifest, q) = "ok"
    BY DEF Transform
  <1>2. /\ served' = served \cup {<<id, q>>}
        /\ UNCHANGED <<request, log, observed, failLog, snapshots>>
    BY DEF Transform
  <1>3. SealInv'
    <2>1. \A x \in served' : x[1] \in Ids /\ x[2] \in Queries
      BY <1>2 DEF SealInv, TablesOK
    <2>2. TablesOK'
      BY <1>2, <2>1 DEF SealInv, TablesOK, LogPairs
    <2>3. StoredOK' /\ HeldApart'
      BY <1>2 DEF SealInv, StoredOK, HeldApart, Holds
    <2>4. \A r \in Requests : RequestOK(r)'
      BY <1>2 DEF SealInv, RequestOK, LoggedOnce
    <2> QED
      BY <1>2, <2>2, <2>3, <2>4 DEF SealInv
  <1>4. Store!Answers(a.manifest, q)
    <2>1. a.manifest.head.asOf \in Int /\ q.end \in Int
      BY SealConstants DEF SealInv, StoredOK
    <2>2. /\ q.basis = a.manifest.head.basis /\ q.normalization = a.manifest.head.normalization
          /\ SameSubjects(a.manifest, q) /\ ~(q.end > a.manifest.head.asOf)
      BY <1>1 DEF Boundary
    <2> QED
      BY <2>1, <2>2 DEF Store!Answers, SameSubjects
  <1>5. CASE <<id, q>> \in served
    BY <1>2, <1>3, <1>5
  <1>6. CASE <<id, q>> \notin served
    <2>1. q \in {x[2] : x \in served' \ served}
      BY <1>2, <1>6
    <2>2. Store!Serve(id)
      BY <1>1, <1>2, <1>4, <2>1 DEF Store!Serve
    <2> QED
      BY <1>2, <1>3, <2>2
  <1> QED
    BY <1>5, <1>6

LEMMA SealStepKeeps ==
  SealInv /\ [SealNext]_sealVars =>
    /\ SealInv'
    /\ \/ UNCHANGED <<snapshots, served>>
       \/ Stores /\ UNCHANGED served
       \/ \E id \in Ids : Store!Serve(id)
  <1> SUFFICES ASSUME SealInv, [SealNext]_sealVars
               PROVE  /\ SealInv'
                      /\ \/ UNCHANGED <<snapshots, served>>
                         \/ Stores /\ UNCHANGED served
                         \/ \E id \in Ids : Store!Serve(id)
    OBVIOUS
  <1>1. CASE UNCHANGED sealVars
    <2>1. UNCHANGED <<request, log, observed, snapshots, failLog, served>>
      BY <1>1 DEF sealVars
    <2>2. TablesOK' /\ StoredOK' /\ HeldApart'
      BY <2>1 DEF SealInv, TablesOK, StoredOK, HeldApart, Holds, LogPairs
    <2>3. \A r \in Requests : RequestOK(r)'
      BY <2>1 DEF SealInv, RequestOK, LoggedOnce
    <2> QED
      BY <2>1, <2>2, <2>3 DEF SealInv
  <1>2. ASSUME NEW r \in Requests, SealStep(r) \/ LoseSeal(r)
        PROVE  SealInv' /\ (UNCHANGED snapshots \/ Stores) /\ UNCHANGED served
    <2>1. CASE Verify(r)
      BY <2>1, VerifyKeeps DEF Verify
    <2>2. CASE Record(r)
      BY <2>2, RecordKeeps DEF Record
    <2>3. CASE Refuse(r)
      BY <2>3, LeavesKeep DEF Refuse
    <2>4. CASE Audit(r)
      BY <2>4, AuditKeeps DEF Audit
    <2>5. CASE Insert(r)
      BY <2>5, InsertKeeps
    <2>6. CASE CommitTx(r)
      BY <2>6, CommitTxKeeps
    <2>7. CASE LoseSeal(r)
      BY <2>7, LeavesKeep DEF LoseSeal
    <2> QED
      BY <1>2, <2>1, <2>2, <2>3, <2>4, <2>5, <2>6, <2>7 DEF SealStep
  <1>3. ASSUME NEW r \in Requests, NEW inp \in InputsOf(r), Open(r, inp)
        PROVE  SealInv' /\ UNCHANGED <<snapshots, served>>
    BY <1>3, OpenKeeps DEF Open
  <1>4. ASSUME NEW t \in Tools, NEW row \in LogRows, LogCall(t, row)
        PROVE  SealInv' /\ UNCHANGED <<snapshots, served>>
    BY <1>4, LogCallKeeps DEF LogCall
  <1>5. ASSUME NEW id \in Ids, NEW q \in Queries, Transform(id, q)
        PROVE  SealInv' /\ UNCHANGED snapshots /\ (UNCHANGED served \/ Store!Serve(id))
    BY <1>5, TransformKeeps
  <1> QED
    BY <1>1, <1>2, <1>3, <1>4, <1>5 DEF SealNext

(* What is stored was verified, so it is closed, and audited, so each call *)
(* it cites was observed.                                                  *)
LEMMA StoringIsKeeping ==
  ASSUME FieldsAreRead, SealInv, Stores, UNCHANGED served
  PROVE  \E id \in Ids : /\ Store!Keep(id)
                         /\ \A a \in snapshots'[id] : Store!Closed(a)
                         /\ \A other \in Ids \ {id} : snapshots'[other] = snapshots[other]
  <1>1. PICK r \in Requests :
          /\ request[r].at \in {"insert", "held"} /\ snapshots[request[r].draft.id] = {}
          /\ snapshots' = [snapshots EXCEPT ![request[r].draft.id] = {Artifact(request[r].draft)}]
    BY DEF Stores
  <1> DEFINE d == request[r].draft
  <1>2. /\ DraftTyped(d) /\ Failures(d) = {} /\ LoggedOnce(d.manifest)
        /\ \E inp \in InputsOf(r) : d.blocks = inp.blocks
    BY <1>1 DEF SealInv, RequestOK, Working
  <1>3. d.id \in Ids
    BY <1>2 DEF DraftTyped
  <1>4. ReadOf(d.blocks)
    BY <1>2 DEF FieldsAreRead
  <1>5. Store!Closed(Artifact(d))
    BY <1>2, <1>4, VerifiedIsClosed
  <1>6. Store!Observed(Artifact(d))
    BY <1>2 DEF Store!Observed, Artifact, LoggedOnce
  <1>7. /\ snapshots'[d.id] = {Artifact(d)}
        /\ \A other \in Ids \ {d.id} : snapshots'[other] = snapshots[other]
    BY <1>1, <1>3 DEF SealInv, StoredOK
  <1>8. Store!Keep(d.id)
    BY <1>1, <1>5, <1>6, <1>7 DEF Store!Keep
  <1> QED
    BY <1>3, <1>5, <1>7, <1>8

LEMMA SealInvariance == SealSpec => []SealInv
  BY SealInitially, SealStepKeeps, PTL DEF SealSpec

(* The tables and the requests keep their types, a stored manifest has a   *)
(* hash for each of its calls, and a failure is logged of a request.       *)
THEOREM SealTypeCorrect == SealSpec => []SealTypeOK
  <1>1. SealInv => SealTypeOK
    BY DEF SealInv, RequestOK, Working, TablesOK, StoredOK, SealTypeOK
  <1> QED
    BY <1>1, SealInvariance, PTL

(* For blocks that show nodes in fields the verifier reads, the sealing    *)
(* path implements the store: whatever is asked, logged again or lost in   *)
(* between, what is stored is closed and observed, is never replaced, and  *)
(* serves only what it holds (snapshot-sealer.ts, snapshot-verifier.ts,    *)
(* manifest-staging.ts, snapshot-transform.ts).                            *)
THEOREM SealsAsPromised == FieldsAreRead => (SealSpec => ImplementsStore)
  <1> SUFFICES ASSUME FieldsAreRead
               PROVE  SealSpec => ImplementsStore
    OBVIOUS
  <1>1. SealInit => Store!StoreInit
    BY DEF SealInit, Store!StoreInit
  <1>2. SealInv /\ [SealNext]_sealVars => [Store!StoreNext]_(Store!storeVars)
    <2> SUFFICES ASSUME SealInv, [SealNext]_sealVars
                 PROVE  [Store!StoreNext]_(Store!storeVars)
      OBVIOUS
    <2>1. DOMAIN snapshots = Ids
      BY DEF SealInv, StoredOK
    <2>2. CASE UNCHANGED <<snapshots, served>>
      BY <2>2 DEF Store!storeVars
    <2>3. CASE Stores /\ UNCHANGED served
      BY <2>1, <2>3, StoringIsKeeping DEF Store!StoreNext
    <2>4. CASE \E id \in Ids : Store!Serve(id)
      BY <2>1, <2>4 DEF Store!StoreNext
    <2> QED
      BY <2>2, <2>3, <2>4, SealStepKeeps
  <1> QED
    BY <1>1, <1>2, SealInvariance, PTL DEF SealSpec, ImplementsStore, Store!StoreSpec

(* Every node that a stored snapshot shows in a field the verifier reads   *)
(* is held by its manifest (snapshot-verifier.ts).                         *)
THEOREM ShownIsKept == FieldsAreRead => (SealSpec => []ShownIsHeld)
  <1> SUFFICES ASSUME FieldsAreRead
               PROVE  SealSpec => []ShownIsHeld
    OBVIOUS
  <1> DEFINE AllClosed == \A id \in Ids : \A a \in snapshots[id] : Store!Closed(a)
  <1>1. SealInit => AllClosed
    BY DEF SealInit
  <1>2. SealInv /\ AllClosed /\ [SealNext]_sealVars => AllClosed'
    <2> SUFFICES ASSUME SealInv, AllClosed, [SealNext]_sealVars
                 PROVE  AllClosed'
      OBVIOUS
    <2>1. CASE UNCHANGED snapshots
      BY <2>1
    <2>2. CASE Stores /\ UNCHANGED served
      <3>1. PICK id \in Ids : /\ \A a \in snapshots'[id] : Store!Closed(a)
                              /\ \A other \in Ids \ {id} : snapshots'[other] = snapshots[other]
        BY <2>2, StoringIsKeeping
      <3> QED
        BY <3>1
    <2>3. CASE \E id \in Ids : Store!Serve(id)
      BY <2>3 DEF Store!Serve
    <2> QED
      BY <2>1, <2>2, <2>3, SealStepKeeps
  <1>3. AllClosed => ShownIsHeld
    <2> SUFFICES ASSUME NEW id \in Ids, NEW a \in snapshots[id], Store!Closed(a),
                        NEW b \in Store!AllBlocks(a), NEW n \in Store!Nodes(b)
                 PROVE  n \in a.manifest.refs \cup a.manifest.sources
      BY DEF ShownIsHeld
    <2>1. Store!Traced(a, b, n) /\ b.sources \subseteq a.manifest.sources
      BY DEF Store!Closed
    <2> QED
      BY <2>1 DEF Store!Traced
  <1> QED
    BY <1>1, <1>2, <1>3, SealInvariance, PTL DEF SealSpec

-----------------------------------------------------------------------------
(***************************************************************************)
(* Evidence.  The claims of a page are written by the transaction that     *)
(* inserts its asset and by nothing else.                                  *)
(***************************************************************************)
AssetsOf(p) == {a \in assets : <<a.issuer, a.url>> = p}

LEMMA PersistExtracts ==
  ASSUME ExtractedOnce, NEW w \in Ingesters, PersistCandidate(w)
  PROVE  ExtractedOnce'
  <1>1. CASE UNCHANGED <<assets, claimed>>
    BY <1>1 DEF ExtractedOnce
  <1>2. CASE ~UNCHANGED <<assets, claimed>>
    <2>1. PICK issuer, url, doc :
            /\ ~AssetConflict(issuer, url, doc)
            /\ assets' = assets \cup {[issuer |-> issuer, url |-> url, doc |-> doc]}
            /\ claimed' = [claimed EXCEPT ![<<issuer, url>>] = @ + 1]
      BY <1>2 DEF PersistCandidate, ingestTables
    <2> DEFINE new == [issuer |-> issuer, url |-> url, doc |-> doc]
    <2>2. DOMAIN claimed' = DOMAIN claimed
      BY <2>1
    <2>3. ASSUME NEW p \in DOMAIN claimed, p = <<issuer, url>>
          PROVE  claimed'[p] = Cardinality(AssetsOf(p)') /\ claimed'[p] <= 1
      <3>1. AssetsOf(p) = {}
        BY <2>1, <2>3 DEF AssetConflict, AssetsOf
      <3>2. AssetsOf(p)' = {new}
        BY <2>1, <2>3, <3>1 DEF AssetsOf
      <3>3. claimed[p] = 0
        BY <3>1, FS_EmptySet DEF ExtractedOnce, AssetsOf
      <3>4. claimed'[p] = 1
        BY <2>1, <2>3, <3>3
      <3>5. Cardinality({new}) = 1
        BY FS_Singleton
      <3> QED
        BY <3>2, <3>4, <3>5
    <2>4. ASSUME NEW p \in DOMAIN claimed, p # <<issuer, url>>
          PROVE  claimed'[p] = Cardinality(AssetsOf(p)') /\ claimed'[p] <= 1
      <3>1. AssetsOf(p)' = AssetsOf(p)
        BY <2>1, <2>4 DEF AssetsOf
      <3>2. claimed'[p] = claimed[p]
        BY <2>1, <2>4
      <3> QED
        BY <3>1, <3>2 DEF ExtractedOnce, AssetsOf
    <2> QED
      BY <2>2, <2>3, <2>4 DEF ExtractedOnce, AssetsOf
  <1> QED
    BY <1>1, <1>2

(* However many crawls of a site run at once, die or are retried, the      *)
(* claims of a page are written once, and only with its asset              *)
(* (issuer-ir-ingest.ts).                                                  *)
THEOREM ClaimsComeOnce == IngestSpec => []ExtractedOnce
  <1>1. IngestInit => ExtractedOnce
    <2> SUFFICES ASSUME IngestInit, NEW p \in DOMAIN claimed
                 PROVE  claimed[p] = Cardinality({a \in assets : <<a.issuer, a.url>> = p})
                        /\ claimed[p] <= 1
      BY DEF ExtractedOnce
    <2>1. claimed[p] = 0 /\ {a \in assets : <<a.issuer, a.url>> = p} = {}
      BY DEF IngestInit
    <2> QED
      BY <2>1, FS_EmptySet
  <1>2. ExtractedOnce /\ [IngestNext]_ingestVars => ExtractedOnce'
    <2> SUFFICES ASSUME ExtractedOnce, [IngestNext]_ingestVars
                 PROVE  ExtractedOnce'
      OBVIOUS
    <2>1. CASE UNCHANGED <<assets, claimed>>
      BY <2>1 DEF ExtractedOnce
    <2>2. CASE UNCHANGED ingestVars
      BY <2>2 DEF ingestVars, ingestTables, ExtractedOnce
    <2>3. ASSUME NEW w \in Ingesters, IngestStep(w)
          PROVE  UNCHANGED <<assets, claimed>> \/ PersistCandidate(w)
      <3>1. CASE StartIngest(w) \/ FetchFirst(w) \/ FetchFails(w) \/ IngestFails(w)
                 \/ NextArticle(w) \/ NextPage(w) \/ FetchPage(w) \/ PersistFails(w)
                 \/ DieInIngest(w)
        BY <3>1 DEF StartIngest, FetchFirst, FetchFails, IngestFails, NextArticle, NextPage,
                    FetchPage, PersistFails, DieInIngest, ingestTables
      <3>2. CASE CreateSource(w) \/ IngestDocument(w) \/ CleanUpSource(w)
                 \/ RouteReaderTools(w) \/ CreateDiscoveryMention(w) \/ ExtractMentions(w)
                 \/ RecordCrawl(w)
        BY <3>2 DEF CreateSource, IngestDocument, CleanUpSource, RouteReaderTools,
                    CreateDiscoveryMention, ExtractMentions, RecordCrawl
      <3> QED
        BY <2>3, <3>1, <3>2 DEF IngestStep
    <2> QED
      BY <2>1, <2>2, <2>3, PersistExtracts DEF IngestNext
  <1> QED
    BY <1>1, <1>2, PTL DEF IngestSpec

-----------------------------------------------------------------------------
(***************************************************************************)
(* The token bucket.  What the bucket holds now, together with what was    *)
(* let through since any earlier request, never exceeds what it holds when *)
(* full and what time, steps of the clock ahead included, has brought since *)
(* then; a caller that sleeps is the first of the chain and wakes when this *)
(* allows one request more.                                                *)
(***************************************************************************)
Since(i) == (Len(granted) - i + 1) * TicksPerToken

BucketTypes ==
  /\ tick \in Int /\ behind \in Nat /\ ahead \in Nat /\ bucket \in Int /\ bucket <= Full /\ refilledAt \in Int
  /\ chain \in Seq(Fetchers) /\ granted \in Seq(Int)
  /\ fetcher \in [Fetchers -> [at : {"idle", "queued", "asleep", "fetching"}, wakes : Int]]

OneSleeps == \A f \in Fetchers : fetcher[f].at = "asleep" => TurnOf(f)

CreditHolds == \A i \in DOMAIN granted : Refilled + Since(i) <= Full + Passed - granted[i]

SleepSuffices ==
  \A f \in Fetchers : fetcher[f].at = "asleep" =>
    \A i \in DOMAIN granted : TicksPerToken + Since(i) <= Full + fetcher[f].wakes + ahead - granted[i]

BucketInv == BucketTypes /\ OneSleeps /\ CreditHolds /\ SleepSuffices /\ GrantsWithinRefill

LEMMA FullHoldsOne == Full \in Int /\ TicksPerToken \in Int /\ TicksPerToken <= Full
  BY BucketAssumption DEF Full

LEMMA LeastOfTwo ==
  ASSUME NEW a \in Int, NEW b \in Int
  PROVE  Min({a, b}) = IF a <= b THEN a ELSE b
  BY DEF Min

\* Refilled, without the minimum
RefilledToBounds ==
  /\ Refilled = IF Passed - behind > refilledAt
                THEN IF Full <= bucket + (Passed - behind) - refilledAt THEN Full
                     ELSE bucket + (Passed - behind) - refilledAt
                ELSE bucket
  /\ Refilled \in Int /\ Refilled <= Full /\ bucket <= Refilled

LEMMA RefilledIs == BucketTypes => RefilledToBounds
  <1> SUFFICES ASSUME BucketTypes PROVE RefilledToBounds
    OBVIOUS
  <1>1. bucket + Now - refilledAt \in Int /\ Full \in Int
    BY FullHoldsOne DEF BucketTypes, Now, Passed
  <1>2. Min({Full, bucket + Now - refilledAt}) =
          IF Full <= bucket + Now - refilledAt THEN Full ELSE bucket + Now - refilledAt
    BY <1>1, LeastOfTwo
  <1> QED
    BY <1>1, <1>2 DEF BucketTypes, Refilled, Now, Passed, RefilledToBounds

LEMMA RefilledNext == BucketTypes' => RefilledToBounds'
  BY RefilledIs, PTL

LEMMA BucketInitially == SecInit => BucketInv
  <1> SUFFICES ASSUME SecInit PROVE BucketInv
    OBVIOUS
  <1> USE DEF SecInit
  <1>1. BucketTypes
    BY FullHoldsOne DEF BucketTypes
  <1>2. OneSleeps /\ SleepSuffices
    BY DEF OneSleeps, SleepSuffices
  <1>3. CreditHolds /\ GrantsWithinRefill
    BY DEF CreditHolds, GrantsWithinRefill
  <1> QED
    BY <1>1, <1>2, <1>3 DEF BucketInv

(* The clocks move: the bucket gains no more than the time that passed.    *)
LEMMA ClocksKeep ==
  ASSUME BucketInv, SecTick \/ SetClockBack \/ StepClockAhead
  PROVE  BucketInv'
  <1>1. /\ UNCHANGED <<bucket, refilledAt, chain, fetcher, granted>>
        /\ \/ tick' = tick + 1 /\ behind' = behind /\ ahead' = ahead
           \/ tick' = tick /\ behind = 0 /\ behind' = SetBack /\ ahead' = ahead
           \/ tick' = tick /\ behind' = behind /\ ahead = 0 /\ ahead' = StepAhead
    BY DEF SecTick, SetClockBack, StepClockAhead
  <1>2. Full' = Full /\ Full \in Int /\ SetBack \in Nat /\ StepAhead \in Nat
    BY FullHoldsOne, BucketAssumption DEF Full
  <1>3. BucketTypes'
    BY <1>1, <1>2 DEF BucketInv, BucketTypes
  <1>4. Refilled \in Int /\ Refilled' \in Int /\ Refilled' - Refilled <= Passed' - Passed
    <2>1. BucketTypes
      BY DEF BucketInv
    <2>2. /\ Refilled = IF Passed - behind > refilledAt
                        THEN IF Full <= bucket + (Passed - behind) - refilledAt THEN Full
                             ELSE bucket + (Passed - behind) - refilledAt
                        ELSE bucket
      BY <2>1, RefilledIs DEF RefilledToBounds
    <2>3. /\ Refilled' = IF Passed' - behind' > refilledAt'
                         THEN IF Full' <= bucket' + (Passed' - behind') - refilledAt' THEN Full'
                              ELSE bucket' + (Passed' - behind') - refilledAt'
                         ELSE bucket'
      BY <1>3, RefilledNext DEF RefilledToBounds
    <2>4. /\ bucket' = bucket /\ refilledAt' = refilledAt /\ Full' = Full
          /\ bucket \in Int /\ refilledAt \in Int /\ bucket <= Full
      BY <1>1, <1>2, <2>1 DEF BucketTypes
    <2> QED
      <3>1. ASSUME NEW full \in Int, NEW b \in Int, NEW at \in Int, NEW w \in Int, NEW v \in Int,
                   NEW d \in Int, 0 <= d, v - w <= d, b <= full
            PROVE  (IF v > at THEN IF full <= b + v - at THEN full ELSE b + v - at ELSE b)
                   - (IF w > at THEN IF full <= b + w - at THEN full ELSE b + w - at ELSE b) <= d
        BY <3>1
      <3> DEFINE w == Passed - behind
                 v == Passed' - behind'
                 d == Passed' - Passed
      <3>2. w \in Int /\ v \in Int /\ d \in Int /\ 0 <= d /\ v - w <= d
        BY <1>1, <1>2, <2>1 DEF BucketTypes, Passed
      <3>3. Refilled = IF w > refilledAt THEN IF Full <= bucket + w - refilledAt THEN Full
                                              ELSE bucket + w - refilledAt
                       ELSE bucket
        BY <2>2
      <3>4. Refilled' = IF v > refilledAt THEN IF Full <= bucket + v - refilledAt THEN Full
                                               ELSE bucket + v - refilledAt
                        ELSE bucket
        BY <2>3, <2>4
      <3> HIDE DEF w, v
      <3>5. Refilled' - Refilled <= d
        <4> HIDE DEF d
        <4> QED
          BY <1>2, <2>4, <3>1, <3>2, <3>3, <3>4
      <3>6. Refilled \in Int /\ Refilled' \in Int
        BY <1>2, <2>4, <3>2, <3>3, <3>4
      <3> QED
        BY <3>5, <3>6
  <1>5. \A i \in DOMAIN granted : Since(i) \in Int /\ granted[i] \in Int /\ Since(i)' = Since(i)
    BY <1>1, FullHoldsOne DEF BucketInv, BucketTypes, Since
  <1>6. CreditHolds'
    <2> SUFFICES ASSUME NEW i \in DOMAIN granted
                 PROVE  Refilled' + Since(i) <= Full + Passed' - granted[i]
      BY <1>1, <1>2, <1>5 DEF CreditHolds
    <2>1. Refilled + Since(i) <= Full + Passed - granted[i]
      BY DEF BucketInv, CreditHolds
    <2>2. Passed \in Int /\ Passed' \in Int
      BY <1>3 DEF BucketInv, BucketTypes, Passed
    <2>3. Since(i) \in Int /\ granted[i] \in Int /\ Full \in Int
      BY <1>2, <1>5
    <2>4. Refilled \in Int /\ Refilled' \in Int /\ Refilled' - Refilled <= Passed' - Passed
      BY <1>4
    <2>5. ASSUME NEW a \in Int, NEW b \in Int, NEW s \in Int, NEW c \in Int, NEW t \in Int,
                 NEW u \in Int, NEW g \in Int, a + s <= c + t - g, b - a <= u - t
          PROVE  b + s <= c + u - g
      BY <2>5
    <2> QED
      BY <2>1, <2>2, <2>3, <2>4, <2>5
  <1>7. OneSleeps' /\ SleepSuffices'
    <2>1. OneSleeps'
      BY <1>1 DEF BucketInv, OneSleeps, TurnOf
    <2>2. ahead \in Int /\ ahead' \in Int /\ ahead <= ahead'
      BY <1>1, <1>2 DEF BucketInv, BucketTypes
    <2> SUFFICES ASSUME NEW f \in Fetchers, fetcher[f].at = "asleep", NEW i \in DOMAIN granted
                 PROVE  TicksPerToken + Since(i) <= Full + fetcher[f].wakes + ahead' - granted[i]
      BY <1>1, <1>2, <1>5, <2>1 DEF SleepSuffices
    <2>3. TicksPerToken + Since(i) <= Full + fetcher[f].wakes + ahead - granted[i]
      BY DEF BucketInv, SleepSuffices
    <2>4. fetcher[f].wakes \in Int
      BY DEF BucketInv, BucketTypes
    <2> QED
      BY <1>2, <1>5, <2>2, <2>3, <2>4, FullHoldsOne
  <1>8. GrantsWithinRefill'
    BY <1>1, <1>2 DEF BucketInv, GrantsWithinRefill
  <1> QED
    BY <1>3, <1>6, <1>7, <1>8 DEF BucketInv

(* What does not grant, and leaves the clocks: the bucket may be refilled  *)
(* on the way.                                                             *)
LEMMA WaitingKeeps ==
  ASSUME BucketInv, UNCHANGED <<tick, behind, ahead, granted>>, BucketTypes', Refilled' = Refilled,
         OneSleeps', SleepSuffices'
  PROVE  BucketInv'
  <1>1. \A i : Since(i)' = Since(i)
    BY DEF Since
  <1>2. CreditHolds'
    BY <1>1 DEF BucketInv, CreditHolds, Full, Passed
  <1>3. GrantsWithinRefill'
    BY DEF BucketInv, GrantsWithinRefill, Full
  <1> QED
    BY <1>2, <1>3 DEF BucketInv

LEMMA AcquireKeeps ==
  ASSUME BucketInv, NEW f \in Fetchers, Acquire(f)
  PROVE  BucketInv'
  <1>1. /\ chain' = Append(chain, f) /\ fetcher' = [fetcher EXCEPT ![f].at = "queued"]
        /\ UNCHANGED <<tick, behind, ahead, bucket, refilledAt, granted>>
    BY DEF Acquire
  <1>2. fetcher' \in [Fetchers -> [at : {"idle", "queued", "asleep", "fetching"}, wakes : Int]]
    BY <1>1 DEF BucketInv, BucketTypes
  <1>3. chain' \in Seq(Fetchers) /\ chain' # <<>> /\ (chain # <<>> => Head(chain') = Head(chain))
    BY <1>1 DEF BucketInv, BucketTypes
  <1>4. BucketTypes'
    BY <1>1, <1>2, <1>3 DEF BucketInv, BucketTypes, Full
  <1>5. \A g \in Fetchers : fetcher'[g].at = "asleep" => fetcher'[g] = fetcher[g]
    BY <1>1 DEF BucketInv, BucketTypes
  <1>6. OneSleeps'
    BY <1>3, <1>5 DEF BucketInv, OneSleeps, TurnOf
  <1>7. SleepSuffices'
    BY <1>1, <1>5 DEF BucketInv, SleepSuffices, Since, Full
  <1> QED
    BY <1>1, <1>4, <1>6, <1>7, WaitingKeeps DEF Refilled, Now, Passed, Full

LEMMA FetchEndsKeeps ==
  ASSUME BucketInv, NEW f \in Fetchers, FetchEnds(f)
  PROVE  BucketInv'
  <1>1. /\ fetcher' = [fetcher EXCEPT ![f].at = "idle"]
        /\ UNCHANGED <<tick, behind, ahead, bucket, refilledAt, chain, granted>>
    BY DEF FetchEnds
  <1>2. fetcher' \in [Fetchers -> [at : {"idle", "queued", "asleep", "fetching"}, wakes : Int]]
    BY <1>1 DEF BucketInv, BucketTypes
  <1>3. BucketTypes'
    BY <1>1, <1>2 DEF BucketInv, BucketTypes, Full
  <1>4. \A g \in Fetchers : fetcher'[g].at = "asleep" => fetcher'[g] = fetcher[g]
    BY <1>1 DEF BucketInv, BucketTypes
  <1>5. OneSleeps' /\ SleepSuffices'
    BY <1>1, <1>4 DEF BucketInv, OneSleeps, SleepSuffices, TurnOf, Since, Full
  <1> QED
    BY <1>1, <1>3, <1>5, WaitingKeeps DEF Refilled, Now, Passed, Full

(* A caller falls asleep for as long as the missing part of a token takes. *)
LEMMA SleepKeeps ==
  ASSUME BucketInv, NEW f \in Fetchers, SleepForToken(f)
  PROVE  BucketInv'
  <1> DEFINE row == [at |-> "asleep", wakes |-> tick + TicksPerToken - Refilled]
  <1>1. /\ TurnOf(f) /\ bucket' = Refilled /\ refilledAt' = RefilledAt
        /\ fetcher' = [fetcher EXCEPT ![f] = row]
        /\ UNCHANGED <<tick, behind, ahead, chain, granted>>
    BY DEF SleepForToken
  <1>2. BucketTypes /\ Refilled \in Int /\ Refilled <= Full
    BY RefilledIs DEF BucketInv, RefilledToBounds
  <1>3. RefilledAt \in Int /\ Now <= RefilledAt
    BY <1>2 DEF BucketTypes, RefilledAt, Now, Passed
  <1>4. row \in [at : {"idle", "queued", "asleep", "fetching"}, wakes : Int]
    BY <1>2, FullHoldsOne DEF BucketTypes
  <1>5. fetcher' \in [Fetchers -> [at : {"idle", "queued", "asleep", "fetching"}, wakes : Int]]
    BY <1>1, <1>2, <1>4 DEF BucketTypes
  <1>6. BucketTypes'
    BY <1>1, <1>2, <1>3, <1>5 DEF BucketTypes, Full
  <1>7. Refilled' = Refilled
    BY <1>1, <1>2, <1>3, <1>6, RefilledNext DEF BucketTypes, Now, Passed, RefilledToBounds
  <1>8. fetcher'[f] = row /\ \A g \in Fetchers \ {f} : fetcher'[g] = fetcher[g]
    BY <1>1, <1>2 DEF BucketTypes
  <1>9. OneSleeps'
    BY <1>1, <1>8 DEF BucketInv, OneSleeps, TurnOf
  <1>10. SleepSuffices'
    <2>1. \A i \in DOMAIN granted : Since(i)' = Since(i) /\ Since(i) \in Int /\ granted[i] \in Int
      BY <1>1, <1>2, FullHoldsOne DEF BucketTypes, Since
    <2>2. ASSUME NEW i \in DOMAIN granted
          PROVE  TicksPerToken + Since(i) <= Full + row.wakes + ahead - granted[i]
      <3>1. Refilled + Since(i) <= Full + Passed - granted[i]
        BY DEF BucketInv, CreditHolds
      <3> QED
        BY <1>2, <2>1, <3>1, FullHoldsOne DEF BucketTypes, Passed
    <2> QED
      BY <1>1, <1>8, <2>1, <2>2 DEF BucketInv, SleepSuffices, Full
  <1> QED
    BY <1>1, <1>6, <1>7, <1>9, <1>10, WaitingKeeps

(* A request is let through: by one who finds a token in the bucket, or by *)
(* one who slept for it.                                                   *)
LEMMA GrantKeeps ==
  ASSUME BucketInv, NEW f \in Fetchers, Grant(f), TurnOf(f), UNCHANGED <<tick, behind, ahead>>,
         \A i \in DOMAIN granted : TicksPerToken + Since(i) <= Full + Passed - granted[i]
  PROVE  BucketInv'
  <1> DEFINE row == [at |-> "fetching", wakes |-> 0]
  <1> PICK n : n = Len(granted)
    OBVIOUS
  <1>1. /\ bucket' = Refilled - TicksPerToken /\ refilledAt' = RefilledAt
        /\ chain' = Tail(chain) /\ granted' = Append(granted, Passed)
        /\ fetcher' = [fetcher EXCEPT ![f] = row]
    BY DEF Grant
  <1>2. BucketTypes /\ Refilled \in Int /\ Refilled <= Full
    BY RefilledIs DEF BucketInv, RefilledToBounds
  <1>3. RefilledAt \in Int /\ Now <= RefilledAt
    BY <1>2 DEF BucketTypes, RefilledAt, Now, Passed
  <1>4. fetcher'[f] = row /\ \A g \in Fetchers \ {f} : fetcher'[g] = fetcher[g]
    BY <1>1, <1>2 DEF BucketTypes
  <1>5. fetcher' \in [Fetchers -> [at : {"idle", "queued", "asleep", "fetching"}, wakes : Int]]
    BY <1>1, <1>2 DEF BucketTypes
  <1>6. chain' \in Seq(Fetchers)
    BY <1>1, <1>2 DEF BucketTypes, TurnOf
  <1>7. /\ granted' \in Seq(Int) /\ Len(granted') = n + 1 /\ n \in Nat
        /\ DOMAIN granted = 1..n /\ DOMAIN granted' = 1..(n + 1)
        /\ granted'[n + 1] = Passed /\ \A i \in 1..n : granted'[i] = granted[i]
    <2>1. Passed \in Int
      BY <1>2 DEF BucketTypes, Passed
    <2> QED
      BY <1>1, <1>2, <2>1 DEF BucketTypes
  <1>8. BucketTypes'
    <2>1. bucket' \in Int /\ bucket' <= Full
      BY <1>1, <1>2, FullHoldsOne, BucketAssumption
    <2> QED
      BY <1>1, <1>2, <1>3, <1>5, <1>6, <1>7, <2>1 DEF BucketTypes, Full
  <1>9. Refilled' = Refilled - TicksPerToken
    BY <1>1, <1>2, <1>3, <1>8, RefilledNext DEF BucketTypes, Now, Passed, RefilledToBounds
  <1>10. \A g \in Fetchers : fetcher'[g].at # "asleep"
    BY <1>4 DEF BucketInv, OneSleeps, TurnOf
  <1>11. /\ \A i \in 1..n : /\ Since(i) \in Int /\ granted[i] \in Int
                            /\ Since(i)' = Since(i) + TicksPerToken
         /\ Since(n + 1)' = TicksPerToken
    <2>1. ASSUME NEW i \in 1..n
          PROVE  Since(i) \in Int /\ granted[i] \in Int /\ Since(i)' = Since(i) + TicksPerToken
      <3>1. Since(i)' = (n + 1 - i + 1) * TicksPerToken
        BY <1>7 DEF Since
      <3>2. Since(i) = (n - i + 1) * TicksPerToken
        BY DEF Since
      <3>3. (n + 1 - i + 1) * TicksPerToken = (n - i + 1) * TicksPerToken + TicksPerToken
        BY <1>7, FullHoldsOne
      <3> QED
        BY <1>2, <1>7, <3>1, <3>2, <3>3, FullHoldsOne DEF BucketTypes
    <2>2. Since(n + 1)' = TicksPerToken
      BY <1>7, FullHoldsOne DEF Since
    <2> QED
      BY <2>1, <2>2
  <1>12. CreditHolds'
    <2>1. ASSUME NEW i \in 1..n
          PROVE  Refilled' + Since(i)' <= Full + Passed - granted[i]
      <3>1. Refilled + Since(i) <= Full + Passed - granted[i]
        BY <1>7 DEF BucketInv, CreditHolds
      <3> QED
        BY <1>2, <1>9, <1>11, <3>1, FullHoldsOne DEF BucketTypes, Passed
    <2>2. Refilled' + Since(n + 1)' <= Full + Passed - Passed
      BY <1>2, <1>9, <1>11, FullHoldsOne DEF BucketTypes, Passed
    <2>3. ASSUME NEW i \in DOMAIN granted'
          PROVE  Refilled' + Since(i)' <= Full' + Passed' - granted'[i]
      <3>1. CASE i \in 1..n
        BY <1>7, <2>1, <3>1 DEF Full, Passed
      <3>2. CASE i = n + 1
        BY <1>7, <2>2, <3>2 DEF Full, Passed
      <3> QED
        BY <1>7, <3>1, <3>2
    <2> QED
      BY <2>3 DEF CreditHolds
  <1>13. GrantsWithinRefill'
    <2> SUFFICES ASSUME NEW i \in DOMAIN granted', NEW j \in DOMAIN granted', i <= j
                 PROVE  (j - i + 1) * TicksPerToken <= Full + granted'[j] - granted'[i]
      BY DEF GrantsWithinRefill, Full
    <2>1. CASE j \in 1..n
      <3>1. i \in 1..n
        BY <1>7, <2>1
      <3> QED
        BY <1>7, <2>1, <3>1 DEF BucketInv, GrantsWithinRefill
    <2>2. CASE j = n + 1 /\ i \in 1..n
      <3>1. TicksPerToken + Since(i) <= Full + Passed - granted[i]
        BY <1>7, <2>2
      <3>2. (j - i + 1) * TicksPerToken = Since(i)'
        BY <1>7, <2>2 DEF Since
      <3>3. (j - i + 1) * TicksPerToken = Since(i) + TicksPerToken
        BY <1>11, <2>2, <3>2
      <3> QED
        BY <1>2, <1>7, <1>11, <2>2, <3>1, <3>3, FullHoldsOne DEF BucketTypes
    <2>3. CASE j = n + 1 /\ i = n + 1
      BY <1>2, <1>7, <2>3, FullHoldsOne DEF BucketTypes
    <2> QED
      BY <1>7, <2>1, <2>2, <2>3
  <1> QED
    BY <1>8, <1>10, <1>12, <1>13 DEF BucketInv, OneSleeps, SleepSuffices

LEMMA TakeTokenKeeps ==
  ASSUME BucketInv, NEW f \in Fetchers, TakeToken(f) \/ WakeAndTake(f)
  PROVE  BucketInv'
  <1>1. BucketTypes /\ Refilled \in Int
    BY RefilledIs DEF BucketInv, RefilledToBounds
  <1>2. \A i \in DOMAIN granted : Since(i) \in Int /\ granted[i] \in Int
    BY <1>1, FullHoldsOne DEF BucketTypes, Since
  <1>3. CASE TakeToken(f)
    <2>1. \A i \in DOMAIN granted : TicksPerToken + Since(i) <= Full + Passed - granted[i]
      BY <1>1, <1>2, <1>3, FullHoldsOne DEF TakeToken, BucketInv, CreditHolds, BucketTypes, Passed
    <2> QED
      BY <1>3, <2>1, GrantKeeps DEF TakeToken
  <1>4. CASE WakeAndTake(f)
    <2>1. fetcher[f].at = "asleep" /\ fetcher[f].wakes <= tick /\ fetcher[f].wakes \in Int
      BY <1>1, <1>4 DEF WakeAndTake, BucketTypes
    <2>2. TurnOf(f)
      BY <2>1 DEF BucketInv, OneSleeps
    <2>3. \A i \in DOMAIN granted : TicksPerToken + Since(i) <= Full + Passed - granted[i]
      BY <1>1, <1>2, <2>1, FullHoldsOne DEF BucketInv, SleepSuffices, BucketTypes, Passed
    <2> QED
      BY <1>4, <2>2, <2>3, GrantKeeps DEF WakeAndTake
  <1> QED
    BY <1>3, <1>4

(* However many callers wait, however late timers fire, and when the wall  *)
(* clock is set back: between any two requests no more were let through    *)
(* than the bucket holds and has been refilled with in between, where a    *)
(* step of that clock ahead counts as time (sec-edgar.ts).                 *)
THEOREM EdgarIsSpared == SecSpec => []GrantsWithinRefill
  <1>1. BucketInv /\ [SecNext]_secVars => BucketInv'
    <2> SUFFICES ASSUME BucketInv, [SecNext]_secVars PROVE BucketInv'
      OBVIOUS
    <2>1. CASE SecTick \/ SetClockBack \/ StepClockAhead
      BY <2>1, ClocksKeep
    <2>2. ASSUME NEW f \in Fetchers,
                 Acquire(f) \/ TakeToken(f) \/ SleepForToken(f) \/ WakeAndTake(f) \/ FetchEnds(f)
          PROVE  BucketInv'
      BY <2>2, AcquireKeeps, TakeTokenKeeps, SleepKeeps, FetchEndsKeeps
    <2>3. CASE UNCHANGED secVars
      BY <2>3 DEF secVars, BucketInv, BucketTypes, OneSleeps, CreditHolds, SleepSuffices,
                  GrantsWithinRefill, Refilled, Now, Passed, Since, Full, TurnOf
    <2> QED
      BY <2>1, <2>2, <2>3 DEF SecNext
  <1>2. BucketInv => GrantsWithinRefill
    BY DEF BucketInv
  <1> QED
    BY <1>1, <1>2, BucketInitially, PTL DEF SecSpec


-----------------------------------------------------------------------------
(* Tools.                                                                  *)

(* Reader tools are dispatched without an interceptor: that none of them   *)
(* writes is up to the registry (finance_research_tool_registry.json).     *)
ReadersOnlyRead ==
  \A r \in Registries : \A t \in ToSet(r.tools) :
    t.audience = "reader" => ~t.approval \/ t.readOnly

AllTools == UNION {ToSet(r.tools) : r \in Registries}
GateTurnRows ==
  [at : {"idle", "call", "execute", "done"}, bundle : {Routes[k] : k \in DOMAIN Routes} \cup {"none"},
   tool : SUBSET AllTools,
   status : {"none", "thrown", "rejected", "pending_approval", "ok", "skipped"}]

Underway(t) == turns[t].at \in {"call", "execute"}

(* A turn is called, and the dispatcher made, within the boundary only; a  *)
(* tool is executed when it was authorized for the analyst in the turn's   *)
(* bundle and needs no approval.                                           *)
GateInv ==
  /\ turns \in [GateTurns -> GateTurnRows]
  /\ \A r \in registry : r \in Registries /\ Parsed(r) /\ registry = {r}
  /\ registry = {} => ~dispatcher /\ executed = {} /\ staged = {} /\ handed = {} /\ \A t \in GateTurns : ~Underway(t)
  /\ \A r \in registry :
       /\ dispatcher => /\ AudienceBoundary(r)
                        /\ Wired = {t.name : t \in {x \in ToSet(r.tools) : x.audience = "reader"}}
       /\ \A t \in GateTurns : Underway(t) =>
            /\ AudienceBoundary(r) /\ turns[t].tool \subseteq ToSet(r.tools)
            /\ \A x, y \in turns[t].tool : x = y
  /\ \A t \in GateTurns : turns[t].at = "execute" =>
       \A tool \in turns[t].tool : tool.audience = "analyst" /\ ~tool.approval /\ turns[t].bundle \in tool.bundles
  /\ GateHolds

LEMMA NamesAreUnique ==
  ASSUME NEW r, Parsed(r), NEW t \in ToSet(r.tools), NEW u \in ToSet(r.tools), t.name = u.name
  PROVE  t = u
  BY DEF Parsed, ToSet

(* What is authorized is authorized for the tool of that name.             *)
LEMMA AuthorizedFor ==
  ASSUME NEW r, Parsed(r), NEW bundle, NEW audience, NEW raw, NEW tool \in ToSet(r.tools),
         Authorization(r, bundle, audience, tool.name, raw) = "ok"
  PROVE  tool.audience = audience /\ bundle \in tool.bundles
  <1> DEFINE chosen == CHOOSE t \in Named(r, tool.name) : TRUE
  <1>1. tool \in Named(r, tool.name)
    BY DEF Named
  <1>2. chosen \in Named(r, tool.name)
    BY <1>1
  <1>3. chosen = tool
    BY <1>2, NamesAreUnique DEF Named
  <1>4. chosen.audience = audience /\ bundle \in chosen.bundles
    <2> HIDE DEF chosen
    <2> QED
      BY <1>1 DEF Authorization, chosen
  <1> QED
    BY <1>3, <1>4

LEMMA ChoiceIsOne ==
  ASSUME NEW r \in Registries, Parsed(r), NEW bundle, NEW preferred
  PROVE  /\ Choice(r, bundle, preferred) \subseteq ToSet(r.tools)
         /\ \A x, y \in Choice(r, bundle, preferred) : x = y
  <1> DEFINE First(places) == {r.tools[i] : i \in {i \in places : \A j \in places : i <= j}}
  <1>1. ASSUME NEW places \in SUBSET Int
        PROVE  \A x, y \in First(places) : x = y
    <2>1. ASSUME NEW i \in places, NEW k \in places,
                 \A j \in places : i <= j, \A j \in places : k <= j
          PROVE  i = k
      <3>1. i \in Int /\ k \in Int /\ i <= k /\ k <= i
        BY <2>1
      <3> QED
        BY <3>1
    <2> QED
      BY <2>1
  <1>2. \A x, y \in Named(r, preferred) : x = y
    BY NamesAreUnique DEF Named
  <1>3. DOMAIN r.tools = 1..Len(r.tools)
    BY RegistriesAssumption
  <1>6. DOMAIN r.tools \subseteq Int
    BY <1>3
  <1>4. Choice(r, bundle, preferred) \subseteq ToSet(r.tools)
    BY DEF Choice, Named, ToSet, ToolsFor
  <1>5. \/ Choice(r, bundle, preferred) = Named(r, preferred)
        \/ \E places \in SUBSET Int : Choice(r, bundle, preferred) = First(places)
    BY <1>6 DEF Choice, ToolsFor
  <1> HIDE DEF First
  <1> QED
    BY <1>1, <1>2, <1>4, <1>5

LEMMA LoadRegistryKeeps ==
  ASSUME GateInv, NEW r \in Registries, LoadRegistry(r)
  PROVE  GateInv'
  <1>1. registry = {} /\ Parsed(r) /\ registry' = {r} /\ r \in Registries
        /\ UNCHANGED <<dispatcher, turns, staged, handed, executed, dispatches>>
    BY DEF LoadRegistry
  <1>2. ~dispatcher /\ executed = {} /\ staged = {} /\ handed = {} /\ \A t \in GateTurns : ~Underway(t)
    BY <1>1 DEF GateInv
  <1>3. GateHolds'
    BY <1>1, <1>2 DEF GateHolds
  <1> QED
    BY <1>1, <1>2, <1>3 DEF GateInv, Underway

LEMMA BeginTurnKeeps ==
  ASSUME GateInv, NEW t \in GateTurns, NEW kind \in DOMAIN Routes, NEW p \in Preferred,
         BeginTurn(t, kind, p)
  PROVE  GateInv'
  <1>1. PICK r \in registry :
          LET bundle == Routes[kind] IN
          turns' = [turns EXCEPT ![t] =
            IF Selected(r, bundle) /\ AudienceBoundary(r) /\ Choice(r, bundle, p) # {}
            THEN [IdleTurn EXCEPT !.at = "call", !.bundle = bundle, !.tool = Choice(r, bundle, p)]
            ELSE [IdleTurn EXCEPT !.at = "done", !.status = "thrown"]]
    BY DEF BeginTurn
  <1>2. PICK row : turns' = [turns EXCEPT ![t] = row] /\ row \in GateTurnRows
                   /\ row.at \in {"call", "done"}
                   /\ (row.at = "call" => /\ AudienceBoundary(r) /\ row.tool \subseteq ToSet(r.tools)
                                       /\ \A x, y \in row.tool : x = y)
    <2> DEFINE bundle == Routes[kind]
               called == [IdleTurn EXCEPT !.at = "call", !.bundle = bundle, !.tool = Choice(r, bundle, p)]
               thrown == [IdleTurn EXCEPT !.at = "done", !.status = "thrown"]
    <2>1. /\ Choice(r, bundle, p) \subseteq ToSet(r.tools) /\ r \in Registries
          /\ \A x, y \in Choice(r, bundle, p) : x = y
      BY ChoiceIsOne DEF GateInv
    <2>2. /\ called \in GateTurnRows /\ called.at = "call" /\ called.tool \subseteq ToSet(r.tools)
          /\ \A x, y \in called.tool : x = y
          /\ thrown \in GateTurnRows /\ thrown.at = "done"
      BY <2>1 DEF GateTurnRows, IdleTurn, AllTools
    <2> HIDE DEF called, thrown
    <2>3. turns' = [turns EXCEPT ![t] =
            IF Selected(r, bundle) /\ AudienceBoundary(r) /\ Choice(r, bundle, p) # {}
            THEN called ELSE thrown]
      BY <1>1 DEF called, thrown
    <2> QED
      BY <2>2, <2>3
  <1>3. turns' \in [GateTurns -> GateTurnRows]
    BY <1>2 DEF GateInv
  <1>4. \A u \in GateTurns : turns'[u] = IF u = t THEN row ELSE turns[u]
    BY <1>2 DEF GateInv
  <1>5. registry = {r} /\ UNCHANGED <<registry, dispatcher, staged, handed, executed>>
    BY DEF GateInv, BeginTurn
  <1> QED
    BY <1>2, <1>3, <1>4, <1>5 DEF GateInv, GateHolds, Underway

(* A turn that ends, or begins anew, leaves nothing under way.             *)
LEMMA RestKeeps ==
  ASSUME GateInv, NEW t \in GateTurns, NEW row \in GateTurnRows, row.at \in {"idle", "done"},
         turns' = [turns EXCEPT ![t] = row], UNCHANGED <<registry, dispatcher>>, GateHolds',
         registry = {} => executed' = {} /\ staged' = {} /\ handed' = {}
  PROVE  GateInv'
  <1>1. turns' \in [GateTurns -> GateTurnRows]
    BY DEF GateInv
  <1>2. \A u \in GateTurns : turns'[u] = IF u = t THEN row ELSE turns[u]
    BY DEF GateInv
  <1> QED
    BY <1>1, <1>2 DEF GateInv, Underway

LEMMA EndedIs ==
  ASSUME GateInv, NEW t \in GateTurns, NEW s \in {"thrown", "rejected", "pending_approval", "ok", "skipped"},
         Ended(t, s)
  PROVE  \E row \in GateTurnRows : row.at = "done" /\ turns' = [turns EXCEPT ![t] = row]
  <1> DEFINE row == [turns[t] EXCEPT !.at = "done", !.status = s]
  <1>1. row \in GateTurnRows /\ row.at = "done"
    BY DEF GateInv, GateTurnRows
  <1>2. turns' = [turns EXCEPT ![t] = row]
    BY DEF Ended, GateInv, GateTurnRows
  <1> QED
    BY <1>1, <1>2

LEMMA CallToolKeeps ==
  ASSUME GateInv, NEW t \in GateTurns, CallTool(t)
  PROVE  GateInv'
  <1>1. PICK r \in registry, tool \in turns[t].tool :
          IF Authorization(r, turns[t].bundle, "analyst", tool.name, FALSE) # "ok"
          THEN Ended(t, "rejected") /\ UNCHANGED staged
          ELSE CASE Intercept(tool) = "throw" -> Ended(t, "thrown") /\ UNCHANGED staged
                 [] Intercept(tool) = "pending_approval" ->
                      /\ staged' = staged \cup {PendingAction(t, tool, turns[t].bundle)}
                      /\ Ended(t, "pending_approval")
                 [] Intercept(tool) = "execute" ->
                      turns' = [turns EXCEPT ![t].at = "execute"] /\ UNCHANGED staged
    BY DEF CallTool
  <1>2. /\ UNCHANGED <<registry, dispatcher, handed, executed>> /\ turns[t].at = "call"
        /\ tool \in ToSet(r.tools) /\ Parsed(r) /\ AudienceBoundary(r) /\ registry = {r}
    BY DEF CallTool, GateInv, Underway
  <1>3. Authorization(r, turns[t].bundle, "analyst", tool.name, FALSE) = "ok" =>
          tool.audience = "analyst" /\ turns[t].bundle \in tool.bundles
    <2>1. ASSUME NEW bundle, NEW raw, Authorization(r, bundle, "analyst", tool.name, raw) = "ok"
          PROVE  tool.audience = "analyst" /\ bundle \in tool.bundles
      <3>1. Parsed(r) /\ tool \in ToSet(r.tools)
        BY <1>2
      <3> QED
        BY <2>1, <3>1, AuthorizedFor
    <2> QED
      BY <2>1
  <1>4. CASE UNCHANGED staged /\ \E s \in {"rejected", "thrown"} : Ended(t, s)
    <2>1. GateHolds'
      BY <1>2, <1>4 DEF GateInv, GateHolds
    <2> QED
      BY <1>2, <1>4, <2>1, EndedIs, RestKeeps
  <1>5. CASE /\ Authorization(r, turns[t].bundle, "analyst", tool.name, FALSE) = "ok"
             /\ Intercept(tool) = "pending_approval" /\ Ended(t, "pending_approval")
             /\ staged' = staged \cup {PendingAction(t, tool, turns[t].bundle)}
    <2> DEFINE p == PendingAction(t, tool, turns[t].bundle)
    <2>1. tool.approval /\ ~tool.readOnly
      BY <1>5 DEF Intercept
    <2>2. tool \in Callable(r, tool.name, "analyst", turns[t].bundle)
      <3>1. tool.audience = "analyst" /\ turns[t].bundle \in tool.bundles
        BY <1>3, <1>5
      <3> QED
        BY <1>2, <3>1 DEF Callable, Named
    <2>3. p[2] = tool.name /\ p[3] = turns[t].bundle
      BY DEF PendingAction
    <2>4. \E u \in Callable(r, p[2], "analyst", p[3]) : u.approval /\ ~u.readOnly
      BY <2>1, <2>2, <2>3
    <2> HIDE DEF p
    <2>5. GateHolds'
      BY <1>2, <1>5, <2>4 DEF GateInv, GateHolds, p
    <2> QED
      BY <1>2, <1>5, <2>5, EndedIs, RestKeeps
  <1>6. CASE /\ Authorization(r, turns[t].bundle, "analyst", tool.name, FALSE) = "ok"
             /\ Intercept(tool) = "execute" /\ turns' = [turns EXCEPT ![t].at = "execute"]
             /\ UNCHANGED staged
    <2>1. GateHolds' /\ UNCHANGED staged
      BY <1>2, <1>6 DEF GateInv, GateHolds
    <2>2. tool.audience = "analyst" /\ ~tool.approval /\ turns[t].bundle \in tool.bundles
      BY <1>3, <1>6 DEF Intercept
    <2>3. \A x \in turns[t].tool : x = tool
      BY <1>2 DEF GateInv, Underway
    <2> DEFINE row == [turns[t] EXCEPT !.at = "execute"]
    <2>4. /\ row \in GateTurnRows /\ row.at = "execute" /\ row.tool = turns[t].tool
          /\ row.bundle = turns[t].bundle
      BY DEF GateInv, GateTurnRows
    <2>5. turns' = [turns EXCEPT ![t] = row]
      BY <1>6 DEF GateInv, GateTurnRows
    <2> HIDE DEF row
    <2>6. turns' \in [GateTurns -> GateTurnRows]
      BY <2>4, <2>5 DEF GateInv
    <2>7. \A u \in GateTurns : turns'[u] = IF u = t THEN row ELSE turns[u]
      BY <2>5 DEF GateInv
    <2> QED
      BY <1>2, <2>1, <2>2, <2>3, <2>4, <2>6, <2>7 DEF GateInv, Underway
  <1> QED
    BY <1>1, <1>4, <1>5, <1>6 DEF Intercept

LEMMA ExecuteKeeps ==
  ASSUME GateInv, NEW t \in GateTurns, Execute(t)
  PROVE  GateInv'
  <1>1. /\ turns[t].at = "execute" /\ UNCHANGED <<registry, dispatcher, staged, dispatches>>
        /\ \E s \in {"ok", "skipped", "thrown"} : Ended(t, s)
    BY DEF Execute
  <1>2. PICK r \in registry : registry = {r} /\ Parsed(r) /\ AudienceBoundary(r)
                              /\ turns[t].tool \subseteq ToSet(r.tools)
    BY <1>1 DEF GateInv, Underway
  <1>3. PICK tool \in turns[t].tool :
          /\ handed' = handed \/ handed' = handed \cup {[to |-> "analyst", tool |-> tool.name]}
          /\ \/ executed' = executed
             \/ executed' = executed \cup {Run(tool.name, "analyst", turns[t].bundle)}
    BY DEF Execute
  <1>4. /\ tool \in Callable(r, tool.name, "analyst", turns[t].bundle) /\ ~tool.approval
        /\ tool \in Named(r, tool.name) /\ tool.audience = "analyst" /\ tool.schema \notin {"raw", "open"}
    BY <1>1, <1>2, <1>3 DEF GateInv, AudienceBoundary, Callable, Named
  <1>5. ASSUME NEW x \in executed'
        PROVE  \E u \in Callable(r, x.tool, x.by, x.bundle) : u.approval => u.readOnly
    BY <1>2, <1>3, <1>4 DEF GateInv, GateHolds, Run
  <1>6. ASSUME NEW h \in handed', h.to = "analyst"
        PROVE  \E u \in Named(r, h.tool) : u.audience = "analyst" /\ u.schema \notin {"raw", "open"}
    BY <1>2, <1>3, <1>4, <1>6 DEF GateInv, GateHolds
  <1>7. GateHolds'
    BY <1>1, <1>2, <1>5, <1>6 DEF GateHolds, GateInv
  <1> QED
    BY <1>1, <1>2, <1>7, EndedIs, RestKeeps

LEMMA RetryTurnKeeps ==
  ASSUME GateInv, NEW t \in GateTurns, RetryTurn(t)
  PROVE  GateInv'
  <1>1. IdleTurn \in GateTurnRows /\ IdleTurn.at = "idle"
    BY DEF IdleTurn, GateTurnRows
  <1>2. /\ turns' = [turns EXCEPT ![t] = IdleTurn] /\ UNCHANGED <<registry, dispatcher>> /\ GateHolds'
        /\ registry = {} => executed' = {} /\ staged' = {} /\ handed' = {}
    BY DEF RetryTurn, GateInv, GateHolds
  <1> QED
    BY <1>1, <1>2, RestKeeps

LEMMA MakeDispatcherKeeps ==
  ASSUME GateInv, NEW q \in registry,
         MakeDispatcher({t.name : t \in {x \in ToSet(q.tools) : x.audience = "reader"}})
  PROVE  GateInv'
  BY DEF GateInv, MakeDispatcher, GateHolds, Underway

LEMMA DispatchKeeps ==
  ASSUME GateInv, ReadersOnlyRead, NEW bundle, NEW audience \in {"analyst", "reader"}, NEW name, NEW args,
         Dispatch(bundle, audience, name, args)
  PROVE  GateInv'
  <1>1. PICK r \in registry :
          /\ Authorization(r, bundle, audience, name, args = "raw") = "ok"
          /\ name \in Wired
          /\ \E outcome \in {"result", "thrown", "misshapen"} :
               handed' = handed \cup Handed(name, audience, outcome)
    BY DEF Dispatch
  <1>2. /\ executed' = executed \cup {Run(name, audience, bundle)}
        /\ UNCHANGED <<registry, dispatcher, turns, staged>>
        /\ dispatcher /\ Parsed(r) /\ registry = {r} /\ r \in Registries
        /\ Wired = {t.name : t \in {x \in ToSet(r.tools) : x.audience = "reader"}}
    BY DEF Dispatch, GateInv
  <1>3. PICK tool \in ToSet(r.tools) : tool.name = name /\ tool.audience = "reader"
    BY <1>1, <1>2
  <1>4. audience = "reader" /\ bundle \in tool.bundles
    BY <1>1, <1>2, <1>3, AuthorizedFor
  <1>5. \A h \in handed' \ handed : h.to = "reader"
    BY <1>1, <1>4 DEF Handed
  <1>6. tool \in Callable(r, name, audience, bundle) /\ (tool.approval => tool.readOnly)
    BY <1>2, <1>3, <1>4 DEF ReadersOnlyRead, Callable, Named
  <1>7. ASSUME NEW x \in executed'
        PROVE  \E u \in Callable(r, x.tool, x.by, x.bundle) : u.approval => u.readOnly
    BY <1>2, <1>6 DEF GateInv, GateHolds, Run
  <1>8. GateHolds'
    BY <1>2, <1>5, <1>7 DEF GateHolds, GateInv
  <1> QED
    BY <1>2, <1>8 DEF GateInv, Underway

(* Whichever bundles, routes, preferred tools, approvals and handlers come  *)
(* together: what runs is a tool of its caller's audience and bundle that   *)
(* needs no approval, what waits for one is the analyst's and writes, and   *)
(* the analyst is handed results of its own tools alone, if the reader's    *)
(* tools only read (audience-enforcement.ts, approval-interceptor.ts).      *)
THEOREM GateIsKept == ReadersOnlyRead => (GateSpec => []GateHolds)
  <1> SUFFICES ASSUME ReadersOnlyRead PROVE GateSpec => []GateHolds
    OBVIOUS
  <1>1. GateInit => GateInv
    BY DEF GateInit, GateInv, GateHolds, IdleTurn, GateTurnRows, Underway
  <1>2. GateInv /\ [GateNext]_gateVars => GateInv'
    <2> SUFFICES ASSUME GateInv, [GateNext]_gateVars PROVE GateInv'
      OBVIOUS
    <2>1. ASSUME NEW r \in Registries, LoadRegistry(r) PROVE GateInv'
      BY <2>1, LoadRegistryKeeps
    <2>2. ASSUME NEW t \in GateTurns, CallTool(t) \/ Execute(t) \/ RetryTurn(t) PROVE GateInv'
      BY <2>2, CallToolKeeps, ExecuteKeeps, RetryTurnKeeps
    <2>3. ASSUME NEW t \in GateTurns, NEW kind \in DOMAIN Routes, NEW p \in Preferred, BeginTurn(t, kind, p)
          PROVE  GateInv'
      BY <2>3, BeginTurnKeeps
    <2>4. ASSUME NEW r \in registry,
                 MakeDispatcher({t.name : t \in {x \in ToSet(r.tools) : x.audience = "reader"}})
          PROVE  GateInv'
      BY <2>4, MakeDispatcherKeeps
    <2>5. ASSUME NEW r \in registry, NEW bundle \in r.bundles, NEW audience \in {"analyst", "reader"},
                 NEW t \in ToSet(r.tools), NEW args \in {"clean", "raw", "malformed"},
                 Dispatch(bundle, audience, t.name, args)
          PROVE  GateInv'
      BY <2>5, DispatchKeeps
    <2>6. CASE UNCHANGED gateVars
      BY <2>6 DEF gateVars, GateInv, GateHolds, Underway
    <2> QED
      BY <2>1, <2>2, <2>3, <2>4, <2>5, <2>6 DEF GateNext
  <1>3. GateInv => GateHolds
    BY DEF GateInv
  <1> QED
    BY <1>1, <1>2, <1>3, PTL DEF GateSpec


-----------------------------------------------------------------------------
(* Readers of evidence.                                                    *)

Own(u, refs) == \A ref \in refs : OwnersOf(ref) \subseteq {{}, {u}}

(* What a snapshot cites was visible to its user when it was sealed, and   *)
(* whose a row is never changes.                                           *)
ReadsInv ==
  /\ \E full \in Libraries :
       /\ library.sources \subseteq full.sources
       /\ library.documents \subseteq full.documents
       /\ library.claims \subseteq full.claims
  /\ DOMAIN library = {"sources", "documents", "claims", "events", "facts", "chats"}
  /\ \A s \in cited : Own(s.user, s.refs)
  /\ ShownIsOwn

(* Rows that are visible are nobody's or the user's.                       *)
LEMMA VisibleIsOwn ==
  ASSUME ReadsInv, NEW u
  PROVE  /\ \A id : VisibleTo(u, id) => Own(u, {<<"source", id>>})
         /\ \A d \in library.documents : VisibleTo(u, d.source) => Own(u, {<<"document", d.id>>})
         /\ \A c \in library.claims : VisibleTo(u, c.source) => Own(u, {<<"claim", c.id>>})
  <1>1. PICK full \in Libraries :
          /\ library.sources \subseteq full.sources
          /\ library.documents \subseteq full.documents
          /\ library.claims \subseteq full.claims
    BY DEF ReadsInv
  <1>2. ASSUME NEW id, VisibleTo(u, id), NEW other \in Libraries, NEW t \in other.sources, t.id = id
        PROVE  t.user \in {{}, {u}}
    BY <1>1, <1>2, LibrariesAssumption DEF VisibleTo
  <1>3. ASSUME NEW id, VisibleTo(u, id) PROVE Own(u, {<<"source", id>>})
    <2> SUFFICES ASSUME NEW other \in Libraries, NEW t \in other.sources,
                        <<"source", id>> \in {<<"source", t.id>>}
                          \cup {<<"document", d.id>> : d \in {d \in other.documents : d.source = t.id}}
                          \cup {<<"claim", c.id>> : c \in {c \in other.claims : c.source = t.id}}
                 PROVE  t.user \in {{}, {u}}
      BY DEF Own, OwnersOf
    <2>1. t.id = id
      OBVIOUS
    <2> QED
      BY <1>2, <1>3, <2>1
  <1>4. ASSUME NEW d \in library.documents, VisibleTo(u, d.source) PROVE Own(u, {<<"document", d.id>>})
    <2> SUFFICES ASSUME NEW other \in Libraries, NEW t \in other.sources,
                        <<"document", d.id>> \in {<<"source", t.id>>}
                          \cup {<<"document", e.id>> : e \in {e \in other.documents : e.source = t.id}}
                          \cup {<<"claim", c.id>> : c \in {c \in other.claims : c.source = t.id}}
                 PROVE  t.user \in {{}, {u}}
      BY DEF Own, OwnersOf
    <2>1. PICK e \in other.documents : e.source = t.id /\ e.id = d.id
      OBVIOUS
    <2>2. t.id = d.source
      BY <1>1, <2>1, LibrariesAssumption
    <2> QED
      BY <1>2, <1>4, <2>2
  <1>5. ASSUME NEW c \in library.claims, VisibleTo(u, c.source) PROVE Own(u, {<<"claim", c.id>>})
    <2> SUFFICES ASSUME NEW other \in Libraries, NEW t \in other.sources,
                        <<"claim", c.id>> \in {<<"source", t.id>>}
                          \cup {<<"document", e.id>> : e \in {e \in other.documents : e.source = t.id}}
                          \cup {<<"claim", e.id>> : e \in {e \in other.claims : e.source = t.id}}
                 PROVE  t.user \in {{}, {u}}
      BY DEF Own, OwnersOf
    <2>1. PICK e \in other.claims : e.source = t.id /\ e.id = c.id
      OBVIOUS
    <2>2. t.id = c.source
      BY <1>1, <2>1, LibrariesAssumption
    <2> QED
      BY <1>2, <1>5, <2>2
  <1> QED
    BY <1>3, <1>4, <1>5

(* What the verifier lets pass is its user's.                              *)
LEMMA VerifiedIsOwn ==
  ASSUME ReadsInv, NEW u, NEW refs, Verified(u, refs)
  PROVE  Own(u, refs)
  <1> SUFFICES ASSUME NEW ref \in refs PROVE Own(u, {ref})
    BY DEF Own
  <1>1. ref \in Ref("document", VerifierDocuments(u, refs)) \cup Ref("claim", VerifierClaims(u, refs))
                  \cup {<<"source", s>> : s \in VerifierSources(u, refs)}
    BY DEF Verified
  <1>2. CASE ref \in Ref("document", VerifierDocuments(u, refs))
    BY <1>2, VisibleIsOwn DEF Ref, VerifierDocuments, DocumentRows
  <1>3. CASE ref \in Ref("claim", VerifierClaims(u, refs))
    BY <1>3, VisibleIsOwn DEF Ref, VerifierClaims, ClaimRows
  <1>4. CASE ref \in {<<"source", s>> : s \in VerifierSources(u, refs)}
    BY <1>4, VisibleIsOwn DEF VerifierSources
  <1> QED
    BY <1>1, <1>2, <1>3, <1>4

LEMMA EraseOwnerKeeps ==
  ASSUME ReadsInv, NEW u, EraseOwner(u)
  PROVE  ReadsInv'
  <1>1. /\ library'.sources \subseteq library.sources
        /\ library'.documents \subseteq library.documents
        /\ library'.claims \subseteq library.claims
        /\ DOMAIN library' = DOMAIN library
        /\ shown' = {} /\ cited' = cited
    BY DEF EraseOwner, ReadsInv
  <1> QED
    BY <1>1 DEF ReadsInv, ShownIsOwn

LEMMA SearchKeeps ==
  ASSUME ReadsInv, NEW u, SearchDocuments(u)
  PROVE  ReadsInv'
  <1>1. PICK q \in Asking :
          shown' = {[user |-> u, refs |->
            Ref("document", {d \in library.documents : q.about \in d.mentions /\ VisibleTo(u, d.source)})
            \cup {<<"source", d.source>> :
                    d \in {d \in library.documents : q.about \in d.mentions /\ VisibleTo(u, d.source)}}]}
    BY DEF SearchDocuments
  <1>2. PICK found \in SUBSET library.documents :
          /\ \A d \in found : VisibleTo(u, d.source)
          /\ shown' = {[user |-> u, refs |-> Ref("document", found) \cup {<<"source", d.source>> : d \in found}]}
    BY <1>1
  <1>3. Own(u, Ref("document", found) \cup {<<"source", d.source>> : d \in found})
    BY <1>2, VisibleIsOwn DEF Ref, Own
  <1>4. ShownIsOwn'
    BY <1>2, <1>3 DEF ShownIsOwn, Own
  <1> QED
    BY <1>4 DEF ReadsInv, SearchDocuments

(* A user is never shown a source, a document or a claim that is another   *)
(* user's, by a search, an inspection or what it relates to, whoever is    *)
(* erased meanwhile (document-research.ts, inspector.ts).                  *)
THEOREM OwnIsShown == ReadsSpec => []ShownIsOwn
  <1>1. ReadsInit => ReadsInv
    BY LibrariesAssumption, ChatsAssumption DEF ReadsInit, ReadsInv, ShownIsOwn, Own
  <1>2. ReadsInv /\ [ReadsNext]_readVars => ReadsInv'
    <2> SUFFICES ASSUME ReadsInv, [ReadsNext]_readVars PROVE ReadsInv'
      OBVIOUS
    <2>1. ASSUME NEW u \in Readers, ReadClaims(u) \/ FindNothing(u) \/ SealRefused(u) PROVE ReadsInv'
      BY <2>1 DEF ReadClaims, FindNothing, SealRefused, ReadsInv, ShownIsOwn
    <2>2. ASSUME NEW u \in Readers, SealEvidence(u) PROVE ReadsInv'
      <3>1. Own(u, EvidenceRefs(reading[u].claims))
        BY <2>2, VerifiedIsOwn DEF SealEvidence
      <3>2. /\ \A s \in cited' \ cited : s.user = u /\ s.refs = EvidenceRefs(reading[u].claims)
            /\ shown' = {} /\ UNCHANGED library
        BY <2>2 DEF SealEvidence
      <3> QED
        BY <3>1, <3>2 DEF ReadsInv, ShownIsOwn
    <2>3. ASSUME NEW u \in Readers, Inspect(u) PROVE ReadsInv'
      <3>1. PICK s \in cited : s.user = u /\ \E refs \in SUBSET s.refs : shown' = {[user |-> u, refs |-> refs]}
        <4>1. PICK s \in cited : SnapshotVisibleTo(u, s) /\
                \E ref \in s.refs : \E related \in Inspected(u, ref) :
                  shown' = {[user |-> u, refs |-> {ref} \cup (related \cap s.refs)]}
          BY <2>3 DEF Inspect
        <4>2. \A ref \in s.refs : \A related : {ref} \cup (related \cap s.refs) \in SUBSET s.refs
          OBVIOUS
        <4> QED
          BY <4>1, <4>2 DEF SnapshotVisibleTo
      <3>2. Own(u, s.refs)
        BY <3>1 DEF ReadsInv
      <3>3. ShownIsOwn'
        BY <3>1, <3>2 DEF ShownIsOwn, Own
      <3> QED
        BY <2>3, <3>3 DEF ReadsInv, Inspect
    <2>4. ASSUME NEW u \in Readers, SearchDocuments(u) PROVE ReadsInv'
      BY <2>4, SearchKeeps
    <2>5. ASSUME NEW u, EraseOwner(u) PROVE ReadsInv'
      BY <2>5, EraseOwnerKeeps
    <2>6. CASE UNCHANGED readVars
      BY <2>6 DEF readVars, ReadsInv, ShownIsOwn
    <2> QED
      BY <2>1, <2>2, <2>3, <2>4, <2>5, <2>6 DEF ReadsNext
  <1>3. ReadsInv => ShownIsOwn
    BY DEF ReadsInv
  <1> QED
    BY <1>1, <1>2, <1>3, PTL DEF ReadsSpec


-----------------------------------------------------------------------------
(* Interrupted actions.                                                    *)

Keyed == AppRoutes \X Actions
MicroTasks ==
  [do : {"clear", "unqueue"}] \cup [do : {"unkey"}, key : Keyed]
  \cup [do : {"dispatch"}, action : Actions, key : Keyed]
  \cup [do : {"queue"}, action : Actions, route : AppRoutes]

InterruptTypes ==
  /\ \A p \in pending : p.action \in Actions /\ p.returnTo \in AppRoutes
  /\ \A p, q \in pending : p = q
  /\ storedAction = pending
  /\ \A q \in queuedResume : q.action \in Actions /\ q.route \in AppRoutes
  /\ \A p, q \in queuedResume : p = q
  /\ committed.route \in AppRoutes /\ going \subseteq AppRoutes
  /\ unhandled \subseteq Actions /\ dispatchedKey \subseteq Keyed
  /\ requested \in [Actions -> Nat] /\ handled \in [Actions -> Nat]
  /\ micro \in Seq(MicroTasks)

(* The first microtask of a commit takes the pending action, the last one  *)
(* drops the queued action that the commit has resumed.                    *)
MicroShape ==
  /\ \A i \in DOMAIN micro : i > 1 => micro[i].do \in {"unkey", "unqueue"}
  /\ \A i \in DOMAIN micro : micro[i].do \in {"dispatch", "queue"} =>
       \E p \in pending : p.action = micro[i].action

(* Where an action that was asked for waits: an action is in one of these  *)
(* places for each time that it was asked for and not yet handled.         *)
One(b) == IF b THEN 1 ELSE 0
Unqueues == \E i \in DOMAIN micro : micro[i].do = "unqueue"
InPending(a) == \E p \in pending : p.action = a
InQueue(a) == ~Unqueues /\ \E q \in queuedResume : q.action = a
Credit(a) == One(InPending(a)) + One(InQueue(a)) + One(a \in unhandled)

CreditInv == \A a \in Actions : handled[a] + Credit(a) <= requested[a]

InterruptInv == InterruptTypes /\ MicroShape /\ CreditInv

LEMMA OneIs == \A b \in BOOLEAN : One(b) \in 0..1
  BY DEF One

LEMMA AtMostOne ==
  ASSUME NEW S, NEW x, S \subseteq {x}
  PROVE  Cardinality(S) = One(S # {})
  <1>1. CASE S = {}
    BY <1>1, FS_EmptySet DEF One
  <1>2. CASE S = {x}
    BY <1>2, FS_Singleton DEF One
  <1> QED
    BY <1>1, <1>2

(* An action that is dispatched reaches its handler, waits for one or is   *)
(* dropped.                                                                *)
LEMMA DispatchOne ==
  ASSUME InterruptTypes, NEW a \in Actions, NEW c, DispatchAll({a}, c)
  PROVE  /\ handled' \in [Actions -> Nat] /\ unhandled' \subseteq Actions
         /\ \A b \in Actions :
              handled'[b] + One(b \in unhandled') <= handled[b] + One(b \in unhandled) + One(b = a)
  <1> DEFINE of(b) == {x \in {a} : Mounted(x, c.route) /\ x = b /\ c.session}
  <1>1. handled' = [b \in Actions |-> handled[b] + Cardinality(of(b))]
    BY DEF DispatchAll
  <1>2. \A b \in Actions : Cardinality(of(b)) = One(of(b) # {})
    <2> SUFFICES ASSUME NEW b \in Actions PROVE Cardinality(of(b)) = One(of(b) # {})
      OBVIOUS
    <2>1. of(b) \subseteq {a}
      OBVIOUS
    <2> HIDE DEF of
    <2> QED
      BY <2>1, AtMostOne
  <1>3. \A b \in Actions : of(b) # {} => b = a /\ Mounted(a, c.route)
    OBVIOUS
  <1>4. /\ unhandled' \subseteq unhandled \cup {a}
        /\ Mounted(a, c.route) => unhandled' \subseteq unhandled
    BY DEF DispatchAll
  <1> HIDE DEF of
  <1>5. handled' \in [Actions -> Nat]
    <2>1. \A b \in Actions : One(of(b) # {}) \in Nat /\ handled[b] \in Nat
      BY DEF InterruptTypes, One
    <2>2. \A b \in Actions : handled[b] + Cardinality(of(b)) \in Nat
      BY <1>2, <2>1
    <2> QED
      BY <1>1, <2>2
  <1>6. ASSUME NEW b \in Actions
        PROVE  handled'[b] + One(b \in unhandled') <= handled[b] + One(b \in unhandled) + One(b = a)
    <2>1. handled'[b] = handled[b] + One(of(b) # {}) /\ handled[b] \in Nat
      BY <1>1, <1>2 DEF InterruptTypes
    <2>2. One(of(b) # {}) + One(b \in unhandled') <= One(b \in unhandled) + One(b = a)
      BY <1>3, <1>4 DEF One
    <2> QED
      BY <2>1, <2>2 DEF One
  <1> QED
    BY <1>4, <1>5, <1>6 DEF InterruptTypes

(* The arithmetic of a step: what is added to one place was in another, or *)
(* is asked for.                                                           *)
LEMMA AskKeeps ==
  ASSUME InterruptInv, NEW a \in Actions, AskProtected(a)
  PROVE  InterruptInv'
  <1> USE DEF InterruptInv
  <1>1. /\ micro = <<>> /\ micro' = micro
        /\ requested' = [requested EXCEPT ![a] = @ + 1]
        /\ UNCHANGED <<queuedResume, committed, going, dispatchedKey>>
    BY DEF AskProtected
  <1>2. requested' \in [Actions -> Nat] /\ \A b \in Actions : requested'[b] = requested[b] + One(b = a)
    BY <1>1 DEF InterruptTypes, One
  <1>3. \A b \in Actions : InQueue(b)' = InQueue(b)
    BY <1>1 DEF InQueue, Unqueues
  <1>4. CASE DispatchAll({a}, committed) /\ UNCHANGED <<pending, storedAction>>
    <2>1. /\ handled' \in [Actions -> Nat] /\ unhandled' \subseteq Actions
          /\ \A b \in Actions :
               handled'[b] + One(b \in unhandled') <= handled[b] + One(b \in unhandled) + One(b = a)
      BY <1>4, DispatchOne
    <2>2. InterruptTypes' /\ MicroShape'
      BY <1>1, <1>2, <1>4, <2>1 DEF InterruptTypes, MicroShape
    <2>3. \A b \in Actions : InPending(b)' = InPending(b)
      BY <1>4 DEF InPending
    <2>4. ASSUME NEW b \in Actions PROVE handled'[b] + Credit(b)' <= requested'[b]
      <3>1. handled[b] + Credit(b) <= requested[b]
        BY DEF CreditInv
      <3>2. handled[b] \in Nat /\ handled'[b] \in Nat /\ requested[b] \in Nat
        BY <2>1 DEF InterruptTypes
      <3>3. /\ handled'[b] + One(b \in unhandled') <= handled[b] + One(b \in unhandled) + One(b = a)
            /\ requested'[b] = requested[b] + One(b = a)
        BY <1>2, <2>1
      <3> QED
        BY <1>3, <2>3, <3>1, <3>2, <3>3 DEF Credit, One
    <2> QED
      BY <2>2, <2>4 DEF CreditInv
  <1>5. CASE /\ pending' = {[action |-> a, returnTo |-> committed.route, expires |-> ticks + InterruptTtl]}
             /\ storedAction' = pending' /\ UNCHANGED <<handled, unhandled>>
    <2>1. InterruptTypes' /\ MicroShape'
      BY <1>1, <1>2, <1>5 DEF InterruptTypes, MicroShape
    <2>2. \A b \in Actions : One(InPending(b)') <= One(b = a)
      BY <1>5 DEF InPending, One
    <2>3. ASSUME NEW b \in Actions PROVE handled'[b] + Credit(b)' <= requested'[b]
      <3>1. handled[b] + Credit(b) <= requested[b] /\ handled[b] \in Nat /\ requested[b] \in Nat
        BY DEF CreditInv, InterruptTypes
      <3>2. /\ handled'[b] = handled[b] /\ (b \in unhandled') = (b \in unhandled)
            /\ requested'[b] = requested[b] + One(b = a) /\ InQueue(b)' = InQueue(b)
            /\ One(InPending(b)') <= One(b = a)
        BY <1>2, <1>3, <1>5, <2>2
      <3>3. Credit(b)' <= Credit(b) + One(b = a)
        BY <3>2 DEF Credit, One
      <3> QED
        BY <3>1, <3>2, <3>3 DEF Credit, One
    <2> QED
      BY <2>1, <2>3 DEF CreditInv
  <1> QED
    BY <1>4, <1>5 DEF AskProtected

(* Steps that only take something away.                                    *)
LEMMA LessKeeps ==
  ASSUME InterruptInv, UNCHANGED <<handled, requested>>, InterruptTypes', MicroShape',
         pending' \subseteq pending, queuedResume' \subseteq queuedResume, unhandled' \subseteq unhandled,
         Unqueues => Unqueues' \/ queuedResume' = {}
  PROVE  InterruptInv'
  <1> SUFFICES ASSUME NEW a \in Actions PROVE handled'[a] + Credit(a)' <= requested'[a]
    BY DEF InterruptInv, CreditInv
  <1>1. handled[a] + Credit(a) <= requested[a] /\ handled[a] \in Nat /\ requested[a] \in Nat
    BY DEF InterruptInv, CreditInv, InterruptTypes
  <1>2. handled'[a] = handled[a] /\ requested'[a] = requested[a]
    OBVIOUS
  <1>3. \A b, c \in BOOLEAN : (b => c) => One(b) <= One(c)
    BY DEF One
  <1>4. /\ InPending(a) \in BOOLEAN /\ InQueue(a) \in BOOLEAN /\ (a \in unhandled) \in BOOLEAN
        /\ InPending(a)' \in BOOLEAN /\ InQueue(a)' \in BOOLEAN /\ (a \in unhandled') \in BOOLEAN
    BY DEF InPending, InQueue, Unqueues
  <1>5. /\ One(InPending(a)') <= One(InPending(a)) /\ One(InQueue(a)') <= One(InQueue(a))
        /\ One(a \in unhandled') <= One(a \in unhandled)
    <2>1. /\ InPending(a)' => InPending(a)
          /\ InQueue(a)' => InQueue(a)
          /\ a \in unhandled' => a \in unhandled
      BY DEF InPending, InQueue
    <2> QED
      BY <1>3, <1>4, <2>1, Zenon
  <1>6. /\ One(InPending(a)) \in 0..1 /\ One(InQueue(a)) \in 0..1 /\ One(a \in unhandled) \in 0..1
        /\ One(InPending(a)') \in 0..1 /\ One(InQueue(a)') \in 0..1 /\ One(a \in unhandled') \in 0..1
    BY <1>4, OneIs, Zenon
  <1>7. /\ Credit(a) = One(InPending(a)) + One(InQueue(a)) + One(a \in unhandled)
        /\ Credit(a)' = One(InPending(a)') + One(InQueue(a)') + One(a \in unhandled')
    BY DEF Credit, One
  <1> QED
    BY <1>1, <1>2, <1>5, <1>6, <1>7

LEMMA WorldKeeps ==
  ASSUME InterruptInv,
         \/ CancelAction \/ SignInOrOut \/ PendingAges \/ Reload
         \/ \E r \in AppRoutes : GoElsewhere(r)
  PROVE  InterruptInv'
  <1>1. /\ UNCHANGED <<handled, requested, micro>> /\ pending' \subseteq pending /\ storedAction' = pending'
        /\ queuedResume' \subseteq queuedResume /\ unhandled' \subseteq unhandled
        /\ dispatchedKey' \subseteq dispatchedKey /\ going' \subseteq AppRoutes
        /\ committed'.route = committed.route /\ micro = <<>>
    <2> USE DEF InterruptInv, InterruptTypes, worldVars
    <2>1. CASE CancelAction
      BY <2>1 DEF CancelAction, Forgotten
    <2>2. CASE SignInOrOut
      BY <2>2 DEF SignInOrOut
    <2>3. CASE PendingAges
      BY <2>3 DEF PendingAges
    <2>4. CASE Reload
      BY <2>4 DEF Reload, CommitOf
    <2>5. CASE \E r \in AppRoutes : GoElsewhere(r)
      BY <2>5 DEF GoElsewhere
    <2> QED
      BY <2>1, <2>2, <2>3, <2>4, <2>5
  <1>2. InterruptTypes' /\ MicroShape'
    BY <1>1 DEF InterruptInv, InterruptTypes, MicroShape
  <1>3. Unqueues => Unqueues'
    BY <1>1 DEF Unqueues
  <1> QED
    BY <1>1, <1>2, <1>3, LessKeeps

(* A microtask moves the pending action on, or drops what was resumed.     *)
LEMMA RunMicroKeeps ==
  ASSUME InterruptInv, RunMicro
  PROVE  InterruptInv'
  <1> USE DEF InterruptInv
  <1> DEFINE t == micro[1]
             added == IF t.do = "dispatch" THEN <<[do |-> "unkey", key |-> t.key]>> ELSE <<>>
  <1>1. micro # <<>> /\ micro \in Seq(MicroTasks) /\ t \in MicroTasks
    BY DEF RunMicro, InterruptTypes
  <1>2. UNCHANGED <<committed, going, requested>> /\ micro' = Tail(micro) \o added
    BY DEF RunMicro
  <1>3. /\ Tail(micro) \in Seq(MicroTasks) /\ Len(Tail(micro)) = Len(micro) - 1
        /\ \A i \in 1..Len(micro) - 1 : Tail(micro)[i] = micro[i + 1]
    BY <1>1
  <1>4. added \in Seq(MicroTasks) /\ \A i \in DOMAIN added : added[i].do = "unkey"
    <2>1. CASE t.do = "dispatch"
      <3> DEFINE task == [do |-> "unkey", key |-> t.key]
      <3>1. task \in MicroTasks /\ task.do = "unkey"
        BY <1>1, <2>1 DEF MicroTasks
      <3>2. added = <<task>>
        BY <2>1
      <3> HIDE DEF task, added
      <3> QED
        BY <3>1, <3>2
    <2>2. CASE t.do # "dispatch"
      BY <2>2
    <2> QED
      BY <2>1, <2>2
  <1> HIDE DEF added
  <1>5. /\ micro' \in Seq(MicroTasks)
        /\ \A i \in DOMAIN micro' :
             micro'[i].do = "unkey" \/ (i + 1 \in DOMAIN micro /\ micro'[i] = micro[i + 1])
    BY <1>2, <1>3, <1>4
  <1>6. \A i \in DOMAIN micro' : micro'[i].do \in {"unkey", "unqueue"}
    BY <1>1, <1>5 DEF MicroShape
  <1>7. Unqueues' => Unqueues
    BY <1>5 DEF Unqueues
  <1>8. Unqueues => Unqueues' \/ t.do = "unqueue"
    <2> SUFFICES ASSUME NEW i \in DOMAIN micro, micro[i].do = "unqueue", i # 1 PROVE Unqueues'
      BY DEF Unqueues
    <2>1. i - 1 \in 1..Len(micro) - 1 /\ Tail(micro)[i - 1] = micro[i]
      BY <1>1, <1>3
    <2>2. i - 1 \in DOMAIN micro' /\ micro'[i - 1] = micro[i]
      BY <1>2, <1>3, <1>4, <2>1
    <2> QED
      BY <2>2 DEF Unqueues
  <1>9. MicroShape'
    BY <1>6 DEF MicroShape
  <1>10. CASE t.do = "dispatch"
    <2>1. PICK p \in pending : p.action = t.action /\ pending = {p}
      BY <1>1, <1>10 DEF MicroShape, InterruptTypes
    <2>2. t.action \in Actions
      BY <1>1, <1>10 DEF MicroTasks
    <2>3. /\ pending' = {} /\ storedAction' = {} /\ queuedResume' = queuedResume
          /\ dispatchedKey' = dispatchedKey /\ DispatchAll({t.action}, committed)
      BY <1>10 DEF RunMicro, Forgotten
    <2>4. /\ handled' \in [Actions -> Nat] /\ unhandled' \subseteq Actions
          /\ \A b \in Actions :
               handled'[b] + One(b \in unhandled') <= handled[b] + One(b \in unhandled) + One(b = t.action)
      BY <2>2, <2>3, DispatchOne
    <2>5. InterruptTypes'
      BY <1>2, <1>5, <2>3, <2>4 DEF InterruptTypes
    <2>6. ASSUME NEW a \in Actions PROVE handled'[a] + Credit(a)' <= requested'[a]
      <3>1. One(InPending(a)) = One(a = t.action) /\ One(InPending(a)') = 0
        BY <2>1, <2>3 DEF InPending, One
      <3>2. One(InQueue(a)') <= One(InQueue(a)) /\ One(InQueue(a)') \in 0..1 /\ One(InQueue(a)) \in 0..1
        BY <1>8, <1>10, <2>3 DEF InQueue, One
      <3>3. /\ One(a \in unhandled) \in 0..1 /\ One(a \in unhandled') \in 0..1 /\ One(a = t.action) \in 0..1
            /\ handled[a] \in Nat /\ handled'[a] \in Nat /\ requested[a] \in Nat /\ requested' = requested
        BY <1>2, <2>4 DEF One, InterruptTypes
      <3>4. /\ Credit(a)' = One(InPending(a)') + One(InQueue(a)') + One(a \in unhandled')
            /\ handled[a] + Credit(a) <= requested[a]
        BY DEF Credit, One, CreditInv
      <3> QED
        BY <2>4, <3>1, <3>2, <3>3, <3>4 DEF Credit
    <2> QED
      BY <1>9, <2>5, <2>6 DEF CreditInv
  <1>11. CASE t.do = "queue"
    <2>1. PICK p \in pending : p.action = t.action /\ pending = {p}
      BY <1>1, <1>11 DEF MicroShape, InterruptTypes
    <2>2. t.action \in Actions /\ t.route \in AppRoutes
      BY <1>1, <1>11 DEF MicroTasks
    <2>3. /\ pending' = {} /\ storedAction' = {} /\ queuedResume' = {[action |-> t.action, route |-> t.route]}
          /\ UNCHANGED <<dispatchedKey, handled, unhandled>>
      BY <1>11 DEF RunMicro, Forgotten
    <2>5. InterruptTypes'
      BY <1>2, <1>5, <2>2, <2>3 DEF InterruptTypes
    <2>6. ASSUME NEW a \in Actions PROVE handled'[a] + Credit(a)' <= requested'[a]
      <3>1. One(InPending(a)) = One(a = t.action) /\ One(InPending(a)') = 0
        BY <2>1, <2>3 DEF InPending, One
      <3>2. One(InQueue(a)') <= One(a = t.action) /\ One(InQueue(a)') \in 0..1 /\ One(InQueue(a)) \in 0..1
        BY <2>3 DEF InQueue, One
      <3>3. /\ One(a \in unhandled) \in 0..1 /\ One(a \in unhandled') = One(a \in unhandled)
            /\ One(a = t.action) \in 0..1
            /\ handled[a] \in Nat /\ handled'[a] = handled[a] /\ requested[a] \in Nat /\ requested' = requested
        BY <1>2, <2>3 DEF One, InterruptTypes
      <3>4. /\ Credit(a)' = One(InPending(a)') + One(InQueue(a)') + One(a \in unhandled')
            /\ handled[a] + Credit(a) <= requested[a]
        BY DEF Credit, One, CreditInv
      <3> QED
        BY <3>1, <3>2, <3>3, <3>4 DEF Credit
    <2> QED
      BY <1>9, <2>5, <2>6 DEF CreditInv
  <1>12. CASE t.do \in {"clear", "unkey", "unqueue"}
    <2>1. /\ pending' \subseteq pending /\ storedAction' = pending'
          /\ queuedResume' \subseteq queuedResume /\ (t.do = "unqueue" => queuedResume' = {})
          /\ dispatchedKey' \subseteq dispatchedKey /\ UNCHANGED <<handled, unhandled>>
      BY <1>12 DEF RunMicro, Forgotten, InterruptTypes
    <2>2. InterruptTypes'
      BY <1>2, <1>5, <2>1 DEF InterruptTypes
    <2>3. Unqueues => Unqueues' \/ queuedResume' = {}
      BY <1>8, <2>1
    <2> QED
      BY <1>2, <1>9, <2>1, <2>2, <2>3, LessKeeps
  <1> QED
    BY <1>1, <1>10, <1>11, <1>12 DEF MicroTasks

(* The effects of a commit: its microtasks have the shape they are to have, *)
(* a handler takes what waited for it, and a queued action that is resumed  *)
(* no longer waits in the queue.                                            *)
LEMMA EffectsKeeps ==
  ASSUME InterruptInv, micro = <<>>, NEW c, NEW g, g \subseteq AppRoutes,
         c.pending = pending, c.queued = queuedResume, c.route \in AppRoutes,
         committed' = c, Effects(c, g), UNCHANGED <<pending, storedAction, queuedResume, requested>>
  PROVE  InterruptInv'
  <1> USE DEF InterruptInv
  <1> DEFINE runs == c.route # committed.route \/ c.pending # committed.pending \/ c.session # committed.session
             plan == IF runs THEN Plan(c) ELSE "idle"
             p == CHOOSE p \in c.pending : TRUE
             key == <<p.returnTo, p.action>>
             starts == plan = "dispatch" /\ key \notin dispatchedKey
             navigates == plan = "navigate" /\ key \notin queuedKey
             heldKey == IF starts THEN {key} ELSE dispatchedKey
             reached == {q \in c.queued : /\ c.route # committed.route \/ c.queued # committed.queued
                                          /\ c.route = q.route}
             resumed == {q \in reached : <<q.route, q.action>> \notin heldKey}
             mounted == {a \in unhandled : Mounted(a, c.route)}
             X == CASE plan = "expired" -> <<[do |-> "clear"]>>
                    [] starts -> <<[do |-> "dispatch", action |-> p.action, key |-> key]>>
                    [] navigates -> <<[do |-> "queue", action |-> p.action, route |-> p.returnTo]>>
                    [] OTHER -> <<>>
             Y == IF resumed = {} THEN <<>>
                  ELSE <<[do |-> "unkey", key |-> CHOOSE k \in dispatchedKey' : TRUE]>>
             Z == IF reached = {} THEN <<>> ELSE <<[do |-> "unqueue"]>>
  <1>1. /\ dispatchedKey' = IF resumed = {} THEN heldKey ELSE {<<q.route, q.action>> : q \in resumed}
        /\ going' = IF navigates THEN {p.returnTo} ELSE g
        /\ micro' = X \o Y \o Z
        /\ handled' = [b \in Actions |->
             handled[b] + (IF c.session THEN Cardinality({a \in mounted : a = b})
                                              + Cardinality({q \in resumed : q.action = b /\ Mounted(b, c.route)})
                           ELSE 0)]
        /\ unhandled' = (unhandled \ mounted) \cup {q.action : q \in {q \in resumed : ~Mounted(q.action, c.route)}}
    BY DEF Effects
  <1>2. plan # "idle" => p \in pending
    BY DEF Plan
  <1>3. plan # "idle" => p.action \in Actions /\ p.returnTo \in AppRoutes /\ key \in Keyed
    BY <1>2 DEF InterruptTypes, Keyed
  <1>4. heldKey \subseteq Keyed
    BY <1>3 DEF InterruptTypes
  <1>5. resumed \subseteq reached /\ reached \subseteq queuedResume /\ mounted \subseteq unhandled
    OBVIOUS
  <1>6. X \in Seq(MicroTasks) /\ Len(X) <= 1
        /\ \A i \in DOMAIN X : \/ X[i].do = "clear"
                               \/ X[i].do \in {"dispatch", "queue"} /\ \E o \in pending : o.action = X[i].action
    <2>1. CASE X = <<[do |-> "clear"]>>
      <3> DEFINE task == [do |-> "clear"]
      <3>1. task \in MicroTasks /\ task.do = "clear"
        BY DEF MicroTasks
      <3>2. X = <<task>>
        BY <2>1
      <3> HIDE DEF X, task
      <3> QED
        BY <3>1, <3>2
    <2>2. CASE starts /\ X = <<[do |-> "dispatch", action |-> p.action, key |-> key]>>
      <3>1. [do |-> "dispatch", action |-> p.action, key |-> key] \in MicroTasks /\ p \in pending
        BY <1>2, <1>3, <2>2 DEF MicroTasks
      <3> HIDE DEF p, key, X, starts
      <3> QED
        BY <2>2, <3>1
    <2>3. CASE navigates /\ X = <<[do |-> "queue", action |-> p.action, route |-> p.returnTo]>>
      <3>1. [do |-> "queue", action |-> p.action, route |-> p.returnTo] \in MicroTasks /\ p \in pending
        BY <1>2, <1>3, <2>3 DEF MicroTasks
      <3> HIDE DEF p, X, navigates
      <3> QED
        BY <2>3, <3>1
    <2>4. CASE X = <<>>
      <3> HIDE DEF X
      <3> QED
        BY <2>4
    <2>5. \/ X = <<[do |-> "clear"]>>
          \/ starts /\ X = <<[do |-> "dispatch", action |-> p.action, key |-> key]>>
          \/ navigates /\ X = <<[do |-> "queue", action |-> p.action, route |-> p.returnTo]>>
          \/ X = <<>>
      <3> HIDE DEF starts, navigates, plan, p, key
      <3> QED
        OBVIOUS
    <2> HIDE DEF X, starts, navigates, p, key
    <2> QED
      BY <2>1, <2>2, <2>3, <2>4, <2>5
  <1> HIDE DEF plan, p, key, starts, navigates, heldKey, X
  <1>7. dispatchedKey' \subseteq Keyed /\ (resumed # {} => dispatchedKey' # {})
    <2>1. \A q \in resumed : <<q.route, q.action>> \in Keyed
      BY <1>5 DEF InterruptTypes, Keyed
    <2> HIDE DEF resumed
    <2> QED
      BY <1>1, <1>4, <2>1
  <1>8. going' \subseteq AppRoutes
    BY <1>1, <1>3 DEF navigates
  <1> HIDE DEF reached, resumed, mounted, runs
  <1>9. Y \in Seq(MicroTasks) /\ Len(Y) <= 1 /\ \A i \in DOMAIN Y : Y[i].do = "unkey"
    <2>1. CASE resumed = {}
      BY <2>1
    <2>2. CASE resumed # {}
      <3> DEFINE k == CHOOSE k \in dispatchedKey' : TRUE
                 task == [do |-> "unkey", key |-> k]
      <3>1. k \in Keyed
        BY <1>7, <2>2
      <3> HIDE DEF k
      <3>2. task \in MicroTasks /\ task.do = "unkey"
        BY <3>1 DEF MicroTasks
      <3>3. Y = <<task>>
        BY <2>2 DEF k
      <3> HIDE DEF Y, task
      <3> QED
        BY <3>2, <3>3
    <2> QED
      BY <2>1, <2>2
  <1>10. /\ Z \in Seq(MicroTasks) /\ Len(Z) <= 1 /\ \A i \in DOMAIN Z : Z[i].do = "unqueue"
         /\ (reached = {} => Z = <<>>) /\ (reached # {} => Len(Z) = 1)
    <2> DEFINE task == [do |-> "unqueue"]
    <2>1. task \in MicroTasks /\ task.do = "unqueue"
      BY DEF MicroTasks
    <2>2. (reached = {} => Z = <<>>) /\ (reached # {} => Z = <<task>>)
      OBVIOUS
    <2> HIDE DEF Z, task
    <2>3. CASE reached = {}
      BY <2>2, <2>3
    <2>4. CASE reached # {}
      BY <2>1, <2>2, <2>4
    <2> QED
      BY <2>3, <2>4
  <1> HIDE DEF Y, Z
  <1>11. micro' \in Seq(MicroTasks) /\ Len(micro') = Len(X) + Len(Y) + Len(Z)
         /\ \A i \in DOMAIN micro' :
              \/ i \in DOMAIN X /\ micro'[i] = X[i]
              \/ i - Len(X) \in DOMAIN Y /\ micro'[i] = Y[i - Len(X)]
              \/ i - Len(X) - Len(Y) \in DOMAIN Z /\ micro'[i] = Z[i - Len(X) - Len(Y)]
    BY <1>1, <1>6, <1>9, <1>10
  <1>12. MicroShape'
    <2> SUFFICES ASSUME NEW i \in DOMAIN micro'
                 PROVE  /\ i > 1 => micro'[i].do \in {"unkey", "unqueue"}
                        /\ micro'[i].do \in {"dispatch", "queue"} => \E o \in pending : o.action = micro'[i].action
      BY DEF MicroShape
    <2>1. CASE i \in DOMAIN X /\ micro'[i] = X[i]
      BY <1>6, <2>1
    <2>2. CASE i - Len(X) \in DOMAIN Y /\ micro'[i] = Y[i - Len(X)]
      BY <1>9, <2>2
    <2>3. CASE i - Len(X) - Len(Y) \in DOMAIN Z /\ micro'[i] = Z[i - Len(X) - Len(Y)]
      BY <1>10, <2>3
    <2> QED
      BY <1>11, <2>1, <2>2, <2>3
  <1>13. reached # {} => Unqueues'
    <2> SUFFICES ASSUME reached # {} PROVE Unqueues'
      OBVIOUS
    <2>1. Len(Z) = 1 /\ Z[1].do = "unqueue"
      BY <1>10
    <2>2. Len(micro') \in DOMAIN micro' /\ micro'[Len(micro')] = Z[1]
      BY <1>1, <1>6, <1>9, <1>10, <1>11, <2>1
    <2> QED
      BY <2>1, <2>2 DEF Unqueues
  <1>14. \A b \in Actions : Cardinality({a \in mounted : a = b}) = One(b \in mounted)
    <2> SUFFICES ASSUME NEW b \in Actions PROVE Cardinality({a \in mounted : a = b}) = One(b \in mounted)
      OBVIOUS
    <2> DEFINE T == {a \in mounted : a = b}
    <2>1. T \subseteq {b} /\ (T # {} <=> b \in mounted)
      OBVIOUS
    <2> HIDE DEF T
    <2>2. Cardinality(T) = One(T # {})
      BY <2>1, AtMostOne
    <2>3. One(T # {}) = One(b \in mounted)
      BY <2>1 DEF One
    <2> QED
      BY <2>2, <2>3 DEF T
  <1> DEFINE taken(b) == {q \in resumed : q.action = b /\ Mounted(b, c.route)}
             left(b) == {q \in resumed : q.action = b /\ ~Mounted(b, c.route)}
  <1>15. \A b \in Actions : Cardinality(taken(b)) = One(taken(b) # {})
    <2> SUFFICES ASSUME NEW b \in Actions PROVE Cardinality(taken(b)) = One(taken(b) # {})
      OBVIOUS
    <2>1. \A q, o \in taken(b) : q = o
      BY <1>5 DEF InterruptTypes
    <2> HIDE DEF taken
    <2>2. CASE taken(b) = {}
      BY <2>2, FS_EmptySet DEF One
    <2>3. CASE taken(b) # {}
      <3>1. PICK q : q \in taken(b)
        BY <2>3
      <3>2. taken(b) \subseteq {q}
        BY <2>1, <3>1
      <3> QED
        BY <3>2, AtMostOne
    <2> QED
      BY <2>2, <2>3
  <1>16. \A b \in Actions : (taken(b) # {} => left(b) = {}) /\ (taken(b) # {} \/ left(b) # {} => InQueue(b))
    BY <1>5 DEF InQueue, Unqueues
  <1>17. \A b \in Actions : taken(b) # {} \/ left(b) # {} => Unqueues'
    BY <1>5, <1>13
  <1>18. \A b \in Actions : b \in unhandled' => (b \in unhandled /\ b \notin mounted) \/ left(b) # {}
    BY <1>1
  <1>19. unhandled' \subseteq Actions
    BY <1>1, <1>5 DEF InterruptTypes
  <1> HIDE DEF taken, left
  <1>20. \A b \in Actions : handled'[b] \in Nat /\ handled'[b] <= handled[b] + One(b \in mounted) + One(taken(b) # {})
    <2> SUFFICES ASSUME NEW b \in Actions
                 PROVE  handled'[b] \in Nat /\ handled'[b] <= handled[b] + One(b \in mounted) + One(taken(b) # {})
      OBVIOUS
    <2>1. One(b \in mounted) \in 0..1 /\ One(taken(b) # {}) \in 0..1 /\ handled[b] \in Nat
      BY DEF One, InterruptTypes
    <2>2. handled'[b] = handled[b] + (IF c.session THEN One(b \in mounted) + One(taken(b) # {}) ELSE 0)
      BY <1>1, <1>14, <1>15 DEF taken
    <2> QED
      BY <2>1, <2>2
  <1>21. handled' \in [Actions -> Nat]
    BY <1>1, <1>20
  <1>22. InterruptTypes'
    BY <1>7, <1>8, <1>11, <1>19, <1>21 DEF InterruptTypes
  <1>23. ASSUME NEW b \in Actions PROVE handled'[b] + Credit(b)' <= requested'[b]
    <2>1. handled[b] + Credit(b) <= requested[b] /\ handled[b] \in Nat /\ requested[b] \in Nat /\ requested' = requested
      BY DEF CreditInv, InterruptTypes
    <2>2. /\ Credit(b) = One(InPending(b)) + One(InQueue(b)) + One(b \in unhandled)
          /\ Credit(b)' = One(InPending(b)') + One(InQueue(b)') + One(b \in unhandled')
      BY DEF Credit, One
    <2>3. One(InPending(b)') = One(InPending(b)) /\ One(InPending(b)) \in 0..1
      BY DEF InPending, One
    <2>4. One(b \in unhandled') + One(b \in mounted) <= One(b \in unhandled) + One(left(b) # {})
      BY <1>5, <1>18 DEF One
    <2>5. One(InQueue(b)') + One(taken(b) # {}) + One(left(b) # {}) <= One(InQueue(b))
      <3>1. InQueue(b)' => InQueue(b) /\ ~Unqueues'
        BY DEF InQueue, Unqueues
      <3>2. /\ taken(b) # {} => left(b) = {} /\ InQueue(b) /\ Unqueues'
            /\ left(b) # {} => InQueue(b) /\ Unqueues'
        BY <1>16, <1>17
      <3> QED
        BY <3>1, <3>2 DEF One
    <2>6. /\ One(InQueue(b)) \in 0..1 /\ One(InQueue(b)') \in 0..1 /\ One(taken(b) # {}) \in 0..1
          /\ One(left(b) # {}) \in 0..1 /\ One(b \in unhandled) \in 0..1 /\ One(b \in unhandled') \in 0..1
          /\ One(b \in mounted) \in 0..1
      BY DEF One
    <2> QED
      BY <1>20, <2>1, <2>2, <2>3, <2>4, <2>5, <2>6
  <1> QED
    BY <1>12, <1>22, <1>23 DEF CreditInv

(* Whatever the user, the router and the session do, an action reaches its *)
(* handler at most as often as the user asked for it.                      *)
THEOREM ActsAreOnce == InterruptSpec => []ActsOnce
  <1>1. InterruptInit => InterruptInv
    <2> SUFFICES ASSUME InterruptInit PROVE InterruptInv
      OBVIOUS
    <2>1. InterruptTypes /\ MicroShape
      BY DEF InterruptInit, InterruptTypes, MicroShape, CommitOf
    <2>2. ASSUME NEW a \in Actions PROVE handled[a] + Credit(a) <= requested[a]
      <3>1. ~InPending(a) /\ ~InQueue(a) /\ a \notin unhandled /\ handled[a] = 0 /\ requested[a] = 0
        BY DEF InterruptInit, InPending, InQueue
      <3> QED
        BY <3>1 DEF Credit, One
    <2> QED
      BY <2>1, <2>2 DEF InterruptInv, CreditInv
  <1>2. InterruptInv /\ [InterruptNext]_interruptVars => InterruptInv'
    <2> SUFFICES ASSUME InterruptInv, [InterruptNext]_interruptVars PROVE InterruptInv'
      OBVIOUS
    <2>1. CASE \E a \in Actions : AskProtected(a)
      BY <2>1, AskKeeps
    <2>2. CASE \/ CancelAction \/ SignInOrOut \/ PendingAges \/ Reload
               \/ \E r \in AppRoutes : GoElsewhere(r)
      BY <2>2, WorldKeeps
    <2>3. CASE RunMicro
      BY <2>3, RunMicroKeeps
    <2>4. CASE Rerenders
      <3>1. PICK c : c = CommitOf(signedIn, committed.route, pending, queuedResume)
        OBVIOUS
      <3>2. PICK g : g = going
        OBVIOUS
      <3>3. /\ c.pending = pending /\ c.queued = queuedResume /\ c.route \in AppRoutes /\ g \subseteq AppRoutes
        BY <3>1, <3>2 DEF CommitOf, InterruptInv, InterruptTypes
      <3>4. micro = <<>> /\ committed' = c /\ Effects(c, g)
            /\ UNCHANGED <<pending, storedAction, queuedResume, requested>>
        BY <2>4, <3>1, <3>2 DEF Rerenders
      <3> QED
        BY <3>3, <3>4, EffectsKeeps
    <2>5. CASE \E r \in going : RouteArrives(r)
      <3>1. PICK r \in going : RouteArrives(r)
        BY <2>5
      <3>2. PICK c : c = CommitOf(signedIn, r, pending, queuedResume)
        OBVIOUS
      <3>3. c.pending = pending /\ c.queued = queuedResume /\ c.route \in AppRoutes
        BY <3>1, <3>2 DEF CommitOf, InterruptInv, InterruptTypes
      <3>4. micro = <<>> /\ committed' = c /\ Effects(c, {})
            /\ UNCHANGED <<pending, storedAction, queuedResume, requested>>
        BY <3>1, <3>2 DEF RouteArrives
      <3> QED
        BY <3>3, <3>4, EffectsKeeps
    <2>6. CASE UNCHANGED interruptVars
      <3>1. InterruptTypes' /\ MicroShape'
        BY <2>6 DEF InterruptInv, InterruptTypes, MicroShape, interruptVars
      <3>2. Unqueues' = Unqueues
        BY <2>6 DEF Unqueues, interruptVars
      <3> QED
        BY <2>6, <3>1, <3>2, LessKeeps DEF interruptVars
    <2> QED
      BY <2>1, <2>2, <2>3, <2>4, <2>5, <2>6 DEF InterruptNext
  <1>3. InterruptInv => ActsOnce
    <2> SUFFICES ASSUME InterruptInv, NEW a \in Actions PROVE handled[a] <= requested[a]
      BY DEF ActsOnce
    <2>1. handled[a] + Credit(a) <= requested[a] /\ handled[a] \in Nat /\ requested[a] \in Nat
      BY DEF InterruptInv, CreditInv, InterruptTypes
    <2>2. Credit(a) \in Nat
      BY DEF Credit, One
    <2> QED
      BY <2>1, <2>2
  <1> QED
    BY <1>1, <1>2, <1>3, PTL DEF InterruptSpec

-----------------------------------------------------------------------------
(* The screener.                                                           *)

(* A search that is not aborted is the current one, or stray; the outcome  *)
(* that is shown is of a search that is over.                              *)
SearchInv ==
  /\ searched \in Nat /\ current = searched /\ heard \in 0..searched
  /\ \A s \in searches : {"n", "live"} \subseteq DOMAIN s /\ s.n \in 1..searched /\ s.n # heard
  /\ \A s, t \in searches : s.n = t.n => s = t
  /\ \A s \in searches : s.live => s.n = current \/ s.n \in strays

LEMMA AskedNext ==
  ASSUME SearchInv, NEW n, NEW q, searches' = Aborted(n) \cup {Search(searched + 1, q)},
         searched' = searched + 1, current' = searched + 1, heard' = heard,
         strays \subseteq strays',
         \A s \in searches : s.live /\ s.n # n => s.n \in strays'
  PROVE  SearchInv'
  <1> DEFINE Off(s) == IF s.n = n THEN [s EXCEPT !.live = FALSE] ELSE s
  <1>1. PICK asked : asked = Search(searched + 1, q)
    OBVIOUS
  <1>2. asked.n = searched + 1 /\ {"n", "live"} \subseteq DOMAIN asked
    BY <1>1 DEF Search
  <1>3. searches' = {Off(s) : s \in searches} \cup {asked}
    BY <1>1 DEF Aborted
  <1>4. ASSUME NEW s \in searches
        PROVE  /\ Off(s).n = s.n /\ {"n", "live"} \subseteq DOMAIN Off(s) /\ s.n \in 1..searched /\ s.n # heard
               /\ Off(s).live => s.n \in strays'
    BY DEF SearchInv
  <1> HIDE DEF Off
  <1>5. \A s \in searches' : /\ {"n", "live"} \subseteq DOMAIN s /\ s.n \in 1..(searched + 1) /\ s.n # heard
                             /\ s.live => s.n = searched + 1 \/ s.n \in strays'
    BY <1>2, <1>3, <1>4 DEF SearchInv
  <1>6. \A s, t \in searches' : s.n = t.n => s = t
    <2> SUFFICES ASSUME NEW s \in searches', NEW t \in searches', s.n = t.n PROVE s = t
      OBVIOUS
    <2>1. CASE s = asked \/ t = asked
      BY <1>2, <1>3, <1>4, <2>1 DEF SearchInv
    <2>2. CASE s # asked /\ t # asked
      <3>1. PICK x \in searches, y \in searches : s = Off(x) /\ t = Off(y)
        BY <1>3, <2>2
      <3> QED BY <1>4, <3>1 DEF SearchInv
    <2> QED BY <2>1, <2>2
  <1> QED BY <1>5, <1>6 DEF SearchInv

LEMMA SearchStep == SearchInv /\ [ScreenNext]_screenVars => SearchInv'
  <1> SUFFICES ASSUME SearchInv, [ScreenNext]_screenVars PROVE SearchInv'
    OBVIOUS
  <1>1. ASSUME NEW d, RunSearch(d) PROVE SearchInv'
    <2>1. PICK n, q : n = current /\ q = QueryOf(d)
      OBVIOUS
    <2>2. /\ searches' = Aborted(n) \cup {Search(searched + 1, q)}
          /\ searched' = searched + 1 /\ current' = searched + 1 /\ heard' = heard /\ strays' = strays
      BY <1>1, <2>1 DEF RunSearch
    <2>3. \A s \in searches : s.live /\ s.n # n => s.n \in strays'
      BY <2>1, <2>2 DEF SearchInv
    <2> QED BY <2>2, <2>3, AskedNext
  <1>2. CASE ChangeSession
    <2>1. PICK n, q : n = mine /\ q = QueryOf(draft)
      OBVIOUS
    <2>2. /\ searches' = Aborted(n) \cup {Search(searched + 1, q)}
          /\ searched' = searched + 1 /\ current' = searched + 1 /\ heard' = heard
          /\ strays' = strays \cup {s.n : s \in {s \in searches : s.live /\ s.n # n}}
      BY <1>2, <2>1 DEF ChangeSession
    <2> QED BY <2>2, AskedNext
  <1>3. ASSUME NEW s \in searches, NEW t, t.n = s.n, t.live = s.live, {"n", "live"} \subseteq DOMAIN t, Becomes(s, t)
        PROVE  SearchInv'
    <2>1. searches' = (searches \ {s}) \cup {t} /\ UNCHANGED <<searched, current, heard, strays>>
      BY <1>3 DEF Becomes
    <2> QED BY <1>3, <2>1 DEF SearchInv
  <1>4. ASSUME NEW s \in searches, ListCandidates(s) \/ HydrateNext(s) \/ Finish(s) PROVE SearchInv'
    <2>1. {"n", "live"} \subseteq DOMAIN s
      BY DEF SearchInv
    <2>2. CASE ListCandidates(s)
      BY <1>3, <2>1, <2>2 DEF ListCandidates
    <2>3. CASE HydrateNext(s)
      <3>1. PICK rows, got : Becomes(s, [s EXCEPT !.rows = rows, !.got = got])
        BY <2>3 DEF HydrateNext
      <3> QED BY <1>3, <2>1, <3>1
    <2>4. CASE Finish(s)
      <3>1. PICK a : Becomes(s, [s EXCEPT !.at = "answered", !.got = <<>>, !.answer = a])
        BY <2>4 DEF Finish
      <3> QED BY <1>3, <2>1, <3>1
    <2> QED BY <1>4, <2>2, <2>3, <2>4
  <1>5. ASSUME NEW s \in searches, Settles(s) PROVE SearchInv'
    <2>1. /\ searches' = searches \ {s} /\ heard' \in {heard, s.n} /\ UNCHANGED <<searched, current, strays>>
      BY <1>5 DEF Settles
    <2> QED BY <2>1 DEF SearchInv
  <1>6. CASE EditDraft \/ \E b \in Books : RefreshBook(b)
    BY <1>6 DEF EditDraft, RefreshBook, SearchInv
  <1>7. CASE SubmitDraft \/ (\E forth \in BOOLEAN : Turn(forth)) \/ \E q \in SavedQueries : OpenScreen(q)
    BY <1>1, <1>7 DEF SubmitDraft, Turn, OpenScreen
  <1>8. CASE UNCHANGED screenVars
    BY <1>8 DEF screenVars, SearchInv
  <1> QED BY <1>2, <1>4, <1>5, <1>6, <1>7, <1>8 DEF ScreenNext, SearchArrives, SearchLost

(* Outcomes are shown in the order of their searches, but for those that a *)
(* change of the session left (performSearch and its AbortController).     *)
THEOREM AnswersAreInOrder == ScreenSpec => AnswersInOrder
  <1>1. ScreenInit => SearchInv
    BY DEF ScreenInit, SearchInv, Search
  <1>2. SearchInv /\ [ScreenNext]_screenVars => [heard' # heard => heard' > heard \/ heard' \in strays]_screenVars
    <2> SUFFICES ASSUME SearchInv, ScreenNext, heard' # heard PROVE heard' > heard \/ heard' \in strays
      BY DEF screenVars
    <2>1. PICK s \in searches : Settles(s) /\ s.live
      BY DEF ScreenNext, EditDraft, SubmitDraft, Turn, OpenScreen, RunSearch, ChangeSession, RefreshBook, ListCandidates,
             HydrateNext, Finish, Becomes, SearchArrives, SearchLost, Settles, Heeds
    <2>2. heard' = s.n
      BY <2>1 DEF Settles, Heeds
    <2> QED BY <2>1, <2>2 DEF SearchInv
  <1> QED BY <1>1, <1>2, SearchStep, PTL DEF ScreenSpec, AnswersInOrder

-----------------------------------------------------------------------------
(* Saved screens.  Whoever a request is made for, its answer has rows of   *)
(* that user, and the panel has those of the user it remembers.            *)
SomeIds == ScreenIds \cup PutIds \cup {"none"} \cup {x.id : x \in ScreensAtFirst}
RowsOf(us) == [id : SomeIds, user : us, created : Nat, updated : Nat]
BookCalls ==
  [n : Nat, op : {"list", "refresh", "save", "put", "delete"}, user : ScreenUsers,
   at : {"sent", "found", "looked", "answered"}, live : BOOLEAN, row : RowsOf(ScreenUsers \cup {"none"}),
   answer : Seq(RowsOf(ScreenUsers)), result : {"none", "ok", "missing", "created", "replaced"}]

OfOne(us, list) == \/ us = {} /\ list = <<>>
                   \/ \E u \in ScreenUsers : us = {u} /\ list \in Seq(RowsOf(us))

BookInv ==
  /\ saves \in Nat /\ booked \in Nat
  /\ user = {} \/ \E u \in ScreenUsers : user = {u}
  /\ IsFiniteSet(screens) /\ screens \subseteq RowsOf(ScreenUsers)
  /\ OfOne(panel.user, panel.screens)
  /\ \A c \in bookCalls : /\ c \in BookCalls
                          /\ c.op \in {"save", "put"} => c.row.user = c.user
                          /\ c.at = "looked" => c.op \in {"save", "put"}
                          /\ c.answer \in Seq(RowsOf({c.user}))

LEMMA WithoutTyped ==
  ASSUME NEW S, NEW q \in Seq(S), NEW i
  PROVE  WithoutRow(q, i) \in Seq(S)
  <1>1. CASE \E k \in DOMAIN q : q[k].id = i
    <2>1. PICK k \in DOMAIN q : k = CHOOSE j \in DOMAIN q : q[j].id = i
      BY <1>1
    <2>2. k \in 1..Len(q) /\ SubSeq(q, 1, k - 1) \in Seq(S) /\ SubSeq(q, k + 1, Len(q)) \in Seq(S)
      OBVIOUS
    <2>3. SubSeq(q, 1, k - 1) \o SubSeq(q, k + 1, Len(q)) \in Seq(S)
      BY <2>2
    <2> QED BY <1>1, <2>1, <2>3 DEF WithoutRow, RemoveAt
  <1>2. CASE ~\E k \in DOMAIN q : q[k].id = i
    BY <1>2 DEF WithoutRow
  <1> QED BY <1>1, <1>2

LEMMA DisplayedOwn ==
  ASSUME BookInv, NEW u \in ScreenUsers
  PROVE  Displayed(panel, {u}) \in Seq(RowsOf({u}))
  <1>1. CASE panel.user = {u}
    <2>1. PICK v \in ScreenUsers : panel.user = {v} /\ panel.screens \in Seq(RowsOf({v}))
      BY <1>1 DEF BookInv, OfOne
    <2>2. v = u
      BY <1>1, <2>1
    <2> QED BY <1>1, <2>1, <2>2 DEF Displayed
  <1>2. CASE panel.user # {u}
    BY <1>2, EmptySeq DEF Displayed
  <1> QED BY <1>1, <1>2

LEMMA ListOwn ==
  ASSUME BookInv, NEW u \in ScreenUsers, NEW q \in ListFor(u)
  PROVE  q \in Seq(RowsOf({u}))
  <1> DEFINE own == {x \in screens : x.user = u}
  <1>1. IsFiniteSet(own)
    BY FS_Subset DEF BookInv
  <1>2. own \subseteq RowsOf({u})
    BY DEF BookInv, RowsOf
  <1>3. q \in [1..Cardinality(own) -> own]
    BY DEF ListFor
  <1> HIDE DEF own
  <1>4. Cardinality(own) \in Nat
    BY <1>1, FS_CardinalityType
  <1>5. PICK n \in Nat : n = Cardinality(own)
    BY <1>4
  <1>6. PICK R : R = RowsOf({u})
    OBVIOUS
  <1>7. q \in [1..n -> R]
    BY <1>2, <1>3, <1>5, <1>6
  <1> QED BY <1>6, <1>7, SeqDef

(* A request is made, or goes on as d.                                     *)
Sound(c) == /\ c \in BookCalls
            /\ c.op \in {"save", "put"} => c.row.user = c.user
            /\ c.at = "looked" => c.op \in {"save", "put"}
            /\ c.answer \in Seq(RowsOf({c.user}))

LEMMA AskedSound ==
  ASSUME BookInv, NEW calls, \A c \in calls : Sound(c),
         NEW op \in {"list", "refresh", "save", "put", "delete"}, NEW u \in ScreenUsers,
         NEW row \in RowsOf(ScreenUsers \cup {"none"}), op \in {"save", "put"} => row.user = u,
         AskBook(calls, op, u, row)
  PROVE  booked' \in Nat /\ \A c \in bookCalls' : Sound(c)
  <1>1. booked' = booked + 1 /\ bookCalls' = calls \cup {BookCall(booked + 1, op, u, row)} /\ booked \in Nat
    BY DEF AskBook, BookInv
  <1>2. Sound(BookCall(booked + 1, op, u, row))
    BY <1>1 DEF Sound, BookCall, BookCalls
  <1> QED BY <1>1, <1>2

LEMMA NoScreenTyped == NoScreen \in RowsOf(ScreenUsers \cup {"none"})
  BY DEF NoScreen, RowsOf, SomeIds

LEMMA AsksKeep ==
  ASSUME BookInv,
         \/ SignIn({}) \/ \E u \in ScreenUsers : SignIn({u})
         \/ \E i \in ScreenIds : SaveScreen(i)
         \/ \E u \in ScreenUsers, i \in PutIds : PutScreen(u, i)
         \/ \E x \in Range(panel.screens) : DeleteSaved(x)
  PROVE  BookInv'
  <1>1. \A c \in bookCalls : Sound(c)
    BY DEF Sound, BookInv
  <1>2. ASSUME NEW us, us = {} \/ (\E u \in ScreenUsers : us = {u}), SignIn(us) PROVE BookInv'
    <2> DEFINE Off(c) == IF c.op = "list" THEN [c EXCEPT !.live = FALSE] ELSE c
    <2>1. PICK left : left = {Off(c) : c \in bookCalls}
      OBVIOUS
    <2>2. user' = us /\ UNCHANGED <<screens, saves, panel>>
          /\ IF us = {} THEN bookCalls' = left /\ booked' = booked ELSE \E u \in us : AskBook(left, "list", u, NoScreen)
      BY <1>2, <2>1 DEF SignIn
    <2>3. \A c \in left : Sound(c)
      <3> SUFFICES ASSUME NEW c \in bookCalls PROVE Sound(Off(c))
        BY <2>1
      <3>1. [c EXCEPT !.live = FALSE] \in BookCalls
        BY <1>1 DEF BookCalls, Sound
      <3> QED BY <1>1, <3>1 DEF Sound, BookCalls
    <2>4. booked' \in Nat /\ \A c \in bookCalls' : Sound(c)
      <3>1. CASE us = {}
        BY <2>2, <2>3, <3>1 DEF BookInv
      <3>2. CASE us # {}
        <4>1. PICK u \in ScreenUsers : AskBook(left, "list", u, NoScreen)
          BY <1>2, <2>2, <3>2
        <4>2. PICK row : row = NoScreen
          OBVIOUS
        <4>3. AskBook(left, "list", u, row) /\ row \in RowsOf(ScreenUsers \cup {"none"})
          BY <4>1, <4>2, NoScreenTyped
        <4>4. PICK op : op = "list"
          OBVIOUS
        <4>5. op \in {"list", "refresh", "save", "put", "delete"} /\ op \notin {"save", "put"} /\ AskBook(left, op, u, row)
          BY <4>3, <4>4
        <4> QED BY <2>3, <4>3, <4>5, AskedSound
      <3> QED BY <3>1, <3>2
    <2> QED BY <1>2, <2>2, <2>4 DEF Sound, OfOne, BookInv
  <1>3. ASSUME NEW calls, calls = bookCalls, NEW op \in {"save", "put"}, NEW u \in ScreenUsers,
               NEW i \in ScreenIds \cup PutIds, AskBook(calls, op, u, [NoScreen EXCEPT !.id = i, !.user = u]),
               UNCHANGED <<screens, saves, user, panel>>
        PROVE  BookInv'
    <2>1. PICK row : row = [NoScreen EXCEPT !.id = i, !.user = u]
      OBVIOUS
    <2>2. row \in RowsOf(ScreenUsers \cup {"none"}) /\ row.user = u
      BY <2>1 DEF NoScreen, RowsOf, SomeIds
    <2>3. booked' \in Nat /\ \A c \in bookCalls' : Sound(c)
      BY <1>1, <1>3, <2>1, <2>2, AskedSound
    <2> QED BY <1>3, <2>3 DEF Sound, OfOne, BookInv
  <1>4. ASSUME NEW i \in ScreenIds, SaveScreen(i) PROVE BookInv'
    <2>1. PICK u \in user : AskBook(bookCalls, "save", u, [NoScreen EXCEPT !.id = i, !.user = u])
      BY <1>4 DEF SaveScreen
    <2>2. u \in ScreenUsers /\ UNCHANGED <<screens, saves, user, panel>>
      BY <1>4 DEF SaveScreen, BookInv
    <2>3. PICK calls : calls = bookCalls
      OBVIOUS
    <2>4. AskBook(calls, "save", u, [NoScreen EXCEPT !.id = i, !.user = u])
      BY <2>1, <2>3
    <2> QED BY <1>3, <2>2, <2>3, <2>4
  <1>5. ASSUME NEW u \in ScreenUsers, NEW i \in PutIds, PutScreen(u, i) PROVE BookInv'
    <2>1. PICK calls : calls = bookCalls
      OBVIOUS
    <2>2. AskBook(calls, "put", u, [NoScreen EXCEPT !.id = i, !.user = u]) /\ UNCHANGED <<screens, saves, user, panel>>
      BY <1>5, <2>1 DEF PutScreen
    <2> QED BY <1>3, <2>1, <2>2
  <1>6. ASSUME NEW x, DeleteSaved(x) PROVE BookInv'
    <2>1. PICK u \in user : /\ x \in Range(Displayed(panel, user))
                            /\ panel' = [user |-> user, screens |-> WithoutRow(Displayed(panel, user), x.id)]
                            /\ AskBook(bookCalls, "delete", u, x)
                            /\ UNCHANGED <<screens, saves, user, signIns>>
      BY <1>6 DEF DeleteSaved
    <2>2. u \in ScreenUsers /\ user = {u}
      BY DEF BookInv
    <2>3. PICK q : q = Displayed(panel, user)
      OBVIOUS
    <2>4. q \in Seq(RowsOf({u}))
      BY <2>2, <2>3, DisplayedOwn
    <2>5. x \in RowsOf(ScreenUsers \cup {"none"}) /\ x.user = u
      <3>1. PICK k \in DOMAIN q : x = q[k]
        BY <2>1, <2>3 DEF Range
      <3>2. x \in RowsOf({u})
        BY <2>4, <3>1, ElementOfSeq
      <3> QED BY <2>2, <3>2 DEF RowsOf
    <2>6. PICK calls : calls = bookCalls
      OBVIOUS
    <2>7. AskBook(calls, "delete", u, x)
      BY <2>1, <2>6
    <2>8. booked' \in Nat /\ \A c \in bookCalls' : Sound(c)
      BY <1>1, <2>2, <2>5, <2>6, <2>7, AskedSound
    <2>9. WithoutRow(q, x.id) \in Seq(RowsOf({u}))
      BY <2>4, WithoutTyped
    <2>10. OfOne(panel.user, panel.screens)'
      BY <2>1, <2>2, <2>3, <2>9 DEF OfOne
    <2> QED BY <2>1, <2>8, <2>10 DEF Sound, BookInv
  <1> QED BY <1>2, <1>4, <1>5, <1>6

LEMMA TurnKeeps ==
  ASSUME BookInv, NEW c \in bookCalls, NEW d, Sound(d), Turns(c, d), saves' \in Nat,
         IsFiniteSet(screens'), screens' \subseteq RowsOf(ScreenUsers), UNCHANGED <<user, panel, booked>>
  PROVE  BookInv'
  <1>1. \A e \in bookCalls' : Sound(e)
    BY DEF Turns, Sound, BookInv
  <1> QED BY <1>1 DEF Sound, BookInv, OfOne

LEMMA ServingKeeps ==
  ASSUME BookInv, NEW c \in bookCalls,
         \/ ServeScreens(c) \/ FindScreen(c) \/ LookForScreen(c) \/ UpsertScreen(c) \/ RemoveScreen(c)
  PROVE  BookInv'
  <1>1. Sound(c) /\ saves \in Nat /\ IsFiniteSet(screens) /\ screens \subseteq RowsOf(ScreenUsers)
    BY DEF Sound, BookInv
  <1>2. CASE ServeScreens(c)
    <2>1. PICK q \in ListFor(c.user) : Turns(c, [c EXCEPT !.at = "answered", !.answer = q, !.result = "ok"])
      BY <1>2 DEF ServeScreens
    <2>2. PICK u \in ScreenUsers : u = c.user
      BY <1>1 DEF Sound, BookCalls
    <2>3. q \in Seq(RowsOf({u}))
      BY <2>2, ListOwn
    <2>4. PICK d : d = [c EXCEPT !.at = "answered", !.answer = q, !.result = "ok"]
      OBVIOUS
    <2>5. q \in Seq(RowsOf(ScreenUsers))
      <3>1. RowsOf({u}) \subseteq RowsOf(ScreenUsers)
        BY DEF RowsOf
      <3> QED BY <2>3, <3>1, SeqMonotonic
    <2>6. Sound(d)
      BY <1>1, <2>2, <2>3, <2>4, <2>5 DEF Sound, BookCalls
    <2> QED BY <1>1, <1>2, <2>1, <2>4, <2>6, TurnKeeps DEF ServeScreens
  <1>3. CASE FindScreen(c)
    <2>1. CASE Turns(c, [c EXCEPT !.at = "answered", !.result = "missing"]) /\ UNCHANGED saves
      <3>1. Sound([c EXCEPT !.at = "answered", !.result = "missing"])
        BY <1>1 DEF Sound, BookCalls
      <3> QED BY <1>1, <1>3, <2>1, <3>1, TurnKeeps DEF FindScreen
    <2>2. CASE c.op = "delete" /\ Turns(c, [c EXCEPT !.at = "found"]) /\ UNCHANGED saves
      <3>1. Sound([c EXCEPT !.at = "found"])
        BY <1>1 DEF Sound, BookCalls
      <3> QED BY <1>1, <1>3, <2>2, <3>1, TurnKeeps DEF FindScreen
    <2>3. CASE saves' = saves + 1
      <3>1. PICK created, now :
              /\ now = saves + 1
              /\ created = IF ScreenRow(c.row.id) = {} THEN saves + 1
                           ELSE (CHOOSE x \in ScreenRow(c.row.id) : TRUE).created
        OBVIOUS
      <3>2. Turns(c, [c EXCEPT !.at = "found", !.row.updated = now, !.row.created = created])
        BY <1>1, <1>3, <2>3, <3>1 DEF FindScreen
      <3>3. created \in Nat /\ now \in Nat
        <4>1. CASE ScreenRow(c.row.id) # {}
          <5>1. PICK x \in screens : created = x.created
            BY <3>1, <4>1 DEF ScreenRow
          <5> QED BY <1>1, <3>1, <5>1 DEF RowsOf
        <4> QED BY <1>1, <3>1, <4>1
      <3>4. PICK row : row = [c.row EXCEPT !.updated = now, !.created = created]
        OBVIOUS
      <3>5. row \in RowsOf(ScreenUsers \cup {"none"}) /\ row.user = c.row.user
        BY <1>1, <3>3, <3>4 DEF Sound, BookCalls, RowsOf
      <3>6. Turns(c, [c EXCEPT !.at = "found", !.row = row])
        BY <3>2, <3>4
      <3>7. Sound([c EXCEPT !.at = "found", !.row = row])
        BY <1>1, <3>5 DEF Sound, BookCalls
      <3> QED BY <1>1, <1>3, <2>3, <3>6, <3>7, TurnKeeps DEF FindScreen
    <2> QED BY <1>3, <2>1, <2>2, <2>3 DEF FindScreen
  <1>4. CASE LookForScreen(c)
    <2>1. PICK r \in {"created", "replaced"} : Turns(c, [c EXCEPT !.at = "looked", !.result = r])
      BY <1>4 DEF LookForScreen
    <2>2. Sound([c EXCEPT !.at = "looked", !.result = r])
      BY <1>1, <1>4 DEF Sound, BookCalls, LookForScreen
    <2> QED BY <1>1, <1>4, <2>1, <2>2, TurnKeeps DEF LookForScreen
  <1>5. CASE UpsertScreen(c)
    <2>1. PICK row : row = c.row
      OBVIOUS
    <2>2. row \in RowsOf({c.user}) /\ row \in RowsOf(ScreenUsers)
      BY <1>1, <1>5, <2>1 DEF Sound, BookCalls, RowsOf, UpsertScreen
    <2>3. <<row>> \in Seq(RowsOf({c.user})) /\ <<row>> \in Seq(RowsOf(ScreenUsers))
      BY <2>2
    <2>4. PICK a : a = <<row>>
      OBVIOUS
    <2>5. Sound([c EXCEPT !.at = "answered", !.answer = a])
      BY <1>1, <2>3, <2>4 DEF Sound, BookCalls
    <2>6. screens' = (screens \ ScreenRow(row.id)) \cup {row} /\ Turns(c, [c EXCEPT !.at = "answered", !.answer = a])
      BY <1>5, <2>1, <2>4 DEF UpsertScreen
    <2>7. IsFiniteSet(screens \ ScreenRow(row.id))
      BY <1>1, FS_Difference
    <2>8. IsFiniteSet(screens')
      BY <2>6, <2>7, FS_AddElement
    <2>9. screens' \subseteq RowsOf(ScreenUsers)
      BY <1>1, <2>2, <2>6
    <2> QED BY <1>1, <1>5, <2>5, <2>6, <2>8, <2>9, TurnKeeps DEF UpsertScreen
  <1>6. CASE RemoveScreen(c)
    <2>1. PICK r \in {"missing", "ok"} : Turns(c, [c EXCEPT !.at = "answered", !.result = r])
      BY <1>6 DEF RemoveScreen
    <2>2. Sound([c EXCEPT !.at = "answered", !.result = r])
      BY <1>1 DEF Sound, BookCalls
    <2>3. screens' = screens \ ScreenRow(c.row.id)
      BY <1>6 DEF RemoveScreen
    <2>4. IsFiniteSet(screens') /\ screens' \subseteq RowsOf(ScreenUsers)
      BY <1>1, <2>3, FS_Difference
    <2> QED BY <1>1, <1>6, <2>1, <2>2, <2>4, TurnKeeps DEF RemoveScreen
  <1> QED BY <1>2, <1>3, <1>4, <1>5, <1>6

LEMMA RepliesKeep ==
  ASSUME BookInv, NEW c \in bookCalls, BookAnswered(c) \/ BookLost(c)
  PROVE  BookInv'
  <1>1. \A e \in bookCalls : Sound(e)
    BY DEF Sound, BookInv
  <1>2. PICK u \in ScreenUsers : u = c.user
    BY <1>1 DEF Sound, BookCalls
  <1>3. CASE BookAnswered(c)
    <2>1. bookCalls' = bookCalls \ {c} /\ UNCHANGED <<screens, saves, user, booked>>
      BY <1>3 DEF BookAnswered
    <2>2. PICK q, rest : q = c.answer /\ rest = WithoutRow(Displayed(panel, {u}), c.row.id)
      OBVIOUS
    <2>3. q \in Seq(RowsOf({u})) /\ rest \in Seq(RowsOf({u}))
      BY <1>1, <1>2, <2>2, DisplayedOwn, WithoutTyped DEF Sound
    <2>4. q \o rest \in Seq(RowsOf({u}))
      BY <2>3, ConcatProperties
    <2>5. \/ panel' = [user |-> {u}, screens |-> q] \/ panel' = [user |-> {u}, screens |-> q \o rest]
          \/ panel' = panel
      BY <1>2, <1>3, <2>2 DEF BookAnswered
    <2>6. OfOne(panel.user, panel.screens)'
      <3>1. CASE panel' = panel
        BY <3>1 DEF BookInv, OfOne
      <3>2. CASE panel' # panel
        <4>1. PICK list \in Seq(RowsOf({u})) : panel' = [user |-> {u}, screens |-> list]
          BY <2>3, <2>4, <2>5, <3>2
        <4>2. panel'.user = {u} /\ panel'.screens \in Seq(RowsOf({u}))
          BY <4>1
        <4>3. panel'.screens \in Seq(RowsOf(panel'.user))
          BY <4>2
        <4> QED BY <4>2, <4>3 DEF OfOne
      <3> QED BY <3>1, <3>2
    <2> QED BY <2>1, <2>6 DEF BookInv
  <1>4. CASE BookLost(c)
    <2>1. UNCHANGED <<screens, saves, user, panel>>
      BY <1>4 DEF BookLost
    <2>2. PICK calls : calls = bookCalls \ {c}
      OBVIOUS
    <2>3. PICK row, op : row = NoScreen /\ op = "refresh"
      OBVIOUS
    <2>4. \/ AskBook(calls, op, u, row)
          \/ bookCalls' = calls /\ booked' = booked
      BY <1>2, <1>4, <2>2, <2>3 DEF BookLost
    <2>5. /\ \A e \in calls : Sound(e)
          /\ row \in RowsOf(ScreenUsers \cup {"none"})
          /\ op \in {"list", "refresh", "save", "put", "delete"} /\ op \notin {"save", "put"}
      BY <1>1, <2>2, <2>3, NoScreenTyped
    <2>6. booked' \in Nat /\ \A e \in bookCalls' : Sound(e)
      <3>1. CASE AskBook(calls, op, u, row)
        BY <2>5, <3>1, AskedSound
      <3>2. CASE bookCalls' = calls /\ booked' = booked
        BY <2>5, <3>2 DEF BookInv
      <3> QED BY <2>4, <3>1, <3>2
    <2> QED BY <2>1, <2>6 DEF BookInv, Sound, OfOne
  <1> QED BY <1>3, <1>4

LEMMA BookStep == BookInv /\ [BookNext]_bookVars => BookInv'
  <1> SUFFICES ASSUME BookInv, [BookNext]_bookVars PROVE BookInv'
    OBVIOUS
  <1>1. ASSUME NEW u \in ScreenUsers, EraseScreens(u) PROVE BookInv'
    <2>1. screens' \subseteq screens /\ UNCHANGED <<saves, user, panel, bookCalls, booked>>
      BY <1>1 DEF EraseScreens
    <2>2. IsFiniteSet(screens')
      BY <2>1, FS_Subset DEF BookInv
    <2> QED BY <2>1, <2>2 DEF BookInv, OfOne
  <1>2. CASE UNCHANGED bookVars
    BY <1>2 DEF bookVars, BookInv, OfOne
  <1>3. CASE \/ SignIn({}) \/ \E u \in ScreenUsers : SignIn({u})
             \/ \E i \in ScreenIds : SaveScreen(i)
             \/ \E u \in ScreenUsers, i \in PutIds : PutScreen(u, i)
             \/ \E x \in Range(panel.screens) : DeleteSaved(x)
    BY <1>3, AsksKeep
  <1>4. ASSUME NEW c \in bookCalls,
               \/ ServeScreens(c) \/ FindScreen(c) \/ LookForScreen(c) \/ UpsertScreen(c) \/ RemoveScreen(c)
        PROVE  BookInv'
    BY <1>4, ServingKeeps
  <1>5. ASSUME NEW c \in bookCalls, BookAnswered(c) \/ BookLost(c) PROVE BookInv'
    BY <1>5, RepliesKeep
  <1> QED BY <1>1, <1>2, <1>3, <1>4, <1>5 DEF BookNext

(* The panel shows screens of the user who is signed in and of no other,   *)
(* whatever arrives late (ScreenerWorkspace.tsx, savedScreens.ts).         *)
THEOREM PanelIsTheirs == BookSpec => []PanelIsOwn
  <1>1. BookInit => BookInv
    <2> SUFFICES ASSUME BookInit PROVE BookInv
      OBVIOUS
    <2>1. IsFiniteSet(screens) /\ screens \subseteq RowsOf(ScreenUsers)
      BY ScreensAssumption DEF BookInit, RowsOf, SomeIds
    <2> QED BY <2>1 DEF BookInit, BookInv, OfOne
  <1>2. BookInv => PanelIsOwn
    <2> SUFFICES ASSUME BookInv, NEW x \in Range(Displayed(panel, user)) PROVE user = {x.user}
      BY DEF PanelIsOwn
    <2>1. panel.user = user /\ x \in Range(panel.screens)
      BY DEF Displayed, Range
    <2>2. PICK u \in ScreenUsers : user = {u} /\ panel.screens \in Seq(RowsOf({u}))
      <3>1. panel.screens # <<>>
        BY <2>1 DEF Range
      <3>2. PICK u \in ScreenUsers : panel.user = {u} /\ panel.screens \in Seq(RowsOf(panel.user))
        BY <3>1 DEF BookInv, OfOne
      <3> QED BY <2>1, <3>2
    <2>3. x \in RowsOf({u})
      <3>1. PICK k \in DOMAIN panel.screens : x = panel.screens[k]
        BY <2>1 DEF Range
      <3> QED BY <2>2, <3>1, ElementOfSeq
    <2> QED BY <2>2, <2>3 DEF RowsOf
  <1> QED BY <1>1, <1>2, BookStep, PTL DEF BookSpec

-----------------------------------------------------------------------------
(* Market data.                                                            *)

Whole(q) == CanonicalRange(Zone, q.range, IntervalSize(q.interval))

(***************************************************************************)
(* The buckets of a zone whose offset never changes cover the range asked  *)
(* for (RangesCover).  Where it does change that is a fact about the zone: *)
(* the clock readings of a range must have instants on its two sides.      *)
(***************************************************************************)
RangesAreCovered ==
  \A a \in Asks : \A q \in MarketQueriesOf(a) : QueryStatus(q) = 200 =>
    Whole(q)[1] <= q.range[1] /\ q.range[2] <= Whole(q)[2]

LEMMA Buckets ==
  ASSUME NEW n \in Int, NEW d \in Nat \ {0}
  PROVE  /\ n \div d \in Int /\ (n \div d) * d \in Int
         /\ (n \div d) * d <= n /\ n < ((n \div d) + 1) * d /\ n < (n \div d) * d + d
  BY SMT

LEMMA RangesCover ==
  ASSUME NEW zone, NEW c \in Int, zone = [t \in Int |-> c], NEW size \in Nat \ {0},
         NEW low \in Int, NEW high \in Int
  PROVE  LET r == CanonicalRange(zone, <<low, high>>, size) IN r[1] <= low /\ high <= r[2]
  <1>1. \A w \in Int : Instant(zone, w) = w - c
    <2> SUFFICES ASSUME NEW w \in Int PROVE Instant(zone, w) = w - c
      OBVIOUS
    <2>1. DOMAIN zone = Int /\ w - c \in Int /\ zone[w] = c /\ zone[w - c] = c
      OBVIOUS
    <2> QED
      BY <2>1 DEF Instant
  <1>2. \A t \in Int : /\ FloorBucket(zone, t, size) \in Int
                       /\ FloorBucket(zone, t, size) <= t /\ t < FloorBucket(zone, t, size) + size
    <2> SUFFICES ASSUME NEW t \in Int
                 PROVE  /\ FloorBucket(zone, t, size) \in Int
                        /\ FloorBucket(zone, t, size) <= t /\ t < FloorBucket(zone, t, size) + size
      OBVIOUS
    <2>1. PICK k : k = ((t + c) \div size) * size
      OBVIOUS
    <2>2. k \in Int /\ k <= t + c /\ t + c < k + size
      BY <2>1, Buckets
    <2>3. Wall(zone, t) = t + c
      BY DEF Wall
    <2>4. FloorBucket(zone, t, size) = k - c
      BY <1>1, <2>1, <2>2, <2>3 DEF FloorBucket
    <2> QED
      BY <2>2, <2>4
  <1>3. \A t \in Int : FloorBucket(zone, t, size) # t => CeilBucket(zone, t, size) = FloorBucket(zone, t, size) + size
    <2> SUFFICES ASSUME NEW t \in Int, FloorBucket(zone, t, size) # t
                 PROVE  CeilBucket(zone, t, size) = FloorBucket(zone, t, size) + size
      OBVIOUS
    <2>1. PICK k : k = FloorBucket(zone, t, size)
      OBVIOUS
    <2>2. k \in Int /\ Wall(zone, k) = k + c
      BY <1>2, <2>1 DEF Wall
    <2>3. Instant(zone, k + c + size) = k + size
      BY <1>1, <2>2
    <2>4. CeilBucket(zone, t, size) = Instant(zone, Wall(zone, k) + size)
      BY <2>1 DEF CeilBucket
    <2> QED
      BY <2>1, <2>2, <2>3, <2>4
  <1>4. \A t \in Int : CeilBucket(zone, t, size) \in Int /\ t <= CeilBucket(zone, t, size)
    <2> SUFFICES ASSUME NEW t \in Int
                 PROVE  CeilBucket(zone, t, size) \in Int /\ t <= CeilBucket(zone, t, size)
      OBVIOUS
    <2>1. CASE FloorBucket(zone, t, size) = t
      BY <2>1 DEF CeilBucket
    <2>2. CASE FloorBucket(zone, t, size) # t
      BY <1>2, <1>3, <2>2
    <2> QED
      BY <2>1, <2>2
  <1>5. PICK s : s = FloorBucket(zone, low, size)
    OBVIOUS
  <1>6. PICK e : e = CeilBucket(zone, high, size)
    OBVIOUS
  <1>7. s \in Int /\ s <= low /\ e \in Int /\ high <= e
    BY <1>2, <1>4, <1>5, <1>6
  <1>8. Wall(zone, s) + size = s + c + size /\ Instant(zone, s + c + size) = s + size
    BY <1>1, <1>7 DEF Wall
  <1>9. CanonicalRange(zone, <<low, high>>, size) = <<s, IF e <= s THEN s + size ELSE e>>
    BY <1>5, <1>6, <1>8 DEF CanonicalRange
  <1> QED
    BY <1>7, <1>9

LEMMA FixedZonesCover ==
  ASSUME NEW c \in Int, Zone = [t \in Int |-> c],
         \A a \in Asks : \A q \in MarketQueriesOf(a) : q.range \in Int \X Int
  PROVE  RangesAreCovered
  <1> SUFFICES ASSUME NEW a \in Asks, NEW q \in MarketQueriesOf(a)
               PROVE  Whole(q)[1] <= q.range[1] /\ q.range[2] <= Whole(q)[2]
    BY DEF RangesAreCovered
  <1>1. PICK low \in Int, high \in Int : q.range = <<low, high>>
    BY SMT
  <1>2. IntervalSize(q.interval) \in Nat \ {0}
    BY MarketConstants DEF IntervalSize
  <1> QED
    BY <1>1, <1>2, RangesCover DEF Whole

(* What is fetched is fresh at the time of the fetch.                      *)
LEMMA ExpiryIsLater ==
  ASSUME NEW now \in Nat, NEW interval
  PROVE  now < BarsExpiry(now, interval, Ttl, DayLength)
  <1>1. CASE interval # "1d"
    BY <1>1, MarketConstants DEF BarsExpiry
  <1>2. CASE interval = "1d"
    <2>1. PICK k : k = now \div DayLength
      OBVIOUS
    <2> DEFINE Workdays == {d \in (k + 1)..(k + 3) : ~Weekend(d)}
               Ends == {d * DayLength : d \in Workdays}
    <2>2. k \in Int /\ now < (k + 1) * DayLength
      BY <2>1, Buckets, MarketConstants
    <2>3. BarsExpiry(now, interval, Ttl, DayLength) = Min(Ends)
      BY <1>2, <2>1 DEF BarsExpiry
    <2>4. \E d \in Workdays : \A x \in Workdays : d <= x
      <3>1. k + 1 \in Workdays \/ k + 2 \in Workdays \/ k + 3 \in Workdays
        BY <2>2 DEF Weekend
      <3> QED
        BY <2>2, <3>1
    <2>5. PICK d \in Workdays : \A x \in Workdays : d <= x
      BY <2>4
    <2>6. \A x \in Workdays : x \in Int /\ d * DayLength \in Int /\ x * DayLength \in Int /\ d * DayLength <= x * DayLength
      BY <2>2, <2>5, MarketConstants
    <2>7. \E x \in Ends : \A y \in Ends : x <= y
      BY <2>5, <2>6
    <2>8. Min(Ends) \in Ends
      <3> HIDE DEF Ends
      <3> QED
        BY <2>7 DEF Min
    <2>9. \A x \in Workdays : (k + 1) * DayLength <= x * DayLength
      BY <2>2, MarketConstants
    <2>10. \A y \in Ends : now < y
      <3> SUFFICES ASSUME NEW x \in Workdays PROVE now < x * DayLength
        OBVIOUS
      <3>1. (k + 1) * DayLength \in Int /\ x * DayLength \in Int
        BY <2>2, MarketConstants
      <3> QED
        BY <2>2, <2>9, <3>1
    <2> QED
      BY <2>3, <2>8, <2>10
  <1> QED
    BY <1>1, <1>2

IsLeg(g) ==
  g = [at |-> g.at, op |-> g.op, listing |-> g.listing, interval |-> g.interval, range |-> g.range,
       start |-> g.start, tried |-> g.tried, todo |-> g.todo, stale |-> g.stale, row |-> g.row,
       out |-> g.out]

\* an outcome is not expired when the leg's call began
Timely(g, o) ==
  g.start < IF g.op = "quote" THEN o.fetched + Ttl ELSE BarsExpiry(o.fetched, g.interval, Ttl, DayLength)

\* the bars of a range, from a provider or from a row
BarsOf(o, range) ==
  /\ o = [f \in DOMAIN o |-> o[f]] /\ {"ok", "source", "as_of", "range", "bars", "basis"} \subseteq DOMAIN o
  /\ o.range = range /\ o.bars \subseteq range[1]..(range[2] - 1)

QuoteRow(r) ==
  /\ r.fetched \in Nat /\ r.expires = r.fetched + Ttl
  /\ r.out = [f \in DOMAIN r.out |-> r.out[f]] /\ {"ok", "source", "as_of"} \subseteq DOMAIN r.out

BarRow(r) ==
  /\ r.fetched \in Nat /\ r.expires = BarsExpiry(r.fetched, r.interval, Ttl, DayLength)
  /\ BarsOf(r.out, r.range)

Canonical(g, q) == \A s \in q : g.range = Whole(s)

\* a leg, of the queries q of its request, by how far it is
LegInv(g, q, l) ==
  /\ IsLeg(g) /\ g.listing = l /\ g.start \in Nat
  /\ g.op \in {"quote", "bars"}
  /\ \A s \in q : g.op = "bars" /\ g.interval = s.interval /\ (g.at = "listing" => g.range = s.range)
  /\ g.at \notin {"listing", "done"} => Canonical(g, q)
  /\ g.at = "freshBars" => /\ g.op = "bars"
                           /\ \A r \in g.row : /\ BarRow(r) /\ r.range = g.range
                                               /\ r.interval = g.interval /\ g.start < r.expires
  /\ g.at = "store" => \E o : /\ g.out = {o}
                              /\ o = [f \in DOMAIN o |-> o[f]] /\ {"ok", "source", "as_of"} \subseteq DOMAIN o
                              /\ g.op = "bars" => BarsOf(o, g.range)
  /\ g.at = "done" => \E o : /\ g.out = {o}
                             /\ o.ok => /\ Canonical(g, q) /\ Timely(g, o)
                                        /\ g.op = "bars" => BarsOf(o, g.range)

AskInv(a, x) ==
  x.at = "legs" =>
    /\ x = [at |-> "legs", q |-> x.q, legs |-> x.legs]
    /\ \A s \in x.q : /\ s \in MarketQueriesOf(a) /\ QueryStatus(s) = 200 /\ x.q = {s}
                      /\ SeriesKey(s).subjects = DOMAIN x.legs
    /\ x.legs = [l \in DOMAIN x.legs |-> x.legs[l]]
    /\ \A l \in DOMAIN x.legs : LegInv(x.legs[l], x.q, l)

\* the legs of an answer, and of one to the query of a key
LegsServe(legs) ==
  \A l \in DOMAIN legs : legs[l].out.ok => legs[l].leg.listing = l /\ Timely(legs[l].leg, legs[l].out)

KeyServed(key, legs) ==
  /\ key.subjects = DOMAIN legs
  /\ \A l \in DOMAIN legs : legs[l].out.ok =>
       /\ legs[l].out.basis = key.basis /\ legs[l].out.range = Whole(key)
       /\ legs[l].out.bars \subseteq legs[l].out.range[1]..(legs[l].out.range[2] - 1)

EntryInv(e) == LegsServe(e.legs) /\ KeyServed(e.key, e.legs)

AnswerInv(x) ==
  /\ LegsServe(x.legs)
  /\ \A s \in x.q : /\ KeyServed(SeriesKey(s), x.legs) /\ QueryStatus(s) = 200
                    /\ \E a \in Asks : s \in MarketQueriesOf(a)

MarketInv ==
  /\ clock \in Nat
  /\ \A r \in quoteRows : QuoteRow(r)
  /\ \A r \in barRows : BarRow(r)
  /\ DOMAIN ask = Asks /\ ask = [a \in Asks |-> ask[a]]
  /\ \A a \in Asks : AskInv(a, ask[a])
  /\ \E E : seriesCache \in Seq(E) /\ \A e \in E : EntryInv(e)
  /\ \A x \in answers : AnswerInv(x)

LEMMA MarketInitially == MarketInit => MarketInv
  <1> SUFFICES ASSUME MarketInit PROVE MarketInv
    OBVIOUS
  <1>1. \A a \in Asks : AskInv(a, ask[a])
    BY DEF MarketInit, AskInv
  <1>2. seriesCache \in Seq({}) /\ \A e \in {} : EntryInv(e)
    BY DEF MarketInit
  <1> QED
    BY <1>1, <1>2 DEF MarketInit, MarketInv

(* A leg that moves.                                                       *)
LEMMA LegMoves ==
  ASSUME MarketInv, NEW a \in Asks, NEW l \in Listings, NEW g,
         ask[a].at = "legs", l \in DOMAIN ask[a].legs, SetLeg(a, l, g),
         LegInv(g, ask[a].q, l)
  PROVE  /\ DOMAIN ask' = Asks /\ ask' = [b \in Asks |-> ask'[b]]
         /\ \A b \in Asks : AskInv(b, ask'[b])
  <1>1. PICK x : x = ask[a]
    OBVIOUS
  <1>2. /\ DOMAIN ask = Asks /\ AskInv(a, x) /\ x.at = "legs" /\ l \in DOMAIN x.legs
        /\ x = [at |-> "legs", q |-> x.q, legs |-> x.legs] /\ LegInv(g, x.q, l)
    BY <1>1 DEF MarketInv, AskInv
  <1>3. PICK y : y = [x EXCEPT !.legs = [x.legs EXCEPT ![l] = g]]
    OBVIOUS
  <1>4. ask' = [ask EXCEPT ![a] = y]
    BY <1>1, <1>2, <1>3 DEF SetLeg
  <1>5. /\ y.at = "legs" /\ y.q = x.q /\ y.legs = [x.legs EXCEPT ![l] = g]
        /\ y = [at |-> "legs", q |-> y.q, legs |-> y.legs]
    BY <1>2, <1>3
  <1>6. DOMAIN y.legs = DOMAIN x.legs /\ y.legs = [m \in DOMAIN y.legs |-> y.legs[m]]
        /\ y.legs[l] = g /\ \A m \in DOMAIN x.legs : m # l => y.legs[m] = x.legs[m]
    BY <1>2, <1>5
  <1>7. AskInv(a, y)
    <2>1. \A m \in DOMAIN y.legs : LegInv(y.legs[m], y.q, m)
      BY <1>2, <1>5, <1>6 DEF AskInv
    <2>2. \A s \in y.q : /\ s \in MarketQueriesOf(a) /\ QueryStatus(s) = 200 /\ y.q = {s}
                         /\ SeriesKey(s).subjects = DOMAIN y.legs
      BY <1>2, <1>5, <1>6 DEF AskInv
    <2> QED
      BY <1>5, <1>6, <2>1, <2>2 DEF AskInv
  <1>8. /\ DOMAIN ask' = Asks /\ ask' = [b \in Asks |-> ask'[b]] /\ ask'[a] = y
        /\ \A b \in Asks : b # a => ask'[b] = ask[b]
    BY <1>2, <1>4
  <1> QED
    BY <1>7, <1>8 DEF MarketInv

LEMMA FetchedIs ==
  ASSUME NEW o, NEW at, "ok" \in DOMAIN o
  PROVE  /\ Fetched(o, at) = [f \in DOMAIN Fetched(o, at) |-> Fetched(o, at)[f]]
         /\ Fetched(o, at).fetched = at /\ Fetched(o, at).ok = o.ok
         /\ \A range : BarsOf(o, range) => BarsOf(Fetched(o, at), range)
  <1>1. PICK p : p = Fetched(o, at)
    OBVIOUS
  <1>2. /\ p = [f \in DOMAIN p |-> p[f]] /\ DOMAIN p = DOMAIN o \cup {"fetched"}
        /\ p.fetched = at /\ \A f \in DOMAIN o : f # "fetched" => p[f] = o[f]
    BY <1>1 DEF Fetched
  <1>3. p.ok = o.ok
    BY <1>2
  <1>4. ASSUME NEW range, BarsOf(o, range) PROVE BarsOf(p, range)
    <2>1. {"ok", "source", "as_of", "range", "bars", "basis"} \subseteq DOMAIN o
      BY <1>4 DEF BarsOf
    <2>2. p.range = o.range /\ p.bars = o.bars
      BY <1>2, <2>1
    <2> QED
      BY <1>2, <1>4, <2>1, <2>2 DEF BarsOf
  <1> QED
    BY <1>1, <1>2, <1>3, <1>4

(* A leg that is answered.                                                 *)
LEMMA AnsweredIs ==
  ASSUME NEW g, NEW q, NEW l, LegInv(g, q, l), NEW o,
         o.ok => g.at \notin {"listing", "done"} /\ Timely(g, o) /\ (g.op = "bars" => BarsOf(o, g.range))
  PROVE  LegInv(Answer1(g, o), q, l)
  <1>1. PICK h : h = Answer1(g, o)
    OBVIOUS
  <1>2. IsLeg(g)
    BY DEF LegInv
  <1>3. h = [at |-> "done", op |-> g.op, listing |-> g.listing, interval |-> g.interval, range |-> g.range,
             start |-> g.start, tried |-> g.tried, todo |-> g.todo, stale |-> g.stale, row |-> g.row,
             out |-> {o}]
    BY <1>1, <1>2 DEF Answer1, IsLeg
  <1>4. o.ok => Canonical(h, q) /\ Timely(h, o) /\ (h.op = "bars" => BarsOf(o, h.range))
    BY <1>3 DEF Timely, LegInv, Canonical
  <1>5. IsLeg(h)
    BY <1>3 DEF IsLeg
  <1>6. /\ h.listing = l /\ h.start \in Nat /\ h.op \in {"quote", "bars"}
        /\ \A s \in q : h.op = "bars" /\ h.interval = s.interval
        /\ h.at = "done" /\ h.out = {o}
    BY <1>3 DEF LegInv
  <1>7. LegInv(h, q, l)
    BY <1>4, <1>5, <1>6 DEF LegInv
  <1> QED
    BY <1>1, <1>7

(* What a leg becomes in the middle of its lookup.                         *)
LEMMA FoundKeeps ==
  ASSUME MarketInv, NEW a \in Asks, NEW l \in Listings, FindListing(a, l)
  PROVE  /\ DOMAIN ask' = Asks /\ ask' = [b \in Asks |-> ask'[b]]
         /\ \A b \in Asks : AskInv(b, ask'[b])
  <1>1. PICK g : g = ask[a].legs[l]
    OBVIOUS
  <1>2. /\ ask[a].at = "legs" /\ l \in DOMAIN ask[a].legs /\ g.at = "listing"
        /\ LegInv(g, ask[a].q, l) /\ clock \in Nat
    BY <1>1 DEF FindListing, LegIs, MarketInv, AskInv
  <1>3. CASE l \notin known
    <2>1. PICK o : o = Unavailable("cache", "missing_coverage", FALSE, clock)
      OBVIOUS
    <2>2. g.listing = l /\ o.ok = FALSE
      BY <1>2, <2>1 DEF LegInv, Unavailable
    <2>3. SetLeg(a, l, Answer1(g, o))
      BY <1>1, <1>3, <2>1, <2>2 DEF FindListing
    <2> QED
      BY <1>2, <2>2, <2>3, AnsweredIs, LegMoves
  <1>4. CASE l \in known
    <2>1. PICK w : w = CanonicalRange(Zone, g.range, IntervalSize(g.interval))
      OBVIOUS
    <2>2. PICK todo : todo = AdaptersFor(g.op, g.interval, Realtime, Dailies)
      OBVIOUS
    <2>3. PICK h : h = [at |-> "fresh", op |-> g.op, listing |-> g.listing, interval |-> g.interval,
                        range |-> IF g.op = "quote" THEN g.range ELSE w, start |-> clock,
                        tried |-> g.tried, todo |-> todo, stale |-> g.stale, row |-> g.row, out |-> g.out]
      OBVIOUS
    <2>4. IsLeg(g) /\ g.listing = l
      BY <1>2 DEF LegInv
    <2>5. PICK n : n = IF g.op = "quote" THEN g.range ELSE w
      OBVIOUS
    <2>6. SetLeg(a, l, h)
      <3>3. PICK e : e = [g EXCEPT !.at = "fresh", !.start = clock, !.range = n, !.todo = todo]
        OBVIOUS
      <3>4. e = [at |-> "fresh", op |-> g.op, listing |-> g.listing, interval |-> g.interval,
                 range |-> n, start |-> clock, tried |-> g.tried, todo |-> todo, stale |-> g.stale,
                 row |-> g.row, out |-> g.out]
        BY <2>4, <3>3 DEF IsLeg
      <3>1. h = [g EXCEPT !.at = "fresh", !.start = clock, !.range = n, !.todo = todo]
        BY <2>3, <2>5, <3>3, <3>4
      <3>2. SetLeg(a, l, [g EXCEPT !.at = "fresh", !.start = clock,
                            !.range = IF g.op = "quote" THEN g.range ELSE w, !.todo = todo])
        BY <1>1, <1>4, <2>1, <2>2, <2>4 DEF FindListing
      <3> QED
        BY <2>5, <3>1, <3>2
    <2>7. IsLeg(h)
      BY <2>3 DEF IsLeg
    <2>8. \A s \in ask[a].q : h.op = "bars" /\ h.interval = s.interval /\ h.range = Whole(s)
      BY <1>2, <2>1, <2>3 DEF LegInv, Whole
    <2>9. LegInv(h, ask[a].q, l)
      BY <1>2, <2>3, <2>7, <2>8 DEF LegInv, Canonical
    <2> QED
      BY <1>2, <2>6, <2>9, LegMoves
  <1> QED
    BY <1>3, <1>4

LEMMA MovedOn ==
  ASSUME NEW g, NEW q, NEW l, LegInv(g, q, l), g.at \notin {"listing", "done"}, NEW h, IsLeg(h),
         h.at \in {"latest", "provider"}, h.op = g.op, h.listing = g.listing, h.interval = g.interval,
         h.range = g.range, h.start = g.start
  PROVE  LegInv(h, q, l)
  BY DEF LegInv, Canonical

LEMMA ReadFreshKeeps ==
  ASSUME MarketInv, NEW a \in Asks, NEW l \in Listings, ReadFresh(a, l)
  PROVE  /\ DOMAIN ask' = Asks /\ ask' = [b \in Asks |-> ask'[b]]
         /\ \A b \in Asks : AskInv(b, ask'[b])
  <1>1. PICK g : g = ask[a].legs[l]
    OBVIOUS
  <1>2. /\ ask[a].at = "legs" /\ l \in DOMAIN ask[a].legs /\ g.at = "fresh"
        /\ LegInv(g, ask[a].q, l) /\ IsLeg(g)
    <2>1. ask[a].at = "legs" /\ l \in DOMAIN ask[a].legs /\ g.at = "fresh"
      BY <1>1 DEF ReadFresh, LegIs
    <2>2. LegInv(g, ask[a].q, l)
      BY <1>1, <2>1 DEF MarketInv, AskInv
    <2> QED
      BY <2>1, <2>2 DEF LegInv
  <1>3. CASE SetLeg(a, l, [g EXCEPT !.at = "latest"])
    <2>1. PICK h : h = [at |-> "latest", op |-> g.op, listing |-> g.listing, interval |-> g.interval,
                        range |-> g.range, start |-> g.start, tried |-> g.tried, todo |-> g.todo,
                        stale |-> g.stale, row |-> g.row, out |-> g.out]
      OBVIOUS
    <2>2. h = [g EXCEPT !.at = "latest"] /\ IsLeg(h)
      BY <1>2, <2>1 DEF IsLeg
    <2>3. LegInv(h, ask[a].q, l)
      BY <1>2, <2>1, <2>2, MovedOn
    <2> QED
      BY <1>2, <1>3, <2>2, <2>3, LegMoves
  <1>4. CASE \E r \in Fresh(QuotesOf(g.listing), g.start) :
               g.op = "quote" /\ SetLeg(a, l, Answer1(g, Fetched(r.out, r.fetched)))
    <2>1. PICK r \in Fresh(QuotesOf(g.listing), g.start) :
                 g.op = "quote" /\ SetLeg(a, l, Answer1(g, Fetched(r.out, r.fetched)))
      BY <1>4
    <2>2. r \in quoteRows /\ QuoteRow(r) /\ r.expires > g.start
      BY <2>1 DEF Fresh, QuotesOf, MarketInv
    <2>3. PICK o : o = Fetched(r.out, r.fetched)
      OBVIOUS
    <2>4. o.fetched = r.fetched
      BY <2>2, <2>3, FetchedIs DEF QuoteRow
    <2>5. Timely(g, o) /\ g.op # "bars"
      BY <1>2, <2>1, <2>2, <2>4 DEF QuoteRow, Timely, LegInv
    <2>6. LegInv(Answer1(g, o), ask[a].q, l)
      BY <1>2, <2>5, AnsweredIs
    <2> QED
      BY <1>2, <2>1, <2>3, <2>6, LegMoves
  <1>5. CASE \E r \in Fresh(RangesOf(g), g.start) :
               g.op # "quote" /\ SetLeg(a, l, [g EXCEPT !.at = "freshBars", !.row = {r}])
    <2>1. PICK r \in Fresh(RangesOf(g), g.start) :
                 g.op # "quote" /\ SetLeg(a, l, [g EXCEPT !.at = "freshBars", !.row = {r}])
      BY <1>5
    <2>2. /\ r \in barRows /\ BarRow(r) /\ r.range = g.range /\ r.interval = g.interval
          /\ g.start < r.expires
      <3>1. r \in barRows /\ r.range = g.range /\ r.interval = g.interval /\ r.expires > g.start
        BY <2>1 DEF Fresh, RangesOf
      <3>2. BarRow(r)
        BY <3>1 DEF MarketInv
      <3> QED
        BY <3>1, <3>2
    <2>3. PICK h : h = [at |-> "freshBars", op |-> g.op, listing |-> g.listing, interval |-> g.interval,
                        range |-> g.range, start |-> g.start, tried |-> g.tried, todo |-> g.todo,
                        stale |-> g.stale, row |-> {r}, out |-> g.out]
      OBVIOUS
    <2>4. h = [g EXCEPT !.at = "freshBars", !.row = {r}] /\ IsLeg(h)
      <3>1. PICK e : e = [g EXCEPT !.at = "freshBars", !.row = {r}]
        OBVIOUS
      <3>2. e = [at |-> "freshBars", op |-> g.op, listing |-> g.listing, interval |-> g.interval,
                 range |-> g.range, start |-> g.start, tried |-> g.tried, todo |-> g.todo,
                 stale |-> g.stale, row |-> {r}, out |-> g.out]
        BY <1>2, <3>1 DEF IsLeg
      <3>3. IsLeg(h)
        BY <2>3 DEF IsLeg
      <3> QED
        BY <2>3, <3>1, <3>2, <3>3
    <2>5. LegInv(h, ask[a].q, l)
      BY <1>2, <2>1, <2>2, <2>3, <2>4 DEF LegInv, Canonical
    <2> QED
      BY <1>2, <2>1, <2>4, <2>5, LegMoves
  <1> QED
    BY <1>1, <1>3, <1>4, <1>5 DEF ReadFresh, LatestQuotes, LatestRanges

LEMMA ReadBarsKeeps ==
  ASSUME MarketInv, NEW a \in Asks, NEW l \in Listings, ReadBars(a, l)
  PROVE  /\ DOMAIN ask' = Asks /\ ask' = [b \in Asks |-> ask'[b]]
         /\ \A b \in Asks : AskInv(b, ask'[b])
  <1>1. PICK g : g = ask[a].legs[l]
    OBVIOUS
  <1>2. ask[a].at = "legs" /\ l \in DOMAIN ask[a].legs /\ g.at = "freshBars"
    BY <1>1 DEF ReadBars, LegIs
  <1>3. LegInv(g, ask[a].q, l)
    BY <1>1, <1>2 DEF MarketInv, AskInv
  <1>4. PICK r \in g.row, s \in barRows :
          /\ SameRow(r, s)
          /\ SetLeg(a, l, Answer1(g, Fetched([r.out EXCEPT !.bars = s.out.bars], r.fetched)))
    BY <1>1 DEF ReadBars
  <1>5. /\ BarRow(r) /\ r.range = g.range /\ r.interval = g.interval /\ g.start < r.expires
        /\ g.op = "bars" /\ BarRow(s)
    BY <1>2, <1>3, <1>4 DEF LegInv, MarketInv
  <1>6. s.range = r.range
    <2>1. "range" \in {"listing", "source", "interval", "basis", "range"}
      OBVIOUS
    <2> QED
      BY <1>4, <2>1 DEF SameRow
  <1>7. PICK o : o = [r.out EXCEPT !.bars = s.out.bars]
    OBVIOUS
  <1>8. BarsOf(o, g.range) /\ "ok" \in DOMAIN o
    BY <1>5, <1>6, <1>7 DEF BarRow, BarsOf
  <1>9. PICK p : p = Fetched(o, r.fetched)
    OBVIOUS
  <1>10. p.fetched = r.fetched /\ BarsOf(p, g.range)
    BY <1>8, <1>9, FetchedIs
  <1>11. Timely(g, p)
    BY <1>5, <1>10 DEF Timely, BarRow
  <1>12. LegInv(Answer1(g, p), ask[a].q, l)
    BY <1>2, <1>3, <1>10, <1>11, AnsweredIs
  <1> QED
    BY <1>2, <1>4, <1>7, <1>9, <1>12, LegMoves

LEMMA ReadLatestKeeps ==
  ASSUME MarketInv, NEW a \in Asks, NEW l \in Listings, ReadLatest(a, l)
  PROVE  /\ DOMAIN ask' = Asks /\ ask' = [b \in Asks |-> ask'[b]]
         /\ \A b \in Asks : AskInv(b, ask'[b])
  <1>1. PICK g : g = ask[a].legs[l]
    OBVIOUS
  <1>2. ask[a].at = "legs" /\ l \in DOMAIN ask[a].legs /\ g.at = "latest"
    BY <1>1 DEF ReadLatest, LegIs
  <1>3. LegInv(g, ask[a].q, l) /\ IsLeg(g)
    <2>1. LegInv(g, ask[a].q, l)
      BY <1>1, <1>2 DEF MarketInv, AskInv
    <2> QED
      BY <2>1 DEF LegInv
  <1>4. PICK h : /\ SetLeg(a, l, h)
                 /\ h = [g EXCEPT !.at = "provider"] \/ \E x : h = [g EXCEPT !.at = "provider", !.stale = {x}]
    BY <1>1 DEF ReadLatest
  <1>5. /\ IsLeg(h) /\ h.at = "provider" /\ h.op = g.op /\ h.listing = g.listing
        /\ h.interval = g.interval /\ h.range = g.range /\ h.start = g.start
    <2>1. PICK stale : h = [at |-> "provider", op |-> g.op, listing |-> g.listing, interval |-> g.interval,
                            range |-> g.range, start |-> g.start, tried |-> g.tried, todo |-> g.todo,
                            stale |-> stale, row |-> g.row, out |-> g.out]
      <3>1. CASE h = [g EXCEPT !.at = "provider"]
        BY <1>3, <3>1 DEF IsLeg
      <3>2. ASSUME NEW x, h = [g EXCEPT !.at = "provider", !.stale = {x}]
            PROVE  h = [at |-> "provider", op |-> g.op, listing |-> g.listing, interval |-> g.interval,
                        range |-> g.range, start |-> g.start, tried |-> g.tried, todo |-> g.todo,
                        stale |-> {x}, row |-> g.row, out |-> g.out]
        BY <1>3, <3>2 DEF IsLeg
      <3> QED
        BY <1>4, <3>1, <3>2
    <2> QED
      BY <2>1 DEF IsLeg
  <1> QED
    BY <1>2, <1>3, <1>4, <1>5, MovedOn, LegMoves

(* What a provider makes available is of the range it was asked for.       *)
LEMMA FailedIsNot ==
  ASSUME NEW adapter, NEW reply, NEW at
  PROVE  Failed(adapter, reply, at).ok = FALSE
  BY DEF Failed, Polygon, Stooq, Sidecar, Unavailable

LEMMA BarsAreOfRange ==
  ASSUME NEW adapter, NEW reply, NEW interval, NEW range, NEW bars, NEW at, NEW o,
         o = BarsOutcome(adapter, reply, interval, range, bars, at), o.ok,
         bars \subseteq range[1]..(range[2] - 1)
  PROVE  BarsOf(o, range)
  <1>1. Unavailable(adapter, "missing_coverage", FALSE, at).ok = FALSE
    BY DEF Unavailable
  <1>2. Failed(adapter, IF reply[1] \in {"ok", "unadjusted"} THEN <<"empty">> ELSE reply, at).ok = FALSE
    BY FailedIsNot
  <1>3. o = [ok |-> TRUE, source |-> adapter, range |-> range, bars |-> bars,
             basis |-> IF adapter # "stooq" /\ reply[1] = "unadjusted" THEN "unadjusted" ELSE Adjusted,
             as_of |-> IF bars = {} THEN range[2] ELSE Max(bars)]
    BY <1>1, <1>2, Zenon DEF BarsOutcome
  <1>4. PICK basis, asOf : o = [ok |-> TRUE, source |-> adapter, range |-> range, bars |-> bars,
                                basis |-> basis, as_of |-> asOf]
    BY <1>3
  <1> QED
    BY <1>4 DEF BarsOf

LEMMA QuoteIs ==
  ASSUME NEW adapter, NEW reply, NEW daily, NEW at, NEW day, NEW o,
         o = QuoteOutcome(adapter, reply, daily, at, day), o.ok
  PROVE  o = [f \in DOMAIN o |-> o[f]] /\ {"ok", "source", "as_of"} \subseteq DOMAIN o
  <1>1. Unavailable(adapter, "missing_coverage", FALSE, at).ok = FALSE /\ Failed(adapter, reply, at).ok = FALSE
    BY FailedIsNot DEF Unavailable
  <1>2. PICK none, failed : none = Unavailable(adapter, "missing_coverage", FALSE, at)
                            /\ failed = Failed(adapter, reply, at)
    OBVIOUS
  <1>3. \/ o = none \/ o = failed \/ o = [ok |-> TRUE, source |-> adapter, as_of |-> at]
        \/ o = [ok |-> TRUE, source |-> adapter, as_of |-> day]
    <2>1. o = CASE adapter = "stooq" -> none
                [] reply[1] = "ok" -> [ok |-> TRUE, source |-> adapter, as_of |-> at]
                [] adapter = "polygon" /\ reply[1] \in {"403", "malformed"} /\ daily[1] = "ok" ->
                     [ok |-> TRUE, source |-> adapter, as_of |-> day]
                [] OTHER -> failed
      BY <1>2, Zenon DEF QuoteOutcome
    <2> QED
      BY <2>1
  <1>4. PICK t : o = [ok |-> TRUE, source |-> adapter, as_of |-> t]
    BY <1>1, <1>2, <1>3
  <1> QED
    BY <1>4

LEMMA CallKeeps ==
  ASSUME MarketInv, NEW a \in Asks, NEW l \in Listings, NEW reply, NEW daily, CallProvider(a, l, reply, daily)
  PROVE  /\ DOMAIN ask' = Asks /\ ask' = [b \in Asks |-> ask'[b]]
         /\ \A b \in Asks : AskInv(b, ask'[b])
  <1>1. PICK g : g = ask[a].legs[l]
    OBVIOUS
  <1>2. PICK told : told = [g EXCEPT !.tried = @ \cup {Head(g.todo)}, !.todo = Tail(@)]
    OBVIOUS
  <1>3. PICK o : o = IF g.op = "quote"
                     THEN QuoteOutcome(Head(g.todo), reply, daily, clock, (clock \div DayLength) * DayLength)
                     ELSE BarsOutcome(Head(g.todo), reply, g.interval, g.range,
                                      Tape(g.range, g.interval, clock), clock)
    OBVIOUS
  <1>4. ask[a].at = "legs" /\ l \in DOMAIN ask[a].legs /\ g.at = "provider"
    BY <1>1 DEF CallProvider, LegIs
  <1>5. LegInv(g, ask[a].q, l)
    BY <1>1, <1>4 DEF MarketInv, AskInv
  <1>6. SetLeg(a, l, told) \/ SetLeg(a, l, Concluded(told, o))
    BY <1>1, <1>2, <1>3 DEF CallProvider
  <1>7. PICK tried, todo : told = [at |-> g.at, op |-> g.op, listing |-> g.listing, interval |-> g.interval,
                                   range |-> g.range, start |-> g.start, tried |-> tried, todo |-> todo,
                                   stale |-> g.stale, row |-> g.row, out |-> g.out]
    <2>1. IsLeg(g)
      BY <1>5 DEF LegInv
    <2>2. PICK tried, todo : tried = g.tried \cup {Head(g.todo)} /\ todo = Tail(g.todo)
      OBVIOUS
    <2>3. told = [g EXCEPT !.tried = tried, !.todo = todo]
      BY <1>2, <2>1, <2>2 DEF IsLeg
    <2> QED
      BY <2>1, <2>3 DEF IsLeg
  <1>8. LegInv(told, ask[a].q, l) /\ IsLeg(told)
    <2>1. IsLeg(told)
      BY <1>7 DEF IsLeg
    <2> QED
      BY <1>4, <1>5, <1>7, <2>1, MovedOn
  <1>9. CASE SetLeg(a, l, told)
    BY <1>4, <1>8, <1>9, LegMoves
  <1>10. CASE SetLeg(a, l, Concluded(told, o)) /\ ~o.ok
    <2>1. PICK u : SetLeg(a, l, Answer1(told, u)) /\ ~u.ok
      <3>1. CASE told.stale = {}
        BY <1>10, <3>1 DEF Concluded
      <3>2. CASE told.stale # {}
        <4>1. PICK s : s = CHOOSE x \in told.stale : TRUE
          OBVIOUS
        <4>2. PICK u : u = Unavailable(s.source, "stale_data", o.retryable, s.as_of)
          OBVIOUS
        <4>3. ~u.ok
          BY <4>2 DEF Unavailable
        <4>4. Concluded(told, o) = Answer1(told, u)
          BY <1>10, <3>2, <4>1, <4>2 DEF Concluded
        <4> QED
          BY <1>10, <4>3, <4>4
      <3> QED
        BY <3>1, <3>2
    <2>2. LegInv(Answer1(told, u), ask[a].q, l)
      BY <1>8, <2>1, AnsweredIs
    <2> QED
      BY <1>4, <2>1, <2>2, LegMoves
  <1>11. CASE SetLeg(a, l, Concluded(told, o)) /\ o.ok
    <2>1. PICK h : h = [told EXCEPT !.at = "store", !.out = {o}]
      OBVIOUS
    <2>2. SetLeg(a, l, h)
      BY <1>11, <2>1 DEF Concluded
    <2>3. h = [at |-> "store", op |-> told.op, listing |-> told.listing, interval |-> told.interval,
               range |-> told.range, start |-> told.start, tried |-> told.tried, todo |-> told.todo,
               stale |-> told.stale, row |-> told.row, out |-> {o}]
      BY <1>8, <2>1 DEF IsLeg
    <2>4. IsLeg(h)
      BY <2>3 DEF IsLeg
    <2>5. /\ o = [f \in DOMAIN o |-> o[f]] /\ {"ok", "source", "as_of"} \subseteq DOMAIN o
          /\ g.op = "bars" => BarsOf(o, g.range)
      <3>1. CASE g.op = "quote"
        BY <1>3, <1>11, <3>1, QuoteIs
      <3>2. CASE g.op = "bars"
        <4>1. Tape(g.range, g.interval, clock) \subseteq g.range[1]..(g.range[2] - 1)
          BY DEF Tape
        <4>2. BarsOf(o, g.range)
          BY <1>3, <1>11, <3>2, <4>1, BarsAreOfRange
        <4> QED
          BY <4>2 DEF BarsOf
      <3> QED
        BY <1>5, <3>1, <3>2 DEF LegInv
    <2>6. LegInv(h, ask[a].q, l)
      BY <1>4, <1>7, <1>8, <2>3, <2>4, <2>5 DEF LegInv, Canonical
    <2> QED
      BY <1>4, <2>2, <2>6, LegMoves
  <1> QED
    BY <1>6, <1>9, <1>10, <1>11

LEMMA StoreKeeps ==
  ASSUME MarketInv, NEW a \in Asks, NEW l \in Listings, StoreAnswer(a, l)
  PROVE  /\ DOMAIN ask' = Asks /\ ask' = [b \in Asks |-> ask'[b]]
         /\ \A b \in Asks : AskInv(b, ask'[b])
         /\ \A r \in quoteRows' : QuoteRow(r)
         /\ \A r \in barRows' : BarRow(r)
  <1>1. PICK g : g = ask[a].legs[l]
    OBVIOUS
  <1>2. ask[a].at = "legs" /\ l \in DOMAIN ask[a].legs /\ g.at = "store"
    BY <1>1 DEF StoreAnswer, LegIs
  <1>3. LegInv(g, ask[a].q, l)
    BY <1>1, <1>2 DEF MarketInv, AskInv
  <1>4. PICK o : /\ g.out = {o}
                 /\ o = [f \in DOMAIN o |-> o[f]] /\ {"ok", "source", "as_of"} \subseteq DOMAIN o
                 /\ g.op = "bars" => BarsOf(o, g.range)
    BY <1>2, <1>3 DEF LegInv
  <1>5. o = CHOOSE x \in g.out : TRUE
    BY <1>4
  <1>6. PICK p : p = Fetched(o, g.start)
    OBVIOUS
  <1>7. g.start \in Nat /\ p.fetched = g.start /\ (g.op = "bars" => BarsOf(p, g.range))
    BY <1>3, <1>4, <1>6, FetchedIs DEF LegInv
  <1>8. Timely(g, p)
    BY <1>7, ExpiryIsLater, MarketConstants DEF Timely
  <1>9. LegInv(Answer1(g, p), ask[a].q, l)
    BY <1>2, <1>3, <1>7, <1>8, AnsweredIs
  <1>10. SetLeg(a, l, Answer1(g, p))
    BY <1>1, <1>5, <1>6 DEF StoreAnswer
  <1>11. \A r \in quoteRows' : QuoteRow(r)
    <2>1. PICK row : row = [listing |-> g.listing, source |-> o.source, as_of |-> o.as_of, out |-> o,
                            fetched |-> g.start, expires |-> g.start + Ttl]
      OBVIOUS
    <2>2. QuoteRow(row)
      BY <1>4, <1>7, <2>1 DEF QuoteRow
    <2>3. quoteRows' \subseteq quoteRows \cup {row}
      BY <1>1, <1>5, <2>1 DEF StoreAnswer
    <2> QED
      BY <2>2, <2>3 DEF MarketInv
  <1>12. \A r \in barRows' : BarRow(r)
    <2>1. CASE g.op = "quote"
      BY <1>1, <2>1 DEF StoreAnswer, MarketInv
    <2>2. CASE g.op = "bars"
      <3>1. PICK bar : bar = [listing |-> g.listing, source |-> o.source, as_of |-> o.as_of, out |-> o,
                              interval |-> g.interval, range |-> g.range, basis |-> o.basis,
                              fetched |-> g.start,
                              expires |-> BarsExpiry(g.start, g.interval, Ttl, DayLength)]
        OBVIOUS
      <3>2. BarRow(bar)
        BY <1>4, <1>7, <2>2, <3>1 DEF BarRow
      <3>3. barRows' \subseteq barRows \cup {bar}
        BY <1>1, <1>5, <2>2, <3>1 DEF StoreAnswer
      <3> QED
        BY <3>2, <3>3 DEF MarketInv
    <2> QED
      BY <1>3, <2>1, <2>2 DEF LegInv
  <1> QED
    BY <1>2, <1>9, <1>10, <1>11, <1>12, LegMoves

LEMMA FailsKeeps ==
  ASSUME MarketInv, NEW a \in Asks, NEW l \in Listings, LegFails(a, l)
  PROVE  /\ DOMAIN ask' = Asks /\ ask' = [b \in Asks |-> ask'[b]]
         /\ \A b \in Asks : AskInv(b, ask'[b])
  <1>1. PICK g : g = ask[a].legs[l]
    OBVIOUS
  <1>2. ask[a].at = "legs" /\ l \in DOMAIN ask[a].legs
    BY DEF LegFails, LegIs
  <1>3. LegInv(g, ask[a].q, l)
    BY <1>1, <1>2 DEF MarketInv, AskInv
  <1>4. PICK o : o.ok = FALSE /\ SetLeg(a, l, Answer1(g, o))
    BY <1>1 DEF LegFails
  <1>5. LegInv(Answer1(g, o), ask[a].q, l)
    BY <1>3, <1>4, AnsweredIs
  <1> QED
    BY <1>2, <1>4, <1>5, LegMoves

LEMMA NewLegKeeps ==
  ASSUME MarketInv, NEW op \in {"quote", "bars"}, NEW l, NEW interval, NEW range, NEW q,
         \A s \in q : op = "bars" /\ interval = s.interval /\ range = s.range
  PROVE  LegInv(NewLeg(op, l, interval, range), q, l)
  <1>1. PICK g : g = NewLeg(op, l, interval, range)
    OBVIOUS
  <1>2. g = [at |-> "listing", op |-> op, listing |-> l, interval |-> interval, range |-> range,
             start |-> clock, tried |-> {}, todo |-> <<>>, stale |-> {}, row |-> {}, out |-> {}]
    BY <1>1 DEF NewLeg
  <1>3. IsLeg(g)
    BY <1>2 DEF IsLeg
  <1>4. LegInv(g, q, l)
    BY <1>2, <1>3 DEF LegInv, MarketInv
  <1> QED
    BY <1>1, <1>4

(* A request that takes another state.                                     *)
LEMMA AskMoves ==
  ASSUME MarketInv, NEW a \in Asks, NEW x, ask' = [ask EXCEPT ![a] = x], AskInv(a, x)
  PROVE  /\ DOMAIN ask' = Asks /\ ask' = [b \in Asks |-> ask'[b]]
         /\ \A b \in Asks : AskInv(b, ask'[b])
  <1>1. DOMAIN ask = Asks
    BY DEF MarketInv
  <1>2. /\ DOMAIN ask' = Asks /\ ask' = [b \in Asks |-> ask'[b]] /\ ask'[a] = x
        /\ \A b \in Asks : b # a => ask'[b] = ask[b]
    BY <1>1
  <1> QED
    BY <1>2 DEF MarketInv

LEMMA AskQuoteKeeps ==
  ASSUME MarketInv, NEW a \in Asks, NEW l \in Listings, AskQuote(a, l)
  PROVE  /\ DOMAIN ask' = Asks /\ ask' = [b \in Asks |-> ask'[b]]
         /\ \A b \in Asks : AskInv(b, ask'[b])
  <1>1. PICK g : g = NewLeg("quote", l, "", <<>>)
    OBVIOUS
  <1>2. LegInv(g, {}, l)
    BY <1>1, NewLegKeeps
  <1>3. PICK legs : legs = [m \in {l} |-> NewLeg("quote", m, "", <<>>)]
    OBVIOUS
  <1>4. DOMAIN legs = {l} /\ legs = [m \in DOMAIN legs |-> legs[m]] /\ legs[l] = g
    BY <1>1, <1>3
  <1>5. PICK x : x = [at |-> "legs", q |-> {}, legs |-> legs]
    OBVIOUS
  <1>6. AskInv(a, x)
    BY <1>2, <1>4, <1>5 DEF AskInv
  <1>7. ask' = [ask EXCEPT ![a] = x]
    BY <1>3, <1>5 DEF AskQuote
  <1> QED
    BY <1>6, <1>7, AskMoves

LEMMA PromotedIn ==
  ASSUME NEW E, seriesCache \in Seq(E), NEW e \in E
  PROVE  Promoted(e) \in Seq(E) /\ Promoted(e) # <<>>
  <1>1. PICK hit : hit = CacheHit(e.key)
    OBVIOUS
  <1>2. CASE hit = {}
    <2>1. Promoted(e) = Append(seriesCache, e)
      BY <1>1, <1>2 DEF Promoted
    <2>2. Append(seriesCache, e) \in Seq(E) /\ Append(seriesCache, e) # <<>>
      BY AppendProperties
    <2> QED
      BY <2>1, <2>2
  <1>3. CASE hit # {}
    <2>1. PICK k : k = CHOOSE i \in hit : TRUE
      OBVIOUS
    <2>2. k \in 1..Len(seriesCache)
      BY <1>1, <1>3, <2>1 DEF CacheHit
    <2>3. SubSeq(seriesCache, 1, k - 1) \in Seq(E) /\ SubSeq(seriesCache, k + 1, Len(seriesCache)) \in Seq(E)
      BY <2>2
    <2>4. RemoveAt(seriesCache, k) \in Seq(E)
      BY <2>3 DEF RemoveAt
    <2>5. Promoted(e) = Append(RemoveAt(seriesCache, k), e)
      BY <1>1, <1>3, <2>1 DEF Promoted
    <2> QED
      BY <2>4, <2>5
  <1> QED
    BY <1>2, <1>3

LEMMA AskSeriesKeeps ==
  ASSUME MarketInv, NEW a \in Asks, NEW q \in MarketQueriesOf(a), AskSeries(a, q)
  PROVE  /\ DOMAIN ask' = Asks /\ ask' = [b \in Asks |-> ask'[b]]
         /\ \A b \in Asks : AskInv(b, ask'[b])
         /\ \E E : seriesCache' \in Seq(E) /\ \A e \in E : EntryInv(e)
         /\ \A x \in answers' : AnswerInv(x)
  <1>1. PICK E : seriesCache \in Seq(E) /\ \A e \in E : EntryInv(e)
    BY DEF MarketInv
  <1>2. PICK hit : hit = CacheHit(SeriesKey(q))
    OBVIOUS
  <1>3. PICK end : end = [at |-> "done"]
    OBVIOUS
  <1>4. AskInv(a, end)
    BY <1>3 DEF AskInv
  <1>5. CASE QueryStatus(q) # 200
    <2>1. ask' = [ask EXCEPT ![a] = end] /\ UNCHANGED <<seriesCache, answers>>
      BY <1>3, <1>5 DEF AskSeries
    <2>2. \E F : seriesCache' \in Seq(F) /\ \A e \in F : EntryInv(e)
      BY <1>1, <2>1
    <2> QED
      BY <1>4, <2>1, <2>2, AskMoves DEF MarketInv
  <1>6. CASE QueryStatus(q) = 200 /\ hit # {}
    <2>1. PICK e : e = seriesCache[CHOOSE i \in hit : TRUE]
      OBVIOUS
    <2>2. e \in E /\ EntryInv(e) /\ e.key = SeriesKey(q)
      <3>1. (CHOOSE i \in hit : TRUE) \in hit
        BY <1>6
      <3>2. PICK k : k = CHOOSE i \in hit : TRUE
        OBVIOUS
      <3>3. k \in DOMAIN seriesCache /\ seriesCache[k].key = SeriesKey(q)
        BY <1>2, <3>1, <3>2 DEF CacheHit
      <3>4. e \in E
        BY <1>1, <2>1, <3>2, <3>3
      <3> QED
        BY <1>1, <2>1, <3>2, <3>3, <3>4
    <2>3. PICK x : x = [q |-> {q}, at |-> clock, hit |-> TRUE, legs |-> e.legs]
      OBVIOUS
    <2>4. ask' = [ask EXCEPT ![a] = end] /\ seriesCache' = Promoted(e) /\ answers' = answers \cup {x}
      BY <1>2, <1>3, <1>6, <2>1, <2>3 DEF AskSeries
    <2>5. AnswerInv(x)
      BY <1>6, <2>2, <2>3 DEF AnswerInv, EntryInv
    <2>6. \E F : seriesCache' \in Seq(F) /\ \A f \in F : EntryInv(f)
      BY <1>1, <2>2, <2>4, PromotedIn
    <2>7. \A y \in answers' : AnswerInv(y)
      BY <2>4, <2>5 DEF MarketInv
    <2>8. /\ DOMAIN ask' = Asks /\ ask' = [b \in Asks |-> ask'[b]]
          /\ \A b \in Asks : AskInv(b, ask'[b])
      BY <1>4, <2>4, AskMoves
    <2> QED
      BY <2>6, <2>7, <2>8
  <1>7. CASE QueryStatus(q) = 200 /\ hit = {}
    <2>1. PICK legs : legs = [l \in SeriesKey(q).subjects |-> NewLeg("bars", l, q.interval, q.range)]
      OBVIOUS
    <2>2. PICK x : x = [at |-> "legs", q |-> {q}, legs |-> legs]
      OBVIOUS
    <2>3. ask' = [ask EXCEPT ![a] = x] /\ UNCHANGED <<seriesCache, answers>>
      BY <1>2, <1>7, <2>1, <2>2 DEF AskSeries
    <2>4. \A l \in DOMAIN legs : LegInv(legs[l], {q}, l)
      BY <2>1, NewLegKeeps
    <2>5. DOMAIN legs = SeriesKey(q).subjects /\ legs = [l \in DOMAIN legs |-> legs[l]]
      BY <2>1
    <2>6. /\ x.at = "legs" /\ x.q = {q} /\ x.legs = legs
          /\ x = [at |-> "legs", q |-> x.q, legs |-> x.legs]
      BY <2>2
    <2>7. AskInv(a, x)
      BY <1>7, <2>4, <2>5, <2>6 DEF AskInv
    <2>8. \E F : seriesCache' \in Seq(F) /\ \A e \in F : EntryInv(e)
      BY <1>1, <2>3
    <2> QED
      BY <2>3, <2>7, <2>8, AskMoves DEF MarketInv
  <1> QED
    BY <1>5, <1>6, <1>7

(* What the legs of a request answer, in the basis that the query binds.   *)
LEMMA LegResponds ==
  ASSUME NEW g, NEW q, NEW l, LegInv(g, q, l), g.at = "done",
         NEW h, h.op = g.op, h.listing = g.listing, h.interval = g.interval, h.start = g.start,
         NEW o, o = Bound(q, g), o.ok
  PROVE  /\ h.listing = l /\ Timely(h, o)
         /\ \A s \in q : /\ o.basis = s.basis /\ o.range = Whole(s)
                         /\ o.bars \subseteq o.range[1]..(o.range[2] - 1)
  <1>1. PICK p : /\ g.out = {p}
                 /\ p.ok => /\ Canonical(g, q) /\ Timely(g, p)
                            /\ g.op = "bars" => BarsOf(p, g.range)
    BY DEF LegInv
  <1>2. p = CHOOSE x \in g.out : TRUE
    BY <1>1
  <1>3. o = IF p.ok /\ \E s \in q : s.basis # p.basis
            THEN Unavailable(p.source, "missing_coverage", FALSE, p.as_of) ELSE p
    BY <1>2 DEF Bound
  <1>4. o = p /\ \A s \in q : s.basis = p.basis
    BY <1>3 DEF Unavailable
  <1>5. g.listing = l /\ \A s \in q : g.op = "bars"
    BY DEF LegInv
  <1>6. h.listing = l /\ Timely(h, o)
    BY <1>1, <1>4, <1>5 DEF Timely
  <1>7. \A s \in q : g.range = Whole(s) /\ BarsOf(o, g.range)
    BY <1>1, <1>4, <1>5 DEF Canonical
  <1> QED
    BY <1>4, <1>6, <1>7 DEF BarsOf

LEMMA RespondKeeps ==
  ASSUME MarketInv, NEW a \in Asks, Respond(a)
  PROVE  /\ DOMAIN ask' = Asks /\ ask' = [b \in Asks |-> ask'[b]]
         /\ \A b \in Asks : AskInv(b, ask'[b])
         /\ \E E : seriesCache' \in Seq(E) /\ \A e \in E : EntryInv(e)
         /\ \A x \in answers' : AnswerInv(x)
  <1>1. PICK x : x = ask[a]
    OBVIOUS
  <1>2. x.at = "legs" /\ AskInv(a, x) /\ \A l \in DOMAIN x.legs : x.legs[l].at = "done" /\ LegInv(x.legs[l], x.q, l)
    BY <1>1 DEF Respond, MarketInv, AskInv
  <1>3. PICK legs : legs = [l \in DOMAIN x.legs |->
                              [leg |-> [x.legs[l] EXCEPT !.out = {}, !.row = {}, !.stale = {}],
                               out |-> Bound(x.q, x.legs[l])]]
    OBVIOUS
  <1>4. DOMAIN legs = DOMAIN x.legs
    BY <1>3
  <1>5. \A l \in DOMAIN legs : legs[l].out.ok =>
          /\ legs[l].leg.listing = l /\ Timely(legs[l].leg, legs[l].out)
          /\ \A s \in x.q : /\ legs[l].out.basis = s.basis /\ legs[l].out.range = Whole(s)
                            /\ legs[l].out.bars \subseteq legs[l].out.range[1]..(legs[l].out.range[2] - 1)
    <2> SUFFICES ASSUME NEW l \in DOMAIN legs, legs[l].out.ok
                 PROVE  /\ legs[l].leg.listing = l /\ Timely(legs[l].leg, legs[l].out)
                        /\ \A s \in x.q : /\ legs[l].out.basis = s.basis /\ legs[l].out.range = Whole(s)
                                          /\ legs[l].out.bars \subseteq legs[l].out.range[1]..(legs[l].out.range[2] - 1)
      OBVIOUS
    <2>1. PICK g, h, o : /\ g = x.legs[l] /\ h = [g EXCEPT !.out = {}, !.row = {}, !.stale = {}]
                         /\ o = Bound(x.q, g)
      OBVIOUS
    <2>2. legs[l].leg = h /\ legs[l].out = o
      BY <1>3, <1>4, <2>1
    <2>3. LegInv(g, x.q, l) /\ g.at = "done" /\ o.ok
      BY <1>2, <1>4, <2>1, <2>2
    <2>4. /\ h.listing = l /\ Timely(h, o)
          /\ \A s \in x.q : /\ o.basis = s.basis /\ o.range = Whole(s)
                            /\ o.bars \subseteq o.range[1]..(o.range[2] - 1)
      <3>1. IsLeg(g)
        BY <2>3 DEF LegInv
      <3>2. h = [at |-> g.at, op |-> g.op, listing |-> g.listing, interval |-> g.interval, range |-> g.range,
                 start |-> g.start, tried |-> g.tried, todo |-> g.todo, stale |-> {}, row |-> {}, out |-> {}]
        BY <2>1, <3>1 DEF IsLeg
      <3>3. h.op = g.op /\ h.listing = g.listing /\ h.interval = g.interval /\ h.start = g.start
        BY <3>2
      <3>4. o = Bound(x.q, g)
        BY <2>1
      <3> QED
        BY <2>3, <3>3, <3>4, LegResponds
    <2> QED
      BY <2>2, <2>4
  <1>6. \A s \in x.q : /\ s \in MarketQueriesOf(a) /\ QueryStatus(s) = 200
                      /\ SeriesKey(s).subjects = DOMAIN x.legs
    BY <1>2 DEF AskInv
  <1>7. LegsServe(legs)
    BY <1>5 DEF LegsServe
  <1>8. \A s \in x.q : KeyServed(SeriesKey(s), legs)
    <2> SUFFICES ASSUME NEW s \in x.q PROVE KeyServed(SeriesKey(s), legs)
      OBVIOUS
    <2>1. SeriesKey(s).basis = s.basis /\ Whole(SeriesKey(s)) = Whole(s)
      BY DEF SeriesKey, Whole
    <2> QED
      BY <1>4, <1>5, <1>6, <2>1 DEF KeyServed
  <1>9. PICK y : y = [q |-> x.q, at |-> clock, hit |-> FALSE, legs |-> legs]
    OBVIOUS
  <1>10. answers' = answers \cup {y}
    BY <1>1, <1>3, <1>9 DEF Respond
  <1>11. AnswerInv(y)
    BY <1>6, <1>7, <1>8, <1>9 DEF AnswerInv
  <1>12. PICK end : ask' = [ask EXCEPT ![a] = end] /\ AskInv(a, end)
    <2>1. PICK end : end = [at |-> "done"]
      OBVIOUS
    <2>2. ask' = [ask EXCEPT ![a] = end]
      BY <2>1 DEF Respond
    <2>3. AskInv(a, end)
      BY <2>1 DEF AskInv
    <2> QED
      BY <2>2, <2>3
  <1>13. PICK kept : kept = {[key |-> SeriesKey(s), legs |-> legs] : s \in x.q}
    OBVIOUS
  <1>14. \A e \in kept : EntryInv(e)
    BY <1>7, <1>8, <1>13 DEF EntryInv
  <1>15. PICK E : seriesCache \in Seq(E) /\ \A e \in E : EntryInv(e)
    BY DEF MarketInv
  <1>16. PICK F : F = E \cup kept
    OBVIOUS
  <1>17. seriesCache \in Seq(F) /\ \A e \in F : EntryInv(e)
    BY <1>14, <1>15, <1>16
  <1>18. seriesCache' \in Seq(F)
    <2>1. CASE UNCHANGED seriesCache
      BY <1>17, <2>1
    <2>2. CASE \E e \in kept : seriesCache' = IF Len(Promoted(e)) > SeriesMax THEN Tail(Promoted(e)) ELSE Promoted(e)
      <3>1. PICK e \in kept : seriesCache' = IF Len(Promoted(e)) > SeriesMax THEN Tail(Promoted(e)) ELSE Promoted(e)
        BY <2>2
      <3>2. PICK put : put = Promoted(e)
        OBVIOUS
      <3>3. put \in Seq(F) /\ put # <<>>
        BY <1>16, <1>17, <3>2, PromotedIn
      <3>4. Tail(put) \in Seq(F)
        BY <3>3
      <3> QED
        BY <3>1, <3>2, <3>3, <3>4
    <2> QED
      BY <1>1, <1>3, <1>13, <2>1, <2>2 DEF Respond
  <1> QED
    BY <1>10, <1>11, <1>12, <1>17, <1>18, AskMoves DEF MarketInv

LEMMA MarketStepKeeps == MarketInv /\ [MarketNext]_marketVars => MarketInv'
  <1> SUFFICES ASSUME MarketInv, [MarketNext]_marketVars PROVE MarketInv'
    OBVIOUS
  <1> DEFINE LegsKeep == /\ DOMAIN ask' = Asks /\ ask' = [b \in Asks |-> ask'[b]]
                         /\ \A b \in Asks : AskInv(b, ask'[b])
  <1>1. ASSUME LegsKeep, UNCHANGED <<clock, quoteRows, barRows, seriesCache, answers>> PROVE MarketInv'
    BY <1>1 DEF MarketInv
  <1>2. CASE \E a \in Asks, l \in Listings : AskQuote(a, l)
    <2>1. PICK a \in Asks, l \in Listings : AskQuote(a, l)
      BY <1>2
    <2>2. UNCHANGED <<clock, quoteRows, barRows, seriesCache, answers>>
      BY <2>1 DEF AskQuote
    <2> QED
      BY <1>1, <2>1, <2>2, AskQuoteKeeps
  <1>3. CASE \E a \in Asks, l \in Listings : MarketStep(a, l)
    <2>1. PICK a \in Asks, l \in Listings : MarketStep(a, l)
      BY <1>3
    <2>2. CASE FindListing(a, l)
      BY <1>1, <2>2, FoundKeeps DEF FindListing
    <2>3. CASE ReadFresh(a, l)
      BY <1>1, <2>3, ReadFreshKeeps DEF ReadFresh
    <2>4. CASE ReadBars(a, l)
      BY <1>1, <2>4, ReadBarsKeeps DEF ReadBars
    <2>5. CASE ReadLatest(a, l)
      BY <1>1, <2>5, ReadLatestKeeps DEF ReadLatest
    <2>6. CASE StoreAnswer(a, l)
      <3>1. UNCHANGED <<clock, seriesCache, answers>>
        BY <2>6 DEF StoreAnswer
      <3>2. LegsKeep /\ (\A r \in quoteRows' : QuoteRow(r)) /\ (\A r \in barRows' : BarRow(r))
        BY <2>6, StoreKeeps
      <3> QED
        BY <3>1, <3>2 DEF MarketInv
    <2>7. CASE LegFails(a, l)
      BY <1>1, <2>7, FailsKeeps DEF LegFails
    <2>8. CASE \E reply \in Replies, daily \in Replies : CallProvider(a, l, reply, daily)
      BY <1>1, <2>8, CallKeeps DEF CallProvider
    <2> QED
      BY <2>1, <2>2, <2>3, <2>4, <2>5, <2>6, <2>7, <2>8 DEF MarketStep
  <1>4. CASE \E a \in Asks : (\E q \in MarketQueriesOf(a) : AskSeries(a, q)) \/ Respond(a)
    <2>1. /\ LegsKeep
          /\ \E E : seriesCache' \in Seq(E) /\ \A e \in E : EntryInv(e)
          /\ \A x \in answers' : AnswerInv(x)
      BY <1>4, AskSeriesKeeps, RespondKeeps
    <2>2. UNCHANGED <<clock, quoteRows, barRows>>
      BY <1>4 DEF AskSeries, Respond
    <2> QED
      BY <2>1, <2>2 DEF MarketInv
  <1>5. CASE (\E l \in Listings : Discover(l)) \/ Pass \/ UNCHANGED marketVars
    <2>1. UNCHANGED <<quoteRows, barRows, ask, seriesCache, answers>> /\ clock' \in Nat
      BY <1>5 DEF Discover, Pass, marketVars, MarketInv
    <2> QED
      BY <2>1 DEF MarketInv
  <1> QED
    BY <1>2, <1>3, <1>4, <1>5 DEF MarketNext

(***************************************************************************)
(* What a request is served is of the listing, the range and the basis it  *)
(* asked for and had not expired when its call began, whichever of a       *)
(* provider, a row and the memory of the service it comes from.            *)
(***************************************************************************)
THEOREM AskedIsServed == RangesAreCovered => (MarketSpec => []ServedAsAsked)
  <1> SUFFICES ASSUME RangesAreCovered PROVE MarketSpec => []ServedAsAsked
    OBVIOUS
  <1>1. MarketInv => ServedAsAsked
    <2> SUFFICES ASSUME MarketInv, NEW x \in answers, NEW l \in DOMAIN x.legs, x.legs[l].out.ok
                 PROVE  LET leg == x.legs[l].leg
                            out == x.legs[l].out
                        IN /\ leg.listing = l
                           /\ leg.start < IF leg.op = "quote" THEN out.fetched + Ttl
                                          ELSE BarsExpiry(out.fetched, leg.interval, Ttl, DayLength)
                           /\ \A q \in x.q :
                                /\ out.basis = q.basis /\ SeriesKey(q).subjects = DOMAIN x.legs
                                /\ out.range = CanonicalRange(Zone, q.range, IntervalSize(q.interval))
                                /\ out.range[1] <= q.range[1] /\ q.range[2] <= out.range[2]
                                /\ out.bars \subseteq out.range[1]..(out.range[2] - 1)
      BY DEF ServedAsAsked
    <2>1. AnswerInv(x)
      BY DEF MarketInv
    <2>2. x.legs[l].leg.listing = l /\ Timely(x.legs[l].leg, x.legs[l].out)
      BY <2>1 DEF AnswerInv, LegsServe
    <2>3. ASSUME NEW q \in x.q
          PROVE  /\ x.legs[l].out.basis = q.basis /\ SeriesKey(q).subjects = DOMAIN x.legs
                 /\ x.legs[l].out.range = Whole(q)
                 /\ Whole(q)[1] <= q.range[1] /\ q.range[2] <= Whole(q)[2]
                 /\ x.legs[l].out.bars \subseteq x.legs[l].out.range[1]..(x.legs[l].out.range[2] - 1)
      <3>1. KeyServed(SeriesKey(q), x.legs) /\ QueryStatus(q) = 200 /\ \E a \in Asks : q \in MarketQueriesOf(a)
        BY <2>1, <2>3 DEF AnswerInv
      <3>2. SeriesKey(q).basis = q.basis /\ Whole(SeriesKey(q)) = Whole(q)
        BY DEF SeriesKey, Whole
      <3>3. Whole(q)[1] <= q.range[1] /\ q.range[2] <= Whole(q)[2]
        BY <3>1 DEF RangesAreCovered
      <3> QED
        BY <3>1, <3>2, <3>3 DEF KeyServed
    <2> QED
      BY <2>2, <2>3 DEF Timely, Whole
  <1> QED
    BY <1>1, MarketInitially, MarketStepKeeps, PTL DEF MarketSpec

=============================================================================
