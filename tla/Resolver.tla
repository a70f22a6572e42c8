------------------------------- MODULE Resolver -------------------------------
(***************************************************************************)
(* What the reference providers tell of a ticker: Polygon                  *)
(* (services/resolver/src/discovery.ts), the Nasdaq directory enriched     *)
(* with OpenFIGI and GLEIF (open-reference-providers.ts), and the          *)
(* development sidecar (dev-providers.ts), tried in this order.            *)
(*                                                                         *)
(* An optional field is a set of at most one value.  What each service     *)
(* knows is a constant; any of them may fail at any call.                  *)
(***************************************************************************)
EXTENDS Integers, FiniteSets, FiniteSetsExt

CONSTANTS
    PolygonRows,     \* rows of /v3/reference/tickers; {} without an API key
    DirectoryRows,   \* rows of the Nasdaq files; {} when they are not enabled
    FigiRecords,     \* what OpenFIGI maps tickers to; {} when not enabled
    LeiRecords,      \* what GLEIF knows of names; {} when not enabled
    SidecarRows,     \* rows of /reference/ticker; {} without the sidecar
    GleifPage        \* GLEIF_PAGE_SIZE

KnownVenues == {"XNAS", "XNYS", "XLON"}      \* MIC_TIMEZONES, those of the instances
KnownTypes == {"common_stock", "adr", "etf"}

(* A DiscoveredListing.  No provider tells the share class.                *)
Sighting(row) ==
    [ticker |-> row.ticker, mic |-> row.mic, name |-> row.name, type |-> row.type,
     cik |-> row.cik, lei |-> {}, isin |-> {}, figi |-> row.figi]

(* discoveredListingFromPolygonRow                                         *)
FromPolygon(ticker) ==
    {Sighting(row) : row \in {row \in PolygonRows :
        row.ticker = ticker /\ row.active /\ row.mic \in KnownVenues /\ row.type \in KnownTypes}}

(* discoveredListingFromDevProvider                                        *)
FromSidecar(ticker) ==
    {Sighting(row) : row \in {row \in SidecarRows : row.ticker = ticker /\ row.type \in KnownTypes}}

(* parseNasdaqListed, parseNasdaqOtherListed: the name loses what tells    *)
(* the class of the share.                                                 *)
FromDirectory(ticker) ==
    {Sighting([row EXCEPT !.cik = {}, !.figi = {}]) : row \in {row \in DirectoryRows :
        row.ticker = ticker /\ ~row.test /\ row.mic \in KnownVenues}}

Only(values) == IF Cardinality(values) = 1 THEN values ELSE {}

(* uniqueOpenFigiEnrichment: only when all that match agree.               *)
WithFigi(sighting) ==
    LET matches == {r \in FigiRecords : r.ticker = sighting.ticker /\ r.mic \subseteq {sighting.mic}
                                        /\ r.type = sighting.type}
        figi == Only({r.figi : r \in matches})
    IN [sighting EXCEPT !.figi = figi,
                        !.isin = IF figi = {} THEN {} ELSE Only(UNION {r.isin : r \in matches})]

(* fetchGleifEnrichment: only when all that match agree, and the page has  *)
(* them all.                                                               *)
WithLei(sighting) ==
    LET page == {r \in LeiRecords : r.name = sighting.name}
    IN [sighting EXCEPT !.lei = IF Cardinality(page) > GleifPage THEN {}
                                ELSE Only({r.lei : r \in {r \in page : r.status = "ISSUED"}})]

(* createOpenReferenceTickerDiscoveryProvider: each enrichment is told or  *)
(* fails for itself.                                                       *)
FromOpenReference(ticker) ==
    LET Enriched(s) == {s, WithFigi(s), WithLei(s), WithLei(WithFigi(s))}
        found == FromDirectory(ticker)
    IN {{told[s] : s \in found} : told \in {t \in [found -> UNION {Enriched(s) : s \in found}] :
                                              \A s \in found : t[s] \in Enriched(s)}}

(* createFallbackTickerDiscoveryProvider: the first that finds anything;   *)
(* each of those before it may have failed, and so may all.                *)
Provided(ticker) ==
    {{}, FromPolygon(ticker), FromSidecar(ticker)} \cup FromOpenReference(ticker)

-------------------------------------------------------------------------------
(***************************************************************************)
(* From what a user types to a canonical subject (services/resolver/src):  *)
(* the lookups (lookup.ts), the flow from search to a hydrated subject     *)
(* (flow.ts), the discovery of unknown tickers, whose rows are written     *)
(* statement by statement while others do the same (discovery.ts), and     *)
(* the repair of seeded identities at startup, which is one transaction    *)
(* (repair-provider-identities.ts).                                        *)
(*                                                                         *)
(* A ref is a pair of kind and id.  Rows have the ids 1, 2, ... of their   *)
(* table in the order of their creation; 0 is the seeded one.              *)
(***************************************************************************)

CONSTANTS
    Finders,         \* requests, and the startup script, that are served at a time
    SubjectQueries,  \* what is asked: hint, ticker and name that normalize finds, kinds, choice,
                     \* and the companies that may be meant
    Seeded0,         \* the identities there are at first
    LegacyListing,   \* ticker and mic of the seeded identity
    RefTables,       \* how a table of refs keeps them: deduped, unique or plain
    PulseTickers,    \* HOME_PULSE_TICKERS
    VenueCompany,    \* whose the ticker of a venue is, by mic and ticker
    NameCompany,     \* whose a legal or former name is
    MaxIssuers,      \* bound: rows of issuers
    MaxAsked,        \* bound: how often something is asked
    MaxStartups      \* bound: how often the services are started

VARIABLES
    identity,        \* rows of issuers, instruments, listings, and refs to them
    finder,          \* what a request does
    startup,         \* the startup script and its transaction
    answered         \* what was answered last

resolverVars == <<identity, finder, startup, answered>>

Resting == [at |-> "idle", op |-> "ask", query |-> {}, todo |-> {}, row |-> {},
            hit |-> {}, issuer |-> {}, seen |-> {}, refs |-> {}]

ResolverInit ==
    /\ identity \in Seeded0
    /\ finder = [f \in Finders |-> Resting]
    /\ startup = [phase |-> "repair", times |-> 1, asked |-> 0, tickers |-> PulseTickers, saved |-> {}]
    /\ answered = {}

Query1(f) == CHOOSE q \in finder[f].query : TRUE
Row1(f) == CHOOSE r \in finder[f].row : TRUE
ById(rows, ids) == {r \in rows : r.id \in ids}
NewId(rows) == 1 + Max({0} \cup {r.id : r \in rows})

(***************************************************************************)
(* The lookups.  A candidate is a ref and a confidence, in percent; one is *)
(* resolved, several are ambiguous, and none are not found.                *)
(***************************************************************************)
Active(rows) == {l \in rows.listings : l.active}
OfIssuers(rows, ids) ==
    {l \in Active(rows) : \E i \in rows.instruments : i.id = l.instrument /\ i.issuer \in ids}
Candidates(kind, rows, confidence) == {[ref |-> <<kind, r.id>>, confidence |-> confidence] : r \in rows}

ByIdentifier(rows, hint) ==
    CASE hint[1] = "cik" -> Candidates("issuer", {i \in rows.issuers : hint[2] \in i.cik}, 99)
      [] hint[1] = "lei" -> Candidates("issuer", {i \in rows.issuers : hint[2] \in i.lei}, 99)
      [] OTHER -> Candidates("instrument", {i \in rows.instruments : hint[2] \in i.isin}, 99)

ByTicker(rows, ticker) ==
    LET listings == {l \in Active(rows) : l.ticker = ticker}
    IN Candidates("listing", listings, IF Cardinality(listings) = 1 THEN 95 ELSE 50)

ByName(rows, name) ==
    LET legal == {i \in rows.issuers : i.name = name}
        former == {i \in rows.issuers \ legal : name \in i.former}
    IN Candidates("issuer", legal, 90) \cup Candidates("issuer", former, 85)
       \cup Candidates("listing", OfIssuers(rows, {i.id : i \in former}), 80)

(* mergeCandidateEnvelopes: each subject once, with its highest confidence. *)
Merged(candidates) ==
    {c \in candidates : \A d \in candidates : d.ref = c.ref => d.confidence <= c.confidence}

(***************************************************************************)
(* The flow.                                                               *)
(***************************************************************************)
Move(f, at) == finder' = [finder EXCEPT ![f].at = at]

AskSubject(f) ==
    /\ startup.phase = "serving" /\ finder[f].at = "idle"
    /\ startup.asked < MaxAsked /\ startup' = [startup EXCEPT !.asked = @ + 1]
    /\ \E q \in SubjectQueries :
         finder' = [finder EXCEPT ![f] = [Resting EXCEPT !.query = {q},
              !.at = IF q.hint # {} THEN "identifier" ELSE IF q.ticker # {} THEN "ticker" ELSE "name"]]
    /\ UNCHANGED <<identity, answered>>

(* Not found: the text may yet be a ticker or a name.                      *)
LookUpIdentifier(f) ==
    LET q == Query1(f)
        found == ByIdentifier(identity, CHOOSE h \in q.hint : TRUE)
    IN /\ finder[f].at = "identifier"
       /\ finder' = [finder EXCEPT ![f].seen = found,
            ![f].at = IF found # {} THEN "select" ELSE IF q.ticker # {} THEN "ticker" ELSE "name"]
       /\ UNCHANGED <<identity, startup, answered>>

(* An unknown ticker is discovered.                                        *)
LookUpTicker(f) ==
    LET ticker == CHOOSE t \in Query1(f).ticker : TRUE
        found == ByTicker(identity, ticker)
    IN /\ finder[f].at = "ticker"
       /\ \/ /\ found # {}
             /\ finder' = [finder EXCEPT ![f].seen = found, ![f].at = "name"]
          \/ /\ found = {}
             /\ \E rows \in Provided(ticker) :
                  finder' = [finder EXCEPT ![f].todo = rows, ![f].at = IF rows = {} THEN "name" ELSE "match"]
       /\ UNCHANGED <<identity, startup, answered>>

LookAgain(f) ==
    /\ finder[f].at = "again"
    /\ finder' = [finder EXCEPT ![f].at = "name",
                    ![f].seen = ByTicker(identity, CHOOSE t \in Query1(f).ticker : TRUE)]
    /\ UNCHANGED <<identity, startup, answered>>

LookUpName(f) ==
    /\ finder[f].at = "name"
    /\ finder' = [finder EXCEPT ![f].at = "select",
                    ![f].seen = Merged(@ \cup ByName(identity, Query1(f).name))]
    /\ UNCHANGED <<identity, startup, answered>>

(* Only subjects of the kinds that are allowed are answered.               *)
Respond1(f, subjects, context) ==
    /\ answered' = {[query |-> Query1(f), subjects |-> {r \in subjects : r[1] \in Query1(f).kinds},
                     context |-> IF \E r \in subjects : r[1] \in Query1(f).kinds THEN context ELSE {}]}
    /\ finder' = [finder EXCEPT ![f] = Resting]

(* One candidate, or the one that was chosen, goes on to be hydrated; a    *)
(* choice that is no candidate is refused, and without one they all are    *)
(* shown, or none is.                                                      *)
Select(f) ==
    LET seen == {c.ref : c \in finder[f].seen}
        taken == IF Cardinality(seen) = 1 THEN seen ELSE seen \cap Query1(f).choice
    IN /\ finder[f].at = "select"
       /\ \/ taken # {} /\ finder' = [finder EXCEPT ![f].at = "hydrate", ![f].refs = taken]
                        /\ UNCHANGED answered
          \/ taken = {} /\ Respond1(f, IF Query1(f).choice = {} THEN seen ELSE {}, {})
       /\ UNCHANGED <<identity, startup>>

(* loadSubjectContext: the row with those above it, in one statement, and  *)
(* then the active listings below it; a subject that is gone is a 404.     *)
Above(rows, ref) ==
    LET listings == IF ref[1] = "listing" THEN ById(rows.listings, {ref[2]}) ELSE {}
        instruments == ById(rows.instruments, IF ref[1] = "instrument" THEN {ref[2]}
                                              ELSE {l.instrument : l \in listings})
        issuers == ById(rows.issuers, IF ref[1] = "issuer" THEN {ref[2]} ELSE {i.issuer : i \in instruments})
    IN {<<"listing", l.id>> : l \in listings} \cup {<<"instrument", i.id>> : i \in instruments}
       \cup {<<"issuer", i.id>> : i \in issuers}

Hydrate(f) ==
    LET ref == CHOOSE r \in finder[f].refs : TRUE
        context == Above(identity, ref)
    IN /\ finder[f].at = "hydrate"
       /\ \/ ref \notin context /\ Respond1(f, {}, {})
          \/ ref \in context /\ ref[1] = "listing" /\ Respond1(f, {ref}, context)
          \/ ref \in context /\ ref[1] # "listing" /\ UNCHANGED answered
             /\ finder' = [finder EXCEPT ![f].at = "listings", ![f].seen = context]
       /\ UNCHANGED <<identity, startup>>

LoadListings(f) ==
    LET ref == CHOOSE r \in finder[f].refs : TRUE
        below == IF ref[1] = "issuer" THEN OfIssuers(identity, {ref[2]})
                 ELSE {l \in Active(identity) : l.instrument = ref[2]}
    IN /\ finder[f].at = "listings"
       /\ Respond1(f, {ref}, finder[f].seen \cup {<<"listing", l.id>> : l \in below})
       /\ UNCHANGED <<identity, startup>>

(***************************************************************************)
(* upsertDiscoveredListing, a statement at a time.  The selects by which a *)
(* row is looked for follow each other in one step.                        *)
(***************************************************************************)
MatchInstrument(f) ==
    /\ finder[f].at = "match"
    /\ \E row \in finder[f].todo :
         LET byIsin == {i \in identity.instruments : i.isin \cap row.isin # {}}
             byFigi == {i \in identity.instruments : i.figi \cap row.figi # {}}
             matches == IF byIsin # {} THEN byIsin ELSE byFigi
             Next1(hit) == finder' = [finder EXCEPT ![f].todo = @ \ {row}, ![f].row = {row},
                               ![f].hit = {i.id : i \in hit}, ![f].issuer = {i.issuer : i \in hit},
                               ![f].at = IF hit = {} THEN "issuer" ELSE "fillIssuer"]
         IN \/ \E i \in matches : Next1({i})
            \/ matches = {} /\ Next1({})
    /\ UNCHANGED <<identity, startup, answered>>

LookUpIssuer(f) ==
    LET row == Row1(f)
        byCik == {i \in identity.issuers : i.cik \cap row.cik # {}}
        byLei == {i \in identity.issuers : i.lei \cap row.lei # {}}
        found == IF byCik # {} THEN byCik ELSE IF byLei # {} THEN byLei
                 ELSE Only({i \in identity.issuers : i.name = row.name})
    IN /\ finder[f].at = "issuer"
       /\ finder' = [finder EXCEPT ![f].issuer = {i.id : i \in found},
                       ![f].at = IF found = {} THEN "newIssuer" ELSE "fillIssuer"]
       /\ UNCHANGED <<identity, startup, answered>>

Coalesce(old, new) == IF old = {} THEN new ELSE old

(* issuers_cik_idx, issuers_lei_idx                                        *)
UniqueIssuers(rows) ==
    \A i, j \in rows : i.id # j.id => i.cik \cap j.cik = {} /\ i.lei \cap j.lei = {}

(* A statement that violates an index fails: what the rows before it did   *)
(* stays, unless it is the startup's transaction.                          *)
DiscoveryFails(f) ==
    \/ /\ finder[f].op = "ask"
       /\ finder' = [finder EXCEPT ![f] = [Resting EXCEPT !.query = finder[f].query, !.at = "name"]]
       /\ UNCHANGED <<identity, startup, answered>>
    \/ /\ finder[f].op = "hydrate"
       /\ finder' = [finder EXCEPT ![f] = Resting] /\ UNCHANGED <<identity, startup, answered>>
    \/ /\ finder[f].op = "repair"
       /\ identity' = (CHOOSE s \in startup.saved : TRUE)
       /\ startup' = [startup EXCEPT !.phase = "failed", !.saved = {}]
       /\ finder' = [finder EXCEPT ![f] = Resting] /\ UNCHANGED answered

WriteRows(f, rows, at) ==
    /\ identity' = rows
    /\ finder' = at
    /\ UNCHANGED <<startup, answered>>

FillIssuer(f) ==
    LET row == Row1(f)
        filled == {IF i.id \in finder[f].issuer
                   THEN [i EXCEPT !.cik = Coalesce(@, row.cik), !.lei = Coalesce(@, row.lei)]
                   ELSE i : i \in identity.issuers}
    IN /\ finder[f].at = "fillIssuer"
       /\ IF UniqueIssuers(filled)
          THEN WriteRows(f, [identity EXCEPT !.issuers = filled],
                     [finder EXCEPT ![f].at = IF finder[f].hit = {} THEN "instrument" ELSE "fillInstrument"])
          ELSE DiscoveryFails(f)

InsertIssuer(f) ==
    LET row == Row1(f)
        new == [id |-> NewId(identity.issuers), name |-> row.name, former |-> {},
                cik |-> row.cik, lei |-> row.lei]
    IN /\ finder[f].at = "newIssuer"
       /\ Cardinality(identity.issuers) < MaxIssuers
       /\ IF UniqueIssuers(identity.issuers \cup {new})
          THEN WriteRows(f, [identity EXCEPT !.issuers = @ \cup {new}],
                     [finder EXCEPT ![f].issuer = {new.id}, ![f].at = "instrument"])
          ELSE DiscoveryFails(f)

(* upsertInstrument: an instrument of the issuer of the same type is taken *)
(* for the one, whatever its FIGI.                                         *)
LookUpInstrument(f) ==
    LET shape == {i.id : i \in {i \in identity.instruments :
                    i.issuer \in finder[f].issuer /\ i.type = Row1(f).type}}
    IN /\ finder[f].at = "instrument"
       /\ finder' = [finder EXCEPT ![f].hit = IF shape = {} THEN {} ELSE {Min(shape)},
                       ![f].at = IF shape = {} THEN "newInstrument" ELSE "fillInstrument"]
       /\ UNCHANGED <<identity, startup, answered>>

FillInstrument(f) ==
    LET row == Row1(f)
        others == {i \in identity.instruments : i.id \notin finder[f].hit}
        isin == row.isin \ UNION {i.isin : i \in others}
        figi == row.figi \ UNION {i.figi : i \in others}
    IN /\ finder[f].at = "fillInstrument"
       /\ WriteRows(f, [identity EXCEPT !.instruments =
                      {IF i.id \in finder[f].hit
                       THEN [i EXCEPT !.isin = Coalesce(@, isin), !.figi = Coalesce(@, figi)]
                       ELSE i : i \in @}], [finder EXCEPT ![f].at = "listing"])

InsertInstrument(f) ==
    LET row == Row1(f)
        new == [id |-> NewId(identity.instruments), issuer |-> CHOOSE i \in finder[f].issuer : TRUE,
                type |-> row.type, isin |-> row.isin, figi |-> row.figi]
    IN /\ finder[f].at = "newInstrument"
       /\ IF \A i \in identity.instruments : i.isin \cap new.isin = {}    \* instruments_isin_idx
          THEN WriteRows(f, [identity EXCEPT !.instruments = @ \cup {new}],
                     [finder EXCEPT ![f].hit = {new.id}, ![f].at = "listing"])
          ELSE DiscoveryFails(f)

(* Rows with active_from null: one of a mic and ticker.  The seeded row    *)
(* that was retired is not one of them.                                    *)
SameTicker(l, row) == l.ticker = row.ticker /\ l.active         \* a bug: on any venue
SameListing(l, row) == l.mic = row.mic /\ l.ticker = row.ticker /\ l.active

LookUpListing(f) ==
    /\ finder[f].at = "listing"
    /\ Move(f, IF \E l \in identity.listings : SameListing(l, Row1(f)) THEN "moveListing" ELSE "newListing")
    /\ UNCHANGED <<identity, startup, answered>>

NextRow(f, listing) ==
    [finder EXCEPT ![f].row = {}, ![f].hit = {}, ![f].issuer = {},
                   ![f].refs = IF finder[f].op = "repair" THEN {<<"listing", listing>>} ELSE {},
                   ![f].at = IF finder[f].todo # {} THEN "match"
                             ELSE IF finder[f].op = "ask" THEN "again" ELSE "done"]

(* The listing that was looked up hangs on the instrument from now on.     *)
MoveListing(f) ==
    /\ finder[f].at = "moveListing"
    /\ LET moved == CHOOSE l \in identity.listings : SameListing(l, Row1(f))
       IN WriteRows(f, [identity EXCEPT !.listings =
                      (@ \ {moved}) \cup {[moved EXCEPT !.instrument = CHOOSE i \in finder[f].hit : TRUE]}],
                NextRow(f, moved.id))

InsertListing(f) ==
    LET row == Row1(f)
        new == [id |-> NewId(identity.listings), instrument |-> CHOOSE i \in finder[f].hit : TRUE,
                mic |-> row.mic, ticker |-> row.ticker, active |-> TRUE]
    IN /\ finder[f].at = "newListing"
       /\ IF \E l \in identity.listings : SameListing(l, row)
          THEN DiscoveryFails(f)
          ELSE WriteRows(f, [identity EXCEPT !.listings = @ \cup {new}], NextRow(f, new.id))

(***************************************************************************)
(* Startup: the seeded identity is replaced, in one transaction, by what   *)
(* Polygon says of its ticker, then the configured tickers are discovered. *)
(***************************************************************************)
LegacyRefs == {<<"issuer", 0>>, <<"instrument", 0>>, <<"listing", 0>>}
LegacyExists == \E l \in identity.listings : l.id = 0
Referenced == \E r \in identity.refs : r.ref \in LegacyRefs

(* deleteLegacyIdentity: the instrument and the issuer only when nothing   *)
(* else hangs on them.                                                     *)
WithoutLegacy(rows) ==
    LET listings == {l \in rows.listings : l.id # 0}
        instruments == {i \in rows.instruments : i.id # 0 \/ \E l \in listings : l.instrument = 0}
    IN [rows EXCEPT !.listings = listings, !.instruments = instruments,
                    !.issuers = {i \in @ : i.id # 0 \/ \E j \in instruments : j.issuer = 0}]

StartRepair(f) ==
    /\ startup.phase = "repair" /\ \A g \in Finders : finder[g].at = "idle"
    /\ \/ /\ ~LegacyExists
          /\ startup' = [startup EXCEPT !.phase = "hydrate"] /\ UNCHANGED <<identity, finder>>
       \/ /\ LegacyExists /\ PolygonRows = {} /\ Referenced
          /\ startup' = [startup EXCEPT !.phase = "failed"] /\ UNCHANGED <<identity, finder>>
       \/ /\ LegacyExists /\ PolygonRows = {} /\ ~Referenced
          /\ identity' = WithoutLegacy(identity)
          /\ startup' = [startup EXCEPT !.phase = "hydrate"] /\ UNCHANGED finder
       \/ /\ LegacyExists /\ PolygonRows # {}
          /\ \E rows \in {FromPolygon(LegacyListing.ticker), {}} :
               LET preferred == {r \in rows : r.mic = LegacyListing.mic}
               IN \/ /\ rows = {}
                     /\ startup' = [startup EXCEPT !.phase = "failed"] /\ UNCHANGED <<identity, finder>>
                  \/ \E row \in IF preferred # {} THEN preferred ELSE rows :
                       /\ startup' = [startup EXCEPT !.phase = "repairing", !.saved = {identity}]
                       /\ identity' = [identity EXCEPT !.listings =
                            {IF l.id = 0 THEN [l EXCEPT !.active = FALSE] ELSE l : l \in @}]
                       /\ finder' = [finder EXCEPT ![f] =
                            [Resting EXCEPT !.op = "repair", !.at = "match", !.todo = {row}]]
    /\ UNCHANGED answered

(* remapSubjectReferences: refs of the new subject that a table holds      *)
(* already are not held twice; in a table with an index over more than the *)
(* subject the update fails.                                               *)
ForgottenKinds == {"issuer", "listing"}      \* a bug: instruments are not remapped
RemappedKinds == {"issuer", "instrument", "listing"}

RepairEnds(f) ==
    LET chain == Above(identity, CHOOSE ref \in finder[f].refs : TRUE)
        New(ref) == CHOOSE r \in chain : r[1] = ref[1]
        Remap(r) == IF r.ref \in LegacyRefs /\ r.ref[1] \in RemappedKinds
                    THEN [r EXCEPT !.ref = New(@)] ELSE r
        clash == \E r, s \in identity.refs : r # s /\ Remap(r) = Remap(s) /\ RefTables[r.table] = "unique"
    IN /\ finder[f].at = "done" /\ finder[f].op = "repair"
       /\ IF clash THEN DiscoveryFails(f)
          ELSE /\ identity' = WithoutLegacy([identity EXCEPT !.refs = {Remap(r) : r \in @}])
               /\ startup' = [startup EXCEPT !.phase = "hydrate", !.saved = {}]
               /\ finder' = [finder EXCEPT ![f] = Resting] /\ UNCHANGED answered

(* hydrateConfiguredTickers, one after the other, with Polygon's rows.     *)
HydrateTicker(f) ==
    /\ startup.phase = "hydrate" /\ \A g \in Finders : finder[g].at = "idle"
    /\ \/ /\ startup.tickers = {} \/ PolygonRows = {}
          /\ startup' = [startup EXCEPT !.phase = "serving"] /\ UNCHANGED finder
       \/ \E t \in startup.tickers : \E rows \in {FromPolygon(t), {}} :
          /\ PolygonRows # {}
          /\ startup' = [startup EXCEPT !.tickers = @ \ {t}]
          /\ finder' = IF rows = {} THEN finder ELSE [finder EXCEPT ![f] =
                          [Resting EXCEPT !.op = "hydrate", !.at = "match", !.todo = rows]]
    /\ UNCHANGED <<identity, answered>>

HydrateEnds(f) ==
    /\ finder[f].at = "done" /\ finder[f].op = "hydrate"
    /\ finder' = [finder EXCEPT ![f] = Resting]
    /\ UNCHANGED <<identity, startup, answered>>

(* Everything stops, whatever it does, and is started again.               *)
RestartServices ==
    /\ startup.times < MaxStartups
    /\ identity' = IF startup.saved = {} THEN identity ELSE CHOOSE s \in startup.saved : TRUE
    /\ startup' = [phase |-> "repair", times |-> startup.times + 1, asked |-> startup.asked,
                   tickers |-> PulseTickers, saved |-> {}]
    /\ finder' = [f \in Finders |-> Resting] /\ answered' = {}

ResolverNext ==
    \/ RestartServices
    \/ \E f \in Finders :
         \/ AskSubject(f) \/ LookUpIdentifier(f) \/ LookUpTicker(f) \/ LookAgain(f) \/ LookUpName(f)
         \/ Select(f) \/ Hydrate(f) \/ LoadListings(f)
         \/ MatchInstrument(f) \/ LookUpIssuer(f) \/ FillIssuer(f) \/ InsertIssuer(f)
         \/ LookUpInstrument(f) \/ FillInstrument(f) \/ InsertInstrument(f)
         \/ LookUpListing(f) \/ MoveListing(f) \/ InsertListing(f)
         \/ StartRepair(f) \/ RepairEnds(f) \/ HydrateTicker(f) \/ HydrateEnds(f)

ResolverSpec == ResolverInit /\ [][ResolverNext]_resolverVars

ResolverTypeOK ==
    /\ startup.phase \in {"repair", "repairing", "hydrate", "serving", "failed"}
    /\ startup.times \in 1..MaxStartups /\ Cardinality(startup.saved) <= 1
    /\ \A f \in Finders : finder[f].op \in {"ask", "repair", "hydrate"} /\ Cardinality(finder[f].hit) <= 1
    /\ \A i \in identity.instruments : ById(identity.issuers, {i.issuer}) # {}
    /\ \A l \in identity.listings : ById(identity.instruments, {l.instrument}) # {}

(* The company a ref stands for; none when its row is gone.                *)
CompanyOf(rows, ref) ==
    IF ref[1] = "listing" THEN {VenueCompany[<<l.mic, l.ticker>>] : l \in ById(rows.listings, {ref[2]})}
    ELSE LET issuers == {r[2] : r \in {r \in Above(rows, ref) : r[1] = "issuer"}}
         IN {NameCompany[i.name] : i \in ById(rows.issuers, issuers)}

(* Whatever was discovered at the same time, and moved since the search:   *)
(* an answer tells of companies that the text can mean, and the context of *)
(* a subject - its issuer, instrument and listings - is of one company.    *)
AnswersNameOneCompany ==
    \A x \in answered :
        LET companies == UNION {CompanyOf(identity, ref) : ref \in x.subjects \cup x.context}
        IN /\ companies \subseteq x.query.meant
           /\ x.context # {} => Cardinality(companies) = 1

(* What is committed: others do not see an open transaction.               *)
Committed == IF startup.saved = {} THEN identity ELSE CHOOSE s \in startup.saved : TRUE
Holdings(rows) == {<<r.table, r.owner, r.ref[1], CompanyOf(rows, r.ref)>> : r \in rows.refs}

(* The repair of seeded identities, however it ends: every watchlist,      *)
(* portfolio and fact goes on naming a subject that exists, of the company *)
(* that it named before.                                                   *)
ReferencesKept ==
    /\ \A r \in Committed.refs : r.ref \in Above(Committed, r.ref)
    /\ \E rows \in Seeded0 : Holdings(Committed) = Holdings(rows)

(* What 0001_init.up.sql:80-81 says of instruments: share classes are not  *)
(* collapsed.  Two listings that Polygon gives different FIGIs are not of  *)
(* one instrument.                                                         *)
ClassesApart ==
    \A k, l \in identity.listings :
        LET Figi(x) == UNION {s.figi : s \in {s \in FromPolygon(x.ticker) : s.mic = x.mic}}
        IN k.instrument = l.instrument => Figi(k) = {} \/ Figi(l) = {} \/ Figi(k) = Figi(l)

-------------------------------------------------------------------------------
(* When the sources agree, that is what the properties above rest on: there is *)
(* an assignment `whose` of identifiers to companies that whatever a provider  *)
(* tells, the rows there are at first and the texts that are asked for fit.    *)
(* A row is of a company: an issuer by its name, an instrument by its issuer,  *)
(* a listing by its venue.                                                     *)

Companies == {NameCompany[n] : n \in DOMAIN NameCompany} \cup {VenueCompany[v] : v \in DOMAIN VenueCompany}
Venue(x) == <<x.mic, x.ticker>>

IssuerIs(rows, id, c) == \E i \in rows.issuers : i.id = id /\ NameCompany[i.name] = c
InstrumentIs(rows, id, c) == \E j \in rows.instruments : j.id = id /\ IssuerIs(rows, j.issuer, c)
ListingIs(rows, id, c) == \E l \in rows.listings : l.id = id /\ VenueCompany[Venue(l)] = c
RefIs(rows, ref, c) ==
    /\ ref = <<ref[1], ref[2]>>
    /\ \/ ref[1] = "issuer" /\ IssuerIs(rows, ref[2], c)
       \/ ref[1] = "instrument" /\ InstrumentIs(rows, ref[2], c)
       \/ ref[1] = "listing" /\ ListingIs(rows, ref[2], c)

(* What is told of a listing is of its company, `whose` telling whose an   *)
(* identifier is.                                                          *)
TrueIds(whose, x, c) ==
    /\ \A v \in x.isin : whose[<<"isin", v>>] = c
    /\ \A v \in x.figi : whose[<<"figi", v>>] = c
TrueNames(whose, x, c) ==
    /\ \A v \in x.cik : whose[<<"cik", v>>] = c
    /\ \A v \in x.lei : whose[<<"lei", v>>] = c

TrueSighting(whose, s) ==
    /\ Venue(s) \in DOMAIN VenueCompany /\ s.name \in DOMAIN NameCompany
    /\ VenueCompany[Venue(s)] = NameCompany[s.name]
    /\ TrueIds(whose, s, NameCompany[s.name]) /\ TrueNames(whose, s, NameCompany[s.name])

TrueIssuer(whose, i) ==
    /\ i = [id |-> i.id, name |-> i.name, former |-> i.former, cik |-> i.cik, lei |-> i.lei]
    /\ i.name \in DOMAIN NameCompany
    /\ TrueNames(whose, i, NameCompany[i.name])
    /\ \A q \in SubjectQueries : q.name \in i.former => NameCompany[i.name] \in q.meant

TrueInstrument(whose, rows, j) ==
    /\ j = [id |-> j.id, issuer |-> j.issuer, type |-> j.type, isin |-> j.isin, figi |-> j.figi]
    /\ \E c \in Companies : IssuerIs(rows, j.issuer, c) /\ TrueIds(whose, j, c)

TrueListing(rows, l) ==
    /\ l = [id |-> l.id, instrument |-> l.instrument, mic |-> l.mic, ticker |-> l.ticker, active |-> l.active]
    /\ Venue(l) \in DOMAIN VenueCompany
    /\ InstrumentIs(rows, l.instrument, VenueCompany[Venue(l)])

(* A table numbers its rows: NewId finds the number after the last one.     *)
Numbered(table) ==
    /\ \A x, y \in table : x.id = y.id => x = y
    /\ \E n \in {0} \cup {x.id : x \in table} : n \in Nat /\ \A x \in table : x.id \in 0..n

SoundRows(whose, rows) ==
    /\ rows = [issuers |-> rows.issuers, instruments |-> rows.instruments,
               listings |-> rows.listings, refs |-> rows.refs]
    /\ Numbered(rows.issuers) /\ Numbered(rows.instruments) /\ Numbered(rows.listings)
    /\ \A i \in rows.issuers : TrueIssuer(whose, i)
    /\ \A j \in rows.instruments : TrueInstrument(whose, rows, j)
    /\ \A l \in rows.listings : TrueListing(rows, l)

(* The seeded identity is of one company.                                  *)
LegacyCompany == VenueCompany[Venue(LegacyListing)]
LegacyWhole(rows) ==
    (\E l \in rows.listings : l.id = 0) =>
        /\ \A l \in rows.listings : l.id = 0 => l.instrument = 0 /\ VenueCompany[Venue(l)] = LegacyCompany
        /\ \A j \in rows.instruments : j.id = 0 => j.issuer = 0

(* What watchlists, portfolios and facts name is there.                    *)
RefsStand(rows) ==
    \A r \in rows.refs : /\ r = [table |-> r.table, owner |-> r.owner, ref |-> r.ref]
                         /\ \E c \in Companies : RefIs(rows, r.ref, c)

(* The reference data: whatever a provider tells of a ticker is true, the  *)
(* identities there are at first are sound, and Polygon tells of the       *)
(* ticker of the seeded listing what is of its company.                    *)
TickersTold == {r.ticker : r \in PolygonRows \cup DirectoryRows \cup SidecarRows}

ProvidersTellTrue(whose) ==
    \A t \in TickersTold :
        /\ \A s \in FromPolygon(t) \cup FromSidecar(t) \cup FromDirectory(t) : TrueSighting(whose, s)
        /\ \A s \in FromDirectory(t) :
             /\ \A r \in FigiRecords : r.ticker = s.ticker /\ r.mic \subseteq {s.mic} /\ r.type = s.type =>
                  /\ whose[<<"figi", r.figi>>] = NameCompany[s.name]
                  /\ \A v \in r.isin : whose[<<"isin", v>>] = NameCompany[s.name]
             /\ \A r \in LeiRecords : r.name = s.name /\ r.status = "ISSUED" =>
                  whose[<<"lei", r.lei>>] = NameCompany[s.name]

SeedsAreSound(whose) ==
    \A rows \in Seeded0 : SoundRows(whose, rows) /\ LegacyWhole(rows) /\ RefsStand(rows)

LegacyIsTold ==
    LET rows == FromPolygon(LegacyListing.ticker)
        preferred == {r \in rows : r.mic = LegacyListing.mic}
    IN \A row \in IF preferred # {} THEN preferred ELSE rows : VenueCompany[Venue(row)] = LegacyCompany

(* A text may mean whose identifier, ticker or name it is.                 *)
KeyOf(h) == IF h[1] \in {"cik", "lei"} THEN h ELSE <<"isin", h[2]>>
QueriesMean(whose) ==
    \A q \in SubjectQueries :
        /\ \A h \in q.hint : h = <<h[1], h[2]>> /\ whose[KeyOf(h)] \in q.meant
        /\ \A t \in q.ticker : \A v \in DOMAIN VenueCompany : v[2] = t => VenueCompany[v] \in q.meant
        /\ q.name \in DOMAIN NameCompany => NameCompany[q.name] \in q.meant

Agreed(whose) == ProvidersTellTrue(whose) /\ SeedsAreSound(whose) /\ LegacyIsTold /\ QueriesMean(whose)
SourcesAgree == \E whose : Agreed(whose)
===============================================================================
