---------------------------- MODULE EvidenceIngest ----------------------------
(***************************************************************************)
(* How sources become documents of the evidence plane                      *)
(* (services/evidence/src): user uploaded (user-uploaded.ts), press          *)
(* releases, transcripts and articles (news-ingest.ts), SEC filings        *)
(* (sec-edgar.ts), public news discovery (gdelt-ingest.ts), the crawler of *)
(* issuer sites (issuer-ir-ingest.ts, issuer-ir-registry.ts) and the       *)
(* mentions a reader tool extracts (reader/extract-tools.ts).              *)
(*                                                                         *)
(* Ingesters run these calls side by side on one database; every statement,  *)
(* and every transaction, is one step.  What BlobLifecycle tells of the    *)
(* object store under ingestDocumentInTransaction (the put, its undo, the  *)
(* collector) is abstracted here to a transaction that commits or leaves   *)
(* nothing.  A document is the row unique by (content_hash, raw_blob_id):  *)
(* the pair of its bytes and its holder, which is 0 when the bytes are     *)
(* stored and the source they were fetched for when the license is         *)
(* ephemeral.  Bytes, URLs and subjects are values of the model.           *)
(***************************************************************************)
EXTENDS Integers, FiniteSets, Sequences, FiniteSetsExt

CONSTANTS
    Ingesters,       \* processes that ingest
    Ingestions,    \* the calls they may be asked for
    Issuers,       \* issuers with a registered site
    Hosted,        \* the provider a URL of a site is served by
    Served,        \* the bytes a URL serves
    Extracted,     \* the subjects the extractor resolves in a document's bytes
    MaxSources,       \* bound: how many source sourceRows are made
    MaxIngestFaults      \* bound: how many steps fail or die

VARIABLES
    sources,       \* rows of sources
    documents,     \* rows of documents
    mentions,      \* rows of mentions
    assets,        \* rows of ir_document_assets
    claimed,       \* rows of claims, as the (issuer, URL) they came from
    crawls,        \* the crawl status of a site
    ingesting,          \* what a worker does
    uploaded,       \* the bytes a user has been told are ingested
    sourceRows,          \* how many source rows were made
    ingestFaults         \* how many steps failed

ingestTables == <<sources, documents, mentions, assets, claimed, crawls>>
ingestVars == <<ingestTables, ingesting, uploaded, sourceRows, ingestFaults>>

Stored == {"public", "licensed", "user_private", "free"}
Ephemeral == {"ephemeral"}

Tiers(kind) == CASE kind = "press_release" -> {"primary", "secondary"}
                 [] OTHER -> {"secondary", "tertiary"}
Licenses(kind) == CASE kind = "press_release" -> {"public", "free"}
                    [] kind = "transcript" -> {"licensed", "public", "ephemeral"}
                    [] OTHER -> {"free", "licensed", "ephemeral"}

(* The provider that vouches for a page of an issuer's site, and the       *)
(* license the crawler stores it under.                                    *)
Provider(url) ==
    IF Hosted[url] \in {"issuer_ir", "q4cdn", "notified"} THEN "issuer_ir"
    ELSE Hosted[url]
SiteLicense(page) ==
    IF Provider(page.url) = "issuer_ir" THEN "public"
    ELSE IF page.kind = "transcript" THEN "licensed" ELSE "free"

AtRest == [at |-> "idle", call |-> <<>>, left |-> <<>>, source |-> 0, doc |-> {}]

IngestInit ==
    /\ sources = {} /\ documents = {} /\ mentions = {} /\ assets = {}
    /\ claimed = [p \in Issuers \X DOMAIN Hosted |-> 0]
    /\ crawls = [i \in Issuers |-> "never"]
    /\ ingesting = [w \in Ingesters |-> AtRest]
    /\ uploaded = {} /\ sourceRows = 0 /\ ingestFaults = 0

Asked(w) == ingesting[w].call
MoveTo(w, at) == ingesting' = [ingesting EXCEPT ![w].at = at]
EndIngest(w) == ingesting' = [ingesting EXCEPT ![w] = AtRest]
IngestFault == ingestFaults < MaxIngestFaults /\ ingestFaults' = ingestFaults + 1

(***************************************************************************)
(* Rows.                                                                   *)
(***************************************************************************)
SourceRow(provider, url, license, user) ==
    [id |-> sourceRows + 1, provider |-> provider, url |-> url,
     license |-> license, user |-> user]

(* createDocument: the row that has these bytes and this holder, whoever   *)
(* made it, or else a new one.                                             *)
HeldDocument(bytes, source) ==
    {d \in documents : d.bytes = bytes
                       /\ d.holder = (IF source.license \in Stored THEN 0 ELSE source.id)}
DocumentRow(bytes, source) ==
    IF HeldDocument(bytes, source) # {} THEN HeldDocument(bytes, source)
    ELSE {[bytes |-> bytes, source |-> source.id,
           holder |-> IF source.license \in Stored THEN 0 ELSE source.id]}

SourceById(id) == CHOOSE s \in sources : s.id = id
MentionRow(doc, subject) == [bytes |-> doc.bytes, holder |-> doc.holder, subject |-> subject]
MentionsOf(doc) == {m \in mentions : m.bytes = doc.bytes /\ m.holder = doc.holder}

(***************************************************************************)
(* The start of a call: what it validates before it touches anything, and  *)
(* what it fetches first.                                                  *)
(***************************************************************************)
Acceptable(call) ==
    /\ call.op = "upload" => call.bytes # "empty"
    /\ call.op = "news" =>
         /\ call.bytes # "empty"
         /\ call.tier \in Tiers(call.kind)
         /\ call.license \in Licenses(call.kind)

StartIngest(w) ==
    /\ ingesting[w].at = "idle"
    /\ sourceRows < MaxSources
    /\ \E call \in Ingestions :
         /\ Acceptable(call)
         /\ ingesting' = [ingesting EXCEPT ![w] =
              [AtRest EXCEPT
                !.call = call,
                !.at = CASE call.op \in {"upload", "news"} -> "source"
                         [] call.op = "mentions" -> "candidates"
                         [] OTHER -> "fetch"]]
    /\ UNCHANGED <<ingestTables, uploaded, sourceRows, ingestFaults>>

(* The request ends: the filing's bytes, the articles found, the pages of  *)
(* the site (none when it answers that nothing was modified) - or an error *)
(* with nothing written but the status of the crawl.                       *)
FetchFirst(w) ==
    /\ ingesting[w].at = "fetch"
    /\ \/ /\ Asked(w).op = "filing" /\ MoveTo(w, "source")
       \/ /\ Asked(w).op = "discover"
          /\ ingesting' = [ingesting EXCEPT ![w].at = "article", ![w].left = Asked(w).found]
       \/ /\ Asked(w).op = "crawl"
          /\ \E pages \in {Asked(w).found, <<>>} :
               ingesting' = [ingesting EXCEPT ![w].at = "page", ![w].left = pages]
    /\ UNCHANGED <<ingestTables, uploaded, sourceRows, ingestFaults>>

FetchFails(w) ==
    /\ ingesting[w].at \in {"fetch", "bytes"}
    /\ IngestFault
    /\ IF Asked(w).op = "crawl" THEN MoveTo(w, "failed") ELSE EndIngest(w)
    /\ UNCHANGED <<ingestTables, uploaded, sourceRows>>

(***************************************************************************)
(* One source and its document, in two steps: createSource, then           *)
(* ingestDocument under the license of the source.  When the second fails, *)
(* the source is deleted - not by ingestUserUpload, which leaves it.       *)
(***************************************************************************)
NextSource(w) ==
    CASE Asked(w).op = "upload" -> SourceRow("user_upload", "none", "user_private", {Asked(w).user})
      [] Asked(w).op = "news" -> SourceRow("wire", Asked(w).url, Asked(w).license, {})
      [] Asked(w).op = "filing" -> SourceRow("sec_edgar", Asked(w).url, "public", {})
      [] OTHER -> SourceRow("gdelt", Head(ingesting[w].left).url, "ephemeral", {})

CreateSource(w) ==
    /\ ingesting[w].at = "source"
    /\ sourceRows < MaxSources
    /\ sourceRows' = sourceRows + 1
    /\ sources' = sources \cup {NextSource(w)}
    /\ ingesting' = [ingesting EXCEPT ![w].at = "ingest", ![w].source = sourceRows + 1]
    /\ UNCHANGED <<documents, mentions, assets, claimed, crawls, uploaded, ingestFaults>>

Content(w) == IF Asked(w).op = "discover" THEN Head(ingesting[w].left).bytes ELSE Asked(w).bytes

IngestDocument(w) ==
    /\ ingesting[w].at = "ingest"
    /\ LET doc == DocumentRow(Content(w), SourceById(ingesting[w].source))
       IN /\ documents' = documents \cup doc
          /\ IF Asked(w).op = "discover"
             THEN ingesting' = [ingesting EXCEPT ![w].at = "tools", ![w].doc = doc]
             ELSE EndIngest(w)
    /\ uploaded' = IF Asked(w).op = "upload"
                  THEN uploaded \cup {<<Asked(w).user, Asked(w).bytes>>} ELSE uploaded
    /\ UNCHANGED <<sources, mentions, assets, claimed, crawls, sourceRows, ingestFaults>>

IngestFails(w) ==
    /\ ingesting[w].at = "ingest"
    /\ IngestFault
    /\ IF Asked(w).op = "upload" THEN EndIngest(w) ELSE MoveTo(w, "cleanup")
    /\ UNCHANGED <<ingestTables, uploaded, sourceRows>>

(* cleanupSourceAfterFailedIngest: whether or not the delete succeeds, the *)
(* call ends with an error.                                                *)
CleanUpSource(w) ==
    /\ ingesting[w].at = "cleanup"
    /\ \/ /\ sources' = {s \in sources : s.id # ingesting[w].source}
          /\ UNCHANGED ingestFaults
       \/ IngestFault /\ UNCHANGED sources
    /\ EndIngest(w)
    /\ UNCHANGED <<documents, mentions, assets, claimed, crawls, uploaded, sourceRows>>

(***************************************************************************)
(* ingestGdeltArticleDiscoveries: article by article, one that is about    *)
(* the subject is looked up by its canonical URL and written only when it  *)
(* is not there; then the reader tools run, then the mention is written.   *)
(***************************************************************************)
Discovered(url) ==
    {d \in documents : \E s \in sources :
        s.id = d.source /\ s.provider = "gdelt" /\ s.url = url}

NextArticle(w) ==
    /\ ingesting[w].at = "article"
    /\ IF ingesting[w].left = <<>> THEN EndIngest(w)
       ELSE LET article == Head(ingesting[w].left)
                there == Discovered(article.url)
            IN IF Asked(w).subject \notin article.about
               THEN ingesting' = [ingesting EXCEPT ![w].left = Tail(@)]
               ELSE IF there = {} THEN MoveTo(w, "source")
               ELSE \E d \in there :
                      ingesting' = [ingesting EXCEPT ![w].at = "tools", ![w].doc = {d}]
    /\ UNCHANGED <<ingestTables, uploaded, sourceRows, ingestFaults>>

(* extract_mentions, as a routed tool or a call of its own: the subjects   *)
(* found replace every mention of the document.  A tool that throws is     *)
(* noted and the next one runs.                                            *)
ReplaceMentions(doc) ==
    mentions' = (mentions \ MentionsOf(doc))
                \cup {MentionRow(doc, s) : s \in Extracted[doc.bytes]}

RouteReaderTools(w) ==
    /\ ingesting[w].at = "tools"
    /\ \/ \E d \in ingesting[w].doc : ReplaceMentions(d)
       \/ UNCHANGED mentions
    /\ MoveTo(w, "mention")
    /\ UNCHANGED <<sources, documents, assets, claimed, crawls, uploaded, sourceRows, ingestFaults>>

CreateDiscoveryMention(w) ==
    /\ ingesting[w].at = "mention"
    /\ mentions' = mentions \cup {MentionRow(d, Asked(w).subject) : d \in ingesting[w].doc}
    /\ ingesting' = [ingesting EXCEPT ![w].at = "article", ![w].left = Tail(@),
                            ![w].source = 0, ![w].doc = {}]
    /\ UNCHANGED <<sources, documents, assets, claimed, crawls, uploaded, sourceRows, ingestFaults>>

ExtractMentions(w) ==
    /\ ingesting[w].at = "candidates"
    /\ \/ \E d \in documents : ReplaceMentions(d)
       \/ UNCHANGED mentions
    /\ EndIngest(w)
    /\ UNCHANGED <<sources, documents, assets, claimed, crawls, uploaded, sourceRows, ingestFaults>>

(***************************************************************************)
(* ingestIssuerIrSource: a page with no asset is fetched, and all that is  *)
(* known of it is written in one transaction.  The first error of any page *)
(* ends the crawl.                                                         *)
(***************************************************************************)
NextPage(w) ==
    /\ ingesting[w].at = "page"
    /\ IF ingesting[w].left = <<>> THEN MoveTo(w, "succeeded")
       ELSE LET page == Head(ingesting[w].left)
            IN IF \E a \in assets : a.issuer = Asked(w).issuer /\ a.url = page.url
               THEN ingesting' = [ingesting EXCEPT ![w].left = Tail(@)]
               ELSE MoveTo(w, "bytes")
    /\ UNCHANGED <<ingestTables, uploaded, sourceRows, ingestFaults>>

FetchPage(w) ==
    /\ ingesting[w].at = "bytes"
    /\ IF Served[Head(ingesting[w].left).url] = "empty"
       THEN ingesting' = [ingesting EXCEPT ![w].at = "page", ![w].left = Tail(@)]
       ELSE MoveTo(w, "persist")
    /\ UNCHANGED <<ingestTables, uploaded, sourceRows, ingestFaults>>

AssetUnchecked(issuer, url, doc) == FALSE  \* a bug: no unique constraint

(* The assets are unique by issuer and URL, and by document: a second      *)
(* asset of either rolls the transaction back.                             *)
AssetConflict(issuer, url, doc) ==
    \E a \in assets : (a.issuer = issuer /\ a.url = url) \/ a.doc = doc

PersistCandidate(w) ==
    /\ ingesting[w].at = "persist"
    /\ sourceRows < MaxSources
    /\ LET page == Head(ingesting[w].left)
           issuer == Asked(w).issuer
           source == SourceRow(Provider(page.url), page.url, SiteLicense(page), {})
           doc == CHOOSE d \in DocumentRow(Served[page.url], source) : TRUE
       IN IF AssetConflict(issuer, page.url, doc)
          THEN /\ MoveTo(w, "failed")
               /\ UNCHANGED <<ingestTables, sourceRows>>
          ELSE /\ sourceRows' = sourceRows + 1
               /\ sources' = sources \cup {source}
               /\ documents' = documents \cup {doc}
               /\ assets' = assets \cup {[issuer |-> issuer, url |-> page.url, doc |-> doc]}
               /\ mentions' = mentions \cup {MentionRow(doc, issuer)}
               /\ claimed' = [claimed EXCEPT ![<<issuer, page.url>>] = @ + 1]
               /\ ingesting' = [ingesting EXCEPT ![w].at = "page", ![w].left = Tail(@)]
               /\ UNCHANGED crawls
    /\ UNCHANGED <<uploaded, ingestFaults>>

PersistFails(w) ==
    /\ ingesting[w].at = "persist"
    /\ IngestFault /\ MoveTo(w, "failed")
    /\ UNCHANGED <<ingestTables, uploaded, sourceRows>>

RecordCrawl(w) ==
    /\ ingesting[w].at \in {"succeeded", "failed"}
    /\ crawls' = [crawls EXCEPT ![Asked(w).issuer] = ingesting[w].at]
    /\ EndIngest(w)
    /\ UNCHANGED <<sources, documents, mentions, assets, claimed, uploaded, sourceRows, ingestFaults>>

(* A process dies where it stands: what it wrote stays.                    *)
DieInIngest(w) ==
    /\ ingesting[w].at # "idle"
    /\ IngestFault /\ EndIngest(w)
    /\ UNCHANGED <<ingestTables, uploaded, sourceRows>>

IngestStep(w) ==
    \/ StartIngest(w) \/ FetchFirst(w) \/ FetchFails(w)
    \/ CreateSource(w) \/ IngestDocument(w) \/ IngestFails(w) \/ CleanUpSource(w)
    \/ NextArticle(w) \/ RouteReaderTools(w) \/ CreateDiscoveryMention(w) \/ ExtractMentions(w)
    \/ NextPage(w) \/ FetchPage(w) \/ PersistCandidate(w) \/ PersistFails(w)
    \/ RecordCrawl(w) \/ DieInIngest(w)

IngestNext == \E w \in Ingesters : IngestStep(w)
IngestSpec == IngestInit /\ [][IngestNext]_ingestVars

-----------------------------------------------------------------------------
IngestTypeOK ==
    /\ sources \subseteq [id : 1..MaxSources, provider : {"user_upload", "wire", "sec_edgar",
                            "gdelt", "issuer_ir", "business_wire"},
                          url : DOMAIN Hosted \cup {"none"},
                          license : Stored \cup Ephemeral, user : SUBSET {"ann", "ben"}]
    /\ \A d \in documents : d.source \in 1..MaxSources /\ d.holder \in 0..MaxSources
    /\ sourceRows \in 0..MaxSources /\ ingestFaults \in 0..MaxIngestFaults

(* However many crawls of a site run at once, die or are retried, the      *)
(* claims of a page are written once, and only with its asset: the check   *)
(* before the fetch is not what ensures it, the transaction is             *)
(* (ingestIssuerIrSource, persistIssuerIrCandidate).                       *)
ExtractedOnce ==
    \A p \in DOMAIN claimed :
        claimed[p] = Cardinality({a \in assets : <<a.issuer, a.url>> = p})
        /\ claimed[p] <= 1

-------------------------------------------------------------------------------
(***************************************************************************)
(* The token bucket before every request to EDGAR                          *)
(* (services/evidence/src/sec-edgar.ts): callers wait for one another in a *)
(* chain of promises; the first of them takes a token, or sleeps until one *)
(* has been refilled.                                                      *)
(*                                                                         *)
(* Time passes in ticks, TicksPerToken of which refill one token; the      *)
(* bucket is measured in ticks as well, so a token is TicksPerToken of it. *)
(* Timers fire late or in time; the wall clock that refills are told from  *)
(* (Date.now) may be set back, and may be stepped ahead.                   *)
(***************************************************************************)

CONSTANTS
    Fetchers,        \* callers of fetchFiling
    BucketCapacity,  \* config.capacity
    TicksPerToken,   \* 1000 / config.refillPerSecond
    SetBack,         \* by how much the wall clock may be set back, once,
    StepAhead,       \* and by how much it may be stepped ahead, once
    MaxTicks,        \* bound: the last tick
    MaxGranted       \* bound: how many requests are let through

ASSUME BucketAssumption ==
    BucketCapacity \in Nat \ {0} /\ TicksPerToken \in Nat \ {0} /\ SetBack \in Nat
    /\ StepAhead \in Nat

VARIABLES
    tick,            \* the time that really passed
    behind,          \* how far the wall clock was set back,
    ahead,           \* and how far it was stepped ahead
    bucket,          \* tokens, in ticks; below zero when taken too early
    refilledAt,      \* lastRefillMs
    chain,           \* the callers that wait, the first of which is served
    fetcher,         \* what a caller does, and when its timer fires
    granted          \* when requests were let through, by Passed

secVars == <<tick, behind, ahead, bucket, refilledAt, chain, fetcher, granted>>

Full == BucketCapacity * TicksPerToken

SecInit ==
    /\ tick = 0 /\ behind = 0 /\ ahead = 0
    /\ bucket = Full /\ refilledAt = 0
    /\ chain = <<>> /\ granted = <<>>
    /\ fetcher = [f \in Fetchers |-> [at |-> "idle", wakes |-> 0]]

SecTick ==
    /\ tick < MaxTicks
    /\ tick' = tick + 1
    /\ UNCHANGED <<behind, ahead, bucket, refilledAt, chain, fetcher, granted>>

SetClockBack ==
    /\ behind = 0 /\ SetBack > 0
    /\ behind' = SetBack
    /\ UNCHANGED <<tick, ahead, bucket, refilledAt, chain, fetcher, granted>>

StepClockAhead ==
    /\ ahead = 0 /\ StepAhead > 0
    /\ ahead' = StepAhead
    /\ UNCHANGED <<tick, behind, bucket, refilledAt, chain, fetcher, granted>>

(* The time that passed, as far as a refill can tell: a step ahead looks   *)
(* like time that passed.                                                  *)
Passed == tick + ahead

(* refill: what the bucket holds now, unless the clock has not moved on.   *)
Now == Passed - behind
Refilled == IF Now > refilledAt THEN Min({Full, bucket + Now - refilledAt}) ELSE bucket
RefilledAt == IF Now > refilledAt THEN Now ELSE refilledAt

(* fetchFiling, and acquire: the call takes its place in the chain.        *)
Acquire(f) ==
    /\ fetcher[f].at = "idle"
    /\ Len(granted) + Len(chain) < MaxGranted
    /\ chain' = Append(chain, f)
    /\ fetcher' = [fetcher EXCEPT ![f].at = "queued"]
    /\ UNCHANGED <<tick, behind, ahead, bucket, refilledAt, granted>>

TurnOfAny(f) == TRUE                         \* a bug: acquire does not chain
TurnOf(f) == chain # <<>> /\ Head(chain) = f

Grant(f) ==
    /\ bucket' = Refilled - TicksPerToken
    /\ refilledAt' = RefilledAt
    /\ chain' = Tail(chain)
    /\ granted' = Append(granted, Passed)
    /\ fetcher' = [fetcher EXCEPT ![f] = [at |-> "fetching", wakes |-> 0]]

(* acquireOne with a token in the bucket ...                               *)
TakeToken(f) ==
    /\ fetcher[f].at = "queued" /\ TurnOf(f)
    /\ Refilled >= TicksPerToken
    /\ Grant(f)
    /\ UNCHANGED <<tick, behind, ahead>>

(* ... and without: it sleeps for as long as the missing part takes,       *)
SleepForToken(f) ==
    /\ fetcher[f].at = "queued" /\ TurnOf(f)
    /\ Refilled < TicksPerToken
    /\ bucket' = Refilled /\ refilledAt' = RefilledAt
    /\ fetcher' = [fetcher EXCEPT ![f] =
                     [at |-> "asleep", wakes |-> tick + TicksPerToken - Refilled]]
    /\ UNCHANGED <<tick, behind, ahead, chain, granted>>

(* and takes the token without a look at the bucket.                       *)
WakeAndTake(f) ==
    /\ fetcher[f].at = "asleep"
    /\ tick >= fetcher[f].wakes
    /\ Grant(f)
    /\ UNCHANGED <<tick, behind, ahead>>

(* The response, an error status or the timeout ends the call.             *)
FetchEnds(f) ==
    /\ fetcher[f].at = "fetching"
    /\ fetcher' = [fetcher EXCEPT ![f].at = "idle"]
    /\ UNCHANGED <<tick, behind, ahead, bucket, refilledAt, chain, granted>>

SecNext ==
    \/ SecTick \/ SetClockBack \/ StepClockAhead
    \/ \E f \in Fetchers :
         Acquire(f) \/ TakeToken(f) \/ SleepForToken(f) \/ WakeAndTake(f) \/ FetchEnds(f)

SecSpec == SecInit /\ [][SecNext]_secVars

SecTypeOK ==
    /\ tick \in 0..MaxTicks /\ behind \in {0, SetBack} /\ ahead \in {0, StepAhead} /\ bucket <= Full
    /\ \A f \in Fetchers : fetcher[f].at \in {"idle", "queued", "asleep", "fetching"}
    /\ \A i \in DOMAIN chain : fetcher[chain[i]].at \in {"queued", "asleep"}

(* However many callers wait, however late timers fire, and when the wall  *)
(* clock is set back: between any two requests no more were let through    *)
(* than the bucket holds and has been refilled with in between. A step of  *)
(* that clock ahead counts as time in between: nothing in refill can tell, *)
(* so the requests of a step come on top of those of the time.             *)
GrantsWithinRefill ==
    \A i, j \in DOMAIN granted :
        i <= j => (j - i + 1) * TicksPerToken <= Full + granted[j] - granted[i]
===============================================================================
