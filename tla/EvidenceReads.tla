---------------------------- MODULE EvidenceReads ----------------------------
(***************************************************************************)
(* What users are shown of the evidence plane: the claims an analysis or   *)
(* an agent run reads (evidence/src/local-runtime-evidence.ts), the        *)
(* documents a search finds (document-research.ts), the snapshot sealed    *)
(* over them (dev-api/src/local-runtime.ts), and the inspection of what a  *)
(* snapshot cites (inspector.ts).                                          *)
(*                                                                         *)
(* The tables and the chats' snapshots are given; between any two statements  *)
(* a user, with all they own, may be erased.  A row is visible to a user   *)
(* when its source is nobody's or theirs.  A ref is a pair of kind and id. *)
(***************************************************************************)
EXTENDS Integers, FiniteSets

CONSTANTS
    Readers,         \* users who read
    Libraries,       \* contents the tables may have
    Asking,          \* questions: a subject, and whether of issuer sites or others
    EvidenceLimit,   \* how many claims are read at most
    MaxCited         \* bound: how many snapshots there are

(* The tables, with ids as keys: a row is of one source, that of one user. *)
ASSUME LibrariesAssumption ==
    \A full, other \in Libraries :
        /\ DOMAIN full = {"sources", "documents", "claims", "events", "facts", "chats"}
        /\ \A s \in full.sources, t \in other.sources : s.id = t.id => s.user = t.user
        /\ \A d \in full.documents, e \in other.documents : d.id = e.id => d.source = e.source
        /\ \A c \in full.claims, e \in other.claims : c.id = e.id => c.source = e.source

VARIABLES
    library,         \* rows of sources, documents, claims, events, facts; chats' snapshots
    reading,         \* what a user's call has read
    cited,           \* snapshots: their user, the refs of the manifest, published
    shown            \* what the last step showed: the user and the refs

readVars == <<library, reading, cited, shown>>

NotReading == [at |-> "idle", claims |-> {}]

(* Whose a ref was, also when its row is gone by now.                      *)
OwnersOf(ref) ==
    UNION {{s.user : s \in {s \in full.sources : ref \in {<<"source", s.id>>}
              \cup {<<"document", d.id>> : d \in {d \in full.documents : d.source = s.id}}
              \cup {<<"claim", c.id>> : c \in {c \in full.claims : c.source = s.id}}}} : full \in Libraries}

(* The seal of a chat's answer loads the rows of its refs as its user, by  *)
(* the same loadVerifierRowsForRefs (chat/src/local-runtime.ts).           *)
ASSUME ChatsAssumption ==
    \A full \in Libraries : \A s \in full.chats : \A ref \in s.refs :
        OwnersOf(ref) \subseteq {{}, {s.user}}

ReadsInit ==
    /\ library \in Libraries
    /\ reading = [u \in Readers |-> NotReading]
    /\ cited = library.chats /\ shown = {}

(* user_id is null or the user.                                            *)
VisibleTo(u, source) ==
    \E s \in library.sources : s.id = source /\ s.user \in {{}, {u}}

Ref(kind, rows) == {<<kind, row.id>> : row \in rows}
DocumentRows(refs) == {d \in library.documents : <<"document", d.id>> \in refs}
ClaimRows(refs) == {c \in library.claims : <<"claim", c.id>> \in refs}

(***************************************************************************)
(* loadLocalRuntimeEvidence: claims about the subject that still hold, of  *)
(* documents of issuer sites, of others or of both, not processed before,  *)
(* visible by the source that reported them; the newest come first.        *)
(***************************************************************************)
Asset(c) == \E d \in library.documents : d.id = c.doc /\ d.asset
Matching(u, q, processed) ==
    {c \in library.claims :
        /\ q.about \in c.about
        /\ c.status \in {"extracted", "corroborated"}
        /\ c.id \notin processed
        /\ VisibleTo(u, c.source)
        /\ (IF Asset(c) THEN "issuer_ir" ELSE "other") \in q.categories}
Latest(rows) == {c \in rows : Cardinality({d \in rows : d.at > c.at}) < EvidenceLimit}

(* The refs the evidence contributes to a manifest.                        *)
EvidenceRefs(claims) ==
    {<<"claim", c.id>> : c \in claims} \cup {<<"document", c.doc>> : c \in claims}
    \cup {<<"source", c.source>> : c \in claims}

(* The claims of a user's earlier findings, the watermark of their agent.  *)
Processed(u) ==
    {c.id : c \in ClaimRows(UNION {s.refs : s \in {s \in cited : s.user = u /\ s.by = "agent"}})}

ReadClaims(u) ==
    /\ reading[u].at = "idle"
    /\ Cardinality(cited) < MaxCited
    /\ \E q \in Asking, by \in {"agent", "analysis"} :
         LET rows == Latest(Matching(u, q, IF by = "agent" THEN Processed(u) ELSE {}))
         IN reading' = [reading EXCEPT ![u] = [at |-> by, claims |-> rows]]
    /\ shown' = {}
    /\ UNCHANGED <<library, cited>>

(* An agent run that has found nothing writes no snapshot.                 *)
FindNothing(u) ==
    /\ reading[u].at = "agent" /\ reading[u].claims = {}
    /\ reading' = [reading EXCEPT ![u] = NotReading]
    /\ shown' = {}
    /\ UNCHANGED <<library, cited>>

(***************************************************************************)
(* loadVerifierRowsForRefs, and what the verifier demands of the rows.     *)
(***************************************************************************)
VerifierSources(u, refs) == {s.id : s \in {s \in library.sources : <<"source", s.id>> \in refs /\ VisibleTo(u, s.id)}}
VerifierDocuments(u, refs) == {d \in DocumentRows(refs) : VisibleTo(u, d.source)}
VerifierClaims(u, refs) == {c \in ClaimRows(refs) : VisibleTo(u, c.source)}

SourcesOf(refs) == {r[2] : r \in {r \in refs : r[1] = "source"}}
SourcesHeld(refs, rows, sources) ==
    \A row \in rows : row.source \in sources \cap SourcesOf(refs)

(* A bug: the documents of claims are not verified.                        *)
VerifiedClaims(u, refs) ==
    /\ ClaimRows(refs) \subseteq VerifierClaims(u, refs)
    /\ SourcesOf(refs) \subseteq VerifierSources(u, refs)

Verified(u, refs) ==
    LET sources == VerifierSources(u, refs)
        documents == VerifierDocuments(u, refs)
        claims == VerifierClaims(u, refs)
    IN /\ refs \subseteq Ref("document", documents) \cup Ref("claim", claims)
                         \cup {<<"source", s>> : s \in sources}
       /\ SourcesHeld(refs, documents, sources) /\ SourcesHeld(refs, claims, sources)

(* sealAgentEvidenceSnapshot and sealAnalyzeSnapshot.  A run, or a         *)
(* template's run, is what makes the snapshot visible: the agent's         *)
(* findings are written in the same transaction, the run of a template     *)
(* after the seal, unless the process dies.                                *)
SealEvidence(u) ==
    LET refs == EvidenceRefs(reading[u].claims)
    IN /\ reading[u].at \in {"agent", "analysis"}
       /\ reading[u].at = "agent" => reading[u].claims # {}
       /\ Verified(u, refs)
       /\ \E published \in {TRUE, reading[u].at = "agent"} :
            cited' = cited \cup {[user |-> u, by |-> reading[u].at, refs |-> refs,
                                  published |-> published]}
       /\ reading' = [reading EXCEPT ![u] = NotReading]
       /\ shown' = {}
       /\ UNCHANGED library

(* The seal fails, and with it the run or the request.                     *)
SealRefused(u) ==
    /\ reading[u].at \in {"agent", "analysis"}
    /\ ~Verified(u, EvidenceRefs(reading[u].claims))
    /\ reading' = [reading EXCEPT ![u] = NotReading]
    /\ shown' = {}
    /\ UNCHANGED <<library, cited>>

(***************************************************************************)
(* loadEvidenceInspection: of a snapshot the user sees by a finding, a     *)
(* message or a template's run of theirs, and of a ref it holds; the       *)
(* related refs are those the snapshot holds too.  Events and facts are in *)
(* the snapshots of chats, which are given.                                *)
(***************************************************************************)
SnapshotVisibleTo(u, s) == s.user = u /\ s.published

InspectedSource(u, id) == IF VisibleTo(u, id) THEN {{}} ELSE {}
InspectedDocument(u, id) ==
    {{<<"source", d.source>>} : d \in {d \in library.documents : d.id = id /\ VisibleTo(u, d.source)}}
InspectedClaim(u, id) ==
    {{<<"document", c.doc>>, <<"source", c.source>>} :
        c \in {c \in library.claims : c.id = id /\ VisibleTo(u, c.source)}}
InspectedEvent(id) ==
    {{<<"claim", c>> : c \in e.claims} \cup {<<"source", s>> : s \in e.sources} :
        e \in {e \in library.events : e.id = id}}
InspectedFact(u, id) ==
    {{<<"source", f.source>>} :
        f \in {f \in library.facts : f.id = id /\ "app" \in f.channels /\ VisibleTo(u, f.source)}}

Inspected(u, ref) ==
    CASE ref[1] = "source" -> InspectedSource(u, ref[2])
      [] ref[1] = "document" -> InspectedDocument(u, ref[2])
      [] ref[1] = "claim" -> InspectedClaim(u, ref[2])
      [] ref[1] = "event" -> InspectedEvent(ref[2])
      [] OTHER -> InspectedFact(u, ref[2])

Inspect(u) ==
    /\ shown = {}
    /\ \E s \in cited : SnapshotVisibleTo(u, s) /\
         \E ref \in s.refs : \E related \in Inspected(u, ref) :
           shown' = {[user |-> u, refs |-> {ref} \cup (related \cap s.refs)]}
    /\ UNCHANGED <<library, reading, cited>>

(* searchEvidenceDocuments and fetchEvidenceDocumentMetadata: documents    *)
(* that are not deleted, visible by their source.                          *)
SearchDocuments(u) ==
    /\ shown = {}
    /\ \E q \in Asking :
         LET found == {d \in library.documents : q.about \in d.mentions /\ VisibleTo(u, d.source)}
         IN shown' = {[user |-> u, refs |-> Ref("document", found)
                                            \cup {<<"source", d.source>> : d \in found}]}
    /\ UNCHANGED <<library, reading, cited>>

(* A user is erased: their sources go, with their documents and claims.    *)
EraseOwner(u) ==
    LET gone == {s.id : s \in {s \in library.sources : s.user = {u}}}
        docs == {d.id : d \in {d \in library.documents : d.source \in gone}}
    IN /\ gone # {}
       /\ library' = [library EXCEPT
            !.sources = {s \in @ : s.id \notin gone},
            !.documents = {d \in @ : d.id \notin docs},
            !.claims = {c \in @ : c.doc \notin docs /\ c.source \notin gone}]
       /\ shown' = {}
       /\ UNCHANGED <<reading, cited>>

ReadsNext ==
    \/ \E u \in Readers :
         ReadClaims(u) \/ FindNothing(u) \/ SealEvidence(u) \/ SealRefused(u) \/ Inspect(u)
         \/ SearchDocuments(u)
    \/ \E u \in UNION {s.user : s \in library.sources} : EraseOwner(u)

ReadsSpec == ReadsInit /\ [][ReadsNext]_readVars

ReadsTypeOK ==
    /\ \E full \in Libraries : library.sources \subseteq full.sources
    /\ \A u \in Readers : reading[u].at \in {"idle", "agent", "analysis"}
    /\ {s.user : s \in cited} \cup {x.user : x \in shown} \subseteq Readers

(* A user is never shown, by a search, an inspection or what it relates    *)
(* to, a source, a document or a claim that is another user's - also when  *)
(* a claim of a public page hangs on the document of somebody's upload.    *)
ShownIsOwn == \A x \in shown : \A ref \in x.refs : OwnersOf(ref) \subseteq {{}, {x.user}}
=============================================================================
