---------------------------- MODULE BlobLifecycle ----------------------------
(***************************************************************************)
(* Raw blobs of the evidence plane, from ingest to garbage collection:     *)
(* ingestDocumentInTransaction (services/evidence/src/ingest.ts) under     *)
(* withTransaction (transaction.ts), deleteUserAndQueueObjectBlobs and     *)
(* runObjectBlobGcBatch (blob-gc-repo.ts), on one Postgres database and    *)
(* one object store, which knows nothing of transactions.                  *)
(*                                                                         *)
(* A blob is named by the hash of its bytes, and documents are unique by   *)
(* that name: doc[b] is the source of the one document of a blob.  Locks   *)
(* follow from where a transaction stands: an ingest holds the advisory    *)
(* lock of its blob and a key-share lock on its source, an erasure holds   *)
(* the sources of its user and the queue rows it wrote, a collector the    *)
(* queue rows it selected and the advisory locks of the blobs it visited.  *)
(***************************************************************************)
EXTENDS Integers, FiniteSets

CONSTANTS
    Ingests,       \* processes that ingest documents
    Users,         \* users, each of whom may be erased by a process
    Collectors,    \* garbage collectors
    Blobs,         \* blob names
    Sources,       \* source rows
    BlobOf,        \* the blob an ingest stores
    PutSource,      \* the source it stores it for
    SourceUser,        \* the user a source belongs to, or None
    Limit,         \* how many queue rows a batch selects
    MaxFailures,   \* bound: how many steps fail
    None           \* no source, no user, no blob

ASSUME BlobsAssumption ==
    /\ BlobOf \in [Ingests -> Blobs] /\ PutSource \in [Ingests -> Sources]
    /\ SourceUser \in [Sources -> Users \cup {None}]
    /\ None \notin Sources \cup Users \cup Blobs
    /\ Limit \in Nat \ {0} /\ MaxFailures \in Nat

VARIABLES
    store,       \* the blobs in the object store
    doc,         \* the source of the committed document of a blob
    gcQueue,       \* object_blob_gc_queue: "none", "queued" or "deleted"
    erased,      \* the users that are gone, with their sources
    recorded,    \* the stored blobs that have had a committed document
    lost,        \* the blobs that a rolled-back ingest deleted after its lock was gone,
                 \* unless a document was committed with the blob in the store since
    ingest,      \* where an ingest stands
    created,     \* its put has created the blob
    erase,       \* where the erasure of a user stands
    toQueue,     \* the blobs it has queued, uncommitted
    gc,          \* where a collector stands
    selected,    \* the queue rows it has locked
    todo,        \* those it has not visited yet
    current,     \* the blob it visits
    marked,      \* those it has deleted from the store, uncommitted
    failures     \* how many steps have failed

blobTables == <<doc, gcQueue, erased>>
putVars == <<ingest, created>>
eraseVars == <<erase, toQueue>>
gcVars == <<gc, selected, todo, current, marked>>
blobVars == <<store, recorded, lost, blobTables, putVars, eraseVars, gcVars, failures>>

BlobInit ==
    /\ store = {} /\ recorded = {} /\ lost = {}
    /\ doc = [b \in Blobs |-> None]
    /\ gcQueue = [b \in Blobs |-> "none"]
    /\ erased = {}
    /\ ingest = [i \in Ingests |-> "idle"]
    /\ created = [i \in Ingests |-> FALSE]
    /\ erase = [u \in Users |-> "idle"]
    /\ toQueue = [u \in Users |-> {}]
    /\ gc = [g \in Collectors |-> "idle"]
    /\ selected = [g \in Collectors |-> {}]
    /\ todo = [g \in Collectors |-> {}]
    /\ current = [g \in Collectors |-> None]
    /\ marked = [g \in Collectors |-> {}]
    /\ failures = 0

(***************************************************************************)
(* Locks.                                                                  *)
(***************************************************************************)
InPut == {"source", "put", "insert", "undo", "commit"}

IngestHoldsBlob(i, b) == BlobOf[i] = b /\ ingest[i] \in InPut
CollectorHoldsBlob(g, b) == b \in selected[g] \ todo[g]

(* A bug: collectors do not take the advisory lock of a blob. *)
BlobFree(b) ==
    /\ \A i \in Ingests : ~IngestHoldsBlob(i, b)
    /\ \A g \in Collectors : ~CollectorHoldsBlob(g, b)

IngestHoldsSource(i, u) == SourceUser[PutSource[i]] = u /\ ingest[i] \in InPut \ {"source"}
EraseHoldsSources(u) == erase[u] \in {"queue", "delete"}

SourcesFreeIgnored(u) == TRUE                \* a bug: the scope is not locked
SourcesFree(u) == \A i \in Ingests : ~IngestHoldsSource(i, u)

(* An upsert that found the document of another source locks its row.      *)
HoldsDocumentOf(i, u) ==
    /\ ingest[i] = "commit" /\ doc[BlobOf[i]] # None
    /\ SourceUser[doc[BlobOf[i]]] = u

Fails == failures < MaxFailures /\ failures' = failures + 1

(***************************************************************************)
(* Ingest.                                                                 *)
(***************************************************************************)
GoIngest(i, step) == ingest' = [ingest EXCEPT ![i] = step]
Untouched == UNCHANGED <<eraseVars, gcVars>>

(* The transaction is over: commit or rollback, and what follows it. *)
EndPut(i) == GoIngest(i, "idle") /\ created' = [created EXCEPT ![i] = FALSE]

BeginPut(i) ==
    /\ ingest[i] = "idle"
    /\ GoIngest(i, "blob")
    /\ Untouched /\ UNCHANGED <<store, recorded, lost, blobTables, created, failures>>

(* pg_advisory_xact_lock *)
LockBlob(i) ==
    /\ ingest[i] = "blob"
    /\ BlobFree(BlobOf[i])
    /\ GoIngest(i, "source")
    /\ Untouched /\ UNCHANGED <<store, recorded, lost, blobTables, created, failures>>

(* lockSourceForBlobIngest waits for an erasure, and throws after it. *)
LockSource(i) ==
    /\ ingest[i] = "source"
    /\ SourceUser[PutSource[i]] \in Users => ~EraseHoldsSources(SourceUser[PutSource[i]])
    /\ IF SourceUser[PutSource[i]] \in erased THEN GoIngest(i, "idle") ELSE GoIngest(i, "put")
    /\ Untouched /\ UNCHANGED <<store, recorded, lost, blobTables, created, failures>>

Put(i) ==
    /\ ingest[i] = "put"
    /\ created' = [created EXCEPT ![i] = BlobOf[i] \notin store]
    /\ store' = store \cup {BlobOf[i]}
    /\ GoIngest(i, "insert")
    /\ Untouched /\ UNCHANGED <<recorded, lost, blobTables, failures>>

(* The store answers with an error, and may have stored the blob or not. *)
PutFails(i) ==
    /\ ingest[i] = "put" /\ Fails
    /\ store' \in {store, store \cup {BlobOf[i]}}
    /\ EndPut(i)
    /\ Untouched /\ UNCHANGED <<recorded, lost, blobTables>>

CreateDocument(i) ==
    /\ ingest[i] = "insert"
    /\ GoIngest(i, "commit")
    /\ Untouched /\ UNCHANGED <<store, recorded, lost, blobTables, created, failures>>

(* createDocument throws: the created blob is deleted before the rollback. *)
CreateFails(i) ==
    /\ ingest[i] = "insert" /\ Fails
    /\ IF created[i] THEN GoIngest(i, "undo") /\ UNCHANGED created ELSE EndPut(i)
    /\ Untouched /\ UNCHANGED <<store, recorded, lost, blobTables>>

(* The connection is lost during createDocument, or the caller of          *)
(* ingestDocumentInTransaction fails after it: the locks are gone when the *)
(* created blob is deleted.                                                *)
LateFailure(i) ==
    /\ ingest[i] \in {"insert", "commit"} /\ Fails
    /\ IF created[i] THEN GoIngest(i, "cleanup") /\ UNCHANGED created ELSE EndPut(i)
    /\ Untouched /\ UNCHANGED <<store, recorded, lost, blobTables>>

(* deleteCreatedBlobBestEffort *)
DeleteCreated(i) ==
    /\ ingest[i] \in {"undo", "cleanup"}
    /\ \/ /\ store' = store \ {BlobOf[i]} /\ recorded' = recorded \ {BlobOf[i]}
          /\ lost' = IF ingest[i] = "cleanup" THEN lost \cup {BlobOf[i]} ELSE lost
          /\ UNCHANGED failures
       \/ Fails /\ UNCHANGED <<store, recorded, lost>>
    /\ EndPut(i)
    /\ Untouched /\ UNCHANGED blobTables

Commit(i) ==
    /\ ingest[i] = "commit"
    /\ doc' = [doc EXCEPT ![BlobOf[i]] = IF @ = None THEN PutSource[i] ELSE @]
    /\ recorded' = recorded \cup (store \cap {BlobOf[i]}) /\ lost' = lost \ (store \cap {BlobOf[i]})
    /\ EndPut(i)
    /\ Untouched /\ UNCHANGED <<store, gcQueue, erased, failures>>

(* The process dies or the commit fails: nothing is cleaned up.            *)
AbandonIngest(i) ==
    /\ ingest[i] # "idle" /\ Fails
    /\ EndPut(i)
    /\ Untouched /\ UNCHANGED <<store, recorded, lost, blobTables>>

(***************************************************************************)
(* Erasure of a user.                                                      *)
(***************************************************************************)
GoErase(u, step) == erase' = [erase EXCEPT ![u] = step]
DocumentsOf(u) == {b \in Blobs : doc[b] # None /\ SourceUser[doc[b]] = u}

StartErase(u) ==
    /\ erase[u] = "idle" /\ u \notin erased
    /\ GoErase(u, "lock")
    /\ UNCHANGED <<store, recorded, lost, blobTables, putVars, toQueue, gcVars, failures>>

(* lockUserBlobScope waits for the ingests of the user. *)
LockScope(u) ==
    /\ erase[u] = "lock"
    /\ SourcesFree(u)
    /\ GoErase(u, "queue")
    /\ UNCHANGED <<store, recorded, lost, blobTables, putVars, toQueue, gcVars, failures>>

(* The upsert waits for the collectors that have locked one of the rows.   *)
QueueBlobs(u) ==
    /\ erase[u] = "queue"
    /\ \A g \in Collectors : selected[g] \cap DocumentsOf(u) = {}
    /\ toQueue' = [toQueue EXCEPT ![u] = DocumentsOf(u)]
    /\ GoErase(u, "delete")
    /\ UNCHANGED <<store, recorded, lost, blobTables, putVars, gcVars, failures>>

(* A bug: the tombstone of a blob that was deleted before stays. *)
RequeuedOnce(u, b) == IF gcQueue[b] = "none" THEN "queued" ELSE gcQueue[b]
Requeued(u, b) == "queued"

(* The deletion cascades to sources and documents; the transaction commits. *)
DeleteUser(u) ==
    /\ erase[u] = "delete"
    /\ \A i \in Ingests : ~HoldsDocumentOf(i, u)
    /\ doc' = [b \in Blobs |-> IF b \in DocumentsOf(u) THEN None ELSE doc[b]]
    /\ gcQueue' = [b \in Blobs |-> IF b \in toQueue[u] THEN Requeued(u, b) ELSE gcQueue[b]]
    /\ erased' = erased \cup {u}
    /\ toQueue' = [toQueue EXCEPT ![u] = {}]
    /\ GoErase(u, "idle")
    /\ UNCHANGED <<store, recorded, lost, putVars, gcVars, failures>>

EraseFails(u) ==
    /\ erase[u] # "idle" /\ Fails
    /\ toQueue' = [toQueue EXCEPT ![u] = {}]
    /\ GoErase(u, "idle")
    /\ UNCHANGED <<store, recorded, lost, blobTables, putVars, gcVars>>

(***************************************************************************)
(* Garbage collection.                                                     *)
(***************************************************************************)
GoGc(g, step) == gc' = [gc EXCEPT ![g] = step]
RowFree(b) ==
    /\ \A g \in Collectors : b \notin selected[g]
    /\ \A u \in Users : b \notin toQueue[u]

(* The due rows that nobody has locked, at most Limit of them. *)
SelectRows(g, rows) ==
    /\ gc[g] = "idle"
    /\ rows # {}
    /\ LET free == {b \in Blobs : gcQueue[b] = "queued" /\ RowFree(b)} IN
         rows \subseteq free
         /\ Cardinality(rows) = IF Cardinality(free) < Limit THEN Cardinality(free) ELSE Limit
    /\ selected' = [selected EXCEPT ![g] = rows]
    /\ todo' = [todo EXCEPT ![g] = rows]
    /\ \E b \in rows : current' = [current EXCEPT ![g] = b]
    /\ GoGc(g, "lock")
    /\ UNCHANGED <<store, recorded, lost, blobTables, putVars, eraseVars, marked, failures>>

(* lockRawBlobId *)
LockCurrent(g) ==
    /\ gc[g] = "lock"
    /\ BlobFree(current[g])
    /\ todo' = [todo EXCEPT ![g] = @ \ {current[g]}]
    /\ GoGc(g, "check")
    /\ UNCHANGED <<store, recorded, lost, blobTables, putVars, eraseVars, selected, current, marked, failures>>

(* To the next row, or to the commit. *)
Proceed(g) ==
    \/ todo[g] = {} /\ GoGc(g, "commit") /\ UNCHANGED current
    \/ \E b \in todo[g] : GoGc(g, "lock") /\ current' = [current EXCEPT ![g] = b]

Referenced(b) == doc[b] # None               \* blobStillReferenced

CheckReferenced(g) ==
    /\ gc[g] = "check"
    /\ IF Referenced(current[g]) THEN Proceed(g) ELSE GoGc(g, "delete") /\ UNCHANGED current
    /\ UNCHANGED <<store, recorded, lost, blobTables, putVars, eraseVars, selected, todo, marked, failures>>

DeleteBlob(g) ==
    /\ gc[g] = "delete"
    /\ store' = store \ {current[g]} /\ recorded' = recorded \ {current[g]} /\ UNCHANGED lost
    /\ marked' = [marked EXCEPT ![g] = @ \cup {current[g]}]
    /\ Proceed(g)
    /\ UNCHANGED <<blobTables, putVars, eraseVars, selected, todo, failures>>

(* A bug: a row whose deletion failed is given up. *)
GivenUp(g) == [marked EXCEPT ![g] = @ \cup {current[g]}]
Retried(g) == marked

(* The store answers with an error, and may have deleted the blob or not.  *)
DeleteFails(g) ==
    /\ gc[g] = "delete" /\ Fails
    /\ store' \in {store, store \ {current[g]}} /\ recorded' = recorded \cap store'
    /\ marked' = Retried(g)
    /\ Proceed(g)
    /\ UNCHANGED <<lost, blobTables, putVars, eraseVars, selected, todo>>

EndGc(g) ==
    /\ GoGc(g, "idle")
    /\ selected' = [selected EXCEPT ![g] = {}]
    /\ todo' = [todo EXCEPT ![g] = {}]
    /\ current' = [current EXCEPT ![g] = None]
    /\ marked' = [marked EXCEPT ![g] = {}]

CommitGc(g) ==
    /\ gc[g] = "commit"
    /\ gcQueue' = [b \in Blobs |-> IF b \in marked[g] THEN "deleted" ELSE gcQueue[b]]
    /\ EndGc(g)
    /\ UNCHANGED <<store, recorded, lost, doc, erased, putVars, eraseVars, failures>>

(* A query fails or the process dies; the deleted blobs stay deleted.      *)
GcFails(g) ==
    /\ gc[g] # "idle" /\ Fails
    /\ EndGc(g)
    /\ UNCHANGED <<store, recorded, lost, blobTables, putVars, eraseVars>>

(***************************************************************************)
(* Transactions that wait for each other: Postgres aborts one of them.     *)
(***************************************************************************)
Transactions == Ingests \cup Users \cup Collectors

(* p waits for a lock that q holds. *)
WaitsFor(p, q) ==
    \/ /\ p \in Ingests /\ ingest[p] = "blob"
       /\ \/ q \in Ingests /\ IngestHoldsBlob(q, BlobOf[p])
          \/ q \in Collectors /\ CollectorHoldsBlob(q, BlobOf[p])
    \/ p \in Ingests /\ ingest[p] = "source" /\ q = SourceUser[PutSource[p]] /\ q \in Users /\ EraseHoldsSources(q)
    \/ p \in Users /\ erase[p] = "lock" /\ q \in Ingests /\ IngestHoldsSource(q, p)
    \/ p \in Users /\ erase[p] = "queue" /\ q \in Collectors /\ selected[q] \cap DocumentsOf(p) # {}
    \/ p \in Users /\ erase[p] = "delete" /\ q \in Ingests /\ HoldsDocumentOf(q, p)
    \/ /\ p \in Collectors /\ gc[p] = "lock"
       /\ \/ q \in Ingests /\ IngestHoldsBlob(q, current[p])
          \/ q \in Collectors /\ CollectorHoldsBlob(q, current[p])

Waiting == {p \in Transactions : \E q \in Transactions : WaitsFor(p, q)}

Deadlocked(p) ==
    \E S \in SUBSET Waiting : p \in S /\ \A q \in S : \E r \in S : WaitsFor(q, r)

DeadlockVictim(p) ==
    /\ Deadlocked(p)
    /\ \/ p \in Ingests /\ EndPut(p) /\ UNCHANGED <<eraseVars, gcVars>>
       \/ /\ p \in Users /\ GoErase(p, "idle") /\ toQueue' = [toQueue EXCEPT ![p] = {}]
          /\ UNCHANGED <<putVars, gcVars>>
       \/ p \in Collectors /\ EndGc(p) /\ UNCHANGED <<putVars, eraseVars>>
    /\ UNCHANGED <<store, recorded, lost, blobTables, failures>>

PutStep(i) ==
    \/ LockBlob(i) \/ LockSource(i) \/ Put(i) \/ CreateDocument(i) \/ Commit(i) \/ DeleteCreated(i)
PutIngestFails(i) == PutFails(i) \/ CreateFails(i) \/ LateFailure(i) \/ AbandonIngest(i)
EraseStep(u) == LockScope(u) \/ QueueBlobs(u) \/ DeleteUser(u)
GcStep(g) ==
    \/ \E rows \in SUBSET Blobs : SelectRows(g, rows)
    \/ LockCurrent(g) \/ CheckReferenced(g) \/ DeleteBlob(g) \/ CommitGc(g)

BlobNext ==
    \/ \E i \in Ingests : BeginPut(i) \/ PutStep(i) \/ PutIngestFails(i)
    \/ \E u \in Users : StartErase(u) \/ EraseStep(u) \/ EraseFails(u)
    \/ \E g \in Collectors : GcStep(g) \/ DeleteFails(g) \/ GcFails(g)
    \/ \E p \in Waiting : DeadlockVictim(p)

BlobSpec == BlobInit /\ [][BlobNext]_blobVars

(* Calls return, the collector runs at its interval, deadlocks are         *)
(* detected, and a collector's turn for an advisory lock comes: Postgres   *)
(* grants a lock in the order of the requests.                             *)
BlobFairSpec ==
    /\ BlobSpec
    /\ \A i \in Ingests : WF_blobVars(PutStep(i))
    /\ \A u \in Users : WF_blobVars(EraseStep(u))
    /\ \A g \in Collectors : WF_blobVars(GcStep(g)) /\ SF_blobVars(LockCurrent(g))
    /\ WF_blobVars(\E p \in Waiting : DeadlockVictim(p))

(***************************************************************************)
(* Properties.                                                             *)
(***************************************************************************)
(* The values of the tables and of the transactions; no two transactions   *)
(* hold the advisory lock of a blob, or one row of the queue.              *)
BlobTypeOK ==
    /\ store \subseteq Blobs /\ recorded \subseteq store /\ lost \subseteq Blobs
    /\ doc \in [Blobs -> Sources \cup {None}]
    /\ gcQueue \in [Blobs -> {"none", "queued", "deleted"}]
    /\ erased \subseteq Users
    /\ ingest \in [Ingests -> {"idle", "blob", "cleanup"} \cup InPut]
    /\ created \in [Ingests -> BOOLEAN]
    /\ erase \in [Users -> {"idle", "lock", "queue", "delete"}]
    /\ toQueue \in [Users -> SUBSET Blobs]
    /\ gc \in [Collectors -> {"idle", "lock", "check", "delete", "commit"}]
    /\ selected \in [Collectors -> SUBSET Blobs] /\ todo \in [Collectors -> SUBSET Blobs]
    /\ current \in [Collectors -> Blobs \cup {None}]
    /\ marked \in [Collectors -> SUBSET Blobs]
    /\ failures \in 0 .. MaxFailures
    /\ \A b \in Blobs :
         /\ Cardinality({i \in Ingests : IngestHoldsBlob(i, b)}
                        \cup {g \in Collectors : CollectorHoldsBlob(g, b)}) <= 1
         /\ Cardinality({g \in Collectors : b \in selected[g]}
                        \cup {u \in Users : b \in toQueue[u]}) <= 1

(* The raw blob of every committed document is in the object store, and a  *)
(* blob that has had a document is not forgotten: it has one, or is queued *)
(* for collection, whatever was ingested, erased or rolled back meanwhile. *)
(* Excepted is the blob that an ingest created, and deleted when its       *)
(* transaction was rolled back: runTransaction cleans up after the         *)
(* rollback (transaction.ts:94-97), when another may rely on the blob.     *)
BlobsKept ==
    \A b \in Blobs :
        /\ doc[b] # None => b \in store \cup lost
        /\ b \in recorded => doc[b] # None \/ gcQueue[b] = "queued"

(* No document of an erased user is left, whatever was being ingested.     *)
ErasureComplete == \A b \in Blobs : doc[b] # None => SourceUser[doc[b]] \notin erased

(* A queued blob is deleted, or has been claimed by a document again,      *)
(* although ingest, erasure and collection lock in three different orders. *)
QueuedCollected ==
    \A b \in Blobs : gcQueue[b] = "queued" ~> b \notin store \/ doc[b] # None
=============================================================================
