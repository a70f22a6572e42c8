-------------------------- MODULE BlobLifecycleProofs --------------------------
(***************************************************************************)
(* Proofs about the raw blobs of the evidence plane, for any number of     *)
(* ingests, users, collectors, blobs and failures: no document of an       *)
(* erased user is left, and the blob of every committed document is kept.  *)
(***************************************************************************)
EXTENDS BlobLifecycle, FiniteSetTheorems, TLAPS

TypesInv ==
    /\ store \subseteq Blobs /\ recorded \subseteq store /\ lost \subseteq Blobs
    /\ doc \in [Blobs -> Sources \cup {None}]
    /\ gcQueue \in [Blobs -> {"none", "queued", "deleted"}]
    /\ erased \subseteq Users
    /\ ingest \in [Ingests -> {"idle", "blob", "cleanup"} \cup InPut]
    /\ created \in [Ingests -> BOOLEAN]
    /\ erase \in [Users -> {"idle", "lock", "queue", "delete"}]
    /\ toQueue \in [Users -> SUBSET Blobs]
    /\ gc \in [Collectors -> {"idle", "lock", "check", "delete", "commit"}]
    /\ selected \in [Collectors -> SUBSET Blobs] /\ todo \in [Collectors -> SUBSET Blobs]
    /\ current \in [Collectors -> Blobs \cup {None}]
    /\ marked \in [Collectors -> SUBSET Blobs]
    /\ failures \in 0 .. MaxFailures

(* A blob has one holder of its advisory lock, and a row of the queue one  *)
(* transaction.                                                            *)
LocksInv ==
    /\ \A i, j \in Ingests : i # j /\ BlobOf[i] = BlobOf[j] /\ ingest[i] \in InPut =>
                                 ingest[j] \notin InPut
    /\ \A i \in Ingests, g \in Collectors : ingest[i] \in InPut => ~CollectorHoldsBlob(g, BlobOf[i])
    /\ \A g, h \in Collectors : g # h => selected[g] \cap selected[h] = {}
    /\ \A g \in Collectors, u \in Users : selected[g] \cap toQueue[u] = {}

(* Sources are locked by the ingests for a user or by the user's erasure,  *)
(* which has queued every document it is about to delete.                  *)
ErasureInv ==
    /\ \A i \in Ingests, u \in Users : IngestHoldsSource(i, u) =>
                                           ~EraseHoldsSources(u) /\ u \notin erased
    /\ \A u \in Users : erase[u] # "idle" => u \notin erased
    /\ \A u \in Users : toQueue[u] = IF erase[u] = "delete" THEN DocumentsOf(u) ELSE {}
    /\ ErasureComplete

(* A collector deletes blobs it holds, of which it has found no document,  *)
(* and what it has deleted has no document until it commits.               *)
CollectInv ==
    \A g \in Collectors :
        /\ todo[g] \subseteq selected[g]
        /\ gc[g] = "idle" => selected[g] = {}
        /\ gc[g] = "lock" => current[g] \in todo[g]
        /\ gc[g] \in {"check", "delete"} => current[g] \in selected[g] \ todo[g]
        /\ gc[g] = "delete" => doc[current[g]] = None
        /\ marked[g] \subseteq selected[g] \ todo[g]
        /\ marked[g] \cap recorded = {}

BaseInv == TypesInv /\ LocksInv /\ ErasureInv /\ CollectInv

-----------------------------------------------------------------------------
LEMMA BaseInit == BlobInit => BaseInv
  <1> SUFFICES ASSUME BlobInit PROVE BaseInv
    OBVIOUS
  <1>1. TypesInv
    BY BlobsAssumption DEF BlobInit, TypesInv
  <1>2. LocksInv
    BY DEF BlobInit, LocksInv, InPut, CollectorHoldsBlob
  <1>3. ErasureInv
    BY DEF BlobInit, ErasureInv, IngestHoldsSource, InPut, ErasureComplete
  <1>4. CollectInv
    BY DEF BlobInit, CollectInv
  <1> QED
    BY <1>1, <1>2, <1>3, <1>4 DEF BaseInv

LEMMA EndPutTypes ==
    ASSUME TypesInv, NEW i \in Ingests, EndPut(i)
    PROVE  /\ ingest' \in [Ingests -> {"idle", "blob", "cleanup"} \cup InPut]
           /\ created' \in [Ingests -> BOOLEAN]
           /\ ingest'[i] = "idle" /\ \A j \in Ingests \ {i} : ingest'[j] = ingest[j]
  BY DEF TypesInv, EndPut, GoIngest

LEMMA FailsTypes == TypesInv /\ Fails => failures' \in 0 .. MaxFailures
  BY BlobsAssumption DEF TypesInv, Fails


LEMMA BeginPutKeeps ==
    ASSUME BaseInv, NEW i \in Ingests, BeginPut(i)
    PROVE  BaseInv'
  <1> USE BlobsAssumption
      DEF BaseInv, TypesInv, InPut, blobTables, putVars, eraseVars, gcVars, Untouched,
          BeginPut, GoIngest
  <1>1. TypesInv'
    OBVIOUS
  <1>2. LocksInv'
    BY DEF LocksInv, CollectorHoldsBlob
  <1>3. ErasureInv'
    BY DEF ErasureInv, IngestHoldsSource, EraseHoldsSources, DocumentsOf, ErasureComplete
  <1>4. CollectInv'
    BY DEF LocksInv, CollectInv, CollectorHoldsBlob
  <1> QED
    BY <1>1, <1>2, <1>3, <1>4

LEMMA LockBlobKeeps ==
    ASSUME BaseInv, NEW i \in Ingests, LockBlob(i)
    PROVE  BaseInv'
  <1> USE BlobsAssumption
      DEF BaseInv, TypesInv, InPut, blobTables, putVars, eraseVars, gcVars, Untouched,
          LockBlob, GoIngest, BlobFree, IngestHoldsBlob
  <1>1. TypesInv'
    OBVIOUS
  <1>2. LocksInv'
    BY DEF LocksInv, CollectorHoldsBlob
  <1>3. ErasureInv'
    BY DEF ErasureInv, IngestHoldsSource, EraseHoldsSources, DocumentsOf, ErasureComplete
  <1>4. CollectInv'
    BY DEF LocksInv, CollectInv, CollectorHoldsBlob
  <1> QED
    BY <1>1, <1>2, <1>3, <1>4

LEMMA LockSourceKeeps ==
    ASSUME BaseInv, NEW i \in Ingests, LockSource(i)
    PROVE  BaseInv'
  <1> USE BlobsAssumption
      DEF BaseInv, TypesInv, InPut, blobTables, putVars, eraseVars, gcVars, Untouched,
          LockSource, GoIngest
  <1>1. TypesInv'
    OBVIOUS
  <1>2. LocksInv'
    BY DEF LocksInv, CollectorHoldsBlob
  <1>3. ErasureInv'
    BY DEF ErasureInv, IngestHoldsSource, EraseHoldsSources, DocumentsOf, ErasureComplete
  <1>4. CollectInv'
    BY DEF LocksInv, CollectInv, CollectorHoldsBlob
  <1> QED
    BY <1>1, <1>2, <1>3, <1>4

LEMMA PutKeeps ==
    ASSUME BaseInv, NEW i \in Ingests, Put(i)
    PROVE  BaseInv'
  <1> USE BlobsAssumption
      DEF BaseInv, TypesInv, InPut, blobTables, putVars, eraseVars, gcVars, Untouched,
          Put, GoIngest
  <1>1. TypesInv'
    OBVIOUS
  <1>2. LocksInv'
    BY DEF LocksInv, CollectorHoldsBlob
  <1>3. ErasureInv'
    BY DEF ErasureInv, IngestHoldsSource, EraseHoldsSources, DocumentsOf, ErasureComplete
  <1>4. CollectInv'
    BY DEF LocksInv, CollectInv, CollectorHoldsBlob
  <1> QED
    BY <1>1, <1>2, <1>3, <1>4

LEMMA PutFailsKeeps ==
    ASSUME BaseInv, NEW i \in Ingests, PutFails(i)
    PROVE  BaseInv'
  <1> USE BlobsAssumption
      DEF BaseInv, TypesInv, InPut, blobTables, putVars, eraseVars, gcVars, Untouched,
          PutFails, EndPut, GoIngest, Fails
  <1>1. TypesInv'
    <2>1. recorded' = recorded /\ store \subseteq store' /\ store' \subseteq Blobs
      OBVIOUS
    <2>2. failures' \in 0 .. MaxFailures
      BY FailsTypes
    <2>3. /\ ingest' \in [Ingests -> {"idle", "blob", "cleanup"} \cup InPut]
          /\ created' \in [Ingests -> BOOLEAN]
      BY EndPutTypes
    <2> QED
      BY <2>1, <2>2, <2>3
  <1>2. LocksInv'
    BY DEF LocksInv, CollectorHoldsBlob
  <1>3. ErasureInv'
    BY DEF ErasureInv, IngestHoldsSource, EraseHoldsSources, DocumentsOf, ErasureComplete
  <1>4. CollectInv'
    BY DEF LocksInv, CollectInv, CollectorHoldsBlob
  <1> QED
    BY <1>1, <1>2, <1>3, <1>4

LEMMA CreateDocumentKeeps ==
    ASSUME BaseInv, NEW i \in Ingests, CreateDocument(i)
    PROVE  BaseInv'
  <1> USE BlobsAssumption
      DEF BaseInv, TypesInv, InPut, blobTables, putVars, eraseVars, gcVars, Untouched,
          CreateDocument, GoIngest
  <1>1. TypesInv'
    OBVIOUS
  <1>2. LocksInv'
    BY DEF LocksInv, CollectorHoldsBlob
  <1>3. ErasureInv'
    BY DEF ErasureInv, IngestHoldsSource, EraseHoldsSources, DocumentsOf, ErasureComplete
  <1>4. CollectInv'
    BY DEF LocksInv, CollectInv, CollectorHoldsBlob
  <1> QED
    BY <1>1, <1>2, <1>3, <1>4

LEMMA CreateFailsKeeps ==
    ASSUME BaseInv, NEW i \in Ingests, CreateFails(i)
    PROVE  BaseInv'
  <1> USE BlobsAssumption
      DEF BaseInv, TypesInv, InPut, blobTables, putVars, eraseVars, gcVars, Untouched,
          CreateFails, EndPut, GoIngest, Fails
  <1>1. TypesInv'
    <2>1. failures' \in 0 .. MaxFailures
      BY FailsTypes
    <2>2. /\ ingest' \in [Ingests -> {"idle", "blob", "cleanup"} \cup InPut]
          /\ created' \in [Ingests -> BOOLEAN]
      BY EndPutTypes
    <2> QED
      BY <2>1, <2>2
  <1>2. LocksInv'
    <2>1. \A j \in Ingests : ingest'[j] \in InPut => ingest[j] \in InPut
      BY EndPutTypes
    <2> QED
      BY <2>1 DEF LocksInv, CollectorHoldsBlob
  <1>3. ErasureInv'
    BY DEF ErasureInv, IngestHoldsSource, EraseHoldsSources, DocumentsOf, ErasureComplete
  <1>4. CollectInv'
    BY DEF LocksInv, CollectInv, CollectorHoldsBlob
  <1> QED
    BY <1>1, <1>2, <1>3, <1>4

LEMMA LateFailureKeeps ==
    ASSUME BaseInv, NEW i \in Ingests, LateFailure(i)
    PROVE  BaseInv'
  <1> USE BlobsAssumption
      DEF BaseInv, TypesInv, InPut, blobTables, putVars, eraseVars, gcVars, Untouched,
          LateFailure, EndPut, GoIngest, Fails
  <1>1. TypesInv'
    <2>1. failures' \in 0 .. MaxFailures
      BY FailsTypes
    <2>2. /\ ingest' \in [Ingests -> {"idle", "blob", "cleanup"} \cup InPut]
          /\ created' \in [Ingests -> BOOLEAN]
      BY EndPutTypes
    <2> QED
      BY <2>1, <2>2
  <1>2. LocksInv'
    <2>1. \A j \in Ingests : ingest'[j] \in InPut => ingest[j] \in InPut
      BY EndPutTypes
    <2> QED
      BY <2>1 DEF LocksInv, CollectorHoldsBlob
  <1>3. ErasureInv'
    BY DEF ErasureInv, IngestHoldsSource, EraseHoldsSources, DocumentsOf, ErasureComplete
  <1>4. CollectInv'
    BY DEF LocksInv, CollectInv, CollectorHoldsBlob
  <1> QED
    BY <1>1, <1>2, <1>3, <1>4

LEMMA DeleteCreatedKeeps ==
    ASSUME BaseInv, NEW i \in Ingests, DeleteCreated(i)
    PROVE  BaseInv'
  <1> USE BlobsAssumption
      DEF BaseInv, TypesInv, InPut, blobTables, putVars, eraseVars, gcVars, Untouched,
          DeleteCreated, EndPut, GoIngest, Fails
  <1>1. TypesInv'
    <2>1. failures' \in 0 .. MaxFailures
      <3>1. CASE UNCHANGED failures
        BY <3>1
      <3>2. CASE Fails
        BY <3>2, FailsTypes
      <3> QED
        BY <3>1, <3>2
    <2>2. store' \subseteq Blobs /\ recorded' \subseteq store' /\ lost' \subseteq Blobs
      OBVIOUS
    <2>3. /\ ingest' \in [Ingests -> {"idle", "blob", "cleanup"} \cup InPut]
          /\ created' \in [Ingests -> BOOLEAN]
      BY EndPutTypes
    <2> QED
      BY <2>1, <2>2, <2>3
  <1>2. LocksInv'
    BY DEF LocksInv, CollectorHoldsBlob
  <1>3. ErasureInv'
    BY DEF ErasureInv, IngestHoldsSource, EraseHoldsSources, DocumentsOf, ErasureComplete
  <1>4. CollectInv'
    BY DEF LocksInv, CollectInv, CollectorHoldsBlob
  <1> QED
    BY <1>1, <1>2, <1>3, <1>4

LEMMA CommitKeeps ==
    ASSUME BaseInv, NEW i \in Ingests, Commit(i)
    PROVE  BaseInv'
  <1> USE BlobsAssumption
      DEF BaseInv, TypesInv, InPut, blobTables, putVars, eraseVars, gcVars, Untouched,
          Commit, EndPut, GoIngest
  <1>1. TypesInv'
    OBVIOUS
  <1>2. LocksInv'
    BY DEF LocksInv, CollectorHoldsBlob
  <1>3. ErasureInv'
    BY DEF ErasureInv, IngestHoldsSource, EraseHoldsSources, DocumentsOf, ErasureComplete
  <1>4. CollectInv'
    BY DEF LocksInv, CollectInv, CollectorHoldsBlob
  <1> QED
    BY <1>1, <1>2, <1>3, <1>4

LEMMA AbandonIngestKeeps ==
    ASSUME BaseInv, NEW i \in Ingests, AbandonIngest(i)
    PROVE  BaseInv'
  <1> USE BlobsAssumption
      DEF BaseInv, TypesInv, InPut, blobTables, putVars, eraseVars, gcVars, Untouched,
          AbandonIngest, EndPut, GoIngest, Fails
  <1>1. TypesInv'
    OBVIOUS
  <1>2. LocksInv'
    BY DEF LocksInv, CollectorHoldsBlob
  <1>3. ErasureInv'
    BY DEF ErasureInv, IngestHoldsSource, EraseHoldsSources, DocumentsOf, ErasureComplete
  <1>4. CollectInv'
    BY DEF LocksInv, CollectInv, CollectorHoldsBlob
  <1> QED
    BY <1>1, <1>2, <1>3, <1>4

LEMMA StartEraseKeeps ==
    ASSUME BaseInv, NEW u \in Users, StartErase(u)
    PROVE  BaseInv'
  <1> USE BlobsAssumption
      DEF BaseInv, TypesInv, InPut, blobTables, putVars, eraseVars, gcVars, Untouched,
          StartErase, GoErase
  <1>1. TypesInv'
    OBVIOUS
  <1>2. LocksInv'
    BY DEF LocksInv, CollectorHoldsBlob
  <1>3. ErasureInv'
    BY DEF ErasureInv, IngestHoldsSource, EraseHoldsSources, DocumentsOf, ErasureComplete
  <1>4. CollectInv'
    BY DEF LocksInv, CollectInv, CollectorHoldsBlob
  <1> QED
    BY <1>1, <1>2, <1>3, <1>4

LEMMA LockScopeKeeps ==
    ASSUME BaseInv, NEW u \in Users, LockScope(u)
    PROVE  BaseInv'
  <1> USE BlobsAssumption
      DEF BaseInv, TypesInv, InPut, blobTables, putVars, eraseVars, gcVars, Untouched,
          LockScope, GoErase, SourcesFree
  <1>1. TypesInv'
    OBVIOUS
  <1>2. LocksInv'
    BY DEF LocksInv, CollectorHoldsBlob
  <1>3. ErasureInv'
    BY DEF ErasureInv, IngestHoldsSource, EraseHoldsSources, DocumentsOf, ErasureComplete
  <1>4. CollectInv'
    BY DEF LocksInv, CollectInv, CollectorHoldsBlob
  <1> QED
    BY <1>1, <1>2, <1>3, <1>4

LEMMA QueueBlobsKeeps ==
    ASSUME BaseInv, NEW u \in Users, QueueBlobs(u)
    PROVE  BaseInv'
  <1> USE BlobsAssumption
      DEF BaseInv, TypesInv, InPut, blobTables, putVars, eraseVars, gcVars, Untouched,
          QueueBlobs, GoErase
  <1>1. TypesInv'
    BY DEF DocumentsOf
  <1>2. LocksInv'
    BY DEF LocksInv, CollectorHoldsBlob
  <1>3. ErasureInv'
    <2>1. \A v \in Users : DocumentsOf(v)' = DocumentsOf(v)
      BY DEF DocumentsOf
    <2>2. \A v \in Users : toQueue'[v] = IF erase'[v] = "delete" THEN DocumentsOf(v)' ELSE {}
      BY <2>1 DEF ErasureInv
    <2> QED
      BY <2>2 DEF ErasureInv, IngestHoldsSource, EraseHoldsSources, ErasureComplete
  <1>4. CollectInv'
    BY DEF LocksInv, CollectInv, CollectorHoldsBlob
  <1> QED
    BY <1>1, <1>2, <1>3, <1>4

LEMMA DeleteUserKeeps ==
    ASSUME BaseInv, NEW u \in Users, DeleteUser(u)
    PROVE  BaseInv'
  <1> USE BlobsAssumption
      DEF BaseInv, TypesInv, InPut, blobTables, putVars, eraseVars, gcVars, Untouched,
          DeleteUser, GoErase, Requeued
  <1>1. TypesInv'
    OBVIOUS
  <1>2. LocksInv'
    BY DEF LocksInv, CollectorHoldsBlob
  <1>3. ErasureInv'
    <2>1. /\ \A b \in Blobs : doc'[b] = IF b \in DocumentsOf(u) THEN None ELSE doc[b]
          /\ toQueue' = [toQueue EXCEPT ![u] = {}] /\ erase' = [erase EXCEPT ![u] = "idle"]
          /\ erased' = erased \cup {u} /\ erase[u] = "delete" /\ ingest' = ingest
      OBVIOUS
    <2>2. \A v \in Users \ {u} : DocumentsOf(v)' = DocumentsOf(v)
      BY <2>1 DEF DocumentsOf
    <2>3. \A v \in Users : toQueue'[v] = IF erase'[v] = "delete" THEN DocumentsOf(v)' ELSE {}
      BY <2>1, <2>2 DEF ErasureInv
    <2>4. ErasureComplete'
      BY <2>1 DEF ErasureInv, ErasureComplete, DocumentsOf
    <2>5. \A i \in Ingests, v \in Users : IngestHoldsSource(i, v)' =>
              ~EraseHoldsSources(v)' /\ v \notin erased'
      BY <2>1 DEF ErasureInv, IngestHoldsSource, EraseHoldsSources
    <2>6. \A v \in Users : erase'[v] # "idle" => v \notin erased'
      BY <2>1 DEF ErasureInv
    <2> QED
      BY <2>3, <2>4, <2>5, <2>6 DEF ErasureInv
  <1>4. CollectInv'
    BY DEF LocksInv, CollectInv, CollectorHoldsBlob
  <1> QED
    BY <1>1, <1>2, <1>3, <1>4

LEMMA EraseFailsKeeps ==
    ASSUME BaseInv, NEW u \in Users, EraseFails(u)
    PROVE  BaseInv'
  <1> USE BlobsAssumption
      DEF BaseInv, TypesInv, InPut, blobTables, putVars, eraseVars, gcVars, Untouched,
          EraseFails, GoErase, Fails
  <1>1. TypesInv'
    OBVIOUS
  <1>2. LocksInv'
    BY DEF LocksInv, CollectorHoldsBlob
  <1>3. ErasureInv'
    BY DEF ErasureInv, IngestHoldsSource, EraseHoldsSources, DocumentsOf, ErasureComplete
  <1>4. CollectInv'
    BY DEF LocksInv, CollectInv, CollectorHoldsBlob
  <1> QED
    BY <1>1, <1>2, <1>3, <1>4

LEMMA SelectRowsKeeps ==
    ASSUME BaseInv, NEW g \in Collectors, NEW rows \in SUBSET Blobs, SelectRows(g, rows)
    PROVE  BaseInv'
  <1> USE BlobsAssumption
      DEF BaseInv, TypesInv, InPut, blobTables, putVars, eraseVars, gcVars, Untouched,
          SelectRows, GoGc, RowFree
  <1>1. TypesInv'
    OBVIOUS
  <1>2. LocksInv'
    BY DEF LocksInv, CollectorHoldsBlob
  <1>3. ErasureInv'
    BY DEF ErasureInv, IngestHoldsSource, EraseHoldsSources, DocumentsOf, ErasureComplete
  <1>4. CollectInv'
    BY DEF LocksInv, CollectInv, CollectorHoldsBlob
  <1> QED
    BY <1>1, <1>2, <1>3, <1>4

LEMMA LockCurrentKeeps ==
    ASSUME BaseInv, NEW g \in Collectors, LockCurrent(g)
    PROVE  BaseInv'
  <1> USE BlobsAssumption
      DEF BaseInv, TypesInv, InPut, blobTables, putVars, eraseVars, gcVars, Untouched,
          LockCurrent, GoGc, BlobFree, IngestHoldsBlob
  <1>1. TypesInv'
    OBVIOUS
  <1>2. LocksInv'
    BY DEF LocksInv, CollectorHoldsBlob
  <1>3. ErasureInv'
    BY DEF ErasureInv, IngestHoldsSource, EraseHoldsSources, DocumentsOf, ErasureComplete
  <1>4. CollectInv'
    BY DEF LocksInv, CollectInv, CollectorHoldsBlob
  <1> QED
    BY <1>1, <1>2, <1>3, <1>4

LEMMA CheckReferencedKeeps ==
    ASSUME BaseInv, NEW g \in Collectors, CheckReferenced(g)
    PROVE  BaseInv'
  <1> USE BlobsAssumption
      DEF BaseInv, TypesInv, InPut, blobTables, putVars, eraseVars, gcVars, Untouched,
          CheckReferenced, Referenced, Proceed, GoGc
  <1>1. TypesInv'
    OBVIOUS
  <1>2. LocksInv'
    BY DEF LocksInv, CollectorHoldsBlob
  <1>3. ErasureInv'
    BY DEF ErasureInv, IngestHoldsSource, EraseHoldsSources, DocumentsOf, ErasureComplete
  <1>4. CollectInv'
    BY DEF LocksInv, CollectInv, CollectorHoldsBlob
  <1> QED
    BY <1>1, <1>2, <1>3, <1>4

LEMMA DeleteBlobKeeps ==
    ASSUME BaseInv, NEW g \in Collectors, DeleteBlob(g)
    PROVE  BaseInv'
  <1> USE BlobsAssumption
      DEF BaseInv, TypesInv, InPut, blobTables, putVars, eraseVars, gcVars, Untouched,
          DeleteBlob, Proceed, GoGc
  <1>1. TypesInv'
    <2>1. store' \subseteq Blobs /\ recorded' \subseteq store'
      OBVIOUS
    <2>2. marked' \in [Collectors -> SUBSET Blobs]
      BY DEF CollectInv
    <2>3. /\ gc' \in [Collectors -> {"idle", "lock", "check", "delete", "commit"}]
          /\ current' \in [Collectors -> Blobs \cup {None}]
      OBVIOUS
    <2> QED
      BY <2>1, <2>2, <2>3
  <1>2. LocksInv'
    BY DEF LocksInv, CollectorHoldsBlob
  <1>3. ErasureInv'
    BY DEF ErasureInv, IngestHoldsSource, EraseHoldsSources, DocumentsOf, ErasureComplete
  <1>4. CollectInv'
    BY DEF LocksInv, CollectInv, CollectorHoldsBlob
  <1> QED
    BY <1>1, <1>2, <1>3, <1>4

LEMMA DeleteFailsKeeps ==
    ASSUME BaseInv, NEW g \in Collectors, DeleteFails(g)
    PROVE  BaseInv'
  <1> USE BlobsAssumption
      DEF BaseInv, TypesInv, InPut, blobTables, putVars, eraseVars, gcVars, Untouched,
          DeleteFails, Retried, Proceed, GoGc, Fails
  <1>1. TypesInv'
    <2>1. failures' \in 0 .. MaxFailures
      BY FailsTypes
    <2>2. store' \subseteq Blobs /\ recorded' \subseteq store' /\ lost' \subseteq Blobs
      OBVIOUS
    <2>3. /\ gc' \in [Collectors -> {"idle", "lock", "check", "delete", "commit"}]
          /\ current' \in [Collectors -> Blobs \cup {None}]
      OBVIOUS
    <2> QED
      BY <2>1, <2>2, <2>3
  <1>2. LocksInv'
    BY DEF LocksInv, CollectorHoldsBlob
  <1>3. ErasureInv'
    BY DEF ErasureInv, IngestHoldsSource, EraseHoldsSources, DocumentsOf, ErasureComplete
  <1>4. CollectInv'
    BY DEF LocksInv, CollectInv, CollectorHoldsBlob
  <1> QED
    BY <1>1, <1>2, <1>3, <1>4

LEMMA CommitGcKeeps ==
    ASSUME BaseInv, NEW g \in Collectors, CommitGc(g)
    PROVE  BaseInv'
  <1> USE BlobsAssumption
      DEF BaseInv, TypesInv, InPut, blobTables, putVars, eraseVars, gcVars, Untouched,
          CommitGc, EndGc, GoGc
  <1>1. TypesInv'
    OBVIOUS
  <1>2. LocksInv'
    BY DEF LocksInv, CollectorHoldsBlob
  <1>3. ErasureInv'
    BY DEF ErasureInv, IngestHoldsSource, EraseHoldsSources, DocumentsOf, ErasureComplete
  <1>4. CollectInv'
    BY DEF LocksInv, CollectInv, CollectorHoldsBlob
  <1> QED
    BY <1>1, <1>2, <1>3, <1>4

LEMMA GcFailsKeeps ==
    ASSUME BaseInv, NEW g \in Collectors, GcFails(g)
    PROVE  BaseInv'
  <1> USE BlobsAssumption
      DEF BaseInv, TypesInv, InPut, blobTables, putVars, eraseVars, gcVars, Untouched,
          GcFails, EndGc, GoGc, Fails
  <1>1. TypesInv'
    OBVIOUS
  <1>2. LocksInv'
    BY DEF LocksInv, CollectorHoldsBlob
  <1>3. ErasureInv'
    BY DEF ErasureInv, IngestHoldsSource, EraseHoldsSources, DocumentsOf, ErasureComplete
  <1>4. CollectInv'
    BY DEF LocksInv, CollectInv, CollectorHoldsBlob
  <1> QED
    BY <1>1, <1>2, <1>3, <1>4

LEMMA DeadlockVictimKeeps ==
    ASSUME BaseInv, NEW p, DeadlockVictim(p)
    PROVE  BaseInv'
  <1> USE BlobsAssumption
      DEF BaseInv, TypesInv, InPut, blobTables, putVars, eraseVars, gcVars, DeadlockVictim
  <1>1. CASE p \in Ingests /\ EndPut(p) /\ UNCHANGED <<eraseVars, gcVars>>
    <2> USE <1>1 DEF EndPut, GoIngest
    <2>1. TypesInv'
      OBVIOUS
    <2>2. LocksInv'
      BY DEF LocksInv, CollectorHoldsBlob
    <2>3. ErasureInv'
      BY DEF ErasureInv, IngestHoldsSource, EraseHoldsSources, DocumentsOf, ErasureComplete
    <2>4. CollectInv'
      BY DEF CollectInv
    <2> QED
      BY <2>1, <2>2, <2>3, <2>4
  <1>2. CASE /\ p \in Users /\ GoErase(p, "idle") /\ toQueue' = [toQueue EXCEPT ![p] = {}]
             /\ UNCHANGED <<putVars, gcVars>>
    <2> USE <1>2 DEF GoErase
    <2>1. TypesInv'
      OBVIOUS
    <2>2. LocksInv'
      BY DEF LocksInv, CollectorHoldsBlob
    <2>3. ErasureInv'
      BY DEF ErasureInv, IngestHoldsSource, EraseHoldsSources, DocumentsOf, ErasureComplete
    <2>4. CollectInv'
      BY DEF CollectInv
    <2> QED
      BY <2>1, <2>2, <2>3, <2>4
  <1>3. CASE p \in Collectors /\ EndGc(p) /\ UNCHANGED <<putVars, eraseVars>>
    <2> USE <1>3 DEF EndGc, GoGc
    <2>1. TypesInv'
      OBVIOUS
    <2>2. LocksInv'
      BY DEF LocksInv, CollectorHoldsBlob
    <2>3. ErasureInv'
      BY DEF ErasureInv, IngestHoldsSource, EraseHoldsSources, DocumentsOf, ErasureComplete
    <2>4. CollectInv'
      BY DEF CollectInv
    <2> QED
      BY <2>1, <2>2, <2>3, <2>4
  <1> QED
    BY <1>1, <1>2, <1>3 DEF DeadlockVictim

LEMMA BaseStep == BaseInv /\ [BlobNext]_blobVars => BaseInv'
  <1> SUFFICES ASSUME BaseInv, [BlobNext]_blobVars PROVE BaseInv'
    OBVIOUS
  <1>1. CASE UNCHANGED blobVars
    BY <1>1 DEF blobVars, blobTables, putVars, eraseVars, gcVars, BaseInv, TypesInv, LocksInv,
                ErasureInv, CollectInv, CollectorHoldsBlob, IngestHoldsSource,
                EraseHoldsSources, DocumentsOf, ErasureComplete
  <1>2. ASSUME NEW i \in Ingests, BeginPut(i) \/ PutStep(i) \/ PutIngestFails(i)
        PROVE  BaseInv'
    BY <1>2, BeginPutKeeps, LockBlobKeeps, LockSourceKeeps, PutKeeps, PutFailsKeeps,
       CreateDocumentKeeps, CreateFailsKeeps, LateFailureKeeps, DeleteCreatedKeeps,
       CommitKeeps, AbandonIngestKeeps
    DEF PutStep, PutIngestFails
  <1>3. ASSUME NEW u \in Users, StartErase(u) \/ EraseStep(u) \/ EraseFails(u)
        PROVE  BaseInv'
    BY <1>3, StartEraseKeeps, LockScopeKeeps, QueueBlobsKeeps, DeleteUserKeeps, EraseFailsKeeps
    DEF EraseStep
  <1>4. ASSUME NEW g \in Collectors, GcStep(g) \/ DeleteFails(g) \/ GcFails(g)
        PROVE  BaseInv'
    BY <1>4, SelectRowsKeeps, LockCurrentKeeps, CheckReferencedKeeps, DeleteBlobKeeps,
       DeleteFailsKeeps, CommitGcKeeps, GcFailsKeeps
    DEF GcStep
  <1>5. ASSUME NEW p \in Waiting, DeadlockVictim(p)
        PROVE  BaseInv'
    BY <1>5, DeadlockVictimKeeps
  <1> QED
    BY <1>1, <1>2, <1>3, <1>4, <1>5 DEF BlobNext

LEMMA BaseAlways == BlobSpec => []BaseInv
  BY BaseInit, BaseStep, PTL DEF BlobSpec

(* A set without two elements has at most one.                             *)
LEMMA AtMostOne ==
    ASSUME NEW S, \A x, y \in S : x = y
    PROVE  Cardinality(S) <= 1
  <1>1. CASE S = {}
    BY <1>1, FS_EmptySet
  <1>2. ASSUME NEW x \in S PROVE Cardinality(S) <= 1
    <2>1. S = {x}
      BY <1>2
    <2> QED
      BY <2>1, FS_Singleton
  <1> QED
    BY <1>1, <1>2

(* The tables and the transactions keep their types, and no two            *)
(* transactions hold the advisory lock of a blob, or one row of the queue. *)
THEOREM BlobTypeCorrect == BlobSpec => []BlobTypeOK
  <1>1. ASSUME BaseInv PROVE BlobTypeOK
    <2>1. ASSUME NEW b \in Blobs
          PROVE  Cardinality({i \in Ingests : IngestHoldsBlob(i, b)}
                             \cup {g \in Collectors : CollectorHoldsBlob(g, b)}) <= 1
      <3> DEFINE S == {i \in Ingests : IngestHoldsBlob(i, b)}
                      \cup {g \in Collectors : CollectorHoldsBlob(g, b)}
      <3>1. \A x, y \in S : x = y
        BY <1>1 DEF BaseInv, LocksInv, IngestHoldsBlob, CollectorHoldsBlob
      <3> QED
        BY <3>1, AtMostOne
    <2>2. ASSUME NEW b \in Blobs
          PROVE  Cardinality({g \in Collectors : b \in selected[g]}
                             \cup {u \in Users : b \in toQueue[u]}) <= 1
      <3> DEFINE S == {g \in Collectors : b \in selected[g]}
                      \cup {u \in Users : b \in toQueue[u]}
      <3>1. \A u, v \in Users : b \in toQueue[u] /\ b \in toQueue[v] => u = v
        <4>1. \A u \in Users : b \in toQueue[u] => SourceUser[doc[b]] = u
          BY <1>1 DEF BaseInv, ErasureInv, DocumentsOf
        <4> QED
          BY <4>1
      <3>2. \A x, y \in S : x = y
        BY <1>1, <3>1 DEF BaseInv, LocksInv
      <3> QED
        BY <3>2, AtMostOne
    <2> QED
      BY <1>1, <2>1, <2>2 DEF BaseInv, TypesInv, BlobTypeOK
  <1> QED
    BY <1>1, BaseAlways, PTL

(* No document of an erased user is left: an ingest for the user has its   *)
(* source locked until it commits, and the erasure waits for it, or has    *)
(* deleted the source before (lockUserBlobScope, lockSourceForBlobIngest). *)
THEOREM ErasureIsComplete == BlobSpec => []ErasureComplete
  <1>1. BaseInv => ErasureComplete
    BY DEF BaseInv, ErasureInv
  <1> QED
    BY <1>1, BaseAlways, PTL

-----------------------------------------------------------------------------
(* What an ingest has put stays until it commits, unless another has       *)
(* deleted it without a lock, and what it created has no document while it *)
(* holds the lock, or lost its blob before.                                *)
PutInv ==
    \A i \in Ingests :
        /\ ingest[i] \in {"insert", "commit"} => BlobOf[i] \in store \cup lost
        /\ ingest[i] \in {"insert", "undo", "commit"} /\ created[i] =>
               doc[BlobOf[i]] = None \/ BlobOf[i] \in lost
        /\ ingest[i] = "undo" => created[i]

KeptInv == PutInv /\ BlobsKept

LEMMA BeginPutKeepsBlobs ==
    ASSUME BaseInv, KeptInv, NEW i \in Ingests, BeginPut(i)
    PROVE  KeptInv'
  <1> USE BlobsAssumption
      DEF BaseInv, KeptInv, TypesInv, InPut, blobTables, putVars, eraseVars, gcVars, Untouched,
          BeginPut, GoIngest
  <1>1. PutInv'
    BY DEF PutInv, LocksInv, CollectInv, CollectorHoldsBlob, BlobsKept
  <1>2. BlobsKept'
    BY DEF PutInv, BlobsKept, ErasureInv, DocumentsOf, CollectInv
  <1> QED
    BY <1>1, <1>2

LEMMA LockBlobKeepsBlobs ==
    ASSUME BaseInv, KeptInv, NEW i \in Ingests, LockBlob(i)
    PROVE  KeptInv'
  <1> USE BlobsAssumption
      DEF BaseInv, KeptInv, TypesInv, InPut, blobTables, putVars, eraseVars, gcVars, Untouched,
          LockBlob, GoIngest, BlobFree, IngestHoldsBlob
  <1>1. PutInv'
    BY DEF PutInv, LocksInv, CollectInv, CollectorHoldsBlob, BlobsKept
  <1>2. BlobsKept'
    BY DEF PutInv, BlobsKept, ErasureInv, DocumentsOf, CollectInv
  <1> QED
    BY <1>1, <1>2

LEMMA LockSourceKeepsBlobs ==
    ASSUME BaseInv, KeptInv, NEW i \in Ingests, LockSource(i)
    PROVE  KeptInv'
  <1> USE BlobsAssumption
      DEF BaseInv, KeptInv, TypesInv, InPut, blobTables, putVars, eraseVars, gcVars, Untouched,
          LockSource, GoIngest
  <1>1. PutInv'
    BY DEF PutInv, LocksInv, CollectInv, CollectorHoldsBlob, BlobsKept
  <1>2. BlobsKept'
    BY DEF PutInv, BlobsKept, ErasureInv, DocumentsOf, CollectInv
  <1> QED
    BY <1>1, <1>2

LEMMA PutKeepsBlobs ==
    ASSUME BaseInv, KeptInv, NEW i \in Ingests, Put(i)
    PROVE  KeptInv'
  <1> USE BlobsAssumption
      DEF BaseInv, KeptInv, TypesInv, InPut, blobTables, putVars, eraseVars, gcVars, Untouched,
          Put, GoIngest
  <1>1. PutInv'
    <2>1. /\ created'[i] = (BlobOf[i] \notin store) /\ BlobOf[i] \in store'
          /\ ingest'[i] = "insert" /\ store \subseteq store' /\ doc' = doc
          /\ \A j \in Ingests \ {i} : ingest'[j] = ingest[j] /\ created'[j] = created[j]
      OBVIOUS
    <2>2. BlobOf[i] \in Blobs /\ (created'[i] => doc[BlobOf[i]] = None \/ BlobOf[i] \in lost)
      BY <2>1 DEF BlobsKept
    <2> QED
      BY <2>1, <2>2 DEF PutInv
  <1>2. BlobsKept'
    BY DEF PutInv, BlobsKept, ErasureInv, DocumentsOf, CollectInv
  <1> QED
    BY <1>1, <1>2

LEMMA PutFailsKeepsBlobs ==
    ASSUME BaseInv, KeptInv, NEW i \in Ingests, PutFails(i)
    PROVE  KeptInv'
  <1> USE BlobsAssumption
      DEF BaseInv, KeptInv, TypesInv, InPut, blobTables, putVars, eraseVars, gcVars, Untouched,
          PutFails, EndPut, GoIngest, Fails
  <1>1. PutInv'
    BY DEF PutInv, LocksInv, CollectInv, CollectorHoldsBlob, BlobsKept
  <1>2. BlobsKept'
    BY DEF PutInv, BlobsKept, ErasureInv, DocumentsOf, CollectInv
  <1> QED
    BY <1>1, <1>2

LEMMA CreateDocumentKeepsBlobs ==
    ASSUME BaseInv, KeptInv, NEW i \in Ingests, CreateDocument(i)
    PROVE  KeptInv'
  <1> USE BlobsAssumption
      DEF BaseInv, KeptInv, TypesInv, InPut, blobTables, putVars, eraseVars, gcVars, Untouched,
          CreateDocument, GoIngest
  <1>1. PutInv'
    BY DEF PutInv, LocksInv, CollectInv, CollectorHoldsBlob, BlobsKept
  <1>2. BlobsKept'
    BY DEF PutInv, BlobsKept, ErasureInv, DocumentsOf, CollectInv
  <1> QED
    BY <1>1, <1>2

LEMMA CreateFailsKeepsBlobs ==
    ASSUME BaseInv, KeptInv, NEW i \in Ingests, CreateFails(i)
    PROVE  KeptInv'
  <1> USE BlobsAssumption
      DEF BaseInv, KeptInv, TypesInv, InPut, blobTables, putVars, eraseVars, gcVars, Untouched,
          CreateFails, EndPut, GoIngest, Fails
  <1>1. PutInv'
    BY DEF PutInv, LocksInv, CollectInv, CollectorHoldsBlob, BlobsKept
  <1>2. BlobsKept'
    BY DEF PutInv, BlobsKept, ErasureInv, DocumentsOf, CollectInv
  <1> QED
    BY <1>1, <1>2

LEMMA LateFailureKeepsBlobs ==
    ASSUME BaseInv, KeptInv, NEW i \in Ingests, LateFailure(i)
    PROVE  KeptInv'
  <1> USE BlobsAssumption
      DEF BaseInv, KeptInv, TypesInv, InPut, blobTables, putVars, eraseVars, gcVars, Untouched,
          LateFailure, EndPut, GoIngest, Fails
  <1>1. PutInv'
    BY DEF PutInv, LocksInv, CollectInv, CollectorHoldsBlob, BlobsKept
  <1>2. BlobsKept'
    BY DEF PutInv, BlobsKept, ErasureInv, DocumentsOf, CollectInv
  <1> QED
    BY <1>1, <1>2

LEMMA DeleteCreatedKeepsBlobs ==
    ASSUME BaseInv, KeptInv, NEW i \in Ingests, DeleteCreated(i)
    PROVE  KeptInv'
  <1> USE BlobsAssumption
      DEF BaseInv, KeptInv, TypesInv, InPut, blobTables, putVars, eraseVars, gcVars, Untouched,
          DeleteCreated, EndPut, GoIngest, Fails
  <1>1. PutInv'
    <2>1. /\ ingest'[i] = "idle" /\ doc' = doc /\ lost \subseteq lost'
          /\ \A j \in Ingests \ {i} : ingest'[j] = ingest[j] /\ created'[j] = created[j]
          /\ ingest[i] \in {"undo", "cleanup"}
      OBVIOUS
    <2>2. \A b \in store : b \in store' \cup lost' \/ (b = BlobOf[i] /\ ingest[i] = "undo")
      OBVIOUS
    <2>3. ASSUME NEW j \in Ingests \ {i}, ingest[j] \in {"insert", "commit"}, ingest[i] = "undo"
          PROVE  BlobOf[j] # BlobOf[i]
      BY <2>3 DEF LocksInv
    <2> QED
      BY <2>1, <2>2, <2>3 DEF PutInv
  <1>2. BlobsKept'
    BY DEF PutInv, BlobsKept, ErasureInv, DocumentsOf, CollectInv
  <1> QED
    BY <1>1, <1>2

LEMMA CommitKeepsBlobs ==
    ASSUME BaseInv, KeptInv, NEW i \in Ingests, Commit(i)
    PROVE  KeptInv'
  <1> USE BlobsAssumption
      DEF BaseInv, KeptInv, TypesInv, InPut, blobTables, putVars, eraseVars, gcVars, Untouched,
          Commit, EndPut, GoIngest
  <1>1. PutInv'
    BY DEF PutInv, LocksInv, CollectInv, CollectorHoldsBlob, BlobsKept
  <1>2. BlobsKept'
    <2> DEFINE b0 == BlobOf[i]
    <2>1. b0 \in Blobs /\ PutSource[i] \in Sources /\ None \notin Sources /\ ingest[i] = "commit"
      OBVIOUS
    <2>2. b0 \in store \cup lost
      BY <2>1 DEF PutInv
    <2>3. /\ doc'[b0] # None /\ \A b \in Blobs \ {b0} : doc'[b] = doc[b]
          /\ recorded' \subseteq recorded \cup {b0} /\ UNCHANGED <<store, gcQueue>>
          /\ store \cup lost \subseteq store' \cup lost'
      BY <2>1
    <2> QED
      BY <2>2, <2>3 DEF BlobsKept
  <1> QED
    BY <1>1, <1>2

LEMMA AbandonIngestKeepsBlobs ==
    ASSUME BaseInv, KeptInv, NEW i \in Ingests, AbandonIngest(i)
    PROVE  KeptInv'
  <1> USE BlobsAssumption
      DEF BaseInv, KeptInv, TypesInv, InPut, blobTables, putVars, eraseVars, gcVars, Untouched,
          AbandonIngest, EndPut, GoIngest, Fails
  <1>1. PutInv'
    BY DEF PutInv, LocksInv, CollectInv, CollectorHoldsBlob, BlobsKept
  <1>2. BlobsKept'
    BY DEF PutInv, BlobsKept, ErasureInv, DocumentsOf, CollectInv
  <1> QED
    BY <1>1, <1>2

LEMMA DeleteUserKeepsBlobs ==
    ASSUME BaseInv, KeptInv, NEW u \in Users, DeleteUser(u)
    PROVE  KeptInv'
  <1> USE BlobsAssumption
      DEF BaseInv, KeptInv, TypesInv, InPut, blobTables, putVars, eraseVars, gcVars, Untouched,
          DeleteUser, GoErase, Requeued
  <1>1. PutInv'
    BY DEF PutInv, LocksInv, CollectInv, CollectorHoldsBlob, BlobsKept
  <1>2. BlobsKept'
    BY DEF PutInv, BlobsKept, ErasureInv, DocumentsOf, CollectInv
  <1> QED
    BY <1>1, <1>2

LEMMA DeleteBlobKeepsBlobs ==
    ASSUME BaseInv, KeptInv, NEW g \in Collectors, DeleteBlob(g)
    PROVE  KeptInv'
  <1> USE BlobsAssumption
      DEF BaseInv, KeptInv, TypesInv, InPut, blobTables, putVars, eraseVars, gcVars, Untouched,
          DeleteBlob, Proceed, GoGc
  <1>1. PutInv'
    BY DEF PutInv, LocksInv, CollectInv, CollectorHoldsBlob, BlobsKept
  <1>2. BlobsKept'
    BY DEF PutInv, BlobsKept, ErasureInv, DocumentsOf, CollectInv
  <1> QED
    BY <1>1, <1>2

LEMMA DeleteFailsKeepsBlobs ==
    ASSUME BaseInv, KeptInv, NEW g \in Collectors, DeleteFails(g)
    PROVE  KeptInv'
  <1> USE BlobsAssumption
      DEF BaseInv, KeptInv, TypesInv, InPut, blobTables, putVars, eraseVars, gcVars, Untouched,
          DeleteFails, Retried, Fails, Proceed, GoGc
  <1>1. PutInv'
    BY DEF PutInv, LocksInv, CollectInv, CollectorHoldsBlob, BlobsKept
  <1>2. BlobsKept'
    BY DEF PutInv, BlobsKept, ErasureInv, DocumentsOf, CollectInv
  <1> QED
    BY <1>1, <1>2

LEMMA CommitGcKeepsBlobs ==
    ASSUME BaseInv, KeptInv, NEW g \in Collectors, CommitGc(g)
    PROVE  KeptInv'
  <1> USE BlobsAssumption
      DEF BaseInv, KeptInv, TypesInv, InPut, blobTables, putVars, eraseVars, gcVars, Untouched,
          CommitGc, EndGc, GoGc
  <1>1. PutInv'
    BY DEF PutInv, LocksInv, CollectInv, CollectorHoldsBlob, BlobsKept
  <1>2. BlobsKept'
    BY DEF PutInv, BlobsKept, ErasureInv, DocumentsOf, CollectInv
  <1> QED
    BY <1>1, <1>2

(* The steps that neither store, delete, record nor queue a blob.          *)
LEMMA OthersKeepBlobs ==
    ASSUME KeptInv, UNCHANGED <<store, recorded, lost, doc, gcQueue, putVars>>
    PROVE  KeptInv'
  BY DEF putVars, KeptInv, PutInv, BlobsKept

LEMMA DeadlockVictimKeepsBlobs ==
    ASSUME BaseInv, KeptInv, NEW p, DeadlockVictim(p)
    PROVE  KeptInv'
  <1>1. UNCHANGED <<store, recorded, lost, doc, gcQueue>>
    BY DEF DeadlockVictim, blobTables
  <1>2. BlobsKept'
    BY <1>1 DEF KeptInv, BlobsKept
  <1>3. \A i \in Ingests : ingest'[i] = "idle" \/ (ingest'[i] = ingest[i] /\ created'[i] = created[i])
    BY DEF DeadlockVictim, EndPut, GoIngest, putVars, BaseInv, TypesInv
  <1>4. PutInv'
    BY <1>1, <1>3 DEF KeptInv, PutInv
  <1> QED
    BY <1>2, <1>4 DEF KeptInv

LEMMA KeptInit == BlobInit => KeptInv
  BY DEF BlobInit, KeptInv, PutInv, BlobsKept

LEMMA KeptStep == BaseInv /\ KeptInv /\ [BlobNext]_blobVars => KeptInv'
  <1> SUFFICES ASSUME BaseInv, KeptInv, [BlobNext]_blobVars PROVE KeptInv'
    OBVIOUS
  <1>1. CASE UNCHANGED blobVars
    BY <1>1 DEF blobVars, blobTables, putVars, KeptInv, PutInv, BlobsKept
  <1>2. ASSUME NEW i \in Ingests, BeginPut(i) \/ PutStep(i) \/ PutIngestFails(i)
        PROVE  KeptInv'
    BY <1>2, BeginPutKeepsBlobs, LockBlobKeepsBlobs, LockSourceKeepsBlobs, PutKeepsBlobs,
       PutFailsKeepsBlobs, CreateDocumentKeepsBlobs, CreateFailsKeepsBlobs,
       LateFailureKeepsBlobs, DeleteCreatedKeepsBlobs, CommitKeepsBlobs,
       AbandonIngestKeepsBlobs
    DEF PutStep, PutIngestFails
  <1>3. ASSUME NEW u \in Users, StartErase(u) \/ EraseStep(u) \/ EraseFails(u)
        PROVE  KeptInv'
    <2>1. CASE DeleteUser(u)
      BY <2>1, DeleteUserKeepsBlobs
    <2>2. CASE StartErase(u) \/ LockScope(u) \/ QueueBlobs(u) \/ EraseFails(u)
      BY <2>2, OthersKeepBlobs
      DEF StartErase, LockScope, QueueBlobs, EraseFails, blobTables
    <2> QED
      BY <1>3, <2>1, <2>2 DEF EraseStep
  <1>4. ASSUME NEW g \in Collectors, GcStep(g) \/ DeleteFails(g) \/ GcFails(g)
        PROVE  KeptInv'
    <2>1. CASE DeleteBlob(g) \/ DeleteFails(g) \/ CommitGc(g)
      BY <2>1, DeleteBlobKeepsBlobs, DeleteFailsKeepsBlobs, CommitGcKeepsBlobs
    <2>2. CASE \/ \E rows \in SUBSET Blobs : SelectRows(g, rows)
               \/ LockCurrent(g) \/ CheckReferenced(g) \/ GcFails(g)
      BY <2>2, OthersKeepBlobs
      DEF SelectRows, LockCurrent, CheckReferenced, GcFails, blobTables
    <2> QED
      BY <1>4, <2>1, <2>2 DEF GcStep
  <1>5. ASSUME NEW p \in Waiting, DeadlockVictim(p)
        PROVE  KeptInv'
    BY <1>5, DeadlockVictimKeepsBlobs
  <1> QED
    BY <1>1, <1>2, <1>3, <1>4, <1>5 DEF BlobNext

(* The blob of every committed document is in the object store, and a      *)
(* stored blob that has had a document is not forgotten, whatever ingests, *)
(* erasures and collectors do, fail at or lose to a deadlock: each visits  *)
(* a blob under its advisory lock.  The one clean-up that runs without     *)
(* (runRollbackCleanups after the rollback) may delete what another ingest *)
(* has found in the store: those blobs are in lost.                        *)
THEOREM BlobsAreKept == BlobSpec => []BlobsKept
  <1>1. BaseInv /\ KeptInv /\ [BlobNext]_blobVars => (BaseInv /\ KeptInv)'
    BY BaseStep, KeptStep
  <1>2. BlobInit => BaseInv /\ KeptInv
    BY BaseInit, KeptInit
  <1>3. BaseInv /\ KeptInv => BlobsKept
    BY DEF KeptInv
  <1> QED
    BY <1>1, <1>2, <1>3, PTL DEF BlobSpec

=============================================================================
