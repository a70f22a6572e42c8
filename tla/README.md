# TLA+ models of commodities-agent

This directory is a verification project for the services and the web client of
this repository: TLA+ modules written from the source code, configurations with
which TLC checks them on small instances, and theorems that TLAPS proves for all
instances.

    tlc -workers 2 -config Desk.cfg MCDesk
    tlapm AgentRunProofs.tla

Paths below are relative to the repository's `src/`; `services/chat` stands for
`services/chat/src`, and so on. `PROJECT.json` maps every definition to the lines
that it stands for, and lists components, runs, hazards, findings and theorems.

Contents: 1 the system, 2 the plan, 3 the modules and the code, 4 the runs,
5 the proofs, 6 findings and observations, 7 what is not modelled.

## 1. The system

A research desk for commodities: TypeScript services over one PostgreSQL
database, an object store and in-process state, with a React client. Every
service runs as its own Node process, so handlers are atomic up to the next
`await`; several processes of a service meet only in the database. Answers,
findings and briefs rest on *sealed snapshots*, immutable records of the facts
and tool results that they were made from.

### 1.1 Components

**Chat.** `services/chat/coordinator.ts` keeps turns, tombstones of forgotten
turns, per thread a chain of promises, per turn a log with listeners. `http.ts`
and `observability/run-activity.ts` stream activities to browsers with cursors
and bounded queues. `messages.ts`, `threads-repo.ts` keep threads and messages,
`local-runtime.ts` and `llm-runtime.ts` make answers. Correct if turns of a
thread run one at a time, live turns are never evicted, a turn settles, an
answer rests on its own snapshot, and a browser misses nothing silently.

**Snapshots** (`services/snapshot`). Staging of manifests from tool calls or
blocks, a disclosure policy, a verifier with some forty rules, an audit of the
tool-call log, the insert, transforms of what is stored. Correct if what is
stored is closed, observed, never replaced and serves only what it holds.

**Agents and alerts** (`services/agents`, `services/notifications`, the stages in
`dev-api/local-runtime.ts`). Rows of agents with rules and watermarks, run logs
with leases, findings, fired alerts with claims. Correct if effects are applied
once, leases and claims exclude, outcomes stay, facts that may not leave do not.

**Evidence** (`services/evidence`). Sources, documents, blobs in an object store,
mentions, claims and their clusters, facts with a review queue, and the readers
over all of them. Correct if blobs are kept and erasure is complete, a page is
extracted once, counts match members, a reviewer's throughput is limited, and
nobody is shown another user's rows.

**Market data, fundamentals, resolver** (`services/market`, `fundamentals`,
`resolver`). Caches in tables and in memory, chains of providers, reported facts
stored as they are fetched, identities discovered statement by statement and
repaired at startup. Correct if what is served is what was asked for and of one
company, and a repair loses no reference.

**Briefs, analyze, tools, screener, watchlists, themes, portfolio, home**
(`services/<name>`). Small tables with their requests: drafts that are approved
and published, memo templates and runs, registries with an audience boundary and
approvals, saved screens, members, inferred members, holdings, the Morning Call
Board.

**LLM settings** (`services/llm`, `dev-api/llm-settings-http.ts`). One file that
people, pages and every process read, and a router that falls back.

**Web client** (`web/src`). Session and interrupted actions, the chat page with its
reducer and virtual list, the agents page, the screener's workspace, the
settings page, fact review, memos, the search box and the page of a subject.
Requests of several effects and sessions overlap in all of them.

**Database** (`db`). Migrations with a ledger under an advisory lock, and the
constraints and partial indexes that the protocols above rely on.

### 1.2 How they interact

    browser --HTTP/SSE--> chat --calls--> tools, resolver, snapshot, messages
       ^                    |                      |            |
       |  run activities    v                      v            v
       +----- hub <------ coordinator          PostgreSQL <-----+
                            ^                      ^
    queue --messages--> agents (claim, lease) -----+--> findings, alerts_fired
                                                   |           |
    providers --> evidence ingest --> object store |      notifications
                       |                           |      (claim, send, record)
                       +--> facts, review ---------+
                                  briefs (draft, approve, seal, publish) --> home

Shared state is in the database: row locks, advisory locks, partial unique
indexes and conditional updates are the only synchronization between processes.
Inside a process, ordering follows from promises and synchronous handlers; in
the browser from React's commits, aborted requests and refs.

### 1.3 What is hard to test

`PROJECT.json` lists the hazards with their lines and the properties that cover
them: overlapping transactions and stale reads, late answers after a timeout,
steps that fail between two commits, repeated deliveries and requests, several
lock orders, queues and budgets at their limit, tables that are read apart from
each other, answers that arrive under another user or after a newer one, and
what must eventually settle.

## 2. The plan

The order was: first what users are harmed by when it goes wrong and tests hardly
reach. Every step of it is checked by now except the last rows.

| step | modules | state |
| --- | --- | --- |
| 1 | `ChatCoordinator` | checked; safety proved |
| 2 | `AgentRun` | checked; safety proved |
| 3 | `AlertDelivery` | checked; safety proved |
| 4 | `BlobLifecycle` | checked; safety proved |
| 5 | `FactLedger` (abstract), `FactReview` | refinement checked and proved |
| 6 | `EventStream` | checked; `NoSilentGap` proved |
| 7 | `DailyCall` | checked; safety proved |
| 8 | `ThreadMessages` | checked; safety proved |
| 9 | `TurnPolicy` | checked; proved |
| 10 | `SnapshotSeal`, `SnapshotStore` (abstract) | refinement checked and proved |
| 11 | `MarketData`, `Fundamentals`, `FundamentalsRules`, `Resolver` | checked; `ServedAsAsked`, `ReferencesKept`, `AnswersNameOneCompany` proved |
| 12 | `EvidenceIngest`, `EvidenceReads`, `ClaimClusters` | checked; `ExtractedOnce`, `GrantsWithinRefill`, `ShownIsOwn`, `CountsMatchMembers` proved |
| 13 | `AnalyzeRuns`, `ToolGate`, `AgentDesk` | checked; `HistoryComplete`, `GateHolds` proved |
| 14 | `Screener`, `AuthInterrupt`, `Watchlists`, `HomeBoard`, `ChatPage`, `LlmSettings` | checked; `AnswersInOrder`, `PanelIsOwn`, `ActsOnce` proved |
| 15 | `Migrations` | checked |
| 16 | `ResearchPages`, `SubjectPages` | checked |
| 17 | promotion rules, cadence, segment reconciliation as operators | left |
| 18 | a joined model of `ChatCoordinator`, the turn stream and `ChatPage` | left: the two sides are checked apart |

Theorems worth proving next: the types of the components that only a suite's
`TypeOK` covers.

Conventions: parameters are CONSTANTS with named assumptions where a proof needs
them, an action is one handler between two points where another actor can
interfere, nullable values are sets of at most one, and no module that is proved
about uses a RECURSIVE operator. An operator that a comment calls *a bug* is not
part of a specification: it is a plausible mistake, and putting it in place of
the definition after it makes the property it is about fail in its run.

## 3. The modules and the code

A module that holds two components says so with two headed sections, each with
its own constants, variables, Init and Next; they are kept together because one
reads the other's tables or the same source file.

### 3.1 Turns, runs and documents

**ChatCoordinator** (`coordinator.ts`). Handles are numbered as they are
created, which is also the insertion order of the `turns` map. `CreateTurn` is
`createTurn` with its lookup of a live turn, the tombstone check and the chaining;
`Start` is the first continuation of a chained promise; the phases in which a
run waits for an external call are values of `phase`, and the call's outcomes
(answer, refusal, exception) are alternatives of the action that ends it. One
macrotask with the microtasks that it drains is one step. `Prunings` are all
results of `pruneCompletedTurns`. Event texts are left out, their order is not.

**AgentRun** (`agent-run-repo.ts`, `queue-runner.ts`, `agent-loop.ts`,
`watermarks.ts`, `dev-api/local-runtime.ts`, `claim-cluster-repo.ts`). One SQL
statement that another worker can see or wait for is one action: expire stale
runs, insert the claim (partial unique index), load, gather, lock the next
cluster's row, test and insert the finding, commit with the watermark, complete.
`Receive` hands any idle worker any run message at any time; `Crash` and
`StageFails` end a worker's run at any point. A finding stands for the alert rows, activities and
snapshot that are written with it.

**AlertDelivery** (`delivery-processor.ts`, `worker.ts`,
`alert-evaluator.ts`). A pass is `Claim`, `LoadFactEntitlements`, `DeliverOne` per
send on an immediate channel, `FinishAlert`, `DeliverDigest` and `RecordDigested`
per digest; an outcome is recorded under the condition `status = 'delivering'`. Time is kept as ages up to just past the
claim timeout. Adapters are external: a send may arrive although it reports a
failure, or fail.

**BlobLifecycle** (`ingest.ts`, `transaction.ts`, `blob-gc-repo.ts`). Locks
follow from where a transaction stands, so no variable holds them. `Deadlocked`
and `DeadlockVictim` are PostgreSQL's detection. The object store is external.
`lost` holds the blobs that an ingest deletes after its transaction has rolled back
and its lock is gone (section 6.2): what is lost so is what `BlobsKept` excepts.

**FactLedger** states what review promises, with each verdict one step.
**FactReview** (`fact-repo.ts`, `review-http.ts`) has the transactions: begin (fixes
`now()`), row lock, advisory lock on the reviewer, count, write with commit.
`FactReview` EXTENDS `FactLedger`, works on the same tables, and
`ImplementsLedger` is the ledger's specification as a property of it.

**EventStream** (`run-activity.ts`, `http.ts`, `HomePage.tsx`). Synchronous
handlers are single steps: `Publish` with its fan-out, `Connect` with check,
replay and subscription, `Refused` with the browser's reaction, `Read`,
`Drain`, `Heartbeat`, `Break`, `Restart`. `Replay` says at once what the replay's loop
leaves on the line; `ReplayIsOneByOne` of `MCServices` compares it with the loop,
`WriteIfNew` folded over every set of six activities.

**DailyCall** (`services/briefs`). A request is at one of the points load, apply,
persist, announce; `Load`, `Edit`, `Approve`, `Seal`, `PublishBrief` and
`Announce` are its statements, `Overtaken` a guarded update without a row,
`Lost` and `LostAfterCommit` failures before and after a commit. Content is a
function from editable fields to texts; citations and findings are part of it.

**ThreadMessages** (`messages.ts`, `local-runtime.ts`, `snapshot-sealer.ts`). A
turn's attempt logs its tool result, seals, inserts, each a commit; `FailTurn`
ends an attempt anywhere. A post is one transaction, begun at a time of the
service's clock that becomes part of the stored blocks.

**TurnPolicy** (`turn-policy.ts`, `budget-gate.ts`). A policy is the usage it
has recorded; `reserved` and `accepted` are the shared session; any policy made
so far may be asked next.

### 3.2 Snapshots

**SnapshotSeal** begins with the pure rules: staging from calls, assembling from
blocks, the disclosure policy, every check of the verifier as an operator that
returns its failures, the audit, the boundary of transforms. It runs requests
through them (`Open`, `SealStep`, `LoseSeal`) while `LogCall` writes the tool-call
log again, and serves transforms. **SnapshotStore** is the abstract
specification: nothing of manifests and rules, only what a stored snapshot is
and that it stays. `Store == INSTANCE SnapshotStore WITH stored <- snapshots`, and
`ImplementsStore` is its specification as a property of `SnapshotSeal`.

### 3.3 Data

**MarketData**: first the decisions without state (canonical ranges, what a
provider's reply becomes, which replies let the next one be tried, expiry, the
identity of a series), then requests whose statements and provider calls
interleave over the cache tables and the memory cache of series.

**FundamentalsRules**: outcomes and statuses, fiscal calendars, the value of a
concept for a period, statements, metrics and key stats. **Fundamentals**:
statements and key stats over stored facts and SEC EDGAR, stored line by line
(`FindPersists`), with crashes, failed fetches and reviews that withdraw facts;
then profiles with their enrichment (`FindIssuer`, `FindListings`,
`SidecarAnswersProfile`, `StoreEnrichment`), earnings and holders.

**Resolver**: the reference providers, then the flow (`AskSubject` to
`LoadListings`), discovery (`MatchInstrument` to `InsertListing`, a statement
each), and the repair of seeded identities as one transaction that may fail or
die at any table (`StartRepair`, `RepairEnds`).

**EvidenceIngest**: uploads, news, filings, discovery and crawls over one set of
tables, a transaction or a statement per step, and the token bucket in front of
SEC EDGAR (timers fire late, the wall clock is set back or stepped ahead). **EvidenceReads**: the claims a
run reads, documents a search finds, the seal over them and the inspection of
what a snapshot cites, while owners are erased. **ClaimClusters**: upserts and
members under READ COMMITTED with row locks (a look and a write are two steps),
and the themes inferred from clusters.

### 3.4 Desk and client

**AnalyzeRuns**: templates, memos, the history with a cursor cut to
milliseconds, reruns and shares. **ToolGate**: the registry's checks, the audience
boundary, bundles, approvals, the reader's dispatcher. **AgentDesk**: agents, rules,
staged alerts, findings with severity, and `AgentsPage.tsx`. **HomeBoard**: five
sections read one by one while everything else changes.

**Screener**: candidates, query, order and page, with the workspace's requests;
and saved screens with their panel. **Watchlists**: lists with the hook
`useManualWatchlist`, portfolios with their holdings, and derived members; a call
that the page gives up goes on in the service (`waits`).
**AuthInterrupt**: the pending action through sign-in, reload and routes; React's
rules (an event sees the last commit, effects run after a commit, children
first, microtasks in between) are stated in its header.

**ResearchPages**: `ReviewPage.tsx` with the rows of `FactReviewQueue.tsx`, which
are mounted anew whenever the queue's key changes (`RenderQueue`), over verdicts
and fetches in flight; `AnalyzePage.tsx` with its form, its history in pages and
its answers in any order, and the diff of two runs. **SubjectPages**:
`SymbolSearch.tsx` (timer, requests, candidates), and `SubjectDetailShell.tsx` with
legacy routes, hydration and fetches by key; `Arrive` and `Panels` are the effects
that a new location or subject runs; a panel is a keyed fetch, of the header or of
a section.

**ChatPage**: threads, prompts, histories and event streams with
`streamReducer.ts`; and the virtual list of messages. What the service does for a
request or stream that the page has lost goes on (`"late"`, `dropped`).
**LlmSettings**: what a settings file says and which deployments a request tries;
pages, hand edits and turns on that file; a write that its page no longer waits
for still happens (`FinishWrite`). **Migrations**: scripts of several shells with checkouts of
different age.

### 3.5 Suites

`MCEvidence`, `MCServices` and `MCDesk` put components that share no state into
one run each: `focus` says which one a behaviour is about and never changes, the
others rest in their initial states, so that the suite's state graph is the
disjoint union of the components' graphs and each property and action is
checked as if alone. `MCDeskCases` has the artifacts and other cases of the desk.
The other MC modules give one component its values.

## 4. The runs

| run | what it shows |
| --- | --- |
| `chat_turns` (`ChatTurns.cfg`) | three turns on one thread beside another thread, all runners and all outcomes of external calls: `SerialPerThread`, `LogsFaithful` (one closing event, nothing told that is not stored), `EveryTurnSettles` |
| `chat_retention` | three turn identities over time with room for one completed turn and two tombstones: `LiveTurnRetained`, `ReplayOnlyAfterRetention` |
| `agent_runs` | two workers, duplicate deliveries, crashes, expiring leases: `OneFindingPerCluster`, `AppliedAtMostOnce`, `NoOverlapWithinLease`, `EndedRunsStay`, `WorkersFinish` |
| `alert_claims` | two workers, digests, takeovers after a timeout, revoked entitlements: `ExclusiveWithinClaim`, `BlockedFactsStay`, `SupportedAlertsDecided` |
| `evidence` (`MCEvidence`) | objects: `BlobsKept`, `ErasureComplete`, `QueuedCollected`; review: `ThroughputRespected`, `ImplementsLedger` |
| `services` (`MCServices`) | fourteen components: the stream `NoSilentGap`, `StreamCatchesUp`; briefs `OneWinner`, `FixedOnceApproved`; threads `AnsweredFromItsSeal`; policy `WithinBudget`; memo runs `HistoryComplete`; and `TypeOK`, which holds what the chat page, its list, migrations, watchlists, portfolios, home, settings, statements and details must keep |
| `desk` (`MCDesk`) | sixteen components: `ImplementsStore`, `ServedAsAsked`, `ExtractedOnce`, `GrantsWithinRefill`, `ShownIsOwn`, `CountsMatchMembers`, `AnswersNameOneCompany`, `ReferencesKept`, `GateHolds`, `DetailsMoveOn`, `AnswersInOrder`, `PanelIsOwn`, `ActsOnce`, and `TypeOK` with what saved screens, themes, fact review, memos, search and subject pages must keep |
| `alert_unsupported`, `fact_restatement`, `seal_unread_refs`, `series_cache`, `share_classes` | a statement of a document, comment or test that the code does not keep (section 6.1) |

The conjuncts of a `TypeOK` are more than types where a component has no property
of its own: each default list exists as long as its user, no holding outlives its
portfolio, the virtual window covers the viewport and adds up to the whole list,
a migration's ledger agrees with the tables, masked keys never reach a page, a
theme's run accounts for each candidate once, a statement's lines are of one
filing and its key stats are within their tolerance, a review's draft is over the
candidate that its row shows, a row waits exactly while its verdict does, a closed
review does not come back with an older answer, a memo history has no gap while its
requests neither overlap nor get lost, candidates belong to the text in the box, and
whatever says that it is loading has a request in flight.

**Bounds.** Each is a constant or a `CONSTRAINT` of the MC module, and cuts off
only inputs (creations, deliveries, uploads, verdicts, edits, failures), never a
step of a handler that has begun. What a page may do is a budget chosen at the
start from a small set (`PageBudgets`, `LlmBudgets`), which keeps mixes apart that
need not meet.
- Chat: three handles suffice for a chain that is cut in the middle and rebuilt.
  `CreatedInOrder` names the interchangeable turns of one thread in one order;
  nothing is forgotten in that instance since its clock stands still. Retention
  has its own instance, in which time passes, one completed turn and two tombstones
  are kept; its identities are symmetric: what an identity that is not used yet
  would run is never read.
- Agents: `Bounded` keeps two cases apart, two runs of one agent while leases
  expire, or one run each of two agents over three claims with shared clusters
  (the lock orders). Two workers are what an overlap needs.
- Alerts: two alerts of one digest group and one with an unsupported channel,
  with a batch limit of two, force a second batch and a digest that must not be split; one failure, revocation or
  unsupported channel per behaviour.
- Evidence: either two users share one blob and are both erased, or two blobs of
  a user and the public meet two collectors, with two failing steps; verdicts on
  one review by two reviewers, or rejections of two reviews by one over time, or
  creation, approval and supersession, one action per window.
- Services: one browser with activities of two users, three kept activities, a
  socket and a queue of one frame each, two breaks and a restart; three requests
  on one brief with two fields; three attempts at a turn and three posts; turns
  that start with usage zero, one or over the budget; three threads of which one
  is started, two prompts, one fault; five messages; four scripts of three
  shells; two users with three watchlist requests and two changes of session;
  two settings pages and a turn; two memo calls; two requests for statements and
  three for details, with one crash, failed statement or withdrawn fact.
- Desk: two seal requests of some fifty artifacts, good ones and each with one
  thing wrong, so that every rule of the verifier decides in some behaviour; two
  market requests and three providers over four units of time; two ingesters;
  two finders of tickers that share rows; three fetchers on one token bucket; two
  searches in flight; two reviews, two verdicts and one change of session, typed
  draft or verdict elsewhere; three memo requests, one edit, four memos and pages
  of one; three acts of a reader of subject pages (typed, submitted, visited).
  The token bucket: three callers on a bucket of two, four requests in six ticks,
  the wall clock set back once by three ticks and stepped ahead once by two.
  A second actor is what a race needs; a third is there where
  a restart or an erasure may come in between.

**Deadlock.** TLC checks for it except where calls are finite in number and the
system rests when they are done (`evidence`, `services`, `desk` and the violation
runs of the same modules).

**Fairness.** `chat_turns`: a promise that can continue does (the event loop),
and external calls return; creation is not fair. `agent_runs`: the steps of a
worker that does not die, including waiting for a row lock; deliveries, crashes
and time are not fair. `alert_claims`: the worker loop runs passes for ever and
time passes; a pass's own failures are bounded and not fair. `evidence`:
statements return, the collector runs at its interval, the database detects
deadlocks; an advisory lock that is requested again and again is granted in
order of request, hence strong fairness for `LockCurrent` only. `services`: the browser connects again
for ever, reads what arrives, and the operating system drains the socket.
Failure steps are never part of a fair action. `desk` states no fairness: its
properties are about safety.

## 5. The proofs

Each proof module follows one pattern: an inductive invariant that implies the
property, its initial case, a lemma per action or group of actions, and a
temporal step.

**ChatCoordinatorProofs** assumes only the typing of the constants
(`ThreadsAssumption`, `RunnersAssumption`, `BoundsAssumption`). `SerialPerThread`
is not inductive: it says nothing of turns that wait. `ChainInv` adds that a
live handle is the tail of its thread's queue or has a later handle chained at or
behind it, so that a handle whose predecessor has settled has no live handle
before it. `LiveTurnsRetained` uses that `Prunings` remove completed turns only
(`PruningsEvictCompleted`).

**AgentRunProofs** uses `AgentsAssumption` and `NumbersAssumption`. `RunInv`: a
claimed run has a row, and one worker inserted it, so at most one worker is in
it and commits once. `LeaseInv`: of an agent one run is running, and the lease a
worker trusts is the one in the row until it expires. `LockInv`: what an open
transaction has written is under its row lock and nobody has committed the same.
From these follow single application, unique findings, exclusion and
`EndedRunsStay` as an action property.

Two more invariants of that module are about what is told. `LogInv` says what a log
is in each phase: nothing final before the turn has settled, exactly one final event
and the activity that goes with it afterwards, and no promise that is not stored.
`ReplayInv` accounts for each turn that has completed: it is kept, or its tombstone
is, or so much time and so many other identities came after it that both could be
forgotten (`Forgettable`), which is what `ReplayOnlyAfterRetention` demands of a
turn that runs again, for any limits of the two tables.

**AlertDeliveryProofs** uses `AlertsAssumption` and `LimitsAssumption`. `Ordered`: an
alert that a worker has at hand is in one of its lists only, is taken, and is claimed
for no longer than the pass has lasted. Hence a claim that was taken over is the
younger one, and a pass within its timeout is the only one with its alerts
(`ExclusiveWithinClaim`). `BlockedFactsStay` is an action property of the sends.

**BlobLifecycleProofs** uses `BlobsAssumption`. `LocksInv`: a blob has one holder of
its advisory lock and a queue row one transaction. `ErasureInv`: who holds a source,
and that an erasure has queued what it is about to delete. `CollectInv`: what a
collector has found no document of has none until it commits. `PutInv` adds that what
an ingest has put stays until it commits, unless it is in `lost`; `BlobsKept` rests on
it, `ErasureComplete` on the others.

**FactReviewProofs** uses `LimitAssumption`, `CallsAssumption` and
`NoCandidateAssumption`. `LocksOK`: a review and a reviewer are locked by one call,
the locked row is still as the call has read it, and a reviewer who was counted may
still act. From it `ThroughputRespected` follows for every window, and that each
commit is a step of `FactLedger` while every other step leaves the ledger alone,
which is the refinement `ImplementsLedger`.

**ServicesProofs** has six components. `DailyCall` (`BriefConstants`: the seed is a
text, the blank is not): a loaded row had the status its operation expects and no
snapshot, only a publication with its own sealed snapshot gets to the update, and a
request which has published still knows the row as it is; `FixedOnceApproved` is the
action property that what was approved is never edited and what was published never
changes. `Winning` adds that who is told to have won was shown the row that is kept,
that one request approves, and that what was announced is that row, once
(`OneWinner`). `TurnPolicy` (`PolicyConstants`): `Reserves`, every outstanding
decision was accepted below what is reserved now, is what makes the typing
inductive; `WithinBudget` follows for every set of classes and every budget.
`ThreadMessages` (`ThreadConstants`): one turn of a thread runs at a time, and a turn
that is past its seal has pinned its own attempt's result and stored nothing yet
(`AnsweredFromItsSeal`). `EventStream` (`StreamConstants`): `Covers` says that the
frames of a line, in the socket and kept by the writer, are in order and above the
cursor, and with what was received and what was gone before are all activities of the
user; a step appends a frame, takes the first, moves frames to the socket or closes
the line (`NoSilentGap`). `RanksAreTaken` and `ByRank` are about any finite ordered
set: listing its members by the number of those before them lists each once, in
order; both the replay and a page of memos are such lists. `AnalyzeRuns`
(`MemoConstants`: ids are numbers and a key, a page and a millisecond are not empty):
`HistoryInv` says that whatever is after the cursor, now or later, is older than all
that is listed, and that what the client held when it began is listed, after the
cursor, or of the millisecond the cursor was rounded to (`HistoryComplete`).
`ClaimClusters` (`ClusterConstants`: confidences are numbers, batches are not empty
and of the claims): `CountsMatchMembers` says nothing of what a rollback does, so
`ClusterInv` adds that a row a transaction has saved counts the members of its cluster
without those that the transaction has added (`Restorable`), that it holds the row of
each cluster it has added to, alone (`HoldsItsOwn`, `Apart`), and that what it has
looked at is still so unless the claim is gone (`LookedWell`). The confidence is the
number of units of all members; `ConfidenceIsTheSum` compares that with the sum on
each run. The lemmas on ranks also give the order of a batch's groups.

**DeskProofs** has seven.
- `SnapshotSeal` implements `SnapshotStore`. `SealInv`: what is past the verifier has
  no failure, what is past the audit was once in the log, what a transaction holds
  is not stored and held by no other. The lemmas about the verifier show that a
  draft without a failure is closed. The hypothesis `FieldsAreRead`, blocks show nodes
  only in the fields that the verifier reads for their kind, is what the code does
  not ensure: `seal_unread_refs` is the run without it.
- `EvidenceIngest`: `ExtractedOnce` from what an asset's transaction writes.
  `BucketInv` is a credit argument for `GrantsWithinRefill`: what the bucket holds and
  what it let through since any moment is at most what it holds when full plus the
  refill since then (`Passed`: a step of the wall clock ahead refills like time); a caller sleeps until that allows one more.
- `MarketData` (`MarketConstants`): `MarketInv` follows a leg from the listing to its
  answer. A row that a leg has at hand is of its range and outlives the start of its
  call, what is stored expires after it was fetched (`ExpiryIsLater`), and an entry
  of the memory serves every query of its key. `ServedAsAsked` also says that the range
  covers what was asked for, which depends on the zone: `RangesAreCovered` is the
  hypothesis, and `FixedZonesCover` proves it of zones whose offset never changes.
- `ToolGate`: `GateInv` follows the choice of a tool, which may be any of the
  registry, through its authorization to its call. `GateHolds` says whose tools run
  and whose results the analyst is handed, not what these results hold: nobody checks
  a result against a schema (section 6.2). It needs `ReadersOnlyRead`, no tool of the reader writes: the reader's dispatcher has no
  interceptor, so this is up to the registry's file.
- `EvidenceReads` (`ChatsAssumption`, `LibrariesAssumption`): what a snapshot cites was
  visible when it was sealed and owners never change, so `ShownIsOwn`.
- `AuthInterrupt`: an action that was asked for is pending, queued, on its way in
  a commit's microtasks, with a handler, or done; `InterruptInv` counts these places
  as credit against what was asked for (`ActsOnce`).
- `Screener` (`ScreensAssumption`): of the searches that are not aborted one is
  current (`SearchInv`, `AnswersInOrder`); a request for saved screens answers with
  rows of the user it was made for, and the panel remembers whose it shows
  (`BookInv`, `PanelIsOwn`).

**ResolverProofs** proves `ReferencesKept` and `AnswersNameOneCompany` under one
hypothesis, `SourcesAgree`, stated at the end of `Resolver`: there is an assignment of
identifiers (CIK, LEI, ISIN, FIGI) to companies that all data fit. What a provider
tells of a ticker is of the company of its venue, name and identifiers
(`ProvidersTellTrue`); the rows there are at first hang together, and the seeded
identity is of one company (`SeedsAreSound`); Polygon tells of the ticker of the
seeded listing what is of that company (`LegacyIsTold`); and a text may mean whose
identifier, ticker or name it is (`QueriesMean`). The code cannot do without it: a
row is found by any one of its identifiers and the others are then written onto it.
The assumption `TheSourcesAgree` of `MCDesk` evaluates the hypothesis for the data of
the run, with `MCWhose` as the assignment.

`ResolverInv` says why it is enough. Every row is of one company, an instrument that of
its issuer, a listing that of its venue, and carries only identifiers of it
(`SoundRows`); what a search or a discovery holds between two statements is of the
company that it was looked up for (`AskTrue`, `WriteTrue`); a statement of discovery
deletes no row and moves none to another company (`Grows`), so what others hold stays
true; while the repair is at work nobody else is, and its end puts every reference
that named the seeded rows on rows of the same company, or everything is as the
repair found it (`StartupTrue`). The rows' numbers come from the maximum of a set and
lookups take the minimum of one; that both exist is proved from the well-foundedness
of the naturals, of which the library has a first-order form (`WFMin`).

Only model-checked:
- liveness (`EveryTurnSettles`, `WorkersFinish`, `SupportedAlertsDecided`,
  `QueuedCollected`, `StreamCatchesUp`), which is beyond TLAPS under fairness;
- `DetailsMoveOn`, since findings of the model have no identity beyond their
  content;
- the suites' `TypeOK`, among them everything about watchlists, home, settings,
  migrations, the pages, fundamentals and themes.

## 6. Findings and observations

### 6.1 Shown by a run

1. `alert_unsupported`: one alert with a channel name that is not supported makes
   every pass that claims it throw after the claim
   (`notifications/delivery-processor.ts:324`), so the batch is not delivered.
2. `fact_restatement`: superseding a reported fact from the same source always
   violates the unique index (`evidence/fact-repo.ts:404`).
3. `seal_unread_refs`: blocks of some kinds show facts that the manifest does not
   hold (`snapshot/snapshot-verifier.ts:1352`).
4. `series_cache`: a series computed before its range was over is served from
   memory however old (`market/http.ts:157`).
5. `share_classes`: two classes of shares discovered one after the other become
   listings of one instrument (`resolver/discovery.ts:311`).

### 6.2 Seen while modelling, without a run

Chat and threads
- A post sent again is refused as a different payload because its time is
  compared (`chat/messages.ts:243`). A repeated turn overwrites a logged tool
  result whose hash is already sealed (`chat/local-runtime.ts:222`). Sharing to
  a chat names a parameter that its statement does not use and always fails
  (`chat/messages.ts:207`). Archived threads accept messages.
- The bundle of every subject kind is one that neither registry nor prompt
  templates have, so the registry-backed runtime refuses every turn
  (`chat/local-runtime.ts:36`, `bundle-routing.ts:15`). `authorizeToolResult` is
  never called for chat results, nor is a result compared with its schema, and the
  audience boundary finds nothing in a schema without types (`{}`,
  `tools/audience-enforcement.ts:317`): that an analyst's tool returns no raw text
  is up to its executor. `ToolGate` has such schemas (`"untyped"`) and promises
  nothing of what results hold.
- The route `:threadId` is not keyed (`web/App.tsx:59`): the view keeps reducer,
  error and failed turn across threads and never closes an event stream, so
  events of one thread's turn show in another, a retry of a failed turn opens it
  on the current thread, and a message posted while the history loads is dropped
  by the older answer. A thread being created navigates the user away wherever
  they are.
- A replay larger than socket and queue destroys its client each time
  (`Oversized` in `EventStream`); a new process's activity numbers make an old
  cursor valid again, which `NoSilentGap` excepts (`foreign`).

Agents and alerts
- A run that outlived its lease commits after its successor and sets the
  watermark back (`agents/watermarks.ts:68`). The page offers the cadence
  "weekly", which the server refuses. A rule saved without a channel makes every
  run with findings fail. Saving the form writes back the rules as they were
  loaded, so an alert approved meanwhile is lost. The approver of a staged alert
  is not compared with the agent's owner. Of two rules with one id the second's
  channels are never notified. Severity never reaches critical with the local
  runtime's impact. `bestTrustTier` and the weights order the tiers differently.
- After a change of session a failed list leaves the former user's agents; an
  answer to an update after a delete selects the deleted agent again.

Evidence
- The cleanup after a rollback deletes a blob without its lock and can take it
  from a document committed meanwhile (`evidence/transaction.ts:95`), which
  `BlobsKept` excepts (`lost`). A process that dies between put and commit leaves a blob that no table
  knows (`evidence/ingest.ts:111`).
- A crawled page with the bytes of a user's upload hangs on the user's document,
  and every seal over such a claim fails. Members that go with an erased claim
  stay counted in their cluster (`0001_init.up.sql:365`). The default bucket lets
  sixteen requests to SEC EDGAR through in one second (`sec-edgar.ts:5-8` says
  ten); a wall clock stepped ahead refills the bucket at once and lets as many
  more through (`sec-edgar.ts:142`).
- Inferred theme membership counts an expired one as present, and half of an
  apply without a transaction stays.

Data
- SEC's `fy` is the filing's year and `selectSecConceptValue` takes the first
  match, so a statement may show the year before (`fundamentals/sec-edgar.ts:336`).
  Lines are stored without a transaction, so a crash leaves a partial statement
  that later reads serve as whole. Mixed currencies fail the whole request. The
  price is never given, so `pe_ratio` is never available.
- Two concurrent enrichments of a profile may leave a provenance of a later value
  than the row's; a failure to store fails the whole profile.
- Two discoveries of a company without a cik insert two issuers, and later ones a
  third; a reported fact on both makes the repair fail at every start; refs in
  jsonb are not rewritten by it.

Briefs, analyze, screener, watchlists, home
- Overlapping edits of different fields of a brief lose one
  (`briefs/service.ts:102`); a brief whose `onPublished` fails stays unannounced.
- Migration 0028 removed the cascade from runs to templates, so erasing a user
  with a memo fails. The cursor of the history is cut to milliseconds, so runs
  within one millisecond of a page's last row are skipped.
- After a change of session a form search in flight may overwrite a newer answer
  (`ScreenerWorkspace.tsx:84`). A save that overtakes a delete brings the screen
  back. A late list drops a screen saved meanwhile; page turns mix an edited
  draft with the response's offset.
- The former user's members stay on the page until the new list arrives; the
  restore after a failed request tramples concurrent additions.
- A refresh that changes any review mounts the whole queue again: drafts typed in
  other rows are lost, and a row whose verdict is still in flight is enabled, so
  that the verdict can be sent twice (`FactReviewQueue.tsx:49`). A verdict that
  fails, also because another reviewer was first, does not refresh.
- A memo that is answered after an edit of the form is shown, and shared, under
  the new settings (`AnalyzePage.tsx:167`). Two "Load more" append one page twice.
  A former user's memos stay until the new history arrives, for good if it does
  not, and one answered later enters the new user's. A source of a template that
  was left is still sent though no longer offered.
- A submit, or a trailing space, before the search timer fires leaves "Resolving"
  on the box for good (`SymbolSearch.tsx:65`); a trailing space also drops the
  answer in flight; the candidates that Escape closed come back with a late one.
- A link to another section drops the carried subject, which is hydrated again
  (`SubjectDetailShell.tsx:72`).
- The theme mode of derived watchlists selects a column that the table does not
  have (`dynamic-membership.ts:138`). `SUBJECT_KINDS` of the finding feed lacks the
  commodity kinds of migration 0030, so one such finding fails the whole board
  (`home/finding-feed-repo.ts:55`).
- An action interrupted for sign-in is lost by a reload between its queueing and
  its route's arrival, and dropped silently once expired although its dialog is
  still shown.

Settings and scripts
- The version check of the settings file is not atomic with the rename: two saves
  that read one version both succeed, and hand edits in between are lost. Masked
  keys are restored by index, so reordering moves keys to other channels.
  References that do not resolve vanish from the page and are erased by the next
  save. Settings removed from the file fall back to the environment the process
  started with. Only the first of several keys is used (`llm/pi-adapter.ts:139`).
- A migration with a lower version that is added later is applied after higher
  ones; `apply-schema` and `migrate` exclude each other; `status` creates the
  ledger outside the lock.

## 7. What is not modelled

- Text and numbers that no property tells apart: event texts, findings, prompts,
  blocks' layout, descriptions, quoting, rounding. Models take an LLM's output,
  what readers extract and what feeds contain as inputs from small sets.
- Impact, balances, commodities, summary and shared code: validation and shaping
  of given rows, without state.
- Pages that fetch once and render (evidence drawer, portfolio, the earnings,
  holders and signals of a subject), block rendering and its JSON schema,
  navigation chrome.
- Segment reconciliation, consensus and fixtures of the fundamentals service, which
  no running configuration reads; promotion rules and cadence.
- PostgreSQL, the object store, the queue, providers, adapters and sockets are
  external: the modules contain what the code relies on (row and advisory locks,
  READ COMMITTED statements, unique indexes, cascades, redelivery, drain).
- A crash inside a step that the code makes durable at once (the rename of the
  settings file, a single statement), temporary files left by a crash.
- Wiring, Python fixtures, evaluation scripts and generated contracts.
