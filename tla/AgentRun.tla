------------------------------ MODULE AgentRun ------------------------------
(***************************************************************************)
(* Runs of research agents: workers receive run messages at least once,    *)
(* claim the run in Postgres under a lease (services/agents/src/           *)
(* agent-run-repo.ts, queue-runner.ts), read the agent's watermark and the *)
(* new evidence (dev-api/src/local-runtime.ts), and write findings and the *)
(* next watermark in one transaction (agent-loop.ts, watermarks.ts).       *)
(*                                                                         *)
(* Each SQL statement that another worker can observe or block is one      *)
(* action.  Transactions run at READ COMMITTED; a finding stands for the   *)
(* alert rows, run activities and snapshot written beside it.              *)
(***************************************************************************)
EXTENDS Integers, FiniteSets, Functions

CONSTANTS
    Workers,      \* processes that handle run messages
    Runs,         \* run ids
    Agents,       \* agents
    AgentOf,      \* the agent a run id is for
    Claims,       \* evidence claims
    Clusters,     \* claim clusters: claims with one canonical signature
    ClusterOf,    \* the cluster a claim belongs to
    Recency,      \* the order of claims by time, then by id: greater is newer
    Limit,        \* how many claims loadLocalRuntimeEvidence returns
    LeaseTime,    \* the lease of a claim, defaultLeaseExpiresAt
    MaxTime,      \* bound: the last value of the clock
    NoOne         \* no worker, and no run

ASSUME AgentsAssumption ==
    /\ AgentOf \in [Runs -> Agents] /\ ClusterOf \in [Claims -> Clusters]
    /\ NoOne \notin Workers \cup Runs /\ IsFiniteSet(Claims)
    /\ Recency \in Injection(Claims, Nat)
ASSUME NumbersAssumption ==
    Limit \in Nat \ {0} /\ LeaseTime \in Nat \ {0} /\ MaxTime \in Nat

VARIABLES
    clock,       \* now(), one clock for the workers and the database
    arrived,     \* the claims the ingest pipeline has stored
    watermark,   \* agents.watermarks: the claims an agent has processed
    status,      \* agent_run_logs.status, "absent" without a row
    expires,     \* agent_run_logs.claim_expires_at
    findings,    \* committed findings: the run, its agent and the cluster
    applied,     \* how often the transaction of a run has committed
    lockedBy,    \* the worker whose transaction holds a cluster's row lock
    pc,          \* where a worker stands
    run,         \* the run a worker handles
    lease,       \* the lease a worker computed
    seen,        \* the watermark a worker has read
    batch,       \* the claims a worker has read
    todo,        \* the clusters a worker's transaction has not written yet
    made         \* the clusters of the findings its transaction inserted

dbVars == <<watermark, status, expires, findings, applied>>
workerVars == <<run, lease, seen, batch, todo, made>>
vars == <<clock, arrived, dbVars, lockedBy, pc, workerVars>>

Ended == {"completed", "failed"}
InRun == {"load", "gather", "begin", "lock", "find", "commit", "complete"}
InTransaction == {"lock", "find", "commit"}
Steps == {"idle", "expire", "insert", "refused", "fail"} \cup InRun

Agent(w) == AgentOf[run[w]]
Goto(w, step) == pc' = [pc EXCEPT ![w] = step]

(* What a worker has read and written goes out of scope. *)
Discard(w) ==
    /\ seen' = [seen EXCEPT ![w] = {}]
    /\ batch' = [batch EXCEPT ![w] = {}]
    /\ todo' = [todo EXCEPT ![w] = {}]
    /\ made' = [made EXCEPT ![w] = {}]

(* The handler of a message returns or throws. *)
Leave(w) ==
    /\ Goto(w, "idle")
    /\ run' = [run EXCEPT ![w] = NoOne]
    /\ lease' = [lease EXCEPT ![w] = 0]
    /\ Discard(w)

(* The n newest claims of S. *)
Newest(S, n) == {c \in S : Cardinality({d \in S : Recency[d] > Recency[c]}) < n}

(* The first cluster, in the order of its newest claim, that is still to   *)
(* be written.                                                             *)
IsNextCluster(w, k) ==
    /\ k \in todo[w]
    /\ \E c \in batch[w] : ClusterOf[c] = k /\
         \A d \in batch[w] : ClusterOf[d] \in todo[w] => Recency[d] <= Recency[c]

Init ==
    /\ clock = 0
    /\ arrived = {}
    /\ watermark = [a \in Agents |-> {}]
    /\ status = [r \in Runs |-> "absent"]
    /\ expires = [r \in Runs |-> 0]
    /\ findings = {}
    /\ applied = [r \in Runs |-> 0]
    /\ lockedBy = [k \in Clusters |-> NoOne]
    /\ pc = [w \in Workers |-> "idle"]
    /\ run = [w \in Workers |-> NoOne]
    /\ lease = [w \in Workers |-> 0]
    /\ seen = [w \in Workers |-> {}]
    /\ batch = [w \in Workers |-> {}]
    /\ todo = [w \in Workers |-> {}]
    /\ made = [w \in Workers |-> {}]

(***************************************************************************)
(* The environment.                                                        *)
(***************************************************************************)
Tick ==
    /\ clock < MaxTime
    /\ clock' = clock + 1
    /\ UNCHANGED <<arrived, dbVars, lockedBy, pc, workerVars>>

(* The ingest pipeline stores a claim; its time may lie before the others'. *)
ClaimArrives(c) ==
    /\ c \notin arrived
    /\ arrived' = arrived \cup {c}
    /\ UNCHANGED <<clock, dbVars, lockedBy, pc, workerVars>>

(* A run message is delivered, for the first time or again. *)
Receive(w, r) ==
    /\ pc[w] = "idle"
    /\ Goto(w, "expire")
    /\ run' = [run EXCEPT ![w] = r]
    /\ lease' = [lease EXCEPT ![w] = clock + LeaseTime]
    /\ UNCHANGED <<clock, arrived, dbVars, lockedBy, seen, batch, todo, made>>

(***************************************************************************)
(* Claiming a run.                                                         *)
(***************************************************************************)
Stale(r) == status[r] = "running" /\ expires[r] <= clock

ExpireStale(w) ==
    /\ pc[w] = "expire"
    /\ status' = [r \in Runs |-> IF AgentOf[r] = Agent(w) /\ Stale(r)
                                THEN "failed" ELSE status[r]]
    /\ Goto(w, "insert")
    /\ UNCHANGED <<clock, arrived, watermark, expires, findings, applied, lockedBy, workerVars>>

(* A bug: the primary key does not stop a run that has ended. *)
ClaimableAgain(w) ==
    \A r \in Runs : AgentOf[r] = Agent(w) => status[r] # "running"

(* A bug: the partial unique index on running rows is missing. *)
ClaimableUnindexed(w) == status[run[w]] = "absent"

(* The primary key and agent_run_logs_one_running_per_agent_idx. *)
Claimable(w) ==
    /\ status[run[w]] = "absent"
    /\ \A r \in Runs : AgentOf[r] = Agent(w) => status[r] # "running"

InsertRun(w) ==
    /\ pc[w] = "insert"
    /\ IF Claimable(w)
       THEN /\ status' = [status EXCEPT ![run[w]] = "running"]
            /\ expires' = [expires EXCEPT ![run[w]] = lease[w]]
            /\ Goto(w, "load")
       ELSE Goto(w, "refused") /\ UNCHANGED <<status, expires>>
    /\ UNCHANGED <<clock, arrived, watermark, findings, applied, lockedBy, workerVars>>

(* The claim answers duplicate or concurrency_limit, or throws when the    *)
(* conflicting run ended in between: nothing is written in any case.       *)
Refuse(w) ==
    /\ pc[w] = "refused"
    /\ Leave(w)
    /\ UNCHANGED <<clock, arrived, dbVars, lockedBy>>

(***************************************************************************)
(* The agent loop.                                                         *)
(***************************************************************************)
LoadAgent(w) ==
    /\ pc[w] = "load"
    /\ seen' = [seen EXCEPT ![w] = watermark[Agent(w)]]
    /\ Goto(w, "gather")
    /\ UNCHANGED <<clock, arrived, dbVars, lockedBy, run, lease, batch, todo, made>>

(* readDeltas, extractEvidence, clusterEvidence, analyze. *)
Gather(w) ==
    /\ pc[w] = "gather"
    /\ batch' = [batch EXCEPT ![w] =
                   Newest(arrived \ seen[w], Limit)]
    /\ Goto(w, "begin")
    /\ UNCHANGED <<clock, arrived, dbVars, lockedBy, run, lease, seen, todo, made>>

Begin(w) ==
    /\ pc[w] = "begin"
    /\ todo' = [todo EXCEPT ![w] = {ClusterOf[c] : c \in batch[w]}]
    /\ made' = [made EXCEPT ![w] = {}]
    /\ Goto(w, IF batch[w] = {} THEN "commit" ELSE "lock")
    /\ UNCHANGED <<clock, arrived, dbVars, lockedBy, run, lease, seen, batch>>

LockIgnored(w, k) == TRUE                    \* a bug: the upsert takes no row lock
LockFree(w, k) == lockedBy[k] = NoOne

(* upsertClaimCluster and addClaimClusterMember: the transaction keeps the *)
(* lock on the row of the cluster, and waits for another one's lock.       *)
LockCluster(w, k) ==
    /\ pc[w] = "lock"
    /\ IsNextCluster(w, k)
    /\ LockFree(w, k)
    /\ lockedBy' = [lockedBy EXCEPT ![k] = w]
    /\ Goto(w, "find")
    /\ UNCHANGED <<clock, arrived, dbVars, workerVars>>

(* agentAlreadyHasFindingForCluster. *)
HasFinding(w, k) == \E f \in findings : f.agent = Agent(w) /\ f.cluster = k

(* agentAlreadyHasFindingForCluster and generateFinding. *)
MakeFinding(w, k) ==
    /\ pc[w] = "find"
    /\ IsNextCluster(w, k)
    /\ made' = IF HasFinding(w, k) THEN made ELSE [made EXCEPT ![w] = @ \cup {k}]
    /\ todo' = [todo EXCEPT ![w] = @ \ {k}]
    /\ Goto(w, IF todo[w] = {k} THEN "commit" ELSE "lock")
    /\ UNCHANGED <<clock, arrived, dbVars, lockedBy, run, lease, seen, batch>>

Unlocked(w) == [k \in Clusters |-> IF lockedBy[k] = w THEN NoOne ELSE lockedBy[k]]

(* The watermark is overwritten with the one computed from what was read,  *)
(* and the transaction commits; the acknowledgement may get lost.          *)
Commit(w) ==
    /\ pc[w] = "commit"
    /\ findings' = findings \cup {[run |-> run[w], agent |-> Agent(w), cluster |-> k] : k \in made[w]}
    /\ watermark' = [watermark EXCEPT ![Agent(w)] = seen[w] \cup batch[w]]
    /\ applied' = [applied EXCEPT ![run[w]] = @ + 1]
    /\ lockedBy' = Unlocked(w)
    /\ \E step \in {"complete", "fail"} : Goto(w, step)
    /\ Discard(w)
    /\ UNCHANGED <<clock, arrived, status, expires, run, lease>>

LocksKept(w) == lockedBy                     \* a bug: no rollback on a failed stage
RolledBack(w) == Unlocked(w)

(* A stage or a side effect throws; inside the transaction it rolls back. *)
StageFails(w) ==
    /\ pc[w] \in InRun \ {"complete"}
    /\ lockedBy' = RolledBack(w)
    /\ Goto(w, "fail")
    /\ Discard(w)
    /\ UNCHANGED <<clock, arrived, dbVars, run, lease>>

(* Workers waiting for each other: Postgres aborts one of them. *)
Deadlocked(w) ==
    \E S \in SUBSET Workers :
        /\ w \in S
        /\ \A v \in S : pc[v] = "lock" /\
             \E k \in Clusters : IsNextCluster(v, k) /\ lockedBy[k] \in S

DeadlockVictim(w) ==
    /\ Deadlocked(w)
    /\ lockedBy' = Unlocked(w)
    /\ Goto(w, "fail")
    /\ Discard(w)
    /\ UNCHANGED <<clock, arrived, dbVars, run, lease>>

EndsAnyRun(w) == TRUE                        \* a bug: no condition on the status
EndsRunning(w) == status[run[w]] = "running"

CompleteRun(w) ==
    /\ pc[w] = "complete"
    /\ IF EndsRunning(w)
       THEN status' = [status EXCEPT ![run[w]] = "completed"] /\ Leave(w)
       ELSE Goto(w, "fail") /\ UNCHANGED <<status, workerVars>>
    /\ UNCHANGED <<clock, arrived, watermark, expires, findings, applied, lockedBy>>

FailRun(w) ==
    /\ pc[w] = "fail"
    /\ status' = IF EndsRunning(w) THEN [status EXCEPT ![run[w]] = "failed"] ELSE status
    /\ Leave(w)
    /\ UNCHANGED <<clock, arrived, watermark, expires, findings, applied, lockedBy>>

(* The process dies: its open transaction is rolled back by the database.  *)
Crash(w) ==
    /\ pc[w] # "idle"
    /\ lockedBy' = Unlocked(w)
    /\ Leave(w)
    /\ UNCHANGED <<clock, arrived, dbVars>>

Step(w) ==
    \/ ExpireStale(w) \/ InsertRun(w) \/ Refuse(w)
    \/ LoadAgent(w) \/ Gather(w) \/ Begin(w)
    \/ \E k \in Clusters : LockCluster(w, k) \/ MakeFinding(w, k)
    \/ Commit(w) \/ CompleteRun(w) \/ FailRun(w)
    \/ DeadlockVictim(w)

Next ==
    \/ Tick
    \/ \E c \in Claims : ClaimArrives(c)
    \/ \E w \in Workers, r \in Runs : Receive(w, r)
    \/ \E w \in Workers : Step(w) \/ StageFails(w) \/ Crash(w)

Spec == Init /\ [][Next]_vars

(* Statements return and deadlocks are detected. *)
FairSpec == Spec /\ \A w \in Workers : WF_vars(Step(w))

(***************************************************************************)
(* Properties.                                                             *)
(***************************************************************************)
(* The values the tables and the workers' variables range over; a worker   *)
(* has a run unless it is idle, and row locks belong to open transactions. *)
TypeOK ==
    /\ clock \in 0 .. MaxTime
    /\ arrived \subseteq Claims
    /\ watermark \in [Agents -> SUBSET Claims]
    /\ status \in [Runs -> {"absent", "running"} \cup Ended]
    /\ expires \in [Runs -> Nat]
    /\ findings \subseteq [run : Runs, agent : Agents, cluster : Clusters]
    /\ applied \in [Runs -> Nat]
    /\ lockedBy \in [Clusters -> Workers \cup {NoOne}]
    /\ pc \in [Workers -> Steps]
    /\ run \in [Workers -> Runs \cup {NoOne}]
    /\ lease \in [Workers -> Nat]
    /\ seen \in [Workers -> SUBSET Claims]
    /\ batch \in [Workers -> SUBSET Claims]
    /\ todo \in [Workers -> SUBSET Clusters]
    /\ made \in [Workers -> SUBSET Clusters]
    /\ \A w \in Workers : run[w] = NoOne <=> pc[w] = "idle"
    /\ \A k \in Clusters : lockedBy[k] # NoOne => pc[lockedBy[k]] \in InTransaction

(* An agent has at most one finding for a claim cluster, even when a run   *)
(* outlives its lease and overlaps the next one, or the watermark was set  *)
(* back: the row lock of the cluster orders the test before the insert.    *)
OneFindingPerCluster ==
    \A f, g \in findings : f.agent = g.agent /\ f.cluster = g.cluster => f = g

(* However often its message is delivered, and wherever its worker dies,   *)
(* the side effects of a run are committed at most once, and they are when *)
(* the run is recorded as completed.                                       *)
AppliedAtMostOnce ==
    \A r \in Runs : applied[r] <= 1 /\ (status[r] = "completed" => applied[r] = 1)

(* Two workers are never both in a run of one agent within their leases.   *)
NoOverlapWithinLease ==
    \A w, v \in Workers :
        w # v /\ pc[w] \in InRun /\ pc[v] \in InRun /\ Agent(w) = Agent(v) =>
            lease[w] <= clock \/ lease[v] <= clock

(* A run that has ended keeps its outcome, also when the worker that lost  *)
(* its lease comes back to complete or to fail it.                         *)
EndedRunsStay ==
    [][\A r \in Runs : status[r] \in Ended => status'[r] = status[r]]_vars

(* A worker that received a message gets done with it, whatever locks the  *)
(* other workers hold or have left behind.                                 *)
WorkersFinish == \A w \in Workers : pc[w] # "idle" ~> pc[w] = "idle"
=============================================================================
