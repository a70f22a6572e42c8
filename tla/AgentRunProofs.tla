--------------------------- MODULE AgentRunProofs ---------------------------
(***************************************************************************)
(* What holds of agent runs for any number of workers, runs, agents,       *)
(* claims and clusters, any lease, and any deliveries, failures and        *)
(* crashes.                                                                *)
(*                                                                         *)
(* The properties are not inductive.  Inv adds why they hold: a run that   *)
(* was claimed has a row, so its row is inserted by one worker (RunInv);   *)
(* one run of an agent is running, and its worker's lease is the one in    *)
(* the row until it expires (LeaseInv); a transaction holds the locks of   *)
(* the clusters it has written, and nobody commits a finding for a cluster *)
(* that another transaction has locked (LockInv).                          *)
(***************************************************************************)
EXTENDS AgentRun, TLAPS

Claimed == InRun \cup {"fail"}

RunInv ==
    /\ \A w \in Workers : pc[w] \in Claimed => status[run[w]] # "absent"
    /\ \A w, v \in Workers :
         pc[w] \in Claimed /\ pc[v] \in Claimed /\ run[w] = run[v] => w = v
    /\ \A r \in Runs : status[r] = "absent" => applied[r] = 0
    /\ AppliedAtMostOnce
    /\ \A w \in Workers : pc[w] \in InRun \ {"complete"} => applied[run[w]] = 0
    /\ \A w \in Workers : pc[w] = "complete" => applied[run[w]] = 1

LeaseInv ==
    /\ \A r, s \in Runs :
         status[r] = "running" /\ status[s] = "running" /\ AgentOf[r] = AgentOf[s] => r = s
    /\ \A w \in Workers :
         pc[w] \in InRun /\ lease[w] > clock =>
             status[run[w]] = "running" /\ expires[run[w]] = lease[w]

LockInv ==
    /\ \A w \in Workers : \A k \in made[w] :
         pc[w] \in InTransaction /\ lockedBy[k] = w /\ ~HasFinding(w, k)
    /\ \A w \in Workers, k \in Clusters :
         pc[w] = "find" /\ IsNextCluster(w, k) => lockedBy[k] = w
    /\ OneFindingPerCluster

Inv == TypeOK /\ RunInv /\ LeaseInv /\ LockInv

USE AgentsAssumption, NumbersAssumption

-----------------------------------------------------------------------------
(* Nothing is claimed, locked or found initially. *)
LEMMA InitInv == Init => Inv
BY DEF Init, Inv, TypeOK, RunInv, LeaseInv, LockInv, AppliedAtMostOnce, OneFindingPerCluster,
       Claimed, InRun, InTransaction, Steps, Ended

(* The row of a cluster is the next one to lock for at most one cluster.   *)
LEMMA NextClusterUnique ==
    ASSUME TypeOK, NEW w \in Workers, NEW j, NEW k, IsNextCluster(w, j), IsNextCluster(w, k)
    PROVE  j = k
<1>1. PICK c \in batch[w] : ClusterOf[c] = j /\
           \A d \in batch[w] : ClusterOf[d] \in todo[w] => Recency[d] <= Recency[c]
    BY DEF IsNextCluster
<1>2. PICK d \in batch[w] : ClusterOf[d] = k /\
           \A e \in batch[w] : ClusterOf[e] \in todo[w] => Recency[e] <= Recency[d]
    BY DEF IsNextCluster
<1>3. c \in Claims /\ d \in Claims
    BY <1>1, <1>2 DEF TypeOK
<1>4. j \in todo[w] /\ k \in todo[w]
    BY DEF IsNextCluster
<1>5. Recency[c] <= Recency[d] /\ Recency[d] <= Recency[c]
    BY <1>1, <1>2, <1>4
<1>6. Recency \in [Claims -> Nat] /\ (Recency[c] = Recency[d] => c = d)
    BY <1>3 DEF Injection, IsInjective
<1>7. c = d
    BY <1>3, <1>5, <1>6
<1> QED BY <1>1, <1>2, <1>7

(* Every step keeps the types. *)
LEMMA TypeStep ==
    ASSUME TypeOK, [Next]_vars
    PROVE  TypeOK'
<1>1. CASE Tick
    BY <1>1 DEF Tick, TypeOK, dbVars, workerVars, Agent, Goto, InRun, InTransaction, Steps, Ended
<1>2. ASSUME NEW c \in Claims, ClaimArrives(c) PROVE TypeOK'
    BY <1>2 DEF ClaimArrives, TypeOK, dbVars, workerVars, Agent, Goto, InRun, InTransaction, Steps, Ended
<1>3. ASSUME NEW w \in Workers, NEW r \in Runs, Receive(w, r) PROVE TypeOK'
    BY <1>3 DEF Receive, TypeOK, dbVars, workerVars, Agent, Goto, InRun, InTransaction, Steps, Ended
<1>4. ASSUME NEW w \in Workers, ExpireStale(w) PROVE TypeOK'
    BY <1>4 DEF ExpireStale, Stale, TypeOK, dbVars, workerVars, Agent, Goto, InRun, InTransaction, Steps, Ended
<1>5. ASSUME NEW w \in Workers, InsertRun(w) PROVE TypeOK'
    BY <1>5 DEF InsertRun, Claimable, TypeOK, dbVars, workerVars, Agent, Goto, InRun, InTransaction, Steps, Ended
<1>6. ASSUME NEW w \in Workers, Refuse(w) PROVE TypeOK'
    BY <1>6 DEF Refuse, Leave, Discard, TypeOK, dbVars, workerVars, Agent, Goto, InRun, InTransaction, Steps, Ended
<1>7. ASSUME NEW w \in Workers, LoadAgent(w) PROVE TypeOK'
    BY <1>7 DEF LoadAgent, TypeOK, dbVars, workerVars, Agent, Goto, InRun, InTransaction, Steps, Ended
<1>8. ASSUME NEW w \in Workers, Gather(w) PROVE TypeOK'
    BY <1>8 DEF Gather, Newest, TypeOK, dbVars, workerVars, Agent, Goto, InRun, InTransaction, Steps, Ended
<1>9. ASSUME NEW w \in Workers, Begin(w) PROVE TypeOK'
    BY <1>9 DEF Begin, TypeOK, dbVars, workerVars, Agent, Goto, InRun, InTransaction, Steps, Ended
<1>10. ASSUME NEW w \in Workers, Commit(w) PROVE TypeOK'
    BY <1>10 DEF Commit, Unlocked, Discard, TypeOK, dbVars, workerVars, Agent, Goto, InRun, InTransaction, Steps, Ended
<1>11. ASSUME NEW w \in Workers, StageFails(w) PROVE TypeOK'
    BY <1>11 DEF StageFails, RolledBack, Unlocked, Discard, TypeOK, dbVars, workerVars, Agent, Goto, InRun, InTransaction, Steps, Ended
<1>12. ASSUME NEW w \in Workers, DeadlockVictim(w) PROVE TypeOK'
    BY <1>12 DEF DeadlockVictim, Deadlocked, Unlocked, Discard, TypeOK, dbVars, workerVars, Agent, Goto, InRun, InTransaction, Steps, Ended
<1>13. ASSUME NEW w \in Workers, CompleteRun(w) PROVE TypeOK'
    BY <1>13 DEF CompleteRun, EndsRunning, Leave, Discard, TypeOK, dbVars, workerVars, Agent, Goto, InRun, InTransaction, Steps, Ended
<1>14. ASSUME NEW w \in Workers, FailRun(w) PROVE TypeOK'
    BY <1>14 DEF FailRun, EndsRunning, Leave, Discard, TypeOK, dbVars, workerVars, Agent, Goto, InRun, InTransaction, Steps, Ended
<1>15. ASSUME NEW w \in Workers, Crash(w) PROVE TypeOK'
    BY <1>15 DEF Crash, Unlocked, Leave, Discard, TypeOK, dbVars, workerVars, Agent, Goto, InRun, InTransaction, Steps, Ended
<1>16. ASSUME NEW w \in Workers, NEW k \in Clusters, LockCluster(w, k) PROVE TypeOK'
    BY <1>16 DEF LockCluster, LockFree, TypeOK, dbVars, workerVars, Agent, Goto, InRun, InTransaction, Steps, Ended
<1>17. ASSUME NEW w \in Workers, NEW k \in Clusters, MakeFinding(w, k) PROVE TypeOK'
    BY <1>17 DEF MakeFinding, TypeOK, dbVars, workerVars, Agent, Goto, InRun, InTransaction, Steps, Ended
<1>18. CASE UNCHANGED vars
    BY <1>18 DEF vars, TypeOK, dbVars, workerVars, Agent, Goto, InRun, InTransaction, Steps, Ended
<1> QED
    BY <1>1, <1>2, <1>3, <1>4, <1>5, <1>6, <1>7, <1>8, <1>9, <1>10, <1>11, <1>12, <1>13, <1>14, <1>15, <1>16, <1>17, <1>18 DEF Next, Step

(* A run is claimed once, and its transaction commits at most once. *)
LEMMA RunStep ==
    ASSUME TypeOK, RunInv, [Next]_vars
    PROVE  RunInv'
<1>1. CASE Tick
    BY <1>1 DEF Tick, TypeOK, dbVars, workerVars, Agent, Goto, InRun, InTransaction, Steps, Ended, RunInv, AppliedAtMostOnce, Claimed
<1>2. ASSUME NEW c \in Claims, ClaimArrives(c) PROVE RunInv'
    BY <1>2 DEF ClaimArrives, TypeOK, dbVars, workerVars, Agent, Goto, InRun, InTransaction, Steps, Ended, RunInv, AppliedAtMostOnce, Claimed
<1>3. ASSUME NEW w \in Workers, NEW r \in Runs, Receive(w, r) PROVE RunInv'
    BY <1>3 DEF Receive, TypeOK, dbVars, workerVars, Agent, Goto, InRun, InTransaction, Steps, Ended, RunInv, AppliedAtMostOnce, Claimed
<1>4. ASSUME NEW w \in Workers, ExpireStale(w) PROVE RunInv'
    BY <1>4 DEF ExpireStale, Stale, TypeOK, dbVars, workerVars, Agent, Goto, InRun, InTransaction, Steps, Ended, RunInv, AppliedAtMostOnce, Claimed
<1>5. ASSUME NEW w \in Workers, InsertRun(w) PROVE RunInv'
    BY <1>5 DEF InsertRun, Claimable, TypeOK, dbVars, workerVars, Agent, Goto, InRun, InTransaction, Steps, Ended, RunInv, AppliedAtMostOnce, Claimed
<1>6. ASSUME NEW w \in Workers, Refuse(w) PROVE RunInv'
    BY <1>6 DEF Refuse, Leave, Discard, TypeOK, dbVars, workerVars, Agent, Goto, InRun, InTransaction, Steps, Ended, RunInv, AppliedAtMostOnce, Claimed
<1>7. ASSUME NEW w \in Workers, LoadAgent(w) PROVE RunInv'
    BY <1>7 DEF LoadAgent, TypeOK, dbVars, workerVars, Agent, Goto, InRun, InTransaction, Steps, Ended, RunInv, AppliedAtMostOnce, Claimed
<1>8. ASSUME NEW w \in Workers, Gather(w) PROVE RunInv'
    BY <1>8 DEF Gather, Newest, TypeOK, dbVars, workerVars, Agent, Goto, InRun, InTransaction, Steps, Ended, RunInv, AppliedAtMostOnce, Claimed
<1>9. ASSUME NEW w \in Workers, Begin(w) PROVE RunInv'
    BY <1>9 DEF Begin, TypeOK, dbVars, workerVars, Agent, Goto, InRun, InTransaction, Steps, Ended, RunInv, AppliedAtMostOnce, Claimed
<1>10. ASSUME NEW w \in Workers, Commit(w) PROVE RunInv'
    BY <1>10 DEF Commit, Unlocked, Discard, TypeOK, dbVars, workerVars, Agent, Goto, InRun, InTransaction, Steps, Ended, RunInv, AppliedAtMostOnce, Claimed
<1>11. ASSUME NEW w \in Workers, StageFails(w) PROVE RunInv'
    BY <1>11 DEF StageFails, RolledBack, Unlocked, Discard, TypeOK, dbVars, workerVars, Agent, Goto, InRun, InTransaction, Steps, Ended, RunInv, AppliedAtMostOnce, Claimed
<1>12. ASSUME NEW w \in Workers, DeadlockVictim(w) PROVE RunInv'
    BY <1>12 DEF DeadlockVictim, Deadlocked, Unlocked, Discard, TypeOK, dbVars, workerVars, Agent, Goto, InRun, InTransaction, Steps, Ended, RunInv, AppliedAtMostOnce, Claimed
<1>13. ASSUME NEW w \in Workers, CompleteRun(w) PROVE RunInv'
  <2>1. CASE EndsRunning(w)
    BY <1>13, <2>1 DEF CompleteRun, EndsRunning, Leave, TypeOK, Goto, InRun, Steps, RunInv, AppliedAtMostOnce, Claimed
  <2>2. CASE ~EndsRunning(w)
    BY <1>13, <2>2 DEF CompleteRun, workerVars, TypeOK, Goto, InRun, Steps, RunInv, AppliedAtMostOnce, Claimed
  <2> QED BY <2>1, <2>2
<1>14. ASSUME NEW w \in Workers, FailRun(w) PROVE RunInv'
    BY <1>14 DEF FailRun, EndsRunning, Leave, Discard, TypeOK, dbVars, workerVars, Agent, Goto, InRun, InTransaction, Steps, Ended, RunInv, AppliedAtMostOnce, Claimed
<1>15. ASSUME NEW w \in Workers, Crash(w) PROVE RunInv'
    BY <1>15 DEF Crash, Unlocked, Leave, Discard, TypeOK, dbVars, workerVars, Agent, Goto, InRun, InTransaction, Steps, Ended, RunInv, AppliedAtMostOnce, Claimed
<1>16. ASSUME NEW w \in Workers, NEW k \in Clusters, LockCluster(w, k) PROVE RunInv'
    BY <1>16 DEF LockCluster, LockFree, TypeOK, dbVars, workerVars, Agent, Goto, InRun, InTransaction, Steps, Ended, RunInv, AppliedAtMostOnce, Claimed
<1>17. ASSUME NEW w \in Workers, NEW k \in Clusters, MakeFinding(w, k) PROVE RunInv'
    BY <1>17 DEF MakeFinding, TypeOK, dbVars, workerVars, Agent, Goto, InRun, InTransaction, Steps, Ended, RunInv, AppliedAtMostOnce, Claimed
<1>18. CASE UNCHANGED vars
    BY <1>18 DEF vars, TypeOK, dbVars, workerVars, Agent, Goto, InRun, InTransaction, Steps, Ended, RunInv, AppliedAtMostOnce, Claimed
<1> QED
    BY <1>1, <1>2, <1>3, <1>4, <1>5, <1>6, <1>7, <1>8, <1>9, <1>10, <1>11, <1>12, <1>13, <1>14, <1>15, <1>16, <1>17, <1>18 DEF Next, Step

(* The lease of a run protects it from the other runs of its agent. *)
LEMMA LeaseStep ==
    ASSUME TypeOK, RunInv, LeaseInv, [Next]_vars
    PROVE  LeaseInv'
<1>1. CASE Tick
    BY <1>1 DEF Tick, TypeOK, dbVars, workerVars, Agent, Goto, InRun, InTransaction, Steps, Ended, LeaseInv, RunInv, Claimed
<1>2. ASSUME NEW c \in Claims, ClaimArrives(c) PROVE LeaseInv'
    BY <1>2 DEF ClaimArrives, TypeOK, dbVars, workerVars, Agent, Goto, InRun, InTransaction, Steps, Ended, LeaseInv, RunInv, Claimed
<1>3. ASSUME NEW w \in Workers, NEW r \in Runs, Receive(w, r) PROVE LeaseInv'
    BY <1>3 DEF Receive, TypeOK, dbVars, workerVars, Agent, Goto, InRun, InTransaction, Steps, Ended, LeaseInv, RunInv, Claimed
<1>4. ASSUME NEW w \in Workers, ExpireStale(w) PROVE LeaseInv'
    BY <1>4 DEF ExpireStale, Stale, TypeOK, dbVars, workerVars, Agent, Goto, InRun, InTransaction, Steps, Ended, LeaseInv, RunInv, Claimed
<1>5. ASSUME NEW w \in Workers, InsertRun(w) PROVE LeaseInv'
    BY <1>5 DEF InsertRun, Claimable, TypeOK, dbVars, workerVars, Agent, Goto, InRun, InTransaction, Steps, Ended, LeaseInv, RunInv, Claimed
<1>6. ASSUME NEW w \in Workers, Refuse(w) PROVE LeaseInv'
    BY <1>6 DEF Refuse, Leave, Discard, TypeOK, dbVars, workerVars, Agent, Goto, InRun, InTransaction, Steps, Ended, LeaseInv, RunInv, Claimed
<1>7. ASSUME NEW w \in Workers, LoadAgent(w) PROVE LeaseInv'
    BY <1>7 DEF LoadAgent, TypeOK, dbVars, workerVars, Agent, Goto, InRun, InTransaction, Steps, Ended, LeaseInv, RunInv, Claimed
<1>8. ASSUME NEW w \in Workers, Gather(w) PROVE LeaseInv'
    BY <1>8 DEF Gather, Newest, TypeOK, dbVars, workerVars, Agent, Goto, InRun, InTransaction, Steps, Ended, LeaseInv, RunInv, Claimed
<1>9. ASSUME NEW w \in Workers, Begin(w) PROVE LeaseInv'
    BY <1>9 DEF Begin, TypeOK, dbVars, workerVars, Agent, Goto, InRun, InTransaction, Steps, Ended, LeaseInv, RunInv, Claimed
<1>10. ASSUME NEW w \in Workers, Commit(w) PROVE LeaseInv'
    BY <1>10 DEF Commit, Unlocked, Discard, TypeOK, dbVars, workerVars, Agent, Goto, InRun, InTransaction, Steps, Ended, LeaseInv, RunInv, Claimed
<1>11. ASSUME NEW w \in Workers, StageFails(w) PROVE LeaseInv'
    BY <1>11 DEF StageFails, RolledBack, Unlocked, Discard, TypeOK, dbVars, workerVars, Agent, Goto, InRun, InTransaction, Steps, Ended, LeaseInv, RunInv, Claimed
<1>12. ASSUME NEW w \in Workers, DeadlockVictim(w) PROVE LeaseInv'
    BY <1>12 DEF DeadlockVictim, Deadlocked, Unlocked, Discard, TypeOK, dbVars, workerVars, Agent, Goto, InRun, InTransaction, Steps, Ended, LeaseInv, RunInv, Claimed
<1>13. ASSUME NEW w \in Workers, CompleteRun(w) PROVE LeaseInv'
    BY <1>13 DEF CompleteRun, EndsRunning, Leave, Discard, TypeOK, dbVars, workerVars, Agent, Goto, InRun, InTransaction, Steps, Ended, LeaseInv, RunInv, Claimed
<1>14. ASSUME NEW w \in Workers, FailRun(w) PROVE LeaseInv'
    BY <1>14 DEF FailRun, EndsRunning, Leave, Discard, TypeOK, dbVars, workerVars, Agent, Goto, InRun, InTransaction, Steps, Ended, LeaseInv, RunInv, Claimed
<1>15. ASSUME NEW w \in Workers, Crash(w) PROVE LeaseInv'
    BY <1>15 DEF Crash, Unlocked, Leave, Discard, TypeOK, dbVars, workerVars, Agent, Goto, InRun, InTransaction, Steps, Ended, LeaseInv, RunInv, Claimed
<1>16. ASSUME NEW w \in Workers, NEW k \in Clusters, LockCluster(w, k) PROVE LeaseInv'
    BY <1>16 DEF LockCluster, LockFree, TypeOK, dbVars, workerVars, Agent, Goto, InRun, InTransaction, Steps, Ended, LeaseInv, RunInv, Claimed
<1>17. ASSUME NEW w \in Workers, NEW k \in Clusters, MakeFinding(w, k) PROVE LeaseInv'
    BY <1>17 DEF MakeFinding, TypeOK, dbVars, workerVars, Agent, Goto, InRun, InTransaction, Steps, Ended, LeaseInv, RunInv, Claimed
<1>18. CASE UNCHANGED vars
    BY <1>18 DEF vars, TypeOK, dbVars, workerVars, Agent, Goto, InRun, InTransaction, Steps, Ended, LeaseInv, RunInv, Claimed
<1> QED
    BY <1>1, <1>2, <1>3, <1>4, <1>5, <1>6, <1>7, <1>8, <1>9, <1>10, <1>11, <1>12, <1>13, <1>14, <1>15, <1>16, <1>17, <1>18 DEF Next, Step

(* A finding is inserted under the lock of its cluster, and committed before  *)
(* that lock is released.                                                  *)
LEMMA LockStep ==
    ASSUME TypeOK, LockInv, [Next]_vars
    PROVE  LockInv'
<1>1. CASE Tick
    BY <1>1 DEF Tick, dbVars, workerVars, TypeOK, Goto, InRun, InTransaction, Steps, LockInv, OneFindingPerCluster, HasFinding, IsNextCluster, Agent
<1>2. ASSUME NEW c \in Claims, ClaimArrives(c) PROVE LockInv'
    BY <1>2 DEF ClaimArrives, dbVars, workerVars, TypeOK, Goto, InRun, InTransaction, Steps, LockInv, OneFindingPerCluster, HasFinding, IsNextCluster, Agent
<1>3. ASSUME NEW w \in Workers, NEW r \in Runs, Receive(w, r) PROVE LockInv'
    BY <1>3 DEF Receive, dbVars, TypeOK, Goto, InRun, InTransaction, Steps, LockInv, OneFindingPerCluster, HasFinding, IsNextCluster, Agent
<1>4. ASSUME NEW w \in Workers, ExpireStale(w) PROVE LockInv'
    BY <1>4 DEF ExpireStale, workerVars, TypeOK, Goto, InRun, InTransaction, Steps, LockInv, OneFindingPerCluster, HasFinding, IsNextCluster, Agent
<1>5. ASSUME NEW w \in Workers, InsertRun(w) PROVE LockInv'
  <2>1. made[w] = {} /\ made'[w] = {} /\ pc'[w] # "find" /\ \A v \in Workers \ {w} : pc'[v] = pc[v]
    BY <1>5 DEF InsertRun, workerVars, TypeOK, Goto, LockInv, InTransaction
  <2> QED
    BY <1>5, <2>1 DEF InsertRun, workerVars, TypeOK, LockInv, OneFindingPerCluster, HasFinding, IsNextCluster, Agent
<1>6. ASSUME NEW w \in Workers, Refuse(w) PROVE LockInv'
    BY <1>6 DEF Refuse, Leave, Discard, dbVars, TypeOK, Goto, InRun, InTransaction, Steps, LockInv, OneFindingPerCluster, HasFinding, IsNextCluster, Agent
<1>7. ASSUME NEW w \in Workers, LoadAgent(w) PROVE LockInv'
    BY <1>7 DEF LoadAgent, dbVars, TypeOK, Goto, InRun, InTransaction, Steps, LockInv, OneFindingPerCluster, HasFinding, IsNextCluster, Agent
<1>8. ASSUME NEW w \in Workers, Gather(w) PROVE LockInv'
    BY <1>8 DEF Gather, dbVars, TypeOK, Goto, InRun, InTransaction, Steps, LockInv, OneFindingPerCluster, HasFinding, IsNextCluster, Agent
<1>9. ASSUME NEW w \in Workers, Begin(w) PROVE LockInv'
  <2>1. made[w] = {} /\ made'[w] = {} /\ pc'[w] # "find"
    BY <1>9 DEF Begin, TypeOK, Goto, LockInv, InTransaction
  <2>2. \A v \in Workers \ {w} : pc'[v] = pc[v] /\ made'[v] = made[v] /\ todo'[v] = todo[v]
    BY <1>9 DEF Begin, TypeOK, Goto
  <2>3. UNCHANGED <<findings, lockedBy, run, batch>>
    BY <1>9 DEF Begin, dbVars
  <2> QED
    BY <2>1, <2>2, <2>3 DEF LockInv, OneFindingPerCluster, HasFinding, IsNextCluster, Agent
<1>10. ASSUME NEW w \in Workers, NEW k \in Clusters, LockCluster(w, k) PROVE LockInv'
  <2>1. \A v \in Workers : \A j \in made'[v] :
          pc'[v] \in InTransaction /\ lockedBy'[j] = v /\ ~HasFinding(v, j)'
    BY <1>10 DEF LockCluster, LockFree, dbVars, workerVars, TypeOK, Goto, Steps, InTransaction, LockInv, HasFinding, Agent
  <2>2. ASSUME NEW v \in Workers, NEW j \in Clusters, pc'[v] = "find", IsNextCluster(v, j)'
        PROVE  lockedBy'[j] = v
    <3>1. IsNextCluster(v, j)
      BY <1>10, <2>2 DEF LockCluster, workerVars, IsNextCluster
    <3>2. CASE v = w
      <4>1. j = k
        BY <1>10, <3>1, <3>2, NextClusterUnique DEF LockCluster
      <4> QED BY <1>10, <3>2, <4>1 DEF LockCluster, TypeOK
    <3>3. CASE v # w
      <4>1. pc[v] = "find" /\ lockedBy[j] = v
        BY <1>10, <2>2, <3>1, <3>3 DEF LockCluster, Goto, TypeOK, LockInv
      <4>2. j # k
        BY <1>10, <4>1 DEF LockCluster, LockFree
      <4> QED BY <1>10, <4>1, <4>2 DEF LockCluster, TypeOK
    <3> QED BY <3>2, <3>3
  <2>3. OneFindingPerCluster'
    BY <1>10 DEF LockCluster, dbVars, LockInv, OneFindingPerCluster
  <2> QED BY <2>1, <2>2, <2>3 DEF LockInv
<1>11. ASSUME NEW w \in Workers, NEW k \in Clusters, MakeFinding(w, k) PROVE LockInv'
  <2>1. lockedBy[k] = w /\ k \in todo[w]
    BY <1>11 DEF MakeFinding, LockInv, IsNextCluster
  <2>2. pc'[w] \in {"lock", "commit"} /\ \A v \in Workers \ {w} : pc'[v] = pc[v]
    BY <1>11 DEF MakeFinding, Goto, TypeOK
  <2>3. \A v \in Workers, j \in Clusters : HasFinding(v, j)' = HasFinding(v, j)
    BY <1>11 DEF MakeFinding, HasFinding, Agent, dbVars
  <2>4. \A v \in Workers : made'[v] # made[v] => v = w /\ made'[w] = made[w] \cup {k} /\ ~HasFinding(w, k)
    BY <1>11 DEF MakeFinding, TypeOK
  <2>5. \A v \in Workers : \A j \in made'[v] :
          pc'[v] \in InTransaction /\ lockedBy'[j] = v /\ ~HasFinding(v, j)'
    BY <1>11, <2>1, <2>2, <2>3, <2>4 DEF MakeFinding, TypeOK, InTransaction, LockInv
  <2>6. \A v \in Workers, j \in Clusters :
          pc'[v] = "find" /\ IsNextCluster(v, j)' => lockedBy'[j] = v
    BY <1>11, <2>2 DEF MakeFinding, TypeOK, LockInv, IsNextCluster
  <2>7. OneFindingPerCluster'
    BY <1>11 DEF MakeFinding, dbVars, LockInv, OneFindingPerCluster
  <2> QED BY <2>5, <2>6, <2>7 DEF LockInv
<1>12. ASSUME NEW w \in Workers, Commit(w) PROVE LockInv'
  <2> DEFINE new == {[run |-> run[w], agent |-> Agent(w), cluster |-> k] : k \in made[w]}
  <2>1. findings' = findings \cup new /\ lockedBy' = Unlocked(w) /\ run' = run
    BY <1>12 DEF Commit
  <2>2. pc'[w] \in {"complete", "fail"} /\ \A v \in Workers \ {w} : pc'[v] = pc[v]
    BY <1>12 DEF Commit, Goto, TypeOK
  <2>3. /\ made'[w] = {} /\ todo'[w] = {}
        /\ \A v \in Workers \ {w} : made'[v] = made[v] /\ todo'[v] = todo[v] /\ batch'[v] = batch[v]
    BY <1>12 DEF Commit, Discard, TypeOK
  <2>4. ASSUME NEW v \in Workers, NEW j \in made'[v]
        PROVE  pc'[v] \in InTransaction /\ lockedBy'[j] = v /\ ~HasFinding(v, j)'
    <3>1. v # w /\ j \in made[v] /\ j \in Clusters
      BY <2>3, <2>4 DEF TypeOK
    <3>2. pc[v] \in InTransaction /\ lockedBy[j] = v /\ ~HasFinding(v, j)
      BY <3>1 DEF LockInv
    <3>3. j \notin made[w]
      BY <3>1, <3>2 DEF LockInv
    <3>4. ~HasFinding(v, j)'
      BY <2>1, <3>2, <3>3 DEF HasFinding, Agent
    <3>5. lockedBy'[j] = v
      BY <2>1, <3>1, <3>2 DEF Unlocked
    <3> QED BY <2>2, <3>1, <3>2, <3>4, <3>5
  <2>5. ASSUME NEW v \in Workers, NEW j \in Clusters, pc'[v] = "find", IsNextCluster(v, j)'
        PROVE  lockedBy'[j] = v
    <3>1. v # w /\ pc[v] = "find" /\ IsNextCluster(v, j)
      BY <2>2, <2>3, <2>5 DEF IsNextCluster
    <3> QED BY <2>1, <3>1 DEF LockInv, Unlocked
  <2>6. OneFindingPerCluster'
    <3>1. ASSUME NEW f \in findings, NEW g \in new, f.agent = g.agent, f.cluster = g.cluster
          PROVE  FALSE
      BY <3>1 DEF LockInv, HasFinding
    <3>2. \A f, g \in new : f.cluster = g.cluster => f = g
      OBVIOUS
    <3> QED BY <2>1, <3>1, <3>2 DEF OneFindingPerCluster, LockInv
  <2> QED BY <2>4, <2>5, <2>6 DEF LockInv
<1>13. ASSUME NEW w \in Workers, StageFails(w) PROVE LockInv'
    BY <1>13 DEF StageFails, RolledBack, Unlocked, Discard, dbVars, TypeOK, Goto, InRun, InTransaction, Steps, LockInv, OneFindingPerCluster, HasFinding, IsNextCluster, Agent
<1>14. ASSUME NEW w \in Workers, DeadlockVictim(w) PROVE LockInv'
    BY <1>14 DEF DeadlockVictim, Unlocked, Discard, dbVars, TypeOK, Goto, InRun, InTransaction, Steps, LockInv, OneFindingPerCluster, HasFinding, IsNextCluster, Agent
<1>15. ASSUME NEW w \in Workers, CompleteRun(w) PROVE LockInv'
    BY <1>15 DEF CompleteRun, Leave, Discard, workerVars, TypeOK, Goto, InRun, InTransaction, Steps, LockInv, OneFindingPerCluster, HasFinding, IsNextCluster, Agent
<1>16. ASSUME NEW w \in Workers, FailRun(w) PROVE LockInv'
    BY <1>16 DEF FailRun, Leave, Discard, TypeOK, Goto, InRun, InTransaction, Steps, LockInv, OneFindingPerCluster, HasFinding, IsNextCluster, Agent
<1>17. ASSUME NEW w \in Workers, Crash(w) PROVE LockInv'
    BY <1>17 DEF Crash, Unlocked, Leave, Discard, dbVars, TypeOK, Goto, InRun, InTransaction, Steps, LockInv, OneFindingPerCluster, HasFinding, IsNextCluster, Agent
<1>18. CASE UNCHANGED vars
    BY <1>18 DEF vars, dbVars, workerVars, TypeOK, Goto, InRun, InTransaction, Steps, LockInv, OneFindingPerCluster, HasFinding, IsNextCluster, Agent
<1> QED
    BY <1>1, <1>2, <1>3, <1>4, <1>5, <1>6, <1>7, <1>8, <1>9, <1>10, <1>11, <1>12, <1>13, <1>14, <1>15, <1>16, <1>17, <1>18 DEF Next, Step

-----------------------------------------------------------------------------
(* The invariant holds in every behaviour.                                 *)
THEOREM Invariance == Spec => []Inv
<1>1. Inv /\ [Next]_vars => Inv'
    BY TypeStep, RunStep, LeaseStep, LockStep DEF Inv
<1> QED BY InitInv, <1>1, PTL DEF Spec

(* Tables and workers keep their types, and only open transactions of the  *)
(* agent loop hold row locks of clusters.                                  *)
THEOREM TypeCorrect == Spec => []TypeOK
BY Invariance, PTL DEF Inv

(* A run that is delivered many times, retried or overtaken commits its    *)
(* side effects once at most, and has if it is recorded as completed.      *)
THEOREM AppliedOnce == Spec => []AppliedAtMostOnce
<1>1. Inv => AppliedAtMostOnce
    BY DEF Inv, RunInv
<1> QED BY Invariance, <1>1, PTL

(* The row lock taken by upsertClaimCluster makes the test for an existing *)
(* finding and the insertion one step for the other workers of the agent.  *)
THEOREM FindingsUnique == Spec => []OneFindingPerCluster
<1>1. Inv => OneFindingPerCluster
    BY DEF Inv, LockInv
<1> QED BY Invariance, <1>1, PTL

(* The unique index on running rows and the lease keep two workers from    *)
(* running one agent at the same time.                                     *)
THEOREM LeaseExclusive == Spec => []NoOverlapWithinLease
<1>1. ASSUME Inv PROVE NoOverlapWithinLease
  <2>1. SUFFICES ASSUME NEW w \in Workers, NEW v \in Workers, pc[w] \in InRun, pc[v] \in InRun,
                        Agent(w) = Agent(v), ~(lease[w] <= clock), ~(lease[v] <= clock)
                 PROVE  w = v
    BY DEF NoOverlapWithinLease
  <2>2. lease[w] > clock /\ lease[v] > clock
    BY <1>1, <2>1 DEF Inv, TypeOK
  <2>3. run[w] \in Runs /\ run[v] \in Runs
    BY <1>1, <2>1 DEF Inv, TypeOK, InRun
  <2>4. run[w] = run[v]
    BY <1>1, <2>1, <2>2, <2>3 DEF Inv, LeaseInv, Agent
  <2> QED BY <1>1, <2>1, <2>4 DEF Inv, RunInv, Claimed
<1> QED BY Invariance, <1>1, PTL

(* completeAgentRun, failAgentRun and expireStaleAgentRuns update running  *)
(* rows only: an outcome once recorded is never changed.                   *)
THEOREM EndedRunsKeepOutcome == Spec => EndedRunsStay
<1>1. ASSUME TypeOK, [Next]_vars
      PROVE  [\A r \in Runs : status[r] \in Ended => status'[r] = status[r]]_vars
  <2>1. SUFFICES ASSUME NEW r \in Runs, status[r] \in Ended, Next PROVE status'[r] = status[r]
    BY <1>1
  <2>2. CASE \E w \in Workers : ExpireStale(w)
    BY <2>1, <2>2 DEF ExpireStale, Stale, Ended
  <2>3. CASE \E w \in Workers : InsertRun(w)
    BY <1>1, <2>1, <2>3 DEF InsertRun, Claimable, TypeOK, Ended
  <2>4. CASE \E w \in Workers : CompleteRun(w) \/ FailRun(w)
    BY <1>1, <2>1, <2>4 DEF CompleteRun, FailRun, EndsRunning, TypeOK, Ended
  <2>5. CASE UNCHANGED status
    BY <2>5
  <2> QED BY <2>1, <2>2, <2>3, <2>4, <2>5 DEF Next, Step, Tick, ClaimArrives, Receive, Refuse, LoadAgent,
        Gather, Begin, LockCluster, MakeFinding, Commit, StageFails, DeadlockVictim, Crash, dbVars
<1> QED BY Invariance, <1>1, PTL DEF Spec, EndedRunsStay, Inv
=============================================================================
