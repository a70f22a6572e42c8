---------------------------- MODULE ClaimClusters -----------------------------
(***************************************************************************)
(* Claims that say the same gather in a cluster                            *)
(* (services/evidence/src/claim-cluster-repo.ts): the transaction of an    *)
(* agent run (dev-api/src/local-runtime.ts) groups its claims by their     *)
(* canonical signature, and for each group upserts the cluster and adds    *)
(* the claims as members, while other agents' runs do the same.            *)
(*                                                                         *)
(* A statement of Postgres at READ COMMITTED looks at a snapshot of the    *)
(* rows, waits for the row locks, and then updates the newest row: a look  *)
(* and a write are two steps.  A transaction's writes stand at once and    *)
(* are taken back when it aborts; the locks keep others from them.  The    *)
(* aggregate confidence is kept as the sum that it is the average of.      *)
(***************************************************************************)
EXTENDS Integers, FiniteSets, Sequences, SequencesExt, FiniteSetsExt

CONSTANTS
    ClusterRuns,     \* runs that write clusters, each in one transaction
    EvidenceClaims,  \* the claims: signature, relation and confidence
    Batches          \* what a run may have read: sequences of claims

ASSUME ClusterConstants ==
    /\ \A c \in DOMAIN EvidenceClaims : EvidenceClaims[c].confidence \in Nat
    /\ Batches \subseteq Seq(DOMAIN EvidenceClaims) \ {<<>>}

VARIABLES
    clusterRows,     \* rows of claim_clusters, by signature
    memberRows,      \* rows of claim_cluster_members
    removed,         \* claims that are deleted
    cascaded,        \* members deleted with their claim
    writing          \* what the transaction of a run does, holds and can undo

clusterVars == <<clusterRows, memberRows, removed, cascaded, writing>>

Signatures == {EvidenceClaims[c].signature : c \in DOMAIN EvidenceClaims}

(* A row of claim_clusters; without one, exists is FALSE.                  *)
NoCluster == [exists |-> FALSE, support |-> 0, contradict |-> 0, sum |-> 0, first |-> 0, last |-> 0]
MemberOf(c) == [cluster |-> EvidenceClaims[c].signature, claim |-> c,
                relation |-> EvidenceClaims[c].relation]

NoTransaction == [at |-> "idle", left |-> <<>>, seenAt |-> 0, held |-> {}, saved |-> {},
                  looked |-> {}, was |-> {}, mine |-> {}]

ClustersInit ==
    /\ clusterRows = [k \in Signatures |-> NoCluster]
    /\ memberRows = {} /\ removed = {} /\ cascaded = {}
    /\ writing = [r \in ClusterRuns |-> NoTransaction]

Claim1(r) == Head(writing[r].left)
Cluster1(r) == EvidenceClaims[Claim1(r)].signature

(* The groups in the order of their first claim, each in its own order.    *)
FirstLike(batch, i) ==
    Min({j \in DOMAIN batch : EvidenceClaims[batch[i]].signature = EvidenceClaims[batch[j]].signature})
PlacedBefore(batch, i) ==
    {j \in DOMAIN batch : \/ FirstLike(batch, j) < FirstLike(batch, i)
                          \/ FirstLike(batch, j) = FirstLike(batch, i) /\ j < i}
Grouped(batch) ==
    [n \in DOMAIN batch |-> batch[CHOOSE i \in DOMAIN batch : Cardinality(PlacedBefore(batch, i)) = n - 1]]

BeginClusters(r) ==
    /\ writing[r].at = "idle"
    /\ \E batch \in Batches, t \in 1..2 :
         writing' = [writing EXCEPT ![r] = [NoTransaction EXCEPT
                        !.at = "upsert", !.seenAt = t, !.left = Grouped(batch)]]
    /\ UNCHANGED <<clusterRows, memberRows, removed, cascaded>>

RowFree(r, k) == \A other \in ClusterRuns \ {r} : k \notin writing[other].held

(* The locks r holds after a statement on the row of k: until it commits.  *)
HeldBriefly(r, k) == writing[r].held         \* a bug: no transaction around the statements
HeldToCommit(r, k) == writing[r].held \cup {k}

Save(r, k) == IF k \in writing[r].held THEN writing[r].saved
              ELSE writing[r].saved \cup {<<k, clusterRows[k]>>}

(* A new row, or a wider time in which it was seen.                        *)
SeenAt(row, t) ==
    IF row.exists THEN [row EXCEPT !.first = Min({@, t}), !.last = Max({@, t})]
    ELSE [NoCluster EXCEPT !.exists = TRUE, !.first = t, !.last = t]

(* upsertClaimCluster.                                                     *)
UpsertCluster(r) ==
    LET k == Cluster1(r)
    IN /\ writing[r].at = "upsert"
       /\ RowFree(r, k)
       /\ clusterRows' = [clusterRows EXCEPT ![k] = SeenAt(@, writing[r].seenAt)]
       /\ writing' = [writing EXCEPT ![r].at = "look", ![r].saved = Save(r, k),
                                     ![r].held = HeldToCommit(r, k)]
       /\ UNCHANGED <<memberRows, removed, cascaded>>

(* addClaimClusterMember: the statement's snapshot has the claim's present *)
(* membership.                                                             *)
LookForMember(r) ==
    /\ writing[r].at = "look"
    /\ writing' = [writing EXCEPT ![r].at = "add", ![r].looked =
          {m \in memberRows : m.cluster = Cluster1(r) /\ m.claim = Claim1(r)}]
    /\ UNCHANGED <<clusterRows, memberRows, removed, cascaded>>

(* By how much the members of a relation become more.                      *)
Delta(old, new, relation) ==
    (IF new.relation = relation THEN 1 ELSE 0)
    - Cardinality({m \in old : m.relation = relation})

(* ... and once it has the lock, the member is inserted or changed, and    *)
(* the counts follow.                                                      *)
AddMember(r) ==
    LET k == Cluster1(r)
        c == Claim1(r)
        old == writing[r].looked
        new == MemberOf(c)
        there == {m \in memberRows : m.cluster = k /\ m.claim = c}
        left == Tail(writing[r].left)
    IN /\ writing[r].at = "add"
       /\ RowFree(r, k)
       /\ c \notin removed
       /\ memberRows' = (memberRows \ there) \cup {new}
       /\ clusterRows' = [clusterRows EXCEPT
            ![k].support = @ + Delta(old, new, "support"),
            ![k].contradict = @ + Delta(old, new, "contradict"),
            ![k].sum = @ + (IF old = {} THEN EvidenceClaims[c].confidence ELSE 0)]
       /\ writing' = [writing EXCEPT
            ![r].left = left, ![r].looked = {},
            ![r].was = @ \cup (there \ writing[r].mine), ![r].mine = @ \cup {new},
            ![r].at = IF left = <<>> THEN "commit"
                      ELSE IF EvidenceClaims[Head(left)].signature = k THEN "look" ELSE "upsert"]
       /\ UNCHANGED <<removed, cascaded>>

CommitClusters(r) ==
    /\ writing[r].at = "commit"
    /\ writing' = [writing EXCEPT ![r] = NoTransaction]
    /\ UNCHANGED <<clusterRows, memberRows, removed, cascaded>>

(* A statement fails, for a claim that is gone or a deadlock, or the run   *)
(* dies: the transaction is rolled back.                                   *)
AbortClusters(r) ==
    /\ writing[r].at # "idle"
    /\ clusterRows' = [k \in Signatures |->
          IF k \in writing[r].held THEN (CHOOSE s \in writing[r].saved : s[1] = k)[2] ELSE clusterRows[k]]
    /\ memberRows' = (memberRows \ writing[r].mine) \cup writing[r].was
    /\ writing' = [writing EXCEPT ![r] = NoTransaction]
    /\ UNCHANGED <<removed, cascaded>>

(* The owner of a claim's document is erased: its memberships go with it,  *)
(* and the clusters' counts stay.                                          *)
RemoveClaim(c) ==
    /\ c \notin removed
    /\ \A r \in ClusterRuns : \A m \in writing[r].mine : m.claim # c
    /\ removed' = removed \cup {c}
    /\ cascaded' = cascaded \cup {m \in memberRows : m.claim = c}
    /\ memberRows' = {m \in memberRows : m.claim # c}
    /\ UNCHANGED <<clusterRows, writing>>

ClustersNext ==
    \/ \E r \in ClusterRuns :
         BeginClusters(r) \/ UpsertCluster(r) \/ LookForMember(r) \/ AddMember(r)
         \/ CommitClusters(r) \/ AbortClusters(r)
    \/ \E c \in DOMAIN EvidenceClaims : RemoveClaim(c)

ClustersSpec == ClustersInit /\ [][ClustersNext]_clusterVars

ClustersTypeOK ==
    /\ clusterRows \in [Signatures -> [exists : BOOLEAN, support : Nat, contradict : Nat,
                                       sum : Nat, first : Nat, last : Nat]]
    /\ removed \subseteq DOMAIN EvidenceClaims
    /\ memberRows \cup cascaded \subseteq {MemberOf(c) : c \in DOMAIN EvidenceClaims}
    /\ \A r \in ClusterRuns :
         /\ writing[r].at \in {"idle", "upsert", "look", "add", "commit"}
         /\ {s[1] : s \in writing[r].saved} = writing[r].held

(* The confidence of some members: each stands once for each unit of its   *)
(* own, and Confidence is how many that are.                               *)
Units(members) == UNION {{m} \X (1..EvidenceClaims[m.claim].confidence) : m \in members}
Confidence(members) == Cardinality(Units(members))

(* What the row of k tells of some members.                                *)
Gathered(members, k) == {m \in members : m.cluster = k}
Related(members, k, relation) == {m \in members : m.cluster = k /\ m.relation = relation}
RowTells(row, members, k) ==
    /\ row.support = Cardinality(Related(members, k, "support"))
    /\ row.contradict = Cardinality(Related(members, k, "contradict"))
    /\ row.sum = Confidence(Gathered(members, k))

(* The counts and the confidence a cluster tells are those of its members: *)
(* whatever order runs add the same claims in, and however they end, none  *)
(* is counted twice or not at all.  Members that went with an erased claim *)
(* stay counted, for nothing takes them back.                              *)
CountsMatchMembers ==
    \A k \in Signatures :
        /\ RowTells(clusterRows[k], memberRows \cup cascaded, k)
        /\ clusterRows[k].first <= clusterRows[k].last

-------------------------------------------------------------------------------
(* An inferred theme: candidates from the claims of its clusters, applied one by one, *)
(* with a transaction or without (services/themes/src/inferred-membership.ts), and    *)
(* the memberships themselves (theme-repo.ts).                                        *)

CONSTANTS
  ThemeLinks,      \* claim, relation, cluster, confidence, subject, via, direction
  ThemeSpecs,      \* clusters, floor ({} or one), directions ({} for any)
  ThemeRuns,       \* applications of the theme
  InTransaction,   \* those that hold a transaction
  MaxCandidates,   \* DEFAULT_INFERRED_APPLY_MAX_CANDIDATES
  ThemePage,       \* the limit of a page of members
  SubjectRank(_),         \* the order of subjects
  MaxThemeTime, MaxThemeFaults, MaxHandEdits   \* bounds

VARIABLES
  themeSpec,       \* membership_spec
  links,           \* the links there are by now
  memberships,     \* theme_memberships, committed: subject, score, rationale, from, until
  applying,        \* the runs
  themeTime, themeFaults, handEdits   \* clock and counters

themeVars == <<themeSpec, links, memberships, applying, themeTime, themeFaults, handEdits>>

NoApply == [at |-> "idle", todo |-> <<>>, wrote |-> {}, added |-> 0, present |-> 0, found |-> 0]

\* computeInferredThemeCandidates
Qualifies(l, spec) ==
  /\ l.relation = "support" /\ l.cluster \in spec.clusters
  /\ \A f \in spec.floor : l.confidence >= f
  /\ l.via = "impact" /\ spec.directions # {} => l.direction \in spec.directions
RationaleOf(s, spec) == {l.claim : l \in {l \in links : l.subject = s /\ Qualifies(l, spec)}}
InferredCandidates(spec) ==
  LET subjects == {l.subject : l \in {l \in links : Qualifies(l, spec)}}
      Score(s) == Cardinality(RationaleOf(s, spec))
  IN SetToSortSeq({[subject |-> s, score |-> Score(s), rationale |-> RationaleOf(s, spec)] : s \in subjects},
                  LAMBDA a, b : a.score > b.score \/ (a.score = b.score /\ SubjectRank(a.subject) < SubjectRank(b.subject)))

Has(rows, s) == \E m \in rows : m.subject = s
MembershipRow(c, until) ==
  [subject |-> c.subject, score |-> c.score, rationale |-> c.rationale, from |-> themeTime, until |-> until]

\* listMembersByTheme: the active ones by score, one more than fits
ActiveAt(m, t) == m.from <= t /\ \A e \in m.until : e > t
MembersPage(t) ==
  LET active == SetToSortSeq({m \in memberships : ActiveAt(m, t)},
                             LAMBDA a, b : a.score > b.score \/ (a.score = b.score /\ a.from < b.from))
  IN [rows |-> SubSeq(active, 1, Min({ThemePage, Len(active)})), truncated |-> Len(active) > ThemePage]

ThemesInit ==
  /\ themeSpec \in ThemeSpecs /\ links = {} /\ memberships = {}
  /\ applying = [r \in ThemeRuns |-> NoApply]
  /\ themeTime = 0 /\ themeFaults = 0 /\ handEdits = 0

ToApply(r, x) == applying' = [applying EXCEPT ![r] = x]

\* clusters, arguments and impacts are written by others
LinksArrive ==
  /\ links # ThemeLinks
  /\ \E l \in ThemeLinks \ links : links' = links \cup {k \in ThemeLinks : k.claim = l.claim}
  /\ UNCHANGED <<themeSpec, memberships, applying, themeTime, themeFaults, handEdits>>

\* applyInferredThemeMembership: the candidates in one statement, unless they are too many
ComputeCandidates(r) ==
  /\ applying[r].at = "idle"
  /\ LET cs == InferredCandidates(themeSpec)
     IN ToApply(r, [NoApply EXCEPT !.at = IF Len(cs) > MaxCandidates THEN "failed" ELSE "adding",
                                   !.todo = cs, !.found = Len(cs)])
  /\ UNCHANGED <<themeSpec, links, memberships, themeTime, themeFaults, handEdits>>

\* addThemeMembership: waits for a transaction that has written this subject; what is
\* there stays as it is, expired or not
Waits(r, s) == \E q \in ThemeRuns \ {r} : Has(applying[q].wrote, s)
AddCandidate(r) ==
  LET x == applying[r]
      c == x.todo[1]
      row == MembershipRow(c, {})
  IN /\ x.at = "adding" /\ x.todo # <<>> /\ ~Waits(r, c.subject)
     /\ IF Has(memberships \cup x.wrote, c.subject)
        THEN ToApply(r, [x EXCEPT !.at = "conflict"]) /\ UNCHANGED memberships
        ELSE IF r \in InTransaction
        THEN /\ ToApply(r, [x EXCEPT !.wrote = @ \cup {row}, !.added = @ + 1, !.todo = SubSeq(@, 2, Len(@))])
             /\ UNCHANGED memberships
        ELSE /\ memberships' = memberships \cup {row}
             /\ ToApply(r, [x EXCEPT !.added = @ + 1, !.todo = SubSeq(@, 2, Len(@))])
     /\ UNCHANGED <<themeSpec, links, themeTime, themeFaults, handEdits>>

\* the row that was in the way is read; it may be gone by now
ReadMembership(r) ==
  LET x == applying[r] IN
  /\ x.at = "conflict"
  /\ ToApply(r, IF Has(memberships \cup x.wrote, x.todo[1].subject)
                THEN [x EXCEPT !.at = "adding", !.present = @ + 1, !.todo = SubSeq(@, 2, Len(@))]
                ELSE [x EXCEPT !.at = "failed", !.wrote = {}])
  /\ UNCHANGED <<themeSpec, links, memberships, themeTime, themeFaults, handEdits>>

\* the commit, where there is a transaction
CommitMemberships(r) ==
  LET x == applying[r] IN
  /\ x.at = "adding" /\ x.todo = <<>>
  /\ memberships' = memberships \cup x.wrote
  /\ ToApply(r, [x EXCEPT !.at = "done", !.wrote = {}])
  /\ UNCHANGED <<themeSpec, links, themeTime, themeFaults, handEdits>>

\* a statement or the process fails: without a transaction half of it stays
ApplyFails(r) ==
  /\ applying[r].at \in {"adding", "conflict"} /\ themeFaults < MaxThemeFaults
  /\ themeFaults' = themeFaults + 1
  /\ ToApply(r, [applying[r] EXCEPT !.at = "failed", !.wrote = {}])
  /\ UNCHANGED <<themeSpec, links, memberships, themeTime, handEdits>>

\* addThemeMembership by hand, for a while or for good
AddByHand(s, until) ==
  /\ handEdits < MaxHandEdits /\ handEdits' = handEdits + 1
  /\ ~Has(memberships, s) /\ \A r \in ThemeRuns : ~Has(applying[r].wrote, s)
  /\ \A e \in until : e > themeTime
  /\ memberships' = memberships \cup {MembershipRow([subject |-> s, score |-> 0, rationale |-> {}], until)}
  /\ UNCHANGED <<themeSpec, links, applying, themeTime, themeFaults>>

RemoveMembership(s) ==
  /\ handEdits < MaxHandEdits /\ handEdits' = handEdits + 1
  /\ Has(memberships, s)
  /\ memberships' = {m \in memberships : m.subject # s}
  /\ UNCHANGED <<themeSpec, links, applying, themeTime, themeFaults>>

ThemeAges ==
  /\ themeTime < MaxThemeTime
  /\ themeTime' = themeTime + 1
  /\ UNCHANGED <<themeSpec, links, memberships, applying, themeFaults, handEdits>>

ThemesNext ==
  \/ LinksArrive \/ ThemeAges
  \/ \E r \in ThemeRuns : \/ ComputeCandidates(r) \/ AddCandidate(r) \/ ReadMembership(r)
                          \/ CommitMemberships(r) \/ ApplyFails(r)
  \/ \E s \in {l.subject : l \in ThemeLinks} : \/ RemoveMembership(s)
                                               \/ \E e \in {{}, {MaxThemeTime}} : AddByHand(s, e)

ThemesSpec == ThemesInit /\ [][ThemesNext]_themeVars

-------------------------------------------------------------------------------
\* One row for each subject, over all transactions; a run accounts for each of its
\* candidates once.
ThemesTypeOK ==
  /\ \A m, n \in memberships \cup UNION {applying[r].wrote : r \in ThemeRuns} : m.subject = n.subject => m = n
  /\ \A r \in ThemeRuns : LET x == applying[r] IN x.added + x.present + Len(x.todo) = x.found
  /\ \A t \in 0..MaxThemeTime : LET p == MembersPage(t) IN
       /\ \A m \in Range(p.rows) : ActiveAt(m, t) /\ Len(p.rows) <= ThemePage
       /\ p.truncated <=> \E m \in memberships : ActiveAt(m, t) /\ m \notin Range(p.rows)
===============================================================================
