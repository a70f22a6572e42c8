----------------------------- MODULE FactLedger -----------------------------
(***************************************************************************)
(* What fact review promises (services/evidence/src/fact-repo.ts), without *)
(* transactions and locks: a queue of candidates, a ledger of the actions  *)
(* of reviewers, and facts that are added or superseded, never changed.    *)
(* Each action happens at once, and only while the reviewer's allowance    *)
(* for the window that ends when the action was requested is not used up.  *)
(***************************************************************************)
EXTENDS Integers, Sequences, FiniteSets

CONSTANTS
    Reviewers,    \* reviewers
    Reviews,      \* rows of fact_review_queue
    Candidates,   \* fact inputs
    NoCandidate,  \* null
    KeyOf,        \* the columns of facts_active_reported_identity_idx
    Indexed,      \* the keys of reported facts of a fiscal period
    MaxActions,   \* throughput_limit.max_actions
    Window,       \* throughput_limit.window_seconds
    MaxTime       \* bound: the last value of the clock

ASSUME LimitAssumption ==
    MaxActions \in Nat \ {0} /\ Window \in Nat /\ MaxTime \in Nat
ASSUME NoCandidateAssumption == NoCandidate \notin Candidates

VARIABLES
    clock,    \* the database's clock
    queue,    \* fact_review_queue
    facts,    \* facts, by fact_id
    actions   \* fact_review_actions, in the order of their commits

ledger == <<clock, queue, facts, actions>>

NoFact == 0

Fact(c, older) == [candidate |-> c, supersedes |-> older, superseded_by |-> NoFact]
Action(r, verdict, p, before, after, f, at) ==
    [review |-> r, action |-> verdict, reviewer |-> p, before |-> before,
     after |-> after, fact |-> f, at |-> at]

(* The insert of a fact is accepted by facts_active_reported_identity_idx. *)
Unindexed(c) ==
    KeyOf[c] \in Indexed =>
        \A f \in DOMAIN facts : KeyOf[facts[f].candidate] = KeyOf[c] =>
                                    facts[f].superseded_by # NoFact

(* Reviewer p may act on what was requested at time `at'. *)
Allowed(p, at) ==
    Cardinality({i \in DOMAIN actions :
                    actions[i].reviewer = p /\ actions[i].at >= at - Window}) < MaxActions

LedgerInit ==
    /\ clock = 0
    /\ queue = [r \in Reviews |-> [status |-> "absent", candidate |-> NoCandidate,
                                   fact |-> NoFact]]
    /\ facts = <<>>
    /\ actions = <<>>

Tick == clock < MaxTime /\ clock' = clock + 1 /\ UNCHANGED <<queue, facts, actions>>

Enqueue(r, c) ==
    /\ queue[r].status = "absent"
    /\ queue' = [queue EXCEPT ![r] = [status |-> "queued", candidate |-> c, fact |-> NoFact]]
    /\ UNCHANGED <<clock, facts, actions>>

AddFact(c) ==
    /\ Unindexed(c)
    /\ facts' = Append(facts, Fact(c, NoFact))
    /\ UNCHANGED <<clock, queue, actions>>

Approve(r, p, c, at) ==
    LET f == Len(facts) + 1
    IN  /\ queue[r].status = "queued" /\ Allowed(p, at) /\ Unindexed(c)
        /\ facts' = Append(facts, Fact(c, NoFact))
        /\ queue' = [queue EXCEPT ![r] = [status |-> "reviewed", candidate |-> c, fact |-> f]]
        /\ actions' = Append(actions,
                        Action(r, "approved", p, queue[r].candidate, c, f, at))
        /\ UNCHANGED clock

Reject(r, p, at) ==
    /\ queue[r].status = "queued" /\ Allowed(p, at)
    /\ queue' = [queue EXCEPT ![r].status = "dismissed"]
    /\ actions' = Append(actions,
                    Action(r, "rejected", p, queue[r].candidate, NoCandidate, NoFact, at))
    /\ UNCHANGED <<clock, facts>>

Edit(r, p, c, at) ==
    /\ queue[r].status = "queued" /\ Allowed(p, at)
    /\ queue' = [queue EXCEPT ![r].candidate = c]
    /\ actions' = Append(actions,
                    Action(r, "edited", p, queue[r].candidate, c, NoFact, at))
    /\ UNCHANGED <<clock, facts>>

Supersede(f, c) ==
    /\ facts[f].superseded_by = NoFact /\ Unindexed(c)
    /\ facts' = Append([facts EXCEPT ![f].superseded_by = Len(facts) + 1], Fact(c, f))
    /\ UNCHANGED <<clock, queue, actions>>

LedgerNext ==
    \/ Tick
    \/ \E r \in Reviews, c \in Candidates : Enqueue(r, c)
    \/ \E c \in Candidates : AddFact(c)
    \/ \E r \in Reviews, p \in Reviewers, at \in 0 .. clock :
          \/ Reject(r, p, at)
          \/ \E c \in Candidates : Approve(r, p, c, at) \/ Edit(r, p, c, at)
    \/ \E f \in DOMAIN facts, c \in Candidates : Supersede(f, c)

LedgerSpec == LedgerInit /\ [][LedgerNext]_ledger
=============================================================================
