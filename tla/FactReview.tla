----------------------------- MODULE FactReview -----------------------------
(***************************************************************************)
(* The transactions of fact review and of supersession                     *)
(* (services/evidence/src/fact-repo.ts, called by review-http.ts): each    *)
(* call begins a transaction, locks the row it is about with FOR UPDATE,   *)
(* then, when it acts for a reviewer, takes an advisory lock on the        *)
(* reviewer, counts the actions of the window, and writes.  now() is the   *)
(* time at which the transaction began, also for what it inserts.          *)
(*                                                                         *)
(* The last write and the commit are one step: what a transaction has      *)
(* written is seen by no other one before, and the locks are held.         *)
(***************************************************************************)
EXTENDS FactLedger

CONSTANTS
    Calls,        \* requests and calls made in one behaviour
    Kinds,        \* the kinds of calls that are made in it
    IdentityOf    \* what assertFactIdentityMatches compares of a fact input

ASSUME CallsAssumption == IsFiniteSet(Calls) /\ Reviews # {} /\ Reviewers # {}

VARIABLE call     \* a call's step, its arguments, and what it has read

factVars == <<clock, queue, facts, actions, call>>

Verdicts == {"approved", "rejected", "edited"}
Ended == {"committed", "refused", "conflicted"}
Steps == {"idle", "review", "reviewer", "count", "write", "fact", "link"} \cup Ended

NoCall == [step |-> "idle", kind |-> "edited", review |-> CHOOSE r \in Reviews : TRUE,
           reviewer |-> CHOOSE p \in Reviewers : TRUE, candidate |-> NoCandidate,
           older |-> NoFact, before |-> NoCandidate, at |-> 0]

(* The arguments of a call: a verdict on a review, or a supersession. *)
Requests ==
    [kind : {"approved"}, review : Reviews, reviewer : Reviewers,
     candidate : Candidates \cup {NoCandidate}, older : {NoFact}]
    \cup [kind : {"rejected"}, review : Reviews, reviewer : Reviewers,
          candidate : {NoCandidate}, older : {NoFact}]
    \cup [kind : {"edited"}, review : Reviews, reviewer : Reviewers,
          candidate : Candidates, older : {NoFact}]
Supersessions ==
    [kind : {"supersede"}, review : {NoCall.review}, reviewer : {NoCall.reviewer},
     candidate : Candidates, older : 1 .. Cardinality(Calls)]

Started(request, step) ==
    [step |-> step, kind |-> request.kind, review |-> request.review,
     reviewer |-> request.reviewer, candidate |-> request.candidate,
     older |-> request.older, before |-> NoCandidate, at |-> clock]

Goto(k, step) == call' = [call EXCEPT ![k].step = step]
End(k, how) == call' = [call EXCEPT ![k] = [NoCall EXCEPT !.step = how, !.kind = call[k].kind]]
Reads == UNCHANGED ledger

(***************************************************************************)
(* Row locks and advisory locks, which end with the transaction.           *)
(***************************************************************************)
ReviewFree(k) ==
    \A j \in Calls \ {k} : call[j].step \in {"reviewer", "count", "write"} =>
                              call[j].review # call[k].review

ReviewerUnlocked(k) == TRUE  \* a bug: no advisory lock on the reviewer
ReviewerFree(k) ==
    \A j \in Calls \ {k} : call[j].step \in {"count", "write"} =>
                              call[j].reviewer # call[k].reviewer

FactFree(k) ==
    \A j \in Calls \ {k} : call[j].step = "link" => call[j].older # call[k].older

(***************************************************************************)
(* A verdict on a review.                                                  *)
(***************************************************************************)
Begin(k) ==
    /\ call[k].step = "idle"
    /\ \E request \in Requests :
         request.kind \in Kinds /\ call' = [call EXCEPT ![k] = Started(request, "review")]
    /\ Reads

(* lockQueuedFactReview: it waits for the row, and checks the status then. *)
LockReview(k) ==
    /\ call[k].step = "review" /\ ReviewFree(k)
    /\ IF queue[call[k].review].status = "queued"
       THEN call' = [call EXCEPT ![k].step = "reviewer",
                                 ![k].before = queue[call[k].review].candidate]
       ELSE End(k, "refused")
    /\ Reads

LockReviewer(k) ==
    /\ call[k].step = "reviewer" /\ ReviewerFree(k)
    /\ Goto(k, "count")
    /\ Reads

(* The actions assertReviewerThroughputAvailable counts for a call.  A bug *)
(* counts from the other end of the window.                                *)
CountedFromNow(k) ==
    {i \in DOMAIN actions : actions[i].reviewer = call[k].reviewer
                              /\ actions[i].at >= call[k].at}
Counted(k) ==
    {i \in DOMAIN actions : actions[i].reviewer = call[k].reviewer
                              /\ actions[i].at >= call[k].at - Window}

Count(k) ==
    /\ call[k].step = "count"
    /\ IF Cardinality(Counted(k)) >= MaxActions THEN End(k, "refused") ELSE Goto(k, "write")
    /\ Reads

(* The candidate after the verdict. *)
After(k) == IF call[k].candidate = NoCandidate THEN call[k].before ELSE call[k].candidate

Reviewed(r, c, f) ==  \* updateFactReviewAsApproved
    queue' = [queue EXCEPT ![r] = [status |-> "reviewed", candidate |-> c, fact |-> f]]

Recorded(k, after, f) ==  \* insertFactReviewAction
    actions' = Append(actions, Action(call[k].review, call[k].kind, call[k].reviewer,
                                      call[k].before, after, f, call[k].at))

CommitApproval(k) ==
    /\ call[k].step = "write" /\ call[k].kind = "approved"
    /\ IF Unindexed(After(k))
       THEN /\ facts' = Append(facts, Fact(After(k), NoFact))
            /\ Reviewed(call[k].review, After(k), Len(facts) + 1)
            /\ Recorded(k, After(k), Len(facts) + 1)
            /\ End(k, "committed")
            /\ UNCHANGED clock
       ELSE End(k, "conflicted") /\ Reads

CommitRejection(k) ==
    /\ call[k].step = "write" /\ call[k].kind = "rejected"
    /\ queue' = [queue EXCEPT ![call[k].review].status = "dismissed"]
    /\ Recorded(k, NoCandidate, NoFact)
    /\ End(k, "committed")
    /\ UNCHANGED <<clock, facts>>

CommitEdit(k) ==
    /\ call[k].step = "write" /\ call[k].kind = "edited"
    /\ queue' = [queue EXCEPT ![call[k].review].candidate = After(k)]
    /\ Recorded(k, After(k), NoFact)
    /\ End(k, "committed")
    /\ UNCHANGED <<clock, facts>>

(***************************************************************************)
(* supersedeFact.                                                          *)
(***************************************************************************)
BeginSupersede(k) ==
    /\ call[k].step = "idle"
    /\ \E request \in Supersessions :
         request.kind \in Kinds /\ call' = [call EXCEPT ![k] = Started(request, "fact")]
    /\ Reads

Current(f) == facts[f].superseded_by = NoFact

(* lockSupersededFact and the checks on what it returns. *)
LockFact(k) ==
    /\ call[k].step = "fact" /\ FactFree(k)
    /\ LET f == call[k].older
       IN  IF /\ f \in DOMAIN facts
              /\ IdentityOf[facts[f].candidate] = IdentityOf[call[k].candidate]
              /\ Current(f)
           THEN Goto(k, "link") ELSE End(k, "refused")
    /\ Reads

(* createFact, which the unique index may refuse, and the update of the    *)
(* superseded fact, in this order.                                         *)
Link(k) ==
    /\ call[k].step = "link"
    /\ LET f == call[k].older
           c == call[k].candidate
       IN  IF ~Unindexed(c) THEN End(k, "conflicted") /\ Reads
           ELSE IF ~Current(f) THEN End(k, "refused") /\ Reads
           ELSE /\ facts' = Append([facts EXCEPT ![f].superseded_by = Len(facts) + 1],
                                   Fact(c, f))
                /\ End(k, "committed")
                /\ UNCHANGED <<clock, queue, actions>>

(***************************************************************************)
(* Calls that are single statements, failures, and the system.             *)
(***************************************************************************)
QueueFactReview(r, c) == Enqueue(r, c) /\ UNCHANGED call

(* createFact, when a fact is promoted without review. *)
CreateFact(c) ==
    /\ "created" \in Kinds /\ Len(facts) < Cardinality(Calls)
    /\ AddFact(c)
    /\ UNCHANGED call

(* The candidate is invalid or the connection is lost: rollback. *)
Fail(k) ==
    /\ call[k].step \notin Ended \cup {"idle"}
    /\ End(k, "refused")
    /\ Reads

Time == Tick /\ UNCHANGED call

FactInit ==
    /\ LedgerInit
    /\ call = [k \in Calls |-> NoCall]

Progress(k) ==
    \/ LockReview(k) \/ LockReviewer(k) \/ Count(k)
    \/ CommitApproval(k) \/ CommitRejection(k) \/ CommitEdit(k)
    \/ LockFact(k) \/ Link(k)

FactNext ==
    \/ Time
    \/ \E r \in Reviews, c \in Candidates : QueueFactReview(r, c)
    \/ \E c \in Candidates : CreateFact(c)
    \/ \E k \in Calls : Begin(k) \/ BeginSupersede(k) \/ Progress(k) \/ Fail(k)

FactSpec == FactInit /\ [][FactNext]_factVars

(***************************************************************************)
(* Properties.                                                             *)
(***************************************************************************)
(* Tables and calls keep their types, and a queue row its check            *)
(* constraint: it has a fact exactly when it is reviewed.                  *)
FactTypeOK ==
    LET optional == Candidates \cup {NoCandidate}
    IN  /\ clock \in 0 .. MaxTime
        /\ queue \in [Reviews -> [status : {"absent", "queued", "reviewed", "dismissed"},
                                  candidate : optional, fact : Nat]]
        /\ \A r \in Reviews : queue[r].fact # NoFact <=> queue[r].status = "reviewed"
        /\ facts \in Seq([candidate : Candidates, supersedes : Nat, superseded_by : Nat])
        /\ actions \in Seq([review : Reviews, action : Verdicts, reviewer : Reviewers,
                            before : Candidates, after : optional, fact : Nat,
                            at : 0 .. MaxTime])
        /\ call \in [Calls -> [step : Steps, kind : Verdicts \cup {"supersede"},
                               review : Reviews, reviewer : Reviewers, candidate : optional,
                               older : Nat, before : optional, at : 0 .. MaxTime]]

(* No window of the configured length, wherever it lies, holds more        *)
(* actions of a reviewer than the limit, although calls wait for row locks *)
(* between the time they are stamped with and the time they are counted.   *)
ThroughputRespected ==
    \A p \in Reviewers, t \in 0 .. MaxTime :
        Cardinality({i \in DOMAIN actions :
            actions[i].reviewer = p /\ actions[i].at \in t - Window .. t}) <= MaxActions

(* Transactions and locks implement the ledger in which every verdict is   *)
(* one atomic step that respects the allowance.                            *)
ImplementsLedger == LedgerSpec

(* A current fact can be superseded by a fact input of its identity: the   *)
(* new fact is created and the old one linked to it.                       *)
SupersessionSucceeds ==
    \A k \in Calls : call[k].kind = "supersede" => call[k].step # "conflicted"
=============================================================================
