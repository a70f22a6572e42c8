-------------------------- MODULE FactReviewProofs --------------------------
(***************************************************************************)
(* Proofs about fact review, for any number of reviewers, reviews, calls   *)
(* and facts, any allowance and any window: the allowance of a reviewer is *)
(* respected, and the transactions with their locks implement the ledger   *)
(* in which every verdict is one atomic step.                              *)
(***************************************************************************)
EXTENDS FactReview, FiniteSetTheorems, TLAPS

Optional == Candidates \cup {NoCandidate}
Rows == [status : {"absent", "queued", "reviewed", "dismissed"}, candidate : Optional, fact : Nat]
FactRows == [candidate : Candidates, supersedes : Nat, superseded_by : Nat]
Entries == [review : Reviews, action : Verdicts, reviewer : Reviewers, before : Candidates,
            after : Optional, fact : Nat, at : 0 .. MaxTime]
CallRows == [step : Steps, kind : Verdicts \cup {"supersede"}, review : Reviews,
             reviewer : Reviewers, candidate : Optional, older : Nat, before : Optional,
             at : 0 .. MaxTime]

Types ==
    /\ clock \in 0 .. MaxTime
    /\ queue \in [Reviews -> Rows]
    /\ facts \in Seq(FactRows) /\ actions \in Seq(Entries)
    /\ call \in [Calls -> CallRows]

(* A queue row has a fact exactly when it is reviewed, and a candidate as  *)
(* long as it waits for a verdict.                                         *)
RowsOK ==
    \A r \in Reviews :
        /\ queue[r].fact # NoFact <=> queue[r].status = "reviewed"
        /\ queue[r].status = "queued" => queue[r].candidate \in Candidates

HoldsReview(k) == call[k].step \in {"reviewer", "count", "write"}
HoldsReviewer(k) == call[k].step \in {"count", "write"}

(* What the locks of the calls have brought about: the row a call has      *)
(* locked is still as it read it, and nobody has acted for its reviewer    *)
(* since it counted.                                                       *)
LocksOK ==
    /\ \A k \in Calls, j \in Calls : k # j /\ HoldsReview(k) /\ HoldsReview(j) =>
           call[k].review # call[j].review
    /\ \A k \in Calls, j \in Calls : k # j /\ HoldsReviewer(k) /\ HoldsReviewer(j) =>
           call[k].reviewer # call[j].reviewer
    /\ \A k \in Calls : HoldsReview(k) =>
           /\ queue[call[k].review].status = "queued"
           /\ queue[call[k].review].candidate = call[k].before
           /\ call[k].before \in Candidates
    /\ \A k \in Calls : call[k].step = "write" => Allowed(call[k].reviewer, call[k].at)
    /\ \A k \in Calls : call[k].step = "link" => call[k].older \in DOMAIN facts
    /\ \A k \in Calls : call[k].step \in {"fact", "link"} => call[k].candidate \in Candidates
    /\ \A k \in Calls : call[k].kind = "edited" /\ call[k].step \notin {"idle"} \cup Ended =>
           call[k].candidate \in Candidates
    /\ \A k \in Calls : call[k].at <= clock

(* The inductive invariant. *)
IInv == Types /\ RowsOK /\ LocksOK /\ ThroughputRespected

-----------------------------------------------------------------------------
LEMMA NoCallTyped ==
    /\ NoCall \in CallRows /\ NoCall.step = "idle" /\ NoCall.at = 0
    /\ \A how \in Ended, kind \in Verdicts \cup {"supersede"} :
         [NoCall EXCEPT !.step = how, !.kind = kind] \in CallRows
  <1>1. (CHOOSE r \in Reviews : TRUE) \in Reviews /\ (CHOOSE p \in Reviewers : TRUE) \in Reviewers
    BY CallsAssumption
  <1>2. 0 \in 0 .. MaxTime /\ NoFact \in Nat
    BY LimitAssumption DEF NoFact
  <1> DEFINE r0 == CHOOSE r \in Reviews : TRUE
             p0 == CHOOSE p \in Reviewers : TRUE
  <1>3. NoCall = [step |-> "idle", kind |-> "edited", review |-> r0, reviewer |-> p0,
                  candidate |-> NoCandidate, older |-> NoFact, before |-> NoCandidate, at |-> 0]
    BY DEF NoCall
  <1>4. r0 \in Reviews /\ p0 \in Reviewers
    BY <1>1
  <1> HIDE DEF r0, p0
  <1> QED
    BY <1>2, <1>3, <1>4 DEF CallRows, Steps, Verdicts, Optional, Ended

LEMMA InitInv == FactInit => IInv
  <1> SUFFICES ASSUME FactInit PROVE IInv
    OBVIOUS
  <1>1. /\ clock = 0 /\ facts = <<>> /\ actions = <<>> /\ call = [k \in Calls |-> NoCall]
        /\ queue = [r \in Reviews |-> [status |-> "absent", candidate |-> NoCandidate,
                                       fact |-> NoFact]]
    BY DEF FactInit, LedgerInit
  <1>2. Types
    <2>1. queue \in [Reviews -> Rows]
      BY <1>1 DEF Rows, Optional, NoFact
    <2>2. call \in [Calls -> CallRows]
      BY <1>1, NoCallTyped
    <2>3. facts \in Seq(FactRows) /\ actions \in Seq(Entries) /\ clock \in 0 .. MaxTime
      BY <1>1, LimitAssumption
    <2> QED
      BY <2>1, <2>2, <2>3 DEF Types
  <1>3. RowsOK
    BY <1>1 DEF RowsOK
  <1>4. LocksOK
    <2>1. \A k \in Calls : call[k].step = "idle" /\ call[k].at = 0
      BY <1>1, NoCallTyped
    <2> QED
      BY <1>1, <2>1 DEF LocksOK, HoldsReview, HoldsReviewer
  <1>5. ThroughputRespected
    <2>1. ASSUME NEW p \in Reviewers, NEW t \in 0 .. MaxTime
          PROVE  Cardinality({i \in DOMAIN actions :
                    actions[i].reviewer = p /\ actions[i].at \in t - Window .. t}) <= MaxActions
      <3>1. {i \in DOMAIN actions :
                    actions[i].reviewer = p /\ actions[i].at \in t - Window .. t} = {}
        BY <1>1
      <3> QED
        BY <3>1, FS_EmptySet, LimitAssumption
    <2> QED
      BY <2>1 DEF ThroughputRespected
  <1> QED
    BY <1>2, <1>3, <1>4, <1>5 DEF IInv
-----------------------------------------------------------------------------
(* The counts of the ledger.                                               *)

Since(p, t) == {i \in DOMAIN actions : actions[i].reviewer = p /\ actions[i].at >= t - Window}
Within(p, t) == {i \in DOMAIN actions : actions[i].reviewer = p /\ actions[i].at \in t - Window .. t}

LEMMA CountsAreFinite ==
    ASSUME actions \in Seq(Entries), NEW S \in SUBSET DOMAIN actions
    PROVE  IsFiniteSet(S) /\ Cardinality(S) \in Nat
  <1>1. DOMAIN actions = 1 .. Len(actions) /\ Len(actions) \in Nat
    OBVIOUS
  <1>2. IsFiniteSet(DOMAIN actions)
    BY <1>1, FS_Interval
  <1> QED
    BY <1>2, FS_Subset, FS_CardinalityType

(* One more action leaves the others' counts alone, and keeps within the   *)
(* allowance of its own reviewer if it was allowed.                        *)
LEMMA AppendedAction ==
    ASSUME actions \in Seq(Entries), NEW e \in Entries, actions' = Append(actions, e)
    PROVE  /\ \A p \in Reviewers \ {e.reviewer}, t \in 0 .. MaxTime :
                Allowed(p, t) => Allowed(p, t)'
           /\ ThroughputRespected /\ Allowed(e.reviewer, e.at) => ThroughputRespected'
  <1> DEFINE n == Len(actions) + 1
  <1>1. /\ n \in Nat /\ n \notin DOMAIN actions /\ DOMAIN actions' = DOMAIN actions \cup {n}
        /\ actions'[n] = e /\ \A i \in DOMAIN actions : actions'[i] = actions[i]
    OBVIOUS
  <1>2. \A i \in DOMAIN actions : actions[i] \in Entries
    OBVIOUS
  <1> HIDE DEF n
  <1>3. e.reviewer \in Reviewers /\ e.at \in Nat /\ \A i \in DOMAIN actions : actions[i].at \in Nat
    BY <1>2, LimitAssumption DEF Entries
  <1>4. ASSUME NEW p \in Reviewers \ {e.reviewer}, NEW t \in 0 .. MaxTime, Allowed(p, t)
        PROVE  Allowed(p, t)'
    <2>1. Since(p, t)' = Since(p, t)
      BY <1>1 DEF Since
    <2> QED
      BY <1>4, <2>1 DEF Allowed, Since
  <1>5. ASSUME ThroughputRespected, Allowed(e.reviewer, e.at),
               NEW p \in Reviewers, NEW t \in 0 .. MaxTime
        PROVE  Cardinality(Within(p, t)') <= MaxActions
    <2>1. Cardinality(Within(p, t)) <= MaxActions
      BY <1>5 DEF ThroughputRespected, Within
    <2>2. CASE p = e.reviewer /\ e.at \in t - Window .. t
      <3>1. Within(p, t) \subseteq Since(p, e.at)
        <4>1. t - Window >= e.at - Window
          BY <1>3, <2>2, LimitAssumption
        <4> QED
          BY <1>3, <4>1, LimitAssumption DEF Within, Since
      <3>2. /\ IsFiniteSet(Since(p, e.at)) /\ Cardinality(Since(p, e.at)) \in Nat
            /\ IsFiniteSet(Within(p, t)) /\ Cardinality(Within(p, t)) \in Nat
        BY CountsAreFinite DEF Since, Within
      <3>3. Cardinality(Within(p, t)) <= Cardinality(Since(p, e.at))
        BY <3>1, <3>2, FS_Subset
      <3>4. Cardinality(Since(p, e.at)) < MaxActions
        BY <1>5, <2>2 DEF Allowed, Since
      <3>5. Within(p, t)' = Within(p, t) \cup {n}
        BY <1>1, <2>2 DEF Within
      <3>7. n \notin Within(p, t)
        BY <1>1 DEF Within
      <3>8. Cardinality(Within(p, t)') = Cardinality(Within(p, t)) + 1
        BY <3>2, <3>5, <3>7, FS_AddElement
      <3> QED
        BY <3>2, <3>3, <3>4, <3>8, LimitAssumption
    <2>3. CASE ~(p = e.reviewer /\ e.at \in t - Window .. t)
      <3>1. Within(p, t)' = Within(p, t)
        BY <1>1, <2>3 DEF Within
      <3> QED
        BY <2>1, <3>1
    <2> QED
      BY <2>2, <2>3
  <1>6. ThroughputRespected /\ Allowed(e.reviewer, e.at) => ThroughputRespected'
    BY <1>5 DEF ThroughputRespected, Within
  <1> QED
    BY <1>4, <1>6

-----------------------------------------------------------------------------
(* What a call may become while the ledger stays as it is.                 *)
Fits(k, q) ==
    /\ q.step \in {"reviewer", "count", "write"} =>
         /\ \A j \in Calls \ {k} : HoldsReview(j) => call[j].review # q.review
         /\ queue[q.review].status = "queued" /\ queue[q.review].candidate = q.before
         /\ q.before \in Candidates
    /\ q.step \in {"count", "write"} =>
         \A j \in Calls \ {k} : HoldsReviewer(j) => call[j].reviewer # q.reviewer
    /\ q.step = "write" => Allowed(q.reviewer, q.at)
    /\ q.step = "link" => q.older \in DOMAIN facts
    /\ q.step \in {"fact", "link"} => q.candidate \in Candidates
    /\ q.kind = "edited" /\ q.step \notin {"idle"} \cup Ended => q.candidate \in Candidates
    /\ q.at <= clock

LEMMA MovesKeep ==
    ASSUME IInv, NEW k \in Calls, NEW q \in CallRows, call' = [call EXCEPT ![k] = q],
           UNCHANGED ledger, Fits(k, q)
    PROVE  IInv'
  <1>1. /\ call'[k] = q /\ \A j \in Calls \ {k} : call'[j] = call[j]
        /\ call' \in [Calls -> CallRows]
    BY DEF IInv, Types
  <1>2. UNCHANGED <<clock, queue, facts, actions>>
    BY DEF ledger
  <1>3. Types' /\ RowsOK' /\ ThroughputRespected'
    BY <1>1, <1>2 DEF IInv, Types, RowsOK, ThroughputRespected
  <1>4. \A p \in Reviewers, t \in 0 .. MaxTime : Allowed(p, t)' = Allowed(p, t)
    BY <1>2 DEF Allowed
  <1>5. \A j \in Calls : call'[j].reviewer \in Reviewers /\ call'[j].at \in 0 .. MaxTime
    BY <1>1 DEF CallRows
  <1>6. LocksOK'
    <2>1. ASSUME NEW j \in Calls, NEW l \in Calls, j # l, HoldsReview(j)', HoldsReview(l)'
          PROVE  call'[j].review # call'[l].review
      BY <1>1, <2>1 DEF IInv, LocksOK, HoldsReview, Fits
    <2>2. ASSUME NEW j \in Calls, NEW l \in Calls, j # l, HoldsReviewer(j)', HoldsReviewer(l)'
          PROVE  call'[j].reviewer # call'[l].reviewer
      BY <1>1, <2>2 DEF IInv, LocksOK, HoldsReviewer, Fits
    <2>3. ASSUME NEW j \in Calls
          PROVE  /\ HoldsReview(j)' =>
                      /\ queue'[call'[j].review].status = "queued"
                      /\ queue'[call'[j].review].candidate = call'[j].before
                      /\ call'[j].before \in Candidates
                 /\ call'[j].step = "link" => call'[j].older \in DOMAIN facts'
                 /\ call'[j].step \in {"fact", "link"} => call'[j].candidate \in Candidates
                 /\ call'[j].kind = "edited" /\ call'[j].step \notin {"idle"} \cup Ended =>
                      call'[j].candidate \in Candidates
                 /\ call'[j].at <= clock'
      BY <1>1, <1>2 DEF IInv, LocksOK, HoldsReview, Fits
    <2>4. ASSUME NEW j \in Calls, call'[j].step = "write"
          PROVE  Allowed(call[j].reviewer, call[j].at)'
      <3>1. Allowed(call'[j].reviewer, call'[j].at)
        BY <1>1, <2>4 DEF IInv, LocksOK, Fits
      <3> QED
        BY <1>2, <3>1 DEF Allowed
    <2> QED
      BY <2>1, <2>2, <2>3, <2>4 DEF LocksOK
  <1> QED
    BY <1>3, <1>6 DEF IInv

(* A call that has ended fits always.                                      *)
LEMMA EndFits ==
    ASSUME IInv, NEW k \in Calls, NEW how \in Ended, End(k, how)
    PROVE  \E q \in CallRows : call' = [call EXCEPT ![k] = q] /\ q.step = how /\ q.at = 0
  <1> DEFINE q == [NoCall EXCEPT !.step = how, !.kind = call[k].kind]
  <1>1. call[k].kind \in Verdicts \cup {"supersede"}
    BY DEF IInv, Types, CallRows
  <1>2. q \in CallRows
    BY <1>1, NoCallTyped
  <1>3. q.step = how /\ q.at = 0
    BY NoCallTyped DEF NoCall
  <1>4. call' = [call EXCEPT ![k] = q]
    BY DEF End
  <1> QED
    BY <1>2, <1>3, <1>4

LEMMA RefusedKeeps ==
    ASSUME IInv, NEW k \in Calls, NEW how \in Ended, End(k, how), Reads
    PROVE  IInv'
  <1>1. PICK q \in CallRows : call' = [call EXCEPT ![k] = q] /\ q.step = how /\ q.at = 0
    BY EndFits
  <1>2. Fits(k, q)
    BY <1>1, LimitAssumption DEF Fits, Ended, IInv, Types
  <1> QED
    BY <1>1, <1>2, MovesKeep DEF Reads

-----------------------------------------------------------------------------
(* The steps that only read.                                               *)

LEMMA CallTyped ==
    ASSUME IInv, NEW k \in Calls
    PROVE  /\ call[k] \in CallRows /\ DOMAIN call = Calls
           /\ \A s \in Steps : [call[k] EXCEPT !.step = s] \in CallRows
  BY DEF IInv, Types, CallRows

LEMMA BeginKeeps == ASSUME IInv, NEW k \in Calls, Begin(k) PROVE IInv'
  <1>1. PICK request \in Requests : call' = [call EXCEPT ![k] = Started(request, "review")]
    BY DEF Begin
  <1> DEFINE q == Started(request, "review")
  <1>2. /\ request.kind \in Verdicts /\ request.review \in Reviews
        /\ request.reviewer \in Reviewers /\ request.candidate \in Optional
        /\ request.older = NoFact
        /\ request.kind = "edited" => request.candidate \in Candidates
    BY DEF Requests, Verdicts, Optional
  <1>3. q \in CallRows
    BY <1>2 DEF Started, CallRows, Steps, IInv, Types, Optional, NoFact
  <1>4. Fits(k, q)
    BY <1>2, LimitAssumption DEF Started, Fits, IInv, Types
  <1> QED
    BY <1>1, <1>3, <1>4, MovesKeep DEF Begin, Reads

LEMMA BeginSupersedeKeeps ==
    ASSUME IInv, NEW k \in Calls, BeginSupersede(k) PROVE IInv'
  <1>1. PICK request \in Supersessions : call' = [call EXCEPT ![k] = Started(request, "fact")]
    BY DEF BeginSupersede
  <1> DEFINE q == Started(request, "fact")
  <1>2. Cardinality(Calls) \in Nat
    BY CallsAssumption, FS_CardinalityType
  <1>3. NoCall.review \in Reviews /\ NoCall.reviewer \in Reviewers
    BY NoCallTyped DEF CallRows
  <1>4. /\ request.kind = "supersede" /\ request.review \in Reviews
        /\ request.reviewer \in Reviewers /\ request.candidate \in Candidates
        /\ request.older \in Nat
    BY <1>2, <1>3 DEF Supersessions
  <1>5. q \in CallRows
    BY <1>4 DEF Started, CallRows, Steps, IInv, Types, Optional
  <1>6. Fits(k, q)
    BY <1>4, LimitAssumption DEF Started, Fits, IInv, Types
  <1> QED
    BY <1>1, <1>5, <1>6, MovesKeep DEF BeginSupersede, Reads

LEMMA LockReviewKeeps == ASSUME IInv, NEW k \in Calls, LockReview(k) PROVE IInv'
  <1> DEFINE q == [call[k] EXCEPT !.step = "reviewer",
                                  !.before = queue[call[k].review].candidate]
  <1>1. CASE queue[call[k].review].status = "queued"
    <2>1. call' = [call EXCEPT ![k] = q]
      BY <1>1, CallTyped DEF LockReview
    <2>2. call[k].review \in Reviews
      BY CallTyped DEF CallRows
    <2>3. queue[call[k].review].candidate \in Candidates
      BY <1>1, <2>2 DEF IInv, RowsOK
    <2>4. q \in CallRows
      BY <2>3, CallTyped DEF CallRows, Steps, Optional
    <2>5. \A j \in Calls \ {k} : HoldsReview(j) => call[j].review # call[k].review
      BY DEF LockReview, ReviewFree, HoldsReview
    <2>6. call[k].kind = "edited" => call[k].candidate \in Candidates
      BY DEF LockReview, IInv, LocksOK, Ended
    <2>7. Fits(k, q)
      BY <1>1, <2>3, <2>5, <2>6, CallTyped DEF Fits, CallRows, IInv, LocksOK
    <2> QED
      BY <2>1, <2>4, <2>7, MovesKeep DEF LockReview, Reads
  <1>2. CASE queue[call[k].review].status # "queued"
    BY <1>2, RefusedKeeps DEF LockReview, Ended
  <1> QED
    BY <1>1, <1>2

LEMMA LockReviewerKeeps == ASSUME IInv, NEW k \in Calls, LockReviewer(k) PROVE IInv'
  <1> DEFINE q == [call[k] EXCEPT !.step = "count"]
  <1>1. call' = [call EXCEPT ![k] = q] /\ q \in CallRows
    BY CallTyped DEF LockReviewer, Goto, Steps
  <1>2. \A j \in Calls \ {k} : HoldsReviewer(j) => call[j].reviewer # call[k].reviewer
    BY DEF LockReviewer, ReviewerFree, HoldsReviewer
  <1>3. Fits(k, q)
    BY <1>2, CallTyped DEF Fits, CallRows, IInv, LocksOK, LockReviewer, HoldsReview, Ended
  <1> QED
    BY <1>1, <1>3, MovesKeep DEF LockReviewer, Reads

LEMMA CountKeeps == ASSUME IInv, NEW k \in Calls, Count(k) PROVE IInv'
  <1> DEFINE q == [call[k] EXCEPT !.step = "write"]
  <1>1. CASE Cardinality(Counted(k)) >= MaxActions
    BY <1>1, RefusedKeeps DEF Count, Ended
  <1>2. CASE ~(Cardinality(Counted(k)) >= MaxActions)
    <2>1. call' = [call EXCEPT ![k] = q] /\ q \in CallRows
      BY <1>2, CallTyped DEF Count, Goto, Steps
    <2>2. Allowed(call[k].reviewer, call[k].at)
      <3>1. Cardinality(Counted(k)) \in Nat
        BY CountsAreFinite DEF Counted, IInv, Types
      <3> QED
        BY <1>2, <3>1, LimitAssumption DEF Counted, Allowed
    <2>3. Fits(k, q)
      BY <2>2, CallTyped
      DEF Fits, CallRows, IInv, LocksOK, Count, HoldsReview, HoldsReviewer, Ended
    <2> QED
      BY <2>1, <2>3, MovesKeep DEF Count, Reads
  <1> QED
    BY <1>1, <1>2

LEMMA LockFactKeeps == ASSUME IInv, NEW k \in Calls, LockFact(k) PROVE IInv'
  <1> DEFINE q == [call[k] EXCEPT !.step = "link"]
  <1>1. CASE Goto(k, "link") /\ call[k].older \in DOMAIN facts
    <2>1. call' = [call EXCEPT ![k] = q] /\ q \in CallRows
      BY <1>1, CallTyped DEF Goto, Steps
    <2>2. Fits(k, q)
      BY <1>1, CallTyped DEF Fits, CallRows, IInv, LocksOK, LockFact
    <2> QED
      BY <2>1, <2>2, MovesKeep DEF LockFact, Reads
  <1>2. CASE End(k, "refused")
    BY <1>2, RefusedKeeps DEF LockFact, Ended
  <1> QED
    BY <1>1, <1>2 DEF LockFact

LEMMA FailKeeps == ASSUME IInv, NEW k \in Calls, Fail(k) PROVE IInv'
  BY RefusedKeeps DEF Fail, Ended

-----------------------------------------------------------------------------
(* The steps that write.                                                   *)

(* The commit of a verdict: it changes the row the call holds, and acts    *)
(* for the reviewer nobody else may act for now.                           *)
LEMMA VerdictKeeps ==
    ASSUME IInv, NEW k \in Calls, call[k].step = "write", End(k, "committed"),
           NEW row \in Rows, queue' = [queue EXCEPT ![call[k].review] = row],
           row.fact # NoFact <=> row.status = "reviewed",
           row.status = "queued" => row.candidate \in Candidates,
           NEW e \in Entries, e.reviewer = call[k].reviewer, e.at = call[k].at,
           actions' = Append(actions, e),
           facts' \in Seq(FactRows), DOMAIN facts \subseteq DOMAIN facts',
           UNCHANGED clock
    PROVE  IInv'
  <1>1. PICK q \in CallRows : call' = [call EXCEPT ![k] = q] /\ q.step = "committed" /\ q.at = 0
    BY EndFits DEF Ended
  <1>2. /\ call'[k] = q /\ \A j \in Calls \ {k} : call'[j] = call[j]
        /\ call' \in [Calls -> CallRows]
    BY <1>1 DEF IInv, Types
  <1>3. \A j \in Calls : /\ call[j].review \in Reviews /\ call[j].reviewer \in Reviewers
                          /\ call[j].at \in 0 .. MaxTime
    BY CallTyped DEF CallRows
  <1>4. /\ queue'[call[k].review] = row
        /\ \A r \in Reviews \ {call[k].review} : queue'[r] = queue[r]
        /\ queue' \in [Reviews -> Rows]
    BY <1>3 DEF IInv, Types
  <1>5. Types'
    <2>1. actions' \in Seq(Entries)
      BY DEF IInv, Types
    <2> QED
      BY <1>2, <1>4, <2>1 DEF IInv, Types
  <1>6. RowsOK'
    BY <1>3, <1>4 DEF IInv, RowsOK
  <1>7. Allowed(e.reviewer, e.at)
    BY DEF IInv, LocksOK
  <1>8. /\ \A p \in Reviewers \ {call[k].reviewer}, t \in 0 .. MaxTime :
             Allowed(p, t) => Allowed(p, t)'
        /\ ThroughputRespected'
    BY <1>7, AppendedAction DEF IInv, Types
  <1>9. LocksOK'
    <2>1. ASSUME NEW j \in Calls, NEW l \in Calls, j # l, HoldsReview(j)', HoldsReview(l)'
          PROVE  call'[j].review # call'[l].review
      BY <1>1, <1>2, <2>1 DEF IInv, LocksOK, HoldsReview
    <2>2. ASSUME NEW j \in Calls, NEW l \in Calls, j # l, HoldsReviewer(j)', HoldsReviewer(l)'
          PROVE  call'[j].reviewer # call'[l].reviewer
      BY <1>1, <1>2, <2>2 DEF IInv, LocksOK, HoldsReviewer
    <2>3. ASSUME NEW j \in Calls, HoldsReview(j)'
          PROVE  /\ queue'[call'[j].review].status = "queued"
                 /\ queue'[call'[j].review].candidate = call'[j].before
                 /\ call'[j].before \in Candidates
      <3>1. j # k /\ call'[j] = call[j] /\ HoldsReview(j)
        BY <1>1, <1>2, <2>3 DEF HoldsReview
      <3>2. call[j].review # call[k].review
        BY <3>1 DEF IInv, LocksOK, HoldsReview
      <3>3. queue'[call[j].review] = queue[call[j].review]
        BY <1>3, <1>4, <3>2
      <3> QED
        BY <3>1, <3>3 DEF IInv, LocksOK
    <2>4. ASSUME NEW j \in Calls
          PROVE  /\ call'[j].step = "link" => call'[j].older \in DOMAIN facts'
                 /\ call'[j].step \in {"fact", "link"} => call'[j].candidate \in Candidates
                 /\ call'[j].kind = "edited" /\ call'[j].step \notin {"idle"} \cup Ended =>
                      call'[j].candidate \in Candidates
                 /\ call'[j].at <= clock'
      BY <1>1, <1>2, LimitAssumption DEF IInv, LocksOK, Ended, Types
    <2>5. ASSUME NEW j \in Calls, call'[j].step = "write"
          PROVE  Allowed(call[j].reviewer, call[j].at)' /\ call'[j] = call[j]
      <3>1. j # k /\ call'[j] = call[j] /\ call[j].step = "write"
        BY <1>1, <1>2, <2>5
      <3>2. call[j].reviewer \in Reviewers \ {call[k].reviewer}
        BY <1>3, <3>1 DEF IInv, LocksOK, HoldsReviewer
      <3>3. Allowed(call[j].reviewer, call[j].at)
        BY <3>1 DEF IInv, LocksOK
      <3> DEFINE p == call[j].reviewer
                 t == call[j].at
      <3>4. PICK pp \in Reviewers \ {call[k].reviewer}, tt \in 0 .. MaxTime : pp = p /\ tt = t
        BY <1>3, <3>2
      <3>5. Allowed(pp, tt)
        BY <3>3, <3>4
      <3>6. Allowed(pp, tt)'
        BY <1>8, <3>5
      <3>7. pp = call'[j].reviewer /\ tt = call'[j].at
        BY <3>1, <3>4
      <3> QED
        BY <3>1, <3>6, <3>7 DEF Allowed
    <2> QED
      BY <2>1, <2>2, <2>3, <2>4, <2>5 DEF LocksOK
  <1> QED
    BY <1>5, <1>6, <1>8, <1>9 DEF IInv

(* What a call that is about to write knows.                               *)
LEMMA WriterKnows ==
    ASSUME IInv, NEW k \in Calls, call[k].step = "write"
    PROVE  /\ call[k].review \in Reviews /\ call[k].reviewer \in Reviewers
           /\ call[k].at \in 0 .. MaxTime /\ call[k].at \in 0 .. clock
           /\ call[k].before \in Candidates /\ After(k) \in Candidates
           /\ queue[call[k].review].status = "queued"
           /\ queue[call[k].review].fact = NoFact
           /\ queue[call[k].review].candidate = call[k].before
           /\ Allowed(call[k].reviewer, call[k].at)
  <1>1. /\ call[k].review \in Reviews /\ call[k].reviewer \in Reviewers
        /\ call[k].at \in 0 .. MaxTime /\ call[k].candidate \in Optional
    BY CallTyped DEF CallRows
  <1>2. /\ queue[call[k].review].status = "queued"
        /\ queue[call[k].review].candidate = call[k].before
        /\ call[k].before \in Candidates /\ Allowed(call[k].reviewer, call[k].at)
        /\ call[k].at <= clock
    BY DEF IInv, LocksOK, HoldsReview
  <1>3. queue[call[k].review].fact = NoFact
    BY <1>1, <1>2 DEF IInv, RowsOK
  <1>4. After(k) \in Candidates
    BY <1>1, <1>2 DEF After, Optional
  <1>5. call[k].at \in 0 .. clock
    BY <1>1, <1>2, LimitAssumption DEF IInv, Types
  <1> QED
    BY <1>1, <1>2, <1>3, <1>4, <1>5

(* What one more fact is.                                                  *)
LEMMA FactAppended ==
    ASSUME facts \in Seq(FactRows), NEW c \in Candidates, NEW older \in Nat,
           NEW fs \in Seq(FactRows), Len(fs) = Len(facts), facts' = Append(fs, Fact(c, older))
    PROVE  /\ facts' \in Seq(FactRows) /\ DOMAIN facts \subseteq DOMAIN facts'
           /\ Len(facts) + 1 \in Nat /\ Len(facts) + 1 # NoFact
  <1>1. Fact(c, older) \in FactRows
    BY DEF Fact, FactRows, NoFact
  <1>2. facts' \in Seq(FactRows) /\ Len(facts') = Len(facts) + 1 /\ Len(facts) \in Nat
    BY <1>1
  <1>3. DOMAIN facts = 1 .. Len(facts) /\ DOMAIN facts' = 1 .. Len(facts')
    BY <1>2
  <1> QED
    BY <1>2, <1>3 DEF NoFact

LEMMA CommitApprovalKeeps ==
    ASSUME IInv, NEW k \in Calls, CommitApproval(k)
    PROVE  IInv' /\ [LedgerNext]_ledger
  <1>1. CASE ~Unindexed(After(k))
    <2>1. End(k, "conflicted") /\ Reads
      BY <1>1 DEF CommitApproval
    <2> QED
      BY <2>1, RefusedKeeps DEF Ended, Reads
  <1>2. CASE Unindexed(After(k))
    <2> DEFINE r == call[k].review
               p == call[k].reviewer
               c == After(k)
               f == Len(facts) + 1
               t == call[k].at
               e == Action(r, "approved", p, call[k].before, c, f, t)
               row == [status |-> "reviewed", candidate |-> c, fact |-> f]
    <2>1. /\ facts' = Append(facts, Fact(c, NoFact)) /\ queue' = [queue EXCEPT ![r] = row]
          /\ actions' = Append(actions, e) /\ End(k, "committed") /\ UNCHANGED clock
          /\ call[k].step = "write"
      BY <1>2 DEF CommitApproval, Reviewed, Recorded
    <2>2. facts \in Seq(FactRows) /\ facts' \in Seq(FactRows)
          /\ DOMAIN facts \subseteq DOMAIN facts' /\ f \in Nat /\ f # NoFact
      BY <2>1, WriterKnows, FactAppended DEF IInv, Types, NoFact
    <2>3. /\ r \in Reviews /\ p \in Reviewers /\ c \in Candidates
          /\ t \in 0 .. MaxTime /\ t \in 0 .. clock
          /\ call[k].before \in Candidates /\ queue[r].candidate = call[k].before
          /\ queue[r].status = "queued" /\ Allowed(p, t)
      BY <2>1, WriterKnows
    <2>4. row \in Rows /\ row.fact # NoFact /\ row.status = "reviewed"
      BY <2>2, <2>3 DEF Rows, Optional
    <2>5. e \in Entries /\ e.reviewer = p /\ e.at = t
      BY <2>2, <2>3 DEF Action, Entries, Verdicts, Optional
    <2>6. IInv'
      <3> HIDE DEF e, row, c, f
      <3> QED
        BY <2>1, <2>2, <2>4, <2>5, VerdictKeeps
    <2>7. Approve(r, p, c, t)
      BY <1>2, <2>1, <2>3 DEF Approve
    <2>8. LedgerNext
      BY <2>3, <2>7 DEF LedgerNext
    <2> QED
      BY <2>6, <2>8
  <1> QED
    BY <1>1, <1>2

LEMMA CommitRejectionKeeps ==
    ASSUME IInv, NEW k \in Calls, CommitRejection(k)
    PROVE  IInv' /\ LedgerNext
  <1> DEFINE r == call[k].review
             p == call[k].reviewer
             t == call[k].at
             e == Action(r, "rejected", p, call[k].before, NoCandidate, NoFact, t)
             row == [queue[r] EXCEPT !.status = "dismissed"]
  <1>1. /\ queue' = [queue EXCEPT ![r] = row] /\ actions' = Append(actions, e)
        /\ End(k, "committed") /\ UNCHANGED <<clock, facts>> /\ call[k].step = "write"
        /\ queue' = [queue EXCEPT ![r].status = "dismissed"]
    BY DEF CommitRejection, Recorded
  <1>2. facts' \in Seq(FactRows) /\ DOMAIN facts \subseteq DOMAIN facts'
    BY <1>1 DEF IInv, Types
  <1>3. /\ r \in Reviews /\ p \in Reviewers
        /\ t \in 0 .. MaxTime /\ t \in 0 .. clock
        /\ call[k].before \in Candidates /\ queue[r].candidate = call[k].before
        /\ queue[r].status = "queued" /\ queue[r].fact = NoFact /\ Allowed(p, t)
    BY <1>1, WriterKnows
  <1>4. row \in Rows /\ row.fact = NoFact /\ row.status = "dismissed"
    BY <1>3 DEF Rows, Optional, IInv, Types
  <1>5. e \in Entries /\ e.reviewer = p /\ e.at = t
    BY <1>3 DEF Action, Entries, Verdicts, Optional, NoFact
  <1>6. IInv'
    <2> HIDE DEF e, row
    <2> QED
      BY <1>1, <1>2, <1>4, <1>5, VerdictKeeps
  <1>7. Reject(r, p, t)
    BY <1>1, <1>3 DEF Reject
  <1> QED
    BY <1>3, <1>6, <1>7 DEF LedgerNext

LEMMA CommitEditKeeps ==
    ASSUME IInv, NEW k \in Calls, CommitEdit(k)
    PROVE  IInv' /\ LedgerNext
  <1> DEFINE r == call[k].review
             p == call[k].reviewer
             c == After(k)
             t == call[k].at
             e == Action(r, "edited", p, call[k].before, c, NoFact, t)
             row == [queue[r] EXCEPT !.candidate = c]
  <1>1. /\ queue' = [queue EXCEPT ![r] = row] /\ actions' = Append(actions, e)
        /\ End(k, "committed") /\ UNCHANGED <<clock, facts>> /\ call[k].step = "write"
        /\ queue' = [queue EXCEPT ![r].candidate = c]
    BY DEF CommitEdit, Recorded
  <1>2. facts' \in Seq(FactRows) /\ DOMAIN facts \subseteq DOMAIN facts'
    BY <1>1 DEF IInv, Types
  <1>3. /\ r \in Reviews /\ p \in Reviewers /\ c \in Candidates
        /\ t \in 0 .. MaxTime /\ t \in 0 .. clock
        /\ call[k].before \in Candidates /\ queue[r].candidate = call[k].before
        /\ queue[r].status = "queued" /\ queue[r].fact = NoFact /\ Allowed(p, t)
    BY <1>1, WriterKnows
  <1> HIDE DEF c
  <1>4. row \in Rows /\ row.fact = NoFact /\ row.status = "queued" /\ row.candidate = c
    BY <1>3 DEF Rows, Optional, IInv, Types
  <1>5. e \in Entries /\ e.reviewer = p /\ e.at = t
    BY <1>3 DEF Action, Entries, Verdicts, Optional, NoFact
  <1>6. IInv'
    <2> HIDE DEF e, row
    <2> QED
      BY <1>1, <1>2, <1>3, <1>4, <1>5, VerdictKeeps
  <1>7. Edit(r, p, c, t)
    BY <1>1, <1>3 DEF Edit
  <1> QED
    BY <1>3, <1>6, <1>7 DEF LedgerNext

(* A step that leaves the queue, the actions and the clock alone, and      *)
(* only adds facts.                                                        *)
LEMMA LinkKeeps ==
    ASSUME IInv, NEW k \in Calls, Link(k)
    PROVE  IInv' /\ [LedgerNext]_ledger
  <1> DEFINE f == call[k].older
             c == call[k].candidate
             fs == [facts EXCEPT ![f].superseded_by = Len(facts) + 1]
  <1>1. CASE ~(Unindexed(c) /\ Current(f))
    <2>1. Reads /\ (End(k, "conflicted") \/ End(k, "refused"))
      BY <1>1 DEF Link
    <2> QED
      BY <2>1, RefusedKeeps DEF Ended, Reads
  <1>2. CASE Unindexed(c) /\ Current(f)
    <2>1. /\ facts' = Append(fs, Fact(c, f)) /\ End(k, "committed")
          /\ UNCHANGED <<clock, queue, actions>> /\ call[k].step = "link"
      BY <1>2 DEF Link
    <2>2. f \in DOMAIN facts /\ f \in Nat /\ c \in Candidates
      BY <2>1, CallTyped DEF IInv, LocksOK, CallRows
    <2>3. facts \in Seq(FactRows) /\ Len(facts) \in Nat
      BY DEF IInv, Types
    <2>4. fs \in Seq(FactRows) /\ Len(fs) = Len(facts)
      <3>1. [facts[f] EXCEPT !.superseded_by = Len(facts) + 1] \in FactRows
        <4>1. \A row \in FactRows, n \in Nat : [row EXCEPT !.superseded_by = n] \in FactRows
          BY DEF FactRows
        <4>2. facts[f] \in FactRows /\ Len(facts) + 1 \in Nat
          BY <2>2, <2>3
        <4> HIDE DEF f
        <4> QED
          BY <4>1, <4>2
      <3> QED
        BY <2>2, <2>3, <3>1
    <2>5. facts' \in Seq(FactRows) /\ DOMAIN facts \subseteq DOMAIN facts'
      <3> HIDE DEF fs, c, f
      <3> QED
        BY <2>1, <2>2, <2>3, <2>4, FactAppended
    <2>6. PICK q \in CallRows : call' = [call EXCEPT ![k] = q] /\ q.step = "committed" /\ q.at = 0
      BY <2>1, EndFits DEF Ended
    <2>7. /\ call'[k] = q /\ \A j \in Calls \ {k} : call'[j] = call[j]
          /\ call' \in [Calls -> CallRows]
      BY <2>6 DEF IInv, Types
    <2>8. Types' /\ RowsOK' /\ ThroughputRespected'
      BY <2>1, <2>5, <2>7 DEF IInv, Types, RowsOK, ThroughputRespected
    <2>9. LocksOK'
      BY <2>1, <2>5, <2>6, <2>7, LimitAssumption
      DEF IInv, LocksOK, HoldsReview, HoldsReviewer, Allowed, Ended, Types
    <2>10. Supersede(f, c)
      BY <1>2, <2>1 DEF Supersede, Current
    <2> QED
      BY <2>2, <2>8, <2>9, <2>10 DEF IInv, LedgerNext
  <1> QED
    BY <1>1, <1>2

(* Steps of the ledger that no call makes.                                 *)
LEMMA EnqueueKeeps ==
    ASSUME IInv, NEW r \in Reviews, NEW c \in Candidates, QueueFactReview(r, c)
    PROVE  IInv'
  <1> DEFINE row == [status |-> "queued", candidate |-> c, fact |-> NoFact]
  <1>1. /\ queue' = [queue EXCEPT ![r] = row] /\ queue[r].status = "absent"
        /\ UNCHANGED <<clock, facts, actions, call>>
    BY DEF QueueFactReview, Enqueue
  <1>2. row \in Rows /\ row.status = "queued" /\ row.fact = NoFact /\ row.candidate = c
    BY DEF Rows, Optional, NoFact
  <1>3. /\ queue'[r] = row /\ \A s \in Reviews \ {r} : queue'[s] = queue[s]
        /\ queue' \in [Reviews -> Rows]
    BY <1>1, <1>2 DEF IInv, Types
  <1>4. Types' /\ RowsOK' /\ ThroughputRespected'
    BY <1>1, <1>2, <1>3 DEF IInv, Types, RowsOK, ThroughputRespected
  <1>5. \A k \in Calls : HoldsReview(k) => queue'[call[k].review] = queue[call[k].review]
    <2>1. \A k \in Calls : call[k].review \in Reviews
      BY CallTyped DEF CallRows
    <2> QED
      BY <1>1, <1>3, <2>1 DEF IInv, LocksOK
  <1>6. LocksOK'
    BY <1>1, <1>5 DEF IInv, LocksOK, HoldsReview, HoldsReviewer, Allowed
  <1> QED
    BY <1>4, <1>6 DEF IInv

LEMMA CreateFactKeeps ==
    ASSUME IInv, NEW c \in Candidates, CreateFact(c)
    PROVE  IInv'
  <1>1. /\ facts' = Append(facts, Fact(c, NoFact)) /\ UNCHANGED <<clock, queue, actions, call>>
    BY DEF CreateFact, AddFact
  <1>2. facts' \in Seq(FactRows) /\ DOMAIN facts \subseteq DOMAIN facts'
    BY <1>1, FactAppended DEF IInv, Types, NoFact
  <1>3. Types' /\ RowsOK' /\ ThroughputRespected'
    BY <1>1, <1>2 DEF IInv, Types, RowsOK, ThroughputRespected
  <1>4. LocksOK'
    BY <1>1, <1>2 DEF IInv, LocksOK, HoldsReview, HoldsReviewer, Allowed
  <1> QED
    BY <1>3, <1>4 DEF IInv

LEMMA TimeKeeps == IInv /\ Time => IInv'
  <1> SUFFICES ASSUME IInv, Time PROVE IInv'
    OBVIOUS
  <1>1. clock < MaxTime /\ clock' = clock + 1 /\ UNCHANGED <<queue, facts, actions, call>>
    BY DEF Time, Tick
  <1>2. Types' /\ RowsOK' /\ ThroughputRespected'
    BY <1>1, LimitAssumption DEF IInv, Types, RowsOK, ThroughputRespected
  <1>3. \A k \in Calls : call[k].at \in Nat
    BY CallTyped, LimitAssumption DEF CallRows
  <1>4. \A k \in Calls : call[k].at <= clock'
    BY <1>1, <1>3, LimitAssumption DEF IInv, LocksOK, Types
  <1>5. LocksOK'
    BY <1>1, <1>4 DEF IInv, LocksOK, HoldsReview, HoldsReviewer, Allowed
  <1> QED
    BY <1>2, <1>5 DEF IInv

-----------------------------------------------------------------------------
(* Every step keeps the invariant and is a step of the ledger or none.     *)
LEMMA NextStep == IInv /\ [FactNext]_factVars => IInv' /\ [LedgerNext]_ledger
  <1> SUFFICES ASSUME IInv, [FactNext]_factVars PROVE IInv' /\ [LedgerNext]_ledger
    OBVIOUS
  <1>1. CASE UNCHANGED factVars
    <2>1. UNCHANGED <<clock, queue, facts, actions, call>>
      BY <1>1 DEF factVars
    <2> QED
      BY <2>1 DEF IInv, Types, RowsOK, LocksOK, HoldsReview, HoldsReviewer, Allowed,
                  ThroughputRespected, ledger
  <1>2. CASE Time
    BY <1>2, TimeKeeps DEF Time, LedgerNext
  <1>3. ASSUME NEW r \in Reviews, NEW c \in Candidates, QueueFactReview(r, c)
        PROVE  IInv' /\ [LedgerNext]_ledger
    BY <1>3, EnqueueKeeps DEF QueueFactReview, LedgerNext
  <1>4. ASSUME NEW c \in Candidates, CreateFact(c)
        PROVE  IInv' /\ [LedgerNext]_ledger
    BY <1>4, CreateFactKeeps DEF CreateFact, LedgerNext
  <1>5. ASSUME NEW k \in Calls, Begin(k) \/ BeginSupersede(k) \/ Progress(k) \/ Fail(k)
        PROVE  IInv' /\ [LedgerNext]_ledger
    <2>1. CASE Begin(k)
      BY <2>1, BeginKeeps DEF Begin, Reads
    <2>2. CASE BeginSupersede(k)
      BY <2>2, BeginSupersedeKeeps DEF BeginSupersede, Reads
    <2>3. CASE LockReview(k)
      BY <2>3, LockReviewKeeps DEF LockReview, Reads
    <2>4. CASE LockReviewer(k)
      BY <2>4, LockReviewerKeeps DEF LockReviewer, Reads
    <2>5. CASE Count(k)
      BY <2>5, CountKeeps DEF Count, Reads
    <2>6. CASE CommitApproval(k)
      BY <2>6, CommitApprovalKeeps
    <2>7. CASE CommitRejection(k)
      BY <2>7, CommitRejectionKeeps
    <2>8. CASE CommitEdit(k)
      BY <2>8, CommitEditKeeps
    <2>9. CASE LockFact(k)
      BY <2>9, LockFactKeeps DEF LockFact, Reads
    <2>10. CASE Link(k)
      BY <2>10, LinkKeeps
    <2>11. CASE Fail(k)
      BY <2>11, FailKeeps DEF Fail, Reads
    <2> QED
      BY <1>5, <2>1, <2>2, <2>3, <2>4, <2>5, <2>6, <2>7, <2>8, <2>9, <2>10, <2>11 DEF Progress
  <1> QED
    BY <1>1, <1>2, <1>3, <1>4, <1>5 DEF FactNext

LEMMA Invariance == FactSpec => []IInv
  BY InitInv, NextStep, PTL DEF FactSpec

(* The tables and the calls keep their types, and a queue row its check    *)
(* constraint, in every behaviour.                                         *)
THEOREM FactTypeCorrect == FactSpec => []FactTypeOK
  <1>1. IInv => FactTypeOK
    BY DEF IInv, Types, RowsOK, FactTypeOK, Rows, FactRows, Entries, CallRows, Optional
  <1> QED
    BY <1>1, Invariance, PTL

(* No window holds more actions of a reviewer than the limit: a call       *)
(* counts under the reviewer's advisory lock, and nobody else acts for     *)
(* the reviewer until it has committed.                                    *)
THEOREM AllowanceKept == FactSpec => []ThroughputRespected
  <1>1. IInv => ThroughputRespected
    BY DEF IInv
  <1> QED
    BY <1>1, Invariance, PTL

(* The transactions of fact-repo.ts with their row and advisory locks      *)
(* implement the ledger in which a verdict is one atomic step that         *)
(* respects the allowance, and a supersession one that finds its fact      *)
(* current.                                                                *)
THEOREM Refinement == FactSpec => ImplementsLedger
  <1>1. FactInit => LedgerInit
    BY DEF FactInit
  <1> QED
    BY <1>1, InitInv, NextStep, PTL DEF FactSpec, LedgerSpec, ImplementsLedger

=============================================================================
