---------------------------- MODULE ServicesProofs ----------------------------
(* Proofs about six components that share no state: the daily call, the      *)
(* tool-call budget of a turn, the stored messages of a chat thread, the     *)
(* activity stream, the history of memos, and the clusters of claims.        *)
EXTENDS DailyCall, TurnPolicy, ThreadMessages, AnalyzeRuns, EventStream, ClaimClusters,
        FiniteSetTheorems, SequenceTheorems, TLAPS

-------------------------------------------------------------------------------
(* The daily call (DailyCall): what was approved and what was published stay *)
(* as they are, and one request at most is told that it approved or          *)
(* published a brief, for any number of requests, briefs, fields and texts.  *)

\* A request that has updated the row still knows it: a published row never
\* changes again.
AnnouncesRow ==
  \A r \in Requests : request[r].at = "announce" =>
    request[r].op = "publish" /\ brief[request[r].of] = request[r].seen
    /\ request[r].seen.status = "published" /\ request[r].seen.snapshot = {r}

\* Only a publication gets beyond its first statement, with a snapshot it sealed.
OnlyPublishSeals ==
  \A r \in Requests : request[r].at = "persist" => request[r].op = "publish" /\ r \in sealed

\* The row a request loaded had the status its operation expects, and nothing
\* had been published with it.
SeenAsExpected ==
  \A r \in Requests : request[r].at \in {"apply", "persist"} =>
    /\ request[r].seen.status = Expected(request[r].op)
    /\ request[r].seen.snapshot = {}
    /\ request[r].seen.reviewer = (request[r].op = "publish")

BriefInv == BriefTypeOK /\ AnnouncesRow /\ OnlyPublishSeals /\ SeenAsExpected

-------------------------------------------------------------------------------
\* Where a request is tells what its record holds.
LEMMA RequestKinds ==
  ASSUME BriefTypeOK, NEW r \in Requests
  PROVE  /\ request[r].at = "new" => request[r] = Idle
         /\ request[r].at = "load" => request[r] \in Loading
         /\ request[r].at \in {"apply", "persist", "announce"} => request[r] \in Working
         /\ request[r].at = "done" => request[r] \in Done
<1>1. request[r] \in {Idle} \cup Loading \cup Working \cup Done
  BY DEF BriefTypeOK
<1>2. Idle.at = "new"
  BY DEF Idle
<1>3. \A q \in Loading : q.at = "load"
  BY DEF Loading
<1>4. \A q \in Working : q.at \in {"apply", "persist", "announce"}
  BY DEF Working
<1>5. \A q \in Done : q.at = "done"
  BY DEF Done
<1> QED
  BY <1>1, <1>2, <1>3, <1>4, <1>5

\* The content an edit writes consists of texts, unless its patch is blank.
LEMMA EditedContent ==
  ASSUME NEW r \in Requests, BriefTypeOK, request[r].at = "apply", request[r].op = "edit",
         Blank \notin {Edited(request[r])[f] : f \in Fields}
  PROVE  Edited(request[r]) \in [Fields -> Texts]
<1> DEFINE q == request[r]
<1>1. q \in Working /\ q.patch \in Patches
  <2>1. q \in Working
    BY RequestKinds
  <2>2. q.patch \in Patches
    BY DEF BriefTypeOK
  <2> QED
    BY <2>1, <2>2
<1>2. PICK g \in Fields : q.patch \in [{g} -> Texts \cup {Blank}]
  BY <1>1 DEF Patches
<1>3. q.seen.content \in [Fields -> Texts]
  BY <1>1 DEF Working, Row
<1>4. \A f \in Fields : Edited(q)[f] # Blank
  OBVIOUS
<1>5. \A f \in Fields : Edited(q)[f] \in Texts
  BY <1>2, <1>3, <1>4 DEF Edited
<1> QED
  BY <1>5 DEF Edited

LEMMA BriefInitInv == BriefInit => BriefInv
<1> SUFFICES ASSUME BriefInit PROVE BriefInv
  OBVIOUS
<1>1. brief = [b \in Briefs |-> None] /\ request = [r \in Requests |-> Idle]
      /\ sealed = {} /\ announced = <<>>
  BY DEF BriefInit
<1>2. \A r \in Requests : request[r].at = "new"
  BY <1>1 DEF Idle
<1>3. \A b \in Briefs : brief[b] = None
  BY <1>1
<1>4. BriefTypeOK
  BY <1>1, <1>2, <1>3 DEF BriefTypeOK
<1> QED
  BY <1>2, <1>4 DEF BriefInv, AnnouncesRow, OnlyPublishSeals, SeenAsExpected

-------------------------------------------------------------------------------
Kinds == {Idle} \cup Loading \cup Working \cup Done

\* An answer ends its request and leaves the others alone.
LEMMA AnswerEffect ==
  ASSUME BriefTypeOK, NEW r \in Requests, request[r] \in Loading \cup Working,
         NEW what \in Answers, NEW shown \in Row \cup {None}, Answer(r, what, shown)
  PROVE  /\ request' \in [Requests -> Kinds]
         /\ request'[r].at = "done"
         /\ \A s \in Requests \ {r} : request'[s] = request[s]
<1>1. request \in [Requests -> Kinds]
  BY DEF BriefTypeOK, Kinds
<1>2. request[r].op \in Ops /\ request[r].of \in Briefs
  BY DEF Loading, Working
<1> DEFINE done == [at |-> "done", op |-> request[r].op, of |-> request[r].of,
                    answer |-> what, shown |-> shown]
<1>3. request' = [request EXCEPT ![r] = done]
  BY DEF Answer
<1>4. done \in Done /\ done.at = "done"
  BY <1>2 DEF Done
<1> HIDE DEF done
<1> QED
  BY <1>1, <1>3, <1>4 DEF Kinds

\* Requests that an action leaves alone, or ends, keep what is said of them.
LEMMA OthersKeep ==
  ASSUME BriefInv, NEW r \in Requests, request' \in [Requests -> Kinds],
         \A s \in Requests \ {r} : request'[s] = request[s],
         request'[r].at = "done",
         brief' \in [Briefs -> Row \cup {None}],
         (\A b \in Briefs : brief[b] # None => Accepted(brief[b]))',
         \A b \in Briefs : brief[b].status = "published" => brief'[b] = brief[b],
         sealed \subseteq sealed', sealed' \subseteq Requests,
         announced' \in Seq([of : Briefs, row : Row])
  PROVE  BriefInv'
<1>1. BriefTypeOK'
  <2>1. \A s \in Requests : request'[s].at \in {"load", "apply"} /\ request'[s].op = "edit"
                             => request'[s].patch \in Patches
    BY DEF BriefInv, BriefTypeOK
  <2> QED
    BY <2>1 DEF BriefTypeOK, Kinds
<1>2. AnnouncesRow'
  <2> SUFFICES ASSUME NEW s \in Requests, request'[s].at = "announce"
               PROVE  /\ request'[s].op = "publish" /\ brief'[request'[s].of] = request'[s].seen
                      /\ request'[s].seen.status = "published"
                      /\ request'[s].seen.snapshot = {s}
    BY DEF AnnouncesRow
  <2>1. s # r /\ request'[s] = request[s]
    OBVIOUS
  <2>2. request[s] \in Working
    BY <2>1, RequestKinds DEF BriefInv
  <2>3. request[s].of \in Briefs
    BY <2>2 DEF Working
  <2>4. /\ request[s].op = "publish" /\ brief[request[s].of] = request[s].seen
        /\ request[s].seen.status = "published" /\ request[s].seen.snapshot = {s}
    BY <2>1 DEF BriefInv, AnnouncesRow
  <2>5. brief'[request[s].of] = brief[request[s].of]
    BY <2>3, <2>4
  <2> QED
    BY <2>1, <2>4, <2>5
<1>3. OnlyPublishSeals'
  BY DEF BriefInv, OnlyPublishSeals
<1>4. SeenAsExpected'
  BY DEF BriefInv, SeenAsExpected, Expected
<1> QED
  BY <1>1, <1>2, <1>3, <1>4 DEF BriefInv

\* A request that ends without having written anything.
LEMMA EndsQuietly ==
  ASSUME BriefInv, NEW r \in Requests, request[r] \in Loading \cup Working,
         NEW what \in Answers, NEW shown \in Row \cup {None}, Answer(r, what, shown),
         UNCHANGED <<brief, sealed, announced>>
  PROVE  BriefInv'
<1>1. BriefTypeOK
  BY DEF BriefInv
<1>2. /\ request' \in [Requests -> Kinds] /\ request'[r].at = "done"
      /\ \A s \in Requests \ {r} : request'[s] = request[s]
  BY <1>1, AnswerEffect
<1>3. (\A b \in Briefs : brief[b] # None => Accepted(brief[b]))'
  BY <1>1 DEF BriefTypeOK, Accepted
<1>4. /\ brief' \in [Briefs -> Row \cup {None}] /\ sealed' \subseteq Requests
      /\ announced' \in Seq([of : Briefs, row : Row])
  BY <1>1 DEF BriefTypeOK
<1> QED
  BY <1>2, <1>3, <1>4, OthersKeep

\* A request that ends after it has written a row that was not published.
LEMMA EndsWriting ==
  ASSUME BriefInv, NEW r \in Requests, request[r] \in Loading \cup Working,
         NEW what \in Answers, NEW shown \in Row \cup {None}, Answer(r, what, shown),
         NEW b \in Briefs, NEW row \in Row, brief[b].status # "published",
         Accepted(row), row.status # "published",
         brief' = [brief EXCEPT ![b] = row],
         UNCHANGED <<sealed, announced>>
  PROVE  BriefInv'
<1>1. BriefTypeOK
  BY DEF BriefInv
<1>2. /\ request' \in [Requests -> Kinds] /\ request'[r].at = "done"
      /\ \A s \in Requests \ {r} : request'[s] = request[s]
  BY <1>1, AnswerEffect
<1>3. (\A c \in Briefs : brief[c] # None => Accepted(brief[c]))'
  BY <1>1 DEF BriefTypeOK, Accepted
<1>4. /\ brief' \in [Briefs -> Row \cup {None}] /\ sealed' \subseteq Requests
      /\ announced' \in Seq([of : Briefs, row : Row])
  BY <1>1 DEF BriefTypeOK
<1>5. \A c \in Briefs : brief[c].status = "published" => brief'[c] = brief[c]
  BY <1>1 DEF BriefTypeOK
<1> QED
  BY <1>2, <1>3, <1>4, <1>5, OthersKeep

\* The row of a brief in draft, with another content or approved, is acceptable.
LEMMA DraftRows ==
  ASSUME BriefTypeOK, NEW b \in Briefs, brief[b].status = "draft"
  PROVE  /\ brief[b] \in Row /\ brief[b].snapshot = {}
         /\ \A content \in [Fields -> Texts] :
              /\ [brief[b] EXCEPT !.content = content] \in Row
              /\ [brief[b] EXCEPT !.content = content].status = "draft"
              /\ Accepted([brief[b] EXCEPT !.content = content])
<1>1. brief[b] \in Row
  BY DEF BriefTypeOK, None
<1>2. Accepted(brief[b])
  BY <1>1 DEF BriefTypeOK, None, Row
<1> QED
  BY <1>1, <1>2 DEF Row, Accepted

-------------------------------------------------------------------------------
\* What an action that moves one request on has to respect.
LEMMA OneMoves ==
  ASSUME BriefInv, NEW r \in Requests, NEW q \in Loading \cup Working,
         request' = [request EXCEPT ![r] = q],
         q.at \in {"load", "apply"} /\ q.op = "edit" => q.patch \in Patches,
         q.at = "announce" =>
           /\ q.op = "publish" /\ brief'[q.of] = q.seen
           /\ q.seen.status = "published" /\ q.seen.snapshot = {r},
         q.at = "persist" => q.op = "publish" /\ r \in sealed',
         q.at \in {"apply", "persist"} =>
           /\ q.seen.status = Expected(q.op) /\ q.seen.snapshot = {}
           /\ q.seen.reviewer = (q.op = "publish"),
         brief' \in [Briefs -> Row \cup {None}],
         (\A b \in Briefs : brief[b] # None => Accepted(brief[b]))',
         \A b \in Briefs : brief[b].status = "published" => brief'[b] = brief[b],
         sealed \subseteq sealed', sealed' \subseteq Requests, announced' = announced
  PROVE  BriefInv'
<1>1. request \in [Requests -> Kinds] /\ announced \in Seq([of : Briefs, row : Row])
  BY DEF BriefInv, BriefTypeOK, Kinds
<1>2. request'[r] = q /\ \A s \in Requests \ {r} : request'[s] = request[s]
  BY <1>1
<1>3. request' \in [Requests -> Kinds]
  BY <1>1 DEF Kinds
<1>4. BriefTypeOK'
  <2>1. \A s \in Requests : request'[s].at \in {"load", "apply"} /\ request'[s].op = "edit"
                             => request'[s].patch \in Patches
    BY <1>2 DEF BriefInv, BriefTypeOK
  <2> QED
    BY <1>1, <1>3, <2>1 DEF BriefTypeOK, Kinds
<1>5. AnnouncesRow'
  <2> SUFFICES ASSUME NEW s \in Requests, request'[s].at = "announce"
               PROVE  /\ request'[s].op = "publish" /\ brief'[request'[s].of] = request'[s].seen
                      /\ request'[s].seen.status = "published"
                      /\ request'[s].seen.snapshot = {s}
    BY DEF AnnouncesRow
  <2>1. CASE s = r
    BY <1>2, <2>1
  <2>2. CASE s # r
    <3>1. request'[s] = request[s]
      BY <1>2, <2>2
    <3>2. request[s] \in Working
      BY <3>1, RequestKinds DEF BriefInv
    <3>3. request[s].of \in Briefs
      BY <3>2 DEF Working
    <3>4. /\ request[s].op = "publish" /\ brief[request[s].of] = request[s].seen
          /\ request[s].seen.status = "published" /\ request[s].seen.snapshot = {s}
      BY <3>1 DEF BriefInv, AnnouncesRow
    <3>5. brief'[request[s].of] = brief[request[s].of]
      BY <3>3, <3>4
    <3> QED
      BY <3>1, <3>4, <3>5
  <2> QED
    BY <2>1, <2>2
<1>6. OnlyPublishSeals'
  BY <1>2 DEF BriefInv, OnlyPublishSeals
<1>7. SeenAsExpected'
  BY <1>2 DEF BriefInv, SeenAsExpected, Expected
<1> QED
  BY <1>4, <1>5, <1>6, <1>7 DEF BriefInv

LEMMA BeginKeeps ==
  ASSUME BriefInv, NEW r \in Requests, NEW b \in Briefs,
         \/ \E op \in {"approve", "publish"} : Begin(r, b, op, <<>>)
         \/ \E patch \in Patches : Begin(r, b, "edit", patch)
  PROVE  BriefInv'
<1>1. PICK op \in Ops, patch \in Patches \cup {<<>>} :
        /\ Begin(r, b, op, patch)
        /\ op = "edit" => patch \in Patches
  BY DEF Ops
<1> DEFINE q == [at |-> "load", op |-> op, of |-> b, patch |-> patch, seen |-> None]
<1>2. request' = [request EXCEPT ![r] = q] /\ UNCHANGED <<brief, sealed, announced>>
  BY <1>1 DEF Begin
<1>3. /\ q \in Loading /\ q.at = "load"
      /\ q.op = "edit" => q.patch \in Patches
  BY <1>1 DEF Loading
<1> HIDE DEF q
<1>4. /\ brief' \in [Briefs -> Row \cup {None}] /\ sealed' \subseteq Requests
      /\ (\A c \in Briefs : brief[c] # None => Accepted(brief[c]))'
  BY <1>2 DEF BriefInv, BriefTypeOK, Accepted
<1> QED
  BY <1>2, <1>3, <1>4, OneMoves

LEMMA CreateKeeps ==
  ASSUME BriefInv, NEW b \in Briefs, Create(b)
  PROVE  BriefInv'
<1> DEFINE row == [status |-> "draft", content |-> [f \in Fields |-> Seeded],
                   reviewer |-> FALSE, snapshot |-> {}]
<1>1. /\ brief[b] = None /\ brief' = [brief EXCEPT ![b] = row]
      /\ UNCHANGED <<request, sealed, announced>>
  BY DEF Create
<1>2. row \in Row /\ Accepted(row)
  BY BriefConstants DEF Row, Accepted
<1> HIDE DEF row
<1>3. BriefTypeOK'
  BY <1>1, <1>2 DEF BriefInv, BriefTypeOK, Accepted
<1>4. AnnouncesRow'
  <2> SUFFICES ASSUME NEW r \in Requests, request[r].at = "announce"
               PROVE  brief'[request[r].of] = brief[request[r].of]
    BY <1>1 DEF BriefInv, AnnouncesRow
  <2>1. brief[request[r].of].status = "published"
    BY DEF BriefInv, AnnouncesRow
  <2>2. brief[b].status # "published"
    BY <1>1 DEF None
  <2> QED
    BY <1>1, <2>1, <2>2 DEF BriefInv, BriefTypeOK
<1> QED
  BY <1>1, <1>3, <1>4 DEF BriefInv, OnlyPublishSeals, SeenAsExpected

LEMMA LoadKeeps ==
  ASSUME BriefInv, NEW r \in Requests, Load(r)
  PROVE  BriefInv'
<1> DEFINE row == brief[request[r].of]
<1>1. request[r] \in Loading /\ request[r].at = "load"
  BY RequestKinds DEF BriefInv, Load
<1>2. request[r].of \in Briefs /\ request[r].op \in Ops
  BY <1>1 DEF Loading
<1>3. row \in Row \cup {None}
  BY <1>2 DEF BriefInv, BriefTypeOK
<1>4. UNCHANGED <<brief, sealed, announced>>
  BY DEF Load
<1>5. CASE \E what \in Answers : Answer(r, what, row)
  BY <1>1, <1>3, <1>4, <1>5, EndsQuietly
<1>6. CASE /\ row.status = Expected(request[r].op)
           /\ request' = [request EXCEPT ![r].at = "apply", ![r].seen = row]
  <2> DEFINE q == [request[r] EXCEPT !.at = "apply", !.seen = row]
  <2>1. row \in Row
    BY <1>3, <1>6 DEF None, Expected
  <2>2. Accepted(row)
    BY <1>2, <1>6 DEF BriefInv, BriefTypeOK, None, Expected
  <2>3. request' = [request EXCEPT ![r] = q]
    BY <1>6 DEF BriefInv, BriefTypeOK
  <2>4. /\ q \in Working /\ q.at = "apply" /\ q.op = request[r].op
        /\ q.patch = request[r].patch /\ q.seen = row
    BY <1>1, <2>1 DEF Loading, Working
  <2>5. /\ q.seen.status = Expected(q.op) /\ q.seen.snapshot = {}
        /\ q.seen.reviewer = (q.op = "publish")
    BY <1>2, <1>6, <2>1, <2>2, <2>4 DEF Accepted, Expected, Ops, Row
  <2>6. q.op = "edit" => q.patch \in Patches
    BY <1>1, <2>4 DEF BriefInv, BriefTypeOK
  <2>7. /\ brief' \in [Briefs -> Row \cup {None}] /\ sealed' \subseteq Requests
        /\ (\A c \in Briefs : brief[c] # None => Accepted(brief[c]))'
    BY <1>4 DEF BriefInv, BriefTypeOK, Accepted
  <2> HIDE DEF q
  <2> QED
    BY <1>4, <2>3, <2>4, <2>5, <2>6, <2>7, OneMoves
<1> QED
  BY <1>5, <1>6 DEF Load, Answers

\* The row an edit leaves, and the row an approval leaves: neither is published.
LEMMA EditedRow ==
  ASSUME BriefInv, NEW r \in Requests, request[r].at = "apply", request[r].op = "edit",
         Blank \notin {Edited(request[r])[f] : f \in Fields},
         UpdateDraft(request[r].of, Edited(request[r]))
  PROVE  /\ request[r].of \in Briefs /\ brief[request[r].of].status = "draft"
         /\ \E row \in Row : /\ brief' = [brief EXCEPT ![request[r].of] = row]
                             /\ brief'[request[r].of] = row
                             /\ Accepted(row) /\ row.status = "draft"
<1> DEFINE b == request[r].of
           content == Edited(request[r])
           row == [brief[b] EXCEPT !.content = content]
<1>1. BriefTypeOK
  BY DEF BriefInv
<1>2. b \in Briefs
  BY <1>1, RequestKinds DEF Working
<1>3. content \in [Fields -> Texts]
  BY <1>1, EditedContent
<1>4. brief[b].status = "draft" /\ brief' = [brief EXCEPT ![b].content = content]
  BY DEF UpdateDraft
<1>5. row \in Row /\ row.status = "draft" /\ Accepted(row)
  <2> HIDE DEF content, b
  <2> QED
    BY <1>1, <1>2, <1>3, <1>4, DraftRows
<1>6. brief' = [brief EXCEPT ![b] = row] /\ brief'[b] = row
  BY <1>1, <1>2, <1>4 DEF BriefTypeOK
<1> HIDE DEF row
<1> QED
  BY <1>2, <1>4, <1>5, <1>6

\* What persistBriefState writes, of a request whose brief has not moved on.
LEMMA PersistedRow ==
  ASSUME BriefInv, NEW r \in Requests, request[r].at \in {"apply", "persist"},
         NEW expected \in {"draft", "approved"}, NEW next \in Row,
         PersistState(request[r].of, expected, next)
  PROVE  /\ request[r].of \in Briefs /\ brief[request[r].of].status = expected
         /\ \E row \in Row : /\ brief' = [brief EXCEPT ![request[r].of] = row]
                             /\ brief'[request[r].of] = row
                             /\ row.status = next.status /\ row.snapshot = next.snapshot
                             /\ row.reviewer = next.reviewer
                             /\ row.content = brief[request[r].of].content
<1> DEFINE b == request[r].of
           row == [next EXCEPT !.content = brief[b].content]
<1>1. request[r] \in Working
  BY RequestKinds DEF BriefInv
<1>2. b \in Briefs /\ request[r].seen \in Row
  BY <1>1 DEF Working
<1>3. /\ brief[b].status = expected
      /\ brief' = [brief EXCEPT ![b] = row]
  BY DEF PersistState
<1>4. brief[b] \in Row
  BY <1>2, <1>3 DEF BriefInv, BriefTypeOK, None
<1>5. /\ row \in Row /\ row.status = next.status /\ row.snapshot = next.snapshot
      /\ row.reviewer = next.reviewer /\ row.content = brief[b].content
  BY <1>4 DEF Row
<1>6. brief'[b] = row
  BY <1>2, <1>3 DEF BriefInv, BriefTypeOK
<1> HIDE DEF row
<1> QED
  BY <1>2, <1>3, <1>5, <1>6

\* A request that has edited or approved its brief, whether or not it can say so.
LEMMA Writes ==
  ASSUME BriefInv, NEW r \in Requests, request[r].at = "apply",
         \/ /\ request[r].op = "edit"
            /\ Blank \notin {Edited(request[r])[f] : f \in Fields}
            /\ UpdateDraft(request[r].of, Edited(request[r]))
         \/ /\ request[r].op = "approve"
            /\ PersistState(request[r].of, "draft",
                 [request[r].seen EXCEPT !.status = "approved", !.reviewer = TRUE])
  PROVE  /\ request[r] \in Working
         /\ request[r].of \in Briefs /\ brief[request[r].of].status = "draft"
         /\ \E row \in Row : /\ brief' = [brief EXCEPT ![request[r].of] = row]
                             /\ brief'[request[r].of] = row
                             /\ Accepted(row) /\ row.status # "published"
<1>1. request[r] \in Working
  BY RequestKinds DEF BriefInv
<1>2. CASE request[r].op = "edit"
  BY <1>1, <1>2, EditedRow
<1>3. CASE request[r].op = "approve"
  <2> PICK next : next = [request[r].seen EXCEPT !.status = "approved", !.reviewer = TRUE]
    OBVIOUS
  <2>1. request[r].seen \in Row /\ request[r].seen.snapshot = {}
    BY <1>1 DEF BriefInv, SeenAsExpected, Working
  <2>2. next \in Row /\ next.status = "approved" /\ next.snapshot = {} /\ next.reviewer = TRUE
    BY <2>1 DEF Row
  <2>3. PersistState(request[r].of, "draft", next)
    BY <1>3
  <2>4. request[r].at \in {"apply", "persist"} /\ "draft" \in {"draft", "approved"}
    OBVIOUS
  <2>5. /\ request[r].of \in Briefs /\ brief[request[r].of].status = "draft"
        /\ \E row \in Row : /\ brief' = [brief EXCEPT ![request[r].of] = row]
                            /\ brief'[request[r].of] = row
                            /\ row.status = next.status /\ row.snapshot = next.snapshot
                            /\ row.reviewer = next.reviewer
                            /\ row.content = brief[request[r].of].content
    BY <2>2, <2>3, <2>4, PersistedRow
  <2> QED
    BY <1>1, <2>2, <2>5 DEF Accepted
<1> QED
  BY <1>2, <1>3

-------------------------------------------------------------------------------
\* A write and an answer together, whatever the answer shows.
LEMMA WritesAndEnds ==
  ASSUME BriefInv, NEW r \in Requests, request[r].at = "apply",
         \/ /\ request[r].op = "edit"
            /\ Blank \notin {Edited(request[r])[f] : f \in Fields}
            /\ UpdateDraft(request[r].of, Edited(request[r]))
         \/ /\ request[r].op = "approve"
            /\ PersistState(request[r].of, "draft",
                 [request[r].seen EXCEPT !.status = "approved", !.reviewer = TRUE]),
         Answer(r, "ok", brief'[request[r].of]) \/ Answer(r, "error", None),
         UNCHANGED <<sealed, announced>>
  PROVE  BriefInv'
<1>1. /\ request[r] \in Working
      /\ request[r].of \in Briefs /\ brief[request[r].of].status = "draft"
      /\ \E row \in Row : /\ brief' = [brief EXCEPT ![request[r].of] = row]
                          /\ brief'[request[r].of] = row
                          /\ Accepted(row) /\ row.status # "published"
  BY Writes
<1>2. PICK row \in Row : /\ brief' = [brief EXCEPT ![request[r].of] = row]
                         /\ brief'[request[r].of] = row
                         /\ Accepted(row) /\ row.status # "published"
  BY <1>1
<1>3. PICK b \in Briefs : b = request[r].of
  BY <1>1
<1>4. brief[b].status # "published" /\ brief' = [brief EXCEPT ![b] = row]
  BY <1>1, <1>2, <1>3
<1>5. CASE Answer(r, "error", None)
  BY <1>1, <1>2, <1>4, <1>5, EndsWriting DEF Answers
<1>6. CASE Answer(r, "ok", brief'[request[r].of])
  <2>1. Answer(r, "ok", row)
    BY <1>2, <1>6
  <2> QED
    BY <1>1, <1>2, <1>4, <2>1, EndsWriting DEF Answers
<1> QED
  BY <1>5, <1>6

LEMMA EditKeeps ==
  ASSUME BriefInv, NEW r \in Requests, Edit(r)
  PROVE  BriefInv'
<1>1. request[r].at = "apply" /\ request[r].op = "edit" /\ UNCHANGED <<sealed, announced>>
  BY DEF Edit
<1>2. request[r] \in Working /\ request[r].seen \in Row
  BY <1>1, RequestKinds DEF BriefInv, Working
<1>3. CASE Answer(r, "invalid", request[r].seen) /\ UNCHANGED brief
  BY <1>1, <1>2, <1>3, EndsQuietly DEF Answers
<1>4. CASE /\ Blank \notin {Edited(request[r])[f] : f \in Fields}
           /\ UpdateDraft(request[r].of, Edited(request[r]))
           /\ Applied(r, brief'[request[r].of])
  BY <1>1, <1>4, WritesAndEnds DEF Applied
<1> QED
  BY <1>3, <1>4 DEF Edit

LEMMA ApproveKeeps ==
  ASSUME BriefInv, NEW r \in Requests, Approve(r)
  PROVE  BriefInv'
<1>1. /\ request[r].at = "apply" /\ request[r].op = "approve"
      /\ PersistState(request[r].of, "draft",
           [request[r].seen EXCEPT !.status = "approved", !.reviewer = TRUE])
      /\ Answer(r, "ok", brief'[request[r].of])
      /\ UNCHANGED <<sealed, announced>>
  BY DEF Approve, Applied
<1> QED
  BY <1>1, WritesAndEnds

LEMMA SealKeeps ==
  ASSUME BriefInv, NEW r \in Requests, Seal(r)
  PROVE  BriefInv'
<1> DEFINE q == [request[r] EXCEPT !.at = "persist"]
<1>1. /\ request[r].at = "apply" /\ request[r].op = "publish"
      /\ sealed' = sealed \cup {r} /\ UNCHANGED <<brief, announced>>
      /\ request' = [request EXCEPT ![r].at = "persist"]
  BY DEF Seal, Goto
<1>2. request[r] \in Working
  BY <1>1, RequestKinds DEF BriefInv
<1>3. request' = [request EXCEPT ![r] = q]
  BY <1>1 DEF BriefInv, BriefTypeOK
<1>4. /\ q \in Working /\ q.at = "persist" /\ q.op = "publish"
      /\ q.seen = request[r].seen
  BY <1>1, <1>2 DEF Working
<1>5. /\ q.seen.status = Expected(q.op) /\ q.seen.snapshot = {}
      /\ q.seen.reviewer = (q.op = "publish")
  BY <1>1, <1>4 DEF BriefInv, SeenAsExpected
<1>6. /\ brief' \in [Briefs -> Row \cup {None}]
      /\ sealed \subseteq sealed' /\ sealed' \subseteq Requests /\ r \in sealed'
      /\ (\A c \in Briefs : brief[c] # None => Accepted(brief[c]))'
  BY <1>1 DEF BriefInv, BriefTypeOK, Accepted
<1> HIDE DEF q
<1> QED
  BY <1>1, <1>3, <1>4, <1>5, <1>6, OneMoves

LEMMA PublishKeeps ==
  ASSUME BriefInv, NEW r \in Requests, PublishBrief(r)
  PROVE  BriefInv'
<1> PICK next : next = [request[r].seen EXCEPT !.status = "published", !.snapshot = {r}]
  OBVIOUS
<1>1. /\ request[r].at = "persist"
      /\ PersistState(request[r].of, "approved", next)
      /\ request' = [request EXCEPT ![r].at = "announce", ![r].seen = brief'[request[r].of]]
      /\ UNCHANGED <<sealed, announced>>
  BY DEF PublishBrief
<1>2. request[r] \in Working /\ request[r].op = "publish" /\ r \in sealed
  BY <1>1, RequestKinds DEF BriefInv, OnlyPublishSeals
<1>3. request[r].seen \in Row /\ request[r].seen.reviewer = TRUE
  BY <1>1, <1>2 DEF BriefInv, SeenAsExpected, Working
<1>4. /\ next \in Row /\ next.status = "published" /\ next.snapshot = {r}
      /\ next.reviewer = TRUE
  BY <1>3 DEF Row
<1>5. /\ request[r].of \in Briefs /\ brief[request[r].of].status = "approved"
      /\ \E row \in Row : /\ brief' = [brief EXCEPT ![request[r].of] = row]
                          /\ brief'[request[r].of] = row
                          /\ row.status = next.status /\ row.snapshot = next.snapshot
                          /\ row.reviewer = next.reviewer
                          /\ row.content = brief[request[r].of].content
  BY <1>1, <1>4, PersistedRow
<1>6. PICK row \in Row : /\ brief' = [brief EXCEPT ![request[r].of] = row]
                         /\ brief'[request[r].of] = row
                         /\ row.status = "published" /\ row.snapshot = {r}
                         /\ row.reviewer = TRUE
  BY <1>4, <1>5
<1> DEFINE q == [request[r] EXCEPT !.at = "announce", !.seen = row]
<1>7. request' = [request EXCEPT ![r] = q]
  BY <1>1, <1>6 DEF BriefInv, BriefTypeOK
<1>8. /\ q \in Working /\ q.at = "announce" /\ q.op = "publish" /\ q.seen = row
      /\ q.of = request[r].of
  BY <1>2 DEF Working
<1>9. brief'[q.of] = row
  BY <1>6, <1>8
<1>10. Accepted(row) /\ sealed' = sealed /\ announced' = announced
  BY <1>1, <1>2, <1>6 DEF Accepted
<1>11. /\ brief' \in [Briefs -> Row \cup {None}] /\ sealed' \subseteq Requests
       /\ (\A c \in Briefs : brief[c] # None => Accepted(brief[c]))'
  BY <1>1, <1>5, <1>6, <1>10 DEF BriefInv, BriefTypeOK, Accepted
<1>12. \A b \in Briefs : brief[b].status = "published" => brief'[b] = brief[b]
  BY <1>5, <1>6 DEF BriefInv, BriefTypeOK
<1> HIDE DEF q
<1> QED
  BY <1>6, <1>7, <1>8, <1>9, <1>10, <1>11, <1>12, OneMoves

\* The announcement, and the answer that follows it or is lost.
LEMMA AnnouncedAndEnds ==
  ASSUME BriefInv, NEW r \in Requests, request[r].at = "announce",
         announced' = Append(announced, [of |-> request[r].of, row |-> request[r].seen]),
         UNCHANGED <<brief, sealed>>,
         Answer(r, "ok", request[r].seen) \/ Answer(r, "error", None)
  PROVE  BriefInv'
<1>1. BriefTypeOK
  BY DEF BriefInv
<1>2. request[r] \in Working
  BY <1>1, RequestKinds
<1>3. request[r].of \in Briefs /\ request[r].seen \in Row
  BY <1>2 DEF Working
<1>4. /\ request' \in [Requests -> Kinds] /\ request'[r].at = "done"
      /\ \A s \in Requests \ {r} : request'[s] = request[s]
  BY <1>1, <1>2, <1>3, AnswerEffect DEF Answers
<1>5. announced' \in Seq([of : Briefs, row : Row])
  BY <1>1, <1>3 DEF BriefTypeOK
<1>6. /\ brief' \in [Briefs -> Row \cup {None}] /\ sealed' \subseteq Requests
      /\ (\A b \in Briefs : brief[b] # None => Accepted(brief[b]))'
  BY <1>1 DEF BriefTypeOK, Accepted
<1> QED
  BY <1>4, <1>5, <1>6, OthersKeep

LEMMA EndKeeps ==
  ASSUME BriefInv, NEW r \in Requests, Announce(r) \/ Overtaken(r) \/ Lost(r)
  PROVE  BriefInv'
<1>1. CASE Announce(r)
  BY <1>1, AnnouncedAndEnds DEF Announce, Applied
<1>2. CASE Overtaken(r)
  <2>1. /\ Answer(r, "conflict", brief[request[r].of])
        /\ UNCHANGED <<brief, sealed, announced>>
        /\ request[r].at \in {"apply", "persist"}
    BY <1>2 DEF Overtaken
  <2>2. request[r] \in Working
    BY <2>1, RequestKinds DEF BriefInv
  <2>3. brief[request[r].of] \in Row \cup {None}
    BY <2>2 DEF BriefInv, BriefTypeOK, Working
  <2> QED
    BY <2>1, <2>2, <2>3, EndsQuietly DEF Answers
<1>3. CASE Lost(r)
  <2>1. /\ Answer(r, "error", None) /\ UNCHANGED <<brief, sealed, announced>>
        /\ request[r].at \in {"load", "apply", "persist", "announce"}
    BY <1>3 DEF Lost
  <2>2. request[r] \in Loading \cup Working
    BY <2>1, RequestKinds DEF BriefInv
  <2> QED
    BY <2>1, <2>2, EndsQuietly DEF Answers
<1> QED
  BY <1>1, <1>2, <1>3

LEMMA LostAfterCommitKeeps ==
  ASSUME BriefInv, NEW r \in Requests, LostAfterCommit(r)
  PROVE  BriefInv'
<1>1. Answer(r, "error", None)
  BY DEF LostAfterCommit
<1>2. CASE /\ request[r].at = "apply"
           /\ \/ /\ request[r].op = "edit"
                 /\ Blank \notin {Edited(request[r])[f] : f \in Fields}
                 /\ UpdateDraft(request[r].of, Edited(request[r]))
              \/ /\ request[r].op = "approve"
                 /\ PersistState(request[r].of, "draft",
                      [request[r].seen EXCEPT !.status = "approved", !.reviewer = TRUE])
           /\ UNCHANGED <<sealed, announced>>
  BY <1>1, <1>2, WritesAndEnds
<1>3. CASE /\ request[r].at = "apply" /\ request[r].op = "publish"
           /\ sealed' = sealed \cup {r} /\ UNCHANGED <<brief, announced>>
  <2>1. BriefTypeOK /\ request[r] \in Working
    BY <1>3, RequestKinds DEF BriefInv
  <2>2. /\ request' \in [Requests -> Kinds] /\ request'[r].at = "done"
        /\ \A s \in Requests \ {r} : request'[s] = request[s]
    BY <1>1, <2>1, AnswerEffect DEF Answers
  <2>3. /\ brief' \in [Briefs -> Row \cup {None}]
        /\ sealed \subseteq sealed' /\ sealed' \subseteq Requests
        /\ announced' \in Seq([of : Briefs, row : Row])
        /\ (\A c \in Briefs : brief[c] # None => Accepted(brief[c]))'
    BY <1>3, <2>1 DEF BriefTypeOK, Accepted
  <2> QED
    BY <1>3, <2>2, <2>3, OthersKeep
<1>4. CASE /\ request[r].at = "announce"
           /\ announced' = Append(announced, [of |-> request[r].of, row |-> request[r].seen])
           /\ UNCHANGED <<brief, sealed>>
  BY <1>1, <1>4, AnnouncedAndEnds
<1> QED
  BY <1>2, <1>3, <1>4 DEF LostAfterCommit

LEMMA BriefStepInv == BriefInv /\ [BriefNext]_briefVars => BriefInv'
<1> SUFFICES ASSUME BriefInv, [BriefNext]_briefVars PROVE BriefInv'
  OBVIOUS
<1>1. CASE \E b \in Briefs : Create(b)
  BY <1>1, CreateKeeps
<1>2. CASE \E r \in Requests, b \in Briefs :
             \/ \E op \in {"approve", "publish"} : Begin(r, b, op, <<>>)
             \/ \E patch \in Patches : Begin(r, b, "edit", patch)
  BY <1>2, BeginKeeps
<1>3. CASE \E r \in Requests : Handle(r)
  BY <1>3, LoadKeeps, EditKeeps, ApproveKeeps, SealKeeps, PublishKeeps, EndKeeps,
     LostAfterCommitKeeps DEF Handle
<1>4. CASE UNCHANGED briefVars
  BY <1>4 DEF BriefInv, BriefTypeOK, AnnouncesRow, OnlyPublishSeals, SeenAsExpected,
     Accepted, Expected, briefVars
<1> QED
  BY <1>1, <1>2, <1>3, <1>4 DEF BriefNext

\* Every row the table ever holds is one its constraints accept: a brief that left
\* the draft has a reviewer, and a published one names a snapshot that was sealed.
THEOREM BriefTypeCorrect == BriefSpec => []BriefTypeOK
<1>1. BriefInv => BriefTypeOK
  BY DEF BriefInv
<1> QED
  BY <1>1, BriefInitInv, BriefStepInv, PTL DEF BriefSpec

-------------------------------------------------------------------------------
\* What FixedOnceApproved says of a step.
Fixed ==
  \A b \in Briefs :
    /\ brief[b].status \in {"approved", "published"} =>
         /\ brief'[b].content = brief[b].content
         /\ brief'[b].status \in {brief[b].status, "published"}
    /\ brief[b].status = "published" => brief'[b] = brief[b]

\* A step that replaces one row, of a brief that was not approved yet.
LEMMA FixedByDraft ==
  ASSUME BriefTypeOK, NEW b \in Briefs, NEW row \in Row,
         brief[b].status \notin {"approved", "published"},
         brief' = [brief EXCEPT ![b] = row]
  PROVE  Fixed
BY DEF BriefTypeOK, Fixed

LEMMA FixedByWrite ==
  ASSUME BriefInv, NEW r \in Requests, request[r].at = "apply",
         \/ /\ request[r].op = "edit"
            /\ Blank \notin {Edited(request[r])[f] : f \in Fields}
            /\ UpdateDraft(request[r].of, Edited(request[r]))
         \/ /\ request[r].op = "approve"
            /\ PersistState(request[r].of, "draft",
                 [request[r].seen EXCEPT !.status = "approved", !.reviewer = TRUE])
  PROVE  Fixed
<1>1. /\ request[r].of \in Briefs /\ brief[request[r].of].status = "draft"
      /\ \E row \in Row : /\ brief' = [brief EXCEPT ![request[r].of] = row]
                          /\ brief'[request[r].of] = row
                          /\ Accepted(row) /\ row.status # "published"
  BY Writes
<1> QED
  BY <1>1, FixedByDraft DEF BriefInv

LEMMA FixedByPublish ==
  ASSUME BriefInv, NEW r \in Requests, PublishBrief(r)
  PROVE  Fixed
<1> PICK next : next = [request[r].seen EXCEPT !.status = "published", !.snapshot = {r}]
  OBVIOUS
<1>1. request[r].at = "persist" /\ PersistState(request[r].of, "approved", next)
  BY DEF PublishBrief
<1>2. request[r].seen \in Row
  BY <1>1, RequestKinds DEF BriefInv, Working
<1>3. next \in Row /\ next.status = "published"
  BY <1>2 DEF Row
<1>4. /\ request[r].of \in Briefs /\ brief[request[r].of].status = "approved"
      /\ \E row \in Row : /\ brief' = [brief EXCEPT ![request[r].of] = row]
                          /\ brief'[request[r].of] = row
                          /\ row.status = next.status /\ row.snapshot = next.snapshot
                          /\ row.reviewer = next.reviewer
                          /\ row.content = brief[request[r].of].content
  BY <1>1, <1>3, PersistedRow
<1> QED
  BY <1>3, <1>4 DEF BriefInv, BriefTypeOK, Fixed

LEMMA StepFixed == BriefInv /\ [BriefNext]_briefVars => Fixed
<1> SUFFICES ASSUME BriefInv, [BriefNext]_briefVars PROVE Fixed
  OBVIOUS
<1>1. CASE UNCHANGED brief
  BY <1>1 DEF BriefInv, BriefTypeOK, Fixed
<1>2. ASSUME NEW b \in Briefs, Create(b) PROVE Fixed
  <2>1. [status |-> "draft", content |-> [f \in Fields |-> Seeded],
         reviewer |-> FALSE, snapshot |-> {}] \in Row
    BY BriefConstants DEF Row
  <2>2. brief[b].status = "none"
    BY <1>2 DEF Create, None
  <2> QED
    BY <1>2, <2>1, <2>2, FixedByDraft DEF Create, BriefInv
<1>3. ASSUME NEW r \in Requests, Handle(r) PROVE Fixed
  <2>1. \/ UNCHANGED brief \/ PublishBrief(r)
        \/ /\ request[r].at = "apply"
           /\ \/ /\ request[r].op = "edit"
                 /\ Blank \notin {Edited(request[r])[f] : f \in Fields}
                 /\ UpdateDraft(request[r].of, Edited(request[r]))
              \/ /\ request[r].op = "approve"
                 /\ PersistState(request[r].of, "draft",
                      [request[r].seen EXCEPT !.status = "approved", !.reviewer = TRUE])
    BY <1>3 DEF Handle, Load, Edit, Approve, Seal, Announce, Overtaken, Lost, LostAfterCommit
  <2> QED
    BY <1>1, <2>1, FixedByWrite, FixedByPublish
<1>4. CASE \E r \in Requests, b \in Briefs :
             \/ \E op \in {"approve", "publish"} : Begin(r, b, op, <<>>)
             \/ \E patch \in Patches : Begin(r, b, "edit", patch)
  BY <1>1, <1>4 DEF Begin
<1> QED
  BY <1>1, <1>2, <1>3, <1>4 DEF BriefNext, briefVars

\* What was approved stays as it was approved, and what was published stays
\* published with its snapshot, whatever requests are under way.
THEOREM ApprovedStays == BriefSpec => FixedOnceApproved
<1>1. BriefInv /\ [BriefNext]_briefVars => [Fixed]_briefVars
  BY StepFixed
<1> QED
  BY <1>1, BriefInitInv, BriefStepInv, PTL DEF BriefSpec, FixedOnceApproved, Fixed

-------------------------------------------------------------------------------
\* A request that is told it approved or published a brief was shown the row kept.
WinnersSeeTheRow ==
  \A r \in Requests : request[r].at = "done" /\ request[r].answer = "ok" =>
    /\ request[r].op = "approve" =>
         /\ brief[request[r].of].status \in {"approved", "published"}
         /\ request[r].shown.content = brief[request[r].of].content
    /\ request[r].op = "publish" =>
         /\ brief[request[r].of].status = "published"
         /\ request[r].shown = brief[request[r].of]
         /\ brief[request[r].of].snapshot = {r}

OneApprover ==
  \A b \in Briefs : \A r, s \in Succeeded("approve", b) : r = s

\* What was announced is the published row, and its publisher has announced it.
AnnouncedOnce ==
  \A i \in 1..Len(announced) :
    /\ announced[i].row = brief[announced[i].of]
    /\ announced[i].row.status = "published"
    /\ \A r \in Requests : request[r].at = "announce" => request[r].of # announced[i].of
    /\ \A j \in 1..(i - 1) : announced[j].of # announced[i].of

Winning == WinnersSeeTheRow /\ OneApprover /\ AnnouncedOnce

WinningInv == BriefInv /\ Winning

\* How a step may move a request on without disturbing the answers given so far.
Moved(r) ==
  /\ \A s \in Requests \ {r} : request'[s] = request[s]
  /\ request'[r].of = request[r].of \/ request'[r].at = "load"
  /\ request'[r].at = "done" /\ request'[r].answer = "ok" /\ request'[r].op = "approve" =>
       /\ brief[request[r].of].status = "draft"
       /\ brief'[request[r].of].status = "approved"
       /\ request'[r].shown.content = brief'[request[r].of].content
  /\ request'[r].at = "done" /\ request'[r].answer = "ok" /\ request'[r].op = "publish" =>
       /\ brief'[request[r].of].status = "published"
       /\ request'[r].shown = brief'[request[r].of]
       /\ brief'[request[r].of].snapshot = {r}
  /\ request'[r].at = "announce" => brief[request[r].of].status = "approved"

Announces(r) ==
  /\ request[r].at = "announce" /\ request'[r].at = "done"
  /\ announced' = Append(announced, [of |-> request[r].of, row |-> request[r].seen])

\* A request that is no longer new names a brief.
LEMMA NamesABrief ==
  ASSUME BriefTypeOK, NEW r \in Requests, request[r].at # "new"
  PROVE  request[r].of \in Briefs
<1>1. request[r] \in Loading \cup Working \cup Done
  BY DEF BriefTypeOK, Idle
<1> QED
  BY <1>1 DEF Loading, Working, Done

LEMMA WinnersKeep ==
  ASSUME WinningInv, BriefInv', Fixed,
         \A r \in Requests : request'[r] = request[r] \/ Moved(r)
  PROVE  WinnersSeeTheRow'
<1> SUFFICES ASSUME NEW r \in Requests, request'[r].at = "done", request'[r].answer = "ok"
             PROVE  /\ request'[r].op = "approve" =>
                         /\ brief'[request'[r].of].status \in {"approved", "published"}
                         /\ request'[r].shown.content = brief'[request'[r].of].content
                    /\ request'[r].op = "publish" =>
                         /\ brief'[request'[r].of].status = "published"
                         /\ request'[r].shown = brief'[request'[r].of]
                         /\ brief'[request'[r].of].snapshot = {r}
  BY DEF WinnersSeeTheRow
<1>1. CASE request'[r] = request[r]
  <2>1. BriefTypeOK /\ WinnersSeeTheRow
    BY DEF WinningInv, BriefInv, Winning
  <2>2. request[r].of \in Briefs
    BY <1>1, <2>1, NamesABrief
  <2> DEFINE b == request[r].of
  <2>3. /\ brief[b].status \in {"approved", "published"} =>
             /\ brief'[b].content = brief[b].content
             /\ brief'[b].status \in {brief[b].status, "published"}
        /\ brief[b].status = "published" => brief'[b] = brief[b]
    BY <2>2 DEF Fixed
  <2> QED
    BY <1>1, <2>1, <2>3 DEF WinnersSeeTheRow
<1>2. CASE Moved(r)
  BY <1>2 DEF Moved
<1> QED
  BY <1>1, <1>2

LEMMA OneApproverKeeps ==
  ASSUME WinningInv, BriefInv', Fixed,
         \A r \in Requests : request'[r] = request[r] \/ Moved(r)
  PROVE  OneApprover'
<1> SUFFICES ASSUME NEW b \in Briefs, NEW r \in Requests, NEW s \in Requests, r # s,
                    request'[r].at = "done", request'[r].op = "approve",
                    request'[r].of = b, request'[r].answer = "ok",
                    request'[s].at = "done", request'[s].op = "approve",
                    request'[s].of = b, request'[s].answer = "ok"
             PROVE  FALSE
  BY DEF OneApprover, Succeeded
<1>1. WinnersSeeTheRow /\ OneApprover
  BY DEF WinningInv, Winning
<1>2. CASE request'[r] = request[r] /\ request'[s] = request[s]
  BY <1>1, <1>2 DEF OneApprover, Succeeded
<1>3. CASE Moved(r)
  BY <1>1, <1>3 DEF Moved, WinnersSeeTheRow
<1>4. CASE Moved(s)
  BY <1>1, <1>4 DEF Moved, WinnersSeeTheRow
<1> QED
  BY <1>2, <1>3, <1>4

\* Two requests that are about to announce are about different briefs.
LEMMA OneAnnouncer ==
  ASSUME BriefInv, NEW r \in Requests, NEW s \in Requests,
         request[r].at = "announce", request[s].at = "announce",
         request[r].of = request[s].of
  PROVE  r = s
<1>1. {r} = {s}
  BY DEF BriefInv, AnnouncesRow
<1> QED
  BY <1>1

LEMMA AnnouncedKeeps ==
  ASSUME WinningInv, BriefInv', Fixed,
         \A r \in Requests : request'[r] = request[r] \/ Moved(r),
         announced' = announced \/ \E r \in Requests : Announces(r)
  PROVE  AnnouncedOnce'
<1>1. AnnouncedOnce /\ announced \in Seq([of : Briefs, row : Row])
  BY DEF WinningInv, BriefInv, Winning, BriefTypeOK
<1>2. ASSUME NEW i \in 1..Len(announced)
      PROVE  /\ announced[i].of \in Briefs
             /\ announced[i].row = brief'[announced[i].of]
             /\ announced[i].row.status = "published"
             /\ \A r \in Requests : request'[r].at = "announce" =>
                  request'[r].of # announced[i].of
  <2>1. announced[i].of \in Briefs
    <3> DEFINE Entries == [of : Briefs, row : Row]
    <3>1. announced \in Seq(Entries) /\ i \in 1..Len(announced)
      BY <1>1
    <3>2. announced[i] \in Entries
      <4> HIDE DEF Entries
      <4> QED
        BY <3>1
    <3> QED
      BY <3>2
  <2>2. announced[i].row = brief[announced[i].of] /\ announced[i].row.status = "published"
    BY <1>1 DEF AnnouncedOnce
  <2>3. announced[i].row = brief'[announced[i].of]
    BY <2>1, <2>2 DEF Fixed
  <2>4. ASSUME NEW r \in Requests, request'[r].at = "announce"
        PROVE  request'[r].of # announced[i].of
    <3>1. CASE request'[r] = request[r]
      BY <1>1, <2>4, <3>1 DEF AnnouncedOnce
    <3>2. CASE Moved(r)
      BY <2>2, <2>4, <3>2 DEF Moved
    <3> QED
      BY <3>1, <3>2
  <2> QED
    BY <2>1, <2>2, <2>3, <2>4
<1>3. CASE announced' = announced
  BY <1>1, <1>2, <1>3 DEF AnnouncedOnce
<1>4. ASSUME NEW r \in Requests, Announces(r) PROVE AnnouncedOnce'
  <2> DEFINE b == request[r].of
             n == Len(announced) + 1
  <2>1. /\ request[r].at = "announce" /\ request'[r].at = "done"
        /\ announced' = Append(announced, [of |-> b, row |-> request[r].seen])
    BY <1>4 DEF Announces
  <2>2. /\ Len(announced') = n /\ n \in Nat
        /\ announced'[n] = [of |-> b, row |-> request[r].seen]
        /\ \A i \in 1..Len(announced) : announced'[i] = announced[i]
    BY <1>1, <2>1
  <2>3. b \in Briefs /\ brief[b] = request[r].seen /\ brief[b].status = "published"
    BY <2>1, NamesABrief DEF WinningInv, BriefInv, AnnouncesRow
  <2>4. brief'[b] = brief[b]
    BY <2>3 DEF Fixed
  <2>5. ASSUME NEW s \in Requests, request'[s].at = "announce"
        PROVE  request'[s].of # b
    <3>1. CASE request'[s] = request[s]
      BY <2>1, <2>5, <3>1, OneAnnouncer DEF WinningInv
    <3>2. CASE Moved(s)
      BY <2>3, <2>5, <3>2 DEF Moved
    <3> QED
      BY <3>1, <3>2
  <2>6. \A j \in 1..Len(announced) : announced[j].of # b
    BY <1>1, <2>1 DEF AnnouncedOnce
  <2>7. ASSUME NEW i \in 1..Len(announced')
        PROVE  /\ announced'[i].row = brief'[announced'[i].of]
               /\ announced'[i].row.status = "published"
               /\ \A s \in Requests : request'[s].at = "announce" => request'[s].of # announced'[i].of
               /\ \A j \in 1..(i - 1) : announced'[j].of # announced'[i].of
    <3>1. Len(announced) \in Nat
      BY <1>1
    <3>2. CASE i = n
      <4>1. announced'[i].of = b /\ announced'[i].row = request[r].seen
        BY <2>2, <3>2
      <4>2. \A j \in 1..(i - 1) : announced'[j].of # b
        BY <2>2, <2>6, <3>1, <3>2
      <4> QED
        BY <2>3, <2>4, <2>5, <4>1, <4>2
    <3>3. CASE i \in 1..Len(announced)
      <4>1. announced'[i] = announced[i] /\ \A j \in 1..(i - 1) : announced'[j] = announced[j]
        BY <2>2, <3>1, <3>3
      <4>2. \A j \in 1..(i - 1) : announced[j].of # announced[i].of
        BY <1>1, <3>3 DEF AnnouncedOnce
      <4> QED
        BY <1>2, <3>3, <4>1, <4>2
    <3> QED
      BY <2>2, <3>1, <3>2, <3>3
  <2> QED
    BY <2>7 DEF AnnouncedOnce
<1> QED
  BY <1>3, <1>4

\* What an answer leaves of its request.
LEMMA AnswerTells ==
  ASSUME BriefTypeOK, NEW r \in Requests, NEW what, NEW shown, Answer(r, what, shown)
  PROVE  /\ \A s \in Requests \ {r} : request'[s] = request[s]
         /\ request'[r].at = "done" /\ request'[r].op = request[r].op
         /\ request'[r].of = request[r].of /\ request'[r].answer = what
         /\ request'[r].shown = shown
BY DEF BriefTypeOK, Answer

\* Answers that claim nothing disturb nothing, and neither does an edit.
LEMMA QuietAnswer ==
  ASSUME BriefTypeOK, NEW r \in Requests, NEW what, NEW shown, Answer(r, what, shown),
         what # "ok" \/ request[r].op = "edit"
  PROVE  Moved(r)
BY AnswerTells DEF Moved

LEMMA ApproveMoves ==
  ASSUME BriefInv, NEW r \in Requests, Approve(r)
  PROVE  Moved(r)
<1> PICK next : next = [request[r].seen EXCEPT !.status = "approved", !.reviewer = TRUE]
  OBVIOUS
<1>1. /\ request[r].at = "apply" /\ request[r].op = "approve"
      /\ PersistState(request[r].of, "draft", next)
      /\ Answer(r, "ok", brief'[request[r].of])
  BY DEF Approve, Applied
<1>2. request[r].seen \in Row
  BY <1>1, RequestKinds DEF BriefInv, Working
<1>3. next \in Row /\ next.status = "approved"
  BY <1>2 DEF Row
<1>4. /\ brief[request[r].of].status = "draft"
      /\ brief'[request[r].of].status = "approved"
  <2>1. request[r].at \in {"apply", "persist"} /\ "draft" \in {"draft", "approved"}
    BY <1>1
  <2>2. PersistState(request[r].of, "draft", next)
    BY <1>1
  <2>3. /\ request[r].of \in Briefs /\ brief[request[r].of].status = "draft"
        /\ \E row \in Row : /\ brief' = [brief EXCEPT ![request[r].of] = row]
                            /\ brief'[request[r].of] = row
                            /\ row.status = next.status /\ row.snapshot = next.snapshot
                            /\ row.reviewer = next.reviewer
                            /\ row.content = brief[request[r].of].content
    BY <1>3, <2>1, <2>2, PersistedRow
  <2> QED
    BY <1>3, <2>3
<1> DEFINE shown == brief'[request[r].of]
<1>5. Answer(r, "ok", shown)
  BY <1>1
<1>6. /\ \A s \in Requests \ {r} : request'[s] = request[s]
      /\ request'[r].at = "done" /\ request'[r].op = "approve"
      /\ request'[r].of = request[r].of /\ request'[r].answer = "ok"
      /\ request'[r].shown = shown
  <2> HIDE DEF shown
  <2> QED
    BY <1>1, <1>5, AnswerTells DEF BriefInv
<1> QED
  BY <1>4, <1>6 DEF Moved

LEMMA PublishMoves ==
  ASSUME BriefInv, NEW r \in Requests, PublishBrief(r)
  PROVE  Moved(r)
<1>1. /\ request[r].at = "persist" /\ brief[request[r].of].status = "approved"
      /\ request' = [request EXCEPT ![r].at = "announce", ![r].seen = brief'[request[r].of]]
  BY DEF PublishBrief, PersistState
<1>2. request[r] \in Working
  BY <1>1, RequestKinds DEF BriefInv
<1>3. /\ \A s \in Requests \ {r} : request'[s] = request[s]
      /\ request'[r].at = "announce" /\ request'[r].of = request[r].of
  BY <1>1, <1>2 DEF BriefInv, BriefTypeOK, Working
<1> QED
  BY <1>1, <1>3 DEF Moved

LEMMA AnnounceMoves ==
  ASSUME BriefInv, NEW r \in Requests, request[r].at = "announce",
         announced' = Append(announced, [of |-> request[r].of, row |-> request[r].seen]),
         UNCHANGED brief,
         Answer(r, "ok", request[r].seen) \/ Answer(r, "error", None)
  PROVE  Moved(r) /\ Announces(r)
<1>1. /\ request[r].op = "publish" /\ brief[request[r].of] = request[r].seen
      /\ request[r].seen.status = "published" /\ request[r].seen.snapshot = {r}
  BY DEF BriefInv, AnnouncesRow
<1>2. CASE Answer(r, "ok", request[r].seen)
  BY <1>1, <1>2, AnswerTells DEF Moved, Announces, BriefInv
<1>3. CASE Answer(r, "error", None)
  BY <1>1, <1>3, AnswerTells DEF Moved, Announces, BriefInv
<1> QED
  BY <1>2, <1>3

\* A request that goes on to its next statement, or starts.
LEMMA GoesOn ==
  ASSUME BriefTypeOK, NEW r \in Requests,
         \/ Seal(r)
         \/ /\ request[r].at = "load"
            /\ request' = [request EXCEPT ![r].at = "apply", ![r].seen = brief[request[r].of]]
         \/ \E b \in Briefs, op \in Ops, patch \in Patches \cup {<<>>} : Begin(r, b, op, patch)
  PROVE  Moved(r)
<1>1. request \in [Requests -> Kinds]
  BY DEF BriefTypeOK, Kinds
<1>2. CASE Seal(r)
  <2>1. request[r] \in Working /\ request' = [request EXCEPT ![r].at = "persist"]
    BY <1>2, RequestKinds DEF Seal, Goto
  <2>2. /\ \A s \in Requests \ {r} : request'[s] = request[s]
        /\ request'[r].at = "persist" /\ request'[r].of = request[r].of
    BY <1>1, <2>1 DEF Working
  <2> QED
    BY <2>2 DEF Moved
<1>3. CASE /\ request[r].at = "load"
           /\ request' = [request EXCEPT ![r].at = "apply", ![r].seen = brief[request[r].of]]
  <2>1. request[r] \in Loading
    BY <1>3, RequestKinds
  <2>2. /\ \A s \in Requests \ {r} : request'[s] = request[s]
        /\ request'[r].at = "apply" /\ request'[r].of = request[r].of
    BY <1>1, <1>3, <2>1 DEF Loading
  <2> QED
    BY <2>2 DEF Moved
<1>4. ASSUME NEW b \in Briefs, NEW op \in Ops, NEW patch \in Patches \cup {<<>>},
             Begin(r, b, op, patch)
      PROVE  Moved(r)
  <2>1. /\ \A s \in Requests \ {r} : request'[s] = request[s]
        /\ request'[r].at = "load"
    BY <1>1, <1>4 DEF Begin
  <2> QED
    BY <2>1 DEF Moved
<1> QED
  BY <1>2, <1>3, <1>4

\* One step of a request, whichever it is.
LEMMA HandleMoves ==
  ASSUME BriefInv, NEW r \in Requests, Handle(r)
  PROVE  /\ Moved(r)
         /\ announced' = announced \/ Announces(r)
<1>1. BriefTypeOK
  BY DEF BriefInv
<1>2. CASE Load(r)
  BY <1>1, <1>2, QuietAnswer, GoesOn DEF Load
<1>3. CASE Edit(r)
  BY <1>1, <1>3, QuietAnswer DEF Edit, Applied
<1>4. CASE Approve(r)
  BY <1>4, ApproveMoves DEF Approve
<1>5. CASE Seal(r)
  BY <1>1, <1>5, GoesOn DEF Seal
<1>6. CASE PublishBrief(r)
  BY <1>6, PublishMoves DEF PublishBrief
<1>7. CASE Announce(r)
  BY <1>7, AnnounceMoves DEF Announce, Applied
<1>8. CASE Overtaken(r)
  BY <1>1, <1>8, QuietAnswer DEF Overtaken
<1>9. CASE Lost(r)
  BY <1>1, <1>9, QuietAnswer DEF Lost
<1>10. CASE LostAfterCommit(r)
  BY <1>1, <1>10, QuietAnswer, AnnounceMoves DEF LostAfterCommit
<1> QED
  BY <1>2, <1>3, <1>4, <1>5, <1>6, <1>7, <1>8, <1>9, <1>10 DEF Handle

LEMMA InitWinning == BriefInit => Winning
<1> SUFFICES ASSUME BriefInit PROVE Winning
  OBVIOUS
<1>1. \A r \in Requests : request[r].at = "new"
  BY DEF BriefInit, Idle
<1>2. announced = <<>>
  BY DEF BriefInit
<1> QED
  BY <1>1, <1>2 DEF Winning, WinnersSeeTheRow, OneApprover, AnnouncedOnce, Succeeded

LEMMA StepWinning == WinningInv /\ [BriefNext]_briefVars => WinningInv'
<1> SUFFICES ASSUME WinningInv, [BriefNext]_briefVars PROVE WinningInv'
  OBVIOUS
<1>1. BriefInv /\ BriefInv' /\ Fixed
  BY BriefStepInv, StepFixed DEF WinningInv
<1>2. /\ \A r \in Requests : request'[r] = request[r] \/ Moved(r)
      /\ announced' = announced \/ \E r \in Requests : Announces(r)
  <2>1. CASE UNCHANGED briefVars \/ \E b \in Briefs : Create(b)
    BY <2>1 DEF briefVars, Create
  <2>2. ASSUME NEW r \in Requests, NEW b \in Briefs,
               \/ \E op \in {"approve", "publish"} : Begin(r, b, op, <<>>)
               \/ \E patch \in Patches : Begin(r, b, "edit", patch)
        PROVE  Moved(r) /\ announced' = announced
    BY <1>1, <2>2, GoesOn DEF BriefInv, Ops, Begin
  <2>3. ASSUME NEW r \in Requests, Moved(r)
        PROVE  \A s \in Requests : request'[s] = request[s] \/ Moved(s)
    BY <2>3 DEF Moved
  <2> QED
    BY <1>1, <2>1, <2>2, <2>3, HandleMoves DEF BriefNext
<1>3. Winning'
  BY <1>1, <1>2, WinnersKeep, OneApproverKeeps, AnnouncedKeeps DEF Winning
<1> QED
  BY <1>1, <1>3 DEF WinningInv

\* A set whose members are all equal.
LEMMA AtMostOne ==
  ASSUME NEW S, \A x, y \in S : x = y
  PROVE  Cardinality(S) <= 1
<1>1. CASE S = {}
  BY <1>1, FS_EmptySet
<1>2. CASE \E x : S = {x}
  BY <1>2, FS_Singleton
<1> QED
  BY <1>1, <1>2

LEMMA WinningMeans == BriefTypeOK /\ Winning => OneWinner
<1> SUFFICES ASSUME BriefTypeOK, Winning PROVE OneWinner
  OBVIOUS
<1>1. ASSUME NEW b \in Briefs
      PROVE  /\ Cardinality(Succeeded("approve", b)) <= 1
             /\ Cardinality(Succeeded("publish", b)) <= 1
             /\ \A r \in Succeeded("approve", b) : request[r].shown.content = brief[b].content
             /\ \A r \in Succeeded("publish", b) : request[r].shown = brief[b]
                                                  /\ brief[b].snapshot = {r}
  <2>1. \A r, s \in Succeeded("approve", b) : r = s
    BY DEF Winning, OneApprover
  <2>2. \A r \in Succeeded("publish", b) : request[r].shown = brief[b]
                                          /\ brief[b].snapshot = {r}
    BY DEF Winning, WinnersSeeTheRow, Succeeded
  <2>3. \A r, s \in Succeeded("publish", b) : r = s
    <3> SUFFICES ASSUME NEW r \in Succeeded("publish", b), NEW s \in Succeeded("publish", b)
                 PROVE  r = s
      OBVIOUS
    <3>1. {r} = {s}
      BY <2>2
    <3> QED
      BY <3>1
  <2>4. \A r \in Succeeded("approve", b) : request[r].shown.content = brief[b].content
    BY DEF Winning, WinnersSeeTheRow, Succeeded
  <2> QED
    BY <2>1, <2>2, <2>3, <2>4, AtMostOne
<1> QED
  BY <1>1 DEF Winning, AnnouncedOnce, OneWinner

\* One request at most is told that it approved a brief and one that it published it,
\* each is shown the row that was kept, and a brief is announced at most once.
THEOREM OneWins == BriefSpec => []OneWinner
<1>1. BriefInit => WinningInv
  BY BriefInitInv, InitWinning DEF WinningInv
<1>2. WinningInv => OneWinner
  BY WinningMeans DEF WinningInv, BriefInv
<1> QED
  BY <1>1, <1>2, StepWinning, PTL DEF BriefSpec

-------------------------------------------------------------------------------
(* The tool-call budget of a turn (TurnPolicy), for every set of cost classes  *)
(* and every budget.                                                           *)

\* Every outstanding decision was accepted below what is reserved by now: this is
\* what keeps a recorded usage below the reserved one.
Reserves == \A d \in accepted : d.used < reserved[d.cost]

PolicyInv == PolicyTypeOK /\ Reserves /\ WithinBudget

LEMMA PolicyInitInv == PolicyInit => PolicyInv
<1> SUFFICES ASSUME PolicyInit PROVE PolicyInv
  OBVIOUS
<1>1. initial \in [Classes -> Nat] /\ reserved = initial /\ policies = {initial}
  BY PolicyConstants DEF PolicyInit
<1>2. granted \in [Classes -> Nat] /\ \A c \in Classes : granted[c] = 0
  BY DEF PolicyInit
<1>3. accepted = {}
  BY DEF PolicyInit
<1> QED
  BY <1>1, <1>2, <1>3 DEF PolicyInv, PolicyTypeOK, Reserves, WithinBudget

\* A granted call reserves one of its class, which the check has found free.
LEMMA PolicyCheckInv ==
  ASSUME PolicyInv, NEW usage \in policies, NEW c \in Classes, Check(usage, c)
  PROVE  PolicyInv'
<1> USE PolicyConstants DEF PolicyInv
<1> DEFINE d == [cost |-> c, used |-> reserved[c], nr |-> granted[c]]
<1>1. /\ accepted' = accepted \cup {d} /\ reserved[c] < Budget[c]
      /\ reserved' = [reserved EXCEPT ![c] = @ + 1]
      /\ granted' = [granted EXCEPT ![c] = @ + 1]
      /\ UNCHANGED <<initial, policies>>
  BY DEF Check, Plus
<1>2. d \in Decision /\ d.cost = c /\ d.used = reserved[c]
  BY DEF PolicyTypeOK, Decision
<1> HIDE DEF d
<1>3. reserved' \in [Classes -> Nat] /\ \A x \in Classes : reserved[x] <= reserved'[x]
  BY <1>1 DEF PolicyTypeOK
<1>4. \A x \in Classes : reserved'[x] = initial'[x] + granted'[x]
  BY <1>1, <1>2 DEF PolicyTypeOK
<1>5. PolicyTypeOK'
  <2>1. \A x \in Classes, u \in policies : u[x] <= reserved'[x]
    BY <1>3 DEF PolicyTypeOK
  <2> QED
    BY <1>1, <1>2, <1>3, <1>4, <2>1 DEF PolicyTypeOK
<1>6. Reserves'
  BY <1>1, <1>2, <1>3 DEF PolicyTypeOK, Reserves, Decision
<1>7. WithinBudget'
  BY <1>1, <1>2 DEF PolicyTypeOK, WithinBudget
<1> QED
  BY <1>5, <1>6, <1>7

\* A record moves one policy forward, to what the decision had reserved.
LEMMA PolicyRecordInv ==
  ASSUME PolicyInv, NEW usage \in policies, NEW d \in accepted, Record(usage, d)
  PROVE  PolicyInv'
<1> USE PolicyConstants DEF PolicyInv
<1>1. /\ accepted' = accepted \ {d} /\ d.used = usage[d.cost]
      /\ policies' = policies \cup {[usage EXCEPT ![d.cost] = @ + 1]}
      /\ UNCHANGED <<initial, reserved, granted>>
  BY DEF Record, Plus
<1>2. d.cost \in Classes /\ d.used \in Nat /\ usage \in [Classes -> Nat] /\ d \in Decision
  BY DEF PolicyTypeOK, Decision
<1> DEFINE next == [usage EXCEPT ![d.cost] = @ + 1]
<1>3. next \in [Classes -> Nat] /\ \A x \in Classes : next[x] <= reserved[x]
  BY <1>1, <1>2 DEF PolicyTypeOK, Reserves
<1>4. PolicyTypeOK'
  BY <1>1, <1>2, <1>3 DEF PolicyTypeOK
<1>5. Reserves'
  BY <1>1 DEF Reserves
<1>6. WithinBudget'
  BY <1>1 DEF WithinBudget
<1> QED
  BY <1>4, <1>5, <1>6

LEMMA PolicyStepInv == PolicyInv /\ [PolicyNext]_policyVars => PolicyInv'
<1> SUFFICES ASSUME PolicyInv, [PolicyNext]_policyVars PROVE PolicyInv'
  OBVIOUS
<1>1. CASE PolicyNext
  BY <1>1, PolicyCheckInv, PolicyRecordInv DEF PolicyNext
<1>2. CASE UNCHANGED policyVars
  BY <1>2 DEF policyVars, PolicyInv, PolicyTypeOK, Reserves, WithinBudget
<1> QED
  BY <1>1, <1>2

\* What is reserved is what was used and granted, and no policy exceeds it
\* (turn-policy.ts, for any classes and any budget).
THEOREM PolicyTypeCorrect == PolicySpec => []PolicyTypeOK
<1>1. PolicyInv => PolicyTypeOK
  BY DEF PolicyInv
<1> QED
  BY PolicyInitInv, PolicyStepInv, <1>1, PTL DEF PolicySpec

\* A turn is never granted more calls of a class than its budget leaves, however
\* checks and records interleave (reservedUsage of the session).
THEOREM BudgetHolds == PolicySpec => []WithinBudget
<1>1. PolicyInv => WithinBudget
  BY DEF PolicyInv
<1> QED
  BY PolicyInitInv, PolicyStepInv, <1>1, PTL DEF PolicySpec

-------------------------------------------------------------------------------
(* The messages of a thread (ThreadMessages), for any number of turns,       *)
(* posts, requests and attempts.                                             *)

\* One turn of the thread runs at a time; a result is logged by an attempt that was
\* begun; a turn whose seal is done has pinned its own attempt's result and stored
\* nothing yet; and nothing is stored of a turn without a snapshot.
AttemptsInv ==
  /\ turn \in [Turns -> [at : {"idle", "tool", "seal", "insert"}, attempt : 0..MaxAttempts]]
  /\ toolLog \in [Turns -> 0..MaxAttempts] /\ pinned \in [Turns -> 0..MaxAttempts]
  /\ \A k, j \in Turns : turn[k].at # "idle" /\ turn[j].at # "idle" => k = j
  /\ \A k \in Turns :
       /\ turn[k].at # "idle" => turn[k].attempt > 0
       /\ turn[k].at \in {"seal", "insert"} => toolLog[k] = turn[k].attempt
       /\ turn[k].at = "insert" => pinned[k] = turn[k].attempt /\ Stored(k) = {}
       /\ pinned[k] = 0 => Stored(k) = {}

\* Requests store posts, whose ids are not those of turns.
PostsInv ==
  /\ \A s \in Sends : send[s].at = "begun" => send[s].post \in Posts
  /\ posted \subseteq Posts
  /\ \A m \in messages : m.of \in Turns \/ m.of \in posted
  /\ latest \subseteq Snapshots

SendsInv == DOMAIN send = Sends

ThreadInv == AttemptsInv /\ PostsInv /\ SendsInv /\ AnsweredFromItsSeal

LEMMA ThreadInitInv == ThreadInit => ThreadInv
BY ThreadConstants
DEF ThreadInit, ThreadInv, AttemptsInv, PostsInv, SendsInv, AnsweredFromItsSeal, Stored, Snapshots

\* Steps that change neither the turns nor the tables.
LEMMA ThreadQuiet ==
  ASSUME ThreadInv, UNCHANGED <<turn, toolLog, pinned, posted, messages, latest>>, SendsInv',
         \A s \in Sends : send'[s].at = "begun" => send'[s].post \in Posts
  PROVE  ThreadInv'
<1>1. AttemptsInv'
  BY DEF ThreadInv, AttemptsInv, Stored
<1>2. PostsInv' /\ AnsweredFromItsSeal'
  BY DEF ThreadInv, PostsInv, AnsweredFromItsSeal, Stored, Snapshots
<1> QED
  BY <1>1, <1>2 DEF ThreadInv

\* What an attempt does to its turn leaves the other turns alone.
LEMMA TurnMoves ==
  ASSUME ThreadInv, NEW k \in Turns, NEW x \in [at : {"idle", "tool", "seal", "insert"},
                                               attempt : 0..MaxAttempts],
         turn' = [turn EXCEPT ![k] = x],
         x.at # "idle" => \A j \in Turns \ {k} : turn[j].at = "idle",
         toolLog' \in [Turns -> 0..MaxAttempts], pinned' \in [Turns -> 0..MaxAttempts],
         \A j \in Turns \ {k} : toolLog'[j] = toolLog[j] /\ pinned'[j] = pinned[j]
                               /\ Stored(j)' = Stored(j),
         x.at # "idle" => x.attempt > 0,
         x.at \in {"seal", "insert"} => toolLog'[k] = x.attempt,
         x.at = "insert" => pinned'[k] = x.attempt /\ Stored(k)' = {},
         pinned'[k] = 0 => Stored(k)' = {}
  PROVE  AttemptsInv'
<1>1. /\ turn' \in [Turns -> [at : {"idle", "tool", "seal", "insert"}, attempt : 0..MaxAttempts]]
      /\ turn'[k] = x /\ \A j \in Turns \ {k} : turn'[j] = turn[j]
  BY DEF ThreadInv, AttemptsInv
<1>2. \A i, j \in Turns : turn'[i].at # "idle" /\ turn'[j].at # "idle" => i = j
  BY <1>1 DEF ThreadInv, AttemptsInv
<1>3. \A j \in Turns :
       /\ turn'[j].at # "idle" => turn'[j].attempt > 0
       /\ turn'[j].at \in {"seal", "insert"} => toolLog'[j] = turn'[j].attempt
       /\ turn'[j].at = "insert" => pinned'[j] = turn'[j].attempt /\ Stored(j)' = {}
       /\ pinned'[j] = 0 => Stored(j)' = {}
  BY <1>1 DEF ThreadInv, AttemptsInv
<1> QED
  BY <1>1, <1>2, <1>3 DEF AttemptsInv

LEMMA TurnStepInv ==
  ASSUME ThreadInv, NEW k \in Turns,
         RunTurn(k) \/ LogTool(k) \/ SealAnswer(k) \/ CommitAnswer(k) \/ FailTurn(k)
  PROVE  ThreadInv'
<1> DEFINE Rows == [at : {"idle", "tool", "seal", "insert"}, attempt : 0..MaxAttempts]
<1>1. /\ turn \in [Turns -> Rows] /\ turn[k] \in Rows /\ MaxAttempts \in Nat
      /\ toolLog \in [Turns -> 0..MaxAttempts] /\ pinned \in [Turns -> 0..MaxAttempts]
      /\ UNCHANGED <<send, posted>>
  BY ThreadConstants DEF ThreadInv, AttemptsInv, RunTurn, LogTool, SealAnswer, CommitAnswer, FailTurn
<1>2. \A x, y \in Rows : x.at = y.at /\ x.attempt = y.attempt => x = y
  OBVIOUS
<1>3. CASE RunTurn(k) \/ FailTurn(k)
  <2> DEFINE x == IF RunTurn(k) THEN [at |-> "tool", attempt |-> turn[k].attempt + 1]
                  ELSE [at |-> "idle", attempt |-> turn[k].attempt]
  <2>1. turn' = [turn EXCEPT ![k] = x]
    BY <1>1, <1>3 DEF RunTurn, FailTurn
  <2>2. /\ x \in Rows /\ x.at \in {"idle", "tool"} /\ (x.at # "idle" => x.attempt > 0)
        /\ x.at # "idle" => \A j \in Turns \ {k} : turn[j].at = "idle"
    BY <1>1, <1>3 DEF RunTurn, FailTurn
  <2>3. UNCHANGED <<toolLog, pinned, messages, latest>>
    BY <1>3 DEF RunTurn, FailTurn
  <2> HIDE DEF x
  <2>4. AttemptsInv'
    BY <1>1, <2>1, <2>2, <2>3, TurnMoves DEF Stored, ThreadInv, AttemptsInv
  <2> QED
    BY <1>1, <2>3, <2>4 DEF ThreadInv, PostsInv, SendsInv, AnsweredFromItsSeal, Stored, Snapshots
<1>4. CASE LogTool(k)
  <2> DEFINE x == [at |-> "seal", attempt |-> turn[k].attempt]
  <2>0. [turn[k] EXCEPT !.at = "seal"] = x
    BY <1>1
  <2>1. /\ turn' = [turn EXCEPT ![k] = x] /\ toolLog' = [toolLog EXCEPT ![k] = turn[k].attempt]
        /\ UNCHANGED <<pinned, messages, latest>> /\ turn[k].at = "tool"
    BY <2>0, <1>4 DEF LogTool
  <2>2. /\ x \in Rows /\ x.at = "seal" /\ x.attempt = turn[k].attempt /\ x.attempt > 0
        /\ \A j \in Turns \ {k} : turn[j].at = "idle"
    BY <1>1, <2>1 DEF ThreadInv, AttemptsInv
  <2>3. /\ toolLog' \in [Turns -> 0..MaxAttempts] /\ toolLog'[k] = turn[k].attempt
        /\ \A j \in Turns \ {k} : toolLog'[j] = toolLog[j]
    BY <1>1, <2>1
  <2> HIDE DEF x
  <2>4. AttemptsInv'
    BY <1>1, <2>1, <2>2, <2>3, TurnMoves DEF Stored, ThreadInv, AttemptsInv
  <2> QED
    BY <1>1, <2>1, <2>4 DEF ThreadInv, PostsInv, SendsInv, AnsweredFromItsSeal, Stored, Snapshots
<1>5. CASE SealAnswer(k)
  <2> DEFINE x == [at |-> "insert", attempt |-> turn[k].attempt]
  <2>0. [turn[k] EXCEPT !.at = "insert"] = x
    BY <1>1
  <2>1. /\ turn' = [turn EXCEPT ![k] = x] /\ pinned' = [pinned EXCEPT ![k] = toolLog[k]]
        /\ UNCHANGED <<toolLog, messages, latest>> /\ turn[k].at = "seal" /\ pinned[k] = 0
    BY <2>0, <1>5 DEF SealAnswer, ManifestHash
  <2>2. /\ x \in Rows /\ x.at = "insert" /\ x.attempt = turn[k].attempt /\ x.attempt > 0
        /\ \A j \in Turns \ {k} : turn[j].at = "idle"
        /\ toolLog[k] = x.attempt /\ Stored(k) = {}
    BY <1>1, <2>1 DEF ThreadInv, AttemptsInv
  <2>3. /\ pinned' \in [Turns -> 0..MaxAttempts] /\ pinned'[k] = turn[k].attempt
        /\ \A j \in Turns \ {k} : pinned'[j] = pinned[j]
    BY <1>1, <2>1, <2>2
  <2> HIDE DEF x
  <2>4. \A j \in Turns : Stored(j)' = Stored(j)
    BY <2>1 DEF Stored
  <2>5. AttemptsInv'
    BY <1>1, <2>1, <2>2, <2>3, <2>4, TurnMoves DEF ThreadInv, AttemptsInv
  <2>6. Snapshots \subseteq Snapshots'
    BY <1>1, <2>1, <2>2, <2>3 DEF Snapshots
  <2>7. AnsweredFromItsSeal'
    BY <2>2, <2>3, <2>4 DEF ThreadInv, AnsweredFromItsSeal
  <2> QED
    BY <1>1, <2>1, <2>5, <2>6, <2>7 DEF ThreadInv, PostsInv, SendsInv
<1>6. CASE CommitAnswer(k)
  <2> DEFINE x == [at |-> "idle", attempt |-> turn[k].attempt]
             row == [of |-> k, content |-> turn[k].attempt, asOf |-> 0]
  <2>0. [turn[k] EXCEPT !.at = "idle"] = x
    BY <1>1
  <2>1. /\ turn' = [turn EXCEPT ![k] = x] /\ messages' = messages \cup {row} /\ latest' = {k}
        /\ UNCHANGED <<toolLog, pinned>> /\ turn[k].at = "insert"
    BY <2>0, <1>6 DEF CommitAnswer
  <2>2. /\ x \in Rows /\ x.at = "idle" /\ row.of = k /\ row.content = turn[k].attempt
        /\ turn[k].attempt > 0 /\ pinned[k] = turn[k].attempt /\ Stored(k) = {}
    BY <1>1, <2>1 DEF ThreadInv, AttemptsInv
  <2> HIDE DEF x, row
  <2>3. /\ Stored(k)' = {row} /\ \A j \in Turns \ {k} : Stored(j)' = Stored(j)
    BY <2>1, <2>2 DEF Stored
  <2>4. AttemptsInv'
    BY <1>1, <2>1, <2>2, <2>3, TurnMoves DEF ThreadInv, AttemptsInv
  <2>5. AnsweredFromItsSeal'
    BY <2>1, <2>2, <2>3 DEF ThreadInv, AnsweredFromItsSeal
  <2>6. PostsInv'
    BY <1>1, <2>1, <2>2 DEF ThreadInv, PostsInv, Snapshots
  <2> QED
    BY <1>1, <2>4, <2>5, <2>6 DEF ThreadInv, SendsInv
<1> QED
  BY <1>3, <1>4, <1>5, <1>6

LEMMA PostStepInv ==
  ASSUME ThreadInv, NEW s \in Sends,
         \/ \E p \in Posts, c \in Contents : BeginPost(s, p, c)
         \/ CommitPost(s) \/ RepeatPost(s) \/ RefusePost(s) \/ FailPost(s)
  PROVE  ThreadInv'
<1>1. SendsInv' /\ \A q \in Sends : send'[q].at = "begun" => send'[q].post \in Posts
  <2>1. CASE \E p \in Posts, c \in Contents : BeginPost(s, p, c)
    BY <2>1 DEF BeginPost, ThreadInv, PostsInv, SendsInv
  <2>2. CASE CommitPost(s) \/ RepeatPost(s) \/ RefusePost(s) \/ FailPost(s)
    <3>1. PICK row : row.at = "done" /\ send' = [send EXCEPT ![s] = row]
      BY <2>2 DEF CommitPost, RepeatPost, RefusePost, FailPost, Answered, SendsInv, ThreadInv
    <3> QED
      BY <3>1 DEF ThreadInv, PostsInv, SendsInv
  <2> QED
    BY <2>1, <2>2
<1>2. CASE CommitPost(s)
  <2> DEFINE q == send[s]
  <2>1. /\ posted' = posted \cup {q.post} /\ messages' = messages \cup {RowOf(q)}
        /\ latest' = {q.post} /\ UNCHANGED <<turn, toolLog, pinned>> /\ q.at = "begun"
    BY <1>2 DEF CommitPost
  <2>2. q.post \in Posts /\ RowOf(q).of = q.post
    BY <2>1 DEF ThreadInv, PostsInv, RowOf
  <2>3. \A k \in Turns : Stored(k)' = Stored(k)
    BY <2>1, <2>2, ThreadConstants DEF Stored
  <2>4. AttemptsInv' /\ AnsweredFromItsSeal'
    BY <2>1, <2>3 DEF ThreadInv, AttemptsInv, AnsweredFromItsSeal
  <2>5. PostsInv'
    BY <1>1, <2>1, <2>2 DEF ThreadInv, PostsInv, Snapshots
  <2> QED
    BY <1>1, <2>4, <2>5 DEF ThreadInv
<1>3. CASE RepeatPost(s)
  <2>1. /\ latest' = {send[s].post} /\ Stored(send[s].post) # {} /\ send[s].at = "begun"
        /\ UNCHANGED <<turn, toolLog, pinned, posted, messages>>
    BY <1>3 DEF RepeatPost
  <2>2. send[s].post \in posted
    BY <2>1, ThreadConstants DEF ThreadInv, PostsInv, Stored
  <2>3. AttemptsInv' /\ AnsweredFromItsSeal'
    BY <2>1 DEF ThreadInv, AttemptsInv, AnsweredFromItsSeal, Stored
  <2> QED
    BY <1>1, <2>1, <2>2, <2>3 DEF ThreadInv, PostsInv, Snapshots
<1>4. CASE ~CommitPost(s) /\ ~RepeatPost(s)
  BY <1>1, <1>4, ThreadQuiet DEF BeginPost, RefusePost, FailPost
<1> QED
  BY <1>2, <1>3, <1>4

LEMMA ThreadStepInv == ThreadInv /\ [ThreadNext]_threadVars => ThreadInv'
<1> SUFFICES ASSUME ThreadInv, [ThreadNext]_threadVars PROVE ThreadInv'
  OBVIOUS
<1>1. CASE UNCHANGED threadVars \/ Tick
  BY <1>1, ThreadQuiet DEF threadVars, Tick, ThreadInv, PostsInv, SendsInv
<1>2. CASE ThreadNext /\ ~Tick
  BY <1>2, TurnStepInv, PostStepInv DEF ThreadNext
<1> QED
  BY <1>1, <1>2

\* The tables keep their types and their foreign keys: a message and the thread's
\* latest snapshot name snapshots that exist (messages.ts, snapshot-sealer.ts).
THEOREM ThreadTypeCorrect == ThreadSpec => []ThreadTypeOK
<1>1. ThreadInv => ThreadTypeOK
  BY DEF ThreadInv, AttemptsInv, PostsInv, ThreadTypeOK, Stored, Snapshots
<1> QED
  BY <1>1, ThreadInitInv, ThreadStepInv, PTL DEF ThreadSpec

\* However often a turn is attempted, one answer of it at most is stored, and its
\* snapshot pins the tool result it was written from: the id of the snapshot is
\* derived from the turn, and a second insert under it throws.
THEOREM AnswersPinned == ThreadSpec => []AnsweredFromItsSeal
<1>1. ThreadInv => AnsweredFromItsSeal
  BY DEF ThreadInv
<1> QED
  BY <1>1, ThreadInitInv, ThreadStepInv, PTL DEF ThreadSpec

-------------------------------------------------------------------------------
(***************************************************************************)
(* Finite sets in order.  The rank of a member, the number of those before *)
(* it, is another for each and less than their number, so each rank is     *)
(* some member's.                                                          *)
(***************************************************************************)
Before(S, R, m) == {x \in S : <<x, m>> \in R}
Rank(S, R, m) == Cardinality(Before(S, R, m))

IsOrder(S, R) ==
  /\ IsFiniteSet(S)
  /\ \A m \in S : <<m, m>> \notin R
  /\ \A m, n, x \in S : <<x, m>> \in R /\ <<m, n>> \in R => <<x, n>> \in R
  /\ \A m, n \in S : m # n => <<m, n>> \in R \/ <<n, m>> \in R

LEMMA RankIncreases ==
  ASSUME NEW S, NEW R, IsOrder(S, R)
  PROVE  /\ Cardinality(S) \in Nat
         /\ \A m \in S : Rank(S, R, m) \in 0..(Cardinality(S) - 1)
         /\ \A m, n \in S : <<m, n>> \in R => Rank(S, R, m) < Rank(S, R, n)
  <1>1. IsFiniteSet(S) /\ Cardinality(S) \in Nat
    BY FS_CardinalityType DEF IsOrder
  <1>2. ASSUME NEW m \in S PROVE IsFiniteSet(Before(S, R, m)) /\ Rank(S, R, m) \in 0..(Cardinality(S) - 1)
    <2>1. PICK A : A = Before(S, R, m)
      OBVIOUS
    <2>2. A \in SUBSET S /\ m \notin A
      BY <2>1 DEF Before, IsOrder
    <2>3. IsFiniteSet(A) /\ Cardinality(A) <= Cardinality(S) /\ (Cardinality(S) = Cardinality(A) => S = A)
      BY <1>1, <2>2, FS_Subset
    <2>4. Cardinality(A) \in Nat
      BY <2>3, FS_CardinalityType
    <2> QED
      BY <1>1, <2>1, <2>2, <2>3, <2>4 DEF Rank
  <1>3. ASSUME NEW m \in S, NEW n \in S, <<m, n>> \in R PROVE Rank(S, R, m) < Rank(S, R, n)
    <2>1. PICK A, B : A = Before(S, R, m) /\ B = Before(S, R, n)
      OBVIOUS
    <2>2. A \in SUBSET B /\ m \in B /\ m \notin A
      BY <1>3, <2>1 DEF Before, IsOrder
    <2>3. IsFiniteSet(A) /\ IsFiniteSet(B)
      BY <1>2, <2>1
    <2>4. Cardinality(A) \in Nat /\ Cardinality(B) \in Nat
      BY <2>3, FS_CardinalityType
    <2>5. Cardinality(A) <= Cardinality(B) /\ Cardinality(A) # Cardinality(B)
      BY <2>2, <2>3, FS_Subset
    <2> QED
      BY <2>1, <2>4, <2>5 DEF Rank
  <1> QED
    BY <1>1, <1>2, <1>3

LEMMA RanksAreTaken ==
  ASSUME NEW S, NEW R, IsOrder(S, R)
  PROVE  \A k \in 1..Cardinality(S) : \E m \in S : Rank(S, R, m) = k - 1
  <1>1. PICK c : c = Cardinality(S)
    OBVIOUS
  <1>2. PICK f : f = [m \in S |-> Rank(S, R, m) + 1]
    OBVIOUS
  <1>3. c \in Nat /\ (\A m \in S : Rank(S, R, m) \in 0..(c - 1))
        /\ \A m, n \in S : <<m, n>> \in R => Rank(S, R, m) < Rank(S, R, n)
    BY <1>1, RankIncreases
  <1>4. f \in [S -> 1..c] /\ \A m \in S : f[m] = Rank(S, R, m) + 1
    BY <1>2, <1>3
  <1>5. \A m, n \in S : f[m] = f[n] => m = n
    <2>1. \A m, n \in S : <<m, n>> \in R => f[m] < f[n]
      BY <1>3, <1>4
    <2>2. \A m \in S : f[m] \in Int
      BY <1>3, <1>4
    <2> SUFFICES ASSUME NEW m \in S, NEW n \in S, f[m] = f[n], m # n PROVE FALSE
      OBVIOUS
    <2>3. <<m, n>> \in R \/ <<n, m>> \in R
      BY DEF IsOrder
    <2>4. f[m] < f[n] \/ f[n] < f[m]
      BY <2>1, <2>3
    <2> QED
      BY <2>2, <2>4
  <1>6. f \in Injection(S, 1..c)
    BY <1>4, <1>5 DEF Injection, IsInjective
  <1>7. IsFiniteSet(1..c) /\ Cardinality(1..c) = c
    BY <1>3, FS_Interval
  <1>8. f \in Surjection(S, 1..c)
    BY <1>1, <1>6, <1>7, FS_Injection
  <1>9. \A k \in 1..c : \E m \in S : f[m] = k
    BY <1>8 DEF Surjection
  <1> SUFFICES ASSUME NEW k \in 1..c PROVE \E m \in S : Rank(S, R, m) = k - 1
    BY <1>1
  <1>10. PICK m \in S : f[m] = k
    BY <1>9
  <1>11. Rank(S, R, m) \in Int /\ Rank(S, R, m) + 1 = k
    BY <1>3, <1>4, <1>10
  <1> QED
    BY <1>3, <1>11

AreInOrder(rows, S, R) ==
  /\ rows \in Seq(S) /\ \A m \in S : \E i \in 1..Len(rows) : rows[i] = m
  /\ \A i, j \in 1..Len(rows) : i < j => <<rows[i], rows[j]>> \in R

(* Hence the members of each rank in turn are all of them, in order.       *)
LEMMA ByRank ==
  ASSUME NEW S, NEW R, IsOrder(S, R), NEW rows \in [1..Cardinality(S) -> S],
         \A k \in 1..Cardinality(S) : Rank(S, R, rows[k]) = k - 1
  PROVE  AreInOrder(rows, S, R)
  <1>1. PICK n : n = Cardinality(S)
    OBVIOUS
  <1>2. PICK g : g = [m \in S |-> Rank(S, R, m)]
    OBVIOUS
  <1>3. n \in Nat /\ \A m \in S : g[m] \in 0..(n - 1)
    BY <1>1, <1>2, RankIncreases
  <1>4. \A a, b \in S : <<a, b>> \in R => g[a] < g[b]
    BY <1>2, RankIncreases
  <1>5. \A a, b \in S : a # b => <<a, b>> \in R \/ <<b, a>> \in R
    BY DEF IsOrder
  <1>6. rows \in [1..n -> S] /\ \A k \in 1..n : rows[k] \in S /\ g[rows[k]] = k - 1
    BY <1>1, <1>2
  <1>7. rows \in Seq(S) /\ Len(rows) = n
    BY <1>3, <1>6
  <1>8. \A m \in S : \E i \in 1..n : rows[i] = m
    <2> SUFFICES ASSUME NEW m \in S PROVE \E i \in 1..n : rows[i] = m
      OBVIOUS
    <2>1. PICK i : i = g[m] + 1
      OBVIOUS
    <2>2. i \in 1..n /\ g[m] = i - 1
      BY <1>3, <2>1
    <2>3. rows[i] \in S /\ g[rows[i]] = g[m]
      BY <1>6, <2>2
    <2>4. ~(g[m] < g[m])
      BY <1>3
    <2>5. rows[i] = m
      BY <1>4, <1>5, <2>3, <2>4
    <2> QED
      BY <2>2, <2>5
  <1>9. \A i, j \in 1..n : i < j => <<rows[i], rows[j]>> \in R
    <2> SUFFICES ASSUME NEW i \in 1..n, NEW j \in 1..n, i < j PROVE <<rows[i], rows[j]>> \in R
      OBVIOUS
    <2>1. g[rows[i]] = i - 1 /\ g[rows[j]] = j - 1 /\ rows[i] \in S /\ rows[j] \in S
      BY <1>6
    <2>2. g[rows[i]] < g[rows[j]] /\ ~(g[rows[j]] < g[rows[i]])
      BY <1>3, <2>1
    <2>3. rows[i] # rows[j]
      BY <1>3, <2>1, <2>2
    <2> QED
      BY <1>4, <1>5, <2>1, <2>2, <2>3
  <1> QED
    BY <1>7, <1>8, <1>9 DEF AreInOrder

-------------------------------------------------------------------------------
(* The activity stream (EventStream): the frames on a line are in the order  *)
(* of their numbers, above the client's cursor, and with what the client has *)
(* got and what was gone before a connection from 0 they are all activities  *)
(* of its user.  A closed line has none; then it has all up to its cursor.   *)

Frames(l) == l.wire \o l.pending
LineOK(l) == l \in Line /\ (l.open \/ l = Down) /\ (l.pending # <<>> => l.waiting)

\* frames above at and up to top, each activity's number above those before it
Steady(f, at, top) ==
  /\ \A i \in 1..Len(f) : f[i] # Beat => f[i] > at /\ f[i] <= top
  /\ \A i, j \in 1..Len(f) : i < j /\ f[i] # Beat /\ f[j] # Beat => f[i] < f[j]

LEMMA StreamNumbers ==
  /\ MaxRetained \in Nat \ {0} /\ HighWater \in Nat \ {0} /\ MaxPending \in Nat \ {0}
  /\ UserOf \in [Clients -> Users]
  BY StreamConstants

LEMMA IsLine ==
  ASSUME NEW l \in Line
  PROVE  /\ l = [open |-> l.open, written |-> l.written, waiting |-> l.waiting,
                 wire |-> l.wire, pending |-> l.pending]
         /\ l.open \in BOOLEAN /\ l.written \in Nat /\ l.waiting \in BOOLEAN
         /\ l.wire \in Seq(Nat) /\ l.pending \in Seq(Nat) /\ Frames(l) \in Seq(Nat)
  <1>1. /\ l = [open |-> l.open, written |-> l.written, waiting |-> l.waiting,
                wire |-> l.wire, pending |-> l.pending]
        /\ l.open \in BOOLEAN /\ l.written \in Nat /\ l.waiting \in BOOLEAN
        /\ l.wire \in Seq(Nat) /\ l.pending \in Seq(Nat)
    BY DEF Line
  <1> QED
    BY <1>1, ConcatProperties DEF Frames

LEMMA MakeLine ==
  ASSUME NEW w \in Nat, NEW p \in Seq(Nat), NEW q \in Seq(Nat), NEW b, b = TRUE \/ (b = FALSE /\ q = <<>>)
  PROVE  LineOK([open |-> TRUE, written |-> w, waiting |-> b, wire |-> p, pending |-> q])
  <1>1. PICK l : l = [open |-> TRUE, written |-> w, waiting |-> b, wire |-> p, pending |-> q]
    OBVIOUS
  <1>2. l \in Line /\ l.open = TRUE
    BY <1>1 DEF Line
  <1>3. l.pending = q /\ l.waiting = b
    BY <1>1
  <1>4. l.pending # <<>> => l.waiting = TRUE
    BY <1>3
  <1>5. LineOK(l)
    BY <1>2, <1>4 DEF LineOK
  <1> QED
    BY <1>1, <1>5

(* A line that takes or keeps a frame has it behind those it had.          *)
LEMMA FrameBehind ==
  ASSUME NEW p \in Seq(Nat), NEW q \in Seq(Nat), NEW n \in Nat
  PROVE  p \o Append(q, n) = Append(p \o q, n) /\ (p \o <<n>>) \o <<>> = Append(p \o <<>>, n)
  <1>1. Append(q, n) = q \o <<n>> /\ Append(p \o q, n) = (p \o q) \o <<n>>
    BY AppendIsConcat, ConcatProperties
  <1>2. p \o (q \o <<n>>) = (p \o q) \o <<n>>
    BY ConcatAssociative
  <1>3. p \o <<>> = p /\ Append(p, n) = p \o <<n>> /\ (p \o <<n>>) \o <<>> = p \o <<n>>
    BY ConcatEmptySeq, AppendIsConcat, ConcatProperties
  <1> QED
    BY <1>1, <1>2, <1>3

LEMMA WriteAppends ==
  ASSUME NEW l, LineOK(l), NEW n \in Nat, NEW after, after = WriteFrame(l, n)
  PROVE  /\ LineOK(after)
         /\ after.open => l.open /\ after.written = l.written /\ Frames(after) = Append(Frames(l), n)
  <1>1. l \in Line /\ (l.open \/ l = Down) /\ (l.pending # <<>> => l.waiting)
    BY DEF LineOK
  <1>2. /\ l = [open |-> l.open, written |-> l.written, waiting |-> l.waiting,
                wire |-> l.wire, pending |-> l.pending]
        /\ l.open \in BOOLEAN /\ l.written \in Nat /\ l.waiting \in BOOLEAN
        /\ l.wire \in Seq(Nat) /\ l.pending \in Seq(Nat)
    BY <1>1, IsLine
  <1>3. LineOK(Down) /\ ~Down.open
    BY DEF LineOK, Down, Line
  <1>4. CASE ~l.open
    <2>1. after = l
      BY <1>4 DEF WriteFrame
    <2> QED
      BY <1>1, <1>4, <2>1 DEF LineOK
  <1>5. CASE l.open /\ l.waiting
    <2>1. after = Enqueued(l, n)
      BY <1>5 DEF WriteFrame
    <2>2. CASE ~(Len(l.pending) < MaxPending)
      BY <1>3, <2>1, <2>2 DEF Enqueued
    <2>3. CASE Len(l.pending) < MaxPending
      <3>1. after = [l EXCEPT !.pending = Append(@, n)]
        BY <2>1, <2>3 DEF Enqueued
      <3>2. after = [open |-> TRUE, written |-> l.written, waiting |-> TRUE,
                     wire |-> l.wire, pending |-> Append(l.pending, n)]
        <4>1. l.open = TRUE /\ l.waiting = TRUE
          BY <1>2, <1>5
        <4> QED
          BY <1>2, <3>1, <4>1
      <3>3. Append(l.pending, n) \in Seq(Nat)
        BY <1>2
      <3>4. LineOK(after)
        BY <1>2, <1>5, <3>2, <3>3 DEF LineOK, Line
      <3>5. Frames(after) = Append(Frames(l), n)
        BY <1>2, <3>2, FrameBehind DEF Frames
      <3>6. after.written = l.written
        BY <3>2
      <3> QED
        BY <1>5, <3>4, <3>5, <3>6, Zenon
    <2> QED
      BY <2>2, <2>3
  <1>6. CASE l.open /\ ~l.waiting
    <2>1. l.pending = <<>>
      BY <1>1, <1>6
    <2>2. after = Taken(l, <<n>>)
      BY <1>6 DEF WriteFrame
    <2>3. PICK full : full = (Len(l.wire \o <<n>>) >= HighWater)
      OBVIOUS
    <2>4. after = [l EXCEPT !.wire = @ \o <<n>>, !.waiting = full]
      BY <2>2, <2>3 DEF Taken
    <2>5. after = [open |-> TRUE, written |-> l.written, waiting |-> full,
                   wire |-> l.wire \o <<n>>, pending |-> <<>>]
      <3>1. l.open = TRUE
        BY <1>2, <1>6
      <3> QED
        BY <1>2, <2>1, <2>4, <3>1
    <2>6. l.wire \o <<n>> \in Seq(Nat) /\ full \in BOOLEAN
      BY <1>2, <2>3, ConcatProperties
    <2>7. LineOK(after)
      BY <1>2, <1>6, <2>5, <2>6 DEF LineOK, Line
    <2>8. Frames(after) = Append(Frames(l), n)
      BY <1>2, <2>1, <2>5, FrameBehind DEF Frames
    <2>9. after.written = l.written
      BY <2>5
    <2> QED
      BY <1>6, <2>7, <2>8, <2>9, Zenon
  <1> QED
    BY <1>2, <1>4, <1>5, <1>6

(* A socket that drained takes frames from the queue: the line is the same. *)
LEMMA FlushKeeps ==
  ASSUME NEW l \in Line, l.open, l.wire = <<>>, NEW after, after = Flushed(l)
  PROVE  LineOK(after) /\ after.open /\ after.written = l.written /\ Frames(after) = Frames(l)
  <1>1. /\ l = [open |-> l.open, written |-> l.written, waiting |-> l.waiting,
                wire |-> l.wire, pending |-> l.pending]
        /\ l.written \in Nat /\ l.pending \in Seq(Nat)
    BY IsLine
  <1>2. PICK p : p = l.pending
    OBVIOUS
  <1>3. PICK k : k = IF Len(p) < HighWater THEN Len(p) ELSE HighWater
    OBVIOUS
  <1>4. p \in Seq(Nat) /\ Len(p) \in Nat /\ k \in 0..Len(p) /\ k <= HighWater /\ (k < Len(p) => k >= HighWater)
    BY <1>1, <1>2, <1>3, StreamNumbers
  <1>5. PICK taken, rest : taken = SubSeq(p, 1, k) /\ rest = SubSeq(p, k + 1, Len(p))
    OBVIOUS
  <1>6. /\ taken \in Seq(Nat) /\ Len(taken) = k /\ rest \in Seq(Nat) /\ Len(rest) = Len(p) - k
        /\ \A i \in 1..k : taken[i] = p[i]
        /\ \A i \in 1..(Len(p) - k) : rest[i] = p[k + i]
    <2>1. taken \in Seq(Nat) /\ Len(taken) = k /\ \A i \in 1..k : taken[i] = p[i]
      <3>1. \A i \in 1..k : p[i] \in Nat
        BY <1>4
      <3> QED
        BY <1>4, <1>5, <3>1
    <2>2. rest \in Seq(Nat) /\ Len(rest) = Len(p) - k /\ \A i \in 1..(Len(p) - k) : rest[i] = p[k + i]
      <3>1. \A i \in (k + 1)..Len(p) : p[i] \in Nat
        BY <1>4
      <3> QED
        BY <1>4, <1>5, <3>1
    <2> QED
      BY <2>1, <2>2
  <1>7. taken \o rest = p
    <2>1. taken \o rest \in Seq(Nat) /\ Len(taken \o rest) = Len(p)
      <3>1. taken \o rest \in Seq(Nat) /\ Len(taken \o rest) = Len(taken) + Len(rest)
        BY <1>6, ConcatProperties
      <3> QED
        BY <1>4, <1>6, <3>1
    <2>2. \A i \in 1..Len(p) : (taken \o rest)[i] = p[i]
      <3> SUFFICES ASSUME NEW i \in 1..Len(p) PROVE (taken \o rest)[i] = p[i]
        OBVIOUS
      <3>1. (taken \o rest)[i] = IF i <= k THEN taken[i] ELSE rest[i - k]
        BY <1>4, <1>6, ConcatProperties
      <3>2. CASE i <= k
        BY <1>4, <1>6, <3>1, <3>2
      <3>3. CASE ~(i <= k)
        <4>1. i - k \in 1..(Len(p) - k) /\ k + (i - k) = i
          BY <1>4, <3>3
        <4> QED
          BY <1>6, <3>1, <3>3, <4>1
      <3> QED
        BY <3>2, <3>3
    <2> QED
      BY <1>4, <2>1, <2>2, SeqEqual
  <1>8. PICK full : full = (Len(<<>> \o taken) >= HighWater)
    OBVIOUS
  <1>9. <<>> \o taken = taken /\ <<>> \o p = p
    BY <1>4, <1>6, ConcatEmptySeq
  <1>10. PICK e : e = [l EXCEPT !.pending = SubSeq(@, Len(taken) + 1, Len(@))]
    OBVIOUS
  <1>11. e = [open |-> l.open, written |-> l.written, waiting |-> l.waiting,
              wire |-> <<>>, pending |-> rest]
    BY <1>1, <1>2, <1>5, <1>6, <1>10
  <1>12. after = Taken(e, taken)
    BY <1>2, <1>3, <1>5, <1>10 DEF Flushed
  <1>13. after = [e EXCEPT !.wire = <<>> \o taken, !.waiting = full]
    BY <1>8, <1>11, <1>12 DEF Taken
  <1>14. after = [open |-> TRUE, written |-> l.written, waiting |-> full, wire |-> taken, pending |-> rest]
    BY <1>9, <1>11, <1>13
  <1>15. full \in BOOLEAN /\ (rest # <<>> => full)
    <2>1. full = (k >= HighWater)
      BY <1>6, <1>8, <1>9
    <2>2. full = TRUE \/ full = FALSE
      BY <2>1
    <2>3. k < Len(p) => full = TRUE
      BY <1>4, <2>1, StreamNumbers
    <2>4. rest # <<>> => k < Len(p)
      BY <1>4, <1>6
    <2> QED
      BY <2>2, <2>3, <2>4
  <1>16. LineOK(after)
    BY <1>1, <1>6, <1>14, <1>15 DEF LineOK, Line
  <1> QED
    BY <1>2, <1>7, <1>9, <1>14, <1>16 DEF Frames

(* What frames on a line promise: their order.                             *)
LEMMA AppendToSet ==
  ASSUME NEW f \in Seq(Nat), NEW n \in Nat
  PROVE  ToSet(Append(f, n)) = ToSet(f) \cup {n}
  <1>0. /\ Len(f) \in Nat /\ Len(Append(f, n)) = Len(f) + 1 /\ Append(f, n)[Len(f) + 1] = n
        /\ \A i \in 1..Len(f) : Append(f, n)[i] = f[i]
    BY AppendProperties
  <1>1. PICK g : g = Append(f, n)
    OBVIOUS
  <1>2. /\ Len(g) = Len(f) + 1 /\ g[Len(f) + 1] = n /\ \A i \in 1..Len(f) : g[i] = f[i]
    BY <1>0, <1>1
  <1>3. 1..Len(g) = 1..Len(f) \cup {Len(f) + 1}
    BY <1>0, <1>2
  <1>4. {g[i] : i \in 1..Len(g)} = {f[i] : i \in 1..Len(f)} \cup {n}
    BY <1>2, <1>3
  <1>5. DOMAIN g = 1..Len(g) /\ DOMAIN f = 1..Len(f)
    BY <1>1
  <1> QED
    BY <1>1, <1>4, <1>5 DEF ToSet

LEMMA SteadyAppend ==
  ASSUME NEW f \in Seq(Nat), NEW at \in Nat, NEW top \in Nat, Steady(f, at, top), NEW n \in Nat
  PROVE  /\ Steady(Append(f, Beat), at, top)
         /\ n > at /\ n > top => Steady(Append(f, n), at, n)
         /\ ToSet(Append(f, n)) = ToSet(f) \cup {n}
  <1>1. /\ Len(f) \in Nat /\ \A i \in 1..Len(f) : f[i] \in Nat
        /\ \A x \in Nat : /\ Len(Append(f, x)) = Len(f) + 1 /\ Append(f, x)[Len(f) + 1] = x
                          /\ \A i \in 1..Len(f) : Append(f, x)[i] = f[i]
    BY AppendProperties
  <1>2. Steady(Append(f, Beat), at, top)
    <2>1. PICK g : g = Append(f, Beat)
      OBVIOUS
    <2>2. /\ Len(g) = Len(f) + 1 /\ g[Len(f) + 1] = Beat /\ \A i \in 1..Len(f) : g[i] = f[i]
      BY <1>1, <2>1 DEF Beat
    <2>3. \A i \in 1..Len(g) : g[i] # Beat => i \in 1..Len(f) /\ g[i] = f[i]
      BY <1>1, <2>2
    <2>4. Steady(g, at, top)
      BY <1>1, <2>3 DEF Steady
    <2> QED
      BY <2>1, <2>4
  <1>3. ASSUME n > at, n > top PROVE Steady(Append(f, n), at, n)
    <2>1. PICK g : g = Append(f, n)
      OBVIOUS
    <2>2. /\ Len(g) = Len(f) + 1 /\ g[Len(f) + 1] = n /\ \A i \in 1..Len(f) : g[i] = f[i]
      BY <1>1, <2>1
    <2>3. \A i \in 1..Len(g) : (i \in 1..Len(f) /\ g[i] = f[i]) \/ (i = Len(f) + 1 /\ g[i] = n)
      BY <1>1, <2>2
    <2>4. \A i \in 1..Len(f) : f[i] # Beat => f[i] > at /\ f[i] < n
      BY <1>1, <1>3 DEF Steady
    <2>5. \A i \in 1..Len(g) : g[i] # Beat => g[i] > at /\ g[i] <= n
      BY <1>1, <1>3, <2>3, <2>4
    <2>6. \A i, j \in 1..Len(g) : i < j /\ g[i] # Beat /\ g[j] # Beat => g[i] < g[j]
      <3> SUFFICES ASSUME NEW i \in 1..Len(g), NEW j \in 1..Len(g), i < j, g[i] # Beat, g[j] # Beat
                   PROVE  g[i] < g[j]
        OBVIOUS
      <3>1. i \in 1..Len(f) /\ g[i] = f[i]
        BY <1>1, <2>2, <2>3
      <3>2. CASE j \in 1..Len(f)
        BY <2>3, <2>2, <3>1, <3>2 DEF Steady
      <3>3. CASE j \notin 1..Len(f)
        BY <2>3, <2>4, <3>1, <3>3
      <3> QED
        BY <3>2, <3>3
    <2>7. Steady(g, at, n)
      BY <2>5, <2>6 DEF Steady
    <2> QED
      BY <2>1, <2>7
  <1>4. ToSet(Append(f, n)) = ToSet(f) \cup {n}
    BY AppendToSet
  <1> QED
    BY <1>2, <1>3, <1>4

LEMMA SteadyTail ==
  ASSUME NEW f \in Seq(Nat), f # <<>>, NEW at \in Nat, NEW top \in Nat, Steady(f, at, top)
  PROVE  /\ Head(f) = Beat => Steady(Tail(f), at, top)
         /\ Head(f) # Beat => /\ Steady(Tail(f), Head(f), top) /\ Head(f) <= top
                              /\ \A x \in ToSet(f) : x # Beat /\ x <= Head(f) => x = Head(f)
         /\ Head(f) \in Nat /\ ToSet(f) = ToSet(Tail(f)) \cup {Head(f)}
  <1>1. PICK g, h : g = Tail(f) /\ h = Head(f)
    OBVIOUS
  <1>2. /\ Len(f) \in Nat \ {0} /\ h = f[1] /\ h \in Nat /\ \A i \in 1..Len(f) : f[i] \in Nat
        /\ g \in Seq(Nat) /\ Len(g) = Len(f) - 1 /\ \A i \in 1..Len(g) : g[i] = f[i + 1]
    BY <1>1, HeadTailProperties
  <1>3. \A i \in 1..Len(g) : i + 1 \in 1..Len(f) /\ 1 < i + 1 /\ g[i] = f[i + 1]
    BY <1>2
  <1>4. \A i \in 1..Len(f) : i = 1 \/ (i - 1 \in 1..Len(g) /\ f[i] = g[i - 1] /\ 1 < i)
    BY <1>2
  <1>5. \A i, j \in 1..Len(g) : i < j /\ g[i] # Beat /\ g[j] # Beat => g[i] < g[j]
    <2> SUFFICES ASSUME NEW i \in 1..Len(g), NEW j \in 1..Len(g), i < j, g[i] # Beat, g[j] # Beat
                 PROVE  g[i] < g[j]
      OBVIOUS
    <2>1. i + 1 \in 1..Len(f) /\ g[i] = f[i + 1] /\ j + 1 \in 1..Len(f) /\ g[j] = f[j + 1]
      BY <1>3
    <2>2. i + 1 < j + 1
      BY <1>2
    <2> QED
      BY <2>1, <2>2 DEF Steady
  <1>6. h = Beat => Steady(g, at, top)
    BY <1>3, <1>5 DEF Steady
  <1>7. h # Beat => \A i \in 1..Len(g) : g[i] # Beat => g[i] > h /\ g[i] <= top
    <2> SUFFICES ASSUME h # Beat, NEW i \in 1..Len(g), g[i] # Beat PROVE g[i] > h /\ g[i] <= top
      OBVIOUS
    <2>1. 1 \in 1..Len(f) /\ i + 1 \in 1..Len(f) /\ 1 < i + 1 /\ f[1] = h /\ f[i + 1] = g[i]
      BY <1>2, <1>3
    <2>2. f[1] < f[i + 1] /\ f[i + 1] <= top
      BY <2>1 DEF Steady
    <2> QED
      BY <1>2, <2>1, <2>2
  <1>8. h # Beat => Steady(g, h, top) /\ h <= top
    <2>1. h # Beat => h <= top
      BY <1>2 DEF Steady
    <2> QED
      BY <1>5, <1>7, <2>1 DEF Steady
  <1>9. ToSet(f) = {f[i] : i \in 1..Len(f)} /\ ToSet(g) = {g[i] : i \in 1..Len(g)}
    <2>1. DOMAIN f = 1..Len(f) /\ DOMAIN g = 1..Len(g)
      BY <1>2
    <2> QED
      BY <2>1 DEF ToSet
  <1>10. ToSet(f) = ToSet(g) \cup {h}
    <2>1. \A x \in ToSet(f) : x \in ToSet(g) \cup {h}
      <3> SUFFICES ASSUME NEW i \in 1..Len(f) PROVE f[i] \in ToSet(g) \cup {h}
        BY <1>9
      <3>1. f[i] = h \/ \E j \in 1..Len(g) : f[i] = g[j]
        BY <1>2, <1>4
      <3> QED
        BY <1>9, <3>1
    <2>2. \A x \in ToSet(g) : x \in ToSet(f)
      BY <1>3, <1>9
    <2>3. h \in ToSet(f)
      BY <1>2, <1>9
    <2> QED
      BY <2>1, <2>2, <2>3
  <1>11. h # Beat => \A x \in ToSet(f) : x # Beat /\ x <= h => x = h
    <2> SUFFICES ASSUME h # Beat, NEW i \in 1..Len(g), g[i] # Beat, g[i] <= h PROVE g[i] = h
      BY <1>9, <1>10
    <2> QED
      BY <1>2, <1>3, <1>7
  <1> QED
    BY <1>1, <1>2, <1>6, <1>8, <1>10, <1>11

LEMMA AscendingIs ==
  ASSUME NEW S \in SUBSET Nat, IsFiniteSet(S), NEW rows, rows = Ascending(S)
  PROVE  /\ rows \in Seq(S) /\ \A m \in S : \E i \in 1..Len(rows) : rows[i] = m
         /\ \A i, j \in 1..Len(rows) : i < j => rows[i] < rows[j]
  <1>1. PICK R : R = {p \in S \X S : p[1] < p[2]}
    OBVIOUS
  <1>2. \A x, m \in S : <<x, m>> \in R <=> x < m
    BY <1>1
  <1>3. IsOrder(S, R)
    BY <1>2 DEF IsOrder
  <1>4. PICK n : n = Cardinality(S)
    OBVIOUS
  <1>5. \A m \in S : Cardinality({x \in S : x < m}) = Rank(S, R, m)
    <2>1. \A m \in S : {x \in S : x < m} = Before(S, R, m)
      BY <1>2 DEF Before
    <2> QED
      BY <2>1 DEF Rank
  <1>6. \A k \in 1..n : \E m \in S : Cardinality({x \in S : x < m}) = k - 1
    BY <1>3, <1>4, <1>5, RanksAreTaken
  <1>7. rows = [k \in 1..n |-> CHOOSE m \in S : Cardinality({x \in S : x < m}) = k - 1]
    BY <1>4 DEF Ascending
  <1>8. \A k \in 1..n : rows[k] \in S /\ Cardinality({x \in S : x < rows[k]}) = k - 1
    BY <1>6, <1>7
  <1>9. rows \in [1..n -> S]
    BY <1>7, <1>8
  <1>10. AreInOrder(rows, S, R)
    BY <1>3, <1>4, <1>5, <1>8, <1>9, ByRank
  <1>11. rows \in Seq(S) /\ \A i \in 1..Len(rows) : rows[i] \in S
    BY <1>10 DEF AreInOrder
  <1> QED
    BY <1>2, <1>10, <1>11 DEF AreInOrder

(***************************************************************************)
(* What a client has, of the activities acts, with a cursor at: all up to  *)
(* the cursor, and while it is connected the rest is in its line, in order.*)
(***************************************************************************)
Covers(acts, top, l, at, have) ==
  /\ at <= top
  /\ \A n \in acts : n <= at => n \in have
  /\ l.open => /\ Steady(Frames(l), at, l.written) /\ l.written <= top
               /\ \A n \in acts : n \in have \cup ToSet(Frames(l))

LEMMA NewActivityIn ==
  ASSUME NEW top \in Nat, NEW l, LineOK(l), NEW after, after = WriteIfNew(l, top + 1)
  PROVE  /\ LineOK(after)
         /\ \A acts, at, have : acts \subseteq 1..top /\ at \in Nat /\ Covers(acts, top, l, at, have)
              => Covers(acts \cup {top + 1}, top + 1, after, at, have)
  <1>1. PICK next, w, f : next = top + 1 /\ w = WriteFrame(l, next) /\ f = Frames(l)
    OBVIOUS
  <1>2. next \in Nat /\ next > top /\ 1..top \subseteq Nat /\ \A n \in 1..top : n <= top
    BY <1>1
  <1>3. LineOK(w) /\ (w.open => l.open /\ w.written = l.written /\ Frames(w) = Append(f, next))
    BY <1>1, <1>2, WriteAppends
  <1>4. l.written \in Nat /\ f \in Seq(Nat) /\ l.open \in BOOLEAN
    BY <1>1, IsLine DEF LineOK
  <1>5. CASE next <= l.written
    <2>1. after = l
      BY <1>1, <1>2, <1>4, <1>5 DEF WriteIfNew
    <2>2. ASSUME NEW acts, NEW at, NEW have, acts \subseteq 1..top, at \in Nat, Covers(acts, top, l, at, have)
          PROVE  Covers(acts \cup {next}, next, after, at, have)
      <3>1. ~l.open
        BY <1>1, <1>2, <1>4, <1>5, <2>2 DEF Covers
      <3>2. at <= top /\ at <= next /\ ~(next <= at)
        BY <1>1, <2>2 DEF Covers
      <3> QED
        BY <2>1, <2>2, <3>1, <3>2 DEF Covers
    <2> QED
      BY <1>1, <2>1, <2>2
  <1>6. CASE next > l.written /\ ~w.open
    <2>1. after = w
      BY <1>1, <1>2, <1>4, <1>6 DEF WriteIfNew
    <2>2. ASSUME NEW acts, NEW at, NEW have, acts \subseteq 1..top, at \in Nat, Covers(acts, top, l, at, have)
          PROVE  Covers(acts \cup {next}, next, after, at, have)
      <3>1. at <= top /\ at <= next /\ ~(next <= at)
        BY <1>1, <2>2 DEF Covers
      <3> QED
        BY <1>6, <2>1, <2>2, <3>1 DEF Covers
    <2> QED
      BY <1>1, <1>3, <2>1, <2>2
  <1>7. CASE next > l.written /\ w.open
    <2>1. after = [w EXCEPT !.written = next]
      BY <1>1, <1>2, <1>4, <1>7 DEF WriteIfNew
    <2>2. w \in Line /\ (w.pending # <<>> => w.waiting)
      BY <1>3 DEF LineOK
    <2>3. PICK b, p, q : b = w.waiting /\ p = w.wire /\ q = w.pending
      OBVIOUS
    <2>4. /\ w = [open |-> w.open, written |-> w.written, waiting |-> b, wire |-> p, pending |-> q]
          /\ w.open \in BOOLEAN /\ b \in BOOLEAN /\ p \in Seq(Nat) /\ q \in Seq(Nat) /\ Frames(w) = p \o q
      BY <2>2, <2>3, IsLine DEF Frames
    <2>5. w.open = TRUE /\ (b = TRUE \/ (b = FALSE /\ q = <<>>))
      BY <1>7, <2>2, <2>3, <2>4
    <2>6. after = [open |-> TRUE, written |-> next, waiting |-> b, wire |-> p, pending |-> q]
      <3>1. w = [open |-> w.open, written |-> w.written, waiting |-> w.waiting,
                 wire |-> w.wire, pending |-> w.pending]
        BY <2>2, IsLine
      <3>2. after = [open |-> w.open, written |-> next, waiting |-> w.waiting,
                     wire |-> w.wire, pending |-> w.pending]
        BY <2>1, <3>1
      <3> QED
        BY <2>3, <2>5, <3>2
    <2>7. LineOK(after) /\ after.open /\ after.written = next /\ Frames(after) = Append(f, next)
      <3>1. LineOK([open |-> TRUE, written |-> next, waiting |-> b, wire |-> p, pending |-> q])
        BY <1>2, <2>4, <2>5, MakeLine
      <3>2. after.open = TRUE /\ after.written = next /\ Frames(after) = p \o q
        <4>1. after.open = TRUE /\ after.written = next /\ after.wire = p /\ after.pending = q
          BY <2>6
        <4> QED
          BY <4>1 DEF Frames
      <3> QED
        BY <1>3, <1>7, <2>4, <2>6, <3>1, <3>2
    <2>8. ASSUME NEW acts, NEW at, NEW have, acts \subseteq 1..top, at \in Nat, Covers(acts, top, l, at, have)
          PROVE  Covers(acts \cup {next}, next, after, at, have)
      <3>1. /\ at <= top /\ Steady(f, at, l.written) /\ l.written <= top
            /\ \A n \in acts : n \in have \cup ToSet(f)
            /\ \A n \in acts : n <= at => n \in have
        BY <1>1, <1>3, <1>7, <2>8 DEF Covers
      <3>2. at <= next /\ ~(next <= at) /\ next > at
        BY <1>1, <2>8, <3>1
      <3>3. Steady(Append(f, next), at, next) /\ ToSet(Append(f, next)) = ToSet(f) \cup {next}
        BY <1>2, <1>4, <1>7, <2>8, <3>1, <3>2, SteadyAppend
      <3>4. next <= next
        BY <1>2
      <3> QED
        BY <2>7, <3>1, <3>2, <3>3, <3>4 DEF Covers
    <2> QED
      BY <1>1, <2>7, <2>8
  <1>8. next <= l.written \/ next > l.written
    BY <1>2, <1>4
  <1> QED
    BY <1>5, <1>6, <1>7, <1>8, Zenon

LEMMA BeatIn ==
  ASSUME NEW l, LineOK(l), NEW after, after = WriteFrame(l, Beat)
  PROVE  /\ LineOK(after)
         /\ \A acts, top, at, have : at \in Nat /\ Covers(acts, top, l, at, have) => Covers(acts, top, after, at, have)
  <1>1. LineOK(after) /\ (after.open => l.open /\ after.written = l.written /\ Frames(after) = Append(Frames(l), Beat))
    BY WriteAppends DEF Beat
  <1>2. l.written \in Nat /\ Frames(l) \in Seq(Nat)
    BY IsLine DEF LineOK
  <1>3. PICK f : f = Frames(l)
    OBVIOUS
  <1>4. ASSUME NEW acts, NEW top, NEW at, NEW have, at \in Nat, Covers(acts, top, l, at, have), after.open
        PROVE  Covers(acts, top, after, at, have)
    <2>1. Steady(f, at, l.written)
      BY <1>1, <1>3, <1>4 DEF Covers
    <2>2. Steady(Append(f, Beat), at, l.written) /\ ToSet(Append(f, Beat)) = ToSet(f) \cup {Beat}
      BY <1>2, <1>3, <1>4, <2>1, SteadyAppend DEF Beat
    <2> QED
      BY <1>1, <1>3, <1>4, <2>2 DEF Covers
  <1> QED
    BY <1>1, <1>4 DEF Covers

LEMMA ReadOut ==
  ASSUME NEW l, LineOK(l), l.wire # <<>>, NEW after, after = [l EXCEPT !.wire = Tail(@)],
         NEW n, n = Head(l.wire)
  PROVE  /\ LineOK(after) /\ n \in Nat
         /\ \A acts, top, at, have :
              acts \subseteq Nat \ {0} /\ top \in Nat /\ at \in Nat /\ Covers(acts, top, l, at, have) =>
                /\ n = Beat => Covers(acts, top, after, at, have)
                /\ n # Beat => Covers(acts, top, after, n, have \cup {n})
  <1>1. /\ l = [open |-> l.open, written |-> l.written, waiting |-> l.waiting,
                wire |-> l.wire, pending |-> l.pending]
        /\ l.open \in BOOLEAN /\ l.written \in Nat /\ l.waiting \in BOOLEAN
        /\ l.wire \in Seq(Nat) /\ l.pending \in Seq(Nat) /\ Frames(l) \in Seq(Nat)
        /\ (l.pending # <<>> => l.waiting)
    BY IsLine DEF LineOK
  <1>2. l.open = TRUE
    BY <1>1 DEF LineOK, Down
  <1>3. after = [open |-> TRUE, written |-> l.written, waiting |-> l.waiting,
                 wire |-> Tail(l.wire), pending |-> l.pending]
    BY <1>1, <1>2
  <1>4. PICK wire, f, g : wire = l.wire /\ f = Frames(l) /\ g = Tail(f)
    OBVIOUS
  <1>5. wire \in Seq(Nat) /\ wire # <<>> /\ Tail(wire) \in Seq(Nat) /\ n \in Nat
    BY <1>1, <1>4, HeadTailProperties
  <1>6. LineOK(after)
    <2>1. PICK b, q : b = l.waiting /\ q = l.pending
      OBVIOUS
    <2>2. q \in Seq(Nat) /\ (b = TRUE \/ (b = FALSE /\ q = <<>>))
      BY <1>1, <2>1
    <2>3. after = [open |-> TRUE, written |-> l.written, waiting |-> b, wire |-> Tail(wire), pending |-> q]
      BY <1>3, <1>4, <2>1
    <2> QED
      <3>1. LineOK([open |-> TRUE, written |-> l.written, waiting |-> b, wire |-> Tail(wire), pending |-> q])
        BY <1>1, <1>5, <2>2, MakeLine
      <3> QED
        BY <2>3, <3>1
  <1>7. f # <<>> /\ Head(f) = n /\ Frames(after) = g
    <2>1. PICK q : q = l.pending
      OBVIOUS
    <2>2. f = wire \o q /\ q \in Seq(Nat)
      BY <1>1, <1>4, <2>1 DEF Frames
    <2>3. wire = <<n>> \o Tail(wire) /\ <<n>> \in Seq(Nat)
      BY <1>4, <1>5
    <2>4. f = <<n>> \o (Tail(wire) \o q)
      BY <1>5, <2>2, <2>3, ConcatAssociative
    <2>5. Tail(wire) \o q \in Seq(Nat)
      BY <1>5, <2>2, ConcatProperties
    <2>6. PICK r : r = Tail(wire) \o q
      OBVIOUS
    <2>7. f # <<>> /\ Head(f) = n /\ Tail(f) = r
      BY <1>5, <2>4, <2>5, <2>6
    <2> QED
      BY <1>3, <1>4, <2>1, <2>6, <2>7 DEF Frames
  <1>8. ASSUME NEW acts, NEW top, NEW at, NEW have, acts \subseteq Nat \ {0}, top \in Nat, at \in Nat,
               Covers(acts, top, l, at, have)
        PROVE  /\ n = Beat => Covers(acts, top, after, at, have)
               /\ n # Beat => Covers(acts, top, after, n, have \cup {n})
    <2>1. /\ at <= top /\ \A x \in acts : x <= at => x \in have
          /\ Steady(f, at, l.written) /\ l.written <= top
          /\ \A x \in acts : x \in have \cup ToSet(f)
      BY <1>2, <1>4, <1>8 DEF Covers
    <2>2. /\ n = Beat => Steady(g, at, l.written)
          /\ n # Beat => Steady(g, n, l.written) /\ n <= l.written
                         /\ \A x \in ToSet(f) : x # Beat /\ x <= n => x = n
          /\ ToSet(f) = ToSet(g) \cup {n}
      BY <1>1, <1>4, <1>7, <1>8, <2>1, SteadyTail
    <2>3. after.open /\ after.written = l.written /\ Frames(after) = g
      BY <1>3, <1>7
    <2>4. CASE n = Beat
      <3>1. \A x \in acts : x \in have \cup ToSet(g)
        BY <1>8, <2>1, <2>2, <2>4 DEF Beat
      <3> QED
        BY <2>1, <2>2, <2>3, <2>4, <3>1 DEF Covers
    <2>5. CASE n # Beat
      <3>1. \A x \in acts : x \in (have \cup {n}) \cup ToSet(g)
        BY <2>1, <2>2
      <3>2. \A x \in acts : x <= n => x \in have \cup {n}
        BY <1>8, <2>1, <2>2, <2>5 DEF Beat
      <3>3. n <= top
        BY <1>1, <1>5, <1>8, <2>1, <2>2, <2>5
      <3> QED
        BY <2>1, <2>2, <2>3, <2>5, <3>1, <3>2, <3>3 DEF Covers
    <2> QED
      BY <2>4, <2>5
  <1> QED
    BY <1>5, <1>6, <1>8

LEMMA DownCovers ==
  LineOK(Down) /\ \A acts, top, l, at, have : Covers(acts, top, l, at, have) => Covers(acts, top, Down, at, have)
  BY DEF Covers, LineOK, Line, Down

(* A client that connects: the hub knows its cursor, so what it has not    *)
(* got is kept and replayed, or it was gone before a connection from 0.    *)
LEMMA ReplaySteady ==
  ASSUME NEW at \in Nat, NEW S \in SUBSET Nat, IsFiniteSet(S), \A n \in S : n > at,
         NEW l, l = Replay(at, Ascending(S))
  PROVE  /\ LineOK(l)
         /\ l.open => /\ Steady(Frames(l), at, l.written) /\ ToSet(Frames(l)) = S
                      /\ l.written \in S \cup {at}
  <1>1. PICK e : e = Ascending(S)
    OBVIOUS
  <1>2. /\ e \in Seq(S) /\ \A m \in S : \E i \in 1..Len(e) : e[i] = m
        /\ \A i, j \in 1..Len(e) : i < j => e[i] < e[j]
    BY <1>1, AscendingIs
  <1>3. e \in Seq(Nat) /\ Len(e) \in Nat /\ \A i \in 1..Len(e) : e[i] \in S
    <2>1. e = [i \in 1..Len(e) |-> e[i]] /\ Len(e) \in Nat /\ \A i \in 1..Len(e) : e[i] \in S
      BY <1>2
    <2>2. \A i \in 1..Len(e) : e[i] \in Nat
      BY <2>1
    <2> QED
      BY <2>1, <2>2
  <1>4. ToSet(e) = S
    <2>1. DOMAIN e = 1..Len(e)
      BY <1>2
    <2> QED
      BY <1>2, <1>3, <2>1 DEF ToSet
  <1>5. PICK w : w = IF e = <<>> THEN at ELSE Last(e)
    OBVIOUS
  <1>6. w \in Nat /\ w \in S \cup {at} /\ \A i \in 1..Len(e) : e[i] <= w
    <2>1. CASE e = <<>>
      BY <1>5, <2>1
    <2>2. CASE e # <<>>
      <3>1. Len(e) \in 1..Len(e) /\ w = e[Len(e)]
        BY <1>2, <1>5, <2>2 DEF Last
      <3>2. w \in S
        BY <1>3, <3>1
      <3>3. \A i \in 1..Len(e) : i = Len(e) \/ i < Len(e)
        BY <1>3
      <3>4. \A i \in 1..Len(e) : e[i] = w \/ e[i] < w
        BY <1>2, <3>1, <3>3
      <3> QED
        BY <1>3, <3>2, <3>4
    <2> QED
      BY <2>1, <2>2
  <1>7. Steady(e, at, w)
    BY <1>2, <1>3, <1>6 DEF Steady
  <1>8. PICK r : r = [open |-> TRUE, written |-> w, waiting |-> FALSE, wire |-> <<>>, pending |-> e]
    OBVIOUS
  <1>9. r \in Line /\ r.open = TRUE /\ r.wire = <<>> /\ r.written = w /\ Frames(r) = <<>> \o e
    BY <1>3, <1>6, <1>8 DEF Line, Frames
  <1>10. <<>> \o e = e
    BY <1>3, ConcatEmptySeq
  <1>11. CASE Len(e) > HighWater + MaxPending
    <2>1. l = Down
      BY <1>1, <1>11 DEF Replay
    <2> QED
      BY <2>1, DownCovers DEF Down
  <1>12. CASE ~(Len(e) > HighWater + MaxPending)
    <2>1. l = Flushed(r)
      BY <1>1, <1>5, <1>8, <1>12 DEF Replay
    <2>2. LineOK(l) /\ l.written = w /\ Frames(l) = e
      BY <1>9, <1>10, <2>1, FlushKeeps
    <2> QED
      BY <1>4, <1>6, <1>7, <2>2
  <1> QED
    BY <1>11, <1>12

Got(c) == ToSet(got[c]) \cup missed[c]

StreamInv ==
  /\ StreamTypeOK
  /\ \A c \in Clients : ~foreign[c] => Covers(ActivitiesOf(c), Len(log), line[c], cursor[c], Got(c))

LEMMA StreamInitInv == StreamInit => StreamInv
  <1> SUFFICES ASSUME StreamInit PROVE StreamInv
    OBVIOUS
  <1>1. Down \in Line /\ ~Down.open
    BY DEF Down, Line
  <1>2. StreamTypeOK
    BY <1>1 DEF StreamInit, StreamTypeOK, Down
  <1>3. ASSUME NEW c \in Clients PROVE Covers(ActivitiesOf(c), Len(log), line[c], cursor[c], Got(c))
    BY <1>1 DEF StreamInit, ActivitiesOf, Covers
  <1> QED
    BY <1>2, <1>3 DEF StreamInv

LEMMA StreamLines ==
  ASSUME StreamTypeOK
  PROVE  \A c \in Clients : LineOK(line[c])
  BY DEF StreamTypeOK, LineOK

LEMMA ActivityKeeps ==
  ASSUME StreamInv, NEW u \in Users, Publish(u)
  PROVE  StreamInv'
  <1>1. PICK top : top = Len(log)
    OBVIOUS
  <1>2. /\ top \in Nat /\ log \in Seq(Users) /\ log' = Append(log, u)
        /\ UNCHANGED <<cursor, foreign, got, missed, spent>>
    BY <1>1 DEF Publish, StreamInv, StreamTypeOK
  <1>3. /\ log' \in Seq(Users) /\ Len(log') = top + 1 /\ log'[top + 1] = u
        /\ \A i \in 1..top : log'[i] = log[i]
    BY <1>1, <1>2, AppendProperties
  <1>4. \A c \in Clients : line'[c] = IF UserOf[c] = u THEN WriteIfNew(line[c], top + 1) ELSE line[c]
    BY <1>1 DEF Publish
  <1>5. \A c \in Clients : LineOK(line[c]) /\ LineOK(WriteIfNew(line[c], top + 1))
    BY <1>2, StreamLines, NewActivityIn DEF StreamInv
  <1>6. \A c \in Clients : LineOK(line'[c])
    BY <1>4, <1>5
  <1>7. line' \in [Clients -> Line]
    <2>1. line' = [c \in Clients |-> line'[c]]
      BY DEF Publish
    <2> QED
      BY <1>6, <2>1 DEF LineOK
  <1>8. StreamTypeOK'
    BY <1>2, <1>3, <1>6, <1>7 DEF StreamInv, StreamTypeOK, LineOK
  <1>9. ASSUME NEW c \in Clients, ~foreign'[c]
        PROVE  Covers(ActivitiesOf(c), Len(log), line[c], cursor[c], Got(c))'
    <2>1. PICK acts, l, at, have : acts = ActivitiesOf(c) /\ l = line[c] /\ at = cursor[c] /\ have = Got(c)
      OBVIOUS
    <2>2. Covers(acts, top, l, at, have) /\ at \in Nat /\ LineOK(l)
      BY <1>1, <1>2, <1>5, <1>9, <2>1 DEF StreamInv, StreamTypeOK
    <2>3. acts \subseteq 1..top
      BY <1>1, <2>1 DEF ActivitiesOf
    <2>4. cursor'[c] = at /\ Got(c)' = have
      BY <1>2, <2>1 DEF Got
    <2>5. CASE UserOf[c] = u
      <3>1. ActivitiesOf(c)' = acts \cup {top + 1}
        BY <1>1, <1>2, <1>3, <2>1, <2>5 DEF ActivitiesOf
      <3>2. line'[c] = WriteIfNew(l, top + 1)
        BY <1>4, <2>1, <2>5
      <3>3. Covers(acts \cup {top + 1}, top + 1, line'[c], at, have)
        BY <1>2, <2>2, <2>3, <3>2, NewActivityIn
      <3> QED
        BY <1>3, <2>4, <3>1, <3>3
    <2>6. CASE UserOf[c] # u
      <3>1. ActivitiesOf(c)' = acts
        BY <1>1, <1>2, <1>3, <2>1, <2>6 DEF ActivitiesOf
      <3>2. line'[c] = l
        BY <1>4, <2>1, <2>6
      <3>3. l.written \in Nat
        BY <2>2, IsLine DEF LineOK
      <3>4. Covers(acts, top + 1, l, at, have)
        BY <1>2, <2>2, <3>3 DEF Covers
      <3> QED
        BY <1>3, <2>4, <3>1, <3>2, <3>4
    <2> QED
      BY <2>5, <2>6
  <1> QED
    BY <1>8, <1>9 DEF StreamInv

(* Most steps are about one client.                                        *)
LEMMA OneClient ==
  ASSUME StreamInv, NEW c \in Clients, NEW l, LineOK(l), line' = [line EXCEPT ![c] = l], UNCHANGED log,
         StreamTypeOK', UNCHANGED foreign,
         \A d \in Clients : d # c => cursor'[d] = cursor[d] /\ got'[d] = got[d] /\ missed'[d] = missed[d],
         ~foreign[c] => Covers(ActivitiesOf(c), Len(log), l, cursor'[c], Got(c)')
  PROVE  StreamInv'
  <1>1. line'[c] = l /\ \A d \in Clients : d # c => line'[d] = line[d]
    BY DEF StreamInv, StreamTypeOK
  <1>2. ASSUME NEW d \in Clients, ~foreign'[d]
        PROVE  Covers(ActivitiesOf(d), Len(log), line[d], cursor[d], Got(d))'
    <2>1. ActivitiesOf(d)' = ActivitiesOf(d)
      BY DEF ActivitiesOf
    <2>2. CASE d = c
      BY <1>1, <1>2, <2>1, <2>2
    <2>3. CASE d # c
      <3>1. Got(d)' = Got(d)
        BY <2>3 DEF Got
      <3> QED
        BY <1>1, <1>2, <2>1, <2>3, <3>1 DEF StreamInv
    <2> QED
      BY <2>2, <2>3
  <1> QED
    BY <1>2 DEF StreamInv

LEMMA LineTyped ==
  ASSUME StreamTypeOK, NEW c \in Clients, NEW l, LineOK(l), line' = [line EXCEPT ![c] = l],
         UNCHANGED <<log, foreign>>, cursor' \in [Clients -> Nat], got' \in [Clients -> Seq(Nat)],
         missed' \in [Clients -> SUBSET Nat], spent' \in [{"beats", "breaks", "restarts"} -> Nat]
  PROVE  StreamTypeOK'
  <1>1. line' \in [Clients -> Line] /\ \A d \in Clients : LineOK(line'[d])
    BY StreamLines DEF StreamTypeOK, LineOK
  <1> QED
    BY <1>1 DEF StreamTypeOK, LineOK

LEMMA ConnectKeeps ==
  ASSUME StreamInv, NEW c \in Clients, Connect(c)
  PROVE  StreamInv'
  <1>1. PICK at, top, acts, have, lost : /\ at = cursor[c] /\ top = Len(log) /\ acts = ActivitiesOf(c)
                                         /\ have = Got(c) /\ lost = missed'[c]
    OBVIOUS
  <1>2. StreamTypeOK /\ at \in Nat /\ top \in Nat /\ acts \subseteq 1..top
    BY <1>1 DEF StreamInv, StreamTypeOK, ActivitiesOf
  <1>3. PICK S : S = {n \in ActivitiesOf(c) \cap Retained : n > at}
    OBVIOUS
  <1>4. S \in SUBSET Nat /\ IsFiniteSet(S) /\ (\A n \in S : n > at) /\ S \subseteq acts
    <2>1. S \subseteq 1..top
      BY <1>1, <1>2, <1>3
    <2>2. IsFiniteSet(1..top)
      BY <1>2, FS_Interval
    <2> QED
      BY <1>1, <1>2, <1>3, <2>1, <2>2, FS_Subset
  <1>5. PICK l : l = Replayed(c)
    OBVIOUS
  <1>6. /\ LineOK(l)
        /\ l.open => Steady(Frames(l), at, l.written) /\ ToSet(Frames(l)) = S /\ l.written \in S \cup {at}
    <2>1. l = Replay(at, Ascending(S))
      BY <1>1, <1>3, <1>5 DEF Replayed, EventsFor
    <2> QED
      BY <1>2, <1>4, <2>1, ReplaySteady
  <1>7. /\ line' = [line EXCEPT ![c] = l] /\ UNCHANGED <<log, cursor, foreign, got, spent>>
        /\ missed' = [missed EXCEPT ![c] =
             IF at = 0 THEN @ \cup ((acts \ Retained) \ ToSet(got[c])) ELSE @]
        /\ SeqAvailable(c, at)
    BY <1>1, <1>5 DEF Connect
  <1>8. missed' \in [Clients -> SUBSET Nat]
        /\ lost = (IF at = 0 THEN missed[c] \cup ((acts \ Retained) \ ToSet(got[c])) ELSE missed[c])
        /\ \A d \in Clients : d # c => missed'[d] = missed[d]
    BY <1>1, <1>2, <1>7 DEF StreamTypeOK
  <1>9. StreamTypeOK'
    BY <1>2, <1>6, <1>7, <1>8, LineTyped DEF StreamTypeOK
  <1>10. ASSUME ~foreign[c] PROVE Covers(acts, top, l, at, Got(c)')
    <2>1. at <= top /\ \A n \in acts : n <= at => n \in have
      BY <1>1, <1>10 DEF StreamInv, Covers
    <2>2. Got(c)' = ToSet(got[c]) \cup lost /\ have = ToSet(got[c]) \cup missed[c]
      BY <1>1, <1>7 DEF Got
    <2>3. have \subseteq Got(c)'
      BY <1>8, <2>2
    <2>4. \A n \in acts : n > at => n \in S \/ n \notin Retained
      BY <1>1, <1>3
    <2>5. \A n \in acts : n > at /\ n \notin Retained => n \in Got(c)'
      <3>1. CASE at = 0
        BY <1>8, <2>2, <3>1
      <3>2. CASE at # 0
        <4>1. at \in Retained
          BY <1>7, <3>2 DEF SeqAvailable
        <4>2. \A n \in 1..top : n > at => n \in Retained
          BY <1>1, <1>2, <4>1, StreamNumbers DEF Retained
        <4> QED
          BY <1>2, <4>2
      <3> QED
        BY <3>1, <3>2
    <2>6. \A n \in acts : n \in Got(c)' \cup S
      BY <1>2, <2>1, <2>3, <2>4, <2>5
    <2>7. l.open => l.written <= top
      <3>1. l.open => l.written \in S \cup {at}
        BY <1>6
      <3>2. \A n \in S \cup {at} : n <= top
        BY <1>2, <1>4, <2>1
      <3> QED
        BY <3>1, <3>2
    <2> QED
      BY <1>6, <2>1, <2>3, <2>6, <2>7 DEF Covers
  <1> QED
    BY <1>1, <1>6, <1>7, <1>8, <1>9, <1>10, OneClient

LEMMA ReadKeeps ==
  ASSUME StreamInv, NEW c \in Clients, Read(c)
  PROVE  StreamInv'
  <1>1. PICK l, n, after, at : /\ l = line[c] /\ n = Head(l.wire) /\ after = [l EXCEPT !.wire = Tail(@)]
                               /\ at = cursor[c]
    OBVIOUS
  <1>2. StreamTypeOK /\ LineOK(l) /\ l.wire # <<>> /\ at \in Nat /\ line \in [Clients -> Line]
        /\ ActivitiesOf(c) \subseteq Nat \ {0} /\ Len(log) \in Nat
    BY <1>1, StreamLines DEF StreamInv, StreamTypeOK, Read, ActivitiesOf
  <1>3. LineOK(after) /\ n \in Nat
    BY <1>1, <1>2, ReadOut
  <1>4. line' = [line EXCEPT ![c] = after] /\ UNCHANGED <<log, foreign, missed, spent>>
        /\ IF n = Beat THEN UNCHANGED <<cursor, got>>
           ELSE cursor' = [cursor EXCEPT ![c] = n] /\ got' = [got EXCEPT ![c] = Append(@, n)]
    BY <1>1, <1>2 DEF Read
  <1>5. /\ cursor' \in [Clients -> Nat] /\ got' \in [Clients -> Seq(Nat)]
        /\ \A d \in Clients : d # c => cursor'[d] = cursor[d] /\ got'[d] = got[d] /\ missed'[d] = missed[d]
    <2>1. /\ cursor \in [Clients -> Nat] /\ got \in [Clients -> Seq(Nat)] /\ missed' = missed
          /\ Append(got[c], n) \in Seq(Nat)
      BY <1>2, <1>3, <1>4 DEF StreamTypeOK
    <2>2. CASE n = Beat
      BY <1>4, <2>1, <2>2
    <2>3. CASE n # Beat
      <3>1. cursor' = [cursor EXCEPT ![c] = n] /\ got' = [got EXCEPT ![c] = Append(got[c], n)]
        BY <1>4, <2>3
      <3> QED
        BY <1>3, <2>1, <3>1
    <2> QED
      BY <2>2, <2>3
  <1>6. StreamTypeOK'
    BY <1>2, <1>3, <1>4, <1>5, LineTyped DEF StreamTypeOK
  <1>7. ASSUME ~foreign[c] PROVE Covers(ActivitiesOf(c), Len(log), after, cursor'[c], Got(c)')
    <2>1. Covers(ActivitiesOf(c), Len(log), l, at, Got(c))
      BY <1>1, <1>7 DEF StreamInv
    <2>2. /\ n = Beat => Covers(ActivitiesOf(c), Len(log), after, at, Got(c))
          /\ n # Beat => Covers(ActivitiesOf(c), Len(log), after, n, Got(c) \cup {n})
      <3>1. PICK acts, top, have : acts = ActivitiesOf(c) /\ top = Len(log) /\ have = Got(c)
        OBVIOUS
      <3>2. acts \subseteq Nat \ {0} /\ top \in Nat /\ Covers(acts, top, l, at, have)
        BY <1>2, <2>1, <3>1
      <3>3. n = Beat => Covers(acts, top, after, at, have)
        BY <1>1, <1>2, <3>2, ReadOut
      <3>4. n # Beat => Covers(acts, top, after, n, have \cup {n})
        <4>1. PICK k, w : k = n /\ w = after
          OBVIOUS
        <4>2. k = Head(l.wire) /\ w = [l EXCEPT !.wire = Tail(@)]
          BY <1>1, <4>1
        <4>3. k # Beat => Covers(acts, top, w, k, have \cup {k})
          BY <1>2, <3>2, <4>2, ReadOut
        <4> QED
          BY <4>1, <4>3
      <3> QED
        BY <3>1, <3>3, <3>4
    <2>3. CASE n = Beat
      <3>1. cursor'[c] = at /\ Got(c)' = Got(c)
        BY <1>1, <1>4, <2>3 DEF Got
      <3> QED
        BY <2>2, <2>3, <3>1
    <2>4. CASE n # Beat
      <3>1. cursor'[c] = n /\ got'[c] = Append(got[c], n) /\ missed'[c] = missed[c] /\ got[c] \in Seq(Nat)
        BY <1>2, <1>4, <2>4 DEF StreamTypeOK
      <3>2. ToSet(Append(got[c], n)) = ToSet(got[c]) \cup {n}
        BY <1>3, <3>1, AppendToSet
      <3>3. Got(c)' = Got(c) \cup {n}
        BY <3>1, <3>2 DEF Got
      <3> QED
        BY <2>2, <2>4, <3>1, <3>3
    <2> QED
      BY <2>3, <2>4
  <1> QED
    BY <1>2, <1>3, <1>4, <1>5, <1>6, <1>7, OneClient

LEMMA SpentCounts ==
  \A s \in [{"beats", "breaks", "restarts"} -> Nat] :
    /\ [s EXCEPT !.beats = @ + 1] \in [{"beats", "breaks", "restarts"} -> Nat]
    /\ [s EXCEPT !.breaks = @ + 1] \in [{"beats", "breaks", "restarts"} -> Nat]
    /\ [s EXCEPT !.restarts = @ + 1] \in [{"beats", "breaks", "restarts"} -> Nat]
  OBVIOUS

LEMMA StreamStepInv == StreamInv /\ [StreamNext]_streamVars => StreamInv'
  <1> SUFFICES ASSUME StreamInv, [StreamNext]_streamVars PROVE StreamInv'
    OBVIOUS
  <1>1. StreamTypeOK
    BY DEF StreamInv
  <1>2. ASSUME NEW c \in Clients, Refused(c) PROVE StreamInv'
    <2>1. /\ UNCHANGED <<log, line, got, missed, spent>> /\ ~line[c].open
          /\ cursor' = [cursor EXCEPT ![c] = 0] /\ foreign' = [foreign EXCEPT ![c] = FALSE]
      BY <1>2 DEF Refused
    <2>2. /\ cursor' \in [Clients -> Nat] /\ foreign' \in [Clients -> BOOLEAN] /\ cursor'[c] = 0
          /\ \A d \in Clients : d # c => cursor'[d] = cursor[d] /\ foreign'[d] = foreign[d]
      BY <1>1, <2>1 DEF StreamTypeOK
    <2>3. StreamTypeOK'
      BY <1>1, <2>1, <2>2 DEF StreamTypeOK
    <2>4. ASSUME NEW d \in Clients, ~foreign'[d]
          PROVE  Covers(ActivitiesOf(d), Len(log), line[d], cursor[d], Got(d))'
      <3>1. ActivitiesOf(d)' = ActivitiesOf(d) /\ Got(d)' = Got(d)
        BY <2>1 DEF ActivitiesOf, Got
      <3>2. CASE d = c
        <4>1. ActivitiesOf(c) \subseteq 1..Len(log) /\ Len(log) \in Nat
          BY <1>1 DEF ActivitiesOf, StreamTypeOK
        <4>2. Covers(ActivitiesOf(c), Len(log), line[c], 0, Got(c))
          BY <2>1, <4>1 DEF Covers
        <4> QED
          BY <2>1, <2>2, <3>1, <3>2, <4>2
      <3>3. CASE d # c
        BY <2>1, <2>2, <2>4, <3>1, <3>3 DEF StreamInv
      <3> QED
        BY <3>2, <3>3
    <2> QED
      BY <2>3, <2>4 DEF StreamInv
  <1>3. ASSUME NEW c \in Clients, NEW l, LineOK(l), line' = [line EXCEPT ![c] = l],
               UNCHANGED <<log, cursor, foreign, got, missed>>,
               spent' \in [{"beats", "breaks", "restarts"} -> Nat],
               ~foreign[c] => Covers(ActivitiesOf(c), Len(log), l, cursor[c], Got(c))
        PROVE  StreamInv'
    <2>1. StreamTypeOK'
      BY <1>1, <1>3, LineTyped DEF StreamTypeOK
    <2>2. Got(c)' = Got(c) /\ cursor'[c] = cursor[c]
      BY <1>3 DEF Got
    <2> QED
      BY <1>3, <2>1, <2>2, OneClient
  <1>4. \A c \in Clients : /\ LineOK(line[c]) /\ cursor[c] \in Nat
                           /\ ~foreign[c] => Covers(ActivitiesOf(c), Len(log), line[c], cursor[c], Got(c))
    BY StreamLines DEF StreamInv, StreamTypeOK
  <1>5. ASSUME NEW c \in Clients, Drain(c) PROVE StreamInv'
    <2>1. PICK l, after : l = line[c] /\ after = Flushed(l)
      OBVIOUS
    <2>2. /\ l.waiting /\ l.wire = <<>> /\ line' = [line EXCEPT ![c] = after]
          /\ UNCHANGED <<log, cursor, foreign, got, missed, spent>>
      BY <1>5, <2>1 DEF Drain
    <2>3. l \in Line /\ l.open
      BY <1>4, <2>1, <2>2 DEF LineOK, Down
    <2>4. LineOK(after) /\ after.open /\ after.written = l.written /\ Frames(after) = Frames(l)
      BY <2>1, <2>2, <2>3, FlushKeeps
    <2>5. ~foreign[c] => Covers(ActivitiesOf(c), Len(log), after, cursor[c], Got(c))
      BY <1>4, <2>1, <2>3, <2>4 DEF Covers
    <2> QED
      BY <1>1, <1>3, <2>2, <2>4, <2>5 DEF StreamTypeOK
  <1>6. ASSUME NEW c \in Clients, Heartbeat(c) PROVE StreamInv'
    <2>1. PICK l, after : l = line[c] /\ after = WriteFrame(l, Beat)
      OBVIOUS
    <2>2. /\ line' = [line EXCEPT ![c] = after] /\ UNCHANGED <<log, cursor, foreign, got, missed>>
          /\ spent' = [spent EXCEPT !.beats = @ + 1]
      BY <1>6, <2>1 DEF Heartbeat
    <2>3. LineOK(after) /\ (~foreign[c] => Covers(ActivitiesOf(c), Len(log), after, cursor[c], Got(c)))
      BY <1>4, <2>1, BeatIn
    <2>4. spent' \in [{"beats", "breaks", "restarts"} -> Nat]
      BY <1>1, <2>2, SpentCounts DEF StreamTypeOK
    <2> QED
      BY <1>3, <2>2, <2>3, <2>4
  <1>7. ASSUME NEW c \in Clients, Break(c) PROVE StreamInv'
    <2>1. /\ line' = [line EXCEPT ![c] = Down] /\ UNCHANGED <<log, cursor, foreign, got, missed>>
          /\ spent' = [spent EXCEPT !.breaks = @ + 1]
      BY <1>7 DEF Break
    <2>2. LineOK(Down) /\ (~foreign[c] => Covers(ActivitiesOf(c), Len(log), Down, cursor[c], Got(c)))
      BY <1>4, DownCovers
    <2>3. spent' \in [{"beats", "breaks", "restarts"} -> Nat]
      BY <1>1, <2>1, SpentCounts DEF StreamTypeOK
    <2> QED
      BY <1>3, <2>1, <2>2, <2>3
  <1>8. CASE Restart
    <2>1. /\ log' = <<>> /\ line' = [c \in Clients |-> Down] /\ got' = [c \in Clients |-> <<>>]
          /\ foreign' = [c \in Clients |-> cursor[c] # 0] /\ missed' = [c \in Clients |-> {}]
          /\ cursor' = cursor /\ spent' = [spent EXCEPT !.restarts = @ + 1]
      BY <1>8 DEF Restart
    <2>2. Down \in Line /\ ~Down.open /\ Down.pending = <<>>
      BY DEF Down, Line
    <2>3. foreign' \in [Clients -> BOOLEAN] /\ spent' \in [{"beats", "breaks", "restarts"} -> Nat]
      <3>1. foreign' \in [Clients -> BOOLEAN]
        BY <2>1, Zenon
      <3> QED
        BY <1>1, <2>1, <3>1, SpentCounts DEF StreamTypeOK
    <2>4. StreamTypeOK'
      BY <1>1, <2>1, <2>2, <2>3 DEF StreamTypeOK
    <2>5. ASSUME NEW c \in Clients, ~foreign'[c]
          PROVE  Covers(ActivitiesOf(c), Len(log), line[c], cursor[c], Got(c))'
      <3>1. ActivitiesOf(c)' = {} /\ Len(log)' = 0 /\ line'[c] = Down /\ cursor'[c] = 0
        <4>1. cursor[c] = 0
          BY <2>1, <2>5, Zenon
        <4>2. ActivitiesOf(c)' = {}
          BY <2>1 DEF ActivitiesOf
        <4> QED
          BY <2>1, <4>1, <4>2
      <3> QED
        BY <2>2, <3>1 DEF Covers
    <2> QED
      BY <2>4, <2>5 DEF StreamInv
  <1>9. CASE UNCHANGED streamVars
    <2>1. StreamTypeOK'
      BY <1>1, <1>9 DEF streamVars, StreamTypeOK
    <2> QED
      BY <1>9, <2>1 DEF streamVars, StreamInv, ActivitiesOf, Got
  <1> QED
    BY <1>2, <1>5, <1>6, <1>7, <1>8, <1>9, ActivityKeeps, ConnectKeeps, ReadKeeps DEF StreamNext, StreamStep

(* A line holds numbers, a closed one none, and the writer keeps frames    *)
(* only while it waits for the socket.                                     *)
THEOREM StreamTypeCorrect == StreamSpec => []StreamTypeOK
  <1>1. StreamInv => StreamTypeOK
    BY DEF StreamInv
  <1> QED
    BY <1>1, StreamInitInv, StreamStepInv, PTL DEF StreamSpec

(* A browser that has got an activity has got every earlier one of its     *)
(* user, except those dropped before it connected without a cursor, for    *)
(* any number of browsers and any limits of hub, socket and writer         *)
(* (createRunActivityHub, handleRunActivityStreamRequest).                 *)
THEOREM NoGap == StreamSpec => []NoSilentGap
  <1>1. StreamInv => NoSilentGap
    BY DEF StreamInv, NoSilentGap, Covers, Got
  <1> QED
    BY <1>1, StreamInitInv, StreamStepInv, PTL DEF StreamSpec

-------------------------------------------------------------------------------
(* The history of memos (AnalyzeRuns): a page is the first of the rows after *)
(* the cursor.  What a client has been shown is newer than all that is after *)
(* its cursor, and what it held when it began is shown, after the cursor, or *)
(* of the millisecond the cursor was rounded to.                             *)

MemosTyped(S) ==
  /\ IsFiniteSet(S)
  /\ \A m \in S : m.id \in Nat /\ m.at \in Nat
  /\ \A m, n \in S : m.id = n.id => m = n

(* Rows in order are these rows, each newer than the next.                   *)
Rows(rows, S) ==
  /\ rows \in Seq(S) /\ \A m \in S : \E i \in 1..Len(rows) : rows[i] = m
  /\ \A i, j \in 1..Len(rows) : i < j => NewestFirst(rows[i], rows[j])

LEMMA InOrderIs ==
  ASSUME NEW S, MemosTyped(S)
  PROVE  Rows(InOrder(S), S)
  <1>0. PICK rows : rows = InOrder(S)
    OBVIOUS
  <1>1. PICK R : R = {p \in S \X S : NewestFirst(p[1], p[2])}
    OBVIOUS
  <1>2. \A x, m \in S : <<x, m>> \in R <=> NewestFirst(x, m)
    BY <1>1
  <1>3. IsOrder(S, R)
    <2>1. \A m \in S : ~NewestFirst(m, m)
      BY DEF MemosTyped, NewestFirst, OlderThan
    <2>2. \A m, n, x \in S : NewestFirst(x, m) /\ NewestFirst(m, n) => NewestFirst(x, n)
      BY DEF MemosTyped, NewestFirst, OlderThan
    <2>3. \A m, n \in S : m # n => NewestFirst(m, n) \/ NewestFirst(n, m)
      BY DEF MemosTyped, NewestFirst, OlderThan
    <2>4. IsFiniteSet(S)
      BY DEF MemosTyped
    <2> QED
      BY <1>2, <2>1, <2>2, <2>3, <2>4 DEF IsOrder
  <1>4. PICK n : n = Cardinality(S)
    OBVIOUS
  <1>5. \A m \in S : Cardinality({x \in S : NewestFirst(x, m)}) = Rank(S, R, m)
    <2>1. \A m \in S : {x \in S : NewestFirst(x, m)} = Before(S, R, m)
      BY <1>2 DEF Before
    <2> QED
      BY <2>1 DEF Rank
  <1>6. \A k \in 1..n : \E m \in S : Cardinality({x \in S : NewestFirst(x, m)}) = k - 1
    BY <1>3, <1>4, <1>5, RanksAreTaken
  <1>7. rows = [k \in 1..n |-> CHOOSE m \in S : Cardinality({x \in S : NewestFirst(x, m)}) = k - 1]
    BY <1>0, <1>4 DEF InOrder
  <1>8. \A k \in 1..n : rows[k] \in S /\ Cardinality({x \in S : NewestFirst(x, rows[k])}) = k - 1
    BY <1>6, <1>7
  <1>9. rows \in [1..n -> S]
    BY <1>7, <1>8
  <1>10. AreInOrder(rows, S, R)
    BY <1>3, <1>4, <1>5, <1>8, <1>9, ByRank
  <1>11. rows \in Seq(S) /\ \A i \in 1..Len(rows) : rows[i] \in S
    BY <1>10 DEF AreInOrder
  <1>12. Rows(rows, S)
    BY <1>2, <1>10, <1>11 DEF AreInOrder, Rows
  <1> QED
    BY <1>0, <1>12

(* What the cursor loses: it rounds the time down to a millisecond.        *)
LEMMA Rounding ==
  ASSUME NEW t \in Nat \ {0}, NEW a \in Nat, NEW b \in Nat
  PROVE  /\ b - (b % t) \in Nat /\ b - (b % t) <= b
         /\ b - (b % t) <= a /\ a <= b => a - (a % t) = b - (b % t)
         /\ a % t = 0 => (a + t) % t = 0
  <1>1. PICK q : q = b \div t
    OBVIOUS
  <1>2. q \in Nat /\ b % t \in 0..(t - 1) /\ b = t * q + (b % t)
    BY <1>1
  <1>3. PICK p : p = a \div t
    OBVIOUS
  <1>4. p \in Nat /\ a % t \in 0..(t - 1) /\ a = t * p + (a % t)
    BY <1>3
  <1>5. b - (b % t) <= a /\ a <= b => p = q
    BY <1>2, <1>4
  <1>6. ASSUME a % t = 0 PROVE (a + t) % t = 0
    <2>1. PICK k, rest : k = (a + t) \div t /\ rest = (a + t) % t
      OBVIOUS
    <2>2. k \in Nat /\ rest \in 0..(t - 1) /\ a + t = t * k + rest
      BY <2>1
    <2>3. t * p + t = t * k + rest
      BY <1>4, <1>6, <2>2
    <2>4. k <= p => t * k <= t * p
      BY <1>4, <2>2
    <2>5. k > p => t * k >= t * p + t
      BY <1>4, <2>2
    <2>6. t * k \in Nat /\ t * p \in Nat
      BY <1>4, <2>2
    <2>7. rest = 0
      BY <1>4, <2>2, <2>3, <2>4, <2>5, <2>6
    <2> QED
      BY <2>1, <2>7
  <1> QED
    BY <1>2, <1>4, <1>5, <1>6

Sorted(rows) == \A i, j \in 1..Len(rows) : i < j => NewestFirst(rows[i], rows[j])

\* a memo is in the list, or in the millisecond of the last row of a page
Shown(m, listed) ==
  \/ \E i \in 1..Len(listed) : listed[i] = m
  \/ \E k \in 1..Len(listed) : k % PageLimit = 0 /\ AsDate(listed[k].at) = AsDate(m.at)

After(m, from) == \A x \in from : OlderThan(<<m.at, m.id>>, x)

\* whatever is after the cursor, now or later, is older than what is listed
Clear(listed, from) ==
  \A t, i \in Nat : (\A x \in from : OlderThan(<<t, i>>, x))
     => \A k \in 1..Len(listed) : OlderThan(<<t, i>>, <<listed[k].at, listed[k].id>>)

\* what was there is in the list or after the cursor
ListedUpTo(b, from) ==
  /\ b.listed \in Seq(memos) /\ Sorted(b.listed) /\ Len(b.listed) % PageLimit = 0
  /\ b.held \subseteq MemosOf(b.user)
  /\ Clear(b.listed, from)
  /\ \A m \in b.held : Shown(m, b.listed) \/ After(m, from)

IsBrowsing(b) ==
  b = [at |-> b.at, user |-> b.user, held |-> b.held, listed |-> b.listed, cursor |-> b.cursor]

Browses(b) ==
  /\ IsBrowsing(b) /\ b.listed \in Seq(memos) /\ Sorted(b.listed)
  /\ b.held \subseteq MemosOf(b.user)
  /\ b.at = "open" => ListedUpTo(b, b.cursor)
  /\ b.at = "done" => \A m \in b.held : Shown(m, b.listed)

TemplateFields ==
  \A x \in templates : x = [id |-> x.id, user |-> x.user, version |-> x.version, deleted |-> x.deleted]

HistoryInv == moment \in Nat /\ MemosTyped(memos) /\ TemplateFields /\ Browses(browsing)

(* A page: the rows after the cursor, and the cursor after the page.       *)
LEMMA PageKeeps ==
  ASSUME HistoryInv, NEW b, IsBrowsing(b), NEW from, ListedUpTo(b, from), ReadPage(b, from)
  PROVE  Browses(browsing)'
  <1>0. PICK S : S = {m \in MemosOf(b.user) : After(m, from)}
    OBVIOUS
  <1>1. PICK rows : rows = PageRows(b.user, from)
    OBVIOUS
  <1>2. S \subseteq memos /\ MemosTyped(S) /\ MemosTyped(memos)
    <2>1. S \subseteq memos /\ MemosTyped(memos)
      BY <1>0 DEF MemosOf, HistoryInv
    <2>2. IsFiniteSet(S)
      BY <2>1, FS_Subset DEF MemosTyped
    <2> QED
      BY <2>1, <2>2 DEF MemosTyped
  <1>3. rows = InOrder(S)
    BY <1>0, <1>1 DEF PageRows, After
  <1>4. /\ rows \in Seq(S) /\ \A m \in S : \E i \in 1..Len(rows) : rows[i] = m
        /\ \A i, j \in 1..Len(rows) : i < j => NewestFirst(rows[i], rows[j])
    <2>1. Rows(rows, S)
      BY <1>2, <1>3, InOrderIs
    <2> QED
      BY <2>1 DEF Rows
  <1>5. PageLimit \in Nat \ {0} /\ TicksPerMs \in Nat \ {0}
    BY MemoConstants
  <1>6. PICK n : n = IF Len(rows) > PageLimit THEN PageLimit ELSE Len(rows)
    OBVIOUS
  <1>7. n \in 0..Len(rows) /\ n <= PageLimit /\ Len(rows) \in Nat
    BY <1>4, <1>5, <1>6
  <1>8. PICK page, old, new : /\ page = SubSeq(rows, 1, n) /\ old = b.listed /\ new = old \o page
    OBVIOUS
  <1>9. page \in Seq(memos) /\ Len(page) = n /\ \A i \in 1..n : page[i] = rows[i] /\ page[i] \in S
    BY <1>2, <1>4, <1>7, <1>8
  <1>10. old \in Seq(memos) /\ Len(old) \in Nat /\ Sorted(old) /\ Len(old) % PageLimit = 0
    BY <1>8 DEF ListedUpTo
  <1>11. /\ new \in Seq(memos) /\ Len(new) = Len(old) + n
         /\ \A i \in 1..Len(old) : new[i] = old[i]
         /\ \A i \in 1..n : new[Len(old) + i] = page[i]
    <2>1. new \in Seq(memos)
      BY <1>8, <1>9, <1>10
    <2>2. PICK p : p = Len(old)
      OBVIOUS
    <2>3. /\ Len(new) = p + n
          /\ \A i \in 1..(p + n) : new[i] = IF i <= p THEN old[i] ELSE page[i - p]
      BY <1>8, <1>9, <1>10, <2>2, ConcatProperties
    <2>4. p \in Nat /\ n \in Nat
      BY <1>7, <1>10, <2>2
    <2>5. \A i \in 1..p : new[i] = old[i]
      BY <2>3, <2>4
    <2>6. ASSUME NEW i \in 1..n PROVE new[p + i] = page[i]
      <3>1. p + i \in 1..(p + n) /\ ~(p + i <= p) /\ (p + i) - p = i
        BY <2>4
      <3> QED
        BY <2>3, <3>1
    <2> QED
      BY <2>1, <2>2, <2>3, <2>5, <2>6
  <1>12. \A i \in 1..Len(new) : i \in 1..Len(old) \/ (i - Len(old) \in 1..n /\ new[i] = page[i - Len(old)])
    BY <1>7, <1>10, <1>11
  <1>13. \A m \in S : \A i \in 1..Len(old) : NewestFirst(old[i], m)
    <2>1. \A m \in S : m.at \in Nat /\ m.id \in Nat /\ After(m, from)
      BY <1>0, <1>2 DEF MemosTyped
    <2>2. Clear(old, from)
      BY <1>8 DEF ListedUpTo
    <2> QED
      BY <2>1, <2>2 DEF Clear, After, NewestFirst
  <1>14. Sorted(new)
    <2> SUFFICES ASSUME NEW i \in 1..Len(new), NEW j \in 1..Len(new), i < j
                 PROVE  NewestFirst(new[i], new[j])
      BY DEF Sorted
    <2>1. CASE j \in 1..Len(old)
      <3>1. i \in 1..Len(old)
        BY <1>10, <2>1
      <3> QED
        BY <1>10, <1>11, <2>1, <3>1 DEF Sorted
    <2>2. CASE i \in 1..Len(old) /\ j \notin 1..Len(old)
      <3>1. new[j] \in S /\ new[i] = old[i]
        BY <1>9, <1>11, <1>12, <2>2
      <3> QED
        BY <1>13, <2>2, <3>1
    <2>3. CASE i \notin 1..Len(old) /\ j \notin 1..Len(old)
      <3>1. i - Len(old) \in 1..n /\ j - Len(old) \in 1..n /\ i - Len(old) < j - Len(old)
            /\ new[i] = rows[i - Len(old)] /\ new[j] = rows[j - Len(old)]
        BY <1>7, <1>9, <1>10, <1>11, <1>12, <2>3
      <3>2. i - Len(old) \in 1..Len(rows) /\ j - Len(old) \in 1..Len(rows)
        BY <1>7, <3>1
      <3> QED
        BY <1>4, <3>1, <3>2
    <2> QED
      BY <2>1, <2>2, <2>3
  <1>15. \A m : Shown(m, old) => Shown(m, new)
    <2>1. 1..Len(old) \subseteq 1..Len(new)
      BY <1>7, <1>10, <1>11
    <2> QED
      BY <1>11, <2>1 DEF Shown
  <1>16. \A m \in S : \A i \in 1..Len(rows) : i <= n /\ rows[i] = m => Shown(m, new)
    <2> SUFFICES ASSUME NEW m \in S, NEW i \in 1..Len(rows), i <= n, rows[i] = m PROVE Shown(m, new)
      OBVIOUS
    <2>1. i \in 1..n /\ Len(old) + i \in 1..Len(new) /\ new[Len(old) + i] = m
      BY <1>7, <1>9, <1>10, <1>11
    <2> QED
      BY <2>1 DEF Shown
  <1>17. \A m \in b.held : Shown(m, new) \/ \E i \in 1..Len(rows) : i > n /\ rows[i] = m
    <2> SUFFICES ASSUME NEW m \in b.held, ~Shown(m, new)
                 PROVE  \E i \in 1..Len(rows) : i > n /\ rows[i] = m
      OBVIOUS
    <2>1. m \in S
      BY <1>0, <1>8, <1>15 DEF ListedUpTo
    <2>2. PICK i \in 1..Len(rows) : rows[i] = m
      BY <1>4, <2>1
    <2> QED
      BY <1>7, <1>16, <2>1, <2>2
  <1>18. b.held \subseteq MemosOf(b.user)
    BY DEF ListedUpTo
  <1>19. PICK c : c = browsing'
    OBVIOUS
  <1>20. UNCHANGED <<templates, memos, drafts, moment>>
    BY DEF ReadPage, memoTables
  <1>21. CASE Len(rows) <= PageLimit
    <2>1. NextCursor(rows) = {} /\ n = Len(rows)
      BY <1>5, <1>6, <1>7, <1>21 DEF NextCursor
    <2>2. c = [b EXCEPT !.at = "done", !.listed = new, !.cursor = {}]
      BY <1>1, <1>6, <1>8, <1>19, <2>1 DEF ReadPage
    <2>3. c = [at |-> "done", user |-> b.user, held |-> b.held, listed |-> new, cursor |-> {}]
      BY <2>2 DEF IsBrowsing
    <2>4. \A m \in b.held : Shown(m, new)
      BY <1>7, <1>17, <2>1
    <2>5. Browses(c)
      BY <1>11, <1>14, <1>18, <2>3, <2>4 DEF Browses, IsBrowsing
    <2> QED
      BY <1>19, <1>20, <2>5 DEF Browses, ListedUpTo, MemosOf, Template
  <1>22. CASE Len(rows) > PageLimit
    <2>1. PICK last : last = rows[PageLimit]
      OBVIOUS
    <2>2. PICK next : next = CursorOf(last)
      OBVIOUS
    <2>3. NextCursor(rows) = {next} /\ n = PageLimit
      BY <1>6, <1>22, <2>1, <2>2 DEF NextCursor
    <2>4. c = [b EXCEPT !.at = "open", !.listed = new, !.cursor = {next}]
      BY <1>1, <1>6, <1>8, <1>19, <2>3 DEF ReadPage
    <2>5. c = [at |-> "open", user |-> b.user, held |-> b.held, listed |-> new, cursor |-> {next}]
      BY <2>4 DEF IsBrowsing
    <2>6. last \in S /\ last.at \in Nat /\ last.id \in Nat /\ new[Len(new)] = last
          /\ Len(new) % PageLimit = 0 /\ Len(new) \in 1..Len(new)
      <3>1. n \in 1..n /\ Len(new) = Len(old) + PageLimit /\ Len(new) \in 1..Len(new)
        BY <1>5, <1>10, <1>11, <2>3
      <3>2. page[n] = last /\ last \in S /\ new[Len(new)] = last
        BY <1>9, <1>11, <2>1, <2>3, <3>1
      <3>3. Len(new) % PageLimit = 0
        BY <1>5, <1>10, <3>1, Rounding
      <3> QED
        BY <1>2, <3>1, <3>2, <3>3 DEF MemosTyped
    <2>7. AsDate(last.at) \in Nat /\ AsDate(last.at) <= last.at
      BY <1>5, <2>6, Rounding DEF AsDate
    <2>8. Clear(new, {next})
      <3> SUFFICES ASSUME NEW t \in Nat, NEW i \in Nat, OlderThan(<<t, i>>, next), NEW k \in 1..Len(new)
                   PROVE  OlderThan(<<t, i>>, <<new[k].at, new[k].id>>)
        BY DEF Clear
      <3>1. OlderThan(<<t, i>>, <<last.at, last.id>>)
        BY <2>2, <2>6, <2>7 DEF CursorOf, OlderThan
      <3>2. k = Len(new) \/ NewestFirst(new[k], last)
        BY <1>14, <2>6 DEF Sorted
      <3>3. new[k].at \in Nat /\ new[k].id \in Nat
        BY <1>2, <1>11 DEF MemosTyped
      <3> QED
        BY <2>6, <3>1, <3>2, <3>3 DEF NewestFirst, OlderThan
    <2>9. \A m \in b.held : Shown(m, new) \/ After(m, {next})
      <3> SUFFICES ASSUME NEW m \in b.held, ~Shown(m, new) PROVE After(m, {next})
        OBVIOUS
      <3>1. PICK i \in 1..Len(rows) : i > n /\ rows[i] = m
        BY <1>17
      <3>2. NewestFirst(last, m) /\ m \in memos /\ m.at \in Nat /\ m.id \in Nat
        BY <1>2, <1>4, <1>5, <1>7, <1>22, <2>1, <2>3, <3>1 DEF MemosTyped
      <3>3. AsDate(last.at) # AsDate(m.at)
        BY <2>6 DEF Shown
      <3>4. m.at < AsDate(last.at)
        <4>1. m.at <= last.at
          BY <2>6, <3>2 DEF NewestFirst, OlderThan
        <4>2. PICK a, z, t : a = m.at /\ z = last.at /\ t = TicksPerMs
          OBVIOUS
        <4>3. a \in Nat /\ z \in Nat /\ t \in Nat \ {0} /\ a <= z /\ z - (z % t) # a - (a % t)
          BY <1>5, <2>6, <3>2, <3>3, <4>1, <4>2 DEF AsDate
        <4>4. ~(z - (z % t) <= a) /\ z - (z % t) \in Nat
          BY <4>3, Rounding
        <4>5. a < z - (z % t)
          BY <4>3, <4>4
        <4> QED
          BY <4>2, <4>5 DEF AsDate
      <3> QED
        BY <2>2, <3>4 DEF After, CursorOf, OlderThan
    <2>10. ListedUpTo(c, {next})
      BY <1>11, <1>14, <1>18, <2>5, <2>6, <2>8, <2>9 DEF ListedUpTo
    <2>11. Browses(c)
      BY <1>11, <1>14, <1>18, <2>5, <2>10 DEF Browses, IsBrowsing
    <2> QED
      BY <1>19, <1>20, <2>11 DEF Browses, ListedUpTo, MemosOf, Template
  <1> QED
    BY <1>5, <1>7, <1>21, <1>22

(* The rest of the module leaves the client alone, and its memos to it.    *)
LEMMA BrowsingKept ==
  ASSUME HistoryInv, UNCHANGED browsing, moment' \in Nat, MemosTyped(memos)', TemplateFields',
         memos \subseteq memos', \A u : MemosOf(u) \subseteq MemosOf(u)'
  PROVE  HistoryInv'
  <1>1. PICK b : b = browsing
    OBVIOUS
  <1>2. Browses(b) /\ browsing' = b
    BY <1>1 DEF HistoryInv
  <1>3. b.listed \in Seq(memos') /\ b.held \subseteq MemosOf(b.user)'
    BY <1>2 DEF Browses
  <1>4. Browses(browsing)'
    BY <1>2, <1>3 DEF Browses, ListedUpTo, IsBrowsing
  <1> QED
    BY <1>4 DEF HistoryInv, TemplateFields

LEMMA HistoryInit == AnalyzeInit => HistoryInv
  <1> SUFFICES ASSUME AnalyzeInit PROVE HistoryInv
    OBVIOUS
  <1>1. moment \in Nat /\ MemosTyped(memos) /\ TemplateFields
    <2>1. MaxMoment \in Nat \ {0} /\ moment = MaxMoment - 1
      BY MemoConstants DEF AnalyzeInit
    <2>2. MemosTyped(memos)
      BY MemoConstants DEF AnalyzeInit, MemosTyped
    <2>3. TemplateFields
      BY DEF AnalyzeInit, TemplateFields
    <2> QED
      BY <2>1, <2>2, <2>3
  <1>2. Browses(browsing)
    BY DEF AnalyzeInit, NotBrowsing, Browses, IsBrowsing, Sorted
  <1> QED
    BY <1>1, <1>2 DEF HistoryInv, TemplateFields

(* A template keeps its id and its user, and the last of a user with memos. *)
LEMMA TemplatesStay ==
  ASSUME HistoryInv, UNCHANGED <<memos, browsing, moment>>,
         \/ \E u : CreateTemplate(u) \/ EraseAuthor(u)
         \/ \E x \in templates : UpdateTemplate(x) \/ DeleteTemplate(x)
  PROVE  HistoryInv'
  <1>1. moment' \in Nat /\ MemosTyped(memos)' /\ TemplateFields /\ memos \subseteq memos'
    BY DEF HistoryInv, TemplateFields, MemosTyped
  <1>2. CASE \E u : CreateTemplate(u)
    <2>1. templates \subseteq templates' /\ TemplateFields'
      BY <1>1, <1>2 DEF CreateTemplate, TemplateFields
    <2>2. \A u : MemosOf(u) \subseteq MemosOf(u)'
      BY <2>1 DEF MemosOf, Template
    <2> QED
      BY <1>1, <2>1, <2>2, BrowsingKept
  <1>3. CASE \E u : EraseAuthor(u)
    <2>1. PICK w : EraseAuthor(w)
      BY <1>3
    <2>2. templates' = {x \in templates : x.user # w} /\ MemosOf(w) = {}
      BY <2>1 DEF EraseAuthor
    <2>3. \A u : MemosOf(u) \subseteq MemosOf(u)'
      BY <2>2 DEF MemosOf, Template
    <2> QED
      BY <1>1, <2>2, <2>3, BrowsingKept DEF TemplateFields
  <1>4. CASE \E x \in templates : UpdateTemplate(x) \/ DeleteTemplate(x)
    <2>1. PICK x \in templates : UpdateTemplate(x) \/ DeleteTemplate(x)
      BY <1>4
    <2>2. x = [id |-> x.id, user |-> x.user, version |-> x.version, deleted |-> x.deleted]
      BY <1>1 DEF TemplateFields
    <2>3. PICK y : /\ templates' = (templates \ {x}) \cup {y} /\ y.id = x.id /\ y.user = x.user
                   /\ y = [id |-> y.id, user |-> y.user, version |-> y.version, deleted |-> y.deleted]
      <3>1. CASE UpdateTemplate(x)
        <4>1. PICK y : y = [x EXCEPT !.version = @ + 1]
          OBVIOUS
        <4>2. y = [id |-> x.id, user |-> x.user, version |-> x.version + 1, deleted |-> x.deleted]
          BY <2>2, <4>1
        <4> QED
          BY <3>1, <4>1, <4>2 DEF UpdateTemplate
      <3>2. CASE DeleteTemplate(x)
        <4>1. PICK y : y = [x EXCEPT !.deleted = TRUE]
          OBVIOUS
        <4>2. y = [id |-> x.id, user |-> x.user, version |-> x.version, deleted |-> TRUE]
          BY <2>2, <4>1
        <4> QED
          BY <3>2, <4>1, <4>2 DEF DeleteTemplate
      <3> QED
        BY <2>1, <3>1, <3>2
    <2>4. TemplateFields'
      BY <1>1, <2>3 DEF TemplateFields
    <2>5. \A u : MemosOf(u) \subseteq MemosOf(u)'
      BY <2>3 DEF MemosOf, Template
    <2> QED
      BY <1>1, <2>4, <2>5, BrowsingKept
  <1> QED
    BY <1>2, <1>3, <1>4

(* A memo is added under an id of its own.                                 *)
LEMMA InsertKeeps ==
  ASSUME HistoryInv, NEW c \in MemoCalls, InsertMemo(c)
  PROVE  HistoryInv'
  <1>1. UNCHANGED <<templates, browsing, moment>>
    BY DEF InsertMemo
  <1>2. memos' = memos \/ \E m : /\ m.id \in MemoIds /\ Memo(m.id) = {} /\ m.at = moment
                                 /\ memos' = memos \cup {m}
    BY DEF InsertMemo
  <1>3. MemosTyped(memos)' /\ memos \subseteq memos'
    <2>1. CASE memos' = memos
      BY <2>1 DEF HistoryInv, MemosTyped
    <2>2. CASE memos' # memos
      <3>1. PICK m : /\ m.id \in MemoIds /\ Memo(m.id) = {} /\ m.at = moment
                     /\ memos' = memos \cup {m}
        BY <1>2, <2>2
      <3>2. m.id \in Nat /\ moment \in Nat /\ \A n \in memos : n.id # m.id
        BY <3>1, MemoConstants DEF Memo, HistoryInv
      <3>3. IsFiniteSet(memos')
        BY <3>1, FS_AddElement DEF HistoryInv, MemosTyped
      <3> QED
        BY <3>1, <3>2, <3>3 DEF HistoryInv, MemosTyped
    <2> QED
      BY <2>1, <2>2
  <1>4. TemplateFields' /\ moment' \in Nat /\ \A u : MemosOf(u) \subseteq MemosOf(u)'
    BY <1>1, <1>3 DEF HistoryInv, TemplateFields, MemosOf, Template
  <1> QED
    BY <1>1, <1>3, <1>4, BrowsingKept

LEMMA HistoryNext == HistoryInv /\ [AnalyzeNext]_memoVars => HistoryInv'
  <1> SUFFICES ASSUME HistoryInv, [AnalyzeNext]_memoVars PROVE HistoryInv'
    OBVIOUS
  <1>1. ASSUME UNCHANGED <<templates, memos, browsing>>, moment' \in Nat PROVE HistoryInv'
    <2>1. MemosTyped(memos)' /\ TemplateFields' /\ memos \subseteq memos'
          /\ \A u : MemosOf(u) \subseteq MemosOf(u)'
      BY <1>1 DEF HistoryInv, TemplateFields, MemosTyped, MemosOf, Template
    <2> QED
      BY <1>1, <2>1, BrowsingKept
  <1>2. ASSUME UNCHANGED <<templates, memos, browsing, moment>> PROVE HistoryInv'
    BY <1>1, <1>2 DEF HistoryInv
  <1>3. CASE UNCHANGED memoVars
    BY <1>2, <1>3 DEF memoVars, memoTables
  <1>4. ASSUME NEW u \in Authors, CreateTemplate(u) \/ EraseAuthor(u) PROVE HistoryInv'
    <2>1. UNCHANGED <<memos, browsing, moment>>
      BY <1>4 DEF CreateTemplate, EraseAuthor
    <2> QED
      BY <1>4, <2>1, TemplatesStay
  <1>5. ASSUME NEW x \in templates, UpdateTemplate(x) \/ DeleteTemplate(x) PROVE HistoryInv'
    <2>1. UNCHANGED <<memos, browsing, moment>>
      BY <1>5 DEF UpdateTemplate, DeleteTemplate
    <2> QED
      BY <1>5, <2>1, TemplatesStay
  <1>6. ASSUME NEW u \in Authors, OpenHistory(u) PROVE HistoryInv'
    <2>1. PICK b : b = [NotBrowsing EXCEPT !.user = u, !.held = MemosOf(u)]
      OBVIOUS
    <2>2. b = [at |-> "idle", user |-> u, held |-> MemosOf(u), listed |-> <<>>, cursor |-> {}]
      BY <2>1 DEF NotBrowsing
    <2>3. ReadPage(b, {}) /\ IsBrowsing(b)
      BY <1>6, <2>1, <2>2 DEF OpenHistory, IsBrowsing
    <2>4. ListedUpTo(b, {})
      <3>1. PageLimit \in Nat \ {0} /\ 0 % PageLimit = 0
        BY MemoConstants
      <3> QED
        BY <2>2, <3>1 DEF ListedUpTo, Sorted, Clear, After
    <2>5. Browses(browsing)'
      BY <2>3, <2>4, PageKeeps
    <2> QED
      BY <2>3, <2>5 DEF HistoryInv, TemplateFields, ReadPage, memoTables, MemosTyped
  <1>7. CASE MoreHistory
    <2>1. PICK b : b = browsing
      OBVIOUS
    <2>2. ReadPage(b, b.cursor) /\ IsBrowsing(b) /\ ListedUpTo(b, b.cursor)
      BY <1>7, <2>1 DEF MoreHistory, HistoryInv, Browses
    <2>3. Browses(browsing)'
      BY <2>2, PageKeeps
    <2> QED
      BY <2>2, <2>3 DEF HistoryInv, TemplateFields, ReadPage, memoTables, MemosTyped
  <1>8. ASSUME NEW c \in MemoCalls, NEW u \in Authors, AskMemo(c, u) \/ AskRerun(c, u) \/ AskShare(c, u)
        PROVE  HistoryInv'
    BY <1>2, <1>8 DEF AskMemo, AskRerun, AskShare, memoTables
  <1>9. ASSUME NEW c \in MemoCalls, RenderMemo(c) \/ SealMemo(c) \/ PostShare(c) PROVE HistoryInv'
    BY <1>2, <1>9 DEF RenderMemo, SealMemo, PostShare, memoTables
  <1>10. ASSUME NEW c \in MemoCalls, InsertMemo(c) PROVE HistoryInv'
    BY <1>10, InsertKeeps
  <1>11. CASE MemoTime
    BY <1>1, <1>11 DEF MemoTime, HistoryInv
  <1> QED
    BY <1>3, <1>4, <1>5, <1>6, <1>7, <1>8, <1>9, <1>10, <1>11 DEF AnalyzeNext

(* A client that follows the cursors to the end has been shown its memos   *)
(* newest first, none twice, and each it had when it began, except those   *)
(* of the millisecond of a page's last row: whatever is run, deleted or    *)
(* erased between the pages (listAnalyzeTemplateRunsByUser).               *)
THEOREM HistoryIsComplete == AnalyzeSpec => []HistoryComplete
  <1>1. HistoryInv => HistoryComplete
    <2> SUFFICES ASSUME HistoryInv PROVE HistoryComplete
      OBVIOUS
    <2>1. PICK b : b = browsing
      OBVIOUS
    <2>2. /\ b.listed \in Seq(memos) /\ Sorted(b.listed)
          /\ b.at = "done" => \A m \in b.held : Shown(m, b.listed)
      BY <2>1 DEF HistoryInv, Browses
    <2> QED
      BY <2>1, <2>2 DEF HistoryComplete, Sorted, Shown, ToSet
  <1> QED
    BY HistoryInit, HistoryNext, <1>1, PTL DEF AnalyzeSpec

-------------------------------------------------------------------------------
(* Claims in clusters (ClaimClusters): a row tells of all members, those     *)
(* that went with their claim among them; and the row a transaction would    *)
(* restore tells of them without what it has added itself.                   *)
MemberType == {MemberOf(c) : c \in DOMAIN EvidenceClaims}
RowType == [exists : BOOLEAN, support : Nat, contradict : Nat, sum : Nat, first : Nat, last : Nat]
TransactionType ==
  [at : {"idle", "upsert", "look", "add", "commit"}, left : Seq(DOMAIN EvidenceClaims),
   seenAt : Nat, held : SUBSET Signatures, saved : SUBSET (Signatures \X RowType),
   looked : SUBSET MemberType, was : SUBSET MemberType, mine : SUBSET MemberType]

GoodRow(row) ==
  /\ row.first <= row.last
  /\ ~row.exists => row.support = 0 /\ row.contradict = 0 /\ row.sum = 0

\* What a transaction restores: each row it holds, as it is without its own members.
Restorable(w, members) ==
  /\ \A k \in w.held : \E s \in w.saved : s[1] = k
  /\ \A s \in w.saved : s[1] \in w.held /\ GoodRow(s[2]) /\ RowTells(s[2], members \ (w.mine \ w.was), s[1])
  /\ \A s, t \in w.saved : s[1] = t[1] => s = t

\* It holds what it writes to.
HoldsItsOwn(w, rows, cs) ==
  /\ w.was \subseteq w.mine /\ w.mine \subseteq rows
  /\ \A m \in w.mine : m.cluster \in w.held
  /\ \A k \in w.held : cs[k].exists
  /\ w.at \in {"upsert", "look", "add"} => w.left # <<>>
  /\ w.at \in {"look", "add"} => EvidenceClaims[Head(w.left)].signature \in w.held

\* Where a claim is a member, as far as it goes.
Present(rows, c) == {m \in rows : m.cluster = EvidenceClaims[c].signature /\ m.claim = c}

\* What it has looked at is still so, unless the claim is gone.
LookedWell(w, rows, gone) ==
  w.at = "add" /\ Head(w.left) \notin gone => w.looked = Present(rows, Head(w.left))

RunOk(w, rows, gone, members, cs) ==
  Restorable(w, members) /\ HoldsItsOwn(w, rows, cs) /\ LookedWell(w, rows, gone)

Apart(ws) == \A r, q \in ClusterRuns : r # q => ws[r].held \cap ws[q].held = {}

\* Members and counts.
Counted(cs, members) ==
  /\ IsFiniteSet(members) /\ IsFiniteSet(Units(members))
  /\ \A k \in Signatures : GoodRow(cs[k]) /\ RowTells(cs[k], members, k)

ClusterTyped ==
  /\ clusterRows \in [Signatures -> RowType]
  /\ memberRows \in SUBSET MemberType /\ cascaded \in SUBSET MemberType
  /\ removed \in SUBSET DOMAIN EvidenceClaims
  /\ writing \in [ClusterRuns -> TransactionType]
  /\ \A m \in memberRows : m.claim \notin removed
  /\ \A m \in cascaded : m.claim \in removed

ClusterInv ==
  /\ ClusterTyped
  /\ Counted(clusterRows, memberRows \cup cascaded)
  /\ \A r \in ClusterRuns : RunOk(writing[r], memberRows, removed, memberRows \cup cascaded, clusterRows)
  /\ Apart(writing)

LEMMA MemberIs ==
  ASSUME NEW m \in MemberType
  PROVE  m.claim \in DOMAIN EvidenceClaims /\ m = MemberOf(m.claim) /\ m.cluster = EvidenceClaims[m.claim].signature
BY DEF MemberType, MemberOf

\* A member more, and the units of its confidence.
LEMMA OneMore ==
  ASSUME NEW A, IsFiniteSet(A), IsFiniteSet(Units(A)), NEW c \in DOMAIN EvidenceClaims,
         MemberOf(c) \notin A
  PROVE  /\ IsFiniteSet(A \cup {MemberOf(c)}) /\ IsFiniteSet(Units(A \cup {MemberOf(c)}))
         /\ Cardinality(A \cup {MemberOf(c)}) = Cardinality(A) + 1
         /\ Confidence(A \cup {MemberOf(c)}) = Confidence(A) + EvidenceClaims[c].confidence
  <1>1. PICK n, new : n = EvidenceClaims[c].confidence /\ new = MemberOf(c)
    OBVIOUS
  <1>2. n \in Nat /\ EvidenceClaims[new.claim].confidence = n /\ new \notin A
    BY <1>1, ClusterConstants DEF MemberOf
  <1>3. PICK U, V : U = Units(A) /\ V = {new} \X (1..n)
    OBVIOUS
  <1>4. Units(A \cup {new}) = U \cup V /\ U \cap V = {}
    BY <1>2, <1>3 DEF Units
  <1>5. IsFiniteSet(V) /\ Cardinality(V) = n
    <2>1. IsFiniteSet({new}) /\ Cardinality({new}) = 1
      BY FS_Singleton
    <2>2. IsFiniteSet(1..n) /\ Cardinality(1..n) = n
      BY <1>2, FS_Interval
    <2>3. IsFiniteSet({new} \X (1..n)) /\ Cardinality({new} \X (1..n)) = 1 * n
      BY <2>1, <2>2, FS_Product
    <2> QED
      BY <1>2, <1>3, <2>3
  <1>6. IsFiniteSet(U) /\ Cardinality(U) \in Nat
    BY <1>3, FS_CardinalityType
  <1>7. IsFiniteSet(U \cup V) /\ Cardinality(U \cup V) = Cardinality(U) + Cardinality(V) - Cardinality(U \cap V)
    BY <1>5, <1>6, FS_Union
  <1>8. Cardinality(U \cap V) = 0
    BY <1>4, FS_EmptySet
  <1>9. Cardinality(U \cup V) = Cardinality(U) + n
    BY <1>2, <1>5, <1>6, <1>7, <1>8
  <1>10. IsFiniteSet(A \cup {new}) /\ Cardinality(A \cup {new}) = Cardinality(A) + 1
    BY <1>2, FS_AddElement
  <1> QED
    BY <1>1, <1>3, <1>4, <1>7, <1>9, <1>10 DEF Confidence

\* A row tells of the members of its cluster alone.
LEMMA TellsOfItsOwn ==
  ASSUME NEW row, NEW A, NEW B, NEW k, Gathered(A, k) = Gathered(B, k), RowTells(row, A, k)
  PROVE  RowTells(row, B, k)
  <1>1. \A m : m \in A /\ m.cluster = k <=> m \in B /\ m.cluster = k
    BY DEF Gathered
  <1>2. \A relation : Related(A, k, relation) = Related(B, k, relation)
    BY <1>1 DEF Related
  <1> QED
    BY <1>2 DEF RowTells

LEMMA PartsFinite ==
  ASSUME NEW A, IsFiniteSet(A), IsFiniteSet(Units(A)), NEW B \in SUBSET A
  PROVE  IsFiniteSet(B) /\ IsFiniteSet(Units(B))
  <1>1. Units(B) \in SUBSET Units(A)
    BY DEF Units
  <1> QED
    BY <1>1, FS_Subset

\* The row of a cluster with a member more.
Grown(row, c) ==
  [row EXCEPT !.support = @ + (IF EvidenceClaims[c].relation = "support" THEN 1 ELSE 0),
              !.contradict = @ + (IF EvidenceClaims[c].relation = "contradict" THEN 1 ELSE 0),
              !.sum = @ + EvidenceClaims[c].confidence]

LEMMA GrownTells ==
  ASSUME NEW A, IsFiniteSet(A), IsFiniteSet(Units(A)), NEW c \in DOMAIN EvidenceClaims,
         MemberOf(c) \notin A, NEW row \in RowType, NEW k, k = EvidenceClaims[c].signature,
         RowTells(row, A, k)
  PROVE  RowTells(Grown(row, c), A \cup {MemberOf(c)}, k)
  <1>1. PICK new : new = MemberOf(c)
    OBVIOUS
  <1>2. new.cluster = k /\ new.claim = c /\ new.relation = EvidenceClaims[c].relation /\ new \notin A
    BY <1>1 DEF MemberOf
  <1>3. ASSUME NEW relation
        PROVE  Cardinality(Related(A \cup {new}, k, relation))
               = Cardinality(Related(A, k, relation)) + (IF EvidenceClaims[c].relation = relation THEN 1 ELSE 0)
    <2>1. PICK B, D : B = Related(A, k, relation) /\ D = Related(A \cup {new}, k, relation)
      OBVIOUS
    <2>2. IsFiniteSet(B) /\ new \notin B
      BY <1>2, <2>1, PartsFinite DEF Related
    <2>3. Cardinality(B) \in Nat /\ Cardinality(B \cup {new}) = Cardinality(B) + 1
      BY <2>2, FS_CardinalityType, FS_AddElement
    <2>4. CASE EvidenceClaims[c].relation = relation
      <3>1. D = B \cup {new}
        BY <1>2, <2>1, <2>4 DEF Related
      <3> QED
        BY <2>1, <2>3, <2>4, <3>1
    <2>5. CASE EvidenceClaims[c].relation # relation
      <3>1. D = B
        BY <1>2, <2>1, <2>5 DEF Related
      <3> QED
        BY <2>1, <2>3, <2>5, <3>1
    <2> QED
      BY <2>4, <2>5
  <1>4. PICK B : B = Gathered(A, k)
    OBVIOUS
  <1>5. Gathered(A \cup {new}, k) = B \cup {new} /\ new \notin B
    BY <1>2, <1>4 DEF Gathered
  <1>6. IsFiniteSet(B) /\ IsFiniteSet(Units(B))
    BY <1>4, PartsFinite DEF Gathered
  <1>7. Confidence(B \cup {new}) = Confidence(B) + EvidenceClaims[c].confidence
    BY <1>1, <1>5, <1>6, OneMore
  <1>8. PICK g : g = Grown(row, c)
    OBVIOUS
  <1>9. /\ g.support = row.support + (IF EvidenceClaims[c].relation = "support" THEN 1 ELSE 0)
        /\ g.contradict = row.contradict + (IF EvidenceClaims[c].relation = "contradict" THEN 1 ELSE 0)
        /\ g.sum = row.sum + EvidenceClaims[c].confidence
    BY <1>8 DEF Grown, RowType
  <1>10. g.support = Cardinality(Related(A \cup {new}, k, "support"))
    BY <1>3, <1>9 DEF RowTells
  <1>11. g.contradict = Cardinality(Related(A \cup {new}, k, "contradict"))
    BY <1>3, <1>9 DEF RowTells
  <1>12. g.sum = Confidence(Gathered(A \cup {new}, k))
    BY <1>4, <1>5, <1>7, <1>9 DEF RowTells
  <1> QED
    BY <1>1, <1>8, <1>10, <1>11, <1>12 DEF RowTells

\* What a step leaves alone for a run.
LEMMA RunKeeps ==
  ASSUME NEW w \in TransactionType, NEW M, NEW M2, NEW D, NEW D2, NEW A, NEW A2, NEW cs, NEW cs2,
         RunOk(w, M, D, A, cs), D \subseteq D2, w.mine \subseteq M2,
         \A k \in w.held : Gathered(A, k) = Gathered(A2, k) /\ cs2[k].exists,
         \A c \in DOMAIN EvidenceClaims : c \notin D2 /\ EvidenceClaims[c].signature \in w.held
                                          => Present(M2, c) = Present(M, c)
  PROVE  RunOk(w, M2, D2, A2, cs2)
  <1>1. Restorable(w, A2)
    <2>1. ASSUME NEW s \in w.saved PROVE RowTells(s[2], A2 \ (w.mine \ w.was), s[1])
      <3>1. PICK X, Y : X = A \ (w.mine \ w.was) /\ Y = A2 \ (w.mine \ w.was)
        OBVIOUS
      <3>2. s[1] \in w.held /\ RowTells(s[2], X, s[1])
        BY <3>1 DEF RunOk, Restorable
      <3>3. Gathered(A, s[1]) = Gathered(A2, s[1])
        BY <3>2
      <3>4. Gathered(X, s[1]) = Gathered(Y, s[1])
        BY <3>1, <3>3 DEF Gathered
      <3>5. RowTells(s[2], Y, s[1])
        BY <3>2, <3>4, TellsOfItsOwn
      <3> QED
        BY <3>1, <3>5
    <2> QED
      BY <2>1 DEF RunOk, Restorable
  <1>2. HoldsItsOwn(w, M2, cs2)
    BY DEF RunOk, HoldsItsOwn
  <1>3. LookedWell(w, M2, D2)
    <2> SUFFICES ASSUME w.at = "add", Head(w.left) \notin D2 PROVE w.looked = Present(M2, Head(w.left))
      BY DEF LookedWell
    <2>1. PICK c : c = Head(w.left)
      OBVIOUS
    <2>2. w.left \in Seq(DOMAIN EvidenceClaims) /\ w.left # <<>> /\ EvidenceClaims[c].signature \in w.held
      BY <2>1 DEF RunOk, HoldsItsOwn, TransactionType
    <2>3. c \in DOMAIN EvidenceClaims
      BY <2>1, <2>2
    <2>4. w.looked = Present(M, c)
      BY <2>1 DEF RunOk, LookedWell
    <2> QED
      BY <2>1, <2>2, <2>3, <2>4
  <1> QED
    BY <1>1, <1>2, <1>3 DEF RunOk

\* The groups of a batch have its claims.
SmallerThan(S) == {p \in S \X S : p[1] < p[2]}

LEMMA HasLeast ==
  ASSUME NEW S \in SUBSET Nat, IsFiniteSet(S), S # {}
  PROVE  Min(S) \in S /\ \A j \in S : Min(S) <= j
  <1>1. PICK R : R = SmallerThan(S)
    OBVIOUS
  <1>2. \A m, n \in S : <<m, n>> \in R <=> m < n
    BY <1>1 DEF SmallerThan
  <1>3. IsOrder(S, R)
    BY <1>2 DEF IsOrder
  <1>4. Cardinality(S) \in Nat /\ Cardinality(S) # 0
    BY FS_CardinalityType, FS_EmptySet
  <1>5. 1 \in 1..Cardinality(S)
    BY <1>4
  <1>6. PICK m \in S : Rank(S, R, m) = 1 - 1
    BY <1>3, <1>5, RanksAreTaken
  <1>7. PICK B : B = Before(S, R, m)
    OBVIOUS
  <1>8. B \in SUBSET S /\ Cardinality(B) = 0
    BY <1>6, <1>7 DEF Before, Rank
  <1>9. B = {}
    BY <1>8, FS_Subset, FS_EmptySet
  <1>10. ASSUME NEW j \in S PROVE m <= j
    <2>1. ~(j < m)
      BY <1>2, <1>7, <1>9 DEF Before
    <2> QED
      BY <2>1
  <1> QED
    BY <1>10 DEF Min

LEMMA GroupedClaims ==
  ASSUME NEW batch \in Batches
  PROVE  Grouped(batch) \in Seq(DOMAIN EvidenceClaims) /\ Grouped(batch) # <<>>
  <1>1. batch \in Seq(DOMAIN EvidenceClaims) /\ batch # <<>>
    BY ClusterConstants
  <1>2. PICK S, n : S = DOMAIN batch /\ n = Len(batch)
    OBVIOUS
  <1>3. n \in Nat /\ n # 0 /\ S = 1..n /\ \A i \in S : batch[i] \in DOMAIN EvidenceClaims
    BY <1>1, <1>2
  <1>4. IsFiniteSet(S) /\ Cardinality(S) = n
    BY <1>3, FS_Interval
  <1>5. ASSUME NEW i \in S PROVE FirstLike(batch, i) \in Nat
    <2>1. PICK G : G = {j \in S : EvidenceClaims[batch[i]].signature = EvidenceClaims[batch[j]].signature}
      OBVIOUS
    <2>2. G \in SUBSET S /\ i \in G
      BY <2>1
    <2>3. IsFiniteSet(G)
      BY <1>4, <2>2, FS_Subset
    <2>4. G \in SUBSET Nat
      BY <1>3, <2>2
    <2>5. Min(G) \in G
      BY <2>2, <2>3, <2>4, HasLeast
    <2>6. FirstLike(batch, i) = Min(G)
      BY <1>2, <2>1 DEF FirstLike
    <2> QED
      BY <2>4, <2>5, <2>6
  <1>6. PICK first : first = [i \in S |-> FirstLike(batch, i)]
    OBVIOUS
  <1>7. PICK R : R = {p \in S \X S : first[p[1]] < first[p[2]] \/ (first[p[1]] = first[p[2]] /\ p[1] < p[2])}
    OBVIOUS
  <1>8. \A i, j \in S : <<i, j>> \in R <=> first[i] < first[j] \/ (first[i] = first[j] /\ i < j)
    BY <1>7
  <1>9. IsOrder(S, R)
    <2>1. \A i \in S : i \in Nat /\ first[i] \in Nat
      BY <1>3, <1>5, <1>6
    <2> QED
      BY <1>4, <1>8, <2>1 DEF IsOrder
  <1>10. \A k \in 1..n : \E i \in S : Rank(S, R, i) = k - 1
    BY <1>4, <1>9, RanksAreTaken
  <1>11. ASSUME NEW i \in S PROVE Rank(S, R, i) = Cardinality(PlacedBefore(batch, i))
    <2>1. ASSUME NEW j \in S PROVE <<j, i>> \in R <=> j \in PlacedBefore(batch, i)
      <3>1. first[j] = FirstLike(batch, j) /\ first[i] = FirstLike(batch, i)
        BY <1>6
      <3>2. j \in PlacedBefore(batch, i)
            <=> \/ FirstLike(batch, j) < FirstLike(batch, i)
                \/ FirstLike(batch, j) = FirstLike(batch, i) /\ j < i
        BY <1>2 DEF PlacedBefore
      <3>3. <<j, i>> \in R <=> first[j] < first[i] \/ (first[j] = first[i] /\ j < i)
        BY <1>8
      <3> QED
        BY <3>1, <3>2, <3>3
    <2>2. PlacedBefore(batch, i) \in SUBSET S
      BY <1>2 DEF PlacedBefore
    <2>3. Before(S, R, i) = PlacedBefore(batch, i)
      BY <2>1, <2>2 DEF Before
    <2> QED
      BY <2>3 DEF Rank
  <1>12. Grouped(batch) = [k \in S |-> batch[CHOOSE i \in S : Cardinality(PlacedBefore(batch, i)) = k - 1]]
    BY <1>2 DEF Grouped
  <1>13. ASSUME NEW k \in S PROVE Grouped(batch)[k] \in DOMAIN EvidenceClaims
    <2>1. PICK i \in S : Cardinality(PlacedBefore(batch, i)) = k - 1
      BY <1>3, <1>10, <1>11
    <2>2. (CHOOSE j \in S : Cardinality(PlacedBefore(batch, j)) = k - 1) \in S
      BY <2>1
    <2> QED
      BY <1>3, <1>12, <2>2
  <1>14. Grouped(batch) \in [1..n -> DOMAIN EvidenceClaims]
    BY <1>3, <1>12, <1>13
  <1>15. Len(Grouped(batch)) = n
    BY <1>3, <1>14
  <1> QED
    BY <1>3, <1>14, <1>15

LEMMA RunMoves ==
  ASSUME ClusterInv, NEW r \in ClusterRuns, NEW w2 \in TransactionType, NEW K,
         writing' = [writing EXCEPT ![r] = w2], removed' = removed, cascaded' = cascaded,
         w2.held \subseteq writing[r].held \cup K,
         \A q \in ClusterRuns : q # r => K \cap writing[q].held = {},
         clusterRows' \in [Signatures -> RowType], memberRows' \in SUBSET MemberType,
         \A m \in memberRows' : m.claim \notin removed,
         Counted(clusterRows', memberRows' \cup cascaded),
         RunOk(w2, memberRows', removed, memberRows' \cup cascaded, clusterRows'),
         \A k \in Signatures : k \notin K => /\ clusterRows'[k].exists = clusterRows[k].exists
                                             /\ Gathered(memberRows', k) = Gathered(memberRows, k)
  PROVE  ClusterInv'
  <1>1. ClusterTyped /\ writing \in [ClusterRuns -> TransactionType] /\ Apart(writing)
    BY DEF ClusterInv, ClusterTyped
  <1>2. writing' \in [ClusterRuns -> TransactionType] /\ writing'[r] = w2
        /\ \A q \in ClusterRuns : q # r => writing'[q] = writing[q]
    BY <1>1
  <1>3. ClusterTyped'
    BY <1>1, <1>2 DEF ClusterTyped
  <1>4. ASSUME NEW q \in ClusterRuns, q # r
        PROVE  RunOk(writing[q], memberRows', removed, memberRows' \cup cascaded, clusterRows')
    <2>1. PICK w : w = writing[q]
      OBVIOUS
    <2>2. w \in TransactionType /\ RunOk(w, memberRows, removed, memberRows \cup cascaded, clusterRows)
      BY <1>1, <2>1 DEF ClusterInv
    <2>3. \A k \in w.held : k \in Signatures /\ k \notin K
      BY <1>4, <2>1, <2>2 DEF TransactionType
    <2>4. \A k \in w.held : clusterRows'[k].exists /\ Gathered(memberRows', k) = Gathered(memberRows, k)
      BY <2>2, <2>3 DEF RunOk, HoldsItsOwn
    <2>5. \A k \in w.held : \A m : m \in memberRows' /\ m.cluster = k <=> m \in memberRows /\ m.cluster = k
      BY <2>4 DEF Gathered
    <2>6. \A k \in w.held : Gathered(memberRows \cup cascaded, k) = Gathered(memberRows' \cup cascaded, k)
      BY <2>5 DEF Gathered
    <2>7. w.mine \subseteq memberRows'
      BY <2>2, <2>5 DEF RunOk, HoldsItsOwn
    <2>8. \A c \in DOMAIN EvidenceClaims : EvidenceClaims[c].signature \in w.held
                                           => Present(memberRows', c) = Present(memberRows, c)
      BY <2>5 DEF Present
    <2>9. PICK M, M2, A, A2, cs2 : /\ M = memberRows /\ M2 = memberRows' /\ A = memberRows \cup cascaded
                                   /\ A2 = memberRows' \cup cascaded /\ cs2 = clusterRows'
      OBVIOUS
    <2>10. RunOk(w, M, removed, A, clusterRows) /\ removed \subseteq removed /\ w.mine \subseteq M2
           /\ \A k \in w.held : Gathered(A, k) = Gathered(A2, k) /\ cs2[k].exists
      BY <2>2, <2>4, <2>6, <2>7, <2>9
    <2>11. \A c \in DOMAIN EvidenceClaims : c \notin removed /\ EvidenceClaims[c].signature \in w.held
                                            => Present(M2, c) = Present(M, c)
      BY <2>8, <2>9
    <2>12. RunOk(w, M2, removed, A2, cs2)
      BY <2>2, <2>10, <2>11, RunKeeps
    <2> QED
      BY <2>1, <2>9, <2>12
  <1>5. Apart(writing')
    <2> SUFFICES ASSUME NEW p \in ClusterRuns, NEW q \in ClusterRuns, p # q
                 PROVE  writing'[p].held \cap writing'[q].held = {}
      BY DEF Apart
    <2>1. writing[p].held \cap writing[q].held = {}
      BY <1>1 DEF Apart
    <2> QED
      BY <1>2, <2>1
  <1>6. \A q \in ClusterRuns : RunOk(writing'[q], memberRows', removed, memberRows' \cup cascaded, clusterRows')
    BY <1>2, <1>4
  <1> QED
    BY <1>3, <1>5, <1>6 DEF ClusterInv

LEMMA QuietMove ==
  ASSUME ClusterInv, NEW r \in ClusterRuns, NEW w2 \in TransactionType,
         writing' = [writing EXCEPT ![r] = w2], UNCHANGED <<clusterRows, memberRows, removed, cascaded>>,
         w2.held \subseteq writing[r].held,
         RunOk(w2, memberRows, removed, memberRows \cup cascaded, clusterRows)
  PROVE  ClusterInv'
  <1>1. /\ clusterRows' \in [Signatures -> RowType] /\ memberRows' \in SUBSET MemberType
        /\ \A m \in memberRows' : m.claim \notin removed
        /\ Counted(clusterRows', memberRows' \cup cascaded)
        /\ RunOk(w2, memberRows', removed, memberRows' \cup cascaded, clusterRows')
    BY DEF ClusterInv, ClusterTyped
  <1>2. \A q \in ClusterRuns : q # r => {} \cap writing[q].held = {}
    OBVIOUS
  <1>3. \A k \in Signatures : k \notin {} => /\ clusterRows'[k].exists = clusterRows[k].exists
                                             /\ Gathered(memberRows', k) = Gathered(memberRows, k)
    OBVIOUS
  <1>4. PICK K : K = {}
    OBVIOUS
  <1>5. w2.held \subseteq writing[r].held \cup K
    BY <1>4
  <1> QED
    BY <1>1, <1>2, <1>3, <1>4, <1>5, RunMoves

LEMMA Resting ==
  ASSUME NEW M, NEW D, NEW A, NEW cs
  PROVE  NoTransaction \in TransactionType /\ RunOk(NoTransaction, M, D, A, cs)
  <1>1. PICK w : w = NoTransaction
    OBVIOUS
  <1>2. w.at = "idle" /\ w.left = <<>> /\ w.seenAt = 0 /\ w.held = {} /\ w.saved = {}
        /\ w.looked = {} /\ w.was = {} /\ w.mine = {}
    BY <1>1 DEF NoTransaction
  <1>3. RunOk(w, M, D, A, cs)
    BY <1>2 DEF RunOk, Restorable, HoldsItsOwn, LookedWell
  <1>4. NoTransaction \in TransactionType
    BY DEF NoTransaction, TransactionType
  <1> QED
    BY <1>1, <1>3, <1>4

LEMMA BeginClustersKeeps ==
  ASSUME ClusterInv, NEW r \in ClusterRuns, BeginClusters(r)
  PROVE  ClusterInv'
  <1>1. PICK batch \in Batches, t \in 1..2 :
          writing' = [writing EXCEPT ![r] = [NoTransaction EXCEPT
                        !.at = "upsert", !.seenAt = t, !.left = Grouped(batch)]]
    BY DEF BeginClusters
  <1>2. PICK left : left = Grouped(batch)
    OBVIOUS
  <1>3. left \in Seq(DOMAIN EvidenceClaims) /\ left # <<>>
    BY <1>2, GroupedClaims
  <1>4. PICK n : n = NoTransaction
    OBVIOUS
  <1>5. n \in TransactionType /\ n.held = {} /\ n.saved = {} /\ n.was = {} /\ n.mine = {}
    BY <1>4, Resting DEF NoTransaction
  <1>6. PICK w : w = [n EXCEPT !.at = "upsert", !.seenAt = t, !.left = left]
    OBVIOUS
  <1>7. /\ w \in TransactionType /\ w.at = "upsert" /\ w.left = left
        /\ w.held = {} /\ w.saved = {} /\ w.was = {} /\ w.mine = {}
    <2>1. w.at = "upsert" /\ w.left = left
      BY <1>5, <1>6 DEF TransactionType
    <2>2. w.held = {} /\ w.saved = {} /\ w.was = {} /\ w.mine = {}
      BY <1>5, <1>6 DEF TransactionType
    <2>3. t \in Nat
      OBVIOUS
    <2>4. w \in TransactionType
      BY <1>3, <1>5, <1>6, <2>3 DEF TransactionType
    <2> QED
      BY <2>1, <2>2, <2>4
  <1>8. writing' = [writing EXCEPT ![r] = w]
    BY <1>1, <1>2, <1>4, <1>6
  <1>9. RunOk(w, memberRows, removed, memberRows \cup cascaded, clusterRows)
    BY <1>3, <1>7 DEF RunOk, Restorable, HoldsItsOwn, LookedWell
  <1>10. w.held \subseteq writing[r].held
    BY <1>7
  <1> QED
    BY <1>7, <1>8, <1>9, <1>10, QuietMove DEF BeginClusters

LEMMA CommitClustersKeeps ==
  ASSUME ClusterInv, NEW r \in ClusterRuns, CommitClusters(r)
  PROVE  ClusterInv'
  <1>1. NoTransaction \in TransactionType
        /\ RunOk(NoTransaction, memberRows, removed, memberRows \cup cascaded, clusterRows)
    BY Resting
  <1>2. NoTransaction.held \subseteq writing[r].held
    BY DEF NoTransaction
  <1> QED
    BY <1>1, <1>2, QuietMove DEF CommitClusters

LEMMA LookForMemberKeeps ==
  ASSUME ClusterInv, NEW r \in ClusterRuns, LookForMember(r)
  PROVE  ClusterInv'
  <1>1. PICK w : w = writing[r]
    OBVIOUS
  <1>2. w \in TransactionType /\ RunOk(w, memberRows, removed, memberRows \cup cascaded, clusterRows)
        /\ memberRows \in SUBSET MemberType
    BY <1>1 DEF ClusterInv, ClusterTyped
  <1>3. PICK looked : looked = Present(memberRows, Head(w.left))
    OBVIOUS
  <1>4. PICK w2 : w2 = [w EXCEPT !.at = "add", !.looked = looked]
    OBVIOUS
  <1>5. w.at = "look" /\ writing' = [writing EXCEPT ![r] = w2]
    <2>1. looked = {m \in memberRows : m.cluster = Cluster1(r) /\ m.claim = Claim1(r)}
      BY <1>1, <1>3 DEF Present, Cluster1, Claim1
    <2> QED
      BY <1>1, <1>2, <1>4, <2>1 DEF LookForMember, ClusterInv, ClusterTyped
  <1>6. looked \in SUBSET MemberType
    BY <1>2, <1>3 DEF Present
  <1>7. w2 \in TransactionType
    BY <1>2, <1>4, <1>6 DEF TransactionType
  <1>8. /\ w2.at = "add" /\ w2.looked = looked /\ w2.left = w.left /\ w2.held = w.held /\ w2.saved = w.saved
        /\ w2.was = w.was /\ w2.mine = w.mine
    BY <1>2, <1>4 DEF TransactionType
  <1>9. RunOk(w2, memberRows, removed, memberRows \cup cascaded, clusterRows)
    BY <1>2, <1>3, <1>5, <1>8 DEF RunOk, Restorable, HoldsItsOwn, LookedWell
  <1> QED
    BY <1>1, <1>5, <1>7, <1>8, <1>9, QuietMove DEF LookForMember

LEMMA FirstClaim ==
  ASSUME NEW w \in TransactionType, w.left # <<>>
  PROVE  /\ Head(w.left) \in DOMAIN EvidenceClaims /\ Tail(w.left) \in Seq(DOMAIN EvidenceClaims)
         /\ EvidenceClaims[Head(w.left)].signature \in Signatures
  <1>1. PICK s : s = w.left
    OBVIOUS
  <1>2. s \in Seq(DOMAIN EvidenceClaims) /\ s # <<>>
    BY <1>1 DEF TransactionType
  <1>3. Head(s) \in DOMAIN EvidenceClaims /\ Tail(s) \in Seq(DOMAIN EvidenceClaims)
    BY <1>2
  <1> QED
    BY <1>1, <1>3 DEF Signatures

\* The row an upsert writes counts what the row before it did.
LEMMA SeenAgain ==
  ASSUME NEW row \in RowType, GoodRow(row), NEW t \in Nat, NEW row2, row2 = SeenAt(row, t)
  PROVE  /\ row2 \in RowType /\ GoodRow(row2) /\ row2.exists
         /\ row2.support = row.support /\ row2.contradict = row.contradict /\ row2.sum = row.sum
  <1>1. CASE row.exists
    <2>1. PICK a, b : a = Min({row.first, t}) /\ b = Max({row.last, t})
      OBVIOUS
    <2>2. row.first \in Nat /\ row.last \in Nat /\ row.first <= row.last
      BY DEF RowType, GoodRow
    <2>3. a \in {row.first, t} /\ a <= t
      BY <2>1, <2>2 DEF Min
    <2>4. b \in {row.last, t} /\ b >= t
      BY <2>1, <2>2 DEF Max
    <2>5. a \in Nat /\ b \in Nat /\ a <= b
      BY <2>2, <2>3, <2>4
    <2>6. row2 = [row EXCEPT !.first = a, !.last = b]
      BY <1>1, <2>1 DEF SeenAt
    <2>7. row2 \in RowType
      BY <2>5, <2>6 DEF RowType
    <2>8. /\ row2.exists = row.exists /\ row2.support = row.support /\ row2.contradict = row.contradict
          /\ row2.sum = row.sum /\ row2.first = a /\ row2.last = b
      BY <2>6 DEF RowType
    <2> QED
      BY <1>1, <2>5, <2>7, <2>8 DEF GoodRow
  <1>2. CASE ~row.exists
    <2>1. row2 = [exists |-> TRUE, support |-> 0, contradict |-> 0, sum |-> 0, first |-> t, last |-> t]
      BY <1>2 DEF NoCluster, SeenAt
    <2>2. row2 \in RowType /\ GoodRow(row2) /\ row2.exists
      BY <2>1 DEF RowType, GoodRow
    <2>3. row.support = 0 /\ row.contradict = 0 /\ row.sum = 0
      BY <1>2 DEF GoodRow
    <2>4. row2.support = 0 /\ row2.contradict = 0 /\ row2.sum = 0
      BY <2>1
    <2> QED
      BY <2>2, <2>3, <2>4
  <1> QED
    BY <1>1, <1>2

LEMMA SavedFirst ==
  ASSUME NEW w \in TransactionType, NEW A, NEW k, Restorable(w, A), NEW row \in RowType,
         \A m \in w.mine : m.cluster \in w.held, GoodRow(row), RowTells(row, A, k),
         k \in Signatures, NEW w2, w2.held = w.held \cup {k}, w2.mine = w.mine, w2.was = w.was,
         w2.saved = IF k \in w.held THEN w.saved ELSE w.saved \cup {<<k, row>>}
  PROVE  Restorable(w2, A)
  <1>1. CASE k \in w.held
    <2>1. w2.held = w.held /\ w2.saved = w.saved
      BY <1>1
    <2> QED
      BY <2>1 DEF Restorable
  <1>2. CASE k \notin w.held
    <2>1. w2.saved = w.saved \cup {<<k, row>>}
      BY <1>2
    <2>2. PICK B : B = A \ (w.mine \ w.was)
      OBVIOUS
    <2>3. Gathered(A, k) = Gathered(B, k)
      BY <1>2, <2>2 DEF Gathered
    <2>4. RowTells(row, B, k)
      BY <2>3, TellsOfItsOwn
    <2>5. /\ \A j \in w.held : \E s \in w.saved : s[1] = j
          /\ \A s \in w.saved : s[1] \in w.held /\ GoodRow(s[2]) /\ RowTells(s[2], B, s[1])
          /\ \A s, t \in w.saved : s[1] = t[1] => s = t
      BY <2>2 DEF Restorable
    <2>6. PICK p : p = <<k, row>>
      OBVIOUS
    <2>7. p[1] = k /\ p[2] = row /\ w2.saved = w.saved \cup {p}
      BY <2>1, <2>6
    <2>8. \A j \in w2.held : \E s \in w2.saved : s[1] = j
      BY <2>5, <2>7
    <2>9. \A s \in w2.saved : s[1] \in w2.held /\ GoodRow(s[2]) /\ RowTells(s[2], B, s[1])
      BY <2>4, <2>5, <2>7
    <2>10. \A s, t \in w2.saved : s[1] = t[1] => s = t
      BY <1>2, <2>5, <2>7
    <2> QED
      BY <2>2, <2>8, <2>9, <2>10 DEF Restorable
  <1> QED
    BY <1>1, <1>2

LEMMA UpsertClusterKeeps ==
  ASSUME ClusterInv, NEW r \in ClusterRuns, UpsertCluster(r)
  PROVE  ClusterInv'
  <1>1. PICK w, k, A : w = writing[r] /\ k = EvidenceClaims[Head(w.left)].signature /\ A = memberRows \cup cascaded
    OBVIOUS
  <1>2. w \in TransactionType /\ RunOk(w, memberRows, removed, A, clusterRows) /\ Counted(clusterRows, A)
        /\ clusterRows \in [Signatures -> RowType]
    BY <1>1 DEF ClusterInv, ClusterTyped
  <1>3. k = Cluster1(r) /\ w.at = "upsert" /\ RowFree(r, k)
    BY <1>1 DEF UpsertCluster, Cluster1, Claim1
  <1>4. k \in Signatures
    BY <1>1, <1>2, <1>3, FirstClaim DEF RunOk, HoldsItsOwn
  <1>5. PICK t, row : t = w.seenAt /\ row = clusterRows[k]
    OBVIOUS
  <1>6. t \in Nat /\ row \in RowType /\ GoodRow(row) /\ RowTells(row, A, k)
    BY <1>2, <1>4, <1>5 DEF TransactionType, Counted
  <1>7. PICK row2 : row2 = SeenAt(row, t)
    OBVIOUS
  <1>8. clusterRows' = [clusterRows EXCEPT ![k] = row2]
    BY <1>1, <1>3, <1>5, <1>7 DEF UpsertCluster
  <1>9. /\ row2 \in RowType /\ GoodRow(row2) /\ row2.exists
        /\ row2.support = row.support /\ row2.contradict = row.contradict /\ row2.sum = row.sum
    BY <1>6, <1>7, SeenAgain
  <1>10. clusterRows' \in [Signatures -> RowType] /\ clusterRows'[k] = row2
         /\ \A j \in Signatures : j # k => clusterRows'[j] = clusterRows[j]
    BY <1>2, <1>4, <1>8, <1>9
  <1>11. Counted(clusterRows', A)
    <2>1. RowTells(row2, A, k)
      BY <1>6, <1>9 DEF RowTells
    <2> QED
      BY <1>2, <1>9, <1>10, <2>1 DEF Counted
  <1>12. PICK saved, held : saved = Save(r, k) /\ held = w.held \cup {k}
    OBVIOUS
  <1>13. saved = IF k \in w.held THEN w.saved ELSE w.saved \cup {<<k, row>>}
    BY <1>1, <1>5, <1>12 DEF Save
  <1>14. PICK w2 : w2 = [w EXCEPT !.at = "look", !.saved = saved, !.held = held]
    OBVIOUS
  <1>15. writing' = [writing EXCEPT ![r] = w2]
    <2>1. held = HeldToCommit(r, k)
      BY <1>1, <1>12 DEF HeldToCommit
    <2> QED
      BY <1>1, <1>2, <1>3, <1>12, <1>14, <2>1 DEF UpsertCluster, ClusterInv, ClusterTyped
  <1>16. saved \in SUBSET (Signatures \X RowType) /\ held \in SUBSET Signatures
    BY <1>2, <1>4, <1>6, <1>12, <1>13 DEF TransactionType
  <1>17. w2 \in TransactionType
    BY <1>2, <1>14, <1>16 DEF TransactionType
  <1>18. /\ w2.at = "look" /\ w2.looked = w.looked /\ w2.left = w.left /\ w2.held = held /\ w2.saved = saved
         /\ w2.was = w.was /\ w2.mine = w.mine
    BY <1>2, <1>14 DEF TransactionType
  <1>19. Restorable(w2, A)
    <2>1. Restorable(w, A) /\ \A m \in w.mine : m.cluster \in w.held
      BY <1>2 DEF RunOk, HoldsItsOwn
    <2>2. w2.held = w.held \cup {k}
      BY <1>12, <1>18
    <2>3. w2.saved = IF k \in w.held THEN w.saved ELSE w.saved \cup {<<k, row>>}
      BY <1>13, <1>18
    <2> QED
      BY <1>2, <1>4, <1>6, <1>18, <2>1, <2>2, <2>3, SavedFirst
  <1>20. HoldsItsOwn(w2, memberRows, clusterRows')
    <2>1. \A j \in w.held : j \in Signatures
      BY <1>2 DEF TransactionType
    <2>2. \A j \in held : clusterRows'[j].exists
      BY <1>2, <1>9, <1>10, <1>12, <2>1 DEF RunOk, HoldsItsOwn
    <2> QED
      BY <1>1, <1>2, <1>3, <1>12, <1>18, <2>2 DEF RunOk, HoldsItsOwn
  <1>21. RunOk(w2, memberRows, removed, A, clusterRows')
    BY <1>18, <1>19, <1>20 DEF RunOk, LookedWell
  <1>22. PICK K : K = {k}
    OBVIOUS
  <1>23. w2.held \subseteq writing[r].held \cup K /\ \A q \in ClusterRuns : q # r => K \cap writing[q].held = {}
    BY <1>1, <1>3, <1>12, <1>18, <1>22 DEF RowFree
  <1>24. \A j \in Signatures : j \notin K => clusterRows'[j].exists = clusterRows[j].exists
    BY <1>10, <1>22
  <1>25. memberRows' = memberRows /\ removed' = removed /\ cascaded' = cascaded
    BY DEF UpsertCluster
  <1>26. memberRows' \in SUBSET MemberType /\ \A m \in memberRows' : m.claim \notin removed
    BY <1>25 DEF ClusterInv, ClusterTyped
  <1>27. Counted(clusterRows', memberRows' \cup cascaded)
         /\ RunOk(w2, memberRows', removed, memberRows' \cup cascaded, clusterRows')
    BY <1>1, <1>11, <1>21, <1>25
  <1>28. \A j \in Signatures : j \notin K => /\ clusterRows'[j].exists = clusterRows[j].exists
                                             /\ Gathered(memberRows', j) = Gathered(memberRows, j)
    BY <1>24, <1>25
  <1> QED
    BY <1>10, <1>15, <1>17, <1>23, <1>25, <1>26, <1>27, <1>28, RunMoves

\* A membership there is already is the same one.
LEMMA ThereIs ==
  ASSUME NEW M \in SUBSET MemberType, NEW c \in DOMAIN EvidenceClaims
  PROVE  Present(M, c) = IF MemberOf(c) \in M THEN {MemberOf(c)} ELSE {}
  <1>1. \A m \in M : m.claim = c => m = MemberOf(c)
    BY MemberIs
  <1>2. MemberOf(c).cluster = EvidenceClaims[c].signature /\ MemberOf(c).claim = c
    BY DEF MemberOf
  <1> QED
    BY <1>1, <1>2 DEF Present

\* The counts follow what was looked at: nothing for a member that was there.
LEMMA Follows ==
  ASSUME NEW c \in DOMAIN EvidenceClaims, NEW row \in RowType,
         NEW old, old = {} \/ old = {MemberOf(c)}, NEW su, NEW co, NEW total,
         su = row.support + Delta(old, MemberOf(c), "support"),
         co = row.contradict + Delta(old, MemberOf(c), "contradict"),
         total = row.sum + (IF old = {} THEN EvidenceClaims[c].confidence ELSE 0)
  PROVE  /\ su \in Nat /\ co \in Nat /\ total \in Nat
         /\ old = {} => /\ su = Grown(row, c).support
                        /\ co = Grown(row, c).contradict /\ total = Grown(row, c).sum
         /\ old # {} => su = row.support /\ co = row.contradict /\ total = row.sum
  <1>1. PICK new : new = MemberOf(c)
    OBVIOUS
  <1>2. new.relation = EvidenceClaims[c].relation
    BY <1>1 DEF MemberOf
  <1>3. row.support \in Nat /\ row.contradict \in Nat /\ row.sum \in Nat
    BY DEF RowType
  <1>4. CASE old = {}
    <2>1. ASSUME NEW relation PROVE Delta(old, new, relation) = IF EvidenceClaims[c].relation = relation THEN 1 ELSE 0
      <3>1. {m \in old : m.relation = relation} = {}
        BY <1>4
      <3>2. Cardinality({m \in old : m.relation = relation}) = 0
        BY <3>1, FS_EmptySet
      <3> QED
        BY <1>2, <3>2 DEF Delta
    <2>2. PICK g : g = Grown(row, c)
      OBVIOUS
    <2>3. /\ g.support = row.support + (IF EvidenceClaims[c].relation = "support" THEN 1 ELSE 0)
          /\ g.contradict = row.contradict + (IF EvidenceClaims[c].relation = "contradict" THEN 1 ELSE 0)
          /\ g.sum = row.sum + EvidenceClaims[c].confidence
      BY <2>2 DEF Grown, RowType
    <2>4. g.support \in Nat /\ g.contradict \in Nat /\ g.sum \in Nat
      BY <1>3, <2>3, ClusterConstants
    <2>5. su = g.support /\ co = g.contradict /\ total = g.sum
      BY <1>1, <1>4, <2>1, <2>3
    <2> QED
      BY <1>4, <2>2, <2>4, <2>5
  <1>5. CASE old = {new}
    <2>1. ASSUME NEW relation PROVE Delta(old, new, relation) = 0
      <3>1. CASE new.relation = relation
        <4>1. {m \in old : m.relation = relation} = {new}
          BY <1>5, <3>1
        <4>2. Cardinality({m \in old : m.relation = relation}) = 1
          BY <4>1, FS_Singleton
        <4> QED
          BY <3>1, <4>2 DEF Delta
      <3>2. CASE new.relation # relation
        <4>1. {m \in old : m.relation = relation} = {}
          BY <1>5, <3>2
        <4>2. Cardinality({m \in old : m.relation = relation}) = 0
          BY <4>1, FS_EmptySet
        <4> QED
          BY <3>2, <4>2 DEF Delta
      <3> QED
        BY <3>1, <3>2
    <2>2. old # {}
      BY <1>5
    <2> QED
      BY <1>1, <1>3, <2>1, <2>2
  <1> QED
    BY <1>1, <1>4, <1>5

\* Without its own members, all is as it was.
LEMMA OwnAside ==
  ASSUME NEW M, NEW C, NEW w, NEW new, new \notin C, w.was \subseteq w.mine, w.mine \subseteq M,
         NEW mine2, mine2 = w.mine \cup {new}, NEW there, there = IF new \in M THEN {new} ELSE {},
         NEW was2, was2 = w.was \cup (there \ w.mine)
  PROVE  /\ ((M \cup {new}) \cup C) \ (mine2 \ was2) = (M \cup C) \ (w.mine \ w.was)
         /\ was2 \subseteq mine2 /\ mine2 \subseteq M \cup {new}
  <1>1. CASE new \in M
    BY <1>1
  <1>2. CASE new \notin M
    BY <1>2
  <1> QED
    BY <1>1, <1>2

LEMMA AddMemberKeeps ==
  ASSUME ClusterInv, NEW r \in ClusterRuns, AddMember(r)
  PROVE  ClusterInv'
  <1>1. PICK w, c, k : w = writing[r] /\ c = Head(w.left) /\ k = EvidenceClaims[c].signature
    OBVIOUS
  <1>2. PICK A, new, there, left : /\ A = memberRows \cup cascaded /\ new = MemberOf(c)
                                   /\ there = Present(memberRows, c) /\ left = Tail(w.left)
    OBVIOUS
  <1>3. /\ w \in TransactionType /\ RunOk(w, memberRows, removed, A, clusterRows) /\ Counted(clusterRows, A)
        /\ clusterRows \in [Signatures -> RowType] /\ memberRows \in SUBSET MemberType
        /\ \A m \in cascaded : m.claim \in removed
    BY <1>1, <1>2 DEF ClusterInv, ClusterTyped
  <1>4. k = Cluster1(r) /\ c = Claim1(r) /\ w.at = "add" /\ RowFree(r, k) /\ c \notin removed
    BY <1>1 DEF AddMember, Cluster1, Claim1
  <1>5. w.left # <<>> /\ k \in w.held
    BY <1>1, <1>3, <1>4 DEF RunOk, HoldsItsOwn
  <1>6. c \in DOMAIN EvidenceClaims /\ left \in Seq(DOMAIN EvidenceClaims) /\ k \in Signatures
    BY <1>1, <1>2, <1>3, <1>5, FirstClaim
  <1>7. new \in MemberType /\ new.cluster = k /\ new.claim = c /\ new \notin cascaded
    BY <1>1, <1>2, <1>3, <1>4, <1>6 DEF MemberType, MemberOf
  <1>8. there = (IF new \in memberRows THEN {new} ELSE {}) /\ w.looked = there
    <2>1. there = IF new \in memberRows THEN {new} ELSE {}
      BY <1>2, <1>3, <1>6, ThereIs
    <2>2. w.looked = there
      BY <1>1, <1>2, <1>3, <1>4 DEF RunOk, LookedWell
    <2> QED
      BY <2>1, <2>2
  <1>9. there = {m \in memberRows : m.cluster = k /\ m.claim = c}
    BY <1>1, <1>2 DEF Present
  <1>10. memberRows' = memberRows \cup {new}
    <2>1. memberRows' = (memberRows \ there) \cup {new}
      BY <1>2, <1>4, <1>9 DEF AddMember
    <2> QED
      BY <1>8, <2>1
  <1>11. PICK row : row = clusterRows[k]
    OBVIOUS
  <1>12. row \in RowType /\ GoodRow(row) /\ RowTells(row, A, k) /\ row.exists
    BY <1>3, <1>5, <1>6, <1>11 DEF Counted, RunOk, HoldsItsOwn
  <1>13. PICK su, co, total :
           /\ su = row.support + Delta(w.looked, new, "support")
           /\ co = row.contradict + Delta(w.looked, new, "contradict")
           /\ total = row.sum + (IF w.looked = {} THEN EvidenceClaims[c].confidence ELSE 0)
    OBVIOUS
  <1>14. PICK row2 : row2 = [row EXCEPT !.support = su, !.contradict = co, !.sum = total]
    OBVIOUS
  <1>15. clusterRows' = [clusterRows EXCEPT ![k] = row2]
    BY <1>1, <1>2, <1>3, <1>4, <1>11, <1>13, <1>14 DEF AddMember
  <1>16. /\ su \in Nat /\ co \in Nat /\ total \in Nat
         /\ w.looked = {} => /\ su = Grown(row, c).support
                             /\ co = Grown(row, c).contradict /\ total = Grown(row, c).sum
         /\ w.looked # {} => su = row.support /\ co = row.contradict /\ total = row.sum
    <2>1. w.looked = {} \/ w.looked = {MemberOf(c)}
      BY <1>2, <1>8
    <2>2. PICK old : old = w.looked
      OBVIOUS
    <2> QED
      BY <1>2, <1>6, <1>12, <1>13, <2>1, <2>2, Follows
  <1>17. row2 \in RowType
    BY <1>12, <1>14, <1>16 DEF RowType
  <1>18. /\ row2.exists = row.exists /\ row2.support = su /\ row2.contradict = co
         /\ row2.sum = total /\ row2.first = row.first /\ row2.last = row.last
    BY <1>12, <1>14 DEF RowType
  <1>19. row2.exists /\ GoodRow(row2)
    BY <1>12, <1>18 DEF GoodRow
  <1>20. PICK A2 : A2 = memberRows' \cup cascaded
    OBVIOUS
  <1>21. A2 = A \cup {new}
    BY <1>2, <1>10, <1>20
  <1>22. IsFiniteSet(A) /\ IsFiniteSet(Units(A))
    BY <1>3 DEF Counted
  <1>23. RowTells(row2, A2, k) /\ IsFiniteSet(A2) /\ IsFiniteSet(Units(A2))
    <2>1. CASE new \in memberRows
      <3>1. A2 = A
        BY <1>2, <1>21, <2>1
      <3>2. w.looked # {}
        BY <1>8, <2>1
      <3> QED
        BY <1>12, <1>16, <1>18, <1>22, <3>1, <3>2 DEF RowTells
    <2>2. CASE new \notin memberRows
      <3>1. new \notin A /\ w.looked = {}
        BY <1>2, <1>7, <1>8, <2>2
      <3>2. RowTells(Grown(row, c), A2, k)
        BY <1>1, <1>2, <1>6, <1>12, <1>21, <1>22, <3>1, GrownTells
      <3>3. IsFiniteSet(A2) /\ IsFiniteSet(Units(A2))
        BY <1>2, <1>6, <1>21, <1>22, <3>1, OneMore
      <3> QED
        BY <1>16, <1>18, <3>1, <3>2, <3>3 DEF RowTells
    <2> QED
      BY <2>1, <2>2
  <1>24. clusterRows' \in [Signatures -> RowType] /\ clusterRows'[k] = row2
         /\ \A j \in Signatures : j # k => clusterRows'[j] = clusterRows[j]
    BY <1>3, <1>6, <1>15, <1>17
  <1>25. ASSUME NEW j \in Signatures, j # k
         PROVE  Gathered(A, j) = Gathered(A2, j) /\ Gathered(memberRows', j) = Gathered(memberRows, j)
    BY <1>7, <1>10, <1>21, <1>25 DEF Gathered
  <1>26. Counted(clusterRows', A2)
    <2>1. ASSUME NEW j \in Signatures, j # k PROVE GoodRow(clusterRows'[j]) /\ RowTells(clusterRows'[j], A2, j)
      <3>1. PICK other : other = clusterRows[j]
        OBVIOUS
      <3>2. GoodRow(other) /\ RowTells(other, A, j)
        BY <1>3, <3>1 DEF Counted
      <3>3. RowTells(other, A2, j)
        BY <1>25, <2>1, <3>2, TellsOfItsOwn
      <3> QED
        BY <1>24, <2>1, <3>1, <3>2, <3>3
    <2> QED
      BY <1>19, <1>23, <1>24, <2>1 DEF Counted
  <1>27. PICK was2, mine2, at2 :
           /\ was2 = w.was \cup (there \ w.mine) /\ mine2 = w.mine \cup {new}
           /\ at2 = IF left = <<>> THEN "commit"
                    ELSE IF EvidenceClaims[Head(left)].signature = k THEN "look" ELSE "upsert"
    OBVIOUS
  <1>28. PICK w2 : w2 = [w EXCEPT !.left = left, !.looked = {}, !.was = was2, !.mine = mine2, !.at = at2]
    OBVIOUS
  <1>29. writing' = [writing EXCEPT ![r] = w2]
    BY <1>1, <1>2, <1>3, <1>4, <1>9, <1>27, <1>28 DEF AddMember, ClusterInv, ClusterTyped
  <1>30. was2 \in SUBSET MemberType /\ mine2 \in SUBSET MemberType
         /\ at2 \in {"idle", "upsert", "look", "add", "commit"}
    BY <1>3, <1>7, <1>8, <1>27 DEF TransactionType
  <1>31. w2 \in TransactionType
    BY <1>3, <1>6, <1>28, <1>30 DEF TransactionType
  <1>32. w2.at = at2 /\ w2.left = left /\ w2.held = w.held /\ w2.saved = w.saved /\ w2.was = was2 /\ w2.mine = mine2
    BY <1>3, <1>28 DEF TransactionType
  <1>33. /\ A2 \ (mine2 \ was2) = A \ (w.mine \ w.was)
         /\ was2 \subseteq mine2 /\ mine2 \subseteq memberRows'
    <2>1. w.was \subseteq w.mine /\ w.mine \subseteq memberRows
      BY <1>3 DEF RunOk, HoldsItsOwn
    <2>2. there = IF new \in memberRows THEN {new} ELSE {}
      BY <1>8
    <2>3. /\ ((memberRows \cup {new}) \cup cascaded) \ (mine2 \ was2) = (memberRows \cup cascaded) \ (w.mine \ w.was)
          /\ was2 \subseteq mine2 /\ mine2 \subseteq memberRows \cup {new}
      BY <1>7, <1>27, <2>1, <2>2, OwnAside
    <2> QED
      BY <1>2, <1>10, <1>20, <2>3
  <1>34. Restorable(w2, A2)
    BY <1>3, <1>32, <1>33 DEF RunOk, Restorable
  <1>35. HoldsItsOwn(w2, memberRows', clusterRows')
    <2>1. \A j \in w.held : clusterRows'[j].exists
      <3>1. \A j \in w.held : j \in Signatures /\ clusterRows[j].exists
        BY <1>3 DEF RunOk, HoldsItsOwn, TransactionType
      <3> QED
        BY <1>19, <1>24, <3>1
    <2>2. \A m \in mine2 : m.cluster \in w.held
      BY <1>3, <1>5, <1>7, <1>27 DEF RunOk, HoldsItsOwn
    <2>3. /\ at2 \in {"upsert", "look", "add"} => left # <<>>
          /\ at2 \in {"look", "add"} => EvidenceClaims[Head(left)].signature \in w.held
      BY <1>5, <1>27
    <2> QED
      BY <1>32, <1>33, <2>1, <2>2, <2>3 DEF HoldsItsOwn
  <1>36. RunOk(w2, memberRows', removed, A2, clusterRows')
    <2>1. at2 # "add"
      BY <1>27
    <2> QED
      BY <1>32, <1>34, <1>35, <2>1 DEF RunOk, LookedWell
  <1>37. PICK K : K = {k}
    OBVIOUS
  <1>38. w2.held \subseteq writing[r].held \cup K /\ \A q \in ClusterRuns : q # r => K \cap writing[q].held = {}
    BY <1>1, <1>4, <1>32, <1>37 DEF RowFree
  <1>39. removed' = removed /\ cascaded' = cascaded
    BY DEF AddMember
  <1>40. memberRows' \in SUBSET MemberType /\ \A m \in memberRows' : m.claim \notin removed
    BY <1>4, <1>7, <1>10 DEF ClusterInv, ClusterTyped
  <1>41. \A j \in Signatures : j \notin K => /\ clusterRows'[j].exists = clusterRows[j].exists
                                             /\ Gathered(memberRows', j) = Gathered(memberRows, j)
    BY <1>24, <1>25, <1>37
  <1>42. Counted(clusterRows', memberRows' \cup cascaded)
         /\ RunOk(w2, memberRows', removed, memberRows' \cup cascaded, clusterRows')
    BY <1>20, <1>26, <1>36
  <1> QED
    BY <1>24, <1>29, <1>31, <1>38, <1>39, <1>40, <1>41, <1>42, RunMoves

LEMMA AbortClustersKeeps ==
  ASSUME ClusterInv, NEW r \in ClusterRuns, AbortClusters(r)
  PROVE  ClusterInv'
  <1>1. PICK w, A, A2 : w = writing[r] /\ A = memberRows \cup cascaded /\ A2 = memberRows' \cup cascaded
    OBVIOUS
  <1>2. /\ w \in TransactionType /\ RunOk(w, memberRows, removed, A, clusterRows) /\ Counted(clusterRows, A)
        /\ clusterRows \in [Signatures -> RowType] /\ memberRows \in SUBSET MemberType
        /\ \A m \in memberRows : m.claim \notin removed
        /\ \A m \in cascaded : m.claim \in removed
    BY <1>1 DEF ClusterInv, ClusterTyped
  <1>3. /\ memberRows' = (memberRows \ w.mine) \cup w.was /\ removed' = removed /\ cascaded' = cascaded
        /\ writing' = [writing EXCEPT ![r] = NoTransaction]
    BY <1>1 DEF AbortClusters
  <1>4. w.was \subseteq w.mine /\ w.mine \subseteq memberRows /\ \A m \in w.mine : m.cluster \in w.held
    BY <1>2 DEF RunOk, HoldsItsOwn
  <1>5. A2 = A \ (w.mine \ w.was) /\ A2 \in SUBSET A
    BY <1>1, <1>2, <1>3, <1>4
  <1>6. IsFiniteSet(A2) /\ IsFiniteSet(Units(A2))
    BY <1>2, <1>5, PartsFinite DEF Counted
  <1>7. \A k \in Signatures : clusterRows'[k] =
          IF k \in w.held THEN (CHOOSE s \in w.saved : s[1] = k)[2] ELSE clusterRows[k]
    BY <1>1 DEF AbortClusters
  <1>8. ASSUME NEW k \in w.held
        PROVE  clusterRows'[k] \in RowType /\ GoodRow(clusterRows'[k]) /\ RowTells(clusterRows'[k], A2, k)
    <2>1. PICK s : s = CHOOSE x \in w.saved : x[1] = k
      OBVIOUS
    <2>2. s \in w.saved /\ s[1] = k
      BY <1>2, <2>1 DEF RunOk, Restorable
    <2>3. k \in Signatures /\ s \in Signatures \X RowType
      BY <1>2, <2>2 DEF TransactionType
    <2>4. GoodRow(s[2]) /\ RowTells(s[2], A2, k)
      BY <1>2, <1>5, <2>2 DEF RunOk, Restorable
    <2>5. clusterRows'[k] = s[2]
      BY <1>7, <2>1, <2>3
    <2> QED
      BY <2>3, <2>4, <2>5
  <1>9. ASSUME NEW k \in Signatures, k \notin w.held
        PROVE  Gathered(A, k) = Gathered(A2, k) /\ Gathered(memberRows', k) = Gathered(memberRows, k)
    BY <1>3, <1>4, <1>5, <1>9 DEF Gathered
  <1>10. ASSUME NEW k \in Signatures, k \notin w.held
         PROVE  /\ clusterRows'[k] = clusterRows[k] /\ clusterRows'[k] \in RowType
                /\ GoodRow(clusterRows'[k]) /\ RowTells(clusterRows'[k], A2, k)
    <2>1. PICK row : row = clusterRows[k]
      OBVIOUS
    <2>2. row \in RowType /\ GoodRow(row) /\ RowTells(row, A, k)
      BY <1>2, <2>1 DEF Counted
    <2>3. RowTells(row, A2, k)
      BY <1>9, <1>10, <2>2, TellsOfItsOwn
    <2>4. clusterRows'[k] = row
      BY <1>7, <1>10, <2>1
    <2> QED
      BY <2>1, <2>2, <2>3, <2>4
  <1>11. clusterRows' \in [Signatures -> RowType]
    <2>1. \A k \in Signatures : clusterRows'[k] \in RowType
      BY <1>8, <1>10
    <2>2. clusterRows' = [k \in Signatures |->
            IF k \in w.held THEN (CHOOSE s \in w.saved : s[1] = k)[2] ELSE clusterRows[k]]
      BY <1>1 DEF AbortClusters
    <2> QED
      BY <2>1, <2>2
  <1>12. Counted(clusterRows', A2)
    BY <1>6, <1>8, <1>10 DEF Counted
  <1>13. NoTransaction \in TransactionType /\ RunOk(NoTransaction, memberRows', removed, A2, clusterRows')
    BY Resting
  <1>14. PICK K : K = w.held
    OBVIOUS
  <1>15. NoTransaction.held \subseteq writing[r].held \cup K
    BY DEF NoTransaction
  <1>16. \A q \in ClusterRuns : q # r => K \cap writing[q].held = {}
    BY <1>1, <1>14 DEF ClusterInv, Apart
  <1>17. memberRows' \in SUBSET MemberType /\ \A m \in memberRows' : m.claim \notin removed
    BY <1>2, <1>3, <1>4
  <1>18. \A k \in Signatures : k \notin K => /\ clusterRows'[k].exists = clusterRows[k].exists
                                             /\ Gathered(memberRows', k) = Gathered(memberRows, k)
    BY <1>9, <1>10, <1>14
  <1>19. Counted(clusterRows', memberRows' \cup cascaded)
         /\ RunOk(NoTransaction, memberRows', removed, memberRows' \cup cascaded, clusterRows')
    BY <1>1, <1>12, <1>13
  <1> QED
    BY <1>3, <1>11, <1>13, <1>15, <1>16, <1>17, <1>18, <1>19, RunMoves

LEMMA RemoveClaimKeeps ==
  ASSUME ClusterInv, NEW c \in DOMAIN EvidenceClaims, RemoveClaim(c)
  PROVE  ClusterInv'
  <1>1. PICK M2, D2, A : M2 = memberRows' /\ D2 = removed' /\ A = memberRows \cup cascaded
    OBVIOUS
  <1>2. /\ M2 = {m \in memberRows : m.claim # c} /\ D2 = removed \cup {c}
        /\ cascaded' = cascaded \cup {m \in memberRows : m.claim = c}
        /\ clusterRows' = clusterRows /\ writing' = writing
        /\ \A r \in ClusterRuns : \A m \in writing[r].mine : m.claim # c
    BY <1>1 DEF RemoveClaim
  <1>3. M2 \cup cascaded' = A
    BY <1>1, <1>2
  <1>4. ClusterTyped'
    BY <1>1, <1>2 DEF ClusterInv, ClusterTyped
  <1>5. ASSUME NEW r \in ClusterRuns PROVE RunOk(writing[r], M2, D2, A, clusterRows)
    <2>1. PICK w : w = writing[r]
      OBVIOUS
    <2>2. w \in TransactionType /\ RunOk(w, memberRows, removed, A, clusterRows)
      BY <1>1, <2>1 DEF ClusterInv, ClusterTyped
    <2>3. w.mine \subseteq M2
      BY <1>2, <2>1, <2>2 DEF RunOk, HoldsItsOwn
    <2>4. \A k \in w.held : Gathered(A, k) = Gathered(A, k) /\ clusterRows[k].exists
      BY <2>2 DEF RunOk, HoldsItsOwn
    <2>5. \A d \in DOMAIN EvidenceClaims : d \notin D2 /\ EvidenceClaims[d].signature \in w.held
                                           => Present(M2, d) = Present(memberRows, d)
      BY <1>2 DEF Present
    <2>6. removed \subseteq D2
      BY <1>2
    <2> QED
      BY <2>1, <2>2, <2>3, <2>4, <2>5, <2>6, RunKeeps
  <1>6. Counted(clusterRows', memberRows' \cup cascaded')
    BY <1>1, <1>2, <1>3 DEF ClusterInv
  <1>7. \A r \in ClusterRuns : RunOk(writing'[r], memberRows', removed', memberRows' \cup cascaded', clusterRows')
    BY <1>1, <1>2, <1>3, <1>5
  <1>8. Apart(writing')
    BY <1>2 DEF ClusterInv
  <1> QED
    BY <1>4, <1>6, <1>7, <1>8 DEF ClusterInv

LEMMA ClustersInitInv == ClustersInit => ClusterInv
  <1> SUFFICES ASSUME ClustersInit PROVE ClusterInv
    OBVIOUS
  <1>1. NoCluster \in RowType /\ GoodRow(NoCluster)
    BY DEF NoCluster, RowType, GoodRow
  <1>2. NoCluster.support = 0 /\ NoCluster.contradict = 0 /\ NoCluster.sum = 0
    BY DEF NoCluster
  <1>3. ASSUME NEW k PROVE RowTells(NoCluster, {}, k)
    <2>1. Related({}, k, "support") = {} /\ Related({}, k, "contradict") = {} /\ Units(Gathered({}, k)) = {}
      BY DEF Related, Gathered, Units
    <2> QED
      BY <1>2, <2>1, FS_EmptySet DEF RowTells, Confidence
  <1>4. Units({}) = {} /\ memberRows \cup cascaded = {}
    BY DEF Units, ClustersInit
  <1>5. Counted(clusterRows, memberRows \cup cascaded)
    BY <1>1, <1>3, <1>4, FS_EmptySet DEF ClustersInit, Counted
  <1>6. ASSUME NEW r \in ClusterRuns PROVE writing[r] = NoTransaction /\ writing[r].held = {}
    BY DEF ClustersInit, NoTransaction
  <1>7. NoTransaction \in TransactionType
        /\ RunOk(NoTransaction, memberRows, removed, memberRows \cup cascaded, clusterRows)
    BY Resting
  <1>8. ClusterTyped
    BY <1>1, <1>7 DEF ClustersInit, ClusterTyped
  <1>9. Apart(writing)
    BY <1>6 DEF Apart
  <1> QED
    BY <1>5, <1>6, <1>7, <1>8, <1>9 DEF ClusterInv

LEMMA ClustersStepInv == ClusterInv /\ [ClustersNext]_clusterVars => ClusterInv'
  <1> SUFFICES ASSUME ClusterInv, [ClustersNext]_clusterVars PROVE ClusterInv'
    OBVIOUS
  <1>1. ASSUME NEW r \in ClusterRuns, BeginClusters(r) PROVE ClusterInv'
    BY <1>1, BeginClustersKeeps
  <1>2. ASSUME NEW r \in ClusterRuns, UpsertCluster(r) PROVE ClusterInv'
    BY <1>2, UpsertClusterKeeps
  <1>3. ASSUME NEW r \in ClusterRuns, LookForMember(r) PROVE ClusterInv'
    BY <1>3, LookForMemberKeeps
  <1>4. ASSUME NEW r \in ClusterRuns, AddMember(r) PROVE ClusterInv'
    BY <1>4, AddMemberKeeps
  <1>5. ASSUME NEW r \in ClusterRuns, CommitClusters(r) PROVE ClusterInv'
    BY <1>5, CommitClustersKeeps
  <1>6. ASSUME NEW r \in ClusterRuns, AbortClusters(r) PROVE ClusterInv'
    BY <1>6, AbortClustersKeeps
  <1>7. ASSUME NEW c \in DOMAIN EvidenceClaims, RemoveClaim(c) PROVE ClusterInv'
    BY <1>7, RemoveClaimKeeps
  <1>8. CASE UNCHANGED clusterVars
    BY <1>8 DEF clusterVars, ClusterInv, ClusterTyped
  <1> QED
    BY <1>1, <1>2, <1>3, <1>4, <1>5, <1>6, <1>7, <1>8 DEF ClustersNext

LEMMA ClustersInvHolds == ClustersSpec => []ClusterInv
  BY ClustersInitInv, ClustersStepInv, PTL DEF ClustersSpec

(* Types: rows, members and transactions are what the code makes them, and a *)
(* transaction has saved each row it holds and no other (what a rollback     *)
(* restores), in every state.                                                *)
THEOREM ClustersTypeCorrect == ClustersSpec => []ClustersTypeOK
  <1>1. ClusterInv => ClustersTypeOK
    <2> SUFFICES ASSUME ClusterInv PROVE ClustersTypeOK
      OBVIOUS
    <2>1. ASSUME NEW r \in ClusterRuns
          PROVE  /\ writing[r].at \in {"idle", "upsert", "look", "add", "commit"}
                 /\ {s[1] : s \in writing[r].saved} = writing[r].held
      <3>1. PICK w : w = writing[r]
        OBVIOUS
      <3>2. w \in TransactionType /\ Restorable(w, memberRows \cup cascaded)
        BY <3>1 DEF ClusterInv, ClusterTyped, RunOk
      <3> QED
        BY <3>1, <3>2 DEF TransactionType, Restorable
    <2> QED
      BY <2>1 DEF ClustersTypeOK, ClusterInv, ClusterTyped, RowType, MemberType
  <1> QED
    BY <1>1, ClustersInvHolds, PTL

(* The counts and the confidence a cluster tells (upsertClaimCluster,        *)
(* addClaimClusterMember) are those of its members, in every state, for any  *)
(* claims, batches and number of runs, whether they commit or roll back: a   *)
(* look and the write after it agree, for the row is locked from the upsert  *)
(* to the end, and what a rollback restores counts the others' members.      *)
THEOREM CountsMatch == ClustersSpec => []CountsMatchMembers
  <1>1. ClusterInv => CountsMatchMembers
    BY DEF ClusterInv, Counted, GoodRow, CountsMatchMembers
  <1> QED
    BY <1>1, ClustersInvHolds, PTL
===============================================================================
