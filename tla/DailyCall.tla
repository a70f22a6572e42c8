------------------------------ MODULE DailyCall ------------------------------
(* The morning call of an analyst (services/briefs): a brief is created as a *)
(* draft, edited, approved and published.  Requests run concurrently; each   *)
(* one loads the brief, compares its status and applies its change in later  *)
(* statements (transitionBrief), which compare the status again.  Publishing *)
(* seals a snapshot in a transaction of its own in between, and announces    *)
(* the brief afterwards.  Any statement may fail, and a request whose answer *)
(* or process is lost leaves what it has done so far.                        *)
EXTENDS Integers, FiniteSets, Sequences

CONSTANTS Requests,   \* requests; a request seals under an id of its own
          Briefs,     \* briefs, none of which exists at first
          Fields,     \* the editable parts of a brief's content
          Texts,      \* what an edit may put into a field
          Seeded,     \* what the seed puts into a field
          Blank       \* a text the draft's validation refuses

ASSUME BriefConstants == Seeded \in Texts /\ Blank \notin Texts

VARIABLES brief,      \* table daily_call_briefs
          request,    \* where each request is and what it has loaded
          sealed,     \* snapshots, by the request that sealed them
          announced   \* calls of onPublished

briefVars == <<brief, request, sealed, announced>>

Row == [status : {"draft", "approved", "published"},
        content : [Fields -> Texts], reviewer : BOOLEAN, snapshot : SUBSET Requests]

None == [status |-> "none"]
Idle == [at |-> "new"]

BriefInit ==
  /\ brief = [b \in Briefs |-> None]
  /\ request = [r \in Requests |-> Idle]
  /\ sealed = {}
  /\ announced = <<>>

-------------------------------------------------------------------------------
Answers == {"ok", "conflict", "not_found", "invalid", "error"}

\* the request ends with an answer that shows the brief as a row
Answer(r, what, shown) ==
  request' = [request EXCEPT ![r] =
                [at |-> "done", op |-> @.op, of |-> @.of, answer |-> what, shown |-> shown]]

Goto(r, where) == request' = [request EXCEPT ![r].at = where]

Begin(r, b, op, patch) ==
  /\ request[r] = Idle
  /\ request' = [request EXCEPT ![r] =
                   [at |-> "load", op |-> op, of |-> b, patch |-> patch, seen |-> None]]
  /\ UNCHANGED <<brief, sealed, announced>>

\* createDailyCall: the id is new, so nobody sees the brief before its insert
Create(b) ==
  /\ brief[b] = None
  /\ brief' = [brief EXCEPT ![b] =
                 [status |-> "draft", content |-> [f \in Fields |-> Seeded],
                  reviewer |-> FALSE, snapshot |-> {}]]
  /\ UNCHANGED <<request, sealed, announced>>

Expected(op) == IF op = "publish" THEN "approved" ELSE "draft"

\* getDailyCall and the status check of transitionBrief
Load(r) ==
  LET row == brief[request[r].of]
  IN /\ request[r].at = "load"
     /\ \/ row = None /\ Answer(r, "not_found", row)
        \/ row # None /\ row.status # Expected(request[r].op) /\ Answer(r, "conflict", row)
        \/ /\ row.status = Expected(request[r].op)
           /\ request' = [request EXCEPT ![r].at = "apply", ![r].seen = row]
     /\ UNCHANGED <<brief, sealed, announced>>

\* the row an edit writes: its patch over the content it loaded
Edited(q) ==
  [f \in Fields |-> IF f \in DOMAIN q.patch THEN q.patch[f] ELSE q.seen.content[f]]

\* a bug: the update does not compare the status again
UpdateDraftAlways(b, content) ==
  brief' = [brief EXCEPT ![b].content = content]

\* updateDraftContent
UpdateDraft(b, content) ==
  /\ brief[b].status = "draft"
  /\ brief' = [brief EXCEPT ![b].content = content]

\* a bug: the update does not compare the status again
PersistAlways(b, expected, next) ==
  brief' = [brief EXCEPT ![b] = [next EXCEPT !.content = brief[b].content]]

\* persistBriefState: the content columns are not written
PersistState(b, expected, next) ==
  /\ brief[b].status = expected
  /\ brief' = [brief EXCEPT ![b] = [next EXCEPT !.content = brief[b].content]]

\* the statement returned its row; a request may still fail to answer
Applied(r, shown) == Answer(r, "ok", shown)

Edit(r) ==
  LET q == request[r]
  IN /\ q.at = "apply" /\ q.op = "edit"
     /\ \/ /\ Blank \in {Edited(q)[f] : f \in Fields}
           /\ Answer(r, "invalid", q.seen) /\ UNCHANGED brief
        \/ /\ Blank \notin {Edited(q)[f] : f \in Fields}
           /\ UpdateDraft(q.of, Edited(q)) /\ Applied(r, brief'[q.of])
     /\ UNCHANGED <<sealed, announced>>

Approve(r) ==
  LET q == request[r]
  IN /\ q.at = "apply" /\ q.op = "approve"
     /\ PersistState(q.of, "draft", [q.seen EXCEPT !.status = "approved", !.reviewer = TRUE])
     /\ Applied(r, brief'[q.of])
     /\ UNCHANGED <<sealed, announced>>

\* a bug: a refused seal is not noticed
SealUnnoticed(r) ==
  /\ request[r].at = "apply" /\ request[r].op = "publish"
  /\ Goto(r, "persist")
  /\ UNCHANGED <<brief, sealed, announced>>

\* sealDailyCallSnapshot: a transaction of its own, under a new id
Seal(r) ==
  /\ request[r].at = "apply" /\ request[r].op = "publish"
  /\ sealed' = sealed \cup {r}
  /\ Goto(r, "persist")
  /\ UNCHANGED <<brief, announced>>

PublishBrief(r) ==
  LET q == request[r]
  IN /\ q.at = "persist"
     /\ PersistState(q.of, "approved", [q.seen EXCEPT !.status = "published", !.snapshot = {r}])
     /\ request' = [request EXCEPT ![r].at = "announce", ![r].seen = brief'[q.of]]
     /\ UNCHANGED <<sealed, announced>>

\* onPublished, then the answer
Announce(r) ==
  LET q == request[r]
  IN /\ q.at = "announce"
     /\ announced' = Append(announced, [of |-> q.of, row |-> q.seen])
     /\ Applied(r, q.seen)
     /\ UNCHANGED <<brief, sealed>>

\* a guarded update found no row: another request was first
Overtaken(r) ==
  LET q == request[r]
  IN /\ \/ q.at = "apply" /\ q.op \in {"edit", "approve"} /\ brief[q.of].status # "draft"
        \/ q.at = "persist" /\ brief[q.of].status # "approved"
     /\ \/ q.op # "edit"
        \/ Blank \notin {Edited(q)[f] : f \in Fields}
     /\ Answer(r, "conflict", brief[q.of])
     /\ UNCHANGED <<brief, sealed, announced>>

\* a statement, the seal or onPublished throws, or the process ends; what was
\* committed stays
Lost(r) ==
  /\ request[r].at \in {"load", "apply", "persist", "announce"}
  /\ Answer(r, "error", None)
  /\ UNCHANGED <<brief, sealed, announced>>

\* a writing statement commits, but its result does not arrive
LostAfterCommit(r) ==
  LET q == request[r]
  IN /\ \/ /\ q.at = "apply" /\ q.op = "edit"
           /\ Blank \notin {Edited(q)[f] : f \in Fields}
           /\ UpdateDraft(q.of, Edited(q)) /\ UNCHANGED <<sealed, announced>>
        \/ /\ q.at = "apply" /\ q.op = "approve"
           /\ PersistState(q.of, "draft", [q.seen EXCEPT !.status = "approved", !.reviewer = TRUE])
           /\ UNCHANGED <<sealed, announced>>
        \/ /\ q.at = "apply" /\ q.op = "publish"
           /\ sealed' = sealed \cup {r} /\ UNCHANGED <<brief, announced>>
        \/ /\ q.at = "announce"
           /\ announced' = Append(announced, [of |-> q.of, row |-> q.seen])
           /\ UNCHANGED <<brief, sealed>>
     /\ Answer(r, "error", None)

Patches == UNION {[{f} -> Texts \cup {Blank}] : f \in Fields}

Handle(r) ==
  \/ Load(r) \/ Edit(r) \/ Approve(r) \/ Seal(r) \/ PublishBrief(r)
  \/ Announce(r) \/ Overtaken(r) \/ Lost(r) \/ LostAfterCommit(r)

BriefNext ==
  \/ \E b \in Briefs : Create(b)
  \/ \E r \in Requests, b \in Briefs :
       \/ \E op \in {"approve", "publish"} : Begin(r, b, op, <<>>)
       \/ \E patch \in Patches : Begin(r, b, "edit", patch)
  \/ \E r \in Requests : Handle(r)

BriefSpec == BriefInit /\ [][BriefNext]_briefVars

-------------------------------------------------------------------------------
Ops == {"edit", "approve", "publish"}
Loading == [at : {"load"}, op : Ops, of : Briefs, patch : Patches \cup {<<>>}, seen : {None}]
Working == [at : {"apply", "persist", "announce"}, op : Ops, of : Briefs,
            patch : Patches \cup {<<>>}, seen : Row]
Done == [at : {"done"}, op : Ops, of : Briefs, answer : Answers, shown : Row \cup {None}]

\* the CHECK constraints, and the foreign key of snapshot_id
Accepted(row) ==
  /\ row.reviewer = (row.status # "draft")
  /\ \/ row.status = "published" /\ \E r \in sealed : row.snapshot = {r}
     \/ row.status # "published" /\ row.snapshot = {}

\* The table holds rows its CHECK constraints accept: a brief that left the draft
\* has a reviewer, and a published one names a snapshot that was really sealed.
BriefTypeOK ==
  /\ brief \in [Briefs -> Row \cup {None}]
  /\ request \in [Requests -> {Idle} \cup Loading \cup Working \cup Done]
  /\ \A r \in Requests : request[r].at \in {"load", "apply"} /\ request[r].op = "edit"
                            => request[r].patch \in Patches
  /\ sealed \subseteq Requests
  /\ announced \in Seq([of : Briefs, row : Row])
  /\ \A b \in Briefs : brief[b] # None => Accepted(brief[b])

\* What was approved stays as it was approved, whatever edits were under way, and
\* what was published stays published with its snapshot (the status guards of
\* updateDraftContent and persistBriefState).
FixedOnceApproved ==
  [][\A b \in Briefs :
       /\ brief[b].status \in {"approved", "published"} =>
            /\ brief'[b].content = brief[b].content
            /\ brief'[b].status \in {brief[b].status, "published"}
       /\ brief[b].status = "published" => brief'[b] = brief[b]]_briefVars

Succeeded(op, b) ==
  {r \in Requests : /\ request[r].at = "done" /\ request[r].op = op
                    /\ request[r].of = b /\ request[r].answer = "ok"}

\* Of the requests that approve or publish a brief at most one is told that it did,
\* and it is shown what was approved or published, also when an edit came between
\* its load and its update; a brief is announced at most once, as the row kept.
OneWinner ==
  /\ \A b \in Briefs :
       /\ Cardinality(Succeeded("approve", b)) <= 1
       /\ Cardinality(Succeeded("publish", b)) <= 1
       /\ \A r \in Succeeded("approve", b) : request[r].shown.content = brief[b].content
       /\ \A r \in Succeeded("publish", b) : request[r].shown = brief[b]
                                            /\ brief[b].snapshot = {r}
  /\ \A i \in 1..Len(announced) :
       /\ announced[i].row = brief[announced[i].of]
       /\ \A j \in 1..(i - 1) : announced[j].of # announced[i].of

=============================================================================
