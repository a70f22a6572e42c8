------------------------------ MODULE ResearchPages ------------------------------
(* Two pages over the services of research: the queue of facts under review            *)
(* (web/src/pages/ReviewPage.tsx, review/) and the memo runner with its history        *)
(* (web/src/pages/AnalyzePage.tsx, analyze/).  Requests are answered in any order; a   *)
(* page takes an answer by what it remembers of the request.                           *)
EXTENDS Integers, FiniteSets, Sequences, SequencesExt, Functions

CONSTANTS
  Reviewers,      \* users who review
  ReviewIds,      \* facts under review
  ReviewTexts,    \* what a candidate can say
  TraysAtFirst,   \* what the queue is at first
  MaxVerdicts, MaxReviewMoves,    \* bounds: verdicts; sessions, drafts and others' verdicts
  Analysts,       \* users who run memos
  PagePlaybooks, PageTemplates,   \* the service's, with the source categories they ask for
  BaseCategories, \* the categories offered for any playbook
  RunsAtFirst,    \* the memos there are: whose, and whether they can be rerun
  RunsPerPage, MaxRuns, MaxAsks, MaxFormEdits,   \* limit of a page of the history; bounds
  DiffBlocks      \* blocks that memos have

VARIABLES
  reviewer,       \* the session's user, {} without a session
  tray,           \* the service's queue: candidate of each review, or "closed"
  queueState,     \* ReviewPage's state: kind and items
  drafts,         \* text and candidate of each row's text area; the rows of the mounted queue
  busyIds,        \* pendingReviewIds of the mounted queue
  verdicts,       \* verdicts in flight; here: sent from the mounted queue
  loads,          \* fetches of the queue in flight; current: its token is refreshTokenRef's
  settledIds,     \* reviews this page was told it closed
  sent, reviewMoves,  \* counters

  analyst,        \* the session's user, {} without a session
  settings,       \* template, playbook, instructions and sources of the form
  memoRun,        \* the memo on the canvas
  pageRuns, pageCursor,   \* runHistory, runHistoryCursor
  opened,         \* openedRunDetails
  compared,       \* compareRunId
  asks,           \* requests in flight
  ran,            \* the service's memos, oldest first
  shared,         \* the memo in a chat: the page is left
  uneven,         \* the history was not loaded by this session, or asks for it overlapped or were lost
  asked, formEdits    \* counters

reviewVars == <<reviewer, tray, queueState, drafts, busyIds, verdicts, loads, settledIds,
                sent, reviewMoves>>
reviewCounts == <<sent, reviewMoves>>

None == [id \in {} |-> {}]
QueueItems == [id \in {id \in ReviewIds : tray[id] # "closed"} |-> tray[id]]

\* the effect's or refresh's fetch, with the verdict that awaits it
LoadBy(u, after) == [by |-> u, current |-> TRUE, answer |-> {}, after |-> after]

\* a new token: what was asked before is not heeded, but still awaited by its verdict
Superseded == {[l EXCEPT !.current = FALSE] : l \in {l \in loads : l.after # {}}}

ReviewInit ==
  /\ LET u == CHOOSE u \in Reviewers : TRUE IN reviewer = {u} /\ loads = {LoadBy(u, {})}
  /\ tray \in TraysAtFirst
  /\ queueState = [kind |-> "loading", items |-> None]
  /\ drafts = None /\ busyIds = {} /\ verdicts = {} /\ settledIds = {}
  /\ sent = 0 /\ reviewMoves = 0

-------------------------------------------------------------------------------
\* visibleState
VisibleQueue(u, q) == IF u = {} THEN "unauthenticated" ELSE q.kind

\* queueKey: ids with their candidates
QueueKey(items) == items

\* FactReviewQueueContent after a render with u and q: the same mount while the page
\* goes on to show a queue with the same key, else a new one with drafts of the items
SameMount(u, q) ==
  /\ VisibleQueue(reviewer, queueState) = "ready" /\ VisibleQueue(u, q) = "ready"
  /\ QueueKey(q.items) = QueueKey(queueState.items)

DraftsOf(u, q) ==
  IF VisibleQueue(u, q) = "ready" THEN [id \in DOMAIN q.items |-> [base |-> q.items[id], text |-> q.items[id]]]
  ELSE None

Left(vs) == {[v EXCEPT !.here = FALSE] : v \in vs}

\* the page renders u and q with the verdicts vs and the loads ls in flight, one of
\* whose rows is over
RenderQueue(u, q, vs, ls, over) ==
  /\ reviewer' = u /\ queueState' = q
  /\ IF SameMount(u, q)
     THEN drafts' = drafts /\ busyIds' = busyIds \ over /\ verdicts' = vs /\ loads' = ls
     ELSE /\ drafts' = DraftsOf(u, q) /\ busyIds' = {}
          /\ verdicts' = Left(vs) /\ loads' = {[l EXCEPT !.after = Left(@)] : l \in ls}

-------------------------------------------------------------------------------
\* The session changes: the effect's cleanup and the effect.
ReviewerTurns(u) ==
  /\ reviewMoves < MaxReviewMoves /\ u # reviewer
  /\ reviewMoves' = reviewMoves + 1
  /\ RenderQueue(u, queueState, verdicts, Superseded \cup {LoadBy(x, {}) : x \in u}, {})
  /\ UNCHANGED <<tray, settledIds, sent>>

\* the text area of a row is the browser's
TypeDraft(id, text) ==
  /\ reviewMoves < MaxReviewMoves /\ drafts[id].text # text
  /\ drafts' = [drafts EXCEPT ![id].text = text]
  /\ reviewMoves' = reviewMoves + 1
  /\ UNCHANGED <<reviewer, tray, queueState, busyIds, verdicts, loads, settledIds, sent>>

\* submitCandidateAction and submitRejectAction; text that is no JSON object goes nowhere
SendVerdict(id, op) ==
  /\ sent < MaxVerdicts /\ id \notin busyIds
  /\ op # "reject" => drafts[id].text # "broken"
  /\ sent' = sent + 1
  /\ busyIds' = busyIds \cup {id}
  /\ \E u \in reviewer :
       verdicts' = verdicts \cup {[n |-> sent', id |-> id, op |-> op, text |-> drafts[id].text, by |-> u,
                                   here |-> TRUE, stage |-> "sent"]}
  /\ UNCHANGED <<reviewer, tray, queueState, drafts, loads, settledIds, reviewMoves>>

AfterVerdict(v) == IF v.op = "edit" THEN v.text ELSE "closed"

\* the service takes a verdict on a review that is still queued
VerdictReaches(v) ==
  /\ v.stage = "sent"
  /\ verdicts' = (verdicts \ {v}) \cup {[v EXCEPT !.stage = IF tray[v.id] = "closed" THEN "refused" ELSE "taken"]}
  /\ tray' = IF tray[v.id] = "closed" THEN tray ELSE [tray EXCEPT ![v.id] = AfterVerdict(v)]
  /\ UNCHANGED <<reviewer, queueState, drafts, busyIds, loads, settledIds, reviewCounts>>

\* another reviewer
DecidedElsewhere(id, text) ==
  /\ reviewMoves < MaxReviewMoves /\ tray[id] \notin {"closed", text}
  /\ tray' = [tray EXCEPT ![id] = text]
  /\ reviewMoves' = reviewMoves + 1
  /\ UNCHANGED <<reviewer, queueState, drafts, busyIds, verdicts, loads, settledIds, sent>>

\* the row's error is shown, nothing is fetched; an answer may be lost at any stage
VerdictFails(v) ==
  /\ verdicts' = verdicts \ {v}
  /\ busyIds' = IF v.here THEN busyIds \ {v.id} ELSE busyIds
  /\ UNCHANGED <<reviewer, tray, queueState, drafts, loads, settledIds, reviewCounts>>

\* approve, edit and reject go on to refresh, for the reviewer who sent the verdict
VerdictAnswered(v) ==
  /\ v.stage = "taken"
  /\ verdicts' = verdicts \ {v}
  /\ loads' = Superseded \cup {LoadBy(v.by, {v})}
  /\ settledIds' = IF v.op = "edit" THEN settledIds ELSE settledIds \cup {v.id}
  /\ UNCHANGED <<reviewer, tray, queueState, drafts, busyIds, reviewCounts>>

QueueRead(l) ==
  /\ l.answer = {}
  /\ loads' = (loads \ {l}) \cup {[l EXCEPT !.answer = {QueueItems}]}
  /\ UNCHANGED <<reviewer, tray, queueState, drafts, busyIds, verdicts, settledIds, reviewCounts>>

TakenBy(l) == l.current

\* the rows that wait for a load are free again
Awaiting(l) == {v.id : v \in {v \in l.after : v.here}}

QueueArrives(l) ==
  /\ \E items \in l.answer :
       RenderQueue(reviewer, IF TakenBy(l) THEN [kind |-> "ready", items |-> items] ELSE queueState,
                   verdicts, loads \ {l}, Awaiting(l))
  /\ UNCHANGED <<tray, settledIds, reviewCounts>>

QueueFails(l) ==
  /\ RenderQueue(reviewer, IF TakenBy(l) THEN [kind |-> "error", items |-> None] ELSE queueState,
                 verdicts, loads \ {l}, Awaiting(l))
  /\ UNCHANGED <<tray, settledIds, reviewCounts>>

ReviewNext ==
  \/ \E u \in {{}} \cup {{x} : x \in Reviewers} : ReviewerTurns(u)
  \/ \E id \in DOMAIN drafts :
       \/ \E text \in ReviewTexts \cup {"broken"} : TypeDraft(id, text)
       \/ \E op \in {"edit", "approve", "reject"} : SendVerdict(id, op)
  \/ \E id \in ReviewIds, text \in ReviewTexts \cup {"closed"} : DecidedElsewhere(id, text)
  \/ \E v \in verdicts : VerdictReaches(v) \/ VerdictFails(v) \/ VerdictAnswered(v)
  \/ \E l \in loads : QueueRead(l) \/ QueueArrives(l) \/ QueueFails(l)

ReviewSpec == ReviewInit /\ [][ReviewNext]_reviewVars

-------------------------------------------------------------------------------
\* A row's draft was opened over the candidate that the row shows
\* (review/FactReviewQueue.tsx:50).
DraftsFit ==
  VisibleQueue(reviewer, queueState) = "ready" =>
    /\ DOMAIN drafts = DOMAIN queueState.items
    /\ \A id \in DOMAIN drafts : drafts[id].base = queueState.items[id]

\* A row waits exactly while a verdict of its mount is not over (its refresh is part of
\* it: ReviewPage.tsx:62), so that no row stays disabled for ever.
BusyWhileSent ==
  busyIds = {v.id : v \in {v \in verdicts \cup UNION {l.after : l \in loads} : v.here}}

\* A review that the page closed is shown only until the newest fetch is answered: an
\* older answer never brings it back (ReviewPage.tsx:29).
ClosedGoes ==
  /\ \A l \in loads : l.current => \A items \in l.answer : DOMAIN items \cap settledIds = {}
  /\ reviewer # {} /\ DOMAIN queueState.items \cap settledIds # {} => \E l \in loads : l.current

ReviewTypeOK ==
  /\ queueState.kind \in {"loading", "error", "ready"}
  /\ Cardinality({l \in loads : l.current}) <= 1
  /\ DraftsFit /\ BusyWhileSent /\ ClosedGoes

-------------------------------------------------------------------------------
(* AnalyzePage *)

pageVars == <<analyst, settings, memoRun, pageRuns, pageCursor, opened, compared, asks, ran,
              shared, uneven, asked, formEdits>>
formVars == <<settings, memoRun, formEdits>>
historyVars == <<pageRuns, pageCursor, uneven>>

First(seq) == seq[1]

\* a playbook brings its instructions and sources
WithPlaybook(p, t) == [template |-> t, playbook |-> p.id, instructions |-> p.id, sources |-> p.sources]

\* sourceCategoriesFor
Offered(f) ==
  BaseCategories \cup UNION {p.sources : p \in {p \in ToSet(PagePlaybooks) : p.id = f.playbook}}
                 \cup UNION {t.sources : t \in {t \in ToSet(PageTemplates) : t.id = f.template}}

HistoryOps == {"load", "more", "generate", "rerun"}
HistoryOf(as) == {a \in as : a.op \in HistoryOps}
HistoryAsks == HistoryOf(asks)

\* about: a run or a cursor; chat: the memo goes on to a chat; answer: {} or a page
\* of runs; alone: no other ask for the history was in flight with it
AskNo(n, op, u, about) ==
  [n |-> n, op |-> op, by |-> u, about |-> about, chat |-> FALSE, answer |-> {}, alone |-> TRUE]
Ask(op, u, about) == AskNo(asked + 1, op, u, about)

\* a user's memos older than those in before, newest first
RunsOf(u, before) ==
  SetToSortSeq({i \in DOMAIN ran : ran[i].by = u /\ \A b \in before : i < b}, LAMBDA i, j : i > j)

\* listAnalyzeTemplateRunsByUser with a limit: see AnalyzeRuns
HistoryPage(u, before) ==
  LET rows == RunsOf(u, before)
      page == SubSeq(rows, 1, IF Len(rows) > RunsPerPage THEN RunsPerPage ELSE Len(rows))
  IN [runs |-> page, cursor |-> IF Len(rows) > RunsPerPage THEN {Last(page)} ELSE {}]

PageInit ==
  /\ settings = WithPlaybook(First(PagePlaybooks), First(PageTemplates).id)
  /\ memoRun = {} /\ pageRuns = <<>> /\ pageCursor = {} /\ opened = {} /\ compared = {}
  /\ ran = RunsAtFirst /\ shared = {} /\ uneven = TRUE /\ asked = 1 /\ formEdits = 0
  /\ LET u == CHOOSE u \in Analysts : TRUE IN
       /\ analyst = {u}
       /\ asks = {AskNo(1, "load", u, {})}

\* The effect of the session: a former session's load is aborted, its other asks are not.
AnalystTurns(u) ==
  /\ u # analyst /\ asked < MaxAsks
  /\ analyst' = u
  /\ LET kept == {a \in asks : a.op # "load"} IN
     asks' = kept \cup {[Ask("load", x, {}) EXCEPT !.alone = HistoryOf(kept) = {}] : x \in u}
  /\ asked' = asked + 1
  /\ uneven' = TRUE
  /\ UNCHANGED <<settings, memoRun, pageRuns, pageCursor, opened, compared, ran, shared, formEdits>>

\* the form's handlers: any edit takes the memo off the canvas
EditForm(f) ==
  /\ formEdits < MaxFormEdits /\ f # settings
  /\ settings' = f /\ memoRun' = {} /\ formEdits' = formEdits + 1
  /\ UNCHANGED <<analyst, pageRuns, pageCursor, opened, compared, asks, ran, shared, uneven, asked>>

ChoosePlaybook == \E p \in ToSet(PagePlaybooks) : EditForm(WithPlaybook(p, settings.template))
ChooseTemplate == \E t \in ToSet(PageTemplates) : EditForm([settings EXCEPT !.template = t.id])
Instruct == EditForm([settings EXCEPT !.instructions = "own"])

\* toggleSource
ToggleSource == \E c \in Offered(settings) :
  EditForm([settings EXCEPT !.sources = IF c \in @ THEN @ \ {c} ELSE @ \cup {c}])

-------------------------------------------------------------------------------
\* an ask by the session's user; asks for the history that overlap are not in order
AskFor(a) ==
  /\ asked < MaxAsks
  /\ asks' = {a} \cup {[b EXCEPT !.alone = @ /\ a.op \notin HistoryOps] : b \in asks}
  /\ asked' = asked + 1
  /\ uneven' = (uneven \/ (a.op \in HistoryOps /\ HistoryAsks # {}))
  /\ UNCHANGED <<pageRuns, pageCursor>>

\* generateMemo, alone or for addToChat
Generate(u, chat) ==
  /\ AskFor([Ask("generate", u, {}) EXCEPT !.chat = chat])
  /\ UNCHANGED <<analyst, formVars, opened, compared, ran, shared>>

\* addToChat shares the memo on the canvas, or generates one first
AddToChat(u) ==
  \/ memoRun = {} /\ Generate(u, TRUE)
  \/ /\ \E i \in memoRun : AskFor(Ask("share", u, {i}))
     /\ UNCHANGED <<analyst, formVars, opened, compared, ran, shared>>

\* handleOpenRun
OpenRun(u, i) ==
  /\ IF i \in opened
     THEN memoRun' = {i} /\ UNCHANGED <<asks, asked, historyVars>>
     ELSE AskFor(Ask("open", u, {i})) /\ UNCHANGED memoRun
  /\ UNCHANGED <<analyst, settings, formEdits, opened, compared, ran, shared>>

\* handleRerun; isRerunnableRun enables the button
RerunRun(u, i) ==
  /\ ran[i].rerunnable
  /\ AskFor(Ask("rerun", u, {i}))
  /\ UNCHANGED <<analyst, formVars, opened, compared, ran, shared>>

\* handleLoadMoreRuns
LoadMore(u) ==
  /\ pageCursor # {}
  /\ AskFor(Ask("more", u, pageCursor))
  /\ UNCHANGED <<analyst, formVars, opened, compared, ran, shared>>

\* handleCompareRunChange
CompareWith(i) ==
  /\ compared # {i} /\ compared' = {i}
  /\ IF analyst = {} \/ i \in opened
     THEN UNCHANGED <<asks, asked, historyVars>>
     ELSE \E u \in analyst : AskFor(Ask("compare", u, {i}))
  /\ UNCHANGED <<analyst, formVars, opened, ran, shared>>

-------------------------------------------------------------------------------
NewRun(u) == [by |-> u, rerunnable |-> TRUE]

WithAnswer(a, page) == (asks \ {a}) \cup {[a EXCEPT !.answer = {page}]}
OneRun(i) == [runs |-> <<i>>, cursor |-> {}]
RunIn(a) == {page.runs[1] : page \in a.answer}

\* the services of AnalyzeRuns, for the user of the request
ServeAsk(a) ==
  /\ a.answer = {}
  /\ \/ /\ a.op \in {"load", "more"}
        /\ asks' = WithAnswer(a, HistoryPage(a.by, a.about))
        /\ ran' = ran
     \/ /\ a.op \in {"generate", "rerun"} /\ Len(ran) < MaxRuns
        /\ \A i \in a.about : ran[i].by = a.by
        /\ ran' = Append(ran, NewRun(a.by))
        /\ asks' = WithAnswer(a, OneRun(Len(ran')))
     \/ /\ a.op \in {"open", "compare", "share"}
        /\ \E i \in a.about : ran[i].by = a.by /\ asks' = WithAnswer(a, OneRun(i))
        /\ ran' = ran
  /\ UNCHANGED <<analyst, formVars, historyVars, opened, compared, shared, asked>>

\* not answered, refused or lost: at most the status line tells
AskFails(a) ==
  /\ asks' = asks \ {a}
  /\ uneven' = (uneven \/ a.op = "load" \/ (a.op \in HistoryOps /\ a.answer # {}))
  /\ UNCHANGED <<analyst, formVars, pageRuns, pageCursor, opened, compared, ran, shared, asked>>

\* the playbooks and runs of a session; the form starts over
LoadArrives(a) ==
  /\ a.op = "load"
  /\ \E page \in a.answer : pageRuns' = page.runs /\ pageCursor' = page.cursor
  /\ settings' = WithPlaybook(First(PagePlaybooks), First(PageTemplates).id) /\ memoRun' = {}
  /\ asks' = asks \ {a}
  /\ uneven' = ~a.alone
  /\ UNCHANGED <<analyst, formEdits, opened, compared, ran, shared, asked>>

\* the new run goes to the front of the history, and nowhere else
ToFront(i, runs) == <<i>> \o SelectSeq(runs, LAMBDA j : j # i)

RunArrives(a) ==
  /\ a.op \in {"generate", "rerun"}
  /\ \E i \in RunIn(a) :
       /\ memoRun' = {i} /\ opened' = opened \cup {i} /\ pageRuns' = ToFront(i, pageRuns)
       /\ asks' = (asks \ {a}) \cup (IF a.chat THEN {AskNo(a.n, "share", a.by, {i})} ELSE {})
  /\ UNCHANGED <<analyst, settings, formEdits, pageCursor, uneven, compared, ran, shared, asked>>

MoreArrives(a) ==
  /\ a.op = "more"
  /\ \E page \in a.answer : pageRuns' = pageRuns \o page.runs /\ pageCursor' = page.cursor
  /\ asks' = asks \ {a}
  /\ UNCHANGED <<analyst, formVars, opened, compared, ran, shared, uneven, asked>>

DetailArrives(a) ==
  /\ a.op \in {"open", "compare"} /\ a.answer # {}
  /\ opened' = opened \cup RunIn(a)
  /\ memoRun' = IF a.op = "open" THEN RunIn(a) ELSE memoRun
  /\ asks' = asks \ {a}
  /\ UNCHANGED <<analyst, settings, formEdits, historyVars, compared, ran, shared, asked>>

\* the page navigates to the chat
ShareArrives(a) ==
  /\ a.op = "share" /\ a.answer # {}
  /\ shared' = RunIn(a) /\ asks' = {}
  /\ UNCHANGED <<analyst, formVars, historyVars, opened, compared, ran, asked>>

PageNext ==
  /\ shared = {}
  /\ \/ \E u \in {{}} \cup {{x} : x \in Analysts} : AnalystTurns(u)
     \/ ChoosePlaybook \/ ChooseTemplate \/ Instruct \/ ToggleSource
     \/ \E u \in analyst :
          \/ Generate(u, FALSE) \/ AddToChat(u) \/ LoadMore(u)
          \/ \E i \in ToSet(pageRuns) : OpenRun(u, i) \/ RerunRun(u, i)
     \/ \E i \in ToSet(pageRuns) : CompareWith(i)
     \/ \E a \in asks :
          \/ ServeAsk(a) \/ AskFails(a) \/ LoadArrives(a) \/ RunArrives(a) \/ MoreArrives(a)
          \/ DetailArrives(a) \/ ShareArrives(a)

PageSpec == PageInit /\ [][PageNext]_pageVars

\* Once a session's history has come, and while asks for it neither overlap nor get
\* lost, it is the user's newest memos, none missing and none twice, and without a
\* "Load more" it is all of them (pages/AnalyzePage.tsx:195-246).
HistoryInOrder ==
  shared = {} /\ ~uneven /\ HistoryAsks = {} =>
    \E u \in analyst :
      LET all == RunsOf(u, {}) IN
      /\ pageRuns = SubSeq(all, 1, Len(pageRuns))
      /\ IF pageCursor = {} THEN Len(pageRuns) = Len(all) ELSE pageCursor = {Last(pageRuns)}

PageTypeOK ==
  /\ Cardinality(memoRun) <= 1 /\ Cardinality(compared) <= 1 /\ opened \subseteq DOMAIN ran
  /\ \A f \in {settings} : f.sources \subseteq UNION {Offered([f EXCEPT !.template = t.id]) : t \in ToSet(PageTemplates)}
  /\ HistoryInOrder

-------------------------------------------------------------------------------
\* diffAnalyzeRuns.  A block: the playbook section, id, title and kind it has, and
\* what else it says; missing ones are {}.
BlockTitle(b) == IF b.title # {} THEN b.title ELSE IF b.id # {} THEN b.id ELSE IF b.kind # {} THEN b.kind ELSE {"Untitled"}
BlockDiffKey(b) == IF b.section # {} THEN b.section ELSE IF b.id # {} THEN b.id ELSE BlockTitle(b)

\* isBlockLikeRecord: its id and data_ref are not part of what it says
BlockLike(b) == b.kind # {} /\ (b.title # {} \/ b.section # {})
BlockSignature(b) == <<b.title, b.kind, b.text, IF BlockLike(b) THEN <<>> ELSE <<b.id, b.section>> >>

\* a Map keeps the last block of a key
BlockRow(blocks, key) ==
  LET at == {i \in DOMAIN blocks : BlockDiffKey(blocks[i]) = key} IN
  IF at = {} THEN {} ELSE {blocks[CHOOSE i \in at : \A j \in at : j <= i]}

\* orderedBlockKeys: those of the later run first
OrderedKeys(before, after) ==
  LET keys == [i \in 1..Len(after \o before) |-> BlockDiffKey((after \o before)[i])]
  IN FoldLeft(LAMBDA seen, k : IF k \in ToSet(seen) THEN seen ELSE Append(seen, k), <<>>, keys)

RowStatus(left, right) ==
  IF left = {} THEN "added" ELSE IF right = {} THEN "removed"
  ELSE IF {BlockSignature(b) : b \in left} # {BlockSignature(b) : b \in right} THEN "changed" ELSE "unchanged"

DiffRows(before, after) ==
  LET keys == OrderedKeys(before, after)
  IN [i \in DOMAIN keys |-> [key |-> keys[i], status |-> RowStatus(BlockRow(before, keys[i]), BlockRow(after, keys[i]))]]

\* One row for each key; a run is unchanged against itself; what was added on the way
\* there was removed on the way back (analyze/runHistory.ts:113-133).
ASSUME DiffsAreMirrored ==
  \A before, after \in BoundedSeq(DiffBlocks, 2) :
    LET there == DiffRows(before, after)
        back == DiffRows(after, before)
        Mirror(s) == IF s = "added" THEN "removed" ELSE IF s = "removed" THEN "added" ELSE s
    IN /\ \A i, j \in DOMAIN there : there[i].key = there[j].key => i = j
       /\ {[r EXCEPT !.status = Mirror(@)] : r \in ToSet(there)} = ToSet(back)
       /\ before = after => \A r \in ToSet(there) : r.status = "unchanged"
===============================================================================
