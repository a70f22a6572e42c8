------------------------------ MODULE AnalyzeRuns ------------------------------
(* Research memos: templates (services/analyze/src/template-repo.ts), their runs  *)
(* (template-runner.ts, runMetadata.ts), the requests that make, rerun, page      *)
(* through and share them (services/dev-api/src/http.ts), and the copy of a memo  *)
(* to a chat thread (services/artifact/src/share-to-chat.ts, chat/src/messages.ts)*)
EXTENDS Naturals, FiniteSets, Sequences, SequencesExt

CONSTANTS
  Authors,       \* users
  MemoCalls,     \* requests handled at once
  MemoIds,       \* run ids the database may generate; numbers, for their order
  MemosAtFirst,  \* the memos there are at the start
  PageLimit,     \* limit of a page of the history
  TicksPerMs,    \* instants of the database in a millisecond of a JavaScript Date
  MaxMoment, MaxTemplates, MaxVersion, MaxDrafts

\* run ids are a primary key
ASSUME MemoConstants ==
  /\ MemoIds \subseteq Nat /\ {PageLimit, TicksPerMs, MaxMoment} \subseteq Nat \ {0}
  /\ IsFiniteSet(MemosAtFirst)
  /\ \A m \in MemosAtFirst : m.id \in MemoIds /\ m.at \in Nat
  /\ \A m, n \in MemosAtFirst : m.id = n.id => m = n

VARIABLES
  templates,     \* analyze_templates
  memos,         \* analyze_template_runs
  drafts,        \* the snapshots asked for: of which template and author, sealed or not
  calling,       \* the requests
  browsing,      \* a client going through its history of runs
  moment

memoTables == <<templates, memos, drafts, moment>>
memoVars == <<memoTables, calling, browsing>>

NoMemoCall == [at |-> "idle", op |-> "none", user |-> "none", template |-> 0, version |-> 0,
           of |-> 0, draft |-> 0]
NotBrowsing == [at |-> "idle", user |-> "none", held |-> {}, listed |-> <<>>, cursor |-> {}]

Template(t) == {x \in templates : x.id = t}
Memo(i) == {m \in memos : m.id = i}

\* getAnalyzeTemplateRunForUser: deleted templates are not left out
MemosOf(u) == {m \in memos : \E x \in Template(m.template) : x.user = u}

\* getAnalyzeTemplate
Runnable(t) == {x \in Template(t) : ~x.deleted}

CallDone(c) == calling' = [calling EXCEPT ![c] = NoMemoCall]

AnalyzeInit ==
  /\ templates = {[id |-> 1, user |-> CHOOSE u \in Authors : TRUE, version |-> 1, deleted |-> FALSE]}
  /\ memos = MemosAtFirst
  /\ drafts = [d \in 1..Cardinality(MemosAtFirst) |-> [template |-> 1, sealed |-> TRUE]]
  /\ calling = [c \in MemoCalls |-> NoMemoCall]
  /\ browsing = NotBrowsing /\ moment = MaxMoment - 1

CreateTemplate(u) ==
  /\ Cardinality(templates) < MaxTemplates
  /\ \E t \in 1..MaxTemplates :
       /\ Template(t) = {}
       /\ templates' = templates \cup {[id |-> t, user |-> u, version |-> 1, deleted |-> FALSE]}
  /\ UNCHANGED <<memos, drafts, calling, browsing, moment>>

\* updateAnalyzeTemplate: the version is incremented by the statement itself
UpdateTemplate(x) ==
  /\ ~x.deleted /\ x.version < MaxVersion
  /\ templates' = (templates \ {x}) \cup {[x EXCEPT !.version = @ + 1]}
  /\ UNCHANGED <<memos, drafts, calling, browsing, moment>>

DeleteTemplate(x) ==
  /\ ~x.deleted
  /\ templates' = (templates \ {x}) \cup {[x EXCEPT !.deleted = TRUE]}
  /\ UNCHANGED <<memos, drafts, calling, browsing, moment>>

\* delete from users cascades to templates and threads, and is refused while a memo
\* refers to one of the templates
EraseAuthor(u) ==
  /\ MemosOf(u) = {}
  /\ templates' = {x \in templates : x.user # u}
  /\ UNCHANGED <<memos, drafts, calling, browsing, moment>>

-------------------------------------------------------------------------------
\* createRun reads the template of the request. Refused and left without a trace are a
\* request without a user, without a body or with a playbook or a source category that
\* is not known, and one for a template that is deleted or somebody else's.
AskMemo(c, u) ==
  /\ calling[c].at = "idle" /\ Len(drafts) < MaxDrafts
  /\ \E t \in 1..MaxTemplates : \E x \in Runnable(t) :
       /\ x.user = u
       /\ drafts' = Append(drafts, [template |-> t, sealed |-> FALSE])
       /\ calling' = [calling EXCEPT ![c] = [NoMemoCall EXCEPT !.at = "render", !.op = "run",
            !.template = t, !.version = x.version, !.draft = Len(drafts) + 1]]
  /\ UNCHANGED <<templates, memos, browsing, moment>>

\* parseAnalyzeRunMetadata accepts what serializeAnalyzeRunMetadataV1 wrote, and not
\* the {} of runs older than the column
Parses(m) == m.metadata = "v1"

\* the templates rerun accepts for a run; it refuses the run with 409 if there is none
RerunWith(m, u) == {x \in Runnable(m.template) : Parses(m) /\ x.user = u}

AskRerun(c, u) ==
  /\ calling[c].at = "idle" /\ Len(drafts) < MaxDrafts
  /\ \E m \in MemosOf(u) : \E x \in RerunWith(m, u) :
       /\ drafts' = Append(drafts, [template |-> x.id, sealed |-> FALSE])
       /\ calling' = [calling EXCEPT ![c] = [NoMemoCall EXCEPT !.at = "render", !.op = "rerun",
            !.of = m.id, !.template = x.id, !.version = x.version, !.draft = Len(drafts) + 1]]
  /\ UNCHANGED <<templates, memos, browsing, moment>>

\* runAnalyzeWorkflow
RenderMemo(c) ==
  /\ calling[c].at = "render"
  /\ \/ calling' = [calling EXCEPT ![c].at = "seal"]
     \/ CallDone(c)
  /\ UNCHANGED <<memoTables, browsing>>

MemoSealRefused(c) == CallDone(c)

\* the seal callback runs before a client is taken for the run; it refuses a
\* snapshot that was sealed under another id
SealMemo(c) ==
  /\ calling[c].at = "seal"
  /\ \/ /\ drafts' = [drafts EXCEPT ![calling[c].draft].sealed = TRUE]
        /\ calling' = [calling EXCEPT ![c].at = "insert"]
     \/ MemoSealRefused(c) /\ UNCHANGED drafts
  /\ UNCHANGED <<templates, memos, browsing, moment>>

\* persistSealedAnalyzeTemplateRun: one insert in a transaction; the row of a template
\* that was deleted meanwhile still satisfies its foreign key
InsertMemo(c) ==
  /\ calling[c].at = "insert"
  /\ \/ /\ Template(calling[c].template) # {}
        /\ \E i \in MemoIds :
             /\ Memo(i) = {}
             /\ memos' = memos \cup {[id |-> i, template |-> calling[c].template,
                  version |-> calling[c].version, metadata |-> "v1", of |-> calling[c].of,
                  snapshot |-> calling[c].draft, at |-> moment]}
        /\ CallDone(c)
     \/ CallDone(c) /\ UNCHANGED memos
  /\ UNCHANGED <<templates, drafts, browsing, moment>>

-------------------------------------------------------------------------------
\* shareArtifactToChat refuses a block of another snapshot, and facts that may not be
\* exported; enrichAnalyzeRunBlocks leaves the blocks' snapshots alone
AskShare(c, u) ==
  /\ calling[c].at = "idle"
  /\ \E m \in MemosOf(u) :
       calling' = [calling EXCEPT ![c] = [NoMemoCall EXCEPT !.at = "post", !.op = "share",
                     !.user = u, !.of = m.id, !.draft = m.snapshot]]
  /\ UNCHANGED <<memoTables, browsing>>

\* persistImportedArtifactMessage numbers the parameters of its insert $1 and $3 to $6
\* and sends six values: the database cannot give $2 a type and refuses the statement,
\* the transaction with the thread is rolled back and the request answered 500
PostShare(c) ==
  /\ calling[c].at = "post"
  /\ CallDone(c)
  /\ UNCHANGED <<memoTables, browsing>>

-------------------------------------------------------------------------------
\* rowFromDb, summaryRowFromDb: created_at leaves the database as a Date
AsDate(at) == at - (at % TicksPerMs)

OlderThan(a, b) == a[1] < b[1] \/ (a[1] = b[1] /\ a[2] < b[2])
NewestFirst(m, n) == OlderThan(<<n.at, n.id>>, <<m.at, m.id>>)

\* order by created_at desc, run_id desc: a row comes after those that are newer
InOrder(rows) ==
  [n \in 1..Cardinality(rows) |->
     CHOOSE m \in rows : Cardinality({x \in rows : NewestFirst(x, m)}) = n - 1]

\* listAnalyzeTemplateRunsByUser; cursor is a set of at most one
PageRows(u, cursor) ==
  InOrder({m \in MemosOf(u) : \A x \in cursor : OlderThan(<<m.at, m.id>>, x)})

CursorOf(m) == <<AsDate(m.at), m.id>>

\* a bug: the row fetched to see whether there are more is the next page's cursor
NextCursorOfProbe(rows) ==
  IF Len(rows) > PageLimit THEN {CursorOf(rows[PageLimit + 1])} ELSE {}
NextCursor(rows) == IF Len(rows) > PageLimit THEN {CursorOf(rows[PageLimit])} ELSE {}

ReadPage(b, cursor) ==
  LET rows == PageRows(b.user, cursor)
      page == SubSeq(rows, 1, IF Len(rows) > PageLimit THEN PageLimit ELSE Len(rows))
  IN /\ browsing' = [b EXCEPT !.at = IF NextCursor(rows) = {} THEN "done" ELSE "open",
                              !.listed = @ \o page,
                              !.cursor = NextCursor(rows)]
     /\ UNCHANGED <<memoTables, calling>>

OpenHistory(u) ==
  /\ browsing.at # "open"
  /\ ReadPage([NotBrowsing EXCEPT !.user = u, !.held = MemosOf(u)], {})

MoreHistory == browsing.at = "open" /\ ReadPage(browsing, browsing.cursor)

MemoTime ==
  /\ moment < MaxMoment /\ moment' = moment + 1
  /\ UNCHANGED <<templates, memos, drafts, calling, browsing>>

AnalyzeNext ==
  \/ \E u \in Authors : CreateTemplate(u) \/ EraseAuthor(u) \/ OpenHistory(u)
  \/ \E x \in templates : UpdateTemplate(x) \/ DeleteTemplate(x)
  \/ \E c \in MemoCalls, u \in Authors : AskMemo(c, u) \/ AskRerun(c, u) \/ AskShare(c, u)
  \/ \E c \in MemoCalls : RenderMemo(c) \/ SealMemo(c) \/ InsertMemo(c) \/ PostShare(c)
  \/ MoreHistory \/ MemoTime

AnalyzeSpec == AnalyzeInit /\ [][AnalyzeNext]_memoVars

AnalyzeTypeOK ==
  /\ templates \subseteq [id : 1..MaxTemplates, user : Authors, version : 1..MaxVersion,
                          deleted : BOOLEAN]
  /\ \A m \in memos : m.id \in MemoIds /\ m.snapshot \in DOMAIN drafts /\ m.at \in 0..MaxMoment
  /\ Cardinality({m.id : m \in memos}) = Cardinality(memos)
  /\ \A c \in MemoCalls : calling[c].draft \in 0..MaxDrafts

\* A client that follows the cursors to the end has been shown its runs newest first,
\* none twice, and every run there was when it began, except what the rounding of the
\* cursor to milliseconds hides: runs of the millisecond of a page's last row.
HistoryComplete ==
  LET shown == browsing.listed
      lasts == {k \in 1..Len(shown) : k % PageLimit = 0}
  IN /\ \A i, j \in 1..Len(shown) : i < j => NewestFirst(shown[i], shown[j])
     /\ browsing.at = "done" => \A m \in browsing.held :
          m \in ToSet(shown) \/ \E k \in lasts : AsDate(shown[k].at) = AsDate(m.at)

===============================================================================
