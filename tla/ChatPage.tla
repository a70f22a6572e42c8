------------------------------- MODULE ChatPage -------------------------------
(* The chat page: the list of threads, the form that starts one, and the view of   *)
(* one thread (web/src/pages/ChatPage.tsx) with the requests and event streams it  *)
(* opens and the reducer of their events (web/src/chat/streamReducer.ts), and the   *)
(* threads behind it (services/chat/src/threads-repo.ts, thread-title.ts).          *)
EXTENDS Integers, FiniteSets, Sequences, SequencesExt, FiniteSetsExt

CONSTANTS
  ChatThreads,     \* ids of threads
  ThreadsAtFirst,  \* those that exist
  TurnScripts,     \* the events a turn can send: type, block and its kind
  PageBudgets      \* how many prompts, visits, retries, starts, lists, edits and faults there may be

VARIABLES
  kept,            \* chat_messages of every thread that exists: turn and role
  threadRows,      \* chat_threads: title and archived_at
  recent,          \* their ids, the last updated first
  titleJobs,       \* titles being generated
  threadList,      \* ThreadListState
  creating,        \* the request that starts a thread: {} or one, and those nobody waits for
  viewed,          \* the thread of the route: {} or one
  view,            \* state of ChatThreadView: reload, history, streamError, failedTurn
  rendered,        \* the reducer: turn_status and blocks, in order
  loads,           \* the request of the history, if any
  posts,           \* prompts being saved
  streams,         \* open EventSources
  pageBudget       \* what is left of them

threadVarsOfPage == <<threadRows, recent, titleJobs>>
chatPageVars == <<kept, threadVarsOfPage, threadList, creating, viewed, view, rendered, loads, posts, streams, pageBudget>>

InitialStream == [turn_status |-> "idle", blocks |-> <<>>]
FreshView == [reload |-> 0, history |-> [kind |-> "idle", key |-> <<>>, messages |-> <<>>],
              streamError |-> "none", failedTurn |-> {}]

\* historyRequestKey
KeyOf(t, v) == <<t, v.reload>>
\* visibleHistory
VisibleHistory(t, v) ==
  IF v.history.kind # "idle" /\ v.history.key = KeyOf(t, v) THEN v.history.kind ELSE "loading"

BlockIds(s) == {b.id : b \in Range(s.blocks)}
\* a block of these kinds that is not completed gets a segment, or is completed
OnBlock(s, id, kinds, status) ==
  LET Changed(b) == [b EXCEPT !.status = status, !.segments = IF status = "streaming" THEN @ + 1 ELSE @]
  IN [s EXCEPT !.blocks = [i \in DOMAIN s.blocks |->
       LET b == s.blocks[i]
       IN IF b.id = id /\ b.kind \in kinds /\ b.status # "completed" THEN Changed(b) ELSE b]]

\* applyChatStreamEvent
AppliedEvent(s, turn, e) ==
  LET id == <<turn, e.block>> IN
  CASE e.type = "turn.started" -> [turn_status |-> "started", blocks |-> <<>>]
    [] e.type = "turn.completed" -> [turn_status |-> "completed", blocks |-> <<>>]
    [] e.type = "turn.error" -> [s EXCEPT !.turn_status = "error"]
    [] e.type = "block.began" /\ id \notin BlockIds(s) ->
         [s EXCEPT !.blocks = Append(@, [id |-> id, kind |-> e.kind, status |-> "pending", segments |-> 0])]
    [] e.type = "block.delta" -> OnBlock(s, id, {"rich_text"}, "streaming")
    [] e.type = "block.completed" -> OnBlock(s, id, {b.kind : b \in Range(s.blocks)}, "completed")
    [] OTHER -> s

\* StreamingTurnView: what of a turn in progress is on the page
Displays(s) == s.turn_status \notin {"idle", "completed"}

ChatPageInit ==
  /\ kept = [t \in ThreadsAtFirst |-> <<>>]
  /\ threadRows = [t \in ThreadsAtFirst |-> [title |-> "none", archived |-> FALSE]]
  /\ recent = SetToSeq(ThreadsAtFirst) /\ titleJobs = {}
  /\ threadList = [kind |-> "loading", threads |-> <<>>]
  /\ creating = {} /\ viewed = {}
  /\ view = FreshView /\ rendered = InitialStream
  /\ loads = {} /\ posts = {} /\ streams = {}
  /\ pageBudget \in PageBudgets

\* one less of what is bounded
Costs(what) ==
  /\ pageBudget[what] > 0
  /\ pageBudget' = [pageBudget EXCEPT ![what] = @ - 1]

\* updated_at = now()
Touched(t) == <<t>> \o SelectSeq(recent, LAMBDA x : x # t)
\* listThreads, without the archived
Listed == SelectSeq(recent, LAMBDA t : ~threadRows[t].archived)

LoadOf(t, v) == [key |-> KeyOf(t, v), at |-> "sent", answer |-> <<>>]
\* who is no longer on the page hears of nothing
Unmounted(calls) == {[c EXCEPT !.live = FALSE] : c \in calls}

-------------------------------------------------------------------------------
\* ThreadList asks once
ListThreads(fails) ==
  /\ threadList.kind = "loading"
  /\ threadList' = IF fails THEN [threadList EXCEPT !.kind = "error"]
                   ELSE [kind |-> "ready", threads |-> Listed]
  /\ Costs(IF fails THEN "faults" ELSE "lists")
  /\ UNCHANGED <<kept, threadVarsOfPage, creating, viewed, view, rendered, loads, posts, streams>>

\* a click on the list or a URL. The view is mounted, or goes on with its state
Shows(t, viewNext) ==
  /\ Costs("visits")
  /\ viewed' = {t}
  /\ view' = viewNext
  /\ rendered' = IF viewed = {} THEN InitialStream ELSE rendered
  /\ loads' = {LoadOf(t, viewNext)}

OpenThread(t) ==
  /\ viewed # {t} /\ t \in DOMAIN kept
  /\ Shows(t, IF viewed = {} THEN FreshView ELSE view)
  /\ UNCHANGED <<kept, threadVarsOfPage, threadList, creating, posts, streams>>

LeaveThread ==
  /\ viewed # {}
  /\ viewed' = {} /\ view' = FreshView /\ rendered' = InitialStream /\ loads' = {}
  /\ posts' = Unmounted(posts) /\ streams' = Unmounted(streams)
  /\ UNCHANGED <<kept, threadVarsOfPage, threadList, creating, pageBudget>>

\* startThread of ChatEmptyState
StartThread ==
  /\ viewed = {} /\ creating \subseteq {"late"}
  /\ creating' = creating \cup {"sent"} /\ Costs("starts")
  /\ UNCHANGED <<kept, threadVarsOfPage, threadList, viewed, view, rendered, loads, posts, streams>>

CreateThread(t) ==
  /\ t \notin DOMAIN kept
  /\ \E request \in creating \cap {"sent", "late"} :
       creating' = (creating \ {request}) \cup (IF request = "sent" THEN {t} ELSE {})
  /\ kept' = [x \in DOMAIN kept \cup {t} |-> IF x = t THEN <<>> ELSE kept[x]]
  /\ \E title \in {"none", "typed"} :
       threadRows' = [x \in DOMAIN kept' |-> IF x = t THEN [title |-> title, archived |-> FALSE] ELSE threadRows[x]]
  /\ recent' = Touched(t)
  /\ UNCHANGED <<titleJobs, threadList, viewed, view, rendered, loads, posts, streams, pageBudget>>

\* the form goes to its thread, wherever the user is by now
ThreadStarted(t) ==
  /\ t \in creating
  /\ creating' = creating \ {t}
  /\ Shows(t, IF viewed = {} THEN FreshView ELSE view)
  /\ UNCHANGED <<kept, threadVarsOfPage, threadList, posts, streams>>

\* the form hears of a failure; the service may still start the thread
StartFails ==
  /\ ~(creating \subseteq {"late"})
  /\ creating' = IF creating \cap {"sent", "late"} = {} THEN {} ELSE {"late"}
  /\ Costs("faults")
  /\ UNCHANGED <<kept, threadVarsOfPage, threadList, viewed, view, rendered, loads, posts, streams>>

-------------------------------------------------------------------------------
ServeHistory(l) ==
  /\ l.at = "sent"
  /\ loads' = {[l EXCEPT !.at = "answered", !.answer = kept[l.key[1]]]}
  /\ UNCHANGED <<kept, threadVarsOfPage, threadList, creating, viewed, view, rendered, posts, streams, pageBudget>>

HistoryArrives(l) ==
  /\ l.at = "answered"
  /\ loads' = {}
  /\ view' = [view EXCEPT !.history = [kind |-> "ready", key |-> l.key, messages |-> l.answer]]
  /\ UNCHANGED <<kept, threadVarsOfPage, threadList, creating, viewed, rendered, posts, streams, pageBudget>>

HistoryFails(l) ==
  /\ loads' = {} /\ Costs("faults")
  /\ view' = [view EXCEPT !.history = [kind |-> "error", key |-> l.key, messages |-> <<>>]]
  /\ UNCHANGED <<kept, threadVarsOfPage, threadList, creating, viewed, rendered, posts, streams>>

-------------------------------------------------------------------------------
\* submitPrompt; the form can be sent again meanwhile
SubmitPrompt ==
  /\ Costs("prompts")
  /\ \E t \in viewed :
       posts' = posts \cup {[turn |-> pageBudget.prompts, key |-> KeyOf(t, view), at |-> "sent", live |-> TRUE]}
  /\ UNCHANGED <<kept, threadVarsOfPage, threadList, creating, viewed, view, rendered, loads, streams>>

SaveMessage(p) ==
  /\ p.at \in {"sent", "late"}
  /\ kept' = [kept EXCEPT ![p.key[1]] = Append(@, [turn |-> p.turn, role |-> "user"])]
  /\ recent' = Touched(p.key[1])
  /\ posts' = (posts \ {p}) \cup IF p.at = "sent" THEN {[p EXCEPT !.at = "saved"]} ELSE {}
  /\ UNCHANGED <<threadRows, titleJobs, threadList, creating, viewed, view, rendered, loads, streams, pageBudget>>

\* openChatTurnStream
OpensStream(turn, t, live) ==
  \E script \in TurnScripts :
    streams' = streams \cup {[turn |-> turn, thread |-> t, script |-> script, answered |-> FALSE,
                            dropped |-> FALSE, live |-> live]}

\* the page shows the message under the key its form was rendered with, and the
\* stream is opened on that thread
MessageSaved(p) ==
  /\ p.at = "saved"
  /\ posts' = posts \ {p}
  /\ LET h == view.history
         message == [turn |-> p.turn, role |-> "user"]
         before == IF h.kind = "ready" /\ h.key = p.key THEN h.messages ELSE <<>>
     IN view' = IF ~p.live THEN view
                ELSE [view EXCEPT !.streamError = "none", !.failedTurn = {},
                        !.history = [kind |-> "ready", key |-> p.key,
                                     messages |-> IF message \in Range(before) THEN before ELSE Append(before, message)]]
  /\ OpensStream(p.turn, p.key[1], p.live)
  /\ UNCHANGED <<kept, threadVarsOfPage, threadList, creating, viewed, rendered, loads, pageBudget>>

\* the form hears of a failure; the service may still save the message
SaveFails(p) ==
  /\ p.at # "late" /\ Costs("faults")
  /\ posts' = (posts \ {p}) \cup IF p.at = "sent" THEN {[p EXCEPT !.at = "late"]} ELSE {}
  /\ view' = IF p.live THEN [view EXCEPT !.streamError = "save"] ELSE view
  /\ UNCHANGED <<kept, threadVarsOfPage, threadList, creating, viewed, rendered, loads, streams>>

\* Retry stream: the failed turn, on the thread that is open now
RetryStream ==
  /\ view.streamError # "none" /\ Costs("retries")
  /\ \E turn \in view.failedTurn, t \in viewed : OpensStream(turn, t, TRUE)
  /\ view' = [view EXCEPT !.streamError = "none", !.failedTurn = {}]
  /\ UNCHANGED <<kept, threadVarsOfPage, threadList, creating, viewed, rendered, loads, posts>>

-------------------------------------------------------------------------------
\* the service stores the answer of the turn before it sends it, whoever listens,
\* and has the thread given a title
AnswerDue(s) == ~s.answered /\ Last(s.script).type = "turn.completed"
AnswerStored(s) ==
  /\ AnswerDue(s)
  /\ streams' = (streams \ {s}) \cup IF s.dropped THEN {} ELSE {[s EXCEPT !.answered = TRUE]}
  /\ LET answer == [turn |-> s.turn, role |-> "assistant"]
         again == answer \in Range(kept[s.thread])
     IN /\ kept' = IF again THEN kept ELSE [kept EXCEPT ![s.thread] = Append(@, answer)]
        /\ recent' = IF again THEN recent ELSE Touched(s.thread)
        /\ titleJobs' = IF again \/ threadRows[s.thread].title # "none" THEN titleJobs ELSE titleJobs \cup {s.thread}
  /\ UNCHANGED <<threadRows, threadList, creating, viewed, view, rendered, loads, posts, pageBudget>>

\* unless it got one meanwhile
TitleGenerated(t) ==
  /\ titleJobs' = titleJobs \ {t}
  /\ IF threadRows[t].title = "none"
     THEN threadRows' = [threadRows EXCEPT ![t].title = "generated"] /\ recent' = Touched(t)
     ELSE UNCHANGED <<threadRows, recent>>
  /\ UNCHANGED <<kept, threadList, creating, viewed, view, rendered, loads, posts, streams, pageBudget>>

\* other clients of the service: updateThreadTitle, archiveThread
RenameThread(t, title) ==
  /\ t \in DOMAIN kept /\ Costs("edits")
  /\ threadRows' = [threadRows EXCEPT ![t].title = title] /\ recent' = Touched(t)
  /\ UNCHANGED <<kept, titleJobs, threadList, creating, viewed, view, rendered, loads, posts, streams>>

ArchiveThread(t) ==
  /\ t \in DOMAIN kept /\ Costs("edits")
  /\ threadRows' = [threadRows EXCEPT ![t].archived = TRUE]
  /\ recent' = IF threadRows[t].archived THEN recent ELSE Touched(t)
  /\ UNCHANGED <<kept, titleJobs, threadList, creating, viewed, view, rendered, loads, posts, streams>>

\* onCompleted reads the history again; a stream that has ended or failed is closed
StreamEvent(s) ==
  /\ ~s.dropped
  /\ Head(s.script).type # "turn.started" => ~AnswerDue(s)
  /\ LET e == Head(s.script)
         again == [view EXCEPT !.failedTurn = {}, !.reload = @ + 1]
     IN /\ rendered' = IF s.live THEN AppliedEvent(rendered, s.turn, e) ELSE rendered
        /\ streams' = (streams \ {s}) \cup
             IF e.type \in {"turn.completed", "turn.error"} THEN {} ELSE {[s EXCEPT !.script = Tail(@)]}
        /\ IF s.live /\ e.type = "turn.completed"
           THEN view' = again /\ loads' = {LoadOf(t, again) : t \in viewed}
           ELSE /\ view' = IF s.live /\ e.type = "turn.error"
                           THEN [view EXCEPT !.failedTurn = {s.turn}, !.streamError = "stream"] ELSE view
                /\ UNCHANGED loads
  /\ UNCHANGED <<kept, threadVarsOfPage, threadList, creating, viewed, posts, pageBudget>>

StreamDrops(s) ==
  /\ ~s.dropped /\ Costs("faults")
  /\ streams' = (streams \ {s}) \cup IF AnswerDue(s) THEN {[s EXCEPT !.dropped = TRUE]} ELSE {}
  /\ view' = IF s.live THEN [view EXCEPT !.failedTurn = {s.turn}, !.streamError = "stream"] ELSE view
  /\ UNCHANGED <<kept, threadVarsOfPage, threadList, creating, viewed, rendered, loads, posts>>

ChatPageNext ==
  \/ ListThreads(FALSE) \/ ListThreads(TRUE)
  \/ \E t \in ChatThreads : OpenThread(t) \/ CreateThread(t) \/ ThreadStarted(t)
                             \/ RenameThread(t, "typed") \/ RenameThread(t, "none") \/ ArchiveThread(t)
  \/ \E t \in titleJobs : TitleGenerated(t)
  \/ LeaveThread \/ StartThread \/ StartFails
  \/ \E l \in loads : ServeHistory(l) \/ HistoryArrives(l) \/ HistoryFails(l)
  \/ SubmitPrompt \/ RetryStream
  \/ \E p \in posts : SaveMessage(p) \/ MessageSaved(p) \/ SaveFails(p)
  \/ \E s \in streams : AnswerStored(s) \/ StreamEvent(s) \/ StreamDrops(s)

-------------------------------------------------------------------------------
\* The types, and that the history of a key is a part of what its thread keeps, no
\* message of it twice; that no block is shown twice; that a turn that can be tried
\* again comes with its error; and that an answer follows its question, if in
\* whatever thread it was asked.
ChatPageTypeOK ==
  /\ DOMAIN kept \subseteq ChatThreads /\ Range(threadList.threads) \subseteq DOMAIN kept
  /\ DOMAIN threadRows = DOMAIN kept /\ ToSet(recent) = DOMAIN kept /\ IsInjective(recent)
  /\ Cardinality(loads) <= 1 /\ Cardinality(creating) <= 2 /\ Cardinality(viewed) <= 1
  /\ \A l \in loads : l.key[1] \in viewed /\ l.key[2] = view.reload
  /\ view.failedTurn # {} => view.streamError # "none"
  /\ \A t \in DOMAIN kept : IsInjective(kept[t])
  /\ LET h == view.history IN
     h.kind = "ready" =>
       /\ IsInjective(h.messages)
       /\ h.messages = <<>> \/ Range(h.messages) \subseteq Range(kept[h.key[1]])
  /\ Cardinality(BlockIds(rendered)) = Len(rendered.blocks)
  /\ \A t \in DOMAIN kept : \A m \in Range(kept[t]) :
       \E u \in DOMAIN kept : [m EXCEPT !.role = "user"] \in Range(kept[u])
  /\ rendered.turn_status = "idle" => ~Displays(rendered) /\ rendered.blocks = <<>>

-------------------------------------------------------------------------------
(* The list of a thread's messages (web/src/chat/VirtualizedMessageList.tsx), which  *)
(* renders what is near the viewport (virtualWindow.ts) and follows new messages     *)
(* while the reader is at the bottom (scrollTailing.ts).                             *)

CONSTANTS
  MessageHeights,  \* what the messages measure, in order
  EstimatedHeight, Overscan, Viewport,
  BottomThreshold  \* DEFAULT_AT_BOTTOM_THRESHOLD

VARIABLES
  arrived,         \* how many messages there are
  measured,        \* those that were rendered and measured
  elementTop,      \* scrollTop of the element
  scrollTop,       \* scrollTop as the component last saw it
  wasAtBottom,     \* wasAtBottomRef
  showJump,        \* showJumpButton
  frame            \* whether an animation frame is due

listVars == <<arrived, measured, elementTop, scrollTop, wasAtBottom, showJump, frame>>

HeightsNow(n, m) == [i \in 1..n |-> IF i \in m THEN MessageHeights[i] ELSE EstimatedHeight]
Between(h, a, b) == FoldSeq(+, 0, SubSeq(h, a, b))
TopOf(h, i) == Between(h, 1, i - 1)

\* computeVirtualWindow: the messages to render and the space above and below
VirtualWindow(h, top) ==
  LET n == Len(h)
      below == {i \in 1..n : TopOf(h, i + 1) > top}
      first == IF below = {} THEN n ELSE Min(below)
      last == Max({i \in first..n : i = first \/ TopOf(h, i) < top + Viewport})
      start == Max({1, first - Overscan})
      end == Min({n, last + Overscan})
  IN IF n = 0 THEN [start |-> 1, end |-> 0, paddingTop |-> 0, paddingBottom |-> 0]
     ELSE [start |-> start, end |-> end,
           paddingTop |-> TopOf(h, start), paddingBottom |-> Between(h, end + 1, n)]

Window(n, m) == VirtualWindow(HeightsNow(n, m), scrollTop)

\* how far the element scrolls: the paddings and what the rendered messages really take
ScrollHeight(n, m) ==
  LET w == Window(n, m) IN w.paddingTop + Between(MessageHeights, w.start, w.end) + w.paddingBottom
Lowest(n, m) == Max({0, ScrollHeight(n, m) - Viewport})

\* isAtBottom
IsAtBottom == ScrollHeight(arrived, measured) - elementTop - Viewport <= BottomThreshold

ListInit ==
  /\ arrived = 0 /\ measured = {}
  /\ elementTop = 0 /\ scrollTop = 0
  /\ wasAtBottom = TRUE /\ showJump = FALSE /\ frame = FALSE

\* the element scrolls, which the component hears of at the next frame
Scrolls(y) ==
  /\ elementTop' = y
  /\ frame' = (frame \/ y # elementTop)

\* a longer list is rendered: its last message is another one
MessagesArrive(n) ==
  /\ n > arrived /\ n <= Len(MessageHeights)
  /\ arrived' = n
  /\ IF wasAtBottom THEN Scrolls(Lowest(n, measured)) ELSE UNCHANGED <<elementTop, frame>>
  /\ UNCHANGED <<measured, scrollTop, wasAtBottom, showJump>>

\* handleItemMeasure; the browser keeps the element within what it scrolls
MeasureItem(i) ==
  /\ LET w == Window(arrived, measured) IN i \in (w.start..w.end) \ measured
  /\ measured' = measured \cup {i}
  /\ Scrolls(Min({elementTop, Lowest(arrived, measured \cup {i})}))
  /\ UNCHANGED <<arrived, scrollTop, wasAtBottom, showJump>>

ReaderScrolls(y) ==
  /\ y \in 0..Lowest(arrived, measured) /\ y # elementTop
  /\ Scrolls(y)
  /\ UNCHANGED <<arrived, measured, scrollTop, wasAtBottom, showJump>>

\* handleScroll
ScrollFrame ==
  /\ frame
  /\ frame' = FALSE
  /\ scrollTop' = elementTop /\ wasAtBottom' = IsAtBottom /\ showJump' = ~IsAtBottom
  /\ UNCHANGED <<arrived, measured, elementTop>>

\* JumpToLatestButton
JumpToLatest ==
  /\ showJump
  /\ Scrolls(Lowest(arrived, measured))
  /\ UNCHANGED <<arrived, measured, scrollTop, wasAtBottom, showJump>>

ListNext ==
  \/ \E n \in DOMAIN MessageHeights : MessagesArrive(n) \/ MeasureItem(n)
  \/ \E y \in 0..Between(MessageHeights, 1, Len(MessageHeights)) : ReaderScrolls(y)
  \/ ScrollFrame \/ JumpToLatest

-------------------------------------------------------------------------------
\* The types, and what computeVirtualWindow has to do for every list it meets: the
\* window fills the viewport where the list reaches it, and the paddings and the
\* rendered messages add up to the whole list.
ListTypeOK ==
  /\ arrived \in 0..Len(MessageHeights) /\ measured \subseteq 1..arrived
  /\ showJump = ~wasAtBottom /\ elementTop >= 0
  /\ LET h == HeightsNow(arrived, measured)
         w == Window(arrived, measured)
         total == Between(h, 1, arrived)
         drawn == Between(h, w.start, w.end)
     IN /\ w.paddingTop + drawn + w.paddingBottom = total
        /\ w.paddingTop <= scrollTop
        /\ w.paddingTop + drawn >= Min({scrollTop + Viewport, total})
===============================================================================
