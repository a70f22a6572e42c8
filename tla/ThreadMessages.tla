---------------------------- MODULE ThreadMessages ----------------------------
(* The stored messages of one chat thread (services/chat/src/messages.ts,    *)
(* local-runtime.ts, services/snapshot/src/snapshot-sealer.ts).  A user's    *)
(* post is written with a snapshot of its own in one transaction, under ids  *)
(* that the client chose so that it may send the post again.  An answer is   *)
(* written in three steps, each its own commit: the tool call's log, the     *)
(* sealed snapshot, the message.  All ids of an answer are derived from the  *)
(* turn, so an attempt that repeats a turn (after a restart, or after the    *)
(* coordinator has forgotten it) meets what the earlier one has left.        *)
EXTENDS Integers, FiniteSets

CONSTANTS Turns,        \* turns of the thread
          Posts,        \* message ids of the user's posts
          Sends,        \* requests that store a post
          Contents,     \* what a post may say
          MaxAttempts,  \* bound: attempts at a turn
          MaxNow        \* bound: ticks of the service's clock

ASSUME ThreadConstants ==
  /\ MaxAttempts \in Nat \ {0} /\ MaxNow \in Nat
  /\ Turns \cap Posts = {}

VARIABLES turn,       \* the attempt at each turn and where it is
          send,       \* the requests
          toolLog,    \* table tool_call_logs: the attempt whose result is logged
          pinned,     \* table snapshots: the logged result a turn's manifest names
          posted,     \* table snapshots: the snapshots of posts
          messages,   \* table chat_messages
          latest,     \* chat_threads.latest_snapshot_id, as a set
          now         \* the service's clock, in milliseconds

threadVars == <<turn, send, toolLog, pinned, posted, messages, latest, now>>

Snapshots == {k \in Turns : pinned[k] > 0} \cup posted

ThreadInit ==
  /\ turn = [k \in Turns |-> [at |-> "idle", attempt |-> 0]]
  /\ send = [s \in Sends |-> [at |-> "new"]]
  /\ toolLog = [k \in Turns |-> 0]
  /\ pinned = [k \in Turns |-> 0]
  /\ posted = {} /\ messages = {} /\ latest = {}
  /\ now = 0

-------------------------------------------------------------------------------
(* An answer.  The coordinator runs one turn of a thread at a time.          *)

RunTurn(k) ==
  /\ \A j \in Turns : turn[j].at = "idle"
  /\ turn[k].attempt < MaxAttempts
  /\ turn' = [turn EXCEPT ![k].at = "tool", ![k].attempt = @ + 1]
  /\ UNCHANGED <<send, toolLog, pinned, posted, messages, latest, now>>

\* writeLocalToolCallLogs: an upsert
LogTool(k) ==
  /\ turn[k].at = "tool"
  /\ toolLog' = [toolLog EXCEPT ![k] = turn[k].attempt]
  /\ turn' = [turn EXCEPT ![k].at = "seal"]
  /\ UNCHANGED <<send, pinned, posted, messages, latest, now>>

\* manifestFromBlockRefs reads the logged hash, which the seal audits again
ManifestHash(k) == toolLog[k]

\* a bug: the snapshot's insert does nothing when the id exists, like a post's
SealAnswerOverlooked(k) ==
  /\ turn[k].at = "seal"
  /\ pinned' = [pinned EXCEPT ![k] = IF @ = 0 THEN ManifestHash(k) ELSE @]
  /\ turn' = [turn EXCEPT ![k].at = "insert"]
  /\ UNCHANGED <<send, toolLog, posted, messages, latest, now>>

\* sealSnapshot inserts under the turn's id; an id that exists makes it throw
SealAnswer(k) ==
  /\ turn[k].at = "seal" /\ pinned[k] = 0
  /\ pinned' = [pinned EXCEPT ![k] = ManifestHash(k)]
  /\ turn' = [turn EXCEPT ![k].at = "insert"]
  /\ UNCHANGED <<send, toolLog, posted, messages, latest, now>>

\* persistSealedChatMessage
CommitAnswer(k) ==
  /\ turn[k].at = "insert"
  /\ messages' = messages \cup {[of |-> k, content |-> turn[k].attempt, asOf |-> 0]}
  /\ latest' = {k}
  /\ turn' = [turn EXCEPT ![k].at = "idle"]
  /\ UNCHANGED <<send, toolLog, pinned, posted, now>>

\* a statement of the attempt throws (the insert of a snapshot that exists among
\* them), its answer is lost, or the process ends
FailTurn(k) ==
  /\ turn[k].at # "idle"
  /\ turn' = [turn EXCEPT ![k].at = "idle"]
  /\ UNCHANGED <<send, toolLog, pinned, posted, messages, latest, now>>

-------------------------------------------------------------------------------
(* A post                                                                    *)

\* persistUserChatMessage: the time of the request becomes part of the blocks
BeginPost(s, p, content) ==
  /\ send[s].at = "new"
  /\ send' = [send EXCEPT ![s] = [at |-> "begun", post |-> p, content |-> content,
                                  asOf |-> now]]
  /\ UNCHANGED <<turn, toolLog, pinned, posted, messages, latest, now>>

Stored(p) == {m \in messages : m.of = p}

SameBlocks(m, q) == m.content = q.content /\ m.asOf = q.asOf

RowOf(q) == [of |-> q.post, content |-> q.content, asOf |-> q.asOf]

Answered(s, what, row) ==
  send' = [send EXCEPT ![s] = [at |-> "done", post |-> @.post, content |-> @.content,
                               answer |-> what, row |-> row]]

Conflict(q) == \E m \in Stored(q.post) : ~SameBlocks(m, q)

\* the first request to store the id
CommitPost(s) ==
  LET q == send[s]
  IN /\ q.at = "begun" /\ Stored(q.post) = {}
     /\ posted' = posted \cup {q.post}
     /\ messages' = messages \cup {RowOf(q)}
     /\ latest' = {q.post}
     /\ Answered(s, "ok", {RowOf(q)})
     /\ UNCHANGED <<turn, toolLog, pinned, now>>

\* the id exists with equal blocks: the stored row is returned
RepeatPost(s) ==
  LET q == send[s]
  IN /\ q.at = "begun" /\ Stored(q.post) # {} /\ ~Conflict(q)
     /\ latest' = {q.post}
     /\ Answered(s, "ok", Stored(q.post))
     /\ UNCHANGED <<turn, toolLog, pinned, posted, messages, now>>

\* ChatMessageIdempotencyConflictError, answered 409
RefusePost(s) ==
  /\ send[s].at = "begun" /\ Conflict(send[s])
  /\ Answered(s, "conflict", {})
  /\ UNCHANGED <<turn, toolLog, pinned, posted, messages, latest, now>>

\* the request or its process ends before the commit; a commit whose answer is
\* lost is CommitPost with an answer the client does not read
FailPost(s) ==
  /\ send[s].at = "begun"
  /\ Answered(s, "error", {})
  /\ UNCHANGED <<turn, toolLog, pinned, posted, messages, latest, now>>

Tick ==
  /\ now < MaxNow
  /\ now' = now + 1
  /\ UNCHANGED <<turn, send, toolLog, pinned, posted, messages, latest>>

ThreadNext ==
  \/ \E k \in Turns : \/ RunTurn(k) \/ LogTool(k) \/ SealAnswer(k) \/ CommitAnswer(k)
                      \/ FailTurn(k)
  \/ \E s \in Sends : \/ \E p \in Posts, c \in Contents : BeginPost(s, p, c)
                      \/ CommitPost(s) \/ RepeatPost(s) \/ RefusePost(s) \/ FailPost(s)
  \/ Tick

ThreadSpec == ThreadInit /\ [][ThreadNext]_threadVars

-------------------------------------------------------------------------------
\* The tables' types, and their foreign keys: a message and the thread's latest
\* snapshot name snapshots that exist.
ThreadTypeOK ==
  /\ \A k \in Turns : turn[k].at \in {"idle", "tool", "seal", "insert"}
  /\ toolLog \in [Turns -> 0..MaxAttempts]
  /\ pinned \in [Turns -> 0..MaxAttempts]
  /\ posted \subseteq Posts
  /\ {m.of : m \in messages} \cup latest \subseteq Snapshots

\* Over all attempts at a turn at most one answer is stored, and its snapshot pins
\* the tool result that the answer was written from (the primary key of snapshots
\* under ids derived from the turn).
AnsweredFromItsSeal ==
  \A k \in Turns : \A m \in Stored(k) :
    m.content = pinned[k] /\ Stored(k) = {m}

===============================================================================
