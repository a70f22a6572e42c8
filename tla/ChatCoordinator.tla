-------------------------- MODULE ChatCoordinator --------------------------
(***************************************************************************)
(* The in-process chat session coordinator                                 *)
(* (services/chat/src/coordinator.ts): it gives each turn a handle, runs   *)
(* the turns of one thread one after the other by chaining promises, keeps *)
(* the event log of a turn for replay, and forgets completed turns in two  *)
(* stages, first the handle and later the tombstone that refuses a replay. *)
(*                                                                         *)
(* Handles are numbered in the order in which they are created, which is   *)
(* also the insertion order of the code's `turns' map.  A macrotask of the *)
(* event loop with the microtasks it drains is one action; each await of   *)
(* an external call ends an action.                                        *)
(***************************************************************************)
EXTENDS Integers, Sequences, FiniteSets

CONSTANTS
    Keys,                \* turn identities: user, thread, run and turn id
    Threads,             \* chat threads
    ThreadOf,            \* the thread a turn identity belongs to
    Runners,             \* the base runners the process may be configured with
    TurnRetention,       \* completedTurnRetentionMs
    MaxCompletedTurns,   \* maxCompletedTurns
    TombstoneRetention,  \* completedTurnTombstoneRetentionMs
    MaxTombstones,       \* maxCompletedTurnTombstones
    MaxHandles,          \* bound: turns created in one behaviour
    MaxTime              \* bound: the last value of the clock

ASSUME ThreadsAssumption == Keys # {} /\ ThreadOf \in [Keys -> Threads]
ASSUME RunnersAssumption == Runners \subseteq {"tool_backed", "synthetic", "missing"}
ASSUME BoundsAssumption ==
    /\ TurnRetention \in Nat /\ MaxCompletedTurns \in Nat
    /\ TombstoneRetention \in Nat /\ MaxTombstones \in Nat
    /\ MaxHandles \in Nat /\ MaxTime \in Nat

VARIABLES
    clock,         \* Date.now()
    runner,        \* the base runner createChatCoordinator picked
    created,       \* how many handles exist
    turns,         \* the handle a key is mapped to, or NoHandle
    tombstones,    \* when a key was tombstoned, or Never
    threadQueues,  \* the handle at the tail of a thread's promise chain
    input,         \* a handle's key and whether it carries a subject text
    previous,      \* the handle whose promise a handle is chained on
    phase,         \* where the run of a handle stands
    completedAt,   \* record.completedAt, or Never
    events,        \* the types of the events a handle has appended
    activity,      \* the closing run-activity stages reported for a handle
    stored         \* whether the assistant message of a handle is durable

vars == <<clock, runner, created, turns, tombstones, threadQueues, input,
          previous, phase, completedAt, events, activity, stored>>

Handles == 1 .. MaxHandles
NoHandle == 0
Never == -1

(* The phases in which a run is suspended on an external call. *)
Awaiting == {"resolving", "rendering", "clarifying", "calling", "persisting"}
Phases == {"unused", "queued", "settled"} \cup Awaiting

EventTypes == {"turn.started", "tool.started", "tool.completed", "snapshot.staged",
               "snapshot.sealed", "block.began", "block.delta", "block.completed",
               "turn.completed", "turn.error"}
ClosingStages == {"found", "dismissed"}

Inputs == [key : Keys, subject : BOOLEAN]
Thread(h) == ThreadOf[input[h].key]
Live(h) == phase[h] \in {"queued"} \cup Awaiting

(***************************************************************************)
(* Events.  `emit' fabricates an empty turn.started in front of the first  *)
(* event when the runner has not emitted one.                              *)
(***************************************************************************)
Appended(log, new) ==
    IF log = <<>> /\ Head(new) # "turn.started"
    THEN <<"turn.started">> \o new ELSE log \o new

ToolEvents == <<"tool.started", "tool.completed">>
Answer == <<"snapshot.staged", "snapshot.sealed", "block.began", "block.delta",
            "block.completed", "turn.completed">>

(* The closing stage the run-activity wrapper reports for what the runner  *)
(* emits; the stages of a run in progress are left out.                    *)
Reported(new) ==
    IF \E i \in DOMAIN new : new[i] = "turn.completed" THEN <<"found">>
    ELSE IF \E i \in DOMAIN new : new[i] = "turn.error" THEN <<"dismissed">> ELSE <<>>

(***************************************************************************)
(* Retention.  What remains of S, the entries stamped at[x]: those not     *)
(* older than the cutoff, and of these the newest `limit'.  Entries of one *)
(* age may go in any order (the code takes them in insertion order).       *)
(***************************************************************************)
Remaining(S, at, cutoff, limit) ==
    LET fresh == {x \in S : at[x] >= cutoff}
    IN  {kept \in SUBSET fresh :
            /\ Cardinality(kept) = IF Cardinality(fresh) <= limit
                                   THEN Cardinality(fresh) ELSE limit
            /\ \A x \in kept, y \in fresh \ kept : at[y] <= at[x]}

AllRetained(done) == {k \in Keys : turns[k] # NoHandle}  \* a bug: live turns too
Completed(done) == {k \in Keys : turns[k] # NoHandle /\ done[turns[k]] # Never}

BuriedOnCompletion(done, k) == done[turns[k]]  \* a bug: stamped with the completion
BuriedAt(done, k) == clock                     \* rememberEvictedCompletedTurn

(* The maps when of the completed turns only `retained' stay: the others   *)
(* are tombstoned, and the tombstones are pruned in turn.                  *)
Outcomes(done, retained) ==
    LET evicted == Completed(done) \ retained
        known == evicted \cup {k \in Keys : tombstones[k] # Never}
        buriedAt == [k \in known |-> IF k \in evicted THEN BuriedAt(done, k)
                                     ELSE tombstones[k]]
    IN  {[turns |-> [k \in Keys |-> IF k \in evicted THEN NoHandle ELSE turns[k]],
          tombstones |-> [k \in Keys |-> IF k \in kept THEN buriedAt[k] ELSE Never]] :
            kept \in Remaining(known, buriedAt, clock - TombstoneRetention, MaxTombstones)}

(* What pruneCompletedTurns may make of the two maps; `done' is completedAt. *)
Prunings(done) ==
    LET completed == Completed(done)
        doneAt == [k \in completed |-> done[turns[k]]]
    IN  UNION {Outcomes(done, retained) :
                 retained \in Remaining(completed, doneAt, clock - TurnRetention,
                                        MaxCompletedTurns)}

Init ==
    /\ clock = 0
    /\ runner \in Runners
    /\ created = 0
    /\ turns = [k \in Keys |-> NoHandle]
    /\ tombstones = [k \in Keys |-> Never]
    /\ threadQueues = [t \in Threads |-> NoHandle]
    /\ input = [h \in Handles |-> [key |-> CHOOSE k \in Keys : TRUE, subject |-> FALSE]]
    /\ previous = [h \in Handles |-> NoHandle]
    /\ phase = [h \in Handles |-> "unused"]
    /\ completedAt = [h \in Handles |-> Never]
    /\ events = [h \in Handles |-> <<>>]
    /\ activity = [h \in Handles |-> <<>>]
    /\ stored = [h \in Handles |-> FALSE]

handleVars == <<input, previous, phase, completedAt, events, activity, stored>>

(***************************************************************************)
(* The coordinator's operations.                                           *)
(***************************************************************************)
(* getTurn and stats: they prune and return what they find. *)
Lookup ==
    /\ \E p \in Prunings(completedAt) : turns' = p.turns /\ tombstones' = p.tombstones
    /\ UNCHANGED <<clock, runner, created, threadQueues, handleVars>>

(* getOrCreateTurn for a key the coordinator remembers: the handle is      *)
(* returned, or the call throws (tombstoned key, other subject text).      *)
RejoinTurn(k) ==
    /\ \E p \in Prunings(completedAt) :
        /\ p.tombstones[k] # Never \/ p.turns[k] # NoHandle
        /\ turns' = p.turns
        /\ tombstones' = p.tombstones
    /\ UNCHANGED <<clock, runner, created, threadQueues, handleVars>>

(* getOrCreateTurn for an unknown key: a new handle is registered and      *)
(* chained behind the tail of its thread's queue.                          *)
CreateTurn(k, subject) ==
    LET h == created + 1
        t == ThreadOf[k]
    IN  /\ created < MaxHandles
        /\ \E p \in Prunings(completedAt) :
            /\ p.tombstones[k] = Never /\ p.turns[k] = NoHandle
            /\ turns' = [p.turns EXCEPT ![k] = h]
            /\ tombstones' = p.tombstones
        /\ created' = h
        /\ input' = [input EXCEPT ![h] = [key |-> k, subject |-> subject]]
        /\ previous' = [previous EXCEPT ![h] = threadQueues[t]]
        /\ threadQueues' = [threadQueues EXCEPT ![t] = h]
        /\ phase' = [phase EXCEPT ![h] = "queued"]
        /\ UNCHANGED <<clock, runner, completedAt, events, activity, stored>>

(***************************************************************************)
(* The run of a handle.                                                    *)
(***************************************************************************)
(* The runner emits `new' and suspends in phase p. *)
Suspend(h, p, new) ==
    /\ phase' = [phase EXCEPT ![h] = p]
    /\ events' = IF new = <<>> THEN events
                 ELSE [events EXCEPT ![h] = Appended(@, new)]
    /\ activity' = [activity EXCEPT ![h] = @ \o Reported(new)]
    /\ UNCHANGED <<clock, runner, created, turns, tombstones, threadQueues, input,
                   previous, completedAt>>

DequeueAlways(h) ==  \* a bug: the entry of a later turn is removed as well
    threadQueues' = [threadQueues EXCEPT ![Thread(h)] = NoHandle]

Dequeue(h) ==
    threadQueues' = IF threadQueues[Thread(h)] = h
                    THEN [threadQueues EXCEPT ![Thread(h)] = NoHandle]
                    ELSE threadQueues

(* The runner is done: `finally', the completion callback, and the removal *)
(* of the queue entry when no later turn was chained behind this one.      *)
Settle(h) ==
    /\ phase' = [phase EXCEPT ![h] = "settled"]
    /\ completedAt' = [completedAt EXCEPT ![h] = clock]
    /\ \E p \in Prunings(completedAt') : turns' = p.turns /\ tombstones' = p.tombstones
    /\ Dequeue(h)
    /\ UNCHANGED <<clock, runner, created, input, previous>>

(* The runner emits `new' and returns. *)
Return(h, new) ==
    /\ events' = [events EXCEPT ![h] = Appended(@, new)]
    /\ activity' = [activity EXCEPT ![h] = @ \o Reported(new)]
    /\ Settle(h)

(* The runner throws: the wrapper reports, run() itself emits turn.error. *)
Throw(h) ==
    /\ activity' = [activity EXCEPT ![h] = Append(@, "dismissed")]
    /\ events' = [events EXCEPT ![h] = Appended(@, <<"turn.error">>)]
    /\ Settle(h)

(* The base runner, entered with `new' already emitted in this step. *)
EnterRunner(h, new) ==
    \/ runner = "tool_backed" /\ Suspend(h, "calling", new)
    \/ runner = "synthetic" /\ Suspend(h, "persisting",
                                  IF input[h].subject THEN new ELSE new \o ToolEvents)
    \/ runner = "missing" /\ Return(h, new \o <<"turn.error">>)

(* A bug: without the `catch' a failed turn takes its successors along. *)
PredecessorSucceeded(h) ==
    previous[h] # NoHandle =>
        /\ phase[previous[h]] = "settled"
        /\ \A i \in DOMAIN events[previous[h]] : events[previous[h]][i] # "turn.error"

PredecessorSettled(h) ==
    previous[h] # NoHandle => phase[previous[h]] = "settled"

(* A turn starts once the promise it was chained on has settled. *)
Start(h) ==
    /\ phase[h] = "queued"
    /\ PredecessorSettled(h)
    /\ \/ input[h].subject /\ Suspend(h, "resolving", <<>>)
       \/ ~input[h].subject /\ EnterRunner(h, <<"turn.started">>)
    /\ UNCHANGED stored

SubjectResolved(h) ==
    /\ phase[h] = "resolving"
    /\ EnterRunner(h, <<"turn.started">> \o ToolEvents)
    /\ UNCHANGED stored

SubjectUnresolved(h) ==
    /\ phase[h] = "resolving"
    /\ Suspend(h, "rendering", <<"turn.started">> \o ToolEvents)
    /\ UNCHANGED stored

ClarificationRendered(h) ==
    /\ phase[h] = "rendering"
    /\ Suspend(h, "clarifying", <<>>)
    /\ UNCHANGED stored

RuntimeStreamedEarly(h) ==  \* a bug: the snapshot events precede persistence
    /\ phase[h] = "calling"
    /\ Suspend(h, "persisting", <<"snapshot.staged", "snapshot.sealed">>)
    /\ UNCHANGED stored

(* The runtime answers with zero or one tool call and its verification. *)
RuntimeVerified(h) ==
    /\ phase[h] = "calling"
    /\ \E calls \in {<<>>, ToolEvents} : Suspend(h, "persisting", calls)
    /\ UNCHANGED stored

RuntimeUnverified(h) ==
    /\ phase[h] = "calling"
    /\ \E calls \in {<<>>, ToolEvents} :
         Return(h, calls \o <<"snapshot.staged", "turn.error">>)
    /\ UNCHANGED stored

(* persistAssistantMessage resolves: the answer is streamed. *)
Persisted(h) ==
    /\ phase[h] \in {"clarifying", "persisting"}
    /\ stored' = [stored EXCEPT ![h] = TRUE]
    /\ Return(h, Answer)

(* An awaited call rejects; a persistence call may reject although the     *)
(* message was committed (the acknowledgement is lost).                    *)
AwaitRejected(h) ==
    /\ phase[h] \in Awaiting
    /\ \/ stored' = stored
       \/ /\ phase[h] \in {"clarifying", "persisting"}
          /\ stored' = [stored EXCEPT ![h] = TRUE]
    /\ Throw(h)

Tick ==
    /\ clock < MaxTime
    /\ clock' = clock + 1
    /\ UNCHANGED <<runner, created, turns, tombstones, threadQueues, handleVars>>

Progress(h) ==
    \/ Start(h) \/ SubjectResolved(h) \/ SubjectUnresolved(h)
    \/ ClarificationRendered(h) \/ RuntimeVerified(h) \/ RuntimeUnverified(h)
    \/ Persisted(h) \/ AwaitRejected(h)

Next ==
    \/ Tick \/ Lookup
    \/ \E k \in Keys : RejoinTurn(k)
    \/ \E k \in Keys, subject \in BOOLEAN : CreateTurn(k, subject)
    \/ \E h \in Handles : Progress(h)

Spec == Init /\ [][Next]_vars

(* The event loop runs every ready continuation, and every awaited call    *)
(* settles, by returning or by throwing.                                   *)
FairSpec == Spec /\ \A h \in Handles : WF_vars(Progress(h))

(***************************************************************************)
(* Properties.                                                             *)
(***************************************************************************)
(* The values the coordinator's state ranges over. *)
TypeOK ==
    /\ clock \in 0 .. MaxTime
    /\ runner \in Runners
    /\ created \in 0 .. MaxHandles
    /\ turns \in [Keys -> 0 .. MaxHandles]
    /\ tombstones \in [Keys -> -1 .. MaxTime]
    /\ threadQueues \in [Threads -> 0 .. MaxHandles]
    /\ input \in [Handles -> Inputs]
    /\ previous \in [Handles -> 0 .. MaxHandles]
    /\ phase \in [Handles -> Phases]
    /\ completedAt \in [Handles -> -1 .. MaxTime]
    /\ events \in [Handles -> Seq(EventTypes)]
    /\ activity \in [Handles -> Seq(ClosingStages)]
    /\ stored \in [Handles -> BOOLEAN]

(* Turns of one thread run one after the other and in the order in which   *)
(* they were created: a handle leaves the queue only when every earlier    *)
(* handle of its thread has settled, however the promise chain was cut     *)
(* and rebuilt by queue entries that were removed in between.              *)
SerialPerThread ==
    \A g, h \in 1 .. created :
        g < h /\ Thread(g) = Thread(h) /\ phase[h] # "queued" => phase[g] = "settled"

(* Why it holds: a created handle is the tail of its thread's queue or has *)
(* one behind it while it lives, and every later handle of the thread is   *)
(* then still queued, chained on it or on a handle created after it.       *)
ChainInv ==
    /\ \A h \in Handles : phase[h] = "unused" <=> h > created
    /\ \A h \in Handles : phase[h] # "settled" => completedAt[h] = Never
    /\ \A t \in Threads : threadQueues[t] # NoHandle =>
          threadQueues[t] <= created /\ Thread(threadQueues[t]) = t
    /\ \A h \in 1 .. created :
          /\ previous[h] < h
          /\ previous[h] # NoHandle => Thread(previous[h]) = Thread(h)
          /\ Live(h) => h <= threadQueues[Thread(h)]
    /\ \A g, h \in 1 .. created :
          g < h /\ Thread(g) = Thread(h) /\ Live(g) =>
            phase[h] = "queued" /\ g <= previous[h]

(* No pruning, by age or by count, ever drops the record of a turn that    *)
(* still runs or waits: a client that reconnects finds the live handle,    *)
(* and no second handle of the same turn identity runs beside it.          *)
LiveTurnRetained ==
    \A h \in 1 .. created : Live(h) => turns[input[h].key] = h

(* The log of a settled handle begins with its only turn.started and ends  *)
(* with its only terminal event, a live handle has no terminal event yet,  *)
(* and the run-activity feed closes a run exactly once, as found if the    *)
(* log ends in turn.completed and as dismissed if it ends in turn.error:   *)
(* on every path a runner can return, throw or be pre-empted on, although  *)
(* returned errors and exceptions are reported in two places.  A client    *)
(* that has been told the snapshot is sealed, or that the turn is complete, *)
(* can read the assistant message from the database.                       *)
LogsFaithful ==
    LET terminal == {"turn.completed", "turn.error"}
    IN  \A h \in 1 .. created :
          LET log == events[h]
          IN  /\ \A i \in DOMAIN log : (log[i] = "turn.started") <=> (i = 1)
              /\ \A i \in DOMAIN log : log[i] \in terminal =>
                                         i = Len(log) /\ phase[h] = "settled"
              /\ \A i \in DOMAIN log :
                    log[i] \in {"snapshot.sealed", "turn.completed"} => stored[h]
              /\ IF phase[h] = "settled"
                 THEN /\ log # <<>> /\ log[Len(log)] \in terminal
                      /\ activity[h] = IF log[Len(log)] = "turn.completed"
                                       THEN <<"found">> ELSE <<"dismissed">>
                 ELSE activity[h] = <<>>

(* The other turn identities that have a settled handle. *)
SettledBeside(k) == {input[h].key : h \in {g \in 1 .. created : phase[g] = "settled"}} \ {k}

(* When a settled turn may be forgotten: as many other turns have settled  *)
(* as there are tombstones, or its tombstone was dropped for its age, that *)
(* it had from the end of the turn's own retention, or from when other     *)
(* turns had taken the place of its record.                                *)
Forgettable(h) ==
    LET age == clock - completedAt[h]
        beside == Cardinality(SettledBeside(input[h].key))
    IN  \/ beside >= MaxTombstones
        \/ age > TurnRetention + TombstoneRetention
        \/ age > TombstoneRetention /\ beside >= MaxCompletedTurns

(* A turn identity is executed again only when every turn of it has        *)
(* settled and may be forgotten: until then a client that reconnects       *)
(* without Last-Event-ID never re-runs the turn.                           *)
ReplayOnlyAfterRetention ==
    [][created' # created =>
         \A h \in 1 .. created :
            input[h].key = input'[created'].key =>
              phase[h] = "settled" /\ Forgettable(h)]_vars

(* Every turn that was accepted runs and settles, also behind turns of its *)
(* thread that failed.                                                     *)
EveryTurnSettles ==
    \A h \in Handles : phase[h] = "queued" ~> phase[h] = "settled"
=============================================================================
