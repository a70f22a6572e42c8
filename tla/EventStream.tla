----------------------------- MODULE EventStream -----------------------------
(* The run-activity stream from the hub to a browser and back again          *)
(* (services/observability/src/run-activity.ts, services/chat/src/http.ts,   *)
(* web/src/pages/HomePage.tsx).  The hub numbers the activities of all users *)
(* in one sequence, keeps the last MaxRetained of them and hands each one to *)
(* the connections of its user.  A connection's frame writer gives frames to *)
(* the socket until it reports that it is full, then keeps up to MaxPending  *)
(* of them until the socket drains, and drops a client that is slower still. *)
(* The browser remembers the number of the last activity it got, connects    *)
(* again for ever, and forgets the number when the server does not know it.  *)
(* Handlers are synchronous JavaScript: each one is one step.                *)
EXTENDS Integers, FiniteSets, SequencesExt

CONSTANTS Users,        \* owners of activities
          Clients,      \* browsers with the home page open
          UserOf,       \* the signed-in user of a browser
          MaxRetained,  \* hub option maxRetainedEvents
          HighWater,    \* frames the socket takes before it reports it is full
          MaxPending,   \* MAX_PENDING_SSE_FRAMES
          MaxEvents,    \* bound: activities of one process
          MaxBeats,     \* bound: heartbeats, over all connections
          MaxBreaks,    \* bound: connections the network breaks
          MaxRestarts   \* bound: restarts of the process

ASSUME StreamConstants ==
  /\ UserOf \in [Clients -> Users]
  /\ {MaxRetained, HighWater, MaxPending} \subseteq Nat \ {0}
  /\ {MaxEvents, MaxBeats, MaxBreaks, MaxRestarts} \subseteq Nat

VARIABLES log,      \* log[n] is the user of activity n of this process
          line,     \* the connection of each client
          cursor,   \* its lastEventId, 0 for none
          foreign,  \* history: the cursor comes from an earlier process
          got,      \* history: activities of this process it received, in order
          missed,   \* history: activities gone before a connection from 0
          spent     \* environment actions used up

streamVars == <<log, line, cursor, foreign, got, missed, spent>>

Beat == 0   \* a heartbeat frame: it has no number
Down == [open |-> FALSE, written |-> 0, waiting |-> FALSE,
         wire |-> <<>>, pending |-> <<>>]

-------------------------------------------------------------------------------
(* The hub                                                                   *)

Retained == {n \in 1..Len(log) : n > Len(log) - MaxRetained}
ActivitiesOf(c) == {n \in 1..Len(log) : log[n] = UserOf[c]}

\* oldest first: a number comes after those below it
Ascending(numbers) ==
  [k \in 1..Cardinality(numbers) |->
     CHOOSE n \in numbers : Cardinality({x \in numbers : x < n}) = k - 1]

\* eventsForUser, of which the stream writes those after the cursor
EventsFor(c, at) == Ascending({n \in ActivitiesOf(c) \cap Retained : n > at})

\* a bug: every number the process has issued is taken for available
SeqIssued(c, n) == n <= Len(log)

\* isSeqAvailableForUser: a cursor is known as long as its activity is kept
SeqAvailable(c, n) == n = 0 \/ n \in ActivitiesOf(c) \cap Retained

-------------------------------------------------------------------------------
(* The frame writer                                                          *)

\* enqueue: a client that exceeds the pending limit is destroyed, with the
\* frames the socket still held
Enqueued(l, frame) ==
  IF Len(l.pending) < MaxPending
  THEN [l EXCEPT !.pending = Append(@, frame)]
  ELSE Down

Taken(l, frames) ==
  [l EXCEPT !.wire = @ \o frames, !.waiting = Len(l.wire \o frames) >= HighWater]

WriteFrame(l, frame) ==
  CASE ~l.open               -> l
    [] l.open /\ l.waiting   -> Enqueued(l, frame)
    [] l.open /\ ~l.waiting  -> Taken(l, <<frame>>)

\* onDrain and flush: the empty socket takes as many frames as it can
Flushed(l) ==
  LET taken == SubSeq(l.pending, 1, IF Len(l.pending) < HighWater THEN Len(l.pending)
                                                                 ELSE HighWater)
  IN Taken([l EXCEPT !.pending = SubSeq(@, Len(taken) + 1, Len(@))], taken)

\* writeIfNew: the subscription and the replay may both see an activity
WriteIfNew(l, n) ==
  LET after == WriteFrame(l, n)
  IN CASE n <= l.written                -> l
       [] n > l.written /\ after.open   -> [after EXCEPT !.written = n]
       [] n > l.written /\ ~after.open  -> after

-------------------------------------------------------------------------------
StreamInit ==
  /\ log = <<>>
  /\ line = [c \in Clients |-> Down]
  /\ cursor = [c \in Clients |-> 0]
  /\ foreign = [c \in Clients |-> FALSE]
  /\ got = [c \in Clients |-> <<>>]
  /\ missed = [c \in Clients |-> {}]
  /\ spent = [beats |-> 0, breaks |-> 0, restarts |-> 0]

\* publish: the activity gets the next number, the oldest ones fall out, and
\* the listeners of its user write it
Publish(u) ==
  /\ Len(log) < MaxEvents
  /\ log' = Append(log, u)
  /\ line' = [c \in Clients |-> IF UserOf[c] = u THEN WriteIfNew(line[c], Len(log) + 1)
                                                 ELSE line[c]]
  /\ UNCHANGED <<cursor, foreign, got, missed, spent>>

\* one activity after the other is written: the empty socket takes what it can, the
\* writer keeps the rest, and the client is destroyed if that is too much
Replay(at, events) ==
  IF Len(events) > HighWater + MaxPending THEN Down
  ELSE Flushed([open |-> TRUE, written |-> IF events = <<>> THEN at ELSE Last(events),
                waiting |-> FALSE, wire |-> <<>>, pending |-> events])

\* the response's headers, the subscription and the replay of what is kept
Replayed(c) == Replay(cursor[c], EventsFor(c, cursor[c]))

\* handleRunActivityStreamRequest, with a cursor the hub knows
Connect(c) ==
  /\ ~line[c].open /\ SeqAvailable(c, cursor[c])
  /\ line' = [line EXCEPT ![c] = Replayed(c)]
  /\ missed' = [missed EXCEPT ![c] =
       IF cursor[c] = 0 THEN @ \cup ((ActivitiesOf(c) \ Retained) \ ToSet(got[c])) ELSE @]
  /\ UNCHANGED <<log, cursor, foreign, got, spent>>

\* a bug: the browser tries again with the cursor that was refused
RefusedAgain(c) ==
  /\ ~line[c].open /\ ~SeqAvailable(c, cursor[c])
  /\ UNCHANGED streamVars

\* the 400 answer: the browser forgets its cursor
Refused(c) ==
  /\ ~line[c].open /\ ~SeqAvailable(c, cursor[c])
  /\ cursor' = [cursor EXCEPT ![c] = 0]
  /\ foreign' = [foreign EXCEPT ![c] = FALSE]
  /\ UNCHANGED <<log, line, got, missed, spent>>

\* the browser reads a block; a heartbeat leaves its state alone
Read(c) ==
  /\ line[c].wire # <<>>
  /\ line' = [line EXCEPT ![c].wire = Tail(@)]
  /\ LET n == Head(line[c].wire)
     IN IF n = Beat THEN UNCHANGED <<cursor, got>>
        ELSE /\ cursor' = [cursor EXCEPT ![c] = n]
             /\ got' = [got EXCEPT ![c] = Append(@, n)]
  /\ UNCHANGED <<log, foreign, missed, spent>>

\* the socket's drain event
Drain(c) ==
  /\ line[c].waiting /\ line[c].wire = <<>>
  /\ line' = [line EXCEPT ![c] = Flushed(line[c])]
  /\ UNCHANGED <<log, cursor, foreign, got, missed, spent>>

Heartbeat(c) ==
  /\ line[c].open /\ spent.beats < MaxBeats
  /\ spent' = [spent EXCEPT !.beats = @ + 1]
  /\ line' = [line EXCEPT ![c] = WriteFrame(line[c], Beat)]
  /\ UNCHANGED <<log, cursor, foreign, got, missed>>

\* the connection breaks; what the socket held is lost, and what the browser
\* still got of it is a Read before this step
Break(c) ==
  /\ line[c].open /\ spent.breaks < MaxBreaks
  /\ spent' = [spent EXCEPT !.breaks = @ + 1]
  /\ line' = [line EXCEPT ![c] = Down]
  /\ UNCHANGED <<log, cursor, foreign, got, missed>>

\* a new process has a new hub, which numbers from 1; browsers keep their cursors
Restart ==
  /\ spent.restarts < MaxRestarts
  /\ spent' = [spent EXCEPT !.restarts = @ + 1]
  /\ log' = <<>>
  /\ line' = [c \in Clients |-> Down]
  /\ foreign' = [c \in Clients |-> cursor[c] # 0]
  /\ got' = [c \in Clients |-> <<>>]
  /\ missed' = [c \in Clients |-> {}]
  /\ UNCHANGED cursor

StreamStep(c) == Connect(c) \/ Refused(c) \/ Read(c) \/ Drain(c)

StreamNext ==
  \/ \E u \in Users : Publish(u)
  \/ \E c \in Clients : StreamStep(c) \/ Heartbeat(c) \/ Break(c)
  \/ Restart

\* browsers read and connect again (a retry timer of at most 5 s), sockets drain
StreamFairness ==
  \A c \in Clients : WF_streamVars(Connect(c) \/ Refused(c)) /\ WF_streamVars(Read(c))
                     /\ WF_streamVars(Drain(c))

StreamSpec == StreamInit /\ [][StreamNext]_streamVars /\ StreamFairness

-------------------------------------------------------------------------------
Line == [open : BOOLEAN, written : Nat, waiting : BOOLEAN,
         wire : Seq(Nat), pending : Seq(Nat)]

\* The types of the variables; a closed connection holds nothing, and a writer
\* queues frames only while it waits for the socket.
StreamTypeOK ==
  /\ log \in Seq(Users)
  /\ line \in [Clients -> Line]
  /\ cursor \in [Clients -> Nat]
  /\ foreign \in [Clients -> BOOLEAN]
  /\ got \in [Clients -> Seq(Nat)]
  /\ missed \in [Clients -> SUBSET Nat]
  /\ spent \in [{"beats", "breaks", "restarts"} -> Nat]
  /\ \A c \in Clients : /\ line[c].open \/ line[c] = Down
                        /\ line[c].pending # <<>> => line[c].waiting

\* A browser that has got an activity has got every earlier one of its user,
\* except those the hub had dropped when it connected without a cursor; a cursor
\* of an earlier process, which the new one cannot tell from its own, is the only
\* other way to miss any (the Last-Event-ID contract of the stream).
NoSilentGap ==
  \A c \in Clients : ~foreign[c] =>
    \A n \in ActivitiesOf(c) : n <= cursor[c] => n \in ToSet(got[c]) \cup missed[c]

CaughtUp(c) ==
  line[c].open /\ \A n \in ActivitiesOf(c) \cap Retained : n <= cursor[c]

\* the replay alone exceeds what the socket and the writer hold: the client is
\* destroyed while it connects, and again when it comes back
Oversized(c) ==
  Cardinality({n \in ActivitiesOf(c) \cap Retained : n > cursor[c]})
    > HighWater + MaxPending

\* Whatever breaks, is dropped for slowness, is refused or restarts, each browser
\* is in the end connected and has every activity the hub keeps for its user,
\* unless so many are kept that their replay exceeds the writer's limit.
BrowsersCatchUp ==
  \A c \in Clients : []<>(CaughtUp(c) \/ Oversized(c))

=============================================================================
