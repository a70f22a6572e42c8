----------------------- MODULE ChatCoordinatorProofs -----------------------
(***************************************************************************)
(* Proofs that the chat coordinator keeps the turns of a thread serial and *)
(* in order, never forgets a live turn, logs the stages of a turn as they  *)
(* were and forgets a settled turn only when it may, for any number of     *)
(* turns, threads and handles, any retention and any capacity.             *)
(***************************************************************************)
EXTENDS ChatCoordinator, SequenceTheorems, FiniteSetTheorems, TLAPS

(* Pruning removes records of completed turns only, and writes tombstones  *)
(* that are times of the clock.                                            *)
LEMMA PruningsEvictCompleted ==
    ASSUME TypeOK, NEW done \in [Handles -> -1 .. MaxTime], NEW p \in Prunings(done)
    PROVE  /\ p.turns \in [Keys -> 0 .. MaxHandles]
           /\ p.tombstones \in [Keys -> -1 .. MaxTime]
           /\ \A k \in Keys : p.turns[k] # turns[k] =>
                 p.turns[k] = NoHandle /\ turns[k] # NoHandle /\ done[turns[k]] # Never
  <1>1. PICK retained : p \in Outcomes(done, retained)
    BY DEF Prunings
  <1> DEFINE evicted == Completed(done) \ retained
             known == evicted \cup {k \in Keys : tombstones[k] # Never}
             buriedAt == [k \in known |-> IF k \in evicted THEN BuriedAt(done, k)
                                          ELSE tombstones[k]]
             newTurns == [k \in Keys |-> IF k \in evicted THEN NoHandle ELSE turns[k]]
             newTombstones(kept) == [k \in Keys |-> IF k \in kept THEN buriedAt[k] ELSE Never]
  <1>21. PICK kept \in Remaining(known, buriedAt, clock - TombstoneRetention, MaxTombstones) :
           p = [turns |-> newTurns, tombstones |-> newTombstones(kept)]
    BY <1>1, Zenon DEF Outcomes
  <1>2. p.turns = newTurns /\ p.tombstones = newTombstones(kept)
    <2> HIDE DEF newTurns, newTombstones
    <2> QED BY <1>21
  <1>3. kept \subseteq known
    BY <1>21 DEF Remaining
  <1>4. p.turns \in [Keys -> 0 .. MaxHandles]
    BY <1>2, BoundsAssumption DEF TypeOK, NoHandle
  <1>5. \A k \in kept : buriedAt[k] \in -1 .. MaxTime
    BY <1>3, BoundsAssumption DEF TypeOK, BuriedAt, Completed
  <1>6. p.tombstones \in [Keys -> -1 .. MaxTime]
    BY <1>2, <1>5, BoundsAssumption DEF Never
  <1>7. \A k \in Keys : p.turns[k] # turns[k] =>
                 p.turns[k] = NoHandle /\ turns[k] # NoHandle /\ done[turns[k]] # Never
    BY <1>2 DEF Completed
  <1> QED BY <1>4, <1>6, <1>7

-----------------------------------------------------------------------------
(* What a runner may do: a handle runs when it is suspended on a call, or  *)
(* is queued behind a settled handle; it then suspends or settles.         *)
MayRun(h) ==
    phase[h] \in Awaiting \/ (phase[h] = "queued" /\ PredecessorSettled(h))

(* Every step of a run either suspends the handle or settles it. *)
LEMMA ProgressShape ==
    ASSUME NEW h \in Handles, Progress(h)
    PROVE  MayRun(h) /\ (Settle(h) \/ \E p \in Awaiting : \E new : Suspend(h, p, new))
  <1> DEFINE Goal == Settle(h) \/ \E p \in Awaiting : \E new : Suspend(h, p, new)
  <1>1. ASSUME NEW new, EnterRunner(h, new) PROVE Goal
    BY <1>1 DEF EnterRunner, Return, Awaiting
  <1>2. CASE Start(h)
    BY <1>2, <1>1 DEF Start, MayRun, Awaiting
  <1>3. CASE SubjectResolved(h)
    BY <1>3, <1>1 DEF SubjectResolved, MayRun, Awaiting
  <1>4. CASE SubjectUnresolved(h)
    BY <1>4 DEF SubjectUnresolved, MayRun, Awaiting
  <1>5. CASE ClarificationRendered(h)
    BY <1>5 DEF ClarificationRendered, MayRun, Awaiting
  <1>6. CASE RuntimeVerified(h)
    BY <1>6 DEF RuntimeVerified, MayRun, Awaiting
  <1>7. CASE RuntimeUnverified(h)
    BY <1>7 DEF RuntimeUnverified, Return, MayRun, Awaiting
  <1>8. CASE Persisted(h)
    BY <1>8 DEF Persisted, Return, MayRun, Awaiting
  <1>9. CASE AwaitRejected(h)
    BY <1>9 DEF AwaitRejected, Throw, MayRun, Awaiting
  <1> QED BY <1>2, <1>3, <1>4, <1>5, <1>6, <1>7, <1>8, <1>9 DEF Progress

(* The emissions of the runners are nonempty sequences of event types, and *)
(* what they append and report is typed.                                   *)
LEMMA AppendedTyped ==
    ASSUME NEW log \in Seq(EventTypes), NEW new \in Seq(EventTypes)
    PROVE  Appended(log, new) \in Seq(EventTypes)
  <1>1. <<"turn.started">> \in Seq(EventTypes)
    BY DEF EventTypes
  <1> QED BY <1>1 DEF Appended

LEMMA ReportedTyped ==
    ASSUME NEW new PROVE Reported(new) \in Seq(ClosingStages)
  <1>1. /\ <<>> \in Seq(ClosingStages)
        /\ <<"found">> \in Seq(ClosingStages) /\ <<"dismissed">> \in Seq(ClosingStages)
    BY DEF ClosingStages
  <1> QED BY <1>1, Zenon DEF Reported

(* The three ways a step writes the log keep it typed. *)
LEMMA SuspendTyped ==
    ASSUME TypeOK, NEW h \in Handles, NEW p, NEW new \in Seq(EventTypes), Suspend(h, p, new)
    PROVE  events' \in [Handles -> Seq(EventTypes)] /\ activity' \in [Handles -> Seq(ClosingStages)]
  <1>1. Appended(events[h], new) \in Seq(EventTypes) /\ Reported(new) \in Seq(ClosingStages)
    BY AppendedTyped, ReportedTyped DEF TypeOK
  <1>2. activity[h] \o Reported(new) \in Seq(ClosingStages)
    BY <1>1 DEF TypeOK
  <1> QED BY <1>1, <1>2 DEF Suspend, TypeOK

LEMMA ReturnTyped ==
    ASSUME TypeOK, NEW h \in Handles, NEW new \in Seq(EventTypes), Return(h, new)
    PROVE  events' \in [Handles -> Seq(EventTypes)] /\ activity' \in [Handles -> Seq(ClosingStages)]
  <1>1. Appended(events[h], new) \in Seq(EventTypes) /\ Reported(new) \in Seq(ClosingStages)
    BY AppendedTyped, ReportedTyped DEF TypeOK
  <1>2. activity[h] \o Reported(new) \in Seq(ClosingStages)
    BY <1>1 DEF TypeOK
  <1> QED BY <1>1, <1>2 DEF Return, TypeOK

LEMMA ThrowTyped ==
    ASSUME TypeOK, NEW h \in Handles, Throw(h)
    PROVE  events' \in [Handles -> Seq(EventTypes)] /\ activity' \in [Handles -> Seq(ClosingStages)]
  <1>1. <<"turn.error">> \in Seq(EventTypes) /\ "dismissed" \in ClosingStages
    BY DEF EventTypes, ClosingStages
  <1>2. Appended(events[h], <<"turn.error">>) \in Seq(EventTypes)
    BY <1>1, AppendedTyped DEF TypeOK
  <1>3. Append(activity[h], "dismissed") \in Seq(ClosingStages)
    BY <1>1 DEF TypeOK
  <1> QED BY <1>2, <1>3 DEF Throw, TypeOK

LEMMA ProgressTyped ==
    ASSUME TypeOK, NEW h \in Handles, Progress(h)
    PROVE  /\ events' \in [Handles -> Seq(EventTypes)]
           /\ activity' \in [Handles -> Seq(ClosingStages)]
           /\ stored' \in [Handles -> BOOLEAN]
  <1> DEFINE Goal == events' \in [Handles -> Seq(EventTypes)]
                     /\ activity' \in [Handles -> Seq(ClosingStages)]
  <1>0. /\ <<>> \in Seq(EventTypes) /\ <<"turn.started">> \in Seq(EventTypes)
        /\ <<"turn.error">> \in Seq(EventTypes)
        /\ <<"snapshot.staged", "turn.error">> \in Seq(EventTypes)
        /\ ToolEvents \in Seq(EventTypes) /\ Answer \in Seq(EventTypes)
        /\ <<"turn.started">> \o ToolEvents \in Seq(EventTypes)
    BY DEF EventTypes, ToolEvents, Answer
  <1>1. ASSUME NEW new \in Seq(EventTypes), EnterRunner(h, new) PROVE Goal
    <2>1. new \o ToolEvents \in Seq(EventTypes) /\ new \o <<"turn.error">> \in Seq(EventTypes)
      BY <1>0
    <2> QED BY <1>1, <2>1, SuspendTyped, ReturnTyped DEF EnterRunner
  <1>2. CASE Start(h)
    BY <1>2, <1>1, <1>0, SuspendTyped DEF Start, TypeOK
  <1>3. CASE SubjectResolved(h)
    BY <1>3, <1>1, <1>0 DEF SubjectResolved, TypeOK
  <1>4. CASE SubjectUnresolved(h)
    BY <1>4, <1>0, SuspendTyped DEF SubjectUnresolved, TypeOK
  <1>5. CASE ClarificationRendered(h)
    BY <1>5, <1>0, SuspendTyped DEF ClarificationRendered, TypeOK
  <1>6. CASE RuntimeVerified(h)
    BY <1>6, <1>0, SuspendTyped DEF RuntimeVerified, TypeOK
  <1>7. CASE RuntimeUnverified(h)
    <2>1. PICK calls \in {<<>>, ToolEvents} : Return(h, calls \o <<"snapshot.staged", "turn.error">>)
      BY <1>7 DEF RuntimeUnverified
    <2> DEFINE failure == <<"snapshot.staged", "turn.error">>
    <2>2. calls \in Seq(EventTypes) /\ failure \in Seq(EventTypes)
      BY <1>0
    <2>3. calls \o failure \in Seq(EventTypes)
      <3> HIDE DEF failure
      <3> QED BY <2>2
    <2> QED BY <1>7, <2>1, <2>3, ReturnTyped DEF RuntimeUnverified, TypeOK
  <1>8. CASE Persisted(h)
    BY <1>8, <1>0, ReturnTyped DEF Persisted, TypeOK
  <1>9. CASE AwaitRejected(h)
    BY <1>9, ThrowTyped DEF AwaitRejected, TypeOK
  <1> QED BY <1>2, <1>3, <1>4, <1>5, <1>6, <1>7, <1>8, <1>9 DEF Progress

-----------------------------------------------------------------------------
(* The inductive invariant. *)
Inv == TypeOK /\ ChainInv /\ LiveTurnRetained

LEMMA InitInv == Init => Inv
  <1> SUFFICES ASSUME Init PROVE Inv
    OBVIOUS
  <1> USE DEF Init
  <1>1. TypeOK
    <2>1. <<>> \in Seq(EventTypes) /\ <<>> \in Seq(ClosingStages)
      OBVIOUS
    <2>2. (CHOOSE k \in Keys : TRUE) \in Keys
      BY ThreadsAssumption
    <2> QED BY <2>1, <2>2, BoundsAssumption
         DEF TypeOK, Handles, NoHandle, Never, Phases, Inputs
  <1>2. ChainInv
    BY BoundsAssumption DEF ChainInv, Handles, NoHandle
  <1>3. LiveTurnRetained
    BY DEF LiveTurnRetained
  <1> QED BY <1>1, <1>2, <1>3 DEF Inv

(* A step that leaves the handles alone and prunes. *)
PruneOnly ==
    /\ \E p \in Prunings(completedAt) : turns' = p.turns /\ tombstones' = p.tombstones
    /\ UNCHANGED <<clock, runner, created, threadQueues, handleVars>>

LEMMA PruneOnlyInv == Inv /\ PruneOnly => Inv'
  <1> SUFFICES ASSUME Inv, PruneOnly PROVE Inv'
    OBVIOUS
  <1> USE DEF Inv, PruneOnly, handleVars
  <1>1. PICK p \in Prunings(completedAt) : turns' = p.turns /\ tombstones' = p.tombstones
    OBVIOUS
  <1>2. completedAt \in [Handles -> -1 .. MaxTime]
    BY DEF TypeOK
  <1>3. TypeOK'
    BY <1>1, <1>2, PruningsEvictCompleted DEF TypeOK
  <1>4. ChainInv'
    BY DEF ChainInv, Live, Thread
  <1>5. ASSUME NEW h \in 1 .. created, Live(h) PROVE turns'[input[h].key] = h
    <2>1. h \in Handles
      BY BoundsAssumption DEF TypeOK, Handles
    <2>2. input[h].key \in Keys /\ completedAt[h] = Never /\ turns[input[h].key] = h
      BY <1>5, <2>1 DEF LiveTurnRetained, ChainInv, Live, TypeOK, Inputs, Awaiting
    <2> QED BY <1>1, <1>2, <2>2, PruningsEvictCompleted
  <1>6. LiveTurnRetained'
    BY <1>5 DEF LiveTurnRetained, Live
  <1> QED BY <1>3, <1>4, <1>6

LEMMA CreateInv ==
    ASSUME Inv, NEW k \in Keys, NEW subject \in BOOLEAN, CreateTurn(k, subject)
    PROVE  Inv'
  <1> USE DEF Inv
  <1>98. PICK n : n = created + 1
    OBVIOUS
  <1> DEFINE t == ThreadOf[k]
  <1>99. created \in Nat /\ created < MaxHandles /\ MaxHandles \in Nat
    BY BoundsAssumption DEF CreateTurn, TypeOK
  <1>0. n \in Handles /\ n \in Nat /\ n # NoHandle /\ n = created + 1 /\ t \in Threads
    BY <1>98, <1>99, ThreadsAssumption DEF Handles, NoHandle
  <1>1. PICK p \in Prunings(completedAt) :
           /\ p.tombstones[k] = Never /\ p.turns[k] = NoHandle
           /\ turns' = [p.turns EXCEPT ![k] = n]
           /\ tombstones' = p.tombstones
    BY <1>0 DEF CreateTurn
  <1>2. completedAt \in [Handles -> -1 .. MaxTime]
    BY DEF TypeOK
  <1>3. /\ created' = n
        /\ input' = [input EXCEPT ![n] = [key |-> k, subject |-> subject]]
        /\ previous' = [previous EXCEPT ![n] = threadQueues[t]]
        /\ threadQueues' = [threadQueues EXCEPT ![t] = n]
        /\ phase' = [phase EXCEPT ![n] = "queued"]
        /\ UNCHANGED <<clock, runner, completedAt, events, activity, stored>>
    BY <1>0 DEF CreateTurn
  <1>4. TypeOK'
    <2>1. turns' \in [Keys -> 0 .. MaxHandles] /\ tombstones' \in [Keys -> -1 .. MaxTime]
      BY <1>0, <1>1, <1>2, PruningsEvictCompleted DEF Handles
    <2>2. input' \in [Handles -> Inputs]
      BY <1>0, <1>3 DEF TypeOK, Inputs
    <2>3. previous' \in [Handles -> 0 .. MaxHandles] /\ phase' \in [Handles -> Phases]
      BY <1>0, <1>3 DEF TypeOK, Phases
    <2>4. threadQueues' \in [Threads -> 0 .. MaxHandles] /\ created' \in 0 .. MaxHandles
      BY <1>0, <1>3 DEF TypeOK, Handles
    <2> QED BY <1>3, <2>1, <2>2, <2>3, <2>4 DEF TypeOK
  <1>5. \A h \in 1 .. created : h \in Handles /\ h # n /\ input'[h] = input[h]
                               /\ phase'[h] = phase[h] /\ previous'[h] = previous[h]
    BY <1>0, <1>3, BoundsAssumption DEF TypeOK, Handles
  <1>6. input'[n].key = k /\ phase'[n] = "queued" /\ previous'[n] = threadQueues[t]
    BY <1>0, <1>3 DEF TypeOK
  <1>7. ChainInv'
    <2>1. \A h \in Handles : phase'[h] = "unused" <=> h > created'
      <3>1. \A h \in Handles : phase[h] = "unused" <=> h > created
        BY DEF ChainInv
      <3> QED BY <1>0, <1>3, <3>1 DEF TypeOK, Handles
    <2>2. \A h \in Handles : phase'[h] # "settled" => completedAt'[h] = Never
      BY <1>0, <1>3, BoundsAssumption DEF ChainInv, TypeOK, Handles
    <2>3. \A h \in 1 .. created : Thread(h)' = Thread(h) /\ (Live(h)' <=> Live(h))
      BY <1>5 DEF Thread, Live
    <2>4. Thread(n)' = t
      BY <1>6 DEF Thread
    <2>5. \A u \in Threads : threadQueues'[u] = IF u = t THEN n ELSE threadQueues[u]
      BY <1>0, <1>3 DEF TypeOK
    <2>6. ASSUME NEW u \in Threads, threadQueues'[u] # NoHandle
          PROVE  threadQueues'[u] <= created' /\ ThreadOf[input'[threadQueues'[u]].key] = u
      <3>1. CASE u = t
        BY <3>1, <1>6, <2>5, <1>0, <1>3
      <3>2. CASE u # t
        <4>1. threadQueues'[u] = threadQueues[u]
          BY <2>5, <3>2
        <4>2. threadQueues[u] \in 1 .. created /\ Thread(threadQueues[u]) = u
          BY <2>6, <4>1, <1>99 DEF ChainInv, TypeOK, NoHandle
        <4>3. ThreadOf[input'[threadQueues[u]].key] = u
          BY <4>1, <4>2, <1>5 DEF Thread
        <4> QED BY <4>1, <4>2, <4>3, <1>0, <1>99, <1>3
      <3> QED BY <3>1, <3>2
    <2>7. \A h \in 1 .. created' : h = n \/ h \in 1 .. created
      BY <1>0, <1>99, <1>3
    <2>8. \A h \in 1 .. created : Thread(h) \in Threads
      BY <1>5, ThreadsAssumption DEF TypeOK, Thread, Inputs
    <2>9. ASSUME NEW h \in 1 .. created'
          PROVE  /\ previous'[h] < h
                 /\ previous'[h] # NoHandle => ThreadOf[input'[previous'[h]].key] = ThreadOf[input'[h].key]
                 /\ Live(h)' => h <= threadQueues'[ThreadOf[input'[h].key]]
      <3>1. CASE h = n
        <4>1. threadQueues[t] = NoHandle \/
                (threadQueues[t] \in 1 .. created /\ Thread(threadQueues[t]) = t)
          BY <1>0, <1>99 DEF ChainInv, TypeOK, NoHandle
        <4>2. threadQueues[t] # NoHandle => ThreadOf[input'[threadQueues[t]].key] = t
          BY <4>1, <1>5 DEF Thread
        <4>3. threadQueues[t] < n
          BY <4>1, <1>0, <1>99 DEF NoHandle
        <4>4. previous'[h] = threadQueues[t] /\ ThreadOf[input'[h].key] = t
          BY <3>1, <1>6
        <4>5. previous'[h] # NoHandle => ThreadOf[input'[previous'[h]].key] = ThreadOf[input'[h].key]
          BY <4>2, <4>4 DEF Thread
        <4>6. threadQueues'[t] = n
          BY <1>0, <2>5
        <4> QED BY <3>1, <4>3, <4>4, <4>5, <4>6, <1>0
      <3>2. CASE h \in 1 .. created
        <4>1. /\ previous[h] < h
              /\ previous[h] # NoHandle => Thread(previous[h]) = Thread(h)
              /\ Live(h) => h <= threadQueues[Thread(h)]
              /\ previous[h] \in Nat
          BY <3>2, <1>5 DEF ChainInv, TypeOK
        <4>2. /\ previous'[h] = previous[h] /\ ThreadOf[input'[h].key] = Thread(h)
              /\ Live(h)' <=> Live(h)
          BY <3>2, <1>5, <2>3 DEF Thread
        <4>3. previous[h] # NoHandle => ThreadOf[input'[previous[h]].key] = Thread(previous[h])
          BY <3>2, <4>1, <1>99, <1>5 DEF Thread, NoHandle
        <4>4. previous'[h] # NoHandle => ThreadOf[input'[previous'[h]].key] = ThreadOf[input'[h].key]
          BY <4>1, <4>2, <4>3 DEF Thread
        <4>5. h <= threadQueues[Thread(h)] => h <= threadQueues'[Thread(h)]
          BY <3>2, <2>5, <2>8, <1>0, <1>99
        <4> QED BY <4>1, <4>2, <4>4, <4>5
      <3> QED BY <3>1, <3>2, <2>7
    <2>10. ASSUME NEW g \in 1 .. created', NEW h \in 1 .. created',
                  g < h, Thread(g)' = Thread(h)', Live(g)'
           PROVE  phase'[h] = "queued" /\ g <= previous'[h]
      <3>1. g \in 1 .. created
        BY <2>7, <2>10, <1>3 DEF TypeOK
      <3>2. CASE h = n
        BY <3>1, <3>2, <2>10, <2>3, <2>4, <1>6 DEF ChainInv
      <3>3. CASE h \in 1 .. created
        BY <3>1, <3>3, <2>10, <2>3, <1>5 DEF ChainInv
      <3> QED BY <3>2, <3>3, <2>7
    <2> QED
      <3> HIDE DEF Inv
      <3> QED BY <2>1, <2>2, <2>6, <2>9, <2>10 DEF ChainInv, Thread, Live
  <1>8. LiveTurnRetained'
    <2> SUFFICES ASSUME NEW h \in 1 .. created', Live(h)'
                 PROVE  turns'[input'[h].key] = h
      BY DEF LiveTurnRetained
    <2>1. p.turns \in [Keys -> 0 .. MaxHandles]
      BY <1>2, PruningsEvictCompleted
    <2>2. CASE h = n
      BY <2>1, <2>2, <1>1, <1>6
    <2>3. CASE h \in 1 .. created
      <3>1. Live(h) /\ completedAt[h] = Never /\ turns[input[h].key] = h /\ input[h].key \in Keys
        BY <2>3, <1>5 DEF Live, ChainInv, LiveTurnRetained, Awaiting, TypeOK, Inputs
      <3>2. p.turns[input[h].key] = h
        BY <2>3, <3>1, <1>2, PruningsEvictCompleted
      <3>3. input[h].key # k
        BY <2>3, <3>2, <1>1 DEF NoHandle
      <3>4. turns'[input[h].key] = h
        BY <3>1, <3>2, <3>3, <2>1, <1>1
      <3>5. input'[h] = input[h]
        BY <2>3, <1>5
      <3> QED BY <3>4, <3>5
    <2> QED BY <2>2, <2>3, <1>0, <1>99, <1>3
  <1> QED BY <1>4, <1>7, <1>8

(* A handle that may run has no live predecessor in its thread. *)
LEMMA MayRunFirst ==
    ASSUME Inv, NEW h \in 1 .. created, MayRun(h), NEW g \in 1 .. created,
           g < h, Thread(g) = Thread(h)
    PROVE  ~Live(g)
  <1> SUFFICES ASSUME Live(g) PROVE FALSE
    OBVIOUS
  <1> USE DEF Inv
  <1>1. phase[h] = "queued" /\ g <= previous[h]
    BY DEF ChainInv
  <1>2. PredecessorSettled(h)
    BY <1>1 DEF MayRun, Awaiting
  <1>3. created \in Nat /\ MaxHandles \in Nat /\ created <= MaxHandles /\ h \in Handles /\ g \in Handles
    BY BoundsAssumption DEF TypeOK, Handles
  <1>4. previous[h] \in 1 .. created /\ Thread(previous[h]) = Thread(h)
    <2>1. previous[h] \in Int /\ previous[h] < h
      BY <1>3 DEF ChainInv, TypeOK
    <2>2. previous[h] \in 1 .. created /\ previous[h] # NoHandle
      BY <1>1, <1>3, <2>1 DEF NoHandle
    <2> QED BY <2>2 DEF ChainInv
  <1>5. phase[previous[h]] = "settled"
    BY <1>2, <1>4 DEF PredecessorSettled, NoHandle
  <1>6. g # previous[h]
    BY <1>5 DEF Live, Awaiting
  <1>7. g < previous[h]
    BY <1>1, <1>3, <1>4, <1>6
  <1>8. phase[previous[h]] = "queued"
    BY <1>4, <1>7 DEF ChainInv
  <1> QED BY <1>5, <1>8

(* A step of a run: whatever the handle does, it does behind settled ones. *)
LEMMA RunCreated ==
    ASSUME Inv, NEW h \in Handles, MayRun(h)
    PROVE  /\ h \in 1 .. created /\ Live(h)
           /\ created \in Nat /\ MaxHandles \in Nat /\ created <= MaxHandles
  BY BoundsAssumption DEF Inv, TypeOK, ChainInv, MayRun, Live, Awaiting, Handles

LEMMA SuspendInv ==
    ASSUME Inv, NEW h \in Handles, MayRun(h), NEW q \in Awaiting, NEW new, Suspend(h, q, new)
    PROVE  ChainInv' /\ LiveTurnRetained'
  <1> USE DEF Inv
  <1>1. /\ h \in 1 .. created /\ Live(h)
        /\ created \in Nat /\ MaxHandles \in Nat /\ created <= MaxHandles
    BY RunCreated
  <1>2. /\ phase' = [phase EXCEPT ![h] = q]
        /\ UNCHANGED <<created, turns, threadQueues, input, previous, completedAt>>
    BY DEF Suspend
  <1>3. \A g \in Handles : phase'[g] = IF g = h THEN q ELSE phase[g]
    BY <1>2 DEF TypeOK
  <1>4. \A g \in 1 .. created : g \in Handles /\ (Live(g)' <=> Live(g)) /\ Thread(g)' = Thread(g)
    BY <1>1, <1>2, <1>3 DEF Live, Thread, Handles
  <1>5. ASSUME NEW g \in 1 .. created, NEW f \in 1 .. created,
               g < f, Thread(g)' = Thread(f)', Live(g)'
        PROVE  phase'[f] = "queued" /\ g <= previous'[f]
    <2>1. phase[f] = "queued" /\ g <= previous[f]
      BY <1>4, <1>5 DEF ChainInv
    <2>2. f # h
      BY <1>4, <1>5, MayRunFirst
    <2> QED BY <1>2, <1>3, <1>4, <2>1, <2>2
  <1>6. ChainInv'
    <2>1. \A g \in Handles : phase'[g] = "unused" <=> g > created'
      BY <1>1, <1>2, <1>3 DEF ChainInv, Awaiting
    <2>2. \A g \in Handles : phase'[g] # "settled" => completedAt'[g] = Never
      BY <1>1, <1>2, <1>3 DEF ChainInv, Live, Awaiting
    <2>3. \A t \in Threads : threadQueues'[t] # NoHandle =>
             threadQueues'[t] <= created' /\ ThreadOf[input'[threadQueues'[t]].key] = t
      BY <1>2 DEF ChainInv, Thread
    <2>4. ASSUME NEW g \in 1 .. created
          PROVE  /\ previous'[g] < g
                 /\ previous'[g] # NoHandle => ThreadOf[input'[previous'[g]].key] = ThreadOf[input'[g].key]
                 /\ Live(g)' => g <= threadQueues'[ThreadOf[input'[g].key]]
      BY <1>2, <1>4 DEF ChainInv, Thread
    <2> QED
      <3> HIDE DEF Inv
      <3> QED BY <1>2, <1>5, <2>1, <2>2, <2>3, <2>4 DEF ChainInv, Thread
  <1>7. LiveTurnRetained'
    BY <1>2, <1>4 DEF LiveTurnRetained
  <1> QED BY <1>6, <1>7

LEMMA SettleInv ==
    ASSUME Inv, NEW h \in Handles, MayRun(h), Settle(h)
    PROVE  /\ ChainInv' /\ LiveTurnRetained'
           /\ turns' \in [Keys -> 0 .. MaxHandles]
           /\ tombstones' \in [Keys -> -1 .. MaxTime]
           /\ threadQueues' \in [Threads -> 0 .. MaxHandles]
           /\ completedAt' \in [Handles -> -1 .. MaxTime]
           /\ phase' \in [Handles -> Phases]
  <1> USE DEF Inv
  <1>1. /\ h \in 1 .. created /\ Live(h)
        /\ created \in Nat /\ MaxHandles \in Nat /\ created <= MaxHandles
    BY RunCreated
  <1>2. /\ phase' = [phase EXCEPT ![h] = "settled"]
        /\ completedAt' = [completedAt EXCEPT ![h] = clock]
        /\ UNCHANGED <<created, input, previous>>
    BY DEF Settle
  <1>3. PICK p \in Prunings(completedAt') : turns' = p.turns /\ tombstones' = p.tombstones
    BY DEF Settle
  <1>4. completedAt' \in [Handles -> -1 .. MaxTime] /\ phase' \in [Handles -> Phases]
    BY <1>2, BoundsAssumption DEF TypeOK, Phases
  <1>5. /\ p.turns \in [Keys -> 0 .. MaxHandles] /\ p.tombstones \in [Keys -> -1 .. MaxTime]
        /\ \A k \in Keys : p.turns[k] # turns[k] =>
              p.turns[k] = NoHandle /\ turns[k] # NoHandle /\ completedAt'[turns[k]] # Never
    BY <1>4, PruningsEvictCompleted
  <1>6. Thread(h) \in Threads
    BY ThreadsAssumption DEF TypeOK, Thread, Inputs
  <1>7. \A t \in Threads : threadQueues'[t] = IF t = Thread(h) /\ threadQueues[t] = h
                                              THEN NoHandle ELSE threadQueues[t]
    BY <1>6 DEF Settle, Dequeue, TypeOK
  <1>8. threadQueues' \in [Threads -> 0 .. MaxHandles]
    BY <1>6, BoundsAssumption DEF Settle, Dequeue, TypeOK, NoHandle
  <1>9. \A g \in Handles : /\ phase'[g] = IF g = h THEN "settled" ELSE phase[g]
                           /\ completedAt'[g] = IF g = h THEN clock ELSE completedAt[g]
    BY <1>2 DEF TypeOK
  <1>10. \A g \in 1 .. created :
            g \in Handles /\ (Live(g)' <=> Live(g) /\ g # h) /\ Thread(g)' = Thread(g)
    BY <1>1, <1>2, <1>9 DEF Live, Thread, Handles, Awaiting
  <1>11. ASSUME NEW g \in 1 .. created, NEW f \in 1 .. created,
                g < f, Thread(g)' = Thread(f)', Live(g)'
         PROVE  phase'[f] = "queued" /\ g <= previous'[f]
    <2>1. phase[f] = "queued" /\ g <= previous[f]
      BY <1>10, <1>11 DEF ChainInv
    <2>2. f # h
      BY <1>10, <1>11, MayRunFirst
    <2> QED BY <1>2, <1>9, <1>10, <2>1, <2>2
  <1>12. ChainInv'
    <2>1. \A g \in Handles : phase'[g] = "unused" <=> g > created'
      BY <1>1, <1>2, <1>9 DEF ChainInv
    <2>2. \A g \in Handles : phase'[g] # "settled" => completedAt'[g] = Never
      BY <1>9 DEF ChainInv
    <2>3. \A t \in Threads : threadQueues'[t] # NoHandle =>
             threadQueues'[t] <= created' /\ ThreadOf[input'[threadQueues'[t]].key] = t
      BY <1>2, <1>7 DEF ChainInv, Thread
    <2>4. ASSUME NEW g \in 1 .. created
          PROVE  /\ previous'[g] < g
                 /\ previous'[g] # NoHandle => ThreadOf[input'[previous'[g]].key] = ThreadOf[input'[g].key]
                 /\ Live(g)' => g <= threadQueues'[ThreadOf[input'[g].key]]
      <3>1. /\ previous'[g] < g
            /\ previous'[g] # NoHandle => ThreadOf[input'[previous'[g]].key] = ThreadOf[input'[g].key]
        BY <1>2 DEF ChainInv, Thread
      <3>2. ASSUME Live(g)' PROVE g <= threadQueues'[Thread(g)]
        <4>1. g <= threadQueues[Thread(g)] /\ g # h /\ Thread(g) \in Threads
          BY <1>10, <3>2, ThreadsAssumption DEF ChainInv, TypeOK, Thread, Inputs
        <4>2. ~(Thread(g) = Thread(h) /\ threadQueues[Thread(g)] = h)
          <5> SUFFICES ASSUME Thread(g) = Thread(h), g < h PROVE FALSE
            BY <4>1, <1>1
          <5> QED BY <1>1, <1>10, <3>2, MayRunFirst
        <4> QED BY <1>7, <4>1, <4>2
      <3>3. ThreadOf[input'[g].key] = Thread(g)
        BY <1>2 DEF Thread
      <3> QED BY <3>1, <3>2, <3>3
    <2> QED
      <3> HIDE DEF Inv
      <3> QED BY <1>2, <1>11, <2>1, <2>2, <2>3, <2>4 DEF ChainInv, Thread
  <1>13. LiveTurnRetained'
    <2> SUFFICES ASSUME NEW g \in 1 .. created, Live(g)' PROVE turns'[input'[g].key] = g
      BY <1>2 DEF LiveTurnRetained
    <2>1. /\ turns[input[g].key] = g /\ input[g].key \in Keys
          /\ completedAt'[g] = Never /\ g # NoHandle
      <3>1. Live(g) /\ g # h /\ g \in Handles /\ g # NoHandle
        BY <1>10 DEF NoHandle
      <3>2. completedAt[g] = Never
        BY <3>1 DEF ChainInv, Live, Awaiting
      <3> QED BY <1>9, <3>1, <3>2 DEF LiveTurnRetained, TypeOK, Inputs
    <2>2. turns'[input[g].key] = g
      BY <1>3, <1>5, <2>1
    <2> QED BY <1>2, <2>2
  <1> QED BY <1>3, <1>4, <1>5, <1>8, <1>12, <1>13

LEMMA ProgressInv ==
    ASSUME Inv, NEW h \in Handles, Progress(h)
    PROVE  Inv'
  <1> USE DEF Inv
  <1>1. MayRun(h) /\ (Settle(h) \/ \E q \in Awaiting : \E new : Suspend(h, q, new))
    BY ProgressShape
  <1>2. /\ events' \in [Handles -> Seq(EventTypes)]
        /\ activity' \in [Handles -> Seq(ClosingStages)]
        /\ stored' \in [Handles -> BOOLEAN]
    BY ProgressTyped
  <1>3. CASE Settle(h)
    <2>1. TypeOK'
      BY <1>1, <1>2, <1>3, SettleInv DEF Settle, TypeOK
    <2> QED BY <1>1, <1>3, <2>1, SettleInv
  <1>4. ASSUME NEW q \in Awaiting, NEW new, Suspend(h, q, new) PROVE Inv'
    <2>1. TypeOK'
      BY <1>2, <1>4 DEF Suspend, TypeOK, Phases
    <2> QED BY <1>1, <1>4, <2>1, SuspendInv
  <1> QED BY <1>1, <1>3, <1>4

LEMMA TickInv == Inv /\ Tick => Inv'
  <1> SUFFICES ASSUME Inv, Tick PROVE Inv'
    OBVIOUS
  <1> USE DEF Inv, Tick, handleVars
  <1>1. TypeOK'
    BY BoundsAssumption DEF TypeOK
  <1>2. ChainInv' /\ LiveTurnRetained'
    BY DEF ChainInv, LiveTurnRetained, Live, Thread
  <1> QED BY <1>1, <1>2

LEMMA StutterInv == Inv /\ UNCHANGED vars => Inv'
  BY DEF Inv, vars, TypeOK, ChainInv, LiveTurnRetained, Live, Thread

(* The state of the coordinator always has its types, the queue of every   *)
(* thread is a proper promise chain, and live turns are in the map.        *)
THEOREM Invariance == Spec => []Inv
  <1>1. ASSUME Inv, [Next]_vars PROVE Inv'
    <2>1. CASE Lookup
      BY <1>1, <2>1, PruneOnlyInv DEF Lookup, PruneOnly
    <2>2. ASSUME NEW k \in Keys, RejoinTurn(k) PROVE Inv'
      BY <1>1, <2>2, PruneOnlyInv DEF RejoinTurn, PruneOnly
    <2>3. ASSUME NEW k \in Keys, NEW subject \in BOOLEAN, CreateTurn(k, subject) PROVE Inv'
      BY <1>1, <2>3, CreateInv
    <2>4. ASSUME NEW h \in Handles, Progress(h) PROVE Inv'
      BY <1>1, <2>4, ProgressInv
    <2> QED BY <1>1, <2>1, <2>2, <2>3, <2>4, TickInv, StutterInv DEF Next
  <1> QED BY <1>1, InitInv, PTL DEF Spec

(* The type invariant of the coordinator (createChatCoordinator's maps and *)
(* the fields of the handles).                                             *)
THEOREM TypeCorrect == Spec => []TypeOK
  BY Invariance, PTL DEF Inv

(* Pruning by age or by count never drops a turn that waits or runs, so    *)
(* that a reconnecting client always finds it (getTurn, getOrCreateTurn).  *)
THEOREM LiveTurnsRetained == Spec => []LiveTurnRetained
  BY Invariance, PTL DEF Inv

(* Turns of one thread never overlap and run in the order of creation,     *)
(* for any interleaving of creation, completion and queue-entry removal.   *)
THEOREM SerialTurns == Spec => []SerialPerThread
  <1>1. Inv => SerialPerThread
    <2> SUFFICES ASSUME Inv, NEW g \in 1 .. created, NEW h \in 1 .. created,
                        g < h, Thread(g) = Thread(h), phase[h] # "queued"
                 PROVE  phase[g] = "settled"
      BY DEF SerialPerThread
    <2>1. ~Live(g)
      BY DEF Inv, ChainInv
    <2>2. g \in Handles /\ ~(g > created)
      BY BoundsAssumption DEF Inv, TypeOK, Handles
    <2>3. phase[g] \in Phases /\ phase[g] # "unused"
      BY <2>2 DEF Inv, TypeOK, ChainInv
    <2> QED BY <2>1, <2>3 DEF Live, Phases
  <1> QED BY <1>1, Invariance, PTL

-----------------------------------------------------------------------------
(* The log.  While a handle lives its log holds nothing that closes it; it *)
(* is empty until a runner is entered, so that turn.started comes once.    *)
Terminal == {"turn.completed", "turn.error"}
Promises == {"snapshot.sealed", "turn.completed"}
Opens(log) == \A i \in DOMAIN log : (log[i] = "turn.started") <=> (i = 1)
Plain(new) == \A i \in DOMAIN new : new[i] \notin {"turn.started"} \cup Terminal \cup Promises
Running(log) == Opens(log) /\ \A i \in DOMAIN log : log[i] \notin Terminal \cup Promises

Ended(log) ==
    /\ log # <<>> /\ Opens(log)
    /\ \A i \in DOMAIN log : (log[i] \in Terminal) <=> (i = Len(log))

(* What a runner emits last: it ends with the only terminal event. *)
Closes(new) ==
    /\ new # <<>>
    /\ \A i \in DOMAIN new : (new[i] \in Terminal) <=> (i = Len(new))

LogInv ==
    \A h \in Handles :
        /\ phase[h] \in {"unused", "queued", "resolving"} => events[h] = <<>>
        /\ phase[h] # "settled" => Running(events[h]) /\ activity[h] = <<>>
        /\ phase[h] = "settled" =>
              /\ Ended(events[h])
              /\ activity[h] = IF events[h][Len(events[h])] = "turn.completed"
                               THEN <<"found">> ELSE <<"dismissed">>
        /\ (\E i \in DOMAIN events[h] : events[h][i] \in Promises) => stored[h]

(* Emissions keep the log of a live handle open ...                        *)
LEMMA PlainRuns ==
    ASSUME NEW log \in Seq(EventTypes), Running(log), NEW new \in Seq(EventTypes), Plain(new)
    PROVE  Running(Appended(log, new))
  <1>1. <<"turn.started">> \in Seq(EventTypes)
    BY DEF EventTypes
  <1>2. ASSUME NEW l \in Seq(EventTypes), l # <<>>, Running(l) PROVE Running(l \o new)
    BY <1>2 DEF Running, Opens, Plain, Terminal, Promises
  <1>3. Running(<<"turn.started">>)
    BY DEF Running, Opens, Terminal, Promises
  <1>4. CASE log # <<>>
    BY <1>2, <1>4 DEF Appended
  <1>5. CASE log = <<>> /\ new = <<>>
    <2>1. log \o new = log /\ <<"turn.started">> \o new = <<"turn.started">>
      BY <1>1, <1>5, ConcatEmptySeq
    <2> QED BY <1>3, <2>1 DEF Appended
  <1>6. CASE log = <<>> /\ new # <<>>
    <2>1. Head(new) # "turn.started"
      BY <1>6 DEF Plain
    <2>2. <<"turn.started">> # <<>>
      OBVIOUS
    <2> QED BY <1>1, <1>2, <1>3, <1>6, <2>1, <2>2, Zenon DEF Appended
  <1> QED BY <1>4, <1>5, <1>6

LEMMA BegunRuns ==
    ASSUME NEW tail \in Seq(EventTypes), Plain(tail)
    PROVE  Running(Appended(<<>>, <<"turn.started">> \o tail))
  <1> DEFINE new == <<"turn.started">> \o tail
  <1>1. <<"turn.started">> \in Seq(EventTypes)
    BY DEF EventTypes
  <1>2. new \in Seq(EventTypes) /\ new # <<>> /\ Head(new) = "turn.started"
    BY <1>1
  <1>3. Running(new)
    BY <1>1 DEF Running, Opens, Plain, Terminal, Promises
  <1>4. Appended(<<>>, new) = new
    <2> HIDE DEF new
    <2> QED BY <1>2, ConcatEmptySeq DEF Appended
  <1> QED BY <1>3, <1>4

(* ... and the last emission of a run ends it.                             *)
LEMMA ClosesRun ==
    ASSUME NEW log \in Seq(EventTypes), Running(log), NEW new \in Seq(EventTypes), Closes(new),
           \A i \in DOMAIN new : new[i] # "turn.started"
    PROVE  /\ Ended(Appended(log, new))
           /\ Appended(log, new)[Len(Appended(log, new))] = new[Len(new)]
           /\ \A i \in DOMAIN Appended(log, new) :
                 Appended(log, new)[i] \in Promises => \E j \in DOMAIN new : new[j] \in Promises
  <1> DEFINE Goal(l) == /\ Ended(l)
                        /\ l[Len(l)] = new[Len(new)]
                        /\ \A i \in DOMAIN l :
                              l[i] \in Promises => \E j \in DOMAIN new : new[j] \in Promises
  <1>1. <<"turn.started">> \in Seq(EventTypes)
    BY DEF EventTypes
  <1>2. Running(<<"turn.started">>)
    BY DEF Running, Opens, Terminal, Promises
  <1>3. ASSUME NEW l \in Seq(EventTypes), l # <<>>, Running(l) PROVE Goal(l \o new)
    <2>1. /\ l \o new \in Seq(EventTypes) /\ Len(l \o new) = Len(l) + Len(new)
          /\ Len(l) \in Nat \ {0} /\ Len(new) \in Nat \ {0}
      BY <1>3 DEF Closes
    <2>2. \A i \in DOMAIN l : (l \o new)[i] = l[i]
      BY <1>3
    <2>3. \A i \in DOMAIN (l \o new) \ DOMAIN l :
             i - Len(l) \in DOMAIN new /\ (l \o new)[i] = new[i - Len(l)]
      BY <1>3
    <2>4. Ended(l \o new)
      <3>1. Opens(l \o new)
        BY <1>3, <2>1, <2>2, <2>3 DEF Opens, Running
      <3>2. ASSUME NEW i \in DOMAIN (l \o new)
            PROVE  ((l \o new)[i] \in Terminal) <=> (i = Len(l \o new))
        <4>1. CASE i \in DOMAIN l
          <5>1. l[i] \notin Terminal /\ (l \o new)[i] = l[i]
            BY <1>3, <2>2, <4>1 DEF Running
          <5>2. i # Len(l \o new)
            BY <1>3, <2>1, <4>1
          <5> QED BY <5>1, <5>2
        <4>2. CASE i \notin DOMAIN l
          <5>1. i - Len(l) \in DOMAIN new /\ (l \o new)[i] = new[i - Len(l)]
            BY <2>3, <4>2
          <5>2. (new[i - Len(l)] \in Terminal) <=> (i - Len(l) = Len(new))
            BY <5>1 DEF Closes
          <5>3. i \in Nat
            BY <2>1
          <5> QED BY <2>1, <5>1, <5>2, <5>3
        <4> QED BY <4>1, <4>2
      <3> QED BY <2>1, <3>1, <3>2 DEF Ended
    <2>5. (l \o new)[Len(l \o new)] = new[Len(new)]
      BY <1>3, <2>1
    <2>6. ASSUME NEW i \in DOMAIN (l \o new), (l \o new)[i] \in Promises
          PROVE  \E j \in DOMAIN new : new[j] \in Promises
      BY <1>3, <2>2, <2>3, <2>6 DEF Running
    <2> QED BY <2>4, <2>5, <2>6
  <1>4. CASE log # <<>>
    <2> HIDE DEF Goal
    <2>1. Goal(log \o new)
      BY <1>3, <1>4
    <2>2. Appended(log, new) = log \o new
      BY <1>4 DEF Appended
    <2> QED BY <2>1, <2>2 DEF Goal
  <1>5. CASE log = <<>>
    <2>1. Head(new) # "turn.started" /\ <<"turn.started">> # <<>>
      BY DEF Closes
    <2> HIDE DEF Goal
    <2>2. Goal(<<"turn.started">> \o new)
      BY <1>1, <1>2, <1>3, <2>1
    <2>3. Appended(log, new) = <<"turn.started">> \o new
      BY <1>5, <2>1, Zenon DEF Appended
    <2> QED BY <2>2, <2>3 DEF Goal
  <1> QED BY <1>4, <1>5

(* A runner's first emission begins with turn.started, as emit would.      *)
LEMMA BegunSame ==
    ASSUME NEW new \in Seq(EventTypes), new # <<>>, Head(new) # "turn.started"
    PROVE  Appended(<<>>, <<"turn.started">> \o new) = Appended(<<>>, new)
  <1> DEFINE begun == <<"turn.started">> \o new
  <1>1. <<"turn.started">> \in Seq(EventTypes)
    BY DEF EventTypes
  <1>2. begun \in Seq(EventTypes) /\ begun # <<>> /\ Head(begun) = "turn.started"
    BY <1>1
  <1>3. Appended(<<>>, begun) = begun
    <2> HIDE DEF begun
    <2> QED BY <1>2, ConcatEmptySeq DEF Appended
  <1>4. Appended(<<>>, new) = begun
    BY DEF Appended
  <1> QED BY <1>3, <1>4

(* The stage that is reported for what a runner emits.                     *)
LEMMA StageReported ==
    ASSUME NEW new \in Seq(EventTypes)
    PROVE  /\ Plain(new) => Reported(new) = <<>>
           /\ Closes(new) => Reported(new) = IF new[Len(new)] = "turn.completed"
                                             THEN <<"found">> ELSE <<"dismissed">>
  <1>1. ASSUME Plain(new) PROVE Reported(new) = <<>>
    BY <1>1 DEF Plain, Terminal, Promises, Reported
  <1>2. ASSUME Closes(new)
        PROVE  Reported(new) = IF new[Len(new)] = "turn.completed"
                               THEN <<"found">> ELSE <<"dismissed">>
    <2>1. Len(new) \in DOMAIN new /\ new[Len(new)] \in Terminal
      BY <1>2 DEF Closes
    <2>2. (\E i \in DOMAIN new : new[i] = "turn.completed") <=> new[Len(new)] = "turn.completed"
      BY <1>2, <2>1 DEF Closes, Terminal
    <2>3. new[Len(new)] # "turn.completed" => \E i \in DOMAIN new : new[i] = "turn.error"
      BY <2>1 DEF Terminal
    <2> QED BY <2>2, <2>3, Zenon DEF Reported
  <1> QED BY <1>1, <1>2

(* What a runner emits before it suspends or is about to return.           *)
LEMMA Emissions ==
    /\ \A new \in {<<>>, ToolEvents, <<"snapshot.staged">>} : new \in Seq(EventTypes) /\ Plain(new)
    /\ Answer \in Seq(EventTypes) /\ Closes(Answer) /\ Answer[Len(Answer)] = "turn.completed"
    /\ \A i \in DOMAIN Answer : Answer[i] # "turn.started"
    /\ <<"turn.error">> \in Seq(EventTypes) /\ Closes(<<"turn.error">>)
  BY DEF EventTypes, ToolEvents, Answer, Plain, Closes, Terminal, Promises

(* A plain emission followed by turn.error is a failure.                   *)
Failure(new) ==
    /\ new \in Seq(EventTypes) /\ Closes(new) /\ new[Len(new)] = "turn.error"
    /\ \A i \in DOMAIN new : new[i] # "turn.started" /\ new[i] \notin Promises

LEMMA PlainConcat ==
    ASSUME NEW s \in Seq(EventTypes), Plain(s), NEW t \in Seq(EventTypes), Plain(t)
    PROVE  s \o t \in Seq(EventTypes) /\ Plain(s \o t)
  BY DEF Plain

LEMMA Failures ==
    ASSUME NEW s \in Seq(EventTypes), Plain(s)
    PROVE  Failure(s \o <<"turn.error">>)
  <1>1. <<"turn.error">> \in Seq(EventTypes)
    BY DEF EventTypes
  <1>2. /\ s \o <<"turn.error">> \in Seq(EventTypes)
        /\ Len(s \o <<"turn.error">>) = Len(s) + 1
        /\ (s \o <<"turn.error">>)[Len(s) + 1] = "turn.error"
        /\ \A i \in DOMAIN (s \o <<"turn.error">>) :
              i # Len(s) + 1 => i \in DOMAIN s /\ (s \o <<"turn.error">>)[i] = s[i]
    BY <1>1
  <1>3. "turn.error" \in Terminal \ Promises
    BY DEF Terminal, Promises
  <1> QED BY <1>2, <1>3 DEF Failure, Closes, Plain

-----------------------------------------------------------------------------
(* A step of a run that suspends it, after a plain emission or none.       *)
LEMMA SuspendLog ==
    ASSUME TypeOK, LogInv, NEW h \in Handles, NEW q \in Awaiting, NEW new, Suspend(h, q, new),
           phase[h] # "settled", UNCHANGED stored, Reported(new) = <<>>,
           IF new = <<>> THEN q = "resolving" => events[h] = <<>>
           ELSE q # "resolving" /\ Running(Appended(events[h], new))
    PROVE  LogInv'
  <1> SUFFICES ASSUME NEW g \in Handles
               PROVE  /\ phase'[g] \in {"unused", "queued", "resolving"} => events'[g] = <<>>
                      /\ phase'[g] # "settled" => Running(events'[g]) /\ activity'[g] = <<>>
                      /\ phase'[g] = "settled" =>
                           /\ Ended(events'[g])
                           /\ activity'[g] = IF events'[g][Len(events'[g])] = "turn.completed"
                                             THEN <<"found">> ELSE <<"dismissed">>
                      /\ (\E i \in DOMAIN events'[g] : events'[g][i] \in Promises) => stored'[g]
    BY DEF LogInv
  <1>1. CASE g # h
    <2>1. phase'[g] = phase[g] /\ events'[g] = events[g] /\ activity'[g] = activity[g]
      BY <1>1 DEF Suspend, TypeOK
    <2> QED BY <2>1 DEF LogInv
  <1>2. CASE g = h
    <2>1. phase'[h] = q /\ q \notin {"settled", "unused", "queued"}
      BY DEF Suspend, TypeOK, Awaiting
    <2>2. activity'[h] = <<>>
      <3>1. activity[h] = <<>> /\ activity'[h] = activity[h] \o <<>>
        BY DEF Suspend, TypeOK, LogInv
      <3> QED BY <3>1
    <2>3. events'[h] = IF new = <<>> THEN events[h] ELSE Appended(events[h], new)
      BY DEF Suspend, TypeOK
    <2>4. Running(events'[h]) /\ (q = "resolving" => events'[h] = <<>>)
      BY <2>3 DEF LogInv
    <2>5. ~\E i \in DOMAIN events'[h] : events'[h][i] \in Promises
      BY <2>4 DEF Running
    <2> QED BY <1>2, <2>1, <2>2, <2>4, <2>5
  <1> QED BY <1>1, <1>2

(* A step of a run that ends it.                                           *)
LEMMA SettleLog ==
    ASSUME TypeOK, LogInv, NEW h \in Handles, phase[h] # "settled",
           NEW new \in Seq(EventTypes), Closes(new), \A i \in DOMAIN new : new[i] # "turn.started",
           NEW begun, Appended(events[h], begun) = Appended(events[h], new),
           phase' = [phase EXCEPT ![h] = "settled"],
           events' = [events EXCEPT ![h] = Appended(@, begun)],
           activity' = [activity EXCEPT ![h] = IF new[Len(new)] = "turn.completed"
                                               THEN <<"found">> ELSE <<"dismissed">>],
           \/ stored' = [stored EXCEPT ![h] = TRUE]
           \/ stored' = stored /\ \A i \in DOMAIN new : new[i] \notin Promises
    PROVE  LogInv'
  <1> SUFFICES ASSUME NEW g \in Handles
               PROVE  /\ phase'[g] \in {"unused", "queued", "resolving"} => events'[g] = <<>>
                      /\ phase'[g] # "settled" => Running(events'[g]) /\ activity'[g] = <<>>
                      /\ phase'[g] = "settled" =>
                           /\ Ended(events'[g])
                           /\ activity'[g] = IF events'[g][Len(events'[g])] = "turn.completed"
                                             THEN <<"found">> ELSE <<"dismissed">>
                      /\ (\E i \in DOMAIN events'[g] : events'[g][i] \in Promises) => stored'[g]
    BY DEF LogInv
  <1>1. CASE g # h
    <2>1. /\ phase'[g] = phase[g] /\ events'[g] = events[g] /\ activity'[g] = activity[g]
          /\ stored'[g] = stored[g]
      BY <1>1 DEF TypeOK
    <2> QED BY <2>1 DEF LogInv
  <1>2. CASE g = h
    <2>1. phase'[h] = "settled" /\ events'[h] = Appended(events[h], new)
      BY DEF TypeOK
    <2>2. activity'[h] = IF new[Len(new)] = "turn.completed" THEN <<"found">> ELSE <<"dismissed">>
      BY DEF TypeOK
    <2>3. Running(events[h]) /\ events[h] \in Seq(EventTypes)
      BY DEF LogInv, TypeOK
    <2>4. /\ Ended(events'[h]) /\ events'[h][Len(events'[h])] = new[Len(new)]
          /\ (\E i \in DOMAIN events'[h] : events'[h][i] \in Promises) =>
                \E j \in DOMAIN new : new[j] \in Promises
      BY <2>1, <2>3, ClosesRun
    <2>5. (\E i \in DOMAIN events'[h] : events'[h][i] \in Promises) => stored'[h]
      BY <2>4 DEF TypeOK
    <2> QED BY <1>2, <2>1, <2>2, <2>4, <2>5
  <1> QED BY <1>1, <1>2

(* A runner that returns with an error, and one that throws.               *)
LEMMA ReturnFailureLog ==
    ASSUME TypeOK, LogInv, NEW h \in Handles, phase[h] # "settled",
           NEW s \in Seq(EventTypes), Plain(s), NEW begun, Return(h, begun), UNCHANGED stored,
           Reported(begun) = <<"dismissed">>,
           Appended(events[h], begun) = Appended(events[h], s \o <<"turn.error">>)
    PROVE  LogInv'
  <1> DEFINE new == s \o <<"turn.error">>
  <1>1. Failure(new)
    BY Failures
  <1> HIDE DEF new
  <1>2. activity[h] \o Reported(begun) = <<"dismissed">>
    <2>1. activity[h] = <<>>
      BY DEF LogInv
    <2> QED BY <2>1
  <1>3. activity' = [activity EXCEPT ![h] = IF new[Len(new)] = "turn.completed"
                                            THEN <<"found">> ELSE <<"dismissed">>]
    BY <1>1, <1>2 DEF Failure, Return, TypeOK
  <1>4. /\ phase' = [phase EXCEPT ![h] = "settled"]
        /\ events' = [events EXCEPT ![h] = Appended(@, begun)]
    BY DEF Return, Settle
  <1>5. Appended(events[h], begun) = Appended(events[h], new)
    BY DEF new
  <1> QED BY <1>1, <1>3, <1>4, <1>5, SettleLog DEF Failure

LEMMA ThrowLog ==
    ASSUME TypeOK, LogInv, NEW h \in Handles, phase[h] # "settled", Throw(h),
           stored' = stored \/ stored' = [stored EXCEPT ![h] = TRUE]
    PROVE  LogInv'
  <1> DEFINE new == <<"turn.error">>
  <1>1. /\ new \in Seq(EventTypes) /\ Closes(new)
        /\ \A i \in DOMAIN new : new[i] \notin {"turn.started"} \cup Promises
        /\ new[Len(new)] # "turn.completed"
    BY Emissions DEF Promises
  <1> HIDE DEF new
  <1>2. Append(activity[h], "dismissed") = <<"dismissed">>
    <2>1. activity[h] = <<>>
      BY DEF LogInv
    <2> QED BY <2>1
  <1>3. activity' = [activity EXCEPT ![h] = IF new[Len(new)] = "turn.completed"
                                            THEN <<"found">> ELSE <<"dismissed">>]
    BY <1>1, <1>2 DEF Throw, TypeOK
  <1>4. /\ phase' = [phase EXCEPT ![h] = "settled"]
        /\ events' = [events EXCEPT ![h] = Appended(@, new)]
    BY DEF Throw, Settle, new
  <1> QED BY <1>1, <1>3, <1>4, SettleLog

(* The base runner is entered with an empty log, and begins it.            *)
LEMMA EnterLog ==
    ASSUME TypeOK, LogInv, NEW h \in Handles, phase[h] \in {"queued", "resolving"},
           NEW s \in {<<>>, ToolEvents}, EnterRunner(h, <<"turn.started">> \o s), UNCHANGED stored
    PROVE  LogInv'
  <1> DEFINE begun(t) == <<"turn.started">> \o t
  <1>1. events[h] = <<>> /\ phase[h] # "settled"
    BY DEF LogInv
  <1>2. s \in Seq(EventTypes) /\ Plain(s) /\ ToolEvents \in Seq(EventTypes) /\ Plain(ToolEvents)
    BY Emissions
  <1>3. s \o ToolEvents \in Seq(EventTypes) /\ Plain(s \o ToolEvents)
    BY <1>2, PlainConcat
  <1>4. <<"turn.started">> \in Seq(EventTypes) /\ <<"turn.error">> \in Seq(EventTypes)
    BY DEF EventTypes
  <1>5. /\ begun(s) \o ToolEvents = begun(s \o ToolEvents)
        /\ begun(s) \o <<"turn.error">> = begun(s \o <<"turn.error">>)
    BY <1>2, <1>4, ConcatAssociative
  <1>6. ASSUME NEW t \in Seq(EventTypes), Plain(t), NEW q \in Awaiting \ {"resolving"},
               Suspend(h, q, begun(t))
        PROVE  LogInv'
    <2>1. Running(Appended(events[h], begun(t)))
      BY <1>1, <1>6, BegunRuns
    <2>2. Reported(begun(t)) = <<>>
      BY <1>4, <1>6 DEF Reported, Plain, Terminal, Promises
    <2>3. begun(t) # <<>>
      BY <1>4, <1>6
    <2> HIDE DEF begun
    <2> QED BY <1>1, <1>6, <2>1, <2>2, <2>3, SuspendLog
  <1>7. CASE runner = "tool_backed" /\ Suspend(h, "calling", begun(s))
    BY <1>2, <1>6, <1>7 DEF Awaiting
  <1>8. CASE Suspend(h, "persisting", IF input[h].subject THEN begun(s) ELSE begun(s) \o ToolEvents)
    <2>1. Suspend(h, "persisting", begun(s)) \/ Suspend(h, "persisting", begun(s \o ToolEvents))
      BY <1>5, <1>8
    <2> HIDE DEF begun
    <2> QED BY <1>2, <1>3, <1>6, <2>1 DEF Awaiting
  <1>9. CASE Return(h, begun(s) \o <<"turn.error">>)
    <2> DEFINE new == s \o <<"turn.error">>
    <2>1. Failure(new)
      BY <1>2, Failures
    <2>2. new # <<>> /\ Head(new) # "turn.started"
      BY <2>1 DEF Failure, Closes
    <2> HIDE DEF new
    <2>3. Appended(events[h], begun(new)) = Appended(events[h], new)
      BY <1>1, <2>1, <2>2, BegunSame DEF Failure
    <2>4. Reported(begun(new)) = <<"dismissed">>
      <3>1. /\ begun(new)[Len(new) + 1] = "turn.error" /\ Len(new) + 1 \in DOMAIN begun(new)
            /\ \A i \in DOMAIN begun(new) : begun(new)[i] # "turn.completed"
        BY <1>4, <2>1, <2>2 DEF Failure, Closes, Promises
      <3> HIDE DEF begun
      <3> QED BY <3>1, Zenon DEF Reported
    <2>5. Return(h, begun(new))
      BY <1>5, <1>9 DEF new
    <2> HIDE DEF begun
    <2> QED BY <1>1, <1>2, <2>3, <2>4, <2>5, ReturnFailureLog DEF new
  <1> QED BY <1>7, <1>8, <1>9 DEF EnterRunner

LEMMA ProgressLog ==
    ASSUME TypeOK, LogInv, NEW h \in Handles, Progress(h)
    PROVE  LogInv'
  <1>1. CASE Start(h)
    <2>1. phase[h] = "queued" /\ events[h] = <<>> /\ UNCHANGED stored
      BY <1>1 DEF Start, LogInv
    <2>2. CASE Suspend(h, "resolving", <<>>)
      BY <2>1, <2>2, Emissions, StageReported, SuspendLog DEF Awaiting
    <2>3. CASE EnterRunner(h, <<"turn.started">>)
      <3>1. <<"turn.started">> \o <<>> = <<"turn.started">>
        OBVIOUS
      <3>2. EnterRunner(h, <<"turn.started">> \o <<>>)
        BY <2>3, <3>1
      <3> QED BY <2>1, <3>2, EnterLog
    <2> QED BY <1>1, <2>2, <2>3 DEF Start
  <1>2. CASE SubjectResolved(h)
    BY <1>2, EnterLog DEF SubjectResolved
  <1>3. CASE SubjectUnresolved(h)
    <2>1. phase[h] = "resolving" /\ events[h] = <<>> /\ UNCHANGED stored
      BY <1>3 DEF SubjectUnresolved, LogInv
    <2> DEFINE new == <<"turn.started">> \o ToolEvents
    <2>2. Running(Appended(events[h], new))
      BY <2>1, Emissions, BegunRuns
    <2>3. Reported(new) = <<>> /\ new # <<>>
      BY DEF Reported, ToolEvents
    <2>4. Suspend(h, "rendering", new)
      BY <1>3 DEF SubjectUnresolved
    <2> HIDE DEF new
    <2> QED BY <2>1, <2>2, <2>3, <2>4, SuspendLog DEF Awaiting
  <1>4. CASE ClarificationRendered(h)
    <2>1. Reported(<<>>) = <<>>
      BY Emissions, StageReported
    <2> QED BY <1>4, <2>1, SuspendLog DEF ClarificationRendered, Awaiting
  <1>5. CASE RuntimeVerified(h)
    <2>1. PICK calls \in {<<>>, ToolEvents} : Suspend(h, "persisting", calls)
      BY <1>5 DEF RuntimeVerified
    <2>2. calls \in Seq(EventTypes) /\ Plain(calls) /\ Reported(calls) = <<>>
      BY Emissions, StageReported
    <2>3. phase[h] = "calling" /\ UNCHANGED stored
      BY <1>5 DEF RuntimeVerified
    <2>4. Running(events[h]) /\ events[h] \in Seq(EventTypes)
      BY <2>3 DEF LogInv, TypeOK
    <2>5. Running(Appended(events[h], calls))
      BY <2>2, <2>4, PlainRuns
    <2> QED BY <2>1, <2>2, <2>3, <2>5, SuspendLog DEF Awaiting
  <1>6. CASE RuntimeUnverified(h)
    <2>1. PICK calls \in {<<>>, ToolEvents} : Return(h, calls \o <<"snapshot.staged", "turn.error">>)
      BY <1>6 DEF RuntimeUnverified
    <2> DEFINE s == calls \o <<"snapshot.staged">>
    <2>2. s \in Seq(EventTypes) /\ Plain(s)
      BY Emissions, PlainConcat
    <2>3. calls \o <<"snapshot.staged", "turn.error">> = s \o <<"turn.error">>
      <3>1. <<"snapshot.staged">> \in Seq(EventTypes) /\ <<"turn.error">> \in Seq(EventTypes)
            /\ calls \in Seq(EventTypes)
        BY Emissions
      <3>2. <<"snapshot.staged">> \o <<"turn.error">> = <<"snapshot.staged", "turn.error">>
        <4> DEFINE t == <<"snapshot.staged">> \o <<"turn.error">>
                   u == <<"snapshot.staged", "turn.error">>
        <4>1. u \in Seq(EventTypes) /\ Len(u) = 2 /\ u[1] = "snapshot.staged" /\ u[2] = "turn.error"
          BY DEF EventTypes
        <4>2. /\ t \in Seq(EventTypes) /\ Len(t) = 1 + 1
              /\ \A i \in 1 .. 1 + 1 : t[i] = IF i <= 1 THEN <<"snapshot.staged">>[i]
                                             ELSE <<"turn.error">>[i - 1]
          BY <3>1, ConcatProperties
        <4> HIDE DEF t, u
        <4>3. t = u
          BY <4>1, <4>2, SeqEqual
        <4> QED BY <4>3 DEF t, u
      <3> QED BY <3>1, <3>2, ConcatAssociative
    <2> HIDE DEF s
    <2>4. Failure(s \o <<"turn.error">>)
      BY <2>2, Failures
    <2>5. Reported(s \o <<"turn.error">>) = <<"dismissed">>
      BY <2>4, StageReported DEF Failure
    <2> QED BY <1>6, <2>1, <2>2, <2>3, <2>5, ReturnFailureLog DEF RuntimeUnverified
  <1>7. CASE Persisted(h)
    <2>1. phase[h] # "settled" /\ stored' = [stored EXCEPT ![h] = TRUE] /\ Return(h, Answer)
      BY <1>7 DEF Persisted
    <2>2. /\ Reported(Answer) = <<"found">> /\ Closes(Answer) /\ Answer \in Seq(EventTypes)
          /\ Answer[Len(Answer)] = "turn.completed" /\ \A i \in DOMAIN Answer : Answer[i] # "turn.started"
      BY Emissions, StageReported
    <2>3. activity[h] \o <<"found">> = <<"found">>
      <3>1. activity[h] = <<>>
        BY <2>1 DEF LogInv
      <3> QED BY <3>1
    <2>4. activity' = [activity EXCEPT ![h] = IF Answer[Len(Answer)] = "turn.completed"
                                              THEN <<"found">> ELSE <<"dismissed">>]
      BY <2>1, <2>2, <2>3 DEF Return, TypeOK
    <2>5. /\ phase' = [phase EXCEPT ![h] = "settled"]
          /\ events' = [events EXCEPT ![h] = Appended(@, Answer)]
      BY <2>1 DEF Return, Settle
    <2> QED BY <2>1, <2>2, <2>4, <2>5, SettleLog
  <1>8. CASE AwaitRejected(h)
    BY <1>8, ThrowLog DEF AwaitRejected, Awaiting
  <1> QED BY <1>1, <1>2, <1>3, <1>4, <1>5, <1>6, <1>7, <1>8 DEF Progress

(* On every path a runner can return, throw or be pre-empted on, the log   *)
(* of a turn has one beginning and one end, tells of nothing that is not   *)
(* stored, and the run-activity feed closes the run once and as the log    *)
(* does (emit, run, withRunActivity, persistAssistantMessage).             *)
THEOREM LogsAreFaithful == Spec => []LogsFaithful
  <1>1. Init => LogInv
    BY DEF Init, LogInv, Running, Opens
  <1>2. ASSUME TypeOK, ChainInv, LogInv, [Next]_vars PROVE LogInv'
    <2>1. CASE UNCHANGED <<phase, events, activity, stored>>
      BY <1>2, <2>1 DEF LogInv
    <2>2. CASE Tick \/ Lookup \/ (\E k \in Keys : RejoinTurn(k)) \/ UNCHANGED vars
      BY <2>1, <2>2 DEF Tick, Lookup, RejoinTurn, vars, handleVars
    <2>3. ASSUME NEW k \in Keys, NEW subject \in BOOLEAN, CreateTurn(k, subject) PROVE LogInv'
      <3>1. PICK n : n = created + 1
        OBVIOUS
      <3>2. phase' = [phase EXCEPT ![n] = "queued"] /\ UNCHANGED <<events, activity, stored>>
        BY <2>3, <3>1 DEF CreateTurn
      <3>3. n \in Handles => phase[n] = "unused"
        BY <1>2, <3>1, BoundsAssumption DEF TypeOK, ChainInv, Handles
      <3> QED BY <1>2, <3>2, <3>3 DEF LogInv, TypeOK
    <2>4. ASSUME NEW h \in Handles, Progress(h) PROVE LogInv'
      BY <1>2, <2>4, ProgressLog
    <2> QED BY <1>2, <2>2, <2>3, <2>4 DEF Next
  <1>3. TypeOK /\ LogInv => LogsFaithful
    <2> SUFFICES ASSUME TypeOK, LogInv, NEW h \in 1 .. created
                 PROVE  /\ Opens(events[h])
                        /\ \A i \in DOMAIN events[h] : events[h][i] \in Terminal =>
                              i = Len(events[h]) /\ phase[h] = "settled"
                        /\ \A i \in DOMAIN events[h] : events[h][i] \in Promises => stored[h]
                        /\ IF phase[h] = "settled"
                           THEN /\ events[h] # <<>> /\ events[h][Len(events[h])] \in Terminal
                                /\ activity[h] = IF events[h][Len(events[h])] = "turn.completed"
                                                 THEN <<"found">> ELSE <<"dismissed">>
                           ELSE activity[h] = <<>>
      BY DEF LogsFaithful, Opens, Terminal, Promises
    <2>1. h \in Handles
      BY BoundsAssumption DEF TypeOK, Handles
    <2>2. events[h] \in Seq(EventTypes)
      BY <2>1 DEF TypeOK
    <2>3. CASE phase[h] = "settled"
      <3>1. Ended(events[h])
        BY <2>1, <2>3 DEF LogInv
      <3>2. events[h][Len(events[h])] \in Terminal
        BY <2>2, <3>1 DEF Ended
      <3> QED BY <2>1, <2>3, <3>1, <3>2 DEF LogInv, Ended
    <2>4. CASE phase[h] # "settled"
      BY <2>1, <2>4 DEF LogInv, Running
    <2> QED BY <2>3, <2>4
  <1>4. Inv => TypeOK /\ ChainInv
    BY DEF Inv
  <1> QED BY <1>1, <1>2, <1>3, <1>4, Invariance, PTL DEF Spec


-----------------------------------------------------------------------------
(* Retention.  Of the turns that have settled the map keeps a record, or   *)
(* their key a tombstone, until they may be forgotten.                     *)
LEMMA ImageFinite ==
    ASSUME NEW D, IsFiniteSet(D), NEW f
    PROVE  IsFiniteSet({f[x] : x \in D})
  <1> DEFINE g == [x \in D |-> f[x]]
             T == {f[x] : x \in D}
  <1>1. g \in [D -> T] /\ \A t \in T : \E x \in D : g[x] = t
    OBVIOUS
  <1>2. g \in Surjection(D, T)
    BY <1>1 DEF Surjection
  <1> QED BY <1>2, FS_Surjection

(* What pruning drops was too old, or the limit is used up by what stays.  *)
LEMMA DroppedFor ==
    ASSUME NEW S, IsFiniteSet(S), NEW at, NEW cutoff, NEW limit \in Nat,
           NEW kept \in Remaining(S, at, cutoff, limit), NEW x \in S, x \notin kept
    PROVE  ~(at[x] >= cutoff) \/ Cardinality(kept) = limit
  <1> SUFFICES ASSUME at[x] >= cutoff PROVE Cardinality(kept) = limit
    OBVIOUS
  <1> DEFINE fresh == {y \in S : at[y] >= cutoff}
  <1>1. /\ kept \in SUBSET fresh
        /\ Cardinality(kept) = IF Cardinality(fresh) <= limit THEN Cardinality(fresh) ELSE limit
    BY DEF Remaining
  <1>2. fresh \in SUBSET S /\ x \in fresh
    OBVIOUS
  <1> HIDE DEF fresh
  <1>3. IsFiniteSet(fresh)
    BY <1>2, FS_Subset
  <1>4. Cardinality(fresh) # Cardinality(kept)
    BY <1>1, <1>2, <1>3, FS_Subset
  <1> QED BY <1>1, <1>4

(* The turn identities of which a handle is done, and those beside k.      *)
DoneKeys(done) == {input[g].key : g \in {g \in 1 .. created : done[g] # Never}}
Beside(done, k) == DoneKeys(done) \ {k}

Gone(done, h) ==
    LET age == clock - done[h]
        beside == Cardinality(Beside(done, input[h].key))
    IN  \/ beside >= MaxTombstones
        \/ age > TurnRetention + TombstoneRetention
        \/ age > TombstoneRetention /\ beside >= MaxCompletedTurns

Buried(done, stones, h) ==
    LET k == input[h].key
    IN  /\ stones[k] # Never /\ stones[k] >= done[h]
        /\ \/ stones[k] - done[h] > TurnRetention
           \/ Cardinality(Beside(done, k)) >= MaxCompletedTurns

Accounted(done, records, stones, h) ==
    records[input[h].key] = h \/ Buried(done, stones, h) \/ Gone(done, h)

DoneBefore(done, stones) ==
    /\ \A h \in 1 .. created : done[h] <= clock
    /\ \A k \in Keys : stones[k] # Never =>
          stones[k] <= clock /\ \E g \in 1 .. created : done[g] # Never /\ input[g].key = k

ReplayInv ==
    /\ \A k \in Keys : turns[k] # NoHandle => turns[k] \in 1 .. created /\ input[turns[k]].key = k
    /\ \A h \in 1 .. created : phase[h] = "settled" <=> completedAt[h] # Never
    /\ DoneBefore(completedAt, tombstones)
    /\ \A h \in 1 .. created : completedAt[h] # Never => Accounted(completedAt, turns, tombstones, h)

LEMMA DoneFinite ==
    ASSUME TypeOK, NEW done
    PROVE  /\ IsFiniteSet(DoneKeys(done))
           /\ \A k : IsFiniteSet(Beside(done, k)) /\ Cardinality(Beside(done, k)) \in Nat
  <1> DEFINE D == {g \in 1 .. created : done[g] # Never}
             f == [g \in D |-> input[g].key]
  <1>1. IsFiniteSet(D)
    <2>1. created \in Int /\ D \in SUBSET (1 .. created)
      BY BoundsAssumption DEF TypeOK
    <2> HIDE DEF D
    <2>2. IsFiniteSet(1 .. created)
      BY <2>1, FS_Interval
    <2> QED BY <2>1, <2>2, FS_Subset
  <1>2. {f[g] : g \in D} = DoneKeys(done)
    BY DEF DoneKeys
  <1> HIDE DEF D, f
  <1>3. IsFiniteSet(DoneKeys(done))
    BY <1>1, <1>2, ImageFinite
  <1>4. \A k : IsFiniteSet(Beside(done, k))
    BY <1>3, FS_Subset DEF Beside
  <1> QED BY <1>3, <1>4, FS_CardinalityType

LEMMA BesideAtLeast ==
    ASSUME TypeOK, NEW done, NEW k, NEW S \in SUBSET Beside(done, k)
    PROVE  Cardinality(S) <= Cardinality(Beside(done, k))
  BY DoneFinite, FS_Subset

(* Pruning accounts for every handle that is done.                         *)
LEMMA PruningsAccount ==
    ASSUME TypeOK, NEW done \in [Handles -> -1 .. MaxTime], NEW p \in Prunings(done),
           \A k \in Keys : turns[k] # NoHandle => turns[k] \in 1 .. created /\ input[turns[k]].key = k,
           DoneBefore(done, tombstones),
           \A h \in 1 .. created : done[h] # Never => Accounted(done, turns, tombstones, h)
    PROVE  /\ DoneBefore(done, p.tombstones)
           /\ \A h \in 1 .. created : done[h] # Never => Accounted(done, p.turns, p.tombstones, h)
           /\ \A k \in Keys : p.turns[k] \in {turns[k], NoHandle}
  <1> DEFINE completed == Completed(done)
             doneAt == [k \in completed |-> done[turns[k]]]
  <1>1. PICK retained \in Remaining(completed, doneAt, clock - TurnRetention, MaxCompletedTurns) :
           p \in Outcomes(done, retained)
    BY DEF Prunings
  <1> DEFINE evicted == completed \ retained
             known == evicted \cup {k \in Keys : tombstones[k] # Never}
             buriedAt == [k \in known |-> IF k \in evicted THEN clock ELSE tombstones[k]]
             newTurns == [k \in Keys |-> IF k \in evicted THEN NoHandle ELSE turns[k]]
             newTombstones(kept) == [k \in Keys |-> IF k \in kept THEN buriedAt[k] ELSE Never]
  <1>2. PICK kept \in Remaining(known, buriedAt, clock - TombstoneRetention, MaxTombstones) :
           p = [turns |-> newTurns, tombstones |-> newTombstones(kept)]
    BY <1>1, Zenon DEF Outcomes, BuriedAt
  <1>3. p.turns = newTurns /\ p.tombstones = newTombstones(kept)
    <2> HIDE DEF newTurns, newTombstones
    <2> QED BY <1>2
  <1>4. /\ clock \in Nat /\ created \in Nat /\ \A h \in 1 .. created : h \in Handles /\ done[h] \in Int
        /\ \A k \in Keys : tombstones[k] \in Int
        /\ TurnRetention \in Nat /\ TombstoneRetention \in Nat /\ MaxTombstones \in Nat /\ MaxCompletedTurns \in Nat
        /\ \A h \in 1 .. created : input[h].key \in Keys
    BY BoundsAssumption DEF TypeOK, Handles, Inputs
  <1>5. /\ retained \subseteq completed /\ kept \subseteq known /\ completed \subseteq Keys /\ known \subseteq Keys
    BY <1>1, <1>2 DEF Remaining, Completed
  <1>6. \A k \in completed : /\ turns[k] \in 1 .. created /\ input[turns[k]].key = k /\ done[turns[k]] # Never
    BY DEF Completed
  <1>7. \A k \in known : \E g \in 1 .. created : done[g] # Never /\ input[g].key = k
    BY <1>6 DEF DoneBefore
  <1>8. known \subseteq DoneKeys(done) /\ completed \subseteq DoneKeys(done)
    BY <1>6, <1>7 DEF DoneKeys
  <1>9. IsFiniteSet(known) /\ IsFiniteSet(completed)
    BY <1>8, DoneFinite, FS_Subset
  <1>10. \A k \in completed : doneAt[k] = done[turns[k]]
    OBVIOUS
  <1>11. \A k \in known : buriedAt[k] = (IF k \in evicted THEN clock ELSE tombstones[k]) /\ buriedAt[k] <= clock
    BY <1>4, <1>5 DEF DoneBefore
  <1>12. \A k \in Keys : /\ p.turns[k] = IF k \in evicted THEN NoHandle ELSE turns[k]
                         /\ p.tombstones[k] = IF k \in kept THEN buriedAt[k] ELSE Never
    BY <1>3
  <1> HIDE DEF completed, doneAt, known, buriedAt, newTurns, newTombstones
  <1>13. DoneBefore(done, p.tombstones)
    BY <1>5, <1>7, <1>11, <1>12 DEF DoneBefore
  <1>14. ASSUME NEW k \in evicted
         PROVE  doneAt[k] < clock - TurnRetention \/ Cardinality(Beside(done, k)) >= MaxCompletedTurns
    <2>1. ~(doneAt[k] >= clock - TurnRetention) \/ Cardinality(retained) = MaxCompletedTurns
      BY <1>1, <1>4, <1>9, DroppedFor
    <2>2. retained \in SUBSET Beside(done, k)
      BY <1>5, <1>8 DEF Beside
    <2>3. doneAt[k] \in Int /\ Cardinality(Beside(done, k)) \in Nat
      BY <1>4, <1>6, <1>10, DoneFinite
    <2> QED BY <1>4, <2>1, <2>2, <2>3, BesideAtLeast
  <1>15. ASSUME NEW k \in known, k \notin kept
         PROVE  buriedAt[k] < clock - TombstoneRetention \/ Cardinality(Beside(done, k)) >= MaxTombstones
    <2>1. ~(buriedAt[k] >= clock - TombstoneRetention) \/ Cardinality(kept) = MaxTombstones
      BY <1>2, <1>4, <1>9, <1>15, DroppedFor
    <2>2. kept \in SUBSET Beside(done, k)
      BY <1>5, <1>8, <1>15 DEF Beside
    <2>3. buriedAt[k] \in Int /\ Cardinality(Beside(done, k)) \in Nat
      BY <1>4, <1>5, <1>11, DoneFinite
    <2> QED BY <1>4, <2>1, <2>2, <2>3, BesideAtLeast
  <1>16. ASSUME NEW h \in 1 .. created, done[h] # Never PROVE Accounted(done, p.turns, p.tombstones, h)
    <2>1. PICK k \in Keys : k = input[h].key
      BY <1>4
    <2>2. PICK n : n = Cardinality(Beside(done, k))
      OBVIOUS
    <2>3. n \in Nat /\ done[h] \in Int /\ done[h] <= clock
      BY <1>4, <2>2, DoneFinite DEF DoneBefore
    <2>4. k \in evicted \/ tombstones[k] # Never => k \in known
      BY <1>5 DEF known
    <2>5. CASE turns[k] = h
      <3>1. CASE k \notin evicted
        BY <1>12, <2>1, <2>5, <3>1 DEF Accounted
      <3>2. CASE k \in evicted
        <4>1. done[h] < clock - TurnRetention \/ n >= MaxCompletedTurns
          BY <1>10, <1>14, <2>2, <2>5, <3>2
        <4>2. buriedAt[k] = clock /\ k \in known
          BY <1>11, <2>4, <3>2
        <4>3. CASE k \in kept
          <5>1. p.tombstones[k] = clock
            BY <1>12, <4>2, <4>3
          <5> QED BY <1>4, <2>1, <2>2, <2>3, <4>1, <5>1 DEF Accounted, Buried, Never
        <4>4. CASE k \notin kept
          BY <1>4, <1>15, <2>1, <2>2, <4>2, <4>4 DEF Accounted, Gone
        <4> QED BY <4>3, <4>4
      <3> QED BY <3>1, <3>2
    <2>6. CASE Buried(done, tombstones, h)
      <3>1. /\ tombstones[k] # Never /\ tombstones[k] >= done[h] /\ tombstones[k] \in Int /\ tombstones[k] <= clock
            /\ tombstones[k] - done[h] > TurnRetention \/ n >= MaxCompletedTurns
        BY <1>4, <2>1, <2>2, <2>6 DEF Buried, DoneBefore
      <3>2. k \in known /\ buriedAt[k] \in {clock, tombstones[k]}
        BY <1>11, <2>4, <3>1
      <3>3. CASE k \in kept
        <4>1. p.tombstones[k] = buriedAt[k]
          BY <1>12, <3>3
        <4> QED BY <1>4, <2>1, <2>2, <2>3, <3>1, <3>2, <4>1 DEF Accounted, Buried, Never
      <3>4. CASE k \notin kept
        <4>1. tombstones[k] < clock - TombstoneRetention \/ n >= MaxTombstones
          BY <1>4, <1>15, <2>2, <3>1, <3>2, <3>4
        <4>2. \/ n >= MaxTombstones \/ clock - done[h] > TurnRetention + TombstoneRetention
              \/ clock - done[h] > TombstoneRetention /\ n >= MaxCompletedTurns
          BY <1>4, <2>3, <3>1, <4>1
        <4> QED BY <2>1, <2>2, <4>2 DEF Accounted, Gone
      <3> QED BY <3>3, <3>4
    <2>7. CASE Gone(done, h)
      BY <2>7 DEF Accounted
    <2> QED BY <1>16, <2>1, <2>5, <2>6, <2>7 DEF Accounted
  <1> QED BY <1>12, <1>13, <1>16

(* Steps.  Handles that finish, and time, only add to what may be          *)
(* forgotten.                                                              *)
LEMMA LaterAccounts ==
    ASSUME TypeOK, NEW done, NEW later, NEW records, NEW stones, NEW h \in 1 .. created,
           \A g \in 1 .. created : done[g] # Never => later[g] = done[g],
           done[h] # Never, Accounted(done, records, stones, h)
    PROVE  Accounted(later, records, stones, h)
  <1>1. PICK k : k = input[h].key
    OBVIOUS
  <1>2. Beside(done, k) \in SUBSET Beside(later, k)
    BY DEF Beside, DoneKeys
  <1>3. /\ Cardinality(Beside(done, k)) \in Nat /\ Cardinality(Beside(later, k)) \in Nat
        /\ Cardinality(Beside(done, k)) <= Cardinality(Beside(later, k))
    BY <1>2, DoneFinite, BesideAtLeast
  <1>4. later[h] = done[h]
    OBVIOUS
  <1>5. MaxTombstones \in Nat /\ MaxCompletedTurns \in Nat
    BY BoundsAssumption
  <1>6. CASE records[k] = h
    BY <1>1, <1>6 DEF Accounted
  <1>7. CASE Buried(done, stones, h)
    BY <1>1, <1>3, <1>4, <1>5, <1>7 DEF Accounted, Buried
  <1>8. CASE Gone(done, h)
    BY <1>1, <1>3, <1>4, <1>5, <1>8 DEF Accounted, Gone
  <1> QED BY <1>1, <1>6, <1>7, <1>8 DEF Accounted

LEMMA PruneOnlyAccounts ==
    ASSUME Inv, ReplayInv, PruneOnly
    PROVE  ReplayInv'
  <1>1. PICK p \in Prunings(completedAt) : turns' = p.turns /\ tombstones' = p.tombstones
    BY DEF PruneOnly
  <1>2. UNCHANGED <<clock, created, input, phase, completedAt>>
    BY DEF PruneOnly, handleVars
  <1>3. /\ DoneBefore(completedAt, p.tombstones)
        /\ \A h \in 1 .. created : completedAt[h] # Never => Accounted(completedAt, p.turns, p.tombstones, h)
        /\ \A k \in Keys : p.turns[k] \in {turns[k], NoHandle}
    BY PruningsAccount DEF Inv, TypeOK, ReplayInv
  <1> QED BY <1>1, <1>2, <1>3 DEF ReplayInv, DoneBefore, Accounted, Buried, Gone, Beside, DoneKeys

LEMMA SettleAccounts ==
    ASSUME Inv, ReplayInv, NEW h \in Handles, MayRun(h), Settle(h)
    PROVE  ReplayInv'
  <1>1. h \in 1 .. created /\ Live(h)
    BY RunCreated
  <1>2. /\ phase' = [phase EXCEPT ![h] = "settled"]
        /\ completedAt' = [completedAt EXCEPT ![h] = clock]
        /\ UNCHANGED <<clock, created, input>>
    BY DEF Settle
  <1>3. PICK p \in Prunings(completedAt') : turns' = p.turns /\ tombstones' = p.tombstones
    BY DEF Settle
  <1>4. /\ \A g \in 1 .. created : g \in Handles
        /\ clock \in 0 .. MaxTime /\ MaxTime \in Nat /\ turns[input[h].key] = h /\ completedAt[h] = Never
        /\ \A g \in 1 .. created : completedAt'[g] = IF g = h THEN clock ELSE completedAt[g]
        /\ \A g \in 1 .. created : phase'[g] = IF g = h THEN "settled" ELSE phase[g]
        /\ completedAt' \in [Handles -> -1 .. MaxTime]
    <2>1. \A g \in 1 .. created : g \in Handles
      BY BoundsAssumption DEF Inv, TypeOK, Handles
    <2>2. turns[input[h].key] = h /\ completedAt[h] = Never
      BY <1>1 DEF Inv, LiveTurnRetained, ChainInv, Live, Awaiting
    <2>3. clock \in 0 .. MaxTime /\ MaxTime \in Nat
      BY BoundsAssumption DEF Inv, TypeOK
    <2>4. completedAt \in [Handles -> -1 .. MaxTime] /\ phase \in [Handles -> Phases]
      BY DEF Inv, TypeOK
    <2>5. completedAt' \in [Handles -> -1 .. MaxTime]
      BY <1>2, <2>3, <2>4
    <2>6. \A g \in 1 .. created : /\ completedAt'[g] = IF g = h THEN clock ELSE completedAt[g]
                                  /\ phase'[g] = IF g = h THEN "settled" ELSE phase[g]
      BY <1>2, <2>1, <2>4
    <2> QED BY <2>1, <2>2, <2>3, <2>5, <2>6
  <1>5. PICK done : done = completedAt'
    OBVIOUS
  <1>6. done \in [Handles -> -1 .. MaxTime] /\ \A g \in 1 .. created : done[g] = IF g = h THEN clock ELSE completedAt[g]
    BY <1>4, <1>5
  <1>7. DoneBefore(done, tombstones)
    <2>1. \A g \in 1 .. created : completedAt[g] # Never => done[g] # Never
      BY <1>4, <1>6
    <2> QED BY <1>4, <1>6, <2>1 DEF ReplayInv, DoneBefore
  <1>8. ASSUME NEW g \in 1 .. created, done[g] # Never PROVE Accounted(done, turns, tombstones, g)
    <2>1. CASE g = h
      BY <1>4, <2>1 DEF Accounted
    <2>2. CASE g # h
      <3>1. completedAt[g] # Never /\ Accounted(completedAt, turns, tombstones, g)
        BY <1>6, <1>8, <2>2 DEF ReplayInv
      <3>2. \A f \in 1 .. created : completedAt[f] # Never => done[f] = completedAt[f]
        BY <1>4, <1>6
      <3>3. PICK was : was = completedAt
        OBVIOUS
      <3>4. was[g] # Never /\ Accounted(was, turns, tombstones, g)
            /\ \A f \in 1 .. created : was[f] # Never => done[f] = was[f]
        BY <3>1, <3>2, <3>3
      <3>5. PICK records, stones : records = turns /\ stones = tombstones
        OBVIOUS
      <3>6. Accounted(was, records, stones, g)
        BY <3>4, <3>5
      <3> QED BY <3>4, <3>5, <3>6, LaterAccounts DEF Inv
    <2> QED BY <2>1, <2>2
  <1>9. /\ DoneBefore(done, p.tombstones)
        /\ \A g \in 1 .. created : done[g] # Never => Accounted(done, p.turns, p.tombstones, g)
        /\ \A k \in Keys : p.turns[k] \in {turns[k], NoHandle}
    BY <1>3, <1>5, <1>6, <1>7, <1>8, PruningsAccount DEF Inv, ReplayInv
  <1>10. \A g \in 1 .. created : phase'[g] = "settled" <=> completedAt'[g] # Never
    BY <1>4 DEF ReplayInv, Never
  <1> QED BY <1>2, <1>3, <1>5, <1>9, <1>10
       DEF ReplayInv, DoneBefore, Accounted, Buried, Gone, Beside, DoneKeys

(* A turn that is created again may be forgotten.                          *)
LEMMA CreateAccounts ==
    ASSUME Inv, ReplayInv, NEW k \in Keys, NEW subject \in BOOLEAN, CreateTurn(k, subject)
    PROVE  /\ ReplayInv'
           /\ input'[created'].key = k
           /\ \A h \in 1 .. created : input[h].key = k => phase[h] = "settled" /\ Gone(completedAt, h)
  <1>1. PICK n : n = created + 1
    OBVIOUS
  <1>2. /\ created \in Nat /\ n \in Handles /\ n # NoHandle /\ n \in Nat /\ \A h \in 1 .. created : h \in Handles /\ h # n /\ h # NoHandle
    BY <1>1, BoundsAssumption DEF Inv, TypeOK, Handles, CreateTurn, NoHandle
  <1>3. PICK p \in Prunings(completedAt) :
           /\ p.tombstones[k] = Never /\ p.turns[k] = NoHandle
           /\ turns' = [p.turns EXCEPT ![k] = n] /\ tombstones' = p.tombstones
    BY <1>1 DEF CreateTurn
  <1>4. /\ created' = n /\ input' = [input EXCEPT ![n] = [key |-> k, subject |-> subject]]
        /\ phase' = [phase EXCEPT ![n] = "queued"] /\ UNCHANGED <<clock, completedAt>>
    BY <1>1 DEF CreateTurn
  <1>5. /\ DoneBefore(completedAt, p.tombstones)
        /\ \A h \in 1 .. created : completedAt[h] # Never => Accounted(completedAt, p.turns, p.tombstones, h)
        /\ \A j \in Keys : p.turns[j] \in {turns[j], NoHandle}
    BY PruningsAccount DEF Inv, TypeOK, ReplayInv
  <1>6. p.turns \in [Keys -> 0 .. MaxHandles]
        /\ \A j \in Keys : p.turns[j] # turns[j] => turns[j] # NoHandle /\ completedAt[turns[j]] # Never
    BY PruningsEvictCompleted DEF Inv, TypeOK
  <1>7. ASSUME NEW h \in 1 .. created, input[h].key = k
        PROVE  phase[h] = "settled" /\ Gone(completedAt, h)
    <2>1. completedAt[h] # Never
      <3>1. Live(h) => turns[k] = h /\ completedAt[h] = Never
        BY <1>2, <1>7 DEF Inv, LiveTurnRetained, ChainInv, Live, Awaiting
      <3>2. ~Live(h)
        BY <1>2, <1>3, <1>6, <3>1
      <3>3. phase[h] \in Phases /\ phase[h] # "unused"
        BY <1>2 DEF Inv, TypeOK, ChainInv
      <3> QED BY <3>2, <3>3 DEF ReplayInv, Live, Phases
    <2> QED BY <1>2, <1>3, <1>5, <1>7, <2>1 DEF ReplayInv, Accounted, Buried
  <1>8. /\ \A h \in 1 .. created : input'[h] = input[h] /\ phase'[h] = phase[h]
        /\ input'[n].key = k /\ phase'[n] = "queued" /\ completedAt[n] = Never
        /\ 1 .. created' = (1 .. created) \cup {n}
    <2>1. phase[n] # "settled" /\ completedAt[n] = Never
      BY <1>1, <1>2 DEF Inv, ChainInv
    <2> QED BY <1>1, <1>2, <1>4, <2>1 DEF Inv, TypeOK
  <1>9. DoneKeys(completedAt)' = DoneKeys(completedAt)
    BY <1>4, <1>8 DEF DoneKeys
  <1>10. ReplayInv'
    <2>1. \A j \in Keys : turns'[j] # NoHandle => turns'[j] \in 1 .. created' /\ input'[turns'[j]].key = j
      BY <1>2, <1>3, <1>5, <1>6, <1>8 DEF ReplayInv
    <2>2. \A h \in 1 .. created' : phase'[h] = "settled" <=> completedAt'[h] # Never
      BY <1>4, <1>8 DEF ReplayInv
    <2>3. DoneBefore(completedAt, tombstones)'
      <3>1. \A h \in 1 .. created' : completedAt[h] <= clock
        BY <1>2, <1>5, <1>8 DEF DoneBefore, Never, Inv, TypeOK
      <3> QED BY <1>3, <1>4, <1>5, <1>8, <3>1 DEF DoneBefore
    <2>4. ASSUME NEW h \in 1 .. created, completedAt[h] # Never
          PROVE  Accounted(completedAt, turns, tombstones, h)'
      <3>1. CASE input[h].key = k
        <4>1. Gone(completedAt, h)
          BY <1>7, <3>1
        <4>2. Gone(completedAt, h)'
          BY <1>4, <1>8, <1>9, <4>1 DEF Gone, Beside
        <4> QED BY <4>2 DEF Accounted
      <3>2. CASE input[h].key # k
        <4>1. input[h].key \in Keys
          BY <1>2 DEF Inv, TypeOK, Inputs
        <4>2. turns'[input[h].key] = p.turns[input[h].key]
          BY <1>3, <1>6, <3>2, <4>1
        <4>3. Accounted(completedAt, p.turns, p.tombstones, h)
          BY <1>5, <2>4
        <4> QED BY <1>3, <1>4, <1>8, <1>9, <4>2, <4>3 DEF Accounted, Buried, Gone, Beside
      <3> QED BY <3>1, <3>2
    <2>5. \A h \in 1 .. created' : completedAt'[h] # Never => Accounted(completedAt, turns, tombstones, h)'
      BY <1>4, <1>8, <2>4
    <2> QED BY <2>1, <2>2, <2>3, <2>5 DEF ReplayInv
  <1> QED BY <1>4, <1>7, <1>8, <1>10

LEMMA TickAccounts ==
    ASSUME Inv, ReplayInv, Tick
    PROVE  ReplayInv'
  <1>1. clock' = clock + 1 /\ UNCHANGED <<created, turns, tombstones, input, phase, completedAt>>
    BY DEF Tick, handleVars
  <1>2. /\ clock \in Nat /\ \A h \in 1 .. created : completedAt[h] \in Int
        /\ \A k \in Keys : tombstones[k] \in Int /\ TurnRetention \in Nat /\ TombstoneRetention \in Nat
    BY BoundsAssumption DEF Inv, TypeOK, Handles
  <1>3. DoneKeys(completedAt)' = DoneKeys(completedAt)
    BY <1>1 DEF DoneKeys
  <1>4. DoneBefore(completedAt, tombstones)'
    BY <1>1, <1>2 DEF ReplayInv, DoneBefore
  <1>5. ASSUME NEW h \in 1 .. created, completedAt[h] # Never
        PROVE  Accounted(completedAt, turns, tombstones, h)'
    <2>1. Gone(completedAt, h) => Gone(completedAt, h)'
      <3>1. PICK k : k = input[h].key
        OBVIOUS
      <3>2. Beside(completedAt, k)' = Beside(completedAt, k)
        BY <1>1, <1>3 DEF Beside
      <3>3. clock' - completedAt'[h] >= clock - completedAt[h] /\ clock - completedAt[h] \in Int
            /\ clock' - completedAt'[h] \in Int
        BY <1>1, <1>2
      <3> QED BY <1>1, <1>2, <3>1, <3>2, <3>3, BoundsAssumption DEF Gone
    <2> QED BY <1>1, <1>3, <1>5, <2>1 DEF ReplayInv, Accounted, Buried, Beside
  <1> QED BY <1>1, <1>4, <1>5 DEF ReplayInv

LEMMA ReplayStep == Inv /\ ReplayInv /\ [Next]_vars => ReplayInv'
  <1> SUFFICES ASSUME Inv, ReplayInv, [Next]_vars PROVE ReplayInv'
    OBVIOUS
  <1>1. CASE Tick
    BY <1>1, TickAccounts
  <1>2. CASE Lookup \/ \E k \in Keys : RejoinTurn(k)
    BY <1>2, PruneOnlyAccounts DEF Lookup, RejoinTurn, PruneOnly
  <1>3. CASE \E k \in Keys, subject \in BOOLEAN : CreateTurn(k, subject)
    BY <1>3, CreateAccounts
  <1>4. ASSUME NEW h \in Handles, Progress(h) PROVE ReplayInv'
    <2>1. MayRun(h) /\ (Settle(h) \/ \E q \in Awaiting : \E new : Suspend(h, q, new))
      BY <1>4, ProgressShape DEF Inv
    <2>2. CASE Settle(h)
      BY <2>1, <2>2, SettleAccounts
    <2>3. ASSUME NEW q \in Awaiting, NEW new, Suspend(h, q, new) PROVE ReplayInv'
      <3>1. /\ phase' = [phase EXCEPT ![h] = q]
            /\ UNCHANGED <<clock, created, turns, tombstones, input, completedAt>>
        BY <2>3 DEF Suspend
      <3>2. phase[h] # "settled" /\ q # "settled"
        BY <2>1, RunCreated DEF Live, Awaiting
      <3>3. \A g \in 1 .. created : phase'[g] = "settled" <=> phase[g] = "settled"
        BY <3>1, <3>2 DEF Inv, TypeOK
      <3> QED BY <3>1, <3>3 DEF ReplayInv, DoneBefore, Accounted, Buried, Gone, Beside, DoneKeys
    <2> QED BY <2>1, <2>2, <2>3
  <1>5. CASE UNCHANGED vars
    BY <1>5 DEF vars, ReplayInv, DoneBefore, Accounted, Buried, Gone, Beside, DoneKeys
  <1> QED BY <1>1, <1>2, <1>3, <1>4, <1>5 DEF Next

(* A turn identity is executed again only when every turn of it has settled *)
(* and may be forgotten, for any retentions and limits of the coordinator   *)
(* (pruneCompletedTurns, rememberEvictedCompletedTurn, getOrCreateTurn).    *)
THEOREM ReplayedLate == Spec => ReplayOnlyAfterRetention
  <1>1. Init => ReplayInv
    BY DEF Init, ReplayInv, DoneBefore, NoHandle
  <1>2. Inv /\ ReplayInv /\ [Next]_vars =>
          [created' # created => \A h \in 1 .. created :
             input[h].key = input'[created'].key => phase[h] = "settled" /\ Forgettable(h)]_vars
    <2> SUFFICES ASSUME Inv, ReplayInv, Next, created' # created, NEW h \in 1 .. created,
                        input[h].key = input'[created'].key
                 PROVE  phase[h] = "settled" /\ Forgettable(h)
      BY DEF vars
    <2>1. PICK k \in Keys, subject \in BOOLEAN : CreateTurn(k, subject)
      BY ProgressShape DEF Next, Tick, Lookup, RejoinTurn, Settle, Suspend, Inv
    <2>2. phase[h] = "settled" /\ Gone(completedAt, h)
      BY <2>1, CreateAccounts
    <2>3. Beside(completedAt, input[h].key) = SettledBeside(input[h].key)
      BY DEF Beside, DoneKeys, SettledBeside, ReplayInv
    <2> QED BY <2>2, <2>3 DEF Gone, Forgettable
  <1> QED BY <1>1, <1>2, ReplayStep, Invariance, PTL DEF Spec, ReplayOnlyAfterRetention
=============================================================================
