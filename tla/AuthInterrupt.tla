----------------------------- MODULE AuthInterrupt -----------------------------
(* Actions that need a session and are asked for without one: kept over the sign-in, *)
(* a reload and a change of route, then dispatched to the handler that is mounted    *)
(* (web/src/shell/AuthInterruptProvider.tsx, authInterruptState.ts,                  *)
(* protectedActionRegistry.ts).                                                      *)
(*                                                                                   *)
(* React: an event sees the values of the last commit; a commit runs the effects     *)
(* whose values changed, those of children first; microtasks run before anything     *)
(* else; the router commits a change of route later than it was asked for.           *)
EXTENDS Integers, FiniteSets, Sequences, Functions

CONSTANTS
  Actions,        \* protected actions: name, the kind handlers go by, the route of its button
  AppRoutes,        \* routes
  HandledOn(_),   \* the routes on which a handler of a kind is mounted
  InterruptTtl,   \* AUTH_INTERRUPT_TTL_MS
  MaxRequests, MaxReloads, MaxMoves, LastTick   \* bounds

VARIABLES
  signedIn,       \* AuthProvider's session
  pending,        \* the pending action ({} or one), as last set
  storedAction,   \* its copy in sessionStorage
  queuedResume,   \* an action that waits for its route, as last set
  committed,      \* session, route, pending, queuedResume of the last commit
  going,          \* the route that was asked for, if another
  queuedKey, dispatchedKey,   \* the refs that hold off a second dispatch
  micro,          \* microtasks
  unhandled,      \* queuedActionsByType
  requested, handled,   \* how often each action was asked for, and reached its handler with a session
  ticks, reloads, moves \* clock and counters

interruptVars == <<signedIn, pending, storedAction, queuedResume, committed, going, queuedKey, dispatchedKey,
                   micro, unhandled, requested, handled, ticks, reloads, moves>>
worldVars == <<ticks, reloads, moves>>

CommitOf(s, r, p, q) == [session |-> s, route |-> r, pending |-> p, queued |-> q]

InterruptInit ==
  /\ signedIn = FALSE /\ pending = {} /\ storedAction = {} /\ queuedResume = {}
  /\ \E r \in AppRoutes : committed = CommitOf(FALSE, r, {}, {})
  /\ going = {} /\ queuedKey = {} /\ dispatchedKey = {} /\ micro = <<>> /\ unhandled = {}
  /\ requested = [a \in Actions |-> 0] /\ handled = [a \in Actions |-> 0]
  /\ ticks = 0 /\ reloads = 0 /\ moves = 0

Mounted(a, route) == route \in HandledOn(a.kind)

\* dispatchProtectedAction for the actions in as, at the route and session of a commit:
\* without a session the handler drops an action, without a handler one waits
DispatchAll(as, c) ==
  /\ handled' = [b \in Actions |-> handled[b] + Cardinality({a \in as : Mounted(a, c.route) /\ a = b /\ c.session})]
  /\ unhandled' = {a \in unhandled : \A b \in as : Mounted(b, c.route) \/ a.kind # b.kind}
                    \cup {b \in as : ~Mounted(b, c.route)}

Remembered(s) == s
\* setPending(null)
Forgotten(s) == {}

-------------------------------------------------------------------------------
\* Events.

\* requestProtectedAction
AskProtected(a) ==
  /\ micro = <<>> /\ committed.route = a.from /\ requested[a] < MaxRequests
  /\ requested' = [requested EXCEPT ![a] = @ + 1]
  /\ IF committed.session
     THEN DispatchAll({a}, committed) /\ UNCHANGED <<pending, storedAction>>
     ELSE /\ pending' = {[action |-> a, returnTo |-> committed.route, expires |-> ticks + InterruptTtl]}
          /\ storedAction' = pending'
          /\ UNCHANGED <<handled, unhandled>>
  /\ UNCHANGED <<signedIn, queuedResume, committed, going, queuedKey, dispatchedKey, micro, worldVars>>

\* the modal is there without a session only
CancelAction ==
  /\ micro = <<>> /\ committed.pending # {} /\ ~committed.session
  /\ pending' = {} /\ storedAction' = Forgotten(storedAction)
  /\ UNCHANGED <<signedIn, queuedResume, committed, going, queuedKey, dispatchedKey, micro, unhandled, requested,
                 handled, worldVars>>

SignInOrOut ==
  /\ micro = <<>> /\ moves < MaxMoves
  /\ signedIn' = ~signedIn /\ moves' = moves + 1
  /\ UNCHANGED <<pending, storedAction, queuedResume, committed, going, queuedKey, dispatchedKey, micro, unhandled,
                 requested, handled, ticks, reloads>>

GoElsewhere(r) ==
  /\ micro = <<>> /\ moves < MaxMoves /\ r # committed.route
  /\ going' = {r} /\ moves' = moves + 1
  /\ UNCHANGED <<signedIn, pending, storedAction, queuedResume, committed, queuedKey, dispatchedKey,
                 micro, unhandled, requested, handled, ticks, reloads>>

PendingAges ==
  /\ micro = <<>> /\ ticks < LastTick
  /\ ticks' = ticks + 1
  /\ UNCHANGED <<signedIn, pending, storedAction, queuedResume, committed, going, queuedKey, dispatchedKey, micro,
                 unhandled, requested, handled, reloads, moves>>

\* only sessionStorage outlives a reload; what has expired is taken out of it
Reload ==
  /\ micro = <<>> /\ reloads < MaxReloads
  /\ reloads' = reloads + 1
  /\ signedIn' = FALSE
  /\ storedAction' = {p \in storedAction : p.expires > ticks}
  /\ pending' = storedAction'
  /\ queuedResume' = {} /\ going' = {} /\ queuedKey' = {} /\ dispatchedKey' = {} /\ unhandled' = {}
  /\ committed' = CommitOf(FALSE, committed.route, pending', {})
  /\ UNCHANGED <<micro, requested, handled, ticks, moves>>

-------------------------------------------------------------------------------
\* Commits.  planPendingProtectedActionResume for the pending action p
Plan(c) ==
  IF ~c.session \/ c.pending = {} THEN "idle"
  ELSE LET p == CHOOSE p \in c.pending : TRUE IN
       IF p.expires <= ticks THEN "expired" ELSE IF p.returnTo = c.route THEN "dispatch" ELSE "navigate"

\* the effect of pending, then that of queuedResume, after the commit c; g is the route
\* still asked for.  A key that is held already stands for the same action.
Effects(c, g) ==
  LET runs == c.route # committed.route \/ c.pending # committed.pending \/ c.session # committed.session
      plan == IF runs THEN Plan(c) ELSE "idle"
      p == CHOOSE p \in c.pending : TRUE
      key == <<p.returnTo, p.action>>
      dispatches == plan = "dispatch" /\ key \notin dispatchedKey
      navigates == plan = "navigate" /\ key \notin queuedKey
      heldKey == IF dispatches THEN {key} ELSE dispatchedKey
      reached == {q \in c.queued : /\ c.route # committed.route \/ c.queued # committed.queued
                                   /\ c.route = q.route}
      resumed == {q \in reached : <<q.route, q.action>> \notin heldKey}
      \* children first: a handler that was mounted now takes what waited for its kind
      mounted == {a \in unhandled : Mounted(a, c.route)}
  IN /\ dispatchedKey' = IF resumed = {} THEN heldKey ELSE {<<q.route, q.action>> : q \in resumed}
     /\ queuedKey' = IF navigates THEN {key} ELSE queuedKey
     /\ going' = IF navigates THEN {p.returnTo} ELSE g
     /\ micro' = (CASE plan = "expired" -> <<[do |-> "clear"]>>
                    [] dispatches -> <<[do |-> "dispatch", action |-> p.action, key |-> key]>>
                    [] navigates -> <<[do |-> "queue", action |-> p.action, route |-> p.returnTo]>>
                    [] OTHER -> <<>>)
                 \o (IF resumed = {} THEN <<>>
                     ELSE <<[do |-> "unkey", key |-> CHOOSE k \in dispatchedKey' : TRUE]>>)
                 \o (IF reached = {} THEN <<>> ELSE <<[do |-> "unqueue"]>>)
     /\ handled' = [b \in Actions |->
          handled[b] + (IF c.session THEN Cardinality({a \in mounted : a = b})
                                           + Cardinality({q \in resumed : q.action = b /\ Mounted(b, c.route)})
                        ELSE 0)]
     /\ unhandled' = (unhandled \ mounted) \cup {q.action : q \in {q \in resumed : ~Mounted(q.action, c.route)}}

\* what was set since the last commit
Rerenders ==
  LET c == CommitOf(signedIn, committed.route, pending, queuedResume) IN
  /\ micro = <<>> /\ c # committed
  /\ committed' = c
  /\ Effects(c, going)
  /\ UNCHANGED <<signedIn, pending, storedAction, queuedResume, requested, worldVars>>

RouteArrives(r) ==
  LET c == CommitOf(signedIn, r, pending, queuedResume) IN
  /\ micro = <<>>
  /\ committed' = c
  /\ Effects(c, {})
  /\ UNCHANGED <<signedIn, pending, storedAction, queuedResume, requested, worldVars>>

\* the next microtask
RunMicro ==
  /\ micro # <<>>
  /\ LET t == micro[1] IN
     /\ micro' = Tail(micro) \o (IF t.do = "dispatch" THEN <<[do |-> "unkey", key |-> t.key]>> ELSE <<>>)
     /\ IF t.do \in {"clear", "dispatch", "queue"}
        THEN pending' = {} /\ storedAction' = Forgotten(storedAction)
        ELSE UNCHANGED <<pending, storedAction>>
     /\ queuedResume' = CASE t.do = "queue" -> {[action |-> t.action, route |-> t.route]}
                          [] t.do = "unqueue" -> {}
                          [] OTHER -> queuedResume
     /\ IF t.do = "dispatch" THEN DispatchAll({t.action}, committed) ELSE UNCHANGED <<handled, unhandled>>
     /\ dispatchedKey' = IF t.do = "unkey" THEN dispatchedKey \ {t.key} ELSE dispatchedKey
     /\ queuedKey' = IF t.do = "unqueue" THEN {} ELSE queuedKey
  /\ UNCHANGED <<signedIn, committed, going, requested, worldVars>>

InterruptNext ==
  \/ \E a \in Actions : AskProtected(a)
  \/ CancelAction \/ SignInOrOut \/ PendingAges \/ Reload
  \/ \E r \in AppRoutes : GoElsewhere(r)
  \/ Rerenders \/ RunMicro
  \/ \E r \in going : RouteArrives(r)

InterruptSpec == InterruptInit /\ [][InterruptNext]_interruptVars

-------------------------------------------------------------------------------
InterruptTypeOK ==
  /\ Cardinality(pending) <= 1 /\ Cardinality(queuedResume) <= 1 /\ Cardinality(going) <= 1
  /\ committed.route \in AppRoutes
  /\ Cardinality(dispatchedKey) <= 1 /\ Cardinality(queuedKey) <= 1

\* Over sign-ins and sign-outs, changes of route and reloads, an action reaches its
\* handler at most as often as the user asked for it (AuthInterruptProvider.tsx:116-178).
ActsOnce == \A a \in Actions : handled[a] <= requested[a]
===============================================================================
