------------------------------ MODULE Watchlists ------------------------------
(* Watchlists: the lists of a user, one of them the default (services/watchlists/src/ *)
(* queries.ts, http.ts, the trigger of migration 0022), and the hook that shows the   *)
(* members of the default one (web/src/watchlists/useManualWatchlist.ts).             *)
EXTENDS Integers, FiniteSets, Sequences, SequencesExt, FiniteSetsExt

CONSTANTS
  Watchers,           \* users
  WatchSubjects,
  ListIds,            \* ids of lists, the default ones included
  DefaultOf,          \* the id of each user's default list, which a trigger made
  MaxWatchCalls, MaxWatchSignIns   \* bounds

VARIABLES
  lists,              \* watchlists: id, user, is_default
  watched,            \* watchlist_members: list, subject, at
  watcher,            \* the userId of the hook ({} or one)
  members,            \* the hook's members
  watchStatus,
  watchCalls,         \* requests that have not settled
  watchAsked, watchSignIns   \* counters

watchVars == <<lists, watched, watcher, members, watchStatus, watchCalls, watchAsked, watchSignIns>>

WatchCall(n, op, u, s, previous) ==
  [n |-> n, op |-> op, user |-> u, subject |-> s, previous |-> previous,
   waits |-> TRUE, at |-> "sent", list |-> "none", answer |-> <<>>, result |-> "none"]

DefaultList(u) == {l \in lists : l.user = u /\ l.isDefault}
MembersOf(list) == SetToSortSeq({x \in watched : x.list = list}, LAMBDA x, y : x.at < y.at)
Follows(seq, s) == \E x \in Range(seq) : x.subject = s

WatchInit ==
  /\ lists = {[id |-> DefaultOf[u], user |-> u, isDefault |-> TRUE] : u \in Watchers}
  /\ watched = {} /\ members = <<>> /\ watchSignIns = 0
  /\ \/ watcher = {} /\ watchStatus = "idle" /\ watchCalls = {} /\ watchAsked = 0
     \/ \E u \in Watchers : /\ watcher = {u} /\ watchStatus = "loading" /\ watchAsked = 1
                            /\ watchCalls = {WatchCall(1, "list", u, "none", <<>>)}

AskWatch(calls, op, u, s, previous) ==
  /\ watchAsked < MaxWatchCalls
  /\ watchAsked' = watchAsked + 1
  /\ watchCalls' = calls \cup {WatchCall(watchAsked + 1, op, u, s, previous)}

\* another user or none: the list that is being loaded is dropped, the members shown stay
WatchAs(us) ==
  /\ us # watcher /\ watchSignIns < MaxWatchSignIns
  /\ watchSignIns' = watchSignIns + 1
  /\ watcher' = us
  /\ LET left == {c \in watchCalls : c.op # "list"}
     IN IF us = {} THEN watchCalls' = left /\ UNCHANGED watchAsked
        ELSE \E u \in us : AskWatch(left, "list", u, "none", <<>>)
  /\ UNCHANGED <<lists, watched, members, watchStatus>>

AddSubject(s) ==
  /\ \E u \in watcher : AskWatch(watchCalls, "add", u, s, <<>>)
  /\ UNCHANGED <<lists, watched, watcher, members, watchStatus, watchSignIns>>

\* off the list at once; what was there is kept for the case that the request fails
RemoveSubject(s) ==
  /\ Follows(members, s)
  /\ members' = SelectSeq(members, LAMBDA x : x.subject # s)
  /\ \E u \in watcher : AskWatch(watchCalls, "remove", u, s, members)
  /\ UNCHANGED <<lists, watched, watcher, watchStatus, watchSignIns>>

-------------------------------------------------------------------------------
ServedOn(c, d) == watchCalls' = (watchCalls \ {c}) \cup {d}
AnswerWith(c, result) == ServedOn(c, [c EXCEPT !.at = "answered", !.result = result])

\* findDefaultManualWatchlistId
FindDefault(c) ==
  /\ c.at = "sent"
  /\ IF DefaultList(c.user) = {} THEN AnswerWith(c, "404")
     ELSE ServedOn(c, [c EXCEPT !.at = "found", !.list = (CHOOSE l \in DefaultList(c.user) : TRUE).id])
  /\ UNCHANGED <<lists, watched, watcher, members, watchStatus, watchAsked, watchSignIns>>

\* listMembers
ServeMembers(c) ==
  /\ c.op = "list" /\ c.at = "found"
  /\ ServedOn(c, [c EXCEPT !.at = "answered", !.result = "ok", !.answer = MembersOf(c.list)])
  /\ UNCHANGED <<lists, watched, watcher, members, watchStatus, watchAsked, watchSignIns>>

\* addMember: the insert does nothing for a member that is there, and fails for a list
\* that is gone
InsertMember(c) ==
  /\ c.op = "add" /\ c.at = "found"
  /\ LET x == [list |-> c.list, subject |-> c.subject, at |-> 1 + Max({0} \cup {y.at : y \in watched})]
     IN IF \A l \in lists : l.id # c.list THEN AnswerWith(c, "500") /\ UNCHANGED watched
        ELSE IF Follows(MembersOf(c.list), c.subject) THEN ServedOn(c, [c EXCEPT !.at = "conflict"]) /\ UNCHANGED watched
        ELSE /\ watched' = watched \cup {x}
             /\ ServedOn(c, [c EXCEPT !.at = "answered", !.result = "created", !.answer = <<x>>])
  /\ UNCHANGED <<lists, watcher, members, watchStatus, watchAsked, watchSignIns>>

\* then the row is read, if it is still there
RereadMember(c) ==
  /\ c.at = "conflict"
  /\ AnswerWith(c, IF Follows(MembersOf(c.list), c.subject) THEN "already_present" ELSE "500")
  /\ UNCHANGED <<lists, watched, watcher, members, watchStatus, watchAsked, watchSignIns>>

\* removeMember
RemoveMember(c) ==
  /\ c.op = "remove" /\ c.at = "found"
  /\ LET gone == {x \in watched : x.list = c.list /\ x.subject = c.subject}
     IN watched' = watched \ gone /\ AnswerWith(c, IF gone = {} THEN "404" ELSE "ok")
  /\ UNCHANGED <<lists, watcher, members, watchStatus, watchAsked, watchSignIns>>

\* Other clients: createWatchlist, and deleteWatchlist, which refuses the default list and
\* whose two statements do what one would, since is_default does not change.
CreateList(u, i) ==
  /\ \A l \in lists : l.id # i
  /\ i \notin Range(DefaultOf) /\ DefaultList(u) # {}
  /\ lists' = lists \cup {[id |-> i, user |-> u, isDefault |-> FALSE]}
  /\ UNCHANGED <<watched, watcher, members, watchStatus, watchCalls, watchAsked, watchSignIns>>

Deletable(l) == ~l.isDefault
DeleteList(u, i) ==
  \E l \in lists :
    /\ l.id = i /\ l.user = u /\ Deletable(l)
    /\ lists' = lists \ {l}
    /\ watched' = {x \in watched : x.list # i}
    /\ UNCHANGED <<watcher, members, watchStatus, watchCalls, watchAsked, watchSignIns>>

\* the user is erased, and with the user the lists and their members
EraseWatcher(u) ==
  /\ DefaultList(u) # {}
  /\ lists' = {l \in lists : l.user # u}
  /\ watched' = {x \in watched : \E l \in lists' : l.id = x.list}
  /\ UNCHANGED <<watcher, members, watchStatus, watchCalls, watchAsked, watchSignIns>>

-------------------------------------------------------------------------------
\* mergeMemberIntoList: what was there already changes nothing
Merge(seq, c) == IF c.result = "created" /\ ~Follows(seq, c.subject) THEN seq \o c.answer ELSE seq

\* what the hook does with an outcome; a removal of what is not there is one that worked
Hears(c, result) ==
  /\ CASE c.op = "list" -> /\ watchStatus' = IF result = "ok" THEN "idle" ELSE "error"
                           /\ members' = IF result = "ok" THEN c.answer ELSE members
       [] c.op = "add" -> members' = Merge(members, [c EXCEPT !.result = result]) /\ UNCHANGED watchStatus
       [] c.op = "remove" /\ result \notin {"ok", "404"} -> members' = c.previous /\ UNCHANGED watchStatus
       [] OTHER -> UNCHANGED <<members, watchStatus>>
  /\ UNCHANGED <<lists, watched, watcher, watchAsked, watchSignIns>>

\* the answer arrives, at a request that was given up too
WatchAnswered(c) ==
  /\ c.at = "answered" /\ watchCalls' = watchCalls \ {c}
  /\ IF c.waits THEN Hears(c, c.result)
     ELSE UNCHANGED <<lists, watched, watcher, members, watchStatus, watchAsked, watchSignIns>>

\* the connection fails before the answer: the server may still do what was asked, which
\* for a list that nobody waits for is nothing
WatchLost(c) ==
  /\ c.waits /\ Hears(c, "lost")
  /\ IF c.op = "list" THEN watchCalls' = watchCalls \ {c} ELSE ServedOn(c, [c EXCEPT !.waits = FALSE])

WatchNext ==
  \/ WatchAs({}) \/ \E u \in Watchers : WatchAs({u})
  \/ \E s \in WatchSubjects : AddSubject(s) \/ RemoveSubject(s)
  \/ \E c \in watchCalls : \/ FindDefault(c) \/ ServeMembers(c) \/ InsertMember(c) \/ RereadMember(c)
                           \/ RemoveMember(c) \/ WatchAnswered(c) \/ WatchLost(c)
  \/ \E u \in Watchers, i \in ListIds : CreateList(u, i) \/ DeleteList(u, i)
  \/ \E u \in Watchers : EraseWatcher(u)

WatchSpec == WatchInit /\ [][WatchNext]_watchVars

-------------------------------------------------------------------------------
\* Each user has the default list as long as there is the user, each member a list, and
\* no list or view has a subject twice.
WatchTypeOK ==
  /\ \A l \in lists : \E d \in DefaultList(l.user) : d.id = DefaultOf[l.user]
  /\ \A x \in watched : \E l \in lists : l.id = x.list
  /\ \A x, y \in watched : x.list = y.list /\ x.subject = y.subject => x = y
  /\ \A i, j \in DOMAIN members : members[i].subject = members[j].subject => i = j

-------------------------------------------------------------------------------
(* Portfolios and their holdings (services/portfolio/src/queries.ts, http.ts), what a *)
(* base row is overlaid with (overlay-composer.ts), and the watchlists whose members  *)
(* are derived from a portfolio, a screen, a theme or an agent's universe             *)
(* (services/watchlists/src/dynamic-membership.ts).                                   *)

CONSTANTS
  FolioUsers, FolioIds, HoldingIds, FolioSubjects, HoldingKinds,
  KindOf(_),         \* the kind of a subject
  FolioCalls,        \* requests about holdings
  OverlayRequests,   \* sequences of subjects that are asked about
  DerivedLists,      \* watchlists: user, mode, id
  DerivedScreens,    \* screens and what they find
  DerivedAgents,     \* agents and whose they are
  Universes,         \* universes that agents may have: mode and id, or refs
  UniversesAtFirst,
  MaxUniverseEdits   \* bound

VARIABLES
  portfolios,        \* id, user
  holdings,          \* id, portfolio, subject
  holdingCalls,      \* requests about holdings under way
  universe,          \* what each agent looks at now
  deriving,          \* the derivation under way
  universeEdits

folioVars == <<portfolios, holdings, holdingCalls, universe, deriving, universeEdits>>

NoHoldingCall == [at |-> "idle", op |-> "none", user |-> "none", portfolio |-> "none", holding |-> "none", subject |-> "none", result |-> "none"]
NotDeriving == [at |-> "idle", user |-> "none", mode |-> "none", id |-> "none", visited |-> {}, members |-> {}]

FoliosInit ==
  /\ portfolios = {} /\ holdings = {} /\ holdingCalls = [c \in FolioCalls |-> NoHoldingCall]
  /\ universe \in UniversesAtFirst
  /\ deriving = NotDeriving /\ universeEdits = 0

Owned(u, p) == \E f \in portfolios : f.id = p /\ f.user = u

CreatePortfolio(u, p) ==
  /\ \A f \in portfolios : f.id # p
  /\ portfolios' = portfolios \cup {[id |-> p, user |-> u]}
  /\ UNCHANGED <<holdings, holdingCalls, universe, deriving, universeEdits>>

\* deletePortfolio: of the user only, and the holdings with it
DeletePortfolio(u, p) ==
  /\ Owned(u, p)
  /\ portfolios' = {f \in portfolios : f.id # p}
  /\ holdings' = {h \in holdings : h.portfolio # p}
  /\ UNCHANGED <<holdingCalls, universe, deriving, universeEdits>>

ToHolding(c, x) == holdingCalls' = [holdingCalls EXCEPT ![c] = x]

\* requests of anyone about any portfolio
AskCreate(c, u, p, h, s) ==
  /\ holdingCalls[c].at \in {"idle", "answered"}
  /\ (\A x \in holdings : x.id # h) /\ \A d \in FolioCalls : holdingCalls[d].holding # h
  /\ ToHolding(c, [NoHoldingCall EXCEPT !.at = "sent", !.op = "create", !.user = u, !.portfolio = p,
                                        !.holding = h, !.subject = s])
  /\ UNCHANGED <<portfolios, holdings, universe, deriving, universeEdits>>

AskDelete(c, u, p, h) ==
  /\ holdingCalls[c].at \in {"idle", "answered"}
  /\ \E x \in holdings : x.id = h
  /\ ToHolding(c, [NoHoldingCall EXCEPT !.at = "sent", !.op = "delete", !.user = u, !.portfolio = p, !.holding = h])
  /\ UNCHANGED <<portfolios, holdings, universe, deriving, universeEdits>>

AcceptedHolding(s) == KindOf(s) \in HoldingKinds   \* assertPortfolioHoldingCreateInput

\* assertPortfolioOwned, then the body is read
CheckOwned(c) ==
  LET x == holdingCalls[c] IN
  /\ x.at = "sent"
  /\ ToHolding(c, IF ~Owned(x.user, x.portfolio) THEN [NoHoldingCall EXCEPT !.at = "answered", !.result = "404"]
                  ELSE IF x.op = "create" /\ ~AcceptedHolding(x.subject)
                  THEN [NoHoldingCall EXCEPT !.at = "answered", !.result = "400"]
                  ELSE [x EXCEPT !.at = "owned"])
  /\ UNCHANGED <<portfolios, holdings, universe, deriving, universeEdits>>

\* createHolding (a portfolio that is gone by now fails the foreign key),
\* deleteHolding
ServeHolding(c) ==
  LET x == holdingCalls[c]
      row == [id |-> x.holding, portfolio |-> x.portfolio, subject |-> x.subject]
      mine == {h \in holdings : h.id = x.holding /\ h.portfolio = x.portfolio}
      Tells(r) == ToHolding(c, [NoHoldingCall EXCEPT !.at = "answered", !.result = r])
  IN /\ x.at = "owned"
     /\ CASE x.op = "create" /\ \E f \in portfolios : f.id = x.portfolio ->
               holdings' = holdings \cup {row} /\ Tells("201")
          [] x.op = "create" /\ \A f \in portfolios : f.id # x.portfolio ->
               UNCHANGED holdings /\ Tells("500")
          [] x.op = "delete" -> holdings' = holdings \ mine /\ Tells(IF mine = {} THEN "404" ELSE "204")
     /\ UNCHANGED <<portfolios, universe, deriving, universeEdits>>

\* getOverlayInputs: for each subject asked about the holdings in the user's portfolios
Contributions(u, s) == {h \in holdings : h.subject = s /\ Owned(u, h.portfolio)}
\* composePortfolioOverlayRows puts the inputs of a subject together, so a subject that
\* was asked about twice has each of its contributions twice
OverlayRow(u, q, s) ==
  [h \in Contributions(u, s) |-> Cardinality({k \in DOMAIN q : q[k] = s})]

-------------------------------------------------------------------------------
\* resolveDynamicWatchlistMembers: getWatchlist, sourceFor
Derive(l) ==
  /\ deriving.at \in {"idle", "done", "failed"}
  /\ deriving' = [at |-> "resolving", user |-> l.user, mode |-> l.mode, id |-> l.id, visited |-> {}, members |-> {}]
  /\ UNCHANGED <<portfolios, holdings, holdingCalls, universe, universeEdits>>

DerivesTo(refs) == deriving' = [deriving EXCEPT !.at = "done", !.members = refs]
DeriveFails == deriving' = [deriving EXCEPT !.at = "failed"]

FromPortfolio == {h.subject : h \in {h \in holdings : h.portfolio = deriving.id /\ Owned(deriving.user, h.portfolio)}}

\* resolveMembersForSource: one statement for a source; the statement for a theme names a
\* column that theme_memberships does not have
ReadSource ==
  /\ deriving.at = "resolving" /\ deriving.mode # "agent"
  /\ CASE deriving.mode = "manual" -> DerivesTo({x.subject : x \in {y \in watched : y.list = deriving.id}})
       [] deriving.mode = "portfolio" -> DerivesTo(FromPortfolio)
       [] deriving.mode = "theme" -> DeriveFails
       [] deriving.mode = "screen" -> IF deriving.id \in DOMAIN DerivedScreens THEN DerivesTo(DerivedScreens[deriving.id])
                                      ELSE DeriveFails
  /\ UNCHANGED <<portfolios, holdings, holdingCalls, universe, universeEdits>>

\* an agent leads to its universe, each agent once, the user's own only
FollowAgent ==
  /\ deriving.at = "resolving" /\ deriving.mode = "agent"
  /\ IF deriving.id \in deriving.visited \/ DerivedAgents[deriving.id] # deriving.user THEN DeriveFails
     ELSE LET next == universe[deriving.id] IN
          IF next.mode = "static" THEN DerivesTo(next.refs)
          ELSE deriving' = [deriving EXCEPT !.mode = next.mode, !.id = next.id, !.visited = @ \cup {deriving.id}]
  /\ UNCHANGED <<portfolios, holdings, holdingCalls, universe, universeEdits>>

\* a query, the search for the agent or the run of the screen throws
DerivationThrows ==
  /\ deriving.at = "resolving" /\ DeriveFails
  /\ UNCHANGED <<portfolios, holdings, holdingCalls, universe, universeEdits>>

EditUniverse(a, n) ==
  /\ universeEdits < MaxUniverseEdits /\ universe[a] # n
  /\ universe' = [universe EXCEPT ![a] = n] /\ universeEdits' = universeEdits + 1
  /\ UNCHANGED <<portfolios, holdings, holdingCalls, deriving>>

FoliosNext ==
  \/ \E u \in FolioUsers, p \in FolioIds : CreatePortfolio(u, p) \/ DeletePortfolio(u, p)
  \/ \E c \in FolioCalls : CheckOwned(c) \/ ServeHolding(c)
  \/ \E c \in FolioCalls, u \in FolioUsers, p \in FolioIds, h \in HoldingIds :
       AskDelete(c, u, p, h) \/ \E s \in FolioSubjects : AskCreate(c, u, p, h, s)
  \/ \E l \in DerivedLists : Derive(l)
  \/ ReadSource \/ FollowAgent \/ DerivationThrows
  \/ \E a \in DOMAIN DerivedAgents, n \in Universes : EditUniverse(a, n)

FoliosSpec == FoliosInit /\ [][FoliosNext]_folioVars

-------------------------------------------------------------------------------
\* No holding without its portfolio, whatever is deleted between a check of the owner and
\* the statement after it; a walk over universes that change under way ends.
FoliosTypeOK ==
  /\ \A f, g \in portfolios : f.id = g.id => f = g
  /\ \A h \in holdings : (\E f \in portfolios : f.id = h.portfolio) /\ KindOf(h.subject) \in HoldingKinds
  /\ deriving.visited \subseteq DOMAIN DerivedAgents
  /\ \A u \in FolioUsers, q \in OverlayRequests, s \in FolioSubjects :
       Cardinality(Range(q)) = Len(q) => \A h \in Contributions(u, s) : OverlayRow(u, q, s)[h] <= 1
===============================================================================
