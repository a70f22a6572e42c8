------------------------------- MODULE AgentDesk -------------------------------
(* The agents of the desk: their rows (services/agents/src/agent-repo.ts), alert rules *)
(* that are staged and approved (create-alert-approval.ts), the findings of a run,     *)
(* their severity and the alerts they fire (finding-generator.ts, severity-scorer.ts,  *)
(* alert-evaluator.ts), the requests for them (dev-api/src/http.ts) and the page that  *)
(* makes these (web/src/pages/AgentsPage.tsx).  A run's claims and lease are AgentRun. *)
EXTENDS Integers, FiniteSets, Sequences, SequencesExt

CONSTANTS
  Owners,        \* users
  AgentsAtFirst, \* sets of rows of agents there may be when the page is opened
  AgentNames,    \* agents
  RuleDrafts,    \* alert rules that may be written in the form or staged by the analyst
  ClaimGroups,   \* what a run may find: cluster, trust tiers, sources, confidence
  MaxFindings, MaxFetches, MaxStaged, MaxAgentCalls   \* bounds

VARIABLES
  agents,        \* rows of agents: at most one of each name
  stagedAlerts,  \* create_alert actions: of which agent, which rule, approved or not
  found,         \* findings
  fired,         \* alerts_fired
  page,          \* state of AgentsPage
  fetches,       \* requests for the details of an agent, in the order they were made
  listing,       \* the request for the agents that the page makes once
  call,          \* one other request of the page
  agentCalls     \* how many of these there were

agentVars == <<agents, stagedAlerts, found, fired, page, fetches, listing, call, agentCalls>>

NoAgentCall == [at |-> "idle", op |-> "none", agent |-> "none", rules |-> <<>>, was |-> {}, answer |-> {}]
FreshPage(u) == [user |-> u, listed |-> {}, selected |-> "none", detailsOf |-> "none", details |-> {},
                 failed |-> FALSE, editing |-> {}]

AgentRow(a) == {x \in agents : x.agent = a}
OwnedRow(a, u) == {x \in AgentRow(a) : x.owner = u}
FindingsOf(a) == {f \in found : f.agent = a}

AgentInit ==
  /\ \E u \in Owners : page = FreshPage(u)
  /\ agents \in AgentsAtFirst
  /\ stagedAlerts = {} /\ found = {} /\ fired = {} /\ fetches = <<>>
  /\ listing = [at |-> "sent", answer |-> {}]
  /\ call = NoAgentCall /\ agentCalls = 0

-------------------------------------------------------------------------------
\* severity-scorer.ts, in hundredths. The local runtime scores the impact of every
\* finding alike: on demand, within a week, at half confidence and half relevance.
TierWeight == [primary |-> 95, secondary |-> 65, tertiary |-> 28, user |-> 42]
DirectionWeight == [positive |-> 90, negative |-> 95, mixed |-> 70, unknown |-> 35]
Corroboration(n) == CASE n >= 3 -> 100 [] n = 2 -> 82 [] n = 1 -> 55 [] OTHER -> 0
Rounded(x) == (x + 50) \div 100

\* bestTrustTier
BestTier(tiers) ==
  CHOOSE t \in tiers : LET Rank == [primary |-> 4, user |-> 3, secondary |-> 2, tertiary |-> 1]
                       IN \A s \in tiers : Rank[s] <= Rank[t]

ScoreOf(g) ==
  LET evidence == Rounded(TierWeight[BestTier(g.tiers)] * 62 + g.confidence * 26 + Corroboration(g.sources) * 12)
      impact == Rounded(DirectionWeight[g.direction] * 34 + 90 * 26 + 86 * 20 + 50 * 20)
  IN Rounded(evidence * 34 + impact * 38 + 50 * 28)

SeverityOf(score) ==
  CASE score >= 90 -> "critical" [] score >= 72 -> "high" [] score >= 45 -> "medium" [] OTHER -> "low"
SeverityRank == [low |-> 0, medium |-> 1, high |-> 2, critical |-> 3]

\* assertAlertRule: something to match, and a channel
Compiles(rule) ==
  /\ rule.atLeast # {} \/ rule.clusters # {}
  /\ rule.channels # {}

\* compileAlertRule, evaluateFinding
Fires(rule, f) ==
  /\ \A s \in rule.atLeast : SeverityRank[f.severity] >= SeverityRank[s]
  /\ rule.clusters # {} => f.cluster \in rule.clusters

\* evaluateAgentAlerts: rule by rule; a second rule of one id finds the row of the first
FiredBy(a, rules, f) ==
  {[agent |-> a, finding |-> f, rule |-> rules[k].id, channels |-> rules[k].channels] :
     k \in {k \in DOMAIN rules : /\ Fires(rules[k], f)
                                 /\ \A j \in 1..(k - 1) : Fires(rules[j], f) => rules[j].id # rules[k].id}}

\* the side effects of a run of agent x that found the claims g, with the rules it was
\* loaded with: a finding for a cluster the agent has none for, and its alerts, in one
\* transaction that fails if one of the rules does not compile
RunFinds(x, g) ==
  LET f == [agent |-> x.agent, cluster |-> g.cluster, severity |-> SeverityOf(ScoreOf(g))] IN
  IF \E h \in FindingsOf(x.agent) : h.cluster = g.cluster
  THEN UNCHANGED <<found, fired>>
  ELSE /\ \A k \in DOMAIN x.rules : Compiles(x.rules[k])
       /\ found' = found \cup {f}
       /\ fired' = fired \cup FiredBy(x.agent, x.rules, f)

\* a run that a worker makes (agent-loop.ts)
WorkerRun(x, g) ==
  /\ x.enabled /\ Cardinality(found) < MaxFindings
  /\ RunFinds(x, g)
  /\ UNCHANGED <<agents, stagedAlerts, page, fetches, listing, call, agentCalls>>

-------------------------------------------------------------------------------
\* createAlertApprovalIntent: an action that is asked for twice is staged once
StageAlert(a, rule) ==
  /\ Compiles(rule) /\ Cardinality(stagedAlerts) < MaxStaged
  /\ stagedAlerts' = stagedAlerts \cup {[agent |-> a, rule |-> rule, approved |-> FALSE]}
  /\ UNCHANGED <<agents, found, fired, page, fetches, listing, call, agentCalls>>

\* approveCreateAlertAction
ApproveAlert(s) ==
  /\ ~s.approved
  /\ stagedAlerts' = (stagedAlerts \ {s}) \cup {[s EXCEPT !.approved = TRUE]}
  /\ UNCHANGED <<agents, found, fired, page, fetches, listing, call, agentCalls>>

\* applyApprovedCreateAlert: appendAgentAlertRule adds it unless there is one of its id
ApplyAlert(s) ==
  /\ s.approved
  /\ \E x \in AgentRow(s.agent) :
       /\ \A k \in DOMAIN x.rules : x.rules[k].id # s.rule.id
       /\ agents' = (agents \ {x}) \cup {[x EXCEPT !.rules = Append(@, s.rule)]}
  /\ UNCHANGED <<stagedAlerts, found, fired, page, fetches, listing, call, agentCalls>>

-------------------------------------------------------------------------------
Fetch(a) == [agent |-> a, at |-> "sent", details |-> {}, ignore |-> FALSE]

\* the effect runs again: the requests it made before are aborted and ignored
IgnoredOf(q) == [k \in DOMAIN q |-> [q[k] EXCEPT !.ignore = TRUE]]
Refetched(a) ==
  LET old == IgnoredOf(fetches)
      new == IF a = "none" THEN old ELSE Append(old, Fetch(a))
  IN SelectSeq(new, LAMBDA f : f.at # "done")

\* selectedAgentId is a dependency of the effect, refresh: detailsRefreshKey is counted up
Selects(p, a, refresh) ==
  /\ page' = [p EXCEPT !.selected = a]
  /\ IF a # page.selected \/ refresh THEN fetches' = Refetched(a) ELSE UNCHANGED fetches

ClickAgent(x) ==
  /\ Len(fetches) < MaxFetches
  /\ Selects(page, x.agent, FALSE)
  /\ UNCHANGED <<agents, stagedAlerts, found, fired, listing, call, agentCalls>>

\* editAgent: the form is filled with the agent as it was listed
EditAgent(x) ==
  /\ Len(fetches) < MaxFetches
  /\ Selects([page EXCEPT !.editing = {x}], x.agent, FALSE)
  /\ UNCHANGED <<agents, stagedAlerts, found, fired, listing, call, agentCalls>>

\* buildAgentPayload: rules that the form cannot show are sent back as they were listed
RulesToSave(draft) ==
  LET kept == {x \in page.editing : \/ Len(x.rules) > 1
                                    \/ \E k \in DOMAIN x.rules : x.rules[k].clusters # {}}
  IN IF kept # {} THEN (CHOOSE x \in kept : TRUE).rules ELSE <<draft>>

\* submitAgent, updateAgent, deleteAgent, runAgent; what deleteAgent does with the answer
\* goes by the page as it was when it was called
AskAgents(op, a, rules) ==
  /\ call.at = "idle" /\ Len(fetches) < MaxFetches /\ agentCalls < MaxAgentCalls
  /\ call' = [NoAgentCall EXCEPT !.at = "sent", !.op = op, !.agent = a, !.rules = rules,
                                  !.was = IF op = "delete" THEN {page} ELSE {}]
  /\ agentCalls' = agentCalls + 1
  /\ UNCHANGED <<agents, stagedAlerts, found, fired, page, fetches, listing>>

SubmitAgent(a, draft) ==
  LET saved == {x.agent : x \in page.editing}
  IN IF saved = {} THEN AgentRow(a) = {} /\ AskAgents("create", a, <<draft>>)
     ELSE a \in saved /\ AskAgents("update", a, RulesToSave(draft))

Answered(answer) == call' = [call EXCEPT !.at = "answered", !.answer = answer]

\* readAlertRules takes any array of rules
ServeSave ==
  /\ call.at = "sent" /\ call.op \in {"create", "update", "disable"}
  /\ LET row == [agent |-> call.agent, owner |-> page.user, rules |-> call.rules, enabled |-> TRUE]
         old == OwnedRow(call.agent, page.user)
         new == IF call.op = "create" THEN {row}
                ELSE {[x EXCEPT !.rules = IF call.op = "update" THEN call.rules ELSE @,
                                !.enabled = @ /\ call.op = "update"] : x \in old}
     IN agents' = (agents \ old) \cup new /\ Answered(new)
  /\ UNCHANGED <<stagedAlerts, found, fired, page, fetches, listing, agentCalls>>

\* findings and fired alerts are deleted with their agent
ServeDelete ==
  /\ call.at = "sent" /\ call.op = "delete"
  /\ LET gone == OwnedRow(call.agent, page.user)
     IN /\ agents' = agents \ gone
        /\ found' = IF gone = {} THEN found ELSE found \ FindingsOf(call.agent)
        /\ fired' = IF gone = {} THEN fired ELSE {n \in fired : n.agent # call.agent}
        /\ Answered(gone)
  /\ UNCHANGED <<stagedAlerts, page, fetches, listing, agentCalls>>

\* a run for the page; it may fail, and then leaves what there was
ServeRun(g) ==
  /\ call.at = "sent" /\ call.op = "run" /\ Cardinality(found) < MaxFindings
  /\ \E x \in OwnedRow(call.agent, page.user) :
       \/ RunFinds(x, g) /\ Answered({x})
       \/ Answered({}) /\ UNCHANGED <<found, fired>>
  /\ UNCHANGED <<agents, stagedAlerts, page, fetches, listing, agentCalls>>

ServeList ==
  /\ listing.at = "sent"
  /\ listing' = [at |-> "read", answer |-> {x \in agents : x.owner = page.user}]
  /\ UNCHANGED <<agents, stagedAlerts, found, fired, page, fetches, call, agentCalls>>

\* the agents as they were when they were read, whatever the page was told since
ListArrives ==
  /\ listing.at = "read" /\ Len(fetches) < MaxFetches
  /\ listing' = [listing EXCEPT !.at = "done", !.answer = {}]
  /\ \E first \in IF listing.answer = {} THEN {"none"} ELSE {x.agent : x \in listing.answer} :
       Selects([page EXCEPT !.listed = listing.answer],
               IF \E x \in listing.answer : x.agent = page.selected THEN page.selected ELSE first, FALSE)
  /\ UNCHANGED <<agents, stagedAlerts, found, fired, call, agentCalls>>

\* not ok, or none at all
ListFails ==
  /\ listing.at \in {"sent", "read"}
  /\ listing' = [listing EXCEPT !.at = "done", !.answer = {}]
  /\ UNCHANGED <<agents, stagedAlerts, found, fired, page, fetches, call, agentCalls>>

\* an answer arrives; one that is not ok, or none at all, leaves the page as it is
AgentArrives ==
  /\ call.at = "answered" /\ call' = NoAgentCall
  /\ \/ /\ call.op \in {"create", "update"} /\ call.answer # {}
        /\ Selects([page EXCEPT !.listed = {x \in @ : x.agent # call.agent} \cup call.answer, !.editing = {}],
                   call.agent, TRUE)
     \/ /\ call.op = "disable" /\ call.answer # {}
        /\ Selects([page EXCEPT !.listed =
                      {IF x.agent = call.agent THEN CHOOSE y \in call.answer : TRUE ELSE x : x \in @}],
                   call.agent, FALSE)
     \/ /\ call.op = "run" /\ call.answer # {}
        /\ Selects(page, call.agent, TRUE)
     \/ /\ call.op = "delete" /\ call.answer # {}
        /\ LET was == CHOOSE p \in call.was : TRUE
               left == {x \in was.listed : x.agent # call.agent}
           IN \E next \in IF left = {} THEN {"none"} ELSE {x.agent : x \in left} :
                Selects([page EXCEPT !.listed = {x \in @ : x.agent # call.agent},
                                     !.details = IF was.selected = call.agent /\ left = {} THEN {} ELSE @],
                        IF page.selected = call.agent THEN next ELSE page.selected, FALSE)
     \/ call.answer = {} /\ UNCHANGED <<page, fetches>>
  /\ UNCHANGED <<agents, stagedAlerts, found, fired, listing, agentCalls>>

-------------------------------------------------------------------------------
\* listFindings, listActivity
ServeDetails(k) ==
  /\ fetches[k].at = "sent"
  /\ fetches' = [fetches EXCEPT ![k].at = IF OwnedRow(fetches[k].agent, page.user) = {} THEN "failed" ELSE "read",
                                ![k].details = FindingsOf(fetches[k].agent)]
  /\ UNCHANGED <<agents, stagedAlerts, found, fired, page, listing, call, agentCalls>>

\* a bug: what was asked for earlier is shown when it comes
ShownWhenever(f) == TRUE
Heeded(f) == ~f.ignore

DetailsArrive(k) ==
  /\ fetches[k].at \in {"read", "failed"}
  /\ fetches' = RemoveAt(fetches, k)
  /\ page' = IF ~Heeded(fetches[k]) THEN page
             ELSE [page EXCEPT !.detailsOf = fetches[k].agent, !.failed = fetches[k].at = "failed",
                     !.details = IF fetches[k].at = "failed" THEN {} ELSE fetches[k].details]
  /\ UNCHANGED <<agents, stagedAlerts, found, fired, listing, call, agentCalls>>

\* the request, or its answer, is lost; one that was aborted goes unnoticed
DetailsLost(k) ==
  /\ fetches' = RemoveAt(fetches, k)
  /\ page' = IF fetches[k].ignore THEN page
             ELSE [page EXCEPT !.detailsOf = fetches[k].agent, !.failed = TRUE, !.details = {}]
  /\ UNCHANGED <<agents, stagedAlerts, found, fired, listing, call, agentCalls>>

AgentNext ==
  \/ \E x \in agents, g \in ClaimGroups : WorkerRun(x, g)
  \/ \E a \in AgentNames, rule \in RuleDrafts : StageAlert(a, rule) \/ SubmitAgent(a, rule)
  \/ \E s \in stagedAlerts : ApproveAlert(s) \/ ApplyAlert(s)
  \/ \E x \in page.listed : \/ ClickAgent(x) \/ EditAgent(x)
                            \/ AskAgents("disable", x.agent, <<>>) \/ AskAgents("delete", x.agent, <<>>)
                            \/ AskAgents("run", x.agent, <<>>)
  \/ ServeSave \/ ServeDelete \/ ServeList \/ ListArrives \/ ListFails \/ AgentArrives
  \/ \E g \in ClaimGroups : ServeRun(g)
  \/ \E k \in DOMAIN fetches : ServeDetails(k) \/ DetailsArrive(k) \/ DetailsLost(k)

AgentSpec == AgentInit /\ [][AgentNext]_agentVars

-------------------------------------------------------------------------------
\* An agent, a finding, an alert are there once; what was found belongs to an agent.
AgentTypeOK ==
  /\ \A x, y \in agents : x.agent = y.agent => x = y
  /\ \A f, h \in found : f.agent = h.agent /\ f.cluster = h.cluster => f = h
  /\ \A n, m \in fired : n.agent = m.agent /\ n.rule = m.rule /\ n.finding = m.finding => n = m
  /\ \A f \in found : AgentRow(f.agent) # {}
  /\ \A n \in fired : n.finding \in found
  /\ \A x \in page.listed : x.agent \in AgentNames /\ x.owner = page.user

Visible(p) == p.selected # "none" /\ p.detailsOf = p.selected /\ ~p.failed

\* The page never takes back findings it has shown of the selected agent: an answer to
\* a request made before a run, or before another agent was looked at, is not shown over
\* a newer one (AgentsPage.tsx, the effect that fetches details). Only the answer to a
\* delete empties the list, for an agent that was selected when it was asked for.
DetailsMoveOn ==
  [][ Visible(page) /\ Visible(page') /\ page'.selected = page.selected /\ call' = call =>
        page.details \subseteq page'.details \/ ~(page.details \subseteq found) ]_agentVars

===============================================================================
