------------------------------- MODULE ToolGate --------------------------------
(* Which tools a model may call (services/tools/src): the registry and its audience *)
(* boundary, the bundle of a turn, approval, the dispatcher of the reader's tools,   *)
(* and the analyst's turn that uses them (services/chat/src/coordinator.ts).         *)
(* Executors and handlers are external, and what they return need not fit a schema:  *)
(* nothing compares the two, and no result of a turn is authorized.                  *)
EXTENDS Integers, Sequences, SequencesExt, FiniteSets

CONSTANTS
  Registries,    \* registry files: [bundles, tools], tools a sequence. A schema names a
                 \* raw field ("raw"), leaves an object open ("open") or not ("closed"),
                 \* or says nothing of what it admits ("untyped", as {} does)
  PromptBundles, \* the bundles of ANALYST_PROMPT_TEMPLATES
  Routes,        \* chooseBundleIdForSubjectKind: subject kind -> bundle
  Preferred,     \* values of preferredToolName, "none" for undefined
  Wired,         \* READER_TOOL_NAMES
  GateTurns,     \* turns of chat threads
  MaxDispatches

ASSUME RegistriesAssumption == \A r \in Registries : DOMAIN r.tools = 1..Len(r.tools)

VARIABLES
  registry,      \* at most one, once it is loaded
  dispatcher,    \* whether the reader's dispatcher was made
  turns,         \* the analyst's turns
  staged,        \* pending actions
  handed,        \* history: of which tools a result was given to which audience
  executed,      \* history: the tools that ran, by whom and in which bundle
  dispatches

gateVars == <<registry, dispatcher, turns, staged, handed, executed, dispatches>>

Named(r, name) == {t \in ToSet(r.tools) : t.name = name}

\* parseToolRegistry
Parsed(r) ==
  /\ r.bundles # {} /\ r.tools # <<>>
  /\ \A i, j \in DOMAIN r.tools : r.tools[i].name = r.tools[j].name => i = j
  /\ \A t \in ToSet(r.tools) : t.bundles \subseteq r.bundles

\* validateRegistryAudienceBoundary: no schema of an analyst's tool names a raw field,
\* or leaves an object open without guarding the names of its properties. Where a schema
\* has no type, properties or requirements, there is no object to look at.
AudienceBoundary(r) == \A t \in ToSet(r.tools) : t.audience = "analyst" => t.schema \notin {"raw", "open"}

\* toolsForAudience: where they are in the registry, whose order they keep
ToolsFor(r, bundle, audience) ==
  {i \in DOMAIN r.tools : bundle \in r.tools[i].bundles /\ r.tools[i].audience = audience}

\* selectToolBundle
Selected(r, bundle) == bundle \in r.bundles /\ bundle \in PromptBundles

\* a bug: a tool is for whoever finds it in the bundle
AuthorizationOfBundle(r, bundle, audience, name, raw) ==
  IF \E t \in Named(r, name) : bundle \in t.bundles THEN "ok" ELSE "tool_not_in_bundle"

\* authorizeToolCall: "ok" or the reason of the rejection. raw: the arguments name a
\* field of raw documents
Authorization(r, bundle, audience, name, raw) ==
  IF Named(r, name) = {} THEN "unknown_tool"
  ELSE LET t == CHOOSE t \in Named(r, name) : TRUE
       IN IF bundle \notin t.bundles THEN "tool_not_in_bundle"
          ELSE IF t.audience # audience THEN "audience_mismatch"
          ELSE IF audience = "analyst" /\ raw THEN "raw_document_payload"
          ELSE "ok"

IdleTurn == [at |-> "idle", bundle |-> "none", tool |-> {}, status |-> "none"]

GateInit ==
  /\ registry = {} /\ dispatcher = FALSE
  /\ turns = [t \in GateTurns |-> IdleTurn]
  /\ staged = {} /\ handed = {} /\ executed = {} /\ dispatches = 0

\* loadToolRegistry; a file that does not parse throws, and nothing is made
LoadRegistry(r) ==
  /\ registry = {} /\ Parsed(r)
  /\ registry' = {r}
  /\ UNCHANGED <<dispatcher, turns, staged, handed, executed, dispatches>>

-------------------------------------------------------------------------------
\* createRegistryBackedAnalystToolRuntime: the first tool that only reads, needs no
\* approval and resolves nothing, else the first of the bundle; or the preferred one.
\* toolsForAudience and authorizeToolAccess throw outside the boundary.
Choice(r, bundle, preferred) ==
  LET tools == ToolsFor(r, bundle, "analyst")
      plain == {i \in tools : LET t == r.tools[i] IN ~t.resolves /\ t.readOnly /\ ~t.approval}
      First(places) == {r.tools[i] : i \in {i \in places : \A j \in places : i <= j}}
  IN IF preferred # "none" THEN Named(r, preferred)
     ELSE IF plain # {} THEN First(plain) ELSE First(tools)

Ended(t, status) == turns' = [turns EXCEPT ![t].at = "done", ![t].status = status]

\* a turn without a bundle, outside the boundary or without a tool throws
BeginTurn(t, kind, preferred) ==
  /\ turns[t].at = "idle"
  /\ \E r \in registry :
       LET bundle == Routes[kind] IN
       turns' = [turns EXCEPT ![t] =
         IF Selected(r, bundle) /\ AudienceBoundary(r) /\ Choice(r, bundle, preferred) # {}
         THEN [IdleTurn EXCEPT !.at = "call", !.bundle = bundle, !.tool = Choice(r, bundle, preferred)]
         ELSE [IdleTurn EXCEPT !.at = "done", !.status = "thrown"]]
  /\ UNCHANGED <<registry, dispatcher, staged, handed, executed, dispatches>>

\* interceptToolCall, of a call that is authorized
Intercept(tool) ==
  IF ~tool.approval THEN "execute" ELSE IF tool.readOnly THEN "throw" ELSE "pending_approval"

\* buildPendingToolAction: its id is made of the turn's key, the tool, the bundle and the
\* arguments, so that a turn that is asked for again stages the same
PendingAction(t, tool, bundle) == <<t, tool.name, bundle>>

\* checkToolCall, runtimeToolCallFromDecision. Its one call is within any budget.
CallTool(t) ==
  /\ turns[t].at = "call"
  /\ \E r \in registry, tool \in turns[t].tool :
       IF Authorization(r, turns[t].bundle, "analyst", tool.name, FALSE) # "ok"
       THEN Ended(t, "rejected") /\ UNCHANGED staged
       ELSE CASE Intercept(tool) = "throw" -> Ended(t, "thrown") /\ UNCHANGED staged
              [] Intercept(tool) = "pending_approval" ->
                   /\ staged' = staged \cup {PendingAction(t, tool, turns[t].bundle)}
                   /\ Ended(t, "pending_approval")
              [] Intercept(tool) = "execute" ->
                   turns' = [turns EXCEPT ![t].at = "execute"] /\ UNCHANGED staged
  /\ UNCHANGED <<registry, dispatcher, handed, executed, dispatches>>

Run(tool, audience, bundle) == [tool |-> tool, by |-> audience, bundle |-> bundle]

\* The executor's result is handed on as it is; without an executor the call is skipped.
Execute(t) ==
  /\ turns[t].at = "execute"
  /\ \E tool \in turns[t].tool :
       \/ /\ handed' = handed \cup {[to |-> "analyst", tool |-> tool.name]}
          /\ executed' = executed \cup {Run(tool.name, "analyst", turns[t].bundle)}
          /\ Ended(t, "ok")
       \/ Ended(t, "skipped") /\ UNCHANGED <<handed, executed>>
       \/ /\ executed' = executed \cup {Run(tool.name, "analyst", turns[t].bundle)}
          /\ Ended(t, "thrown") /\ UNCHANGED handed
  /\ UNCHANGED <<registry, dispatcher, staged, dispatches>>

\* The same turn, once more.
RetryTurn(t) ==
  /\ turns[t].at = "done"
  /\ turns' = [turns EXCEPT ![t] = IdleTurn]
  /\ UNCHANGED <<registry, dispatcher, staged, handed, executed, dispatches>>

-------------------------------------------------------------------------------
\* createReaderToolDispatcher: a handler for every wired tool, and for nothing else,
\* and each of them a reader's tool of the registry
MakeDispatcher(handlers) ==
  /\ ~dispatcher
  /\ \E r \in registry :
       /\ AudienceBoundary(r)
       /\ \A name \in handlers : \E t \in Named(r, name) : t.audience = "reader"
       /\ handlers = Wired
  /\ dispatcher' = TRUE
  /\ UNCHANGED <<registry, turns, staged, handed, executed, dispatches>>

\* parseReaderToolInput, assertValidReaderToolOutput
WellFormed(args) == args # "malformed"
Handed(name, audience, outcome) == IF outcome = "result" THEN {[to |-> audience, tool |-> name]} ELSE {}

\* dispatch: an answer {ok: false} leaves no trace. A handler may refuse (ReaderToolError)
\* or throw, and its output may be misshapen: then it ran, and nothing is handed on.
Dispatch(bundle, audience, name, args) ==
  /\ dispatcher /\ dispatches < MaxDispatches
  /\ \E r \in registry :
       /\ Authorization(r, bundle, audience, name, args = "raw") = "ok"
       /\ name \in Wired /\ WellFormed(args)
       /\ \E outcome \in {"result", "thrown", "misshapen"} : handed' = handed \cup Handed(name, audience, outcome)
  /\ executed' = executed \cup {Run(name, audience, bundle)}
  /\ dispatches' = dispatches + 1
  /\ UNCHANGED <<registry, dispatcher, turns, staged>>

GateNext ==
  \/ \E r \in Registries : LoadRegistry(r)
  \/ \E t \in GateTurns : CallTool(t) \/ Execute(t) \/ RetryTurn(t)
  \/ \E t \in GateTurns, kind \in DOMAIN Routes, p \in Preferred : BeginTurn(t, kind, p)
  \/ \E r \in registry :
       \/ MakeDispatcher({t.name : t \in {x \in ToSet(r.tools) : x.audience = "reader"}})
       \/ \E bundle \in r.bundles, audience \in {"analyst", "reader"}, t \in ToSet(r.tools),
            args \in {"clean", "raw", "malformed"} : Dispatch(bundle, audience, t.name, args)

GateSpec == GateInit /\ [][GateNext]_gateVars

GateTypeOK ==
  /\ Cardinality(registry) <= 1 /\ registry \subseteq Registries
  /\ \A t \in GateTurns : turns[t].at \in {"idle", "call", "execute", "done"}
  /\ staged \subseteq GateTurns \X STRING \X STRING
  /\ dispatches \in 0..MaxDispatches

\* A tool of the registry that the audience may call in the bundle.
Callable(r, name, audience, bundle) == {t \in Named(r, name) : t.audience = audience /\ bundle \in t.bundles}

\* Bundles, routes, a preferred tool, approvals and handlers come from tables that are
\* read apart from each other; whichever way a turn or a dispatch combines them: what
\* runs is a tool of the caller's audience and bundle, and needs no approval, or it only
\* reads; what waits for an approval is a writing tool of the analyst's bundle; and the
\* analyst is handed results of its own tools alone, whose schemas neither name fields of
\* raw documents nor leave an object open (audience-enforcement.ts, approval-
\* interceptor.ts, reader-tool-dispatcher.ts).
GateHolds ==
  \A r \in registry :
    /\ \A x \in executed : \E t \in Callable(r, x.tool, x.by, x.bundle) : t.approval => t.readOnly
    /\ \A p \in staged : \E t \in Callable(r, p[2], "analyst", p[3]) : t.approval /\ ~t.readOnly
    /\ \A h \in handed : h.to = "analyst" =>
         \E t \in Named(r, h.tool) : t.audience = "analyst" /\ t.schema \notin {"raw", "open"}

===============================================================================
