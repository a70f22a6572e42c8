----------------------------- MODULE LlmSettings ------------------------------
(* Language-model channels (services/llm): what a settings file says, the deployments a   *)
(* request tries in order, and the text that the settings page's answer is rendered to.   *)
(* A file is a function from variables <<channel, suffix>> to the values listed there;    *)
(* those of no channel have the channel "".  Quoting is left out: values are plain.       *)
EXTENDS Integers, FiniteSets, Sequences, TLC, SequencesExt, Functions

CONSTANT EnvNameOf(_)   \* the variable prefix of a channel's name

Mask == "********"
ChannelVars == {"PROTOCOL", "BASE_URL", "API_KEY", "API_KEYS", "MODELS", "ENABLED"}
Selections == {"CHANNELS", "MODEL", "FALLBACK", "AGENT"}

Lookup(vars, k) == IF k \in DOMAIN vars THEN vars[k] ELSE <<>>
FirstOfEach(s) == FoldLeft(LAMBDA kept, x : IF x \in Range(kept) THEN kept ELSE Append(kept, x), <<>>, s)

\* --- parseLlmEnv ------------------------------------------------------------------------
ChannelFrom(vars, name) ==
  LET Of(suffix) == Lookup(vars, <<EnvNameOf(name), suffix>>)
  IN [name |-> name,
      protocol |-> IF Of("PROTOCOL") = <<>> THEN "openai-compatible" ELSE Of("PROTOCOL")[1],
      baseUrl |-> Range(Of("BASE_URL")), apiKeys |-> Of("API_KEY") \o Of("API_KEYS"),
      models |-> Of("MODELS"), enabled |-> Of("ENABLED") # <<"false">>]

ChannelsOf(vars) ==
  LET names == FirstOfEach(Lookup(vars, <<"", "CHANNELS">>)) IN [k \in DOMAIN names |-> ChannelFrom(vars, names[k])]

DuplicateNames(vars) ==
  LET names == Lookup(vars, <<"", "CHANNELS">>)
  IN {<<"duplicate", names[k]>> : k \in {i \in DOMAIN names : \E j \in 1..(i - 1) : names[j] = names[i]}}

NeedsBaseUrl(c) == c.protocol = "openai-compatible" /\ c.baseUrl = {}
ChannelIssues(channels) ==
  {<<"base_url", c.name>> : c \in {d \in Range(channels) : d.enabled /\ NeedsBaseUrl(d)}}
  \cup {<<"models", c.name>> : c \in {d \in Range(channels) : d.enabled /\ d.models = <<>>}}

\* a reference <<channel, model>> or, of no channel, <<"any", model>>: a set of at most one
ExplicitRef(ref, channels) ==
  {ref : c \in {d \in Range(channels) : /\ d.name = ref[1] /\ d.enabled
                                        /\ d.models = <<>> \/ ref[2] \in Range(d.models)}}
InferredRef(ref, channels) ==
  LET named == {c.name : c \in {d \in Range(channels) : d.enabled /\ ref[2] \in Range(d.models)}}
  IN IF Cardinality(named) = 1 THEN {<<n, ref[2]>> : n \in named} ELSE {}
ResolvedRef(ref, channels) == IF ref[1] = "any" THEN InferredRef(ref, channels) ELSE ExplicitRef(ref, channels)
ResolvedRefs(refs, channels) ==
  FoldLeft(LAMBDA kept, ref : kept \o SetToSeq(ResolvedRef(ref, channels)), <<>>, refs)

SettingsFrom(vars) ==
  LET channels == ChannelsOf(vars)
      Refs(s) == ResolvedRefs(Lookup(vars, <<"", s>>), channels)
  IN [channels |-> channels, primary |-> Range(Refs("MODEL")), fallbacks |-> FirstOfEach(Refs("FALLBACK")),
      agent |-> Range(Refs("AGENT")),
      issues |-> ChannelIssues(channels) \cup DuplicateNames(vars)
                 \cup {<<s, "unresolved">> : s \in {x \in Selections \ {"CHANNELS"} :
                         \E ref \in Range(Lookup(vars, <<"", x>>)) : ResolvedRef(ref, channels) = {}}}]

\* --- buildLlmDeploymentOrder -----------------------------------------------------------
Deployable(c) == c.enabled /\ c.models # <<>> /\ ~NeedsBaseUrl(c)
DeploymentsOf(settings) ==
  SelectSeq(FirstOfEach(SetToSeq(settings.primary) \o settings.fallbacks),
            LAMBDA ref : \E c \in Range(settings.channels) : c.name = ref[1] /\ Deployable(c))

\* loadLlmSettingsFromEnv: what the file has goes before the process's environment
LoadedFrom(vars, environment) == SettingsFrom(vars @@ environment)

\* --- what a provider's failure is (providerErrorFromUnknown), and what ends the attempts ----
ProviderCode(reply) ==
  CASE reply.status \in {401, 403} \/ reply.hint = "auth" -> "auth_failed"
    [] reply.status = 404 \/ (reply.hint = "model" /\ reply.status \notin {401, 403}) -> "model_not_found"
    [] reply.status = 429 \/ (reply.hint = "rate" /\ reply.status \notin {401, 403, 404}) -> "rate_limited"
    [] reply.hint = "timeout" /\ reply.status \notin {401, 403, 404, 429} -> "timeout"
    [] OTHER -> "provider_failed"
Terminal(code) == code \in {"auth_failed", "model_not_found"}

\* diagnosticRouterCode, of the codes of all attempts
Diagnosis(codes) == IF Cardinality(Range(codes)) = 1 THEN codes[1] ELSE "all_deployments_failed"

\* --- editableLlmSettingsFromEnv: keys are masked, references that do not resolve are gone ----
Masked(keys) == [k \in DOMAIN keys |-> Mask]
EditableFrom(vars) ==
  LET s == SettingsFrom(vars)
  IN [channels |-> [k \in DOMAIN s.channels |->
                      [s.channels[k] EXCEPT !.apiKeys = Masked(@)] @@
                      [apiKey |-> IF s.channels[k].apiKeys = <<>> THEN {} ELSE {Mask}]],
      primary |-> s.primary, fallbacks |-> s.fallbacks, agent |-> s.agent, issues |-> s.issues]

\* --- mergeLlmSettingsIntoEnvText ----------------------------------------------------------
NonEmpty(s) == SelectSeq(s, LAMBDA x : x # "")

\* a masked key stands for the one at its place, or else the first one
ResolvedKeys(channel, current) ==
  LET raw == IF NonEmpty(channel.apiKeys) # <<>> THEN NonEmpty(channel.apiKeys)
             ELSE NonEmpty(SetToSeq(channel.apiKey))
      Kept(k) == IF raw[k] # Mask THEN <<raw[k]>>
                 ELSE IF k \in DOMAIN current THEN <<current[k]>>
                 ELSE IF current # <<>> THEN <<current[1]>> ELSE <<>>
  IN FlattenSeq([k \in DOMAIN raw |-> Kept(k)])

ChannelLines(channel, vars) ==
  LET e == EnvNameOf(channel.name)
      keys == ResolvedKeys(channel, Lookup(vars, <<e, "API_KEY">>) \o Lookup(vars, <<e, "API_KEYS">>))
      line == [s \in ChannelVars |->
                 CASE s = "PROTOCOL" -> <<channel.protocol>>
                   [] s = "BASE_URL" -> SetToSeq(channel.baseUrl)
                   [] s = "API_KEY" -> IF Len(keys) = 1 THEN keys ELSE <<>>
                   [] s = "API_KEYS" -> IF Len(keys) > 1 THEN keys ELSE <<>>
                   [] s = "MODELS" -> channel.models
                   [] OTHER -> IF channel.enabled THEN <<>> ELSE <<"false">>]
  IN [v \in {<<e, s>> : s \in {x \in ChannelVars : line[x] # <<>>}} |-> line[v[2]]]

\* of two channels with one prefix the lines of the later one count
RenderedFrom(settings, vars) ==
  LET selected == [CHANNELS |-> [k \in DOMAIN settings.channels |-> settings.channels[k].name],
                   MODEL |-> SetToSeq(settings.primary), FALLBACK |-> settings.fallbacks,
                   AGENT |-> SetToSeq(settings.agent)]
      named == {s \in Selections : s = "CHANNELS" \/ selected[s] # <<>>}
  IN FoldLeft(LAMBDA done, channel : ChannelLines(channel, vars) @@ done,
              [v \in {<<"", s>> : s \in named} |-> selected[v[2]]], settings.channels)

-------------------------------------------------------------------------------
(* Settings of the language models: pages that read, edit and save the settings file      *)
(* through dev-api, model tests and model discovery, people who edit the file by hand,    *)
(* and chat turns whose answers and titles are written by the models the file names.      *)

CONSTANTS
  Tabs, Composers,                   \* settings pages, chat turns
  OpsOf(_),                          \* what is done on a page: save, test, discover, edit
  AccessAtFirst,                     \* how dev-api may be set up for the pages, see AccessStatus
  LlmFilesAtFirst, HandEdits(_),     \* files, and what an editor makes of one
  TypedNames, TypedKeys,             \* what is typed into a page
  ModelReplies, ModelListings,                 \* what a model, and a provider's list of models, answers
  AnalystBlocks,                     \* the blocks an analyst turn has before it is composed
  LlmBudgets                         \* bounds: [pages, turns, changes]

VARIABLES
  settingsFile,    \* the file: the variables it sets (none: there is no file)
  access,          \* [enabled, configured, local]: flags of dev-api, and the pages on its machine
  environment,     \* what the processes had from the file when they were started
  tabs,            \* pages: [at, busy, version, settings, message]
  llmCalls,        \* the request of a page or a turn: [op, stage, sent, channel, base, todo, codes, answer]
  writesLeft,      \* what dev-api still writes for pages that have given up: [settings, base]
  written,         \* what the models wrote for a turn: [outcome, blocks]
  llmBudget        \* requests of pages and turns, and edits and failures, that are left

llmVars == <<settingsFile, access, environment, tabs, llmCalls, writesLeft, written, llmBudget>>

NoLlmCall == [op |-> "none", stage |-> "idle", sent |-> {}, channel |-> {}, base |-> {},
              todo |-> <<>>, codes |-> <<>>, answer |-> {}]
NoSettings == [channels |-> <<>>, primary |-> {}, fallbacks |-> <<>>, agent |-> {}, issues |-> {}]
ClosedTab == [at |-> "closed", busy |-> "none", version |-> {}, settings |-> NoSettings, message |-> ""]

LlmInit ==
  /\ settingsFile \in LlmFilesAtFirst
  /\ environment = settingsFile /\ access \in AccessAtFirst
  /\ tabs = [t \in Tabs |-> ClosedTab]
  /\ llmCalls = [u \in Tabs \cup Composers |-> NoLlmCall]
  /\ writesLeft = {}
  /\ written = [c \in Composers |-> [outcome |-> "none", blocks |-> <<>>]]
  /\ llmBudget \in LlmBudgets

Spend(what) == llmBudget[what] > 0 /\ llmBudget' = [llmBudget EXCEPT ![what] = @ - 1]

LlmAsk(op) == [NoLlmCall EXCEPT !.op = op, !.stage = "asked"]
Sent(status, file, code, models) == {[status |-> status, file |-> file, code |-> code, models |-> models]}
Refuses(status, code) == Sent(status, {}, code, <<>>)
Reply(u, answer) == llmCalls' = [llmCalls EXCEPT ![u] = [@ EXCEPT !.stage = "answered", !.answer = answer]]

\* guardLlmSettingsAccess, isLocalDevRequest
LocalRequest(t) == t \in access.local
AccessStatus(t) ==
  CASE ~access.enabled -> 404
    [] access.enabled /\ ~LocalRequest(t) -> 403
    [] access.enabled /\ LocalRequest(t) /\ ~access.configured -> 503
    [] OTHER -> 200

\* --- the page -----------------------------------------------------------------------------
OpenSettings(t) ==
  /\ tabs[t].at = "closed" /\ llmCalls[t] = NoLlmCall
  /\ tabs' = [tabs EXCEPT ![t].at = "loading"]
  /\ llmCalls' = [llmCalls EXCEPT ![t] = LlmAsk("load")]
  /\ UNCHANGED <<settingsFile, access, environment, written, llmBudget, writesLeft>>

\* unmounted: an answer that is still to come is dropped
LeaveSettings(t) ==
  /\ tabs[t].at # "closed"
  /\ Spend("changes")
  /\ tabs' = [tabs EXCEPT ![t] = ClosedTab]
  /\ UNCHANGED <<settingsFile, access, environment, llmCalls, written, writesLeft>>

IdlePage(t) == tabs[t].at = "ready" /\ tabs[t].busy = "none"
Starts(t, op, call) ==
  /\ IdlePage(t) /\ llmCalls[t] = NoLlmCall /\ op \in OpsOf(t)
  /\ Spend("pages")
  /\ tabs' = [tabs EXCEPT ![t].busy = op]
  /\ llmCalls' = [llmCalls EXCEPT ![t] = call]
  /\ UNCHANGED <<settingsFile, access, environment, written, writesLeft>>

SaveSettings(t) ==
  Starts(t, "save", [LlmAsk("save") EXCEPT !.sent = {[version |-> tabs[t].version, settings |-> tabs[t].settings]}])
TestChannel(t) == Starts(t, "test", LlmAsk("test"))
DiscoverModels(t) ==
  \E k \in DOMAIN tabs[t].settings.channels :
    Starts(t, "discover", [LlmAsk("discover") EXCEPT !.channel = {tabs[t].settings.channels[k]}])

DefaultChannel ==
  [name |-> "deepseek", protocol |-> "openai-compatible", baseUrl |-> {"https://deepseek"},
   apiKey |-> {""}, apiKeys |-> <<"">>, models |-> <<"deepseek-chat">>, enabled |-> TRUE]

ModelOptions(settings) ==
  FlattenSeq([k \in DOMAIN settings.channels |->
    LET c == settings.channels[k] IN [m \in DOMAIN c.models |-> <<c.name, c.models[m]>>]])

\* what one change of an input makes of a channel
ChannelEdits(c) ==
  {[c EXCEPT !.name = n] : n \in TypedNames}
  \cup {[c EXCEPT !.protocol = p] : p \in {"openai-compatible", "openai"}}
  \cup {[c EXCEPT !.baseUrl = {}], [c EXCEPT !.enabled = ~@], [c EXCEPT !.models = <<>>]}
  \cup {[c EXCEPT !.apiKey = IF key = "" THEN {} ELSE {key}, !.apiKeys = IF key = "" THEN <<>> ELSE <<key>>] :
          key \in TypedKeys}

\* one change on the page: inputs stay enabled while a request is under way, Add and Remove do not
EditedDraft(settings, idle) ==
  LET options == ModelOptions(settings)
      fallbackOptions == FirstOfEach(options \o settings.fallbacks)
  IN UNION {{[settings EXCEPT !.channels[k] = c] : c \in ChannelEdits(settings.channels[k])} :
              k \in DOMAIN settings.channels}
     \cup {[settings EXCEPT !.channels = RemoveAt(@, k)] : k \in {i \in DOMAIN settings.channels : idle}}
     \cup {[settings EXCEPT !.channels = Append(@, c)] : c \in {d \in {DefaultChannel} : idle}}
     \cup {[settings EXCEPT !.primary = r] : r \in {{}} \cup {{x} : x \in Range(options)}}
     \cup {[settings EXCEPT !.agent = r] : r \in {{}} \cup {{x} : x \in Range(options)}}
     \cup {[settings EXCEPT !.fallbacks = SelectSeq(fallbackOptions, LAMBDA x : x \in chosen)] :
             chosen \in SUBSET Range(fallbackOptions)}

EditSettings(t) ==
  /\ tabs[t].at = "ready" /\ "edit" \in OpsOf(t)
  /\ Spend("changes")
  /\ \E s \in EditedDraft(tabs[t].settings, tabs[t].busy = "none") \ {tabs[t].settings} :
       tabs' = [tabs EXCEPT ![t].settings = s]
  /\ UNCHANGED <<settingsFile, access, environment, llmCalls, written, writesLeft>>

\* --- dev-api --------------------------------------------------------------------------------
At(u, op, stage) == llmCalls[u].op = op /\ llmCalls[u].stage = stage
Unchanged == UNCHANGED <<settingsFile, access, environment, tabs, written, llmBudget, writesLeft>>

RefuseAccess(t) ==
  /\ llmCalls[t].stage = "asked" /\ AccessStatus(t) # 200
  /\ Reply(t, Refuses(AccessStatus(t), "refused"))
  /\ Unchanged

Admitted(t, op, stage) == At(t, op, stage) /\ AccessStatus(t) = 200

ReadSettings(t) ==
  /\ Admitted(t, "load", "asked")
  /\ Reply(t, Sent(200, {settingsFile}, "", <<>>))
  /\ Unchanged

AcceptsUpdate(settings) == \A c \in Range(settings.channels) : c.name # ""   \* readLlmSettingsUpdateBody

\* the first half of writeLlmSettingsEnvFile: read and compare
CompareVersion(t) ==
  /\ Admitted(t, "save", "asked")
  /\ \E body \in llmCalls[t].sent :
       CASE ~AcceptsUpdate(body.settings) -> Reply(t, Refuses(400, "channel.name is required"))
         [] AcceptsUpdate(body.settings) /\ body.version # {settingsFile} ->
              Reply(t, Refuses(409, "version conflict"))
         [] OTHER -> llmCalls' = [llmCalls EXCEPT ![t].stage = "writing", ![t].base = {settingsFile}]
  /\ Unchanged

\* the second half: the text made from the file as it was read replaces the file as it is now
RenameFile(t) ==
  /\ Admitted(t, "save", "writing")
  /\ \E body \in llmCalls[t].sent, base \in llmCalls[t].base :
       /\ settingsFile' = RenderedFrom(body.settings, base)
       /\ Reply(t, Sent(200, {settingsFile'}, "", <<>>))
  /\ UNCHANGED <<access, environment, tabs, written, llmBudget, writesLeft>>

\* test-channel: a router over the deployments of the file and, behind it, the environment
StartTest(t) ==
  /\ Admitted(t, "test", "asked")
  /\ LET todo == DeploymentsOf(LoadedFrom(settingsFile, environment))
     IN CASE DOMAIN settingsFile = {} -> Reply(t, Refuses(500, "no such file"))
          [] DOMAIN settingsFile # {} /\ todo = <<>> -> Reply(t, Refuses(400, "no enabled LLM deployment is configured"))
          [] OTHER -> llmCalls' = [llmCalls EXCEPT ![t].stage = "trying", ![t].todo = todo]
  /\ Unchanged

\* what a provider's list answers: 0 for no answer in ten seconds, 1 for a broken connection
ListingCode(x) ==
  CASE x.status \in {0, 408, 504} -> "timeout"
    [] x.status = 1 -> "network_failed"
    [] x.status \in {401, 403} -> "auth_failed"
    [] x.status \in {404, 405, 501} -> "model_listing_unavailable"
    [] x.status = 200 /\ x.malformed -> "malformed_response"
    [] x.status = 200 /\ ~x.malformed -> "ok"
    [] OTHER -> "provider_failed"

\* discoverOpenAiCompatibleModels
ListModels(t) ==
  /\ Admitted(t, "discover", "asked")
  /\ \E c \in llmCalls[t].channel :
       \/ c.baseUrl = {} /\ Reply(t, Refuses(400, "baseUrl is required"))
       \/ c.baseUrl # {} /\ \E x \in ModelListings : Reply(t, Sent(200, {}, ListingCode(x), x.models))
  /\ Unchanged

\* A read or write fails, or the connection breaks: what was renamed stays renamed, and
\* what was compared may still be written.
LlmCallFails(u) ==
  /\ llmCalls[u].stage # "idle" /\ llmCalls[u].answer # Refuses(0, "failed")
  /\ Spend("changes")
  /\ Reply(u, Refuses(0, "failed"))
  /\ \/ UNCHANGED writesLeft
     \/ /\ llmCalls[u].stage = "writing"
        /\ writesLeft' = writesLeft \cup {[settings |-> body.settings, base |-> base] :
                                            body \in llmCalls[u].sent, base \in llmCalls[u].base}
  /\ UNCHANGED <<settingsFile, access, environment, tabs, written>>

FinishWrite ==
  \E w \in writesLeft :
    /\ settingsFile' = RenderedFrom(w.settings, w.base) /\ writesLeft' = writesLeft \ {w}
    /\ UNCHANGED <<access, environment, tabs, llmCalls, written, llmBudget>>

\* --- router.complete: deployments in order, until one answers or refuses for good --------------
\* what became of an answered request: a test wants a certain text, a turn any text, a title takes all
Judged(op, text) ==
  CASE op = "test" -> IF text = "Reply OK" THEN "ok" ELSE "unexpected"
    [] op = "compose" -> IF text = "" THEN "unchanged" ELSE "written"
    [] OTHER -> "written"

TryDeployment(u) ==
  /\ llmCalls[u].stage = "trying"
  /\ \E reply \in ModelReplies :
       LET c == llmCalls[u]
           code == ProviderCode(reply)
           codes == Append(c.codes, code)
       IN IF reply.status = 200 THEN Reply(u, Sent(200, {}, Judged(c.op, reply.text), <<reply.text>>))
          ELSE IF Terminal(code) THEN Reply(u, Sent(200, {}, code, <<>>))
          ELSE IF Len(c.todo) = 1 THEN Reply(u, Sent(200, {}, Diagnosis(codes), <<>>))
          ELSE llmCalls' = [llmCalls EXCEPT ![u].todo = Tail(@), ![u].codes = codes]
  /\ Unchanged

\* --- answers at the page ----------------------------------------------------------------------
\* a message for the page that is still there; a page that was left drops it
Delivered(t, op, changed) ==
  /\ At(t, op, "answered")
  /\ tabs' = [tabs EXCEPT ![t] = IF @.at = "closed" THEN @ ELSE [changed EXCEPT !.busy = "none"]]
  /\ llmCalls' = [llmCalls EXCEPT ![t] = NoLlmCall]
  /\ UNCHANGED <<settingsFile, access, environment, written, llmBudget, writesLeft>>

Showing(t, file, message) ==
  [tabs[t] EXCEPT !.at = "ready", !.version = {file}, !.settings = EditableFrom(file), !.message = message]

SettingsLoaded(t) ==
  \E a \in llmCalls[t].answer :
    \/ \E file \in a.file : Delivered(t, "load", Showing(t, file, ""))
    \/ a.file = {} /\ Delivered(t, "load", [tabs[t] EXCEPT !.at = "error", !.message = a.code])

SettingsSaved(t) ==
  \E a \in llmCalls[t].answer :
    \/ \E file \in a.file : Delivered(t, "save", Showing(t, file, "Saved"))
    \/ a.file = {} /\ Delivered(t, "save", [tabs[t] EXCEPT !.message = a.code])

ChannelTested(t) ==
  \E a \in llmCalls[t].answer : Delivered(t, "test", [tabs[t] EXCEPT !.message = a.code])

\* the models go to every channel that now has the name of the one that was asked
ModelsDiscovered(t) ==
  \E a \in llmCalls[t].answer, asked \in llmCalls[t].channel :
    LET found == [k \in DOMAIN tabs[t].settings.channels |->
                    [tabs[t].settings.channels[k] EXCEPT !.models = IF tabs[t].settings.channels[k].name = asked.name
                                                                   THEN a.models ELSE @]]
    IN Delivered(t, "discover", [tabs[t] EXCEPT !.message = a.code,
                                                !.settings.channels = IF a.code = "ok" THEN found ELSE @])

\* --- chat: composeAnalystBlocksWithLlm and the thread's title --------------------------------------
AskModels(c) ==
  /\ llmCalls[c] = NoLlmCall
  /\ Spend("turns")
  /\ \E op \in {"compose", "title"} : llmCalls' = [llmCalls EXCEPT ![c] = LlmAsk(op)]
  /\ UNCHANGED <<settingsFile, access, environment, tabs, written, writesLeft>>

StartTurn(c) ==
  /\ llmCalls[c].stage = "asked"
  /\ LET todo == DeploymentsOf(LoadedFrom(settingsFile, environment))
     IN CASE DOMAIN settingsFile = {} -> Reply(c, Refuses(0, "failed"))
          [] DOMAIN settingsFile # {} /\ todo = <<>> ->
               Reply(c, IF llmCalls[c].op = "compose" THEN Sent(200, {}, "unchanged", <<>>) ELSE Refuses(0, "failed"))
          [] OTHER -> llmCalls' = [llmCalls EXCEPT ![c].stage = "trying", ![c].todo = todo]
  /\ Unchanged

\* rewriteFirstRichTextBlock
RewrittenBlocks(blocks, text) ==
  LET first == SelectInSeq(blocks, LAMBDA b : b.kind = "rich_text")
  IN IF first = 0 THEN blocks ELSE [blocks EXCEPT ![first].text = text]

TurnWritten(c) ==
  /\ llmCalls[c].stage = "answered"
  /\ \E a \in llmCalls[c].answer :
       written' = [written EXCEPT ![c] =
         [outcome |-> IF a.code \in {"written", "unchanged"} THEN a.code ELSE "failed",
          blocks |-> CASE llmCalls[c].op = "title" \/ a.code \notin {"written", "unchanged"} -> <<>>
                       [] llmCalls[c].op = "compose" /\ a.code = "unchanged" -> AnalystBlocks
                       [] OTHER -> RewrittenBlocks(AnalystBlocks, a.models[1])]]
  /\ llmCalls' = [llmCalls EXCEPT ![c] = NoLlmCall]
  /\ UNCHANGED <<settingsFile, access, environment, tabs, llmBudget, writesLeft>>

\* somebody edits the file with an editor
EditFile ==
  /\ Spend("changes")
  /\ settingsFile' \in HandEdits(settingsFile) \ {settingsFile}
  /\ UNCHANGED <<access, environment, tabs, llmCalls, written, writesLeft>>

LlmNext ==
  \/ EditFile \/ FinishWrite
  \/ \E t \in Tabs :
       \/ OpenSettings(t) \/ LeaveSettings(t) \/ SaveSettings(t) \/ TestChannel(t) \/ DiscoverModels(t)
       \/ EditSettings(t) \/ RefuseAccess(t) \/ ReadSettings(t) \/ CompareVersion(t) \/ RenameFile(t)
       \/ StartTest(t) \/ ListModels(t) \/ SettingsLoaded(t) \/ SettingsSaved(t) \/ ChannelTested(t)
       \/ ModelsDiscovered(t)
  \/ \E c \in Composers : AskModels(c) \/ StartTurn(c) \/ TurnWritten(c)
  \/ \E u \in Tabs \cup Composers : TryDeployment(u) \/ LlmCallFails(u)

\* Types.  The file never holds a mask and no page ever a key that was not typed into it, the
\* models that are tried are deployable ones of what was read, and a page is busy with its request.
LlmTypeOK ==
  /\ \A v \in DOMAIN settingsFile : v[2] \in ChannelVars \cup Selections /\ Mask \notin Range(settingsFile[v])
  /\ \A t \in Tabs :
       /\ tabs[t].at \in {"closed", "loading", "error", "ready"}
       /\ tabs[t].busy \in {"none", "save", "test", "discover"}
       /\ tabs[t].busy # "none" => llmCalls[t].op = tabs[t].busy
       /\ tabs[t].at = "ready" <=> tabs[t].version # {}
       /\ \A c \in Range(tabs[t].settings.channels) : Range(c.apiKeys) \cup c.apiKey \subseteq {Mask, ""} \cup TypedKeys
  /\ \A u \in Tabs \cup Composers :
       /\ llmCalls[u].stage \in {"idle", "asked", "writing", "trying", "answered"}
       /\ llmCalls[u].stage = "answered" <=> llmCalls[u].answer # {}
       /\ llmCalls[u].stage = "trying" => llmCalls[u].todo # <<>> /\ \A k \in DOMAIN llmCalls[u].codes : ~Terminal(llmCalls[u].codes[k])
  /\ \A c \in Composers : written[c].outcome \in {"none", "written", "unchanged", "failed"}
===============================================================================
