------------------------------- MODULE SubjectPages -------------------------------
(* The search box (web/src/symbol/SymbolSearch.tsx, search.ts) and the page of a       *)
(* subject (shell/SubjectDetailShell.tsx) with the fetches of its header and sections  *)
(* (symbol/QuoteSnapshot.tsx, useFetched.ts, pages/symbol/).  A commit of React and    *)
(* the effects it runs are one step; an aborted fetch is not answered.                 *)
EXTENDS Integers, FiniteSets, Sequences, SequencesExt

CONSTANTS
  SearchTexts,    \* what can be in the box
  TrimOf(_),      \* trim; "" for blanks
  PageSubjects,   \* kind, issuer and listings of each subject
  MatchesOf(_),   \* the subjects the resolver finds for a text, with or without context
  LegacyTickers,  \* routes that name a ticker
  MaxActs         \* bound: what is typed, submitted and visited

VARIABLES
  box,            \* query
  searchTimer,    \* the debounce timer of the text's effect
  resolves,       \* resolve requests in flight; current: they hold requestSeq
  typeahead,      \* candidates and highlightedIndex
  listFor,        \* the text the candidates were found for
  searchStatus, overtaken,  \* status; whether the timer fired after its turn was over
  location,       \* route: subject or ticker, carried subject, tab
  hydrated, hydrationFailed, hydrating,  \* hydratedSubject, the subject of its error, its fetch
  legacy, legacyAsk,  \* legacyResolution and its fetch
  form,           \* periodMode, basis and axis of the financials
  panels,         \* keyed fetches: the header's quote and those of the sections
  acts            \* counter

searchVars == <<box, searchTimer, resolves, typeahead, listFor, searchStatus, overtaken>>
shellVars == <<location, hydrated, hydrationFailed, hydrating, legacy, legacyAsk, form, panels>>
subjectVars == <<searchVars, shellVars, acts>>

Typed == TrimOf(box)

\* createSymbolTypeaheadState
Listing(found) == [list |-> found, lit |-> IF Len(found) = 1 THEN 1 ELSE 0]

-------------------------------------------------------------------------------
(* The page of a subject. *)

At(at, carried, tab) == [at |-> at, carried |-> carried, tab |-> tab]

\* subjectFromRouterState, else subjectFromRouteParam
BaseSubject(loc) ==
  IF loc.carried # {} THEN CHOOSE s \in loc.carried : TRUE ELSE [ref |-> loc.at, known |-> FALSE]

Canonical(s) == s.ref \notin LegacyTickers

\* subjectNeedsHydration
NeedsHydration(s) ==
  Canonical(s) /\ PageSubjects[s.ref].kind \in {"issuer", "instrument", "listing"} /\ ~s.known

\* the hydrated subject stands in for the one it was fetched for
HydratedFor(s, hyd) == {h \in hyd : h.ref = s.ref}

ShownSubject(loc, hyd) ==
  LET s == BaseSubject(loc) IN
  IF NeedsHydration(s) /\ HydratedFor(s, hyd) # {} THEN CHOOSE h \in hyd : TRUE ELSE s

OutletOpen(loc, hyd) ==
  loc.at \notin LegacyTickers /\ (NeedsHydration(BaseSubject(loc)) => HydratedFor(BaseSubject(loc), hyd) # {})

SectionOf(loc, hyd) == IF OutletOpen(loc, hyd) THEN {loc.tab} ELSE {}

\* listingIdForQuote, issuerIdFromSubject
QuoteKey(s) ==
  IF ~Canonical(s) THEN {}
  ELSE IF PageSubjects[s.ref].kind = "listing" THEN {<<s.ref>>}
  ELSE {<<l>> : l \in {l \in PageSubjects[s.ref].listing : s.known}}
IssuerKey(s) ==
  IF ~Canonical(s) THEN {}
  ELSE IF PageSubjects[s.ref].kind = "issuer" THEN {s.ref} ELSE {i \in PageSubjects[s.ref].issuer : s.known}

FormAtFirst == [periodMode |-> "annual", basis |-> "as_reported", axis |-> "business"]
FormChoices == [periodMode |-> {"annual", "quarterly"}, basis |-> {"as_reported", "as_restated"},
                axis |-> {"business", "geography"}]

\* the keys of the header's quote, of OverviewSection and of FinancialsSection
PanelKeys(loc, hyd, chosen) ==
  LET s == ShownSubject(loc, hyd)
      In(tab, keys) == IF SectionOf(loc, hyd) = {tab} THEN keys ELSE {}
  IN [quote |-> QuoteKey(s),
      profile |-> In("overview", {<<i>> : i \in IssuerKey(s)}),
      series |-> In("overview", QuoteKey(s)),
      statements |-> In("financials", {<<i, chosen.basis, chosen.periodMode>> : i \in IssuerKey(s)}),
      segments |-> In("financials", {<<i, chosen.axis>> : i \in IssuerKey(s)})]

\* useFetched: a new key aborts the fetch and asks again, what is stored stays
BlankPanel == [key |-> {}, asking |-> FALSE, stored |-> {}]
Rekeyed(panel, key) ==
  IF key = panel.key THEN panel ELSE [panel EXCEPT !.key = key, !.asking = key # {}]

\* the panels after a commit of loc and hyd; another section is mounted anew
Panels(loc, hyd) ==
  LET stays == SectionOf(loc, hyd) = SectionOf(location, hydrated) IN
  /\ form' = IF stays THEN form ELSE FormAtFirst
  /\ panels' = [p \in DOMAIN panels |->
       Rekeyed(IF stays \/ p = "quote" THEN panels[p] ELSE BlankPanel, PanelKeys(loc, hyd, form')[p])]

\* The effects of a new location: a subject of another route or of a router state is a
\* new one to hydrate; a ticker is resolved again for another tab.
Arrive(loc) ==
  LET s == BaseSubject(loc)
      same == loc.at = location.at /\ loc.carried = {} /\ location.carried = {}
  IN /\ location' = loc
     /\ hydrating' = IF ~NeedsHydration(s) THEN {} ELSE IF same THEN hydrating ELSE {s.ref}
     /\ legacyAsk' = IF loc.at \notin LegacyTickers THEN {}
                     ELSE IF same /\ loc.tab = location.tab THEN legacyAsk ELSE {[ticker |-> loc.at, tab |-> loc.tab]}
     /\ Panels(loc, hydrated)
     /\ UNCHANGED <<hydrated, hydrationFailed, legacy>>

\* visibleFetchState: what is stored for another key is not shown
VisibleFetch(panel) ==
  IF panel.key = {} THEN "idle" ELSE IF panel.stored = panel.key THEN "settled" ELSE "loading"
VisibleLegacy == {x \in legacy : x.ticker = location.at}

-------------------------------------------------------------------------------
SubjectInit ==
  /\ box = "" /\ searchTimer = {} /\ resolves = {} /\ typeahead = Listing(<<>>) /\ listFor = ""
  /\ searchStatus = "idle" /\ overtaken = FALSE
  /\ LET t == CHOOSE t \in LegacyTickers : TRUE IN
       location = At(t, {}, "overview") /\ legacyAsk = {[ticker |-> t, tab |-> "overview"]}
  /\ hydrated = {} /\ hydrationFailed = {} /\ hydrating = {} /\ legacy = {}
  /\ form = FormAtFirst /\ panels = [p \in {"quote", "profile", "series", "statements", "segments"} |-> BlankPanel]
  /\ acts = 0

\* what held requestSeq holds it no longer
Overtake(xs) == {[x EXCEPT !.current = FALSE] : x \in xs}

\* handleQueryChange, and the effect of the trimmed text when it is another
TypeText(raw) ==
  /\ raw # box /\ acts < MaxActs
  /\ box' = raw /\ acts' = acts + 1
  /\ typeahead' = Listing(<<>>) /\ searchStatus' = "idle" /\ overtaken' = FALSE
  /\ IF TrimOf(raw) = Typed
     THEN resolves' = Overtake(resolves) /\ searchTimer' = Overtake(searchTimer)
     ELSE /\ resolves' = Overtake({r \in resolves : r.op = "submit"})
          /\ searchTimer' = {[text |-> t, current |-> TRUE] : t \in {TrimOf(raw)} \ {""}}
  /\ UNCHANGED <<listFor, shellVars>>

DebounceFires ==
  /\ \E t \in searchTimer :
       /\ resolves' = resolves \cup {[op |-> "type", text |-> t.text, choice |-> {}, current |-> t.current]}
       /\ overtaken' = (overtaken \/ ~t.current)
  /\ searchTimer' = {} /\ searchStatus' = "loading"
  /\ UNCHANGED <<box, typeahead, listFor, shellVars, acts>>

\* resolveAndPlan aborts the one before it
Submit(choice) ==
  /\ Typed # ""
  /\ acts < MaxActs /\ acts' = acts + 1
  /\ resolves' = Overtake({r \in resolves : r.op = "type"})
                   \cup {[op |-> "submit", text |-> Typed, choice |-> choice, current |-> TRUE]}
  /\ searchTimer' = Overtake(searchTimer)
  /\ searchStatus' = "resolving" /\ overtaken' = FALSE
  /\ UNCHANGED <<box, typeahead, listFor, shellVars>>

\* handleSubmit: of several candidates, the highlighted one
SubmitForm ==
  Submit(IF Len(typeahead.list) > 1 /\ typeahead.lit > 0 THEN {typeahead.list[typeahead.lit].ref} ELSE {})
ClickCandidate == \E s \in ToSet(typeahead.list) : Submit({s.ref})

\* moveSymbolTypeaheadHighlight
PressArrow(delta) ==
  LET n == Len(typeahead.list) IN
  /\ n > 0
  /\ typeahead' = [typeahead EXCEPT !.lit =
       IF @ = 0 THEN (IF delta = 1 THEN 1 ELSE n) ELSE ((@ - 1 + delta + n) % n) + 1]
  /\ UNCHANGED <<box, searchTimer, resolves, listFor, searchStatus, overtaken, shellVars, acts>>

PressEscape ==
  /\ typeahead.list # <<>>
  /\ typeahead' = Listing(<<>>)
  /\ UNCHANGED <<box, searchTimer, resolves, listFor, searchStatus, overtaken, shellVars, acts>>

AnswerTo(r) ==
  IF r.choice = {} THEN MatchesOf(r.text) ELSE SelectSeq(MatchesOf(r.text), LAMBDA s : s.ref \in r.choice)

HoldsTurn(r) == r.current

\* planSymbolResolution, enterSubject; a keystroke's answer is only listed
ResolveArrives(r) ==
  LET found == AnswerTo(r)
      enters == r.op = "submit" /\ Len(found) = 1
  IN /\ resolves' = resolves \ {r}
     /\ IF ~HoldsTurn(r)
        THEN UNCHANGED <<typeahead, listFor, searchStatus, shellVars>>
        ELSE /\ typeahead' = Listing(IF enters THEN <<>> ELSE found)
             /\ listFor' = r.text
             /\ searchStatus' = "idle"
             /\ IF enters THEN Arrive(At(found[1].ref, {found[1]}, "overview")) ELSE UNCHANGED shellVars
     /\ UNCHANGED <<box, searchTimer, overtaken, acts>>

ResolveFails(r) ==
  /\ resolves' = resolves \ {r}
  /\ searchStatus' = IF HoldsTurn(r) THEN "error" ELSE searchStatus
  /\ UNCHANGED <<box, searchTimer, typeahead, listFor, overtaken, shellVars, acts>>

-------------------------------------------------------------------------------
\* a link to a subject or a ticker, or to another section of the one on the page
Visit(at, tab) ==
  /\ acts < MaxActs /\ acts' = acts + 1
  /\ at # location.at \/ tab # location.tab
  /\ Arrive(At(at, {}, tab))
  /\ UNCHANGED searchVars

\* LegacySubjectChoice
ChooseLegacy ==
  /\ \E x \in VisibleLegacy : x.status = "ambiguous"
  /\ \E s \in ToSet(MatchesOf(location.at)) : Arrive(At(s.ref, {s}, location.tab))
  /\ UNCHANGED <<searchVars, acts>>

LegacyArrives(a) ==
  LET found == MatchesOf(a.ticker) IN
  /\ IF Len(found) = 1 THEN Arrive(At(found[1].ref, {found[1]}, a.tab))
     ELSE /\ legacy' = {[ticker |-> a.ticker, status |-> IF found = <<>> THEN "not_found" ELSE "ambiguous"]}
          /\ legacyAsk' = {}
          /\ UNCHANGED <<location, hydrated, hydrationFailed, hydrating, form, panels>>
  /\ UNCHANGED <<searchVars, acts>>

LegacyFails(a) ==
  /\ legacy' = {[ticker |-> a.ticker, status |-> "error"]} /\ legacyAsk' = {}
  /\ UNCHANGED <<location, hydrated, hydrationFailed, hydrating, form, panels, searchVars, acts>>

\* fetchSubjectHydration: hydrateSubjectRef answers with the issuer or not at all
HydrationArrives(ref) ==
  /\ hydrated' = {[ref |-> ref, known |-> TRUE]} /\ hydrationFailed' = {} /\ hydrating' = {}
  /\ Panels(location, hydrated')
  /\ UNCHANGED <<location, legacy, legacyAsk, searchVars, acts>>

HydrationFails(ref) ==
  /\ hydrated' = {} /\ hydrationFailed' = {ref} /\ hydrating' = {}
  /\ Panels(location, hydrated')
  /\ UNCHANGED <<location, legacy, legacyAsk, searchVars, acts>>

\* setPeriodMode, setBasis, setAxis
Choose(field) ==
  /\ acts < MaxActs /\ acts' = acts + 1
  /\ SectionOf(location, hydrated) = {"financials"}
  /\ \E choice \in FormChoices[field] \ {form[field]} : form' = [form EXCEPT ![field] = choice]
  /\ panels' = [p \in DOMAIN panels |-> Rekeyed(panels[p], PanelKeys(location, hydrated, form')[p])]
  /\ UNCHANGED <<location, hydrated, hydrationFailed, hydrating, legacy, legacyAsk, searchVars>>

\* useFetched's then and catch: ready, or unavailable when it failed or was answered for
\* something else
PanelSettles(p) ==
  /\ panels[p].asking
  /\ panels' = [panels EXCEPT ![p].asking = FALSE, ![p].stored = panels[p].key]
  /\ UNCHANGED <<location, hydrated, hydrationFailed, hydrating, legacy, legacyAsk, form, searchVars, acts>>

SubjectNext ==
  \/ \E raw \in SearchTexts : TypeText(raw)
  \/ DebounceFires \/ SubmitForm \/ ClickCandidate \/ PressEscape
  \/ \E delta \in {-1, 1} : PressArrow(delta)
  \/ \E r \in resolves : ResolveArrives(r) \/ ResolveFails(r)
  \/ \E at \in DOMAIN PageSubjects \cup LegacyTickers, tab \in {"overview", "financials"} : Visit(at, tab)
  \/ ChooseLegacy \/ \E field \in DOMAIN form : Choose(field)
  \/ \E a \in legacyAsk : LegacyArrives(a) \/ LegacyFails(a)
  \/ \E ref \in hydrating : HydrationArrives(ref) \/ HydrationFails(ref)
  \/ \E p \in DOMAIN panels : PanelSettles(p)

SubjectSpec == SubjectInit /\ [][SubjectNext]_subjectVars

-------------------------------------------------------------------------------
\* The candidates under the box were found for the text in it, whatever was typed and
\* submitted while they were looked for (symbol/SymbolSearch.tsx:67,121).
CandidatesFit == typeahead.list # <<>> => listFor = Typed

\* "Resolving" is shown while a request is in flight that will end it; a timer that
\* fires when its turn is over shows it for good (symbol/SymbolSearch.tsx:64).
ResolvingEnds ==
  searchStatus \in {"loading", "resolving"} /\ ~overtaken => \E r \in resolves : r.current

\* The section is about the subject of the route and knows its issuer, over visits,
\* searches and hydrations that overlap (shell/SubjectDetailShell.tsx:95-105).
OutletFits ==
  OutletOpen(location, hydrated) =>
    ShownSubject(location, hydrated).ref = location.at /\ ~NeedsHydration(ShownSubject(location, hydrated))

\* What says that it is loading has its fetch in flight (useFetched.ts:25-65,
\* SubjectDetailShell.tsx:115-190).
LoadingEnds ==
  /\ \A p \in DOMAIN panels : VisibleFetch(panels[p]) = "loading" => panels[p].asking
  /\ location.at \in LegacyTickers /\ VisibleLegacy = {} => \E a \in legacyAsk : a.ticker = location.at
  /\ ~OutletOpen(location, hydrated) /\ location.at \notin LegacyTickers /\ location.at \notin hydrationFailed =>
       location.at \in hydrating

SubjectTypeOK ==
  /\ Cardinality(resolves) <= 2 /\ Cardinality(searchTimer) <= 1
  /\ typeahead.lit \in 0..Len(typeahead.list)
  /\ Cardinality(hydrating) <= 1 /\ Cardinality(hydrated) <= 1 /\ Cardinality(legacyAsk) <= 1
  /\ CandidatesFit /\ ResolvingEnds /\ OutletFits /\ LoadingEnds
===============================================================================
