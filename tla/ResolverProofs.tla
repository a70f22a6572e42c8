---------------------------- MODULE ResolverProofs ----------------------------
(***************************************************************************)
(* What holds of the resolver for any queries, discoveries, failures and   *)
(* restarts: what watchlists, portfolios and facts refer to goes on naming *)
(* a row of the company it named before (ReferencesKept), and an answer    *)
(* tells of companies that the text can mean, the context of a subject     *)
(* being of one (AnswersNameOneCompany).                                   *)
(*                                                                         *)
(* Both need that the sources agree (SourcesAgree): nothing in the code    *)
(* could tell companies apart that its sources confuse.                    *)
(*                                                                         *)
(* The properties are not inductive.  ResolverInv adds why they hold:      *)
(* every row of the tables is of one company and carries only identifiers  *)
(* of it, and what a search or a discovery has in hand is of the company   *)
(* it was looked up for.  That stays so because no statement of discovery  *)
(* deletes a row or moves one to another company, and the repair, which    *)
(* does delete rows, is the only one at work while it lasts.               *)
(***************************************************************************)
EXTENDS Resolver, FiniteSetTheorems, WellFoundedInduction, TLAPS

(***************************************************************************)
(* The inductive invariant.                                                *)
(***************************************************************************)
Writing == {"match", "issuer", "newIssuer", "fillIssuer", "instrument", "newInstrument", "fillInstrument",
            "listing", "newListing", "moveListing"}
Searching == {"identifier", "ticker", "again", "name", "select", "hydrate", "listings"}

(* Refs that a query may mean, or that are of one company.                 *)
Meant(rows, q, refs) == \A ref \in refs : \E c \in q.meant : RefIs(rows, ref, c)
AreOf(rows, refs, c) == \A ref \in refs : RefIs(rows, ref, c)

AskTrue(r, q, rows) ==
    /\ r.query = {q}
    /\ r.at = "identifier" => q.hint # {}
    /\ r.at \in {"ticker", "again"} \cup Writing => q.ticker # {}
    /\ r.at \in {"ticker", "name", "select"} => Meant(rows, q, {c.ref : c \in r.seen})
    /\ r.at = "hydrate" => r.refs # {} /\ Meant(rows, q, r.refs)
    /\ r.at = "listings" => /\ (CHOOSE x \in r.refs : TRUE)[1] # "listing"
                            /\ \E c \in q.meant : AreOf(rows, r.seen \cup {CHOOSE x \in r.refs : TRUE}, c)

SightingFor(whose, op, s) == TrueSighting(whose, s) /\ (op = "repair" => VenueCompany[Venue(s)] = LegacyCompany)

WriteTrue(whose, r, rows) ==
    /\ \A s \in r.todo : SightingFor(whose, r.op, s)
    /\ r.at # "match" => \E s :
         /\ r.row = {s} /\ SightingFor(whose, r.op, s)
         /\ \A id \in r.issuer : IssuerIs(rows, id, NameCompany[s.name])
         /\ \A id \in r.hit : InstrumentIs(rows, id, NameCompany[s.name])
         /\ r.at \in {"fillIssuer", "instrument", "newInstrument"} => r.issuer # {}
         /\ r.at \in {"fillInstrument", "listing", "newListing", "moveListing"} => r.hit # {}
         /\ r.at = "moveListing" => \E l \in rows.listings : SameListing(l, s)

DoneTrue(r, rows) ==
    r.op = "repair" => \E id \in Nat \ {0} : r.refs = {<<"listing", id>>} /\ ListingIs(rows, id, LegacyCompany)

FinderTrue(whose, r, rows) ==
    /\ r = [at |-> r.at, op |-> r.op, query |-> r.query, todo |-> r.todo, row |-> r.row,
            hit |-> r.hit, issuer |-> r.issuer, seen |-> r.seen, refs |-> r.refs]
    /\ r.at \in Searching => r.op = "ask"
    /\ r.op = "ask" /\ r.at # "idle" => \E q \in SubjectQueries : AskTrue(r, q, rows)
    /\ r.at \in Writing => WriteTrue(whose, r, rows)
    /\ r.at = "done" => DoneTrue(r, rows)

(* Who may be at work in a phase.                                          *)
Fits(phase, r) ==
    \/ r.at = "idle"
    \/ phase = "repairing" /\ r.op = "repair" /\ r.at \in Writing \cup {"done"}
    \/ phase = "hydrate" /\ r.op = "hydrate" /\ r.at \in Writing \cup {"done"}
    \/ phase = "serving" /\ r.op = "ask" /\ r.at \in Writing \cup Searching

AnswerTrue(x, rows) ==
    /\ x.query \in SubjectQueries
    /\ \/ x.context = {} /\ Meant(rows, x.query, x.subjects)
       \/ \E c \in x.query.meant : AreOf(rows, x.subjects \cup x.context, c)

LegacyLeft(rows) == \E l \in rows.listings : l.id = 0
LegacyRetired(rows) == \A l \in rows.listings : l.id = 0 => ~l.active

Kept(whose, rows) ==
    /\ SoundRows(whose, rows) /\ LegacyWhole(rows) /\ RefsStand(rows)
    /\ \E seed \in Seeded0 : Holdings(rows) = Holdings(seed)

StartupTrue(whose) ==
    /\ startup = [phase |-> startup.phase, times |-> startup.times, asked |-> startup.asked,
                  tickers |-> startup.tickers, saved |-> startup.saved]
    /\ startup.phase \in {"repair", "repairing", "hydrate", "serving", "failed"}
    /\ IF startup.phase = "repairing"
       THEN /\ \E s : startup.saved = {s} /\ Kept(whose, s)
            /\ LegacyLeft(identity) /\ LegacyRetired(identity)
            /\ \A f, g \in Finders : finder[f].at # "idle" /\ finder[g].at # "idle" => f = g
       ELSE startup.saved = {}
    /\ startup.phase \in {"hydrate", "serving"} => ~LegacyLeft(identity)
    /\ startup.phase # "serving" => answered = {}
    /\ \A f \in Finders : Fits(startup.phase, finder[f])

ResolverInv(whose) ==
    /\ Kept(whose, identity)
    /\ finder = [f \in Finders |-> finder[f]]
    /\ \A f \in Finders : FinderTrue(whose, finder[f], identity)
    /\ StartupTrue(whose)
    /\ \A x \in answered : AnswerTrue(x, identity)

(***************************************************************************)
(* What a statement of discovery does to the rows: none is deleted, none   *)
(* becomes of another company, and the seeded ones stay as they are.       *)
(***************************************************************************)
Keeps(old, new) ==
    /\ \A i \in old.issuers : \E k \in new.issuers : k.id = i.id /\ k.name = i.name
    /\ \A j \in old.instruments : \E k \in new.instruments : k.id = j.id /\ k.issuer = j.issuer
    /\ \A l \in old.listings : \E k \in new.listings : k.id = l.id /\ k.mic = l.mic /\ k.ticker = l.ticker
    /\ new.refs = old.refs

SeedsSame(old, new) ==
    /\ \A l \in new.listings : l.id = 0 => l \in old.listings
    /\ \A l \in old.listings : l.id = 0 => l \in new.listings
    /\ \A j \in new.instruments : j.id = 0 => \E k \in old.instruments : k.id = 0 /\ k.issuer = j.issuer

Grows(old, new) ==
    /\ Keeps(old, new) /\ SeedsSame(old, new)
    /\ \A l \in old.listings : l.active =>
         \E k \in new.listings : k.active /\ k.mic = l.mic /\ k.ticker = l.ticker

(***************************************************************************)
(* Numbers of rows.                                                        *)
(***************************************************************************)
Below == {p \in Nat \X Nat : p[1] < p[2]}

LEMMA SmallestIsIn ==
    ASSUME NEW S, S \subseteq Nat, S # {}
    PROVE  Min(S) \in S
<1>1. IsWellFoundedOn(Below, Nat)
  BY NatLessThanWellFounded DEF OpToRel, Below
<1>2. PICK m \in S : \A k \in S : ~(<<k, m>> \in Below)
  BY <1>1, WFMin
<1>3. \A y \in S : m =< y
  <2> SUFFICES ASSUME NEW y \in S, ~(m =< y) PROVE FALSE  OBVIOUS
  <2>1. m \in Nat /\ y \in Nat /\ y < m  OBVIOUS
  <2>2. <<y, m>> \in Below  BY <2>1 DEF Below
  <2> QED BY <1>2, <2>2
<1> QED BY <1>3 DEF Min

LEMMA NewIdIsNew ==
    ASSUME NEW T, Numbered(T)
    PROVE  /\ NewId(T) \in Nat \ {0}
           /\ \A x \in T : x.id \in Nat /\ x.id < NewId(T)
<1>1. PICK n \in Nat : /\ n = 0 \/ \E x \in T : x.id = n
                       /\ \A x \in T : x.id \in 0..n
  BY DEF Numbered
<1> DEFINE S == {0} \cup {r.id : r \in T}
<1>2. n \in S /\ \A y \in S : n >= y
  BY <1>1
<1>3. S \subseteq Nat  BY <1>1
<1>4. Max(S) \in S /\ \A y \in S : Max(S) >= y
  BY <1>2, Zenon DEF Max
<1>5. Max(S) = n
  <2>1. Max(S) >= n /\ n >= Max(S)  BY <1>2, <1>4
  <2> QED BY <2>1, <1>3, <1>4
<1> QED BY <1>1, <1>5 DEF NewId

(* A row with a new number.                                                *)
LEMMA NumberedGrows ==
    ASSUME NEW T, Numbered(T), NEW x, x.id = NewId(T)
    PROVE  Numbered(T \cup {x})
<1>1. NewId(T) \in Nat \ {0} /\ \A y \in T : y.id \in Nat /\ y.id < NewId(T)
  BY NewIdIsNew
<1>2. \A y, z \in T \cup {x} : y.id = z.id => y = z
  BY <1>1 DEF Numbered
<1>3. \A y \in T \cup {x} : y.id \in 0..NewId(T)  BY <1>1
<1> QED BY <1>1, <1>2, <1>3 DEF Numbered

(* Rows that are changed keep their numbers.                               *)
LEMMA NumberedStays ==
    ASSUME NEW T, Numbered(T), NEW U,
           \A u \in U : \E x \in T : x.id = u.id,
           \A x \in T : \E u \in U : u.id = x.id,
           \A u, v \in U : u.id = v.id => u = v
    PROVE  Numbered(U)
<1>1. PICK n \in Nat : /\ n = 0 \/ \E x \in T : x.id = n
                       /\ \A x \in T : x.id \in 0..n
  BY DEF Numbered
<1>2. n = 0 \/ \E u \in U : u.id = n  BY <1>1
<1>3. \A u \in U : u.id \in 0..n  BY <1>1
<1> QED BY <1>2, <1>3 DEF Numbered

(***************************************************************************)
(* Companies of rows.                                                      *)
(***************************************************************************)
LEMMA OneIssuer ==
    ASSUME NEW rows, Numbered(rows.issuers), NEW id, NEW c, NEW d, IssuerIs(rows, id, c), IssuerIs(rows, id, d)
    PROVE  c = d
BY DEF Numbered, IssuerIs

LEMMA OneInstrument ==
    ASSUME NEW rows, Numbered(rows.issuers), Numbered(rows.instruments),
           NEW id, NEW c, NEW d, InstrumentIs(rows, id, c), InstrumentIs(rows, id, d)
    PROVE  c = d
<1>1. PICK j \in rows.instruments : j.id = id /\ IssuerIs(rows, j.issuer, c)  BY DEF InstrumentIs
<1>2. PICK k \in rows.instruments : k.id = id /\ IssuerIs(rows, k.issuer, d)  BY DEF InstrumentIs
<1>3. j = k  BY <1>1, <1>2 DEF Numbered
<1> QED BY <1>1, <1>2, <1>3, OneIssuer

LEMMA ListingOfInstrument ==
    ASSUME NEW whose, NEW rows, SoundRows(whose, rows), NEW l \in rows.listings, NEW c,
           InstrumentIs(rows, l.instrument, c)
    PROVE  VenueCompany[Venue(l)] = c
<1>1. InstrumentIs(rows, l.instrument, VenueCompany[Venue(l)])  BY DEF SoundRows, TrueListing
<1>2. Numbered(rows.issuers) /\ Numbered(rows.instruments)  BY DEF SoundRows
<1> QED BY <1>1, <1>2, OneInstrument

(* What is above a subject is of its company.                              *)
LEMMA AboveIsOf ==
    ASSUME NEW whose, NEW rows, SoundRows(whose, rows), NEW ref, NEW c, RefIs(rows, ref, c)
    PROVE  AreOf(rows, Above(rows, ref), c) /\ ref \in Above(rows, ref)
<1> DEFINE listings == IF ref[1] = "listing" THEN ById(rows.listings, {ref[2]}) ELSE {}
           instruments == ById(rows.instruments, IF ref[1] = "instrument" THEN {ref[2]}
                                                 ELSE {l.instrument : l \in listings})
           issuers == ById(rows.issuers, IF ref[1] = "issuer" THEN {ref[2]} ELSE {i.issuer : i \in instruments})
<1>1. Above(rows, ref) = {<<"listing", l.id>> : l \in listings} \cup {<<"instrument", i.id>> : i \in instruments}
                          \cup {<<"issuer", i.id>> : i \in issuers}
  BY DEF Above
<1>0. Numbered(rows.issuers) /\ Numbered(rows.instruments) /\ Numbered(rows.listings)  BY DEF SoundRows
<1>2. \A l \in listings : l \in rows.listings /\ ListingIs(rows, l.id, c) /\ VenueCompany[Venue(l)] = c
  <2> SUFFICES ASSUME NEW l \in listings PROVE l \in rows.listings /\ VenueCompany[Venue(l)] = c
    BY DEF ListingIs
  <2>1. ref[1] = "listing" /\ l \in rows.listings /\ l.id = ref[2]  BY DEF ById
  <2>2. PICK k \in rows.listings : k.id = ref[2] /\ VenueCompany[Venue(k)] = c  BY <2>1 DEF RefIs, ListingIs
  <2>3. k = l  BY <1>0, <2>1, <2>2 DEF Numbered
  <2> QED BY <2>1, <2>2, <2>3
<1>3. \A j \in instruments : j \in rows.instruments /\ InstrumentIs(rows, j.id, c)
  <2> SUFFICES ASSUME NEW j \in instruments PROVE j \in rows.instruments /\ InstrumentIs(rows, j.id, c)  OBVIOUS
  <2>1. j \in rows.instruments  BY DEF ById
  <2>2. CASE ref[1] = "instrument"
    <3>1. j.id = ref[2]  BY <2>2 DEF ById
    <3> QED BY <2>1, <2>2, <3>1 DEF RefIs
  <2>3. CASE ref[1] # "instrument"
    <3>1. PICK l \in listings : j.id = l.instrument  BY <2>3 DEF ById
    <3>2. TrueListing(rows, l) /\ VenueCompany[Venue(l)] = c  BY <1>2 DEF SoundRows
    <3> QED BY <2>1, <3>1, <3>2 DEF TrueListing
  <2> QED BY <2>2, <2>3
<1>4. \A i \in issuers : i \in rows.issuers /\ IssuerIs(rows, i.id, c)
  <2> SUFFICES ASSUME NEW i \in issuers PROVE i \in rows.issuers /\ IssuerIs(rows, i.id, c)  OBVIOUS
  <2>1. i \in rows.issuers  BY DEF ById
  <2>2. CASE ref[1] = "issuer"
    <3>1. i.id = ref[2]  BY <2>2 DEF ById
    <3> QED BY <2>1, <2>2, <3>1 DEF RefIs
  <2>3. CASE ref[1] # "issuer"
    <3>1. PICK j \in instruments : i.id = j.issuer  BY <2>3 DEF ById
    <3>2. PICK k \in rows.instruments : k.id = j.id /\ IssuerIs(rows, k.issuer, c)  BY <1>3 DEF InstrumentIs
    <3>3. k = j  BY <1>0, <1>3, <3>2 DEF Numbered
    <3> QED BY <2>1, <3>1, <3>2, <3>3
  <2> QED BY <2>2, <2>3
<1>5. AreOf(rows, Above(rows, ref), c)
  <2> SUFFICES ASSUME NEW r \in Above(rows, ref) PROVE RefIs(rows, r, c)  BY DEF AreOf
  <2>1. CASE r \in {<<"listing", l.id>> : l \in listings}
    <3>1. PICK l \in listings : r = <<"listing", l.id>>  BY <2>1
    <3>2. r[1] = "listing" /\ r[2] = l.id /\ r = <<r[1], r[2]>>  BY <3>1
    <3>3. ListingIs(rows, r[2], c)  BY <1>2, <3>2
    <3> QED BY <3>2, <3>3 DEF RefIs
  <2>2. CASE r \in {<<"instrument", j.id>> : j \in instruments}
    <3>1. PICK j \in instruments : r = <<"instrument", j.id>>  BY <2>2
    <3>2. r[1] = "instrument" /\ r[2] = j.id /\ r = <<r[1], r[2]>>  BY <3>1
    <3>3. InstrumentIs(rows, r[2], c)  BY <1>3, <3>2
    <3> QED BY <3>2, <3>3 DEF RefIs
  <2>3. CASE r \in {<<"issuer", i.id>> : i \in issuers}
    <3>1. PICK i \in issuers : r = <<"issuer", i.id>>  BY <2>3
    <3>2. r[1] = "issuer" /\ r[2] = i.id /\ r = <<r[1], r[2]>>  BY <3>1
    <3>3. IssuerIs(rows, r[2], c)  BY <1>4, <3>2
    <3> QED BY <3>2, <3>3 DEF RefIs
  <2> HIDE DEF listings, instruments, issuers
  <2> QED BY <1>1, <2>1, <2>2, <2>3
<1>6. ref \in Above(rows, ref)
  <2>1. ref = <<ref[1], ref[2]>>  BY DEF RefIs
  <2>2. CASE ref[1] = "listing"
    <3>1. PICK l \in rows.listings : l.id = ref[2]  BY <2>2 DEF RefIs, ListingIs
    <3>2. l \in listings  BY <2>2, <3>1 DEF ById
    <3> HIDE DEF listings, instruments, issuers
    <3> QED BY <1>1, <2>1, <2>2, <3>1, <3>2
  <2>3. CASE ref[1] = "instrument"
    <3>1. PICK j \in rows.instruments : j.id = ref[2]  BY <2>3 DEF RefIs, InstrumentIs
    <3>2. j \in instruments  BY <2>3, <3>1 DEF ById
    <3> HIDE DEF listings, instruments, issuers
    <3> QED BY <1>1, <2>1, <2>3, <3>1, <3>2
  <2>4. CASE ref[1] = "issuer"
    <3>1. PICK i \in rows.issuers : i.id = ref[2]  BY <2>4 DEF RefIs, IssuerIs
    <3>2. i \in issuers  BY <2>4, <3>1 DEF ById
    <3> HIDE DEF listings, instruments, issuers
    <3> QED BY <1>1, <2>1, <2>4, <3>1, <3>2
  <2> QED BY <2>2, <2>3, <2>4 DEF RefIs
<1> QED BY <1>5, <1>6

LEMMA CompanyOfRef ==
    ASSUME NEW whose, NEW rows, SoundRows(whose, rows), NEW ref, NEW c, RefIs(rows, ref, c)
    PROVE  CompanyOf(rows, ref) = {c}
<1>0. Numbered(rows.issuers) /\ Numbered(rows.instruments) /\ Numbered(rows.listings)  BY DEF SoundRows
<1>1. CASE ref[1] = "listing"
  <2>1. PICK l \in rows.listings : l.id = ref[2] /\ VenueCompany[Venue(l)] = c  BY <1>1 DEF RefIs, ListingIs
  <2>2. ById(rows.listings, {ref[2]}) = {l}  BY <1>0, <2>1 DEF ById, Numbered
  <2>3. CompanyOf(rows, ref) = {VenueCompany[<<k.mic, k.ticker>>] : k \in {l}}  BY <1>1, <2>2 DEF CompanyOf
  <2> QED BY <2>1, <2>3 DEF Venue
<1>2. CASE ref[1] # "listing"
  <2> DEFINE issuers == {r[2] : r \in {r \in Above(rows, ref) : r[1] = "issuer"}}
  <2>1. AreOf(rows, Above(rows, ref), c)  BY AboveIsOf
  <2>2. \A id \in issuers : IssuerIs(rows, id, c)  BY <2>1 DEF AreOf, RefIs
  <2>3. CompanyOf(rows, ref) = {NameCompany[i.name] : i \in ById(rows.issuers, issuers)}
    BY <1>2 DEF CompanyOf
  <2>4. \A i \in ById(rows.issuers, issuers) : NameCompany[i.name] = c
    BY <1>0, <2>2 DEF ById, IssuerIs, Numbered
  <2>5. ById(rows.issuers, issuers) # {}
    <3>1. CASE ref[1] = "issuer"
      <4>1. ref \in Above(rows, ref)  BY AboveIsOf
      <4>2. ref[2] \in issuers  BY <3>1, <4>1
      <4>3. PICK i \in rows.issuers : i.id = ref[2]  BY <3>1 DEF RefIs, IssuerIs
      <4> QED BY <4>2, <4>3 DEF ById
    <3>2. CASE ref[1] = "instrument"
      <4>1. PICK j \in rows.instruments : j.id = ref[2] /\ IssuerIs(rows, j.issuer, c)
        BY <3>2 DEF RefIs, InstrumentIs
      <4>2. PICK i \in rows.issuers : i.id = j.issuer  BY <4>1 DEF IssuerIs
      <4>3. j \in ById(rows.instruments, {ref[2]})  BY <4>1 DEF ById
      <4>4. i \in ById(rows.issuers, {k.issuer : k \in ById(rows.instruments, {ref[2]})})  BY <4>2, <4>3 DEF ById
      <4>5. <<"issuer", i.id>> \in Above(rows, ref)  BY <3>2, <4>4 DEF Above
      <4>6. i.id \in issuers  BY <4>5
      <4> QED BY <4>2, <4>6 DEF ById
    <3> QED BY <1>2, <3>1, <3>2 DEF RefIs
  <2> HIDE DEF issuers
  <2> QED BY <2>3, <2>4, <2>5
<1> QED BY <1>1, <1>2

(***************************************************************************)
(* What the providers tell is true.                                        *)
(***************************************************************************)
LEMMA OnlyIsIn ==
    ASSUME NEW S, NEW v \in Only(S)
    PROVE  v \in S
BY DEF Only

SightingShape(s) ==
    s = [ticker |-> s.ticker, mic |-> s.mic, name |-> s.name, type |-> s.type,
         cik |-> s.cik, lei |-> s.lei, isin |-> s.isin, figi |-> s.figi]

LEMMA FigiTold ==
    ASSUME NEW whose, NEW s, SightingShape(s), TrueSighting(whose, s),
           \A r \in FigiRecords : r.ticker = s.ticker /\ r.mic \subseteq {s.mic} /\ r.type = s.type =>
                  /\ whose[<<"figi", r.figi>>] = NameCompany[s.name]
                  /\ \A v \in r.isin : whose[<<"isin", v>>] = NameCompany[s.name]
    PROVE  TrueSighting(whose, WithFigi(s)) /\ SightingShape(WithFigi(s)) /\ WithFigi(s).name = s.name
<1> DEFINE matches == {r \in FigiRecords : r.ticker = s.ticker /\ r.mic \subseteq {s.mic} /\ r.type = s.type}
           figi == Only({r.figi : r \in matches})
           isin == IF figi = {} THEN {} ELSE Only(UNION {r.isin : r \in matches})
<1>1. WithFigi(s) = [s EXCEPT !.figi = figi, !.isin = isin]  BY DEF WithFigi
<1>2. \A v \in figi : whose[<<"figi", v>>] = NameCompany[s.name]  BY OnlyIsIn
<1>3. \A v \in isin : whose[<<"isin", v>>] = NameCompany[s.name]
  <2> SUFFICES ASSUME NEW v \in isin PROVE whose[<<"isin", v>>] = NameCompany[s.name]  OBVIOUS
  <2>1. v \in UNION {r.isin : r \in matches}  BY OnlyIsIn
  <2> QED BY <2>1
<1> HIDE DEF figi, isin
<1>4. WithFigi(s) = [ticker |-> s.ticker, mic |-> s.mic, name |-> s.name, type |-> s.type,
                     cik |-> s.cik, lei |-> s.lei, isin |-> isin, figi |-> figi]
  BY <1>1 DEF SightingShape
<1> QED BY <1>2, <1>3, <1>4 DEF TrueSighting, SightingShape, TrueIds, TrueNames, Venue

LEMMA LeiTold ==
    ASSUME NEW whose, NEW s, SightingShape(s), TrueSighting(whose, s),
           \A r \in LeiRecords : r.name = s.name /\ r.status = "ISSUED" =>
                  whose[<<"lei", r.lei>>] = NameCompany[s.name]
    PROVE  TrueSighting(whose, WithLei(s))
<1> DEFINE page == {r \in LeiRecords : r.name = s.name}
           lei == IF Cardinality(page) > GleifPage THEN {}
                  ELSE Only({r.lei : r \in {r \in page : r.status = "ISSUED"}})
<1>1. WithLei(s) = [s EXCEPT !.lei = lei]  BY DEF WithLei
<1>2. \A v \in lei : whose[<<"lei", v>>] = NameCompany[s.name]
  <2> SUFFICES ASSUME NEW v \in lei PROVE whose[<<"lei", v>>] = NameCompany[s.name]  OBVIOUS
  <2>1. v \in {r.lei : r \in {r \in page : r.status = "ISSUED"}}  BY OnlyIsIn
  <2> QED BY <2>1
<1> HIDE DEF lei
<1>3. WithLei(s) = [ticker |-> s.ticker, mic |-> s.mic, name |-> s.name, type |-> s.type,
                    cik |-> s.cik, lei |-> lei, isin |-> s.isin, figi |-> s.figi]
  BY <1>1 DEF SightingShape
<1> QED BY <1>2, <1>3 DEF TrueSighting, TrueIds, TrueNames, Venue

(* Whatever a provider, or its fallback, tells of a ticker.                *)
LEMMA ProvidedIsTrue ==
    ASSUME NEW whose, Agreed(whose), NEW t, NEW rows \in Provided(t), NEW s \in rows
    PROVE  TrueSighting(whose, s)
<1>1. \A x \in FromPolygon(t) \cup FromSidecar(t) \cup FromDirectory(t) : t \in TickersTold
  BY DEF FromPolygon, FromSidecar, FromDirectory, TickersTold
<1>2. CASE rows \in {{}, FromPolygon(t), FromSidecar(t)}
  <2>1. s \in FromPolygon(t) \cup FromSidecar(t) \cup FromDirectory(t)  BY <1>2
  <2> QED BY <1>1, <2>1 DEF Agreed, ProvidersTellTrue
<1>3. CASE rows \in FromOpenReference(t)
  <2> DEFINE Enriched(x) == {x, WithFigi(x), WithLei(x), WithLei(WithFigi(x))}
  <2>1. PICK x \in FromDirectory(t) : s \in Enriched(x)
    BY <1>3 DEF FromOpenReference
  <2>2. t \in TickersTold  BY <1>1, <2>1
  <2>3. TrueSighting(whose, x)  BY <2>1, <2>2 DEF Agreed, ProvidersTellTrue
  <2>4. SightingShape(x)
    <3>1. PICK row : x = Sighting(row)  BY <2>1 DEF FromDirectory
    <3> QED BY <3>1 DEF Sighting, SightingShape
  <2>5. \A r \in LeiRecords : r.name = x.name /\ r.status = "ISSUED" =>
                  whose[<<"lei", r.lei>>] = NameCompany[x.name]
    BY <2>1, <2>2 DEF Agreed, ProvidersTellTrue
  <2>6. TrueSighting(whose, WithFigi(x)) /\ SightingShape(WithFigi(x)) /\ WithFigi(x).name = x.name
    <3>1. \A r \in FigiRecords : r.ticker = x.ticker /\ r.mic \subseteq {x.mic} /\ r.type = x.type =>
                  /\ whose[<<"figi", r.figi>>] = NameCompany[x.name]
                  /\ \A v \in r.isin : whose[<<"isin", v>>] = NameCompany[x.name]
      BY <2>1, <2>2 DEF Agreed, ProvidersTellTrue
    <3> QED BY <2>3, <2>4, <3>1, FigiTold
  <2>7. TrueSighting(whose, WithLei(x))  BY <2>3, <2>4, <2>5, LeiTold
  <2>8. TrueSighting(whose, WithLei(WithFigi(x)))  BY <2>5, <2>6, LeiTold
  <2> QED BY <2>1, <2>3, <2>6, <2>7, <2>8
<1> QED BY <1>2, <1>3 DEF Provided

(***************************************************************************)
(* What a step that only grows the rows leaves true.                       *)
(***************************************************************************)
LEMMA KeepsIssuerIs ==
    ASSUME NEW old, NEW new, Keeps(old, new), NEW id, NEW c, IssuerIs(old, id, c)
    PROVE  IssuerIs(new, id, c)
BY DEF Keeps, IssuerIs

LEMMA KeepsInstrumentIs ==
    ASSUME NEW old, NEW new, Keeps(old, new), NEW id, NEW c, InstrumentIs(old, id, c)
    PROVE  InstrumentIs(new, id, c)
<1>1. PICK j \in old.instruments : j.id = id /\ IssuerIs(old, j.issuer, c)  BY DEF InstrumentIs
<1>2. PICK k \in new.instruments : k.id = id /\ k.issuer = j.issuer  BY <1>1 DEF Keeps
<1> QED BY <1>1, <1>2, KeepsIssuerIs DEF InstrumentIs

LEMMA KeepsListingIs ==
    ASSUME NEW old, NEW new, Keeps(old, new), NEW id, NEW c, ListingIs(old, id, c)
    PROVE  ListingIs(new, id, c)
<1>1. PICK l \in old.listings : l.id = id /\ VenueCompany[Venue(l)] = c  BY DEF ListingIs
<1>2. PICK k \in new.listings : k.id = id /\ k.mic = l.mic /\ k.ticker = l.ticker  BY <1>1 DEF Keeps
<1>3. Venue(k) = Venue(l)  BY <1>2 DEF Venue
<1> QED BY <1>1, <1>2, <1>3 DEF ListingIs

LEMMA KeepsRefIs ==
    ASSUME NEW old, NEW new, Keeps(old, new), NEW ref, NEW c, RefIs(old, ref, c)
    PROVE  RefIs(new, ref, c)
BY KeepsIssuerIs, KeepsInstrumentIs, KeepsListingIs DEF RefIs

LEMMA KeepsMeant ==
    ASSUME NEW old, NEW new, Keeps(old, new), NEW q, NEW refs, Meant(old, q, refs)
    PROVE  Meant(new, q, refs)
BY KeepsRefIs DEF Meant

LEMMA KeepsAreOf ==
    ASSUME NEW old, NEW new, Keeps(old, new), NEW c, NEW refs, AreOf(old, refs, c)
    PROVE  AreOf(new, refs, c)
BY KeepsRefIs DEF AreOf

LEMMA GrowsFinder ==
    ASSUME NEW whose, NEW r, NEW old, NEW new, Grows(old, new), FinderTrue(whose, r, old)
    PROVE  FinderTrue(whose, r, new)
<1>0. Keeps(old, new)  BY DEF Grows
<1>1. ASSUME NEW q \in SubjectQueries, AskTrue(r, q, old) PROVE AskTrue(r, q, new)
  <2>1. r.at \in {"ticker", "name", "select"} => Meant(new, q, {c.ref : c \in r.seen})
    BY <1>0, <1>1, KeepsMeant DEF AskTrue
  <2>2. r.at = "hydrate" => Meant(new, q, r.refs)  BY <1>0, <1>1, KeepsMeant DEF AskTrue
  <2>3. r.at = "listings" => \E c \in q.meant : AreOf(new, r.seen \cup {CHOOSE x \in r.refs : TRUE}, c)
    BY <1>0, <1>1, KeepsAreOf DEF AskTrue
  <2> QED BY <1>1, <2>1, <2>2, <2>3 DEF AskTrue
<1>2. ASSUME WriteTrue(whose, r, old) PROVE WriteTrue(whose, r, new)
  <2>1. ASSUME r.at # "match" PROVE \E s :
         /\ r.row = {s} /\ SightingFor(whose, r.op, s)
         /\ \A id \in r.issuer : IssuerIs(new, id, NameCompany[s.name])
         /\ \A id \in r.hit : InstrumentIs(new, id, NameCompany[s.name])
         /\ r.at \in {"fillIssuer", "instrument", "newInstrument"} => r.issuer # {}
         /\ r.at \in {"fillInstrument", "listing", "newListing", "moveListing"} => r.hit # {}
         /\ r.at = "moveListing" => \E l \in new.listings : SameListing(l, s)
    <3>1. PICK s :
         /\ r.row = {s} /\ SightingFor(whose, r.op, s)
         /\ \A id \in r.issuer : IssuerIs(old, id, NameCompany[s.name])
         /\ \A id \in r.hit : InstrumentIs(old, id, NameCompany[s.name])
         /\ r.at \in {"fillIssuer", "instrument", "newInstrument"} => r.issuer # {}
         /\ r.at \in {"fillInstrument", "listing", "newListing", "moveListing"} => r.hit # {}
         /\ r.at = "moveListing" => \E l \in old.listings : SameListing(l, s)
      BY <1>2, <2>1 DEF WriteTrue
    <3>2. \A id \in r.issuer : IssuerIs(new, id, NameCompany[s.name])  BY <1>0, <3>1, KeepsIssuerIs
    <3>3. \A id \in r.hit : InstrumentIs(new, id, NameCompany[s.name])  BY <1>0, <3>1, KeepsInstrumentIs
    <3>4. r.at = "moveListing" => \E l \in new.listings : SameListing(l, s)
      <4>1. SUFFICES ASSUME NEW l \in old.listings, SameListing(l, s)
                     PROVE  \E k \in new.listings : SameListing(k, s)
        BY <3>1
      <4>2. PICK k \in new.listings : k.active /\ k.mic = l.mic /\ k.ticker = l.ticker
        BY <4>1 DEF Grows, SameListing
      <4> QED BY <4>1, <4>2 DEF SameListing
    <3> QED BY <3>1, <3>2, <3>3, <3>4
  <2> QED BY <1>2, <2>1 DEF WriteTrue
<1>3. DoneTrue(r, old) => DoneTrue(r, new)
  BY <1>0, KeepsListingIs DEF DoneTrue
<1> QED BY <1>1, <1>2, <1>3 DEF FinderTrue

LEMMA GrowsAnswer ==
    ASSUME NEW x, NEW old, NEW new, Keeps(old, new), AnswerTrue(x, old)
    PROVE  AnswerTrue(x, new)
<1>1. Meant(old, x.query, x.subjects) => Meant(new, x.query, x.subjects)  BY KeepsMeant
<1>2. \A c \in x.query.meant : AreOf(old, x.subjects \cup x.context, c) => AreOf(new, x.subjects \cup x.context, c)
  BY KeepsAreOf
<1> QED BY <1>1, <1>2 DEF AnswerTrue

(* What is held goes on naming the same companies.                         *)
LEMMA KeepsHoldings ==
    ASSUME NEW whose, NEW old, NEW new, Keeps(old, new), SoundRows(whose, old), SoundRows(whose, new),
           RefsStand(old)
    PROVE  Holdings(new) = Holdings(old) /\ RefsStand(new)
<1>1. old.refs = new.refs  BY DEF Keeps
<1>2. ASSUME NEW r \in old.refs PROVE CompanyOf(new, r.ref) = CompanyOf(old, r.ref)
  <2>1. PICK c \in Companies : RefIs(old, r.ref, c)  BY <1>2 DEF RefsStand
  <2>2. RefIs(new, r.ref, c)  BY <2>1, KeepsRefIs
  <2>3. CompanyOf(old, r.ref) = {c}  BY <2>1, CompanyOfRef
  <2>4. CompanyOf(new, r.ref) = {c}  BY <2>2, CompanyOfRef
  <2> QED BY <2>3, <2>4
<1>3. Holdings(new) = Holdings(old)  BY <1>1, <1>2 DEF Holdings
<1>4. RefsStand(new)  BY <1>1, KeepsRefIs DEF RefsStand
<1> QED BY <1>3, <1>4

LEMMA GrowsKept ==
    ASSUME NEW whose, NEW old, NEW new, Grows(old, new), Kept(whose, old), SoundRows(whose, new)
    PROVE  /\ Kept(whose, new)
           /\ LegacyLeft(new) <=> LegacyLeft(old)
           /\ LegacyRetired(old) => LegacyRetired(new)
<1>1. Keeps(old, new) /\ SeedsSame(old, new)  BY DEF Grows
<1>2. Holdings(new) = Holdings(old) /\ RefsStand(new)  BY <1>1, KeepsHoldings DEF Kept
<1>3. LegacyLeft(new) <=> LegacyLeft(old)  BY <1>1 DEF SeedsSame, LegacyLeft
<1>4. LegacyRetired(old) => LegacyRetired(new)  BY <1>1 DEF SeedsSame, LegacyRetired
<1>5. LegacyWhole(new)
  BY <1>1, <1>3 DEF Kept, LegacyWhole, SeedsSame, LegacyLeft
<1> QED BY <1>2, <1>3, <1>4, <1>5 DEF Kept

LEMMA GrowsItself ==
    ASSUME NEW whose, NEW rows, SoundRows(whose, rows)
    PROVE  Grows(rows, rows)
BY DEF Grows, Keeps, SeedsSame

(***************************************************************************)
(* One finder moves.                                                       *)
(***************************************************************************)
Moves(f) == /\ finder' = [g \in Finders |-> finder'[g]]
            /\ \A g \in Finders \ {f} : finder'[g] = finder[g]

LEMMA OneMoves ==
    ASSUME NEW whose, ResolverInv(whose), NEW f \in Finders, Moves(f),
           Grows(identity, identity'), SoundRows(whose, identity'),
           FinderTrue(whose, finder'[f], identity'), Fits(startup.phase, finder'[f]),
           startup.phase = "repairing" /\ finder'[f].at # "idle" => finder[f].at # "idle",
           startup' = startup,
           \A x \in answered' : x \in answered \/ (startup.phase = "serving" /\ AnswerTrue(x, identity'))
    PROVE  ResolverInv(whose)'
<1>1. Kept(whose, identity)' /\ (LegacyLeft(identity)' <=> LegacyLeft(identity))
         /\ (LegacyRetired(identity) => LegacyRetired(identity)')
  <2>1. Kept(whose, identity)  BY DEF ResolverInv
  <2>2. /\ Kept(whose, identity') /\ (LegacyLeft(identity') <=> LegacyLeft(identity))
        /\ (LegacyRetired(identity) => LegacyRetired(identity'))
    BY <2>1, GrowsKept
  <2>3. Kept(whose, identity)' /\ (LegacyLeft(identity)' <=> LegacyLeft(identity'))
           /\ (LegacyRetired(identity)' <=> LegacyRetired(identity'))
    BY <2>2 DEF Kept, LegacyLeft, LegacyRetired
  <2> QED BY <2>2, <2>3
<1>2. \A g \in Finders : FinderTrue(whose, finder'[g], identity')
  BY GrowsFinder DEF ResolverInv, Moves
<1>3. \A x \in answered' : AnswerTrue(x, identity')
  BY GrowsAnswer DEF ResolverInv, Grows
<1>4. StartupTrue(whose)'
  <2>0. StartupTrue(whose)  BY DEF ResolverInv
  <2>1. \A g \in Finders : Fits(startup.phase, finder'[g])  BY <2>0 DEF StartupTrue, Moves
  <2>2. startup.phase = "repairing" => \A g, h \in Finders : finder'[g].at # "idle" /\ finder'[h].at # "idle" => g = h
    BY <2>0 DEF StartupTrue, Moves
  <2>3. startup.phase # "serving" => answered' = {}  BY <2>0 DEF StartupTrue
  <2> QED BY <1>1, <2>0, <2>1, <2>2, <2>3 DEF StartupTrue
<1> QED BY <1>1, <1>2, <1>3, <1>4 DEF ResolverInv, Moves

LEMMA OneReads ==
    ASSUME NEW whose, ResolverInv(whose), NEW f \in Finders, Moves(f), UNCHANGED <<identity, startup>>,
           FinderTrue(whose, finder'[f], identity), Fits(startup.phase, finder'[f]),
           finder'[f].at # "idle" => finder[f].at # "idle",
           \A x \in answered' : x \in answered \/ (startup.phase = "serving" /\ AnswerTrue(x, identity))
    PROVE  ResolverInv(whose)'
<1>1. SoundRows(whose, identity)  BY DEF ResolverInv, Kept
<1>2. identity' = identity /\ startup' = startup  OBVIOUS
<1>3. Grows(identity, identity') /\ SoundRows(whose, identity')  BY <1>1, <1>2, GrowsItself
<1>4. FinderTrue(whose, finder'[f], identity')  BY <1>2
<1>5. \A x \in answered' : x \in answered \/ (startup.phase = "serving" /\ AnswerTrue(x, identity'))
  BY <1>2
<1> QED BY <1>2, <1>3, <1>4, <1>5, OneMoves

(***************************************************************************)
(* The lookups find what the text may mean.                                *)
(***************************************************************************)
LEMMA RefOfIssuer ==
    ASSUME NEW rows, NEW i \in rows.issuers
    PROVE  RefIs(rows, <<"issuer", i.id>>, NameCompany[i.name])
BY DEF RefIs, IssuerIs

LEMMA RefOfInstrument ==
    ASSUME NEW rows, NEW j \in rows.instruments, NEW c, IssuerIs(rows, j.issuer, c)
    PROVE  RefIs(rows, <<"instrument", j.id>>, c)
BY DEF RefIs, InstrumentIs

LEMMA RefOfListing ==
    ASSUME NEW rows, NEW l \in rows.listings
    PROVE  RefIs(rows, <<"listing", l.id>>, VenueCompany[Venue(l)])
BY DEF RefIs, ListingIs

LEMMA CandidateOf ==
    ASSUME NEW kind, NEW R, NEW n, NEW c \in Candidates(kind, R, n)
    PROVE  \E r \in R : c.ref = <<kind, r.id>>
BY DEF Candidates

LEMMA IdentifierMeans ==
    ASSUME NEW whose, Agreed(whose), NEW rows, SoundRows(whose, rows), NEW q \in SubjectQueries, NEW h \in q.hint
    PROVE  Meant(rows, q, {c.ref : c \in ByIdentifier(rows, h)})
<1>1. h = <<h[1], h[2]>> /\ whose[KeyOf(h)] \in q.meant  BY DEF Agreed, QueriesMean
<1> SUFFICES ASSUME NEW c \in ByIdentifier(rows, h) PROVE \E d \in q.meant : RefIs(rows, c.ref, d)
  BY DEF Meant
<1>2. CASE h[1] = "cik"
  <2>1. PICK i \in rows.issuers : h[2] \in i.cik /\ c.ref = <<"issuer", i.id>>
    BY <1>2 DEF ByIdentifier, Candidates
  <2>2. TrueNames(whose, i, NameCompany[i.name])  BY DEF SoundRows, TrueIssuer
  <2>3. whose[<<"cik", h[2]>>] = NameCompany[i.name]  BY <2>1, <2>2 DEF TrueNames
  <2>4. NameCompany[i.name] \in q.meant  BY <1>1, <1>2, <2>3 DEF KeyOf
  <2> QED BY <2>1, <2>4, RefOfIssuer
<1>3. CASE h[1] = "lei"
  <2>1. PICK i \in rows.issuers : h[2] \in i.lei /\ c.ref = <<"issuer", i.id>>
    BY <1>3 DEF ByIdentifier, Candidates
  <2>2. TrueNames(whose, i, NameCompany[i.name])  BY DEF SoundRows, TrueIssuer
  <2>3. whose[<<"lei", h[2]>>] = NameCompany[i.name]  BY <2>1, <2>2 DEF TrueNames
  <2>4. NameCompany[i.name] \in q.meant  BY <1>1, <1>3, <2>3 DEF KeyOf
  <2> QED BY <2>1, <2>4, RefOfIssuer
<1>4. CASE h[1] \notin {"cik", "lei"}
  <2>1. PICK j \in rows.instruments : h[2] \in j.isin /\ c.ref = <<"instrument", j.id>>
    BY <1>4 DEF ByIdentifier, Candidates
  <2>2. PICK d \in Companies : IssuerIs(rows, j.issuer, d) /\ TrueIds(whose, j, d)  BY DEF SoundRows, TrueInstrument
  <2>3. whose[<<"isin", h[2]>>] = d  BY <2>1, <2>2 DEF TrueIds
  <2>4. d \in q.meant  BY <1>1, <1>4, <2>3 DEF KeyOf
  <2> QED BY <2>1, <2>2, <2>4, RefOfInstrument
<1> QED BY <1>2, <1>3, <1>4

LEMMA TickerMeans ==
    ASSUME NEW whose, Agreed(whose), NEW rows, SoundRows(whose, rows), NEW q \in SubjectQueries, NEW t \in q.ticker
    PROVE  Meant(rows, q, {c.ref : c \in ByTicker(rows, t)})
<1> SUFFICES ASSUME NEW c \in ByTicker(rows, t) PROVE \E d \in q.meant : RefIs(rows, c.ref, d)
  BY DEF Meant
<1>1. PICK l \in rows.listings : l.ticker = t /\ c.ref = <<"listing", l.id>>
  <2>1. PICK n : c \in Candidates("listing", {l \in Active(rows) : l.ticker = t}, n)  BY DEF ByTicker
  <2>2. PICK l \in {l \in Active(rows) : l.ticker = t} : c.ref = <<"listing", l.id>>  BY <2>1, CandidateOf
  <2> QED BY <2>2 DEF Active
<1>2. Venue(l) \in DOMAIN VenueCompany  BY DEF SoundRows, TrueListing
<1>3. Venue(l)[2] = t  BY <1>1 DEF Venue
<1>4. VenueCompany[Venue(l)] \in q.meant  BY <1>2, <1>3 DEF Agreed, QueriesMean
<1> QED BY <1>1, <1>4, RefOfListing

(* The listings below issuers of a company are of the company.             *)
LEMMA ListingsBelow ==
    ASSUME NEW whose, NEW rows, SoundRows(whose, rows), NEW ids, NEW l \in OfIssuers(rows, ids)
    PROVE  \E id \in ids : \E i \in rows.issuers : i.id = id /\ VenueCompany[Venue(l)] = NameCompany[i.name]
<1>1. PICK j \in rows.instruments : j.id = l.instrument /\ j.issuer \in ids  BY DEF OfIssuers
<1>2. l \in rows.listings  BY DEF OfIssuers, Active
<1>3. PICK c \in Companies : IssuerIs(rows, j.issuer, c)  BY DEF SoundRows, TrueInstrument
<1>4. InstrumentIs(rows, l.instrument, c)  BY <1>1, <1>3 DEF InstrumentIs
<1>5. VenueCompany[Venue(l)] = c  BY <1>2, <1>4, ListingOfInstrument
<1> QED BY <1>1, <1>3, <1>5 DEF IssuerIs

LEMMA NameMeans ==
    ASSUME NEW whose, Agreed(whose), NEW rows, SoundRows(whose, rows), NEW q \in SubjectQueries
    PROVE  Meant(rows, q, {c.ref : c \in ByName(rows, q.name)})
<1> DEFINE legal == {i \in rows.issuers : i.name = q.name}
           former == {i \in rows.issuers \ legal : q.name \in i.former}
           below == OfIssuers(rows, {i.id : i \in former})
<1> SUFFICES ASSUME NEW c \in ByName(rows, q.name) PROVE \E d \in q.meant : RefIs(rows, c.ref, d)
  BY DEF Meant
<1>1. ByName(rows, q.name) = Candidates("issuer", legal, 90) \cup Candidates("issuer", former, 85)
                              \cup Candidates("listing", below, 80)
  BY DEF ByName
<1>2. \A i \in former : NameCompany[i.name] \in q.meant  BY DEF SoundRows, TrueIssuer
<1>3. CASE c \in Candidates("issuer", legal, 90)
  <2>1. PICK i \in legal : c.ref = <<"issuer", i.id>>  BY <1>3, CandidateOf
  <2>2. i.name \in DOMAIN NameCompany  BY DEF SoundRows, TrueIssuer
  <2>3. NameCompany[i.name] \in q.meant  BY <2>2 DEF Agreed, QueriesMean
  <2> QED BY <2>1, <2>3, RefOfIssuer
<1>4. CASE c \in Candidates("issuer", former, 85)
  <2>1. PICK i \in former : c.ref = <<"issuer", i.id>>  BY <1>4, CandidateOf
  <2> QED BY <1>2, <2>1, RefOfIssuer
<1>5. CASE c \in Candidates("listing", below, 80)
  <2>1. PICK l \in below : c.ref = <<"listing", l.id>>  BY <1>5, CandidateOf
  <2>2. PICK i \in rows.issuers : /\ i.id \in {k.id : k \in former}
                                  /\ VenueCompany[Venue(l)] = NameCompany[i.name]
    BY ListingsBelow
  <2>3. i \in former
    <3>1. PICK k \in former : k.id = i.id  BY <2>2
    <3> QED BY <3>1 DEF SoundRows, Numbered
  <2>4. l \in rows.listings  BY DEF OfIssuers, Active
  <2>5. VenueCompany[Venue(l)] \in q.meant  BY <1>2, <2>2, <2>3
  <2> QED BY <2>1, <2>4, <2>5, RefOfListing
<1> QED BY <1>1, <1>3, <1>4, <1>5

(***************************************************************************)
(* The steps of a request.                                                 *)
(***************************************************************************)
RequestOf(f, q) == /\ startup.phase = "serving" /\ finder[f].op = "ask"
                   /\ q \in SubjectQueries /\ AskTrue(finder[f], q, identity)
                   /\ Query1(f) = q

FinderShape(r) ==
    r = [at |-> r.at, op |-> r.op, query |-> r.query, todo |-> r.todo, row |-> r.row,
         hit |-> r.hit, issuer |-> r.issuer, seen |-> r.seen, refs |-> r.refs]

LEMMA OneAsks ==
    ASSUME NEW whose, ResolverInv(whose), NEW f \in Finders, finder[f].at \in Searching
    PROVE  \E q : RequestOf(f, q)
<1>1. FinderTrue(whose, finder[f], identity) /\ Fits(startup.phase, finder[f])  BY DEF ResolverInv, StartupTrue
<1>2. finder[f].op = "ask" /\ startup.phase = "serving"  BY <1>1 DEF FinderTrue, Fits, Searching, Writing
<1>3. PICK q \in SubjectQueries : AskTrue(finder[f], q, identity)  BY <1>1, <1>2 DEF FinderTrue, Searching
<1>4. Query1(f) = q  BY <1>3 DEF Query1, AskTrue
<1> QED BY <1>2, <1>3, <1>4 DEF RequestOf

LEMMA ShapeOf ==
    ASSUME NEW whose, ResolverInv(whose), NEW f \in Finders
    PROVE  finder = [g \in Finders |-> finder[g]] /\ FinderShape(finder[f])
BY DEF ResolverInv, FinderTrue, FinderShape

LEMMA RestingIsTrue ==
    ASSUME NEW whose, NEW rows, NEW phase
    PROVE  /\ FinderTrue(whose, Resting, rows) /\ Fits(phase, Resting)
           /\ Resting.at = "idle" /\ Resting.seen = {} /\ FinderShape(Resting)
BY DEF Resting, FinderTrue, Fits, Searching, Writing, FinderShape

LEMMA AskSubjectKeeps ==
    ASSUME NEW whose, Agreed(whose), ResolverInv(whose), NEW f \in Finders, AskSubject(f)
    PROVE  ResolverInv(whose)'
<1>1. PICK q \in SubjectQueries : finder' = [finder EXCEPT ![f] = [Resting EXCEPT !.query = {q},
              !.at = IF q.hint # {} THEN "identifier" ELSE IF q.ticker # {} THEN "ticker" ELSE "name"]]
  BY DEF AskSubject
<1> DEFINE at == IF q.hint # {} THEN "identifier" ELSE IF q.ticker # {} THEN "ticker" ELSE "name"
<1>2. /\ finder'[f] = [at |-> at, op |-> "ask", query |-> {q}, todo |-> {}, row |-> {},
                       hit |-> {}, issuer |-> {}, seen |-> {}, refs |-> {}]
      /\ Moves(f)
  BY <1>1, ShapeOf DEF Moves, Resting
<1>3. AskTrue(finder'[f], q, identity)  BY <1>2 DEF AskTrue, Meant, Writing
<1>4. FinderTrue(whose, finder'[f], identity)
  <2>1. finder'[f].at \in {"identifier", "ticker", "name"} /\ finder'[f].op = "ask"  BY <1>2
  <2>2. FinderShape(finder'[f])  BY <1>2 DEF FinderShape
  <2> QED BY <1>3, <2>1, <2>2 DEF FinderTrue, Searching, Writing, FinderShape
<1>5. Fits("serving", finder'[f])  BY <1>2 DEF Fits, Searching
<1>6. identity' = identity /\ answered' = answered /\ startup.phase = "serving"
        /\ startup' = [startup EXCEPT !.asked = @ + 1]
  BY DEF AskSubject
<1>7. StartupTrue(whose)'
  <2>1. StartupTrue(whose)  BY DEF ResolverInv
  <2>2. /\ startup' = [phase |-> "serving", times |-> startup.times, asked |-> startup.asked + 1,
                       tickers |-> startup.tickers, saved |-> startup.saved]
        /\ startup.saved = {} /\ ~LegacyLeft(identity)
    BY <1>6, <2>1 DEF StartupTrue
  <2>3. \A g \in Finders : Fits("serving", finder'[g])  BY <1>2, <1>5, <1>6, <2>1 DEF StartupTrue, Moves
  <2>4. ~LegacyLeft(identity)'  BY <1>6, <2>2 DEF LegacyLeft
  <2> QED BY <2>2, <2>3, <2>4 DEF StartupTrue
<1>8. \A g \in Finders : FinderTrue(whose, finder'[g], identity')  BY <1>2, <1>4, <1>6 DEF ResolverInv, Moves
<1>9. Kept(whose, identity)'  BY <1>6 DEF ResolverInv, Kept
<1> QED BY <1>2, <1>6, <1>7, <1>8, <1>9 DEF ResolverInv, Moves

LEMMA LookUpIdentifierKeeps ==
    ASSUME NEW whose, Agreed(whose), ResolverInv(whose), NEW f \in Finders, LookUpIdentifier(f)
    PROVE  ResolverInv(whose)'
<1>1. finder[f].at = "identifier"  BY DEF LookUpIdentifier
<1>2. PICK q : RequestOf(f, q)  BY <1>1, OneAsks DEF Searching
<1>3. q.hint # {} /\ q \in SubjectQueries /\ finder[f].query = {q}  BY <1>1, <1>2 DEF RequestOf, AskTrue
<1>4. PICK h \in q.hint : h = CHOOSE k \in q.hint : TRUE  BY <1>3
<1>5. PICK found : found = ByIdentifier(identity, h)  OBVIOUS
<1>6. Meant(identity, q, {c.ref : c \in found})
  BY <1>3, <1>5, IdentifierMeans DEF ResolverInv, Kept
<1> DEFINE at == IF found # {} THEN "select" ELSE IF q.ticker # {} THEN "ticker" ELSE "name"
<1>7. /\ finder' = [finder EXCEPT ![f].seen = found, ![f].at = at]
      /\ UNCHANGED <<identity, startup, answered>>
  BY <1>2, <1>4, <1>5 DEF LookUpIdentifier, RequestOf
<1>8. /\ finder'[f] = [at |-> at, op |-> finder[f].op, query |-> finder[f].query, todo |-> finder[f].todo,
                       row |-> finder[f].row, hit |-> finder[f].hit, issuer |-> finder[f].issuer,
                       seen |-> found, refs |-> finder[f].refs]
      /\ Moves(f)
  <2>1. /\ Moves(f)
        /\ finder'[f] = [finder[f] EXCEPT !.seen = found, !.at = at]
    BY <1>7, ShapeOf DEF Moves
  <2>2. FinderShape(finder[f])  BY ShapeOf
  <2> QED BY <2>1, <2>2 DEF FinderShape
<1>9. AskTrue(finder'[f], q, identity)  BY <1>3, <1>6, <1>8 DEF AskTrue, Writing
<1>10. FinderTrue(whose, finder'[f], identity) /\ Fits("serving", finder'[f])
  BY <1>2, <1>3, <1>8, <1>9 DEF FinderTrue, Fits, Searching, Writing, RequestOf
<1> QED BY <1>1, <1>2, <1>7, <1>8, <1>10, OneReads DEF RequestOf

LEMMA AskIsTrue ==
    ASSUME NEW whose, NEW r, NEW q \in SubjectQueries, NEW rows, FinderShape(r), r.op = "ask",
           r.at \in Searching \/ (r.at \in Writing /\ WriteTrue(whose, r, rows)), AskTrue(r, q, rows)
    PROVE  FinderTrue(whose, r, rows) /\ Fits("serving", r) /\ r.at # "idle"
BY DEF FinderTrue, Fits, Searching, Writing, FinderShape

LEMMA LookUpTickerKeeps ==
    ASSUME NEW whose, Agreed(whose), ResolverInv(whose), NEW f \in Finders, LookUpTicker(f)
    PROVE  ResolverInv(whose)'
<1>1. finder[f].at = "ticker"  BY DEF LookUpTicker
<1>2. PICK q : RequestOf(f, q)  BY <1>1, OneAsks DEF Searching
<1>3. /\ q.ticker # {} /\ q \in SubjectQueries /\ finder[f].query = {q} /\ finder[f].op = "ask"
      /\ Meant(identity, q, {c.ref : c \in finder[f].seen})
  BY <1>1, <1>2 DEF RequestOf, AskTrue
<1>4. PICK t \in q.ticker : t = CHOOSE u \in q.ticker : TRUE  BY <1>3
<1>5. PICK found : found = ByTicker(identity, t)  OBVIOUS
<1>6. Meant(identity, q, {c.ref : c \in found})  BY <1>3, <1>5, TickerMeans DEF ResolverInv, Kept
<1>7. /\ UNCHANGED <<identity, startup, answered>>
      /\ \/ finder' = [finder EXCEPT ![f].seen = found, ![f].at = "name"]
         \/ \E rows \in Provided(t) :
               finder' = [finder EXCEPT ![f].todo = rows, ![f].at = IF rows = {} THEN "name" ELSE "match"]
  <2>1. /\ UNCHANGED <<identity, startup, answered>>
        /\ \/ /\ ByTicker(identity, t) # {}
              /\ finder' = [finder EXCEPT ![f].seen = ByTicker(identity, t), ![f].at = "name"]
           \/ /\ ByTicker(identity, t) = {}
              /\ \E rows \in Provided(t) :
                   finder' = [finder EXCEPT ![f].todo = rows, ![f].at = IF rows = {} THEN "name" ELSE "match"]
    <3>1. (CHOOSE u \in Query1(f).ticker : TRUE) = t  BY <1>2, <1>4 DEF RequestOf
    <3> QED BY <3>1, Zenon DEF LookUpTicker
  <2> QED BY <2>1, <1>5, Zenon
<1>8. CASE finder' = [finder EXCEPT ![f].seen = found, ![f].at = "name"]
  <2>1. Moves(f) /\ finder'[f] = [finder[f] EXCEPT !.seen = found, !.at = "name"]
    BY <1>8, ShapeOf DEF Moves
  <2>2. FinderShape(finder[f])  BY ShapeOf
  <2>3. /\ FinderShape(finder'[f]) /\ finder'[f].at = "name" /\ finder'[f].seen = found
        /\ finder'[f].op = "ask" /\ finder'[f].query = {q}
    BY <1>3, <2>1, <2>2 DEF FinderShape
  <2>4. AskTrue(finder'[f], q, identity)  BY <1>6, <2>3 DEF AskTrue, Writing
  <2>5. FinderTrue(whose, finder'[f], identity) /\ Fits("serving", finder'[f])
    BY <1>3, <2>3, <2>4, AskIsTrue DEF Searching
  <2> QED BY <1>1, <1>2, <1>7, <2>1, <2>5, OneReads DEF RequestOf
<1>9. ASSUME NEW rows \in Provided(t),
             finder' = [finder EXCEPT ![f].todo = rows, ![f].at = IF rows = {} THEN "name" ELSE "match"]
      PROVE  ResolverInv(whose)'
  <2> DEFINE at == IF rows = {} THEN "name" ELSE "match"
  <2>1. Moves(f) /\ finder'[f] = [finder[f] EXCEPT !.todo = rows, !.at = at]
    BY <1>9, ShapeOf DEF Moves
  <2>2. FinderShape(finder[f])  BY ShapeOf
  <2>3. /\ FinderShape(finder'[f]) /\ finder'[f].at = at /\ finder'[f].seen = finder[f].seen
        /\ finder'[f].op = "ask" /\ finder'[f].query = {q}
        /\ finder'[f].todo = rows /\ finder'[f].row = finder[f].row
    BY <1>3, <2>1, <2>2 DEF FinderShape
  <2>4. AskTrue(finder'[f], q, identity)  BY <1>3, <2>3 DEF AskTrue, Writing
  <2>5. \A s \in rows : TrueSighting(whose, s)  BY ProvidedIsTrue
  <2>7. finder'[f].at \in Searching \/ (finder'[f].at \in Writing /\ WriteTrue(whose, finder'[f], identity))
    BY <2>3, <2>5 DEF Searching, Writing, WriteTrue, SightingFor
  <2>8. FinderTrue(whose, finder'[f], identity) /\ Fits("serving", finder'[f])
    BY <1>3, <2>3, <2>4, <2>7, AskIsTrue
  <2> QED BY <1>1, <1>2, <1>7, <2>1, <2>8, OneReads DEF RequestOf
<1> QED BY <1>7, <1>8, <1>9

LEMMA LookAgainKeeps ==
    ASSUME NEW whose, Agreed(whose), ResolverInv(whose), NEW f \in Finders, LookAgain(f)
    PROVE  ResolverInv(whose)'
<1>1. finder[f].at = "again"  BY DEF LookAgain
<1>2. PICK q : RequestOf(f, q)  BY <1>1, OneAsks DEF Searching
<1>3. q.ticker # {} /\ q \in SubjectQueries /\ finder[f].query = {q} /\ finder[f].op = "ask"
  BY <1>1, <1>2 DEF RequestOf, AskTrue
<1>4. PICK t \in q.ticker : t = CHOOSE u \in q.ticker : TRUE  BY <1>3
<1>5. PICK found : found = ByTicker(identity, t)  OBVIOUS
<1>6. Meant(identity, q, {c.ref : c \in found})  BY <1>3, <1>5, TickerMeans DEF ResolverInv, Kept
<1>7. finder' = [finder EXCEPT ![f].at = "name", ![f].seen = found] /\ UNCHANGED <<identity, startup, answered>>
  <2>1. (CHOOSE u \in Query1(f).ticker : TRUE) = t  BY <1>2, <1>4 DEF RequestOf
  <2> QED BY <2>1, <1>5, Zenon DEF LookAgain
<1>8. Moves(f) /\ finder'[f] = [finder[f] EXCEPT !.at = "name", !.seen = found]
  BY <1>7, ShapeOf DEF Moves
<1>9. FinderShape(finder[f])  BY ShapeOf
<1>10. /\ FinderShape(finder'[f]) /\ finder'[f].at = "name" /\ finder'[f].seen = found
       /\ finder'[f].op = "ask" /\ finder'[f].query = {q}
  BY <1>3, <1>8, <1>9 DEF FinderShape
<1>11. AskTrue(finder'[f], q, identity)  BY <1>6, <1>10 DEF AskTrue, Writing
<1>12. FinderTrue(whose, finder'[f], identity) /\ Fits("serving", finder'[f])
  BY <1>3, <1>10, <1>11, AskIsTrue DEF Searching
<1> QED BY <1>1, <1>2, <1>7, <1>8, <1>12, OneReads DEF RequestOf

LEMMA LookUpNameKeeps ==
    ASSUME NEW whose, Agreed(whose), ResolverInv(whose), NEW f \in Finders, LookUpName(f)
    PROVE  ResolverInv(whose)'
<1>1. finder[f].at = "name"  BY DEF LookUpName
<1>2. PICK q : RequestOf(f, q)  BY <1>1, OneAsks DEF Searching
<1>3. /\ q \in SubjectQueries /\ finder[f].query = {q} /\ finder[f].op = "ask"
      /\ Meant(identity, q, {c.ref : c \in finder[f].seen})
  BY <1>1, <1>2 DEF RequestOf, AskTrue
<1>4. PICK byName : byName = ByName(identity, q.name)  OBVIOUS
<1>5. Meant(identity, q, {c.ref : c \in byName})  BY <1>3, <1>4, NameMeans DEF ResolverInv, Kept
<1>6. PICK found : found = Merged(finder[f].seen \cup byName)  OBVIOUS
<1>7. Meant(identity, q, {c.ref : c \in found})  BY <1>3, <1>5, <1>6 DEF Merged, Meant
<1>8. finder' = [finder EXCEPT ![f].at = "select", ![f].seen = Merged(@ \cup byName)]
        /\ UNCHANGED <<identity, startup, answered>>
  <2>1. ByName(identity, Query1(f).name) = byName  BY <1>2, <1>4 DEF RequestOf
  <2> QED BY <2>1, Zenon DEF LookUpName
<1>9. Moves(f) /\ finder'[f] = [finder[f] EXCEPT !.at = "select", !.seen = found]
  BY <1>6, <1>8, ShapeOf DEF Moves
<1>10. FinderShape(finder[f])  BY ShapeOf
<1>11. /\ FinderShape(finder'[f]) /\ finder'[f].at = "select" /\ finder'[f].seen = found
       /\ finder'[f].op = "ask" /\ finder'[f].query = {q}
  BY <1>3, <1>9, <1>10 DEF FinderShape
<1>12. AskTrue(finder'[f], q, identity)  BY <1>7, <1>11 DEF AskTrue, Writing
<1>13. FinderTrue(whose, finder'[f], identity) /\ Fits("serving", finder'[f])
  BY <1>3, <1>11, <1>12, AskIsTrue DEF Searching
<1> QED BY <1>1, <1>2, <1>8, <1>9, <1>13, OneReads DEF RequestOf

(* A request that is answered.                                             *)
LEMMA AnsweringKeeps ==
    ASSUME NEW whose, ResolverInv(whose), NEW f \in Finders, NEW q, RequestOf(f, q),
           finder[f].at # "idle", UNCHANGED <<identity, startup>>,
           NEW subjects, NEW context, Respond1(f, subjects, context),
           \/ context = {} /\ Meant(identity, q, subjects)
           \/ \E c \in q.meant : AreOf(identity, subjects \cup context, c)
    PROVE  ResolverInv(whose)'
<1> DEFINE shown == {r \in subjects : r[1] \in q.kinds}
           told == IF \E r \in subjects : r[1] \in q.kinds THEN context ELSE {}
           x == [query |-> q, subjects |-> shown, context |-> told]
<1>1. answered' = {x} /\ finder' = [finder EXCEPT ![f] = Resting]
  BY DEF Respond1, RequestOf
<1>2. Moves(f) /\ finder'[f] = Resting  BY <1>1, ShapeOf DEF Moves
<1>3. told \subseteq context /\ shown \subseteq subjects  OBVIOUS
<1>4. AnswerTrue(x, identity)
  <2>1. q \in SubjectQueries  BY DEF RequestOf
  <2>2. CASE context = {} /\ Meant(identity, q, subjects)
    <3>1. told = {} /\ Meant(identity, q, shown)  BY <1>3, <2>2 DEF Meant
    <3> QED BY <2>1, <3>1 DEF AnswerTrue
  <2>3. CASE \E c \in q.meant : AreOf(identity, subjects \cup context, c)
    <3>1. PICK c \in q.meant : AreOf(identity, subjects \cup context, c)  BY <2>3
    <3>2. AreOf(identity, shown \cup told, c)  BY <1>3, <3>1 DEF AreOf
    <3> QED BY <2>1, <3>2 DEF AnswerTrue
  <2> QED BY <2>2, <2>3
<1>5. FinderTrue(whose, finder'[f], identity) /\ Fits(startup.phase, finder'[f]) /\ finder'[f].at = "idle"
  BY <1>2, RestingIsTrue
<1>6. \A y \in answered' : startup.phase = "serving" /\ AnswerTrue(y, identity)
  BY <1>1, <1>4 DEF RequestOf
<1> QED BY <1>2, <1>5, <1>6, OneReads

LEMMA SelectKeeps ==
    ASSUME NEW whose, Agreed(whose), ResolverInv(whose), NEW f \in Finders, Select(f)
    PROVE  ResolverInv(whose)'
<1>1. finder[f].at = "select"  BY DEF Select
<1>2. PICK q : RequestOf(f, q)  BY <1>1, OneAsks DEF Searching
<1>3. /\ q \in SubjectQueries /\ finder[f].query = {q} /\ finder[f].op = "ask"
      /\ Meant(identity, q, {c.ref : c \in finder[f].seen})
  BY <1>1, <1>2 DEF RequestOf, AskTrue
<1> DEFINE seen == {c.ref : c \in finder[f].seen}
           taken == IF Cardinality(seen) = 1 THEN seen ELSE seen \cap Query1(f).choice
<1>4. taken \subseteq seen  OBVIOUS
<1>5. /\ UNCHANGED <<identity, startup>>
      /\ \/ /\ taken # {} /\ finder' = [finder EXCEPT ![f].at = "hydrate", ![f].refs = taken]
            /\ UNCHANGED answered
         \/ Respond1(f, IF Query1(f).choice = {} THEN seen ELSE {}, {})
  BY Zenon DEF Select
<1> HIDE DEF taken
<1>6. CASE taken # {} /\ finder' = [finder EXCEPT ![f].at = "hydrate", ![f].refs = taken] /\ UNCHANGED answered
  <2>1. Moves(f) /\ finder'[f] = [finder[f] EXCEPT !.at = "hydrate", !.refs = taken]
    BY <1>6, ShapeOf DEF Moves
  <2>2. FinderShape(finder[f])  BY ShapeOf
  <2>3. /\ FinderShape(finder'[f]) /\ finder'[f].at = "hydrate" /\ finder'[f].refs = taken
        /\ finder'[f].op = "ask" /\ finder'[f].query = {q}
    BY <1>3, <2>1, <2>2 DEF FinderShape
  <2>4. Meant(identity, q, taken)  BY <1>3, <1>4 DEF Meant
  <2>5. AskTrue(finder'[f], q, identity)  BY <1>6, <2>3, <2>4 DEF AskTrue, Writing
  <2>6. FinderTrue(whose, finder'[f], identity) /\ Fits("serving", finder'[f])
    BY <1>3, <2>3, <2>5, AskIsTrue DEF Searching
  <2> QED BY <1>1, <1>2, <1>5, <1>6, <2>1, <2>6, OneReads DEF RequestOf
<1>7. CASE Respond1(f, IF Query1(f).choice = {} THEN seen ELSE {}, {})
  <2>1. PICK subjects : subjects = IF Query1(f).choice = {} THEN seen ELSE {}  OBVIOUS
  <2>2. Meant(identity, q, subjects)  BY <1>3, <2>1 DEF Meant
  <2>3. Respond1(f, subjects, {})  BY <1>7, <2>1
  <2> QED BY <1>1, <1>2, <1>5, <2>2, <2>3, AnsweringKeeps
<1> QED BY <1>5, <1>6, <1>7

LEMMA HydrateKeeps ==
    ASSUME NEW whose, Agreed(whose), ResolverInv(whose), NEW f \in Finders, Hydrate(f)
    PROVE  ResolverInv(whose)'
<1>1. finder[f].at = "hydrate"  BY DEF Hydrate
<1>2. PICK q : RequestOf(f, q)  BY <1>1, OneAsks DEF Searching
<1>3. /\ q \in SubjectQueries /\ finder[f].query = {q} /\ finder[f].op = "ask"
      /\ finder[f].refs # {} /\ Meant(identity, q, finder[f].refs)
  BY <1>1, <1>2 DEF RequestOf, AskTrue
<1>4. PICK ref \in finder[f].refs : ref = CHOOSE r \in finder[f].refs : TRUE  BY <1>3
<1>5. PICK c \in q.meant : RefIs(identity, ref, c)  BY <1>3, <1>4 DEF Meant
<1>6. PICK context : context = Above(identity, ref)  OBVIOUS
<1>7. AreOf(identity, context, c)  BY <1>5, <1>6, AboveIsOf DEF ResolverInv, Kept
<1>8. /\ UNCHANGED <<identity, startup>>
      /\ \/ Respond1(f, {}, {})
         \/ Respond1(f, {ref}, context)
         \/ /\ ref[1] # "listing" /\ UNCHANGED answered
            /\ finder' = [finder EXCEPT ![f].at = "listings", ![f].seen = context]
  BY <1>4, <1>6, Zenon DEF Hydrate
<1>9. CASE Respond1(f, {}, {})
  <2>1. Meant(identity, q, {})  BY DEF Meant
  <2> QED BY <1>1, <1>2, <1>8, <1>9, <2>1, AnsweringKeeps
<1>10. CASE Respond1(f, {ref}, context)
  <2>1. AreOf(identity, {ref} \cup context, c)  BY <1>5, <1>7 DEF AreOf
  <2> QED BY <1>1, <1>2, <1>5, <1>8, <1>10, <2>1, AnsweringKeeps
<1>11. CASE /\ ref[1] # "listing" /\ UNCHANGED answered
            /\ finder' = [finder EXCEPT ![f].at = "listings", ![f].seen = context]
  <2>1. Moves(f) /\ finder'[f] = [finder[f] EXCEPT !.at = "listings", !.seen = context]
    BY <1>11, ShapeOf DEF Moves
  <2>2. FinderShape(finder[f])  BY ShapeOf
  <2>3. /\ FinderShape(finder'[f]) /\ finder'[f].at = "listings" /\ finder'[f].seen = context
        /\ finder'[f].op = "ask" /\ finder'[f].query = {q} /\ finder'[f].refs = finder[f].refs
    BY <1>3, <2>1, <2>2 DEF FinderShape
  <2>4. (CHOOSE x \in finder'[f].refs : TRUE) = ref  BY <1>4, <2>3
  <2>5. AreOf(identity, finder'[f].seen \cup {CHOOSE x \in finder'[f].refs : TRUE}, c)
    BY <1>5, <1>7, <2>3, <2>4 DEF AreOf
  <2>6. (CHOOSE x \in finder'[f].refs : TRUE)[1] # "listing"  BY <1>11, <2>4
  <2>7. AskTrue(finder'[f], q, identity)  BY <1>5, <2>3, <2>5, <2>6 DEF AskTrue, Writing
  <2>8. FinderTrue(whose, finder'[f], identity) /\ Fits("serving", finder'[f])
    BY <1>3, <2>3, <2>7, AskIsTrue DEF Searching
  <2> QED BY <1>1, <1>2, <1>8, <1>11, <2>1, <2>8, OneReads DEF RequestOf
<1> QED BY <1>8, <1>9, <1>10, <1>11

LEMMA LoadListingsKeeps ==
    ASSUME NEW whose, Agreed(whose), ResolverInv(whose), NEW f \in Finders, LoadListings(f)
    PROVE  ResolverInv(whose)'
<1>1. finder[f].at = "listings"  BY DEF LoadListings
<1>2. PICK q : RequestOf(f, q)  BY <1>1, OneAsks DEF Searching
<1>3. PICK ref : ref = CHOOSE r \in finder[f].refs : TRUE  OBVIOUS
<1>4. PICK c \in q.meant : AreOf(identity, finder[f].seen \cup {ref}, c) /\ ref[1] # "listing"
  BY <1>1, <1>2, <1>3 DEF RequestOf, AskTrue
<1>5. SoundRows(whose, identity)  BY DEF ResolverInv, Kept
<1>6. PICK below : below = IF ref[1] = "issuer" THEN OfIssuers(identity, {ref[2]})
                           ELSE {l \in Active(identity) : l.instrument = ref[2]}
  OBVIOUS
<1>7. RefIs(identity, ref, c)  BY <1>4 DEF AreOf
<1>8. \A l \in below : l \in identity.listings /\ VenueCompany[Venue(l)] = c
  <2>1. CASE ref[1] = "issuer"
    <3> SUFFICES ASSUME NEW l \in OfIssuers(identity, {ref[2]})
                 PROVE  l \in identity.listings /\ VenueCompany[Venue(l)] = c
      BY <1>6, <2>1
    <3>1. PICK i \in identity.issuers : i.id = ref[2] /\ VenueCompany[Venue(l)] = NameCompany[i.name]
      BY <1>5, ListingsBelow
    <3>2. PICK k \in identity.issuers : k.id = ref[2] /\ NameCompany[k.name] = c
      BY <1>7, <2>1 DEF RefIs, IssuerIs
    <3>3. i = k  BY <1>5, <3>1, <3>2 DEF SoundRows, Numbered
    <3>4. l \in identity.listings  BY DEF OfIssuers, Active
    <3> QED BY <3>1, <3>2, <3>3, <3>4
  <2>2. CASE ref[1] # "issuer"
    <3>1. InstrumentIs(identity, ref[2], c)  BY <1>4, <1>7, <2>2 DEF RefIs
    <3>2. \A l \in below : l \in identity.listings /\ l.instrument = ref[2]  BY <1>6, <2>2 DEF Active
    <3> QED BY <1>5, <3>1, <3>2, ListingOfInstrument
  <2> QED BY <2>1, <2>2
<1>9. PICK context : context = finder[f].seen \cup {<<"listing", l.id>> : l \in below}  OBVIOUS
<1>10. AreOf(identity, {ref} \cup context, c)
  <2>1. \A l \in below : RefIs(identity, <<"listing", l.id>>, c)  BY <1>8, RefOfListing
  <2> QED BY <1>4, <1>9, <2>1 DEF AreOf
<1>11. Respond1(f, {ref}, context) /\ UNCHANGED <<identity, startup>>
  BY <1>3, <1>6, <1>9, Zenon DEF LoadListings
<1> QED BY <1>1, <1>2, <1>10, <1>11, AnsweringKeeps

(***************************************************************************)
(* The steps of discovery.                                                 *)
(***************************************************************************)
WritesOf(whose, f, s) ==
    LET r == finder[f]
    IN /\ Row1(f) = s /\ r.row = {s} /\ SightingFor(whose, r.op, s)
       /\ \A x \in r.todo : SightingFor(whose, r.op, x)
       /\ \A id \in r.issuer : IssuerIs(identity, id, NameCompany[s.name])
       /\ \A id \in r.hit : InstrumentIs(identity, id, NameCompany[s.name])
       /\ r.at \in {"fillIssuer", "instrument", "newInstrument"} => r.issuer # {}
       /\ r.at \in {"fillInstrument", "listing", "newListing", "moveListing"} => r.hit # {}
       /\ r.at = "moveListing" => \E l \in identity.listings : SameListing(l, s)

LEMMA OneWrites ==
    ASSUME NEW whose, ResolverInv(whose), NEW f \in Finders, finder[f].at \in Writing, finder[f].at # "match"
    PROVE  \E s : WritesOf(whose, f, s)
<1>1. WriteTrue(whose, finder[f], identity)  BY DEF ResolverInv, FinderTrue
<1>2. PICK s :
         /\ finder[f].row = {s} /\ SightingFor(whose, finder[f].op, s)
         /\ \A id \in finder[f].issuer : IssuerIs(identity, id, NameCompany[s.name])
         /\ \A id \in finder[f].hit : InstrumentIs(identity, id, NameCompany[s.name])
         /\ finder[f].at \in {"fillIssuer", "instrument", "newInstrument"} => finder[f].issuer # {}
         /\ finder[f].at \in {"fillInstrument", "listing", "newListing", "moveListing"} => finder[f].hit # {}
         /\ finder[f].at = "moveListing" => \E l \in identity.listings : SameListing(l, s)
  BY <1>1 DEF WriteTrue
<1>3. Row1(f) = s  BY <1>2 DEF Row1
<1>4. \A x \in finder[f].todo : SightingFor(whose, finder[f].op, x)  BY <1>1 DEF WriteTrue
<1> QED BY <1>2, <1>3, <1>4 DEF WritesOf

LEMMA WriterMoves ==
    ASSUME NEW whose, ResolverInv(whose), NEW f \in Finders, finder[f].at \in Writing, Moves(f),
           UNCHANGED <<startup, answered>>, Grows(identity, identity'), SoundRows(whose, identity'),
           FinderShape(finder'[f]), finder'[f].op = finder[f].op, finder'[f].query = finder[f].query,
           finder'[f].at \in Writing, WriteTrue(whose, finder'[f], identity')
    PROVE  ResolverInv(whose)'
<1>1. FinderTrue(whose, finder[f], identity) /\ Fits(startup.phase, finder[f])  BY DEF ResolverInv, StartupTrue
<1>2. Fits(startup.phase, finder'[f])  BY <1>1 DEF Fits, Writing, Searching
<1>3. finder'[f].op = "ask" => \E q \in SubjectQueries : AskTrue(finder'[f], q, identity')
  <2> SUFFICES ASSUME finder'[f].op = "ask" PROVE \E q \in SubjectQueries : AskTrue(finder'[f], q, identity')
    OBVIOUS
  <2>1. PICK q \in SubjectQueries : AskTrue(finder[f], q, identity)  BY <1>1 DEF FinderTrue, Writing
  <2>2. finder'[f].query = {q} /\ q.ticker # {}  BY <2>1 DEF AskTrue
  <2>3. AskTrue(finder'[f], q, identity')  BY <2>2 DEF AskTrue, Writing
  <2> QED BY <2>1, <2>3
<1>4. finder'[f].at \notin Searching /\ finder'[f].at # "done"  BY DEF Searching, Writing
<1>5. FinderTrue(whose, finder'[f], identity')  BY <1>3, <1>4 DEF FinderTrue, FinderShape
<1>6. finder[f].at # "idle"  BY DEF Writing
<1>7. startup' = startup /\ \A x \in answered' : x \in answered  OBVIOUS
<1> QED BY <1>2, <1>5, <1>6, <1>7, OneMoves

LEMMA WriterReads ==
    ASSUME NEW whose, ResolverInv(whose), NEW f \in Finders, finder[f].at \in Writing, Moves(f),
           UNCHANGED <<identity, startup, answered>>,
           FinderShape(finder'[f]), finder'[f].op = finder[f].op, finder'[f].query = finder[f].query,
           finder'[f].at \in Writing, WriteTrue(whose, finder'[f], identity)
    PROVE  ResolverInv(whose)'
<1>1. SoundRows(whose, identity)  BY DEF ResolverInv, Kept
<1>2. identity' = identity  OBVIOUS
<1>3. Grows(identity, identity') /\ SoundRows(whose, identity')  BY <1>1, <1>2, GrowsItself
<1>4. WriteTrue(whose, finder'[f], identity')  BY <1>2
<1>5. UNCHANGED <<startup, answered>>  OBVIOUS
<1> QED BY <1>3, <1>4, <1>5, WriterMoves

LEMMA SoundGrows ==
    ASSUME NEW whose, NEW old, NEW new, SoundRows(whose, old), Keeps(old, new),
           new = [issuers |-> new.issuers, instruments |-> new.instruments,
                  listings |-> new.listings, refs |-> new.refs],
           Numbered(new.issuers), Numbered(new.instruments), Numbered(new.listings),
           \A i \in new.issuers : TrueIssuer(whose, i),
           \A j \in new.instruments : j \in old.instruments \/ TrueInstrument(whose, new, j),
           \A l \in new.listings : l \in old.listings \/ TrueListing(new, l)
    PROVE  SoundRows(whose, new)
<1>1. \A j \in old.instruments : TrueInstrument(whose, new, j)
  BY KeepsIssuerIs DEF SoundRows, TrueInstrument
<1>2. \A l \in old.listings : TrueListing(new, l)
  BY KeepsInstrumentIs DEF SoundRows, TrueListing
<1> QED BY <1>1, <1>2 DEF SoundRows

LEMMA MatchInstrumentKeeps ==
    ASSUME NEW whose, ResolverInv(whose), NEW f \in Finders, MatchInstrument(f)
    PROVE  ResolverInv(whose)'
<1>1. finder[f].at = "match" /\ UNCHANGED <<identity, startup, answered>>  BY DEF MatchInstrument
<1>2. WriteTrue(whose, finder[f], identity)  BY <1>1 DEF ResolverInv, FinderTrue, Writing
<1>3. PICK row \in finder[f].todo, hit \in SUBSET identity.instruments :
         /\ \A j \in hit : j.isin \cap row.isin # {} \/ j.figi \cap row.figi # {}
         /\ finder' = [finder EXCEPT ![f].todo = @ \ {row}, ![f].row = {row},
                               ![f].hit = {i.id : i \in hit}, ![f].issuer = {i.issuer : i \in hit},
                               ![f].at = IF hit = {} THEN "issuer" ELSE "fillIssuer"]
  <2>1. PICK row \in finder[f].todo :
         LET byIsin == {i \in identity.instruments : i.isin \cap row.isin # {}}
             byFigi == {i \in identity.instruments : i.figi \cap row.figi # {}}
             matches == IF byIsin # {} THEN byIsin ELSE byFigi
             Next1(hit) == finder' = [finder EXCEPT ![f].todo = @ \ {row}, ![f].row = {row},
                               ![f].hit = {i.id : i \in hit}, ![f].issuer = {i.issuer : i \in hit},
                               ![f].at = IF hit = {} THEN "issuer" ELSE "fillIssuer"]
         IN \/ \E i \in matches : Next1({i})
            \/ matches = {} /\ Next1({})
    BY Zenon DEF MatchInstrument
  <2> DEFINE byIsin == {i \in identity.instruments : i.isin \cap row.isin # {}}
             byFigi == {i \in identity.instruments : i.figi \cap row.figi # {}}
             matches == IF byIsin # {} THEN byIsin ELSE byFigi
             Next1(hit) == finder' = [finder EXCEPT ![f].todo = @ \ {row}, ![f].row = {row},
                               ![f].hit = {i.id : i \in hit}, ![f].issuer = {i.issuer : i \in hit},
                               ![f].at = IF hit = {} THEN "issuer" ELSE "fillIssuer"]
  <2>2. \A i \in matches : i \in identity.instruments /\ (i.isin \cap row.isin # {} \/ i.figi \cap row.figi # {})
    OBVIOUS
  <2>3. (\E i \in matches : Next1({i})) \/ Next1({})  BY <2>1, Zenon
  <2> HIDE DEF matches, Next1
  <2>4. PICK hit \in SUBSET identity.instruments :
           Next1(hit) /\ \A j \in hit : j.isin \cap row.isin # {} \/ j.figi \cap row.figi # {}
    <3>1. CASE Next1({})  BY <3>1
    <3>2. ASSUME NEW i \in matches, Next1({i})
          PROVE  \E hit \in SUBSET identity.instruments :
                   Next1(hit) /\ \A j \in hit : j.isin \cap row.isin # {} \/ j.figi \cap row.figi # {}
      <4>1. {i} \in SUBSET identity.instruments  BY <2>2
      <4>2. \A j \in {i} : j.isin \cap row.isin # {} \/ j.figi \cap row.figi # {}  BY <2>2
      <4> QED BY <3>2, <4>1, <4>2
    <3> QED BY <2>3, <3>1, <3>2
  <2> QED BY <2>4 DEF Next1
<1>4. SightingFor(whose, finder[f].op, row)  BY <1>2, <1>3 DEF WriteTrue
<1>5. \A j \in hit : IssuerIs(identity, j.issuer, NameCompany[row.name])
                       /\ InstrumentIs(identity, j.id, NameCompany[row.name])
  <2> SUFFICES ASSUME NEW j \in hit PROVE IssuerIs(identity, j.issuer, NameCompany[row.name])
    BY DEF InstrumentIs
  <2>1. PICK c \in Companies : IssuerIs(identity, j.issuer, c) /\ TrueIds(whose, j, c)
    BY <1>3 DEF ResolverInv, Kept, SoundRows, TrueInstrument
  <2>2. TrueIds(whose, row, NameCompany[row.name])  BY <1>4 DEF SightingFor, TrueSighting
  <2>3. c = NameCompany[row.name]
    <3>1. j.isin \cap row.isin # {} \/ j.figi \cap row.figi # {}  BY <1>3
    <3>2. CASE j.isin \cap row.isin # {}
      <4>1. PICK v : v \in j.isin /\ v \in row.isin  BY <3>2
      <4>2. whose[<<"isin", v>>] = c  BY <2>1, <4>1 DEF TrueIds
      <4>3. whose[<<"isin", v>>] = NameCompany[row.name]  BY <2>2, <4>1 DEF TrueIds
      <4> QED BY <4>2, <4>3
    <3>3. CASE j.figi \cap row.figi # {}
      <4>1. PICK v : v \in j.figi /\ v \in row.figi  BY <3>3
      <4>2. whose[<<"figi", v>>] = c  BY <2>1, <4>1 DEF TrueIds
      <4>3. whose[<<"figi", v>>] = NameCompany[row.name]  BY <2>2, <4>1 DEF TrueIds
      <4> QED BY <4>2, <4>3
    <3> QED BY <3>1, <3>2, <3>3
  <2> QED BY <2>1, <2>3
<1> DEFINE at == IF hit = {} THEN "issuer" ELSE "fillIssuer"
           ids == {j.id : j \in hit}
           issuers == {j.issuer : j \in hit}
<1>6. Moves(f) /\ finder'[f] = [finder[f] EXCEPT !.todo = @ \ {row}, !.row = {row}, !.hit = ids,
                                                 !.issuer = issuers, !.at = at]
  BY <1>3, ShapeOf DEF Moves
<1>7. at \in {"issuer", "fillIssuer"} /\ (at = "fillIssuer" => issuers # {})  OBVIOUS
<1>8. \A id \in issuers : IssuerIs(identity, id, NameCompany[row.name])  BY <1>5
<1>9. \A id \in ids : InstrumentIs(identity, id, NameCompany[row.name])  BY <1>5
<1>10. FinderShape(finder[f])  BY ShapeOf
<1> HIDE DEF at, ids, issuers
<1>11. /\ FinderShape(finder'[f]) /\ finder'[f].op = finder[f].op /\ finder'[f].query = finder[f].query
       /\ finder'[f].at = at /\ finder'[f].row = {row} /\ finder'[f].hit = ids /\ finder'[f].issuer = issuers
       /\ finder'[f].todo = finder[f].todo \ {row}
  BY <1>6, <1>10 DEF FinderShape
<1>12. WriteTrue(whose, finder'[f], identity)
  <2>1. \A s \in finder'[f].todo : SightingFor(whose, finder'[f].op, s)  BY <1>2, <1>11 DEF WriteTrue
  <2> QED BY <1>4, <1>7, <1>8, <1>9, <1>11, <2>1 DEF WriteTrue
<1>13. finder[f].at \in Writing /\ finder'[f].at \in Writing  BY <1>1, <1>7, <1>11 DEF Writing
<1> QED BY <1>1, <1>6, <1>11, <1>12, <1>13, WriterReads

LEMMA LookUpIssuerKeeps ==
    ASSUME NEW whose, ResolverInv(whose), NEW f \in Finders, LookUpIssuer(f)
    PROVE  ResolverInv(whose)'
<1>1. finder[f].at = "issuer" /\ UNCHANGED <<identity, startup, answered>>  BY DEF LookUpIssuer
<1>2. PICK s : WritesOf(whose, f, s)  BY <1>1, OneWrites DEF Writing
<1> DEFINE byCik == {i \in identity.issuers : i.cik \cap s.cik # {}}
           byLei == {i \in identity.issuers : i.lei \cap s.lei # {}}
           byName == {i \in identity.issuers : i.name = s.name}
           found == IF byCik # {} THEN byCik ELSE IF byLei # {} THEN byLei ELSE Only(byName)
           ids == {i.id : i \in found}
           at == IF found = {} THEN "newIssuer" ELSE "fillIssuer"
<1>3. finder' = [finder EXCEPT ![f].issuer = ids, ![f].at = at]
  <2>1. Row1(f) = s  BY <1>2 DEF WritesOf
  <2> QED BY <2>1, Zenon DEF LookUpIssuer
<1>4. ASSUME NEW i \in found PROVE IssuerIs(identity, i.id, NameCompany[s.name])
  <2>1. TrueNames(whose, s, NameCompany[s.name])  BY <1>2 DEF WritesOf, SightingFor, TrueSighting
  <2>2. i \in byCik \cup byLei \cup byName
    <3>1. \A x \in Only(byName) : x \in byName  BY OnlyIsIn
    <3> QED BY <3>1
  <2>3. TrueNames(whose, i, NameCompany[i.name])  BY <2>2 DEF ResolverInv, Kept, SoundRows, TrueIssuer
  <2>4. NameCompany[i.name] = NameCompany[s.name]  BY <2>1, <2>2, <2>3 DEF TrueNames
  <2> QED BY <2>2, <2>4 DEF IssuerIs
<1>5. \A id \in ids : IssuerIs(identity, id, NameCompany[s.name])  BY <1>4
<1>6. at \in {"newIssuer", "fillIssuer"} /\ (at = "fillIssuer" => ids # {})  OBVIOUS
<1>7. FinderShape(finder[f])  BY ShapeOf
<1> HIDE DEF at, ids
<1>8. Moves(f) /\ finder'[f] = [finder[f] EXCEPT !.issuer = ids, !.at = at]
  BY <1>3, ShapeOf DEF Moves
<1>9. /\ FinderShape(finder'[f]) /\ finder'[f].op = finder[f].op /\ finder'[f].query = finder[f].query
      /\ finder'[f].at = at /\ finder'[f].row = finder[f].row /\ finder'[f].hit = finder[f].hit
      /\ finder'[f].issuer = ids /\ finder'[f].todo = finder[f].todo
  BY <1>7, <1>8 DEF FinderShape
<1>10. WriteTrue(whose, finder'[f], identity)  BY <1>2, <1>5, <1>6, <1>9 DEF WriteTrue, WritesOf
<1>11. finder[f].at \in Writing /\ finder'[f].at \in Writing  BY <1>1, <1>6, <1>9 DEF Writing
<1> QED BY <1>1, <1>8, <1>9, <1>10, <1>11, WriterReads

LEMMA LookUpInstrumentKeeps ==
    ASSUME NEW whose, ResolverInv(whose), NEW f \in Finders, LookUpInstrument(f)
    PROVE  ResolverInv(whose)'
<1>1. finder[f].at = "instrument" /\ UNCHANGED <<identity, startup, answered>>  BY DEF LookUpInstrument
<1>2. PICK s : WritesOf(whose, f, s)  BY <1>1, OneWrites DEF Writing
<1>3. PICK shape : shape = {i.id : i \in {i \in identity.instruments : i.issuer \in finder[f].issuer /\ i.type = s.type}}
  OBVIOUS
<1>4. SoundRows(whose, identity)  BY DEF ResolverInv, Kept
<1>5. shape \subseteq Nat
  <2>1. \A j \in identity.instruments : j.id \in Nat  BY <1>4, NewIdIsNew DEF SoundRows
  <2> QED BY <1>3, <2>1
<1>6. \A id \in shape : InstrumentIs(identity, id, NameCompany[s.name])
  BY <1>2, <1>3 DEF WritesOf, InstrumentIs
<1>7. PICK hit : /\ hit = IF shape = {} THEN {} ELSE {Min(shape)}
                 /\ \A id \in hit : InstrumentIs(identity, id, NameCompany[s.name])
                 /\ shape # {} => hit # {}
  BY <1>5, <1>6, SmallestIsIn
<1>8. PICK at : /\ at = IF shape = {} THEN "newInstrument" ELSE "fillInstrument"
                /\ at \in {"newInstrument", "fillInstrument"} /\ (at = "fillInstrument" => hit # {})
  BY <1>7
<1>9. finder' = [finder EXCEPT ![f].hit = hit, ![f].at = at]
  <2>1. Row1(f) = s  BY <1>2 DEF WritesOf
  <2> QED BY <1>3, <1>7, <1>8, <2>1, Zenon DEF LookUpInstrument
<1>10. FinderShape(finder[f])  BY ShapeOf
<1>11. Moves(f) /\ finder'[f] = [finder[f] EXCEPT !.hit = hit, !.at = at]
  BY <1>9, ShapeOf DEF Moves
<1>12. /\ FinderShape(finder'[f]) /\ finder'[f].op = finder[f].op /\ finder'[f].query = finder[f].query
       /\ finder'[f].at = at /\ finder'[f].row = finder[f].row /\ finder'[f].hit = hit
       /\ finder'[f].issuer = finder[f].issuer /\ finder'[f].todo = finder[f].todo
  BY <1>10, <1>11 DEF FinderShape
<1>13. finder[f].issuer # {}  BY <1>1, <1>2 DEF WritesOf
<1>14. WriteTrue(whose, finder'[f], identity)  BY <1>2, <1>7, <1>8, <1>12, <1>13 DEF WriteTrue, WritesOf
<1>15. finder[f].at \in Writing /\ finder'[f].at \in Writing  BY <1>1, <1>8, <1>12 DEF Writing
<1> QED BY <1>1, <1>11, <1>12, <1>14, <1>15, WriterReads

LEMMA LookUpListingKeeps ==
    ASSUME NEW whose, ResolverInv(whose), NEW f \in Finders, LookUpListing(f)
    PROVE  ResolverInv(whose)'
<1>1. finder[f].at = "listing" /\ UNCHANGED <<identity, startup, answered>>  BY DEF LookUpListing
<1>2. PICK s : WritesOf(whose, f, s)  BY <1>1, OneWrites DEF Writing
<1>3. PICK at : /\ at = IF \E l \in identity.listings : SameListing(l, s) THEN "moveListing" ELSE "newListing"
                /\ at \in {"newListing", "moveListing"}
                /\ at = "moveListing" => \E l \in identity.listings : SameListing(l, s)
  OBVIOUS
<1>4. finder' = [finder EXCEPT ![f].at = at]
  <2>1. Row1(f) = s  BY <1>2 DEF WritesOf
  <2> QED BY <1>3, <2>1, Zenon DEF LookUpListing, Move
<1>5. FinderShape(finder[f])  BY ShapeOf
<1>6. Moves(f) /\ finder'[f] = [finder[f] EXCEPT !.at = at]
  BY <1>4, ShapeOf DEF Moves
<1>7. /\ FinderShape(finder'[f]) /\ finder'[f].op = finder[f].op /\ finder'[f].query = finder[f].query
      /\ finder'[f].at = at /\ finder'[f].row = finder[f].row /\ finder'[f].hit = finder[f].hit
      /\ finder'[f].issuer = finder[f].issuer /\ finder'[f].todo = finder[f].todo
  BY <1>5, <1>6 DEF FinderShape
<1>8. finder[f].hit # {}  BY <1>1, <1>2 DEF WritesOf
<1>9. WriteTrue(whose, finder'[f], identity)  BY <1>2, <1>3, <1>7, <1>8 DEF WriteTrue, WritesOf
<1>10. finder[f].at \in Writing /\ finder'[f].at \in Writing  BY <1>1, <1>3, <1>7 DEF Writing
<1> QED BY <1>1, <1>6, <1>7, <1>9, <1>10, WriterReads

(* A statement that fails: what was written before it stays, unless it is  *)
(* the startup's transaction.                                              *)
LEMMA DiscoveryFailsKeeps ==
    ASSUME NEW whose, ResolverInv(whose), NEW f \in Finders, finder[f].at \in Writing \cup {"done"},
           DiscoveryFails(f)
    PROVE  ResolverInv(whose)'
<1>1. /\ FinderTrue(whose, finder[f], identity) /\ Fits(startup.phase, finder[f]) /\ finder[f].at # "idle"
      /\ StartupTrue(whose)
  BY DEF ResolverInv, StartupTrue, Writing
<1>2. CASE /\ finder[f].op = "ask"
           /\ finder' = [finder EXCEPT ![f] = [Resting EXCEPT !.query = finder[f].query, !.at = "name"]]
           /\ UNCHANGED <<identity, startup, answered>>
  <2>1. PICK q \in SubjectQueries : AskTrue(finder[f], q, identity)  BY <1>1, <1>2 DEF FinderTrue
  <2>2. Moves(f) /\ finder'[f] = [Resting EXCEPT !.query = finder[f].query, !.at = "name"]
    BY <1>2, ShapeOf DEF Moves
  <2>3. /\ FinderShape(finder'[f]) /\ finder'[f].at = "name" /\ finder'[f].seen = {}
        /\ finder'[f].op = "ask" /\ finder'[f].query = {q}
    BY <2>1, <2>2 DEF FinderShape, Resting, AskTrue
  <2>4. AskTrue(finder'[f], q, identity)  BY <2>3 DEF AskTrue, Meant, Writing
  <2>5. FinderTrue(whose, finder'[f], identity) /\ Fits("serving", finder'[f])
    BY <2>3, <2>4, AskIsTrue DEF Searching
  <2>6. startup.phase = "serving"  BY <1>1, <1>2 DEF Fits
  <2> QED BY <1>1, <1>2, <2>2, <2>5, <2>6, OneReads
<1>3. CASE finder' = [finder EXCEPT ![f] = Resting] /\ UNCHANGED <<identity, startup, answered>>
  <2>1. Moves(f) /\ finder'[f] = Resting  BY <1>3, ShapeOf DEF Moves
  <2>2. FinderTrue(whose, finder'[f], identity) /\ Fits(startup.phase, finder'[f]) /\ finder'[f].at = "idle"
    BY <2>1, RestingIsTrue
  <2> QED BY <1>3, <2>1, <2>2, OneReads
<1>4. CASE /\ finder[f].op = "repair"
           /\ identity' = (CHOOSE s \in startup.saved : TRUE)
           /\ startup' = [startup EXCEPT !.phase = "failed", !.saved = {}]
           /\ finder' = [finder EXCEPT ![f] = Resting] /\ UNCHANGED answered
  <2>1. startup.phase = "repairing"  BY <1>1, <1>4 DEF Fits
  <2>2. PICK s : startup.saved = {s} /\ Kept(whose, s)  BY <1>1, <2>1 DEF StartupTrue
  <2>3. identity' = s  BY <1>4, <2>2
  <2>4. Kept(whose, identity)'
    <3>1. Kept(whose, identity')  BY <2>2, <2>3
    <3> QED BY <3>1 DEF Kept
  <2>5. Moves(f) /\ finder'[f] = Resting  BY <1>4, ShapeOf DEF Moves
  <2>6. \A g \in Finders : finder'[g].at = "idle" /\ FinderTrue(whose, finder'[g], identity')
    <3> SUFFICES ASSUME NEW g \in Finders PROVE finder'[g].at = "idle" /\ FinderTrue(whose, finder'[g], identity')
      OBVIOUS
    <3>1. CASE g = f  BY <2>5, <3>1, RestingIsTrue
    <3>2. CASE g # f
      <4>1. finder'[g] = finder[g] /\ finder[g].at = "idle"  BY <1>1, <2>1, <2>5, <3>2 DEF StartupTrue, Moves
      <4>2. FinderTrue(whose, finder[g], identity)  BY DEF ResolverInv
      <4> QED BY <4>1, <4>2 DEF FinderTrue, Searching, Writing
    <3> QED BY <3>1, <3>2
  <2>7. answered' = {}  BY <1>1, <1>4, <2>1 DEF StartupTrue
  <2>8. startup' = [phase |-> "failed", times |-> startup.times, asked |-> startup.asked,
                    tickers |-> startup.tickers, saved |-> {}]
    BY <1>1, <1>4 DEF StartupTrue
  <2>9. StartupTrue(whose)'  BY <2>6, <2>7, <2>8 DEF StartupTrue, Fits
  <2> QED BY <2>4, <2>5, <2>6, <2>7, <2>9 DEF ResolverInv, Moves
<1> QED BY <1>2, <1>3, <1>4 DEF DiscoveryFails

RowsShape(rows) ==
    rows = [issuers |-> rows.issuers, instruments |-> rows.instruments,
            listings |-> rows.listings, refs |-> rows.refs]

LEMMA CoalesceIsIn ==
    ASSUME NEW old, NEW new, NEW v \in Coalesce(old, new)
    PROVE  v \in old \/ v \in new
BY DEF Coalesce

LEMMA FillIssuerKeeps ==
    ASSUME NEW whose, ResolverInv(whose), NEW f \in Finders, FillIssuer(f)
    PROVE  ResolverInv(whose)'
<1>1. finder[f].at = "fillIssuer"  BY DEF FillIssuer
<1>2. PICK s : WritesOf(whose, f, s)  BY <1>1, OneWrites DEF Writing
<1>3. SoundRows(whose, identity)  BY DEF ResolverInv, Kept
<1> DEFINE Fill(i) == IF i.id \in finder[f].issuer
                      THEN [i EXCEPT !.cik = Coalesce(@, s.cik), !.lei = Coalesce(@, s.lei)]
                      ELSE i
<1>4. PICK filled : filled = {Fill(i) : i \in identity.issuers}  OBVIOUS
<1>5. PICK at : at = (IF finder[f].hit = {} THEN "instrument" ELSE "fillInstrument")  OBVIOUS
<1>6. \/ DiscoveryFails(f)
      \/ WriteRows(f, [identity EXCEPT !.issuers = filled], [finder EXCEPT ![f].at = at])
  <2>1. Row1(f) = s  BY <1>2 DEF WritesOf
  <2> QED BY <1>4, <1>5, <2>1, Zenon DEF FillIssuer
<1>7. CASE DiscoveryFails(f)  BY <1>1, <1>7, DiscoveryFailsKeeps DEF Writing
<1>8. CASE WriteRows(f, [identity EXCEPT !.issuers = filled], [finder EXCEPT ![f].at = at])
  <2>1. /\ identity' = [identity EXCEPT !.issuers = filled] /\ finder' = [finder EXCEPT ![f].at = at]
        /\ UNCHANGED <<startup, answered>>
    BY <1>8 DEF WriteRows
  <2>2. /\ RowsShape(identity') /\ identity'.issuers = filled /\ identity'.instruments = identity.instruments
        /\ identity'.listings = identity.listings /\ identity'.refs = identity.refs
    BY <1>3, <2>1 DEF RowsShape, SoundRows
  <2>3. \A i \in identity.issuers :
           /\ Fill(i).id = i.id /\ Fill(i).name = i.name /\ TrueIssuer(whose, Fill(i))
    <3> SUFFICES ASSUME NEW i \in identity.issuers
                 PROVE  Fill(i).id = i.id /\ Fill(i).name = i.name /\ TrueIssuer(whose, Fill(i))
      OBVIOUS
    <3>1. TrueIssuer(whose, i)  BY <1>3 DEF SoundRows
    <3>2. CASE i.id \notin finder[f].issuer  BY <3>1, <3>2
    <3>3. CASE i.id \in finder[f].issuer
      <4>1. NameCompany[i.name] = NameCompany[s.name]
        BY <1>2, <1>3, <3>3 DEF WritesOf, IssuerIs, SoundRows, Numbered
      <4>2. PICK cik : cik = Coalesce(i.cik, s.cik)  OBVIOUS
      <4>3. PICK lei : lei = Coalesce(i.lei, s.lei)  OBVIOUS
      <4>4. TrueNames(whose, s, NameCompany[i.name])  BY <1>2, <4>1 DEF WritesOf, SightingFor, TrueSighting
      <4>5. \A v \in cik : whose[<<"cik", v>>] = NameCompany[i.name]
        <5>1. \A v \in cik : v \in i.cik \/ v \in s.cik  BY <4>2, CoalesceIsIn
        <5> QED BY <3>1, <4>4, <5>1 DEF TrueIssuer, TrueNames
      <4>6. \A v \in lei : whose[<<"lei", v>>] = NameCompany[i.name]
        <5>1. \A v \in lei : v \in i.lei \/ v \in s.lei  BY <4>3, CoalesceIsIn
        <5> QED BY <3>1, <4>4, <5>1 DEF TrueIssuer, TrueNames
      <4>7. Fill(i) = [id |-> i.id, name |-> i.name, former |-> i.former, cik |-> cik, lei |-> lei]
        BY <3>1, <3>3, <4>2, <4>3 DEF TrueIssuer
      <4> HIDE DEF Fill
      <4> QED BY <3>1, <4>5, <4>6, <4>7 DEF TrueIssuer, TrueNames
    <3> QED BY <3>2, <3>3
  <2> HIDE DEF Fill
  <2>4. Numbered(filled)
    <3>1. Numbered(identity.issuers)  BY <1>3 DEF SoundRows
    <3>2. \A x, y \in filled : x.id = y.id => x = y  BY <1>4, <2>3, <3>1 DEF Numbered
    <3> QED BY <1>4, <2>3, <3>1, <3>2, NumberedStays
  <2>5. Keeps(identity, identity')  BY <1>4, <2>2, <2>3 DEF Keeps
  <2>6. Grows(identity, identity')  BY <2>2, <2>5 DEF Grows, SeedsSame
  <2>7. SoundRows(whose, identity')
    <3>1. Numbered(identity'.instruments) /\ Numbered(identity'.listings)  BY <1>3, <2>2 DEF SoundRows
    <3>2. \A i \in identity'.issuers : TrueIssuer(whose, i)  BY <1>4, <2>2, <2>3
    <3> QED BY <1>3, <2>2, <2>4, <2>5, <3>1, <3>2, SoundGrows DEF RowsShape
  <2>8. FinderShape(finder[f])  BY ShapeOf
  <2>9. Moves(f) /\ finder'[f] = [finder[f] EXCEPT !.at = at]
    BY <2>1, ShapeOf DEF Moves
  <2>10. /\ FinderShape(finder'[f]) /\ finder'[f].op = finder[f].op /\ finder'[f].query = finder[f].query
         /\ finder'[f].at = at /\ finder'[f].row = finder[f].row /\ finder'[f].hit = finder[f].hit
         /\ finder'[f].issuer = finder[f].issuer /\ finder'[f].todo = finder[f].todo
    BY <2>8, <2>9 DEF FinderShape
  <2>11. \A id \in finder[f].issuer : IssuerIs(identity', id, NameCompany[s.name])
    BY <1>2, <2>5, KeepsIssuerIs DEF WritesOf
  <2>12. \A id \in finder[f].hit : InstrumentIs(identity', id, NameCompany[s.name])
    BY <1>2, <2>5, KeepsInstrumentIs DEF WritesOf
  <2>13. finder[f].issuer # {}  BY <1>1, <1>2 DEF WritesOf
  <2>14. at \in {"instrument", "fillInstrument"} /\ (at = "fillInstrument" => finder[f].hit # {})  BY <1>5
  <2>15. WriteTrue(whose, finder'[f], identity')
    BY <1>2, <2>10, <2>11, <2>12, <2>13, <2>14 DEF WriteTrue, WritesOf
  <2>16. finder[f].at \in Writing /\ finder'[f].at \in Writing  BY <1>1, <2>10, <2>14 DEF Writing
  <2> QED BY <2>1, <2>6, <2>7, <2>9, <2>10, <2>15, <2>16, WriterMoves
<1> QED BY <1>6, <1>7, <1>8

LEMMA InsertIssuerKeeps ==
    ASSUME NEW whose, ResolverInv(whose), NEW f \in Finders, InsertIssuer(f)
    PROVE  ResolverInv(whose)'
<1>1. finder[f].at = "newIssuer"  BY DEF InsertIssuer
<1>2. PICK s : WritesOf(whose, f, s)  BY <1>1, OneWrites DEF Writing
<1>3. SoundRows(whose, identity)  BY DEF ResolverInv, Kept
<1>4. PICK new : new = [id |-> NewId(identity.issuers), name |-> s.name, former |-> {},
                        cik |-> s.cik, lei |-> s.lei]
  OBVIOUS
<1>5. \/ DiscoveryFails(f)
      \/ WriteRows(f, [identity EXCEPT !.issuers = @ \cup {new}],
                   [finder EXCEPT ![f].issuer = {new.id}, ![f].at = "instrument"])
  <2>1. Row1(f) = s  BY <1>2 DEF WritesOf
  <2> QED BY <1>4, <2>1, Zenon DEF InsertIssuer
<1>6. CASE DiscoveryFails(f)  BY <1>1, <1>6, DiscoveryFailsKeeps DEF Writing
<1>7. CASE WriteRows(f, [identity EXCEPT !.issuers = @ \cup {new}],
                     [finder EXCEPT ![f].issuer = {new.id}, ![f].at = "instrument"])
  <2>1. /\ identity' = [identity EXCEPT !.issuers = @ \cup {new}]
        /\ finder' = [finder EXCEPT ![f].issuer = {new.id}, ![f].at = "instrument"]
        /\ UNCHANGED <<startup, answered>>
    BY <1>7 DEF WriteRows
  <2>2. /\ RowsShape(identity') /\ identity'.issuers = identity.issuers \cup {new}
        /\ identity'.instruments = identity.instruments
        /\ identity'.listings = identity.listings /\ identity'.refs = identity.refs
    BY <1>3, <2>1 DEF RowsShape, SoundRows
  <2>3. new.id = NewId(identity.issuers) /\ new.name = s.name  BY <1>4
  <2>4. TrueIssuer(whose, new)
    <3>1. /\ s.name \in DOMAIN NameCompany /\ TrueNames(whose, s, NameCompany[s.name])
      BY <1>2 DEF WritesOf, SightingFor, TrueSighting
    <3> QED BY <1>4, <3>1 DEF TrueIssuer, TrueNames
  <2>5. Keeps(identity, identity')  BY <2>2 DEF Keeps
  <2>6. Grows(identity, identity')  BY <2>2, <2>5 DEF Grows, SeedsSame
  <2>7. SoundRows(whose, identity')
    <3>1. Numbered(identity'.instruments) /\ Numbered(identity'.listings)  BY <1>3, <2>2 DEF SoundRows
    <3>2. \A i \in identity'.issuers : TrueIssuer(whose, i)  BY <1>3, <2>2, <2>4 DEF SoundRows
    <3>3. Numbered(identity'.issuers)  BY <1>3, <2>2, <2>3, NumberedGrows DEF SoundRows
    <3> QED BY <1>3, <2>2, <2>5, <3>1, <3>2, <3>3, SoundGrows DEF RowsShape
  <2>8. FinderShape(finder[f])  BY ShapeOf
  <2>9. Moves(f) /\ finder'[f] = [finder[f] EXCEPT !.issuer = {new.id}, !.at = "instrument"]
    BY <2>1, ShapeOf DEF Moves
  <2>10. /\ FinderShape(finder'[f]) /\ finder'[f].op = finder[f].op /\ finder'[f].query = finder[f].query
         /\ finder'[f].at = "instrument" /\ finder'[f].row = finder[f].row /\ finder'[f].hit = finder[f].hit
         /\ finder'[f].issuer = {new.id} /\ finder'[f].todo = finder[f].todo
    BY <2>8, <2>9 DEF FinderShape
  <2>11. IssuerIs(identity', new.id, NameCompany[s.name])  BY <2>2, <2>3 DEF IssuerIs
  <2>12. \A id \in finder[f].hit : InstrumentIs(identity', id, NameCompany[s.name])
    BY <1>2, <2>5, KeepsInstrumentIs DEF WritesOf
  <2>13. WriteTrue(whose, finder'[f], identity')
    BY <1>2, <2>10, <2>11, <2>12 DEF WriteTrue, WritesOf
  <2>14. finder[f].at \in Writing /\ finder'[f].at \in Writing  BY <1>1, <2>10 DEF Writing
  <2> QED BY <2>1, <2>6, <2>7, <2>9, <2>10, <2>13, <2>14, WriterMoves
<1> QED BY <1>5, <1>6, <1>7

LEMMA FillInstrumentKeeps ==
    ASSUME NEW whose, ResolverInv(whose), NEW f \in Finders, FillInstrument(f)
    PROVE  ResolverInv(whose)'
<1>1. finder[f].at = "fillInstrument"  BY DEF FillInstrument
<1>2. PICK s : WritesOf(whose, f, s)  BY <1>1, OneWrites DEF Writing
<1>3. SoundRows(whose, identity)  BY DEF ResolverInv, Kept
<1>4. PICK isin, figi :
         /\ isin = s.isin \ UNION {i.isin : i \in {i \in identity.instruments : i.id \notin finder[f].hit}}
         /\ figi = s.figi \ UNION {i.figi : i \in {i \in identity.instruments : i.id \notin finder[f].hit}}
         /\ isin \subseteq s.isin /\ figi \subseteq s.figi
  OBVIOUS
<1> DEFINE Fill(i) == IF i.id \in finder[f].hit
                      THEN [i EXCEPT !.isin = Coalesce(@, isin), !.figi = Coalesce(@, figi)]
                      ELSE i
<1>5. PICK filled : filled = {Fill(i) : i \in identity.instruments}  OBVIOUS
<1>6. /\ identity' = [identity EXCEPT !.instruments = filled] /\ finder' = [finder EXCEPT ![f].at = "listing"]
      /\ UNCHANGED <<startup, answered>>
  <2>1. Row1(f) = s  BY <1>2 DEF WritesOf
  <2>2. WriteRows(f, [identity EXCEPT !.instruments = {Fill(i) : i \in @}], [finder EXCEPT ![f].at = "listing"])
    BY <1>4, <2>1, Zenon DEF FillInstrument
  <2>3. identity' = [identity EXCEPT !.instruments = {Fill(i) : i \in @}] BY <2>2 DEF WriteRows
  <2>4. identity' = [identity EXCEPT !.instruments = filled]
    <3> HIDE DEF Fill
    <3> QED BY <1>3, <1>5, <2>3 DEF SoundRows
  <2> QED BY <2>2, <2>4 DEF WriteRows
<1>7. /\ RowsShape(identity') /\ identity'.issuers = identity.issuers /\ identity'.instruments = filled
      /\ identity'.listings = identity.listings /\ identity'.refs = identity.refs
  BY <1>3, <1>6 DEF RowsShape, SoundRows
<1>8. \A i \in identity.instruments :
         /\ Fill(i).id = i.id /\ Fill(i).issuer = i.issuer /\ TrueInstrument(whose, identity, Fill(i))
  <2> SUFFICES ASSUME NEW i \in identity.instruments
               PROVE  Fill(i).id = i.id /\ Fill(i).issuer = i.issuer /\ TrueInstrument(whose, identity, Fill(i))
    OBVIOUS
  <2>1. TrueInstrument(whose, identity, i)  BY <1>3 DEF SoundRows
  <2>2. CASE i.id \notin finder[f].hit  BY <2>1, <2>2
  <2>3. CASE i.id \in finder[f].hit
    <3>1. PICK c \in Companies : IssuerIs(identity, i.issuer, c) /\ TrueIds(whose, i, c)  BY <2>1 DEF TrueInstrument
    <3>2. InstrumentIs(identity, i.id, NameCompany[s.name])  BY <1>2, <2>3 DEF WritesOf
    <3>3. InstrumentIs(identity, i.id, c)  BY <3>1 DEF InstrumentIs
    <3>4. c = NameCompany[s.name]  BY <1>3, <3>2, <3>3, OneInstrument DEF SoundRows
    <3>5. TrueIds(whose, s, c)  BY <1>2, <3>4 DEF WritesOf, SightingFor, TrueSighting
    <3>6. PICK isins : isins = Coalesce(i.isin, isin)  OBVIOUS
    <3>7. PICK figis : figis = Coalesce(i.figi, figi)  OBVIOUS
    <3>8. \A v \in isins : whose[<<"isin", v>>] = c
      <4>1. \A v \in isins : v \in i.isin \/ v \in s.isin  BY <1>4, <3>6, CoalesceIsIn
      <4> QED BY <3>1, <3>5, <4>1 DEF TrueIds
    <3>9. \A v \in figis : whose[<<"figi", v>>] = c
      <4>1. \A v \in figis : v \in i.figi \/ v \in s.figi  BY <1>4, <3>7, CoalesceIsIn
      <4> QED BY <3>1, <3>5, <4>1 DEF TrueIds
    <3>10. Fill(i) = [id |-> i.id, issuer |-> i.issuer, type |-> i.type, isin |-> isins, figi |-> figis]
      BY <2>1, <2>3, <3>6, <3>7 DEF TrueInstrument
    <3> HIDE DEF Fill
    <3> QED BY <3>1, <3>8, <3>9, <3>10 DEF TrueInstrument, TrueIds
  <2> QED BY <2>2, <2>3
<1> HIDE DEF Fill
<1>9. Numbered(filled)
  <2>1. Numbered(identity.instruments)  BY <1>3 DEF SoundRows
  <2>2. \A x, y \in filled : x.id = y.id => x = y  BY <1>5, <1>8, <2>1 DEF Numbered
  <2> QED BY <1>5, <1>8, <2>1, <2>2, NumberedStays
<1>10. Keeps(identity, identity')  BY <1>5, <1>7, <1>8 DEF Keeps
<1>11. Grows(identity, identity')
  <2>1. \A j \in filled : \E k \in identity.instruments : k.id = j.id /\ k.issuer = j.issuer  BY <1>5, <1>8
  <2>2. SeedsSame(identity, identity')  BY <1>7, <2>1 DEF SeedsSame
  <2> QED BY <1>7, <1>10, <2>2 DEF Grows
<1>12. SoundRows(whose, identity')
  <2>1. Numbered(identity'.issuers) /\ Numbered(identity'.listings)  BY <1>3, <1>7 DEF SoundRows
  <2>2. \A i \in identity'.issuers : TrueIssuer(whose, i)  BY <1>3, <1>7 DEF SoundRows
  <2>3. \A j \in identity'.instruments : TrueInstrument(whose, identity', j)
    <3>1. \A j \in identity'.instruments : TrueInstrument(whose, identity, j)  BY <1>5, <1>7, <1>8
    <3> QED BY <1>10, <3>1, KeepsIssuerIs DEF TrueInstrument
  <2> QED BY <1>3, <1>7, <1>9, <1>10, <2>1, <2>2, <2>3, SoundGrows DEF RowsShape
<1>13. FinderShape(finder[f])  BY ShapeOf
<1>14. Moves(f) /\ finder'[f] = [finder[f] EXCEPT !.at = "listing"]
  BY <1>6, ShapeOf DEF Moves
<1>15. /\ FinderShape(finder'[f]) /\ finder'[f].op = finder[f].op /\ finder'[f].query = finder[f].query
       /\ finder'[f].at = "listing" /\ finder'[f].row = finder[f].row /\ finder'[f].hit = finder[f].hit
       /\ finder'[f].issuer = finder[f].issuer /\ finder'[f].todo = finder[f].todo
  BY <1>13, <1>14 DEF FinderShape
<1>16. \A id \in finder[f].issuer : IssuerIs(identity', id, NameCompany[s.name])
  BY <1>2, <1>10, KeepsIssuerIs DEF WritesOf
<1>17. \A id \in finder[f].hit : InstrumentIs(identity', id, NameCompany[s.name])
  BY <1>2, <1>10, KeepsInstrumentIs DEF WritesOf
<1>18. finder[f].hit # {}  BY <1>1, <1>2 DEF WritesOf
<1>19. WriteTrue(whose, finder'[f], identity')
  BY <1>2, <1>15, <1>16, <1>17, <1>18 DEF WriteTrue, WritesOf
<1>20. finder[f].at \in Writing /\ finder'[f].at \in Writing  BY <1>1, <1>15 DEF Writing
<1> QED BY <1>6, <1>11, <1>12, <1>14, <1>15, <1>19, <1>20, WriterMoves

LEMMA InsertInstrumentKeeps ==
    ASSUME NEW whose, ResolverInv(whose), NEW f \in Finders, InsertInstrument(f)
    PROVE  ResolverInv(whose)'
<1>1. finder[f].at = "newInstrument"  BY DEF InsertInstrument
<1>2. PICK s : WritesOf(whose, f, s)  BY <1>1, OneWrites DEF Writing
<1>3. SoundRows(whose, identity)  BY DEF ResolverInv, Kept
<1>4. PICK issuer \in finder[f].issuer : issuer = CHOOSE i \in finder[f].issuer : TRUE
  BY <1>1, <1>2 DEF WritesOf
<1>5. PICK new : new = [id |-> NewId(identity.instruments), issuer |-> issuer,
                        type |-> s.type, isin |-> s.isin, figi |-> s.figi]
  OBVIOUS
<1>6. \/ DiscoveryFails(f)
      \/ WriteRows(f, [identity EXCEPT !.instruments = @ \cup {new}],
                   [finder EXCEPT ![f].hit = {new.id}, ![f].at = "listing"])
  <2>1. Row1(f) = s  BY <1>2 DEF WritesOf
  <2> QED BY <1>4, <1>5, <2>1, Zenon DEF InsertInstrument
<1>7. CASE DiscoveryFails(f)  BY <1>1, <1>7, DiscoveryFailsKeeps DEF Writing
<1>8. CASE WriteRows(f, [identity EXCEPT !.instruments = @ \cup {new}],
                     [finder EXCEPT ![f].hit = {new.id}, ![f].at = "listing"])
  <2>1. /\ identity' = [identity EXCEPT !.instruments = @ \cup {new}]
        /\ finder' = [finder EXCEPT ![f].hit = {new.id}, ![f].at = "listing"]
        /\ UNCHANGED <<startup, answered>>
    BY <1>8 DEF WriteRows
  <2>2. /\ RowsShape(identity') /\ identity'.instruments = identity.instruments \cup {new}
        /\ identity'.issuers = identity.issuers
        /\ identity'.listings = identity.listings /\ identity'.refs = identity.refs
    BY <1>3, <2>1 DEF RowsShape, SoundRows
  <2>3. new.id = NewId(identity.instruments) /\ new.issuer = issuer  BY <1>5
  <2>4. IssuerIs(identity', issuer, NameCompany[s.name])  BY <1>2, <1>4, <2>2 DEF WritesOf, IssuerIs
  <2>5. TrueInstrument(whose, identity', new)
    <3>1. s.name \in DOMAIN NameCompany /\ TrueIds(whose, s, NameCompany[s.name])
      BY <1>2 DEF WritesOf, SightingFor, TrueSighting
    <3>2. NameCompany[s.name] \in Companies  BY <3>1 DEF Companies
    <3>3. TrueIds(whose, new, NameCompany[s.name])  BY <1>5, <3>1 DEF TrueIds
    <3> QED BY <1>5, <2>4, <3>2, <3>3 DEF TrueInstrument
  <2>6. Keeps(identity, identity')  BY <2>2 DEF Keeps
  <2>7. Grows(identity, identity')
    <3>1. new.id # 0  BY <1>3, <2>3, NewIdIsNew DEF SoundRows
    <3> QED BY <2>2, <2>6, <3>1 DEF Grows, SeedsSame
  <2>8. SoundRows(whose, identity')
    <3>1. Numbered(identity'.issuers) /\ Numbered(identity'.listings)  BY <1>3, <2>2 DEF SoundRows
    <3>2. \A i \in identity'.issuers : TrueIssuer(whose, i)  BY <1>3, <2>2 DEF SoundRows
    <3>3. Numbered(identity'.instruments)  BY <1>3, <2>2, <2>3, NumberedGrows DEF SoundRows
    <3> QED BY <1>3, <2>2, <2>5, <2>6, <3>1, <3>2, <3>3, SoundGrows DEF RowsShape
  <2>9. FinderShape(finder[f])  BY ShapeOf
  <2>10. Moves(f) /\ finder'[f] = [finder[f] EXCEPT !.hit = {new.id}, !.at = "listing"]
    BY <2>1, ShapeOf DEF Moves
  <2>11. /\ FinderShape(finder'[f]) /\ finder'[f].op = finder[f].op /\ finder'[f].query = finder[f].query
         /\ finder'[f].at = "listing" /\ finder'[f].row = finder[f].row /\ finder'[f].hit = {new.id}
         /\ finder'[f].issuer = finder[f].issuer /\ finder'[f].todo = finder[f].todo
    BY <2>9, <2>10 DEF FinderShape
  <2>12. InstrumentIs(identity', new.id, NameCompany[s.name])  BY <2>2, <2>3, <2>4 DEF InstrumentIs
  <2>13. \A id \in finder[f].issuer : IssuerIs(identity', id, NameCompany[s.name])
    BY <1>2, <2>6, KeepsIssuerIs DEF WritesOf
  <2>14. WriteTrue(whose, finder'[f], identity')
    BY <1>2, <2>11, <2>12, <2>13 DEF WriteTrue, WritesOf
  <2>15. finder[f].at \in Writing /\ finder'[f].at \in Writing  BY <1>1, <2>11 DEF Writing
  <2> QED BY <2>1, <2>7, <2>8, <2>10, <2>11, <2>14, <2>15, WriterMoves
<1> QED BY <1>6, <1>7, <1>8

(* A row is done: the next one, if any, or what follows discovery.         *)
LEMMA NextRowKeeps ==
    ASSUME NEW whose, ResolverInv(whose), NEW f \in Finders, finder[f].at \in Writing, NEW s, WritesOf(whose, f, s),
           NEW id \in Nat \ {0}, finder' = NextRow(f, id), UNCHANGED <<startup, answered>>,
           Grows(identity, identity'), SoundRows(whose, identity'),
           ListingIs(identity', id, VenueCompany[Venue(s)])
    PROVE  ResolverInv(whose)'
<1>1. FinderTrue(whose, finder[f], identity) /\ Fits(startup.phase, finder[f])  BY DEF ResolverInv, StartupTrue
<1>2. PICK refs : refs = IF finder[f].op = "repair" THEN {<<"listing", id>>} ELSE {}  OBVIOUS
<1>3. PICK at : at = IF finder[f].todo # {} THEN "match" ELSE IF finder[f].op = "ask" THEN "again" ELSE "done"
  OBVIOUS
<1>4. FinderShape(finder[f])  BY ShapeOf
<1>5. finder' = [finder EXCEPT ![f].row = {}, ![f].hit = {}, ![f].issuer = {}, ![f].refs = refs, ![f].at = at]
  BY <1>2, <1>3, Zenon DEF NextRow
<1>6. Moves(f) /\ finder'[f] = [finder[f] EXCEPT !.row = {}, !.hit = {}, !.issuer = {}, !.refs = refs, !.at = at]
  BY <1>5, ShapeOf DEF Moves
<1>7. /\ FinderShape(finder'[f]) /\ finder'[f].op = finder[f].op /\ finder'[f].query = finder[f].query
      /\ finder'[f].at = at /\ finder'[f].refs = refs /\ finder'[f].todo = finder[f].todo
  BY <1>4, <1>6 DEF FinderShape
<1>8. CASE at = "match"
  <2>1. \A x \in finder[f].todo : SightingFor(whose, finder[f].op, x)  BY DEF WritesOf
  <2>2. WriteTrue(whose, finder'[f], identity')  BY <1>7, <1>8, <2>1 DEF WriteTrue
  <2> QED BY <1>6, <1>7, <1>8, <2>2, WriterMoves DEF Writing
<1>9. CASE at = "again"
  <2>1. finder[f].op = "ask" /\ startup.phase = "serving"  BY <1>1, <1>3, <1>9 DEF Fits, Writing
  <2>2. PICK q \in SubjectQueries : AskTrue(finder[f], q, identity)  BY <1>1, <2>1 DEF FinderTrue, Writing
  <2>3. q.ticker # {} /\ finder'[f].query = {q}  BY <1>7, <2>2 DEF AskTrue
  <2>4. AskTrue(finder'[f], q, identity')  BY <1>7, <1>9, <2>3 DEF AskTrue, Writing
  <2>5. FinderTrue(whose, finder'[f], identity') /\ Fits("serving", finder'[f])
    BY <1>7, <1>9, <2>1, <2>4, AskIsTrue DEF Searching
  <2>6. finder[f].at # "idle"  BY DEF Writing
  <2>7. startup' = startup /\ \A x \in answered' : x \in answered  OBVIOUS
  <2> QED BY <1>6, <2>1, <2>5, <2>6, <2>7, OneMoves
<1>10. CASE at = "done"
  <2>1. finder[f].op # "ask"  BY <1>3, <1>10
  <2>2. Fits(startup.phase, finder'[f])  BY <1>1, <1>7, <1>10, <2>1 DEF Fits, Writing, Searching
  <2>3. DoneTrue(finder'[f], identity')
    <3> SUFFICES ASSUME finder[f].op = "repair"
                 PROVE  \E n \in Nat \ {0} : refs = {<<"listing", n>>} /\ ListingIs(identity', n, LegacyCompany)
      BY <1>7 DEF DoneTrue
    <3>1. VenueCompany[Venue(s)] = LegacyCompany  BY DEF WritesOf, SightingFor
    <3> QED BY <1>2, <3>1
  <2>4. FinderTrue(whose, finder'[f], identity')
    BY <1>7, <1>10, <2>1, <2>3 DEF FinderTrue, FinderShape, Searching, Writing
  <2>5. finder[f].at # "idle"  BY DEF Writing
  <2>6. startup' = startup /\ \A x \in answered' : x \in answered  OBVIOUS
  <2> QED BY <1>6, <2>2, <2>4, <2>5, <2>6, OneMoves
<1> QED BY <1>3, <1>8, <1>9, <1>10

(* While somebody writes, the seeded listing is gone or retired.           *)
LEMMA ActiveIsNotSeeded ==
    ASSUME NEW whose, ResolverInv(whose), NEW f \in Finders, finder[f].at # "idle",
           NEW l \in identity.listings, l.active
    PROVE  l.id # 0
<1>1. StartupTrue(whose)  BY DEF ResolverInv
<1>2. Fits(startup.phase, finder[f])  BY <1>1 DEF StartupTrue
<1>3. startup.phase \in {"repairing", "hydrate", "serving"}  BY <1>2 DEF Fits
<1>4. LegacyRetired(identity) \/ ~LegacyLeft(identity)  BY <1>1, <1>3 DEF StartupTrue
<1> QED BY <1>4 DEF LegacyRetired, LegacyLeft

LEMMA MoveListingKeeps ==
    ASSUME NEW whose, ResolverInv(whose), NEW f \in Finders, MoveListing(f)
    PROVE  ResolverInv(whose)'
<1>1. finder[f].at = "moveListing" /\ finder[f].at \in Writing /\ finder[f].at # "idle"
  BY DEF MoveListing, Writing
<1>2. PICK s : WritesOf(whose, f, s)  BY <1>1, OneWrites DEF Writing
<1>3. SoundRows(whose, identity)  BY DEF ResolverInv, Kept
<1>4. PICK moved \in identity.listings :
         SameListing(moved, s) /\ moved = CHOOSE l \in identity.listings : SameListing(l, s)
  BY <1>1, <1>2 DEF WritesOf
<1>5. PICK hit \in finder[f].hit : hit = CHOOSE i \in finder[f].hit : TRUE
  BY <1>1, <1>2 DEF WritesOf
<1>6. PICK new : new = [moved EXCEPT !.instrument = hit]  OBVIOUS
<1>7. /\ identity' = [identity EXCEPT !.listings = (@ \ {moved}) \cup {new}]
      /\ finder' = NextRow(f, moved.id) /\ UNCHANGED <<startup, answered>>
  <2>1. Row1(f) = s  BY <1>2 DEF WritesOf
  <2> QED BY <1>4, <1>5, <1>6, <2>1, Zenon DEF MoveListing, WriteRows
<1>8. /\ RowsShape(identity') /\ identity'.listings = (identity.listings \ {moved}) \cup {new}
      /\ identity'.issuers = identity.issuers /\ identity'.instruments = identity.instruments
      /\ identity'.refs = identity.refs
  BY <1>3, <1>7 DEF RowsShape, SoundRows
<1>9. /\ new = [id |-> moved.id, instrument |-> hit, mic |-> moved.mic, ticker |-> moved.ticker,
                active |-> moved.active]
      /\ Venue(moved) \in DOMAIN VenueCompany
  <2>1. TrueListing(identity, moved)  BY <1>3 DEF SoundRows
  <2> QED BY <1>6, <2>1 DEF TrueListing
<1>10. Venue(moved) = Venue(s) /\ Venue(new) = Venue(s) /\ moved.active  BY <1>4, <1>9 DEF SameListing, Venue
<1>11. moved.id # 0  BY <1>1, <1>10, ActiveIsNotSeeded
<1>12. moved.id \in Nat
  <2>1. Numbered(identity.listings)  BY <1>3 DEF SoundRows
  <2> QED BY <2>1, NewIdIsNew
<1>13. Keeps(identity, identity')
  <2>1. \A l \in identity.listings :
           \E k \in identity'.listings : k.id = l.id /\ k.mic = l.mic /\ k.ticker = l.ticker
    <3> SUFFICES ASSUME NEW l \in identity.listings
                 PROVE  \E k \in identity'.listings : k.id = l.id /\ k.mic = l.mic /\ k.ticker = l.ticker
      OBVIOUS
    <3>1. CASE l = moved  BY <1>8, <1>9, <3>1
    <3>2. CASE l # moved  BY <1>8, <3>2
    <3> QED BY <3>1, <3>2
  <2> QED BY <1>8, <2>1 DEF Keeps
<1>14. Grows(identity, identity')
  <2>1. SeedsSame(identity, identity')  BY <1>8, <1>9, <1>11 DEF SeedsSame
  <2>2. \A l \in identity.listings : l.active =>
           \E k \in identity'.listings : k.active /\ k.mic = l.mic /\ k.ticker = l.ticker
    <3> SUFFICES ASSUME NEW l \in identity.listings, l.active
                 PROVE  \E k \in identity'.listings : k.active /\ k.mic = l.mic /\ k.ticker = l.ticker
      OBVIOUS
    <3>1. CASE l = moved  BY <1>8, <1>9, <1>10, <3>1
    <3>2. CASE l # moved  BY <1>8, <3>2
    <3> QED BY <3>1, <3>2
  <2> QED BY <1>13, <2>1, <2>2 DEF Grows
<1>15. SoundRows(whose, identity')
  <2>1. Numbered(identity'.issuers) /\ Numbered(identity'.instruments)  BY <1>3, <1>8 DEF SoundRows
  <2>2. \A i \in identity'.issuers : TrueIssuer(whose, i)  BY <1>3, <1>8 DEF SoundRows
  <2>3. Numbered(identity'.listings)
    <3>1. Numbered(identity.listings)  BY <1>3 DEF SoundRows
    <3>2. \A x, y \in identity'.listings : x.id = y.id => x = y
      BY <1>8, <1>9, <3>1 DEF Numbered
    <3>3. \A u \in identity'.listings : \E x \in identity.listings : x.id = u.id  BY <1>8, <1>9
    <3>4. \A x \in identity.listings : \E u \in identity'.listings : u.id = x.id  BY <1>13 DEF Keeps
    <3> QED BY <3>1, <3>2, <3>3, <3>4, NumberedStays
  <2>4. TrueListing(identity', new)
    <3>1. VenueCompany[Venue(s)] = NameCompany[s.name]  BY <1>2 DEF WritesOf, SightingFor, TrueSighting
    <3>2. InstrumentIs(identity', hit, NameCompany[s.name])
      BY <1>2, <1>5, <1>13, KeepsInstrumentIs DEF WritesOf
    <3> QED BY <1>9, <1>10, <3>1, <3>2 DEF TrueListing
  <2> QED BY <1>3, <1>8, <1>13, <2>1, <2>2, <2>3, <2>4, SoundGrows DEF RowsShape
<1>16. ListingIs(identity', moved.id, VenueCompany[Venue(s)])
  BY <1>8, <1>9, <1>10 DEF ListingIs
<1> QED BY <1>1, <1>2, <1>7, <1>11, <1>12, <1>14, <1>15, <1>16, NextRowKeeps

LEMMA InsertListingKeeps ==
    ASSUME NEW whose, ResolverInv(whose), NEW f \in Finders, InsertListing(f)
    PROVE  ResolverInv(whose)'
<1>1. finder[f].at = "newListing" /\ finder[f].at \in Writing  BY DEF InsertListing, Writing
<1>2. PICK s : WritesOf(whose, f, s)  BY <1>1, OneWrites DEF Writing
<1>3. SoundRows(whose, identity)  BY DEF ResolverInv, Kept
<1>4. PICK hit \in finder[f].hit : hit = CHOOSE i \in finder[f].hit : TRUE
  BY <1>1, <1>2 DEF WritesOf
<1>5. PICK new : new = [id |-> NewId(identity.listings), instrument |-> hit,
                        mic |-> s.mic, ticker |-> s.ticker, active |-> TRUE]
  OBVIOUS
<1>6. \/ DiscoveryFails(f)
      \/ WriteRows(f, [identity EXCEPT !.listings = @ \cup {new}], NextRow(f, new.id))
  <2>1. Row1(f) = s  BY <1>2 DEF WritesOf
  <2> QED BY <1>4, <1>5, <2>1, Zenon DEF InsertListing
<1>7. CASE DiscoveryFails(f)  BY <1>1, <1>7, DiscoveryFailsKeeps
<1>8. CASE WriteRows(f, [identity EXCEPT !.listings = @ \cup {new}], NextRow(f, new.id))
  <2>1. /\ identity' = [identity EXCEPT !.listings = @ \cup {new}]
        /\ finder' = NextRow(f, new.id) /\ UNCHANGED <<startup, answered>>
    BY <1>8 DEF WriteRows
  <2>2. /\ RowsShape(identity') /\ identity'.listings = identity.listings \cup {new}
        /\ identity'.issuers = identity.issuers /\ identity'.instruments = identity.instruments
        /\ identity'.refs = identity.refs
    BY <1>3, <2>1 DEF RowsShape, SoundRows
  <2>3. new.id = NewId(identity.listings) /\ Venue(new) = Venue(s)  BY <1>5 DEF Venue
  <2>4. new.id \in Nat \ {0}  BY <1>3, <2>3, NewIdIsNew DEF SoundRows
  <2>5. Keeps(identity, identity')  BY <2>2 DEF Keeps
  <2>6. Grows(identity, identity')  BY <2>2, <2>4, <2>5 DEF Grows, SeedsSame
  <2>7. TrueListing(identity', new)
    <3>1. VenueCompany[Venue(s)] = NameCompany[s.name] /\ Venue(s) \in DOMAIN VenueCompany
      BY <1>2 DEF WritesOf, SightingFor, TrueSighting
    <3>2. InstrumentIs(identity', hit, NameCompany[s.name])
      BY <1>2, <1>4, <2>5, KeepsInstrumentIs DEF WritesOf
    <3> QED BY <1>5, <2>3, <3>1, <3>2 DEF TrueListing
  <2>8. SoundRows(whose, identity')
    <3>1. Numbered(identity'.issuers) /\ Numbered(identity'.instruments)  BY <1>3, <2>2 DEF SoundRows
    <3>2. \A i \in identity'.issuers : TrueIssuer(whose, i)  BY <1>3, <2>2 DEF SoundRows
    <3>3. Numbered(identity'.listings)  BY <1>3, <2>2, <2>3, NumberedGrows DEF SoundRows
    <3> QED BY <1>3, <2>2, <2>5, <2>7, <3>1, <3>2, <3>3, SoundGrows DEF RowsShape
  <2>9. ListingIs(identity', new.id, VenueCompany[Venue(s)])  BY <2>2, <2>3 DEF ListingIs
  <2> QED BY <1>1, <1>2, <2>1, <2>4, <2>6, <2>8, <2>9, NextRowKeeps
<1> QED BY <1>6, <1>7, <1>8

(***************************************************************************)
(* The steps of the startup.                                               *)
(***************************************************************************)
LEMMA AllRest ==
    ASSUME NEW whose, ResolverInv(whose), \A f \in Finders : finder[f].at = "idle"
    PROVE  \A rows, phase : \A f \in Finders : FinderTrue(whose, finder[f], rows) /\ Fits(phase, finder[f])
<1> SUFFICES ASSUME NEW rows, NEW phase, NEW f \in Finders
             PROVE  FinderTrue(whose, finder[f], rows) /\ Fits(phase, finder[f])
  OBVIOUS
<1>1. FinderTrue(whose, finder[f], identity)  BY DEF ResolverInv
<1> QED BY <1>1 DEF FinderTrue, Fits, Searching, Writing

(* What the seeded identity's rows, and what hangs on them, leave.         *)
Survives(rows, ref) == ref \in LegacyRefs => \E id \in Nat \ {0} : ref \in Above(rows, <<"listing", id>>)

LEMMA LegacyGoes ==
    ASSUME NEW whose, NEW rows, SoundRows(whose, rows)
    PROVE  /\ SoundRows(whose, WithoutLegacy(rows)) /\ ~LegacyLeft(WithoutLegacy(rows))
           /\ WithoutLegacy(rows).refs = rows.refs
           /\ \A ref, c : RefIs(rows, ref, c) /\ Survives(rows, ref) => RefIs(WithoutLegacy(rows), ref, c)
<1> DEFINE listings == {l \in rows.listings : l.id # 0}
           instruments == {i \in rows.instruments : i.id # 0 \/ \E l \in listings : l.instrument = 0}
           issuers == {i \in rows.issuers : i.id # 0 \/ \E j \in instruments : j.issuer = 0}
<1>1. PICK new : new = WithoutLegacy(rows)  OBVIOUS
<1>2. new = [issuers |-> issuers, instruments |-> instruments, listings |-> listings, refs |-> rows.refs]
  BY <1>1 DEF WithoutLegacy, SoundRows
<1>3. RowsShape(new) /\ new.issuers = issuers /\ new.instruments = instruments /\ new.listings = listings
        /\ new.refs = rows.refs
  BY <1>2 DEF RowsShape
<1>4. ASSUME NEW T, Numbered(T), NEW U, U \subseteq T, \A x \in T : x.id # 0 => x \in U
      PROVE  Numbered(U)
  <2>1. PICK n \in Nat : /\ n = 0 \/ \E x \in T : x.id = n
                         /\ \A x \in T : x.id \in 0..n
    BY <1>4 DEF Numbered
  <2>2. n = 0 \/ \E x \in U : x.id = n  BY <1>4, <2>1
  <2> QED BY <1>4, <2>1, <2>2 DEF Numbered
<1>5. Numbered(new.issuers) /\ Numbered(new.instruments) /\ Numbered(new.listings)
  <2>1. Numbered(rows.issuers) /\ Numbered(rows.instruments) /\ Numbered(rows.listings)  BY DEF SoundRows
  <2>2. Numbered(issuers)  BY <1>4, <2>1
  <2>3. Numbered(instruments)  BY <1>4, <2>1
  <2>4. Numbered(listings)  BY <1>4, <2>1
  <2> QED BY <1>3, <2>2, <2>3, <2>4
<1>6. \A j \in instruments : \A c : IssuerIs(rows, j.issuer, c) => IssuerIs(new, j.issuer, c)
  BY <1>3 DEF IssuerIs
<1>7. \A l \in listings : \A c : InstrumentIs(rows, l.instrument, c) => InstrumentIs(new, l.instrument, c)
  <2> SUFFICES ASSUME NEW l \in listings, NEW c, InstrumentIs(rows, l.instrument, c)
               PROVE  InstrumentIs(new, l.instrument, c)
    OBVIOUS
  <2>1. PICK j \in rows.instruments : j.id = l.instrument /\ IssuerIs(rows, j.issuer, c)  BY DEF InstrumentIs
  <2>2. j \in instruments  BY <2>1
  <2>3. IssuerIs(new, j.issuer, c)  BY <1>6, <2>1, <2>2
  <2> HIDE DEF instruments
  <2> QED BY <1>3, <2>1, <2>2, <2>3 DEF InstrumentIs
<1>8. SoundRows(whose, new)
  <2>1. \A i \in issuers : TrueIssuer(whose, i)  BY DEF SoundRows
  <2>2. \A j \in instruments : TrueInstrument(whose, new, j)
    <3>1. \A j \in instruments : TrueInstrument(whose, rows, j)  BY DEF SoundRows
    <3> HIDE DEF instruments
    <3> QED BY <1>6, <3>1 DEF TrueInstrument
  <2>3. \A l \in listings : TrueListing(new, l)
    <3>1. \A l \in listings : TrueListing(rows, l)  BY DEF SoundRows
    <3> HIDE DEF listings
    <3> QED BY <1>7, <3>1 DEF TrueListing
  <2> HIDE DEF issuers, instruments, listings
  <2> QED BY <1>3, <1>5, <2>1, <2>2, <2>3 DEF SoundRows, RowsShape
<1>9. ~LegacyLeft(new)  BY <1>3 DEF LegacyLeft
<1>10. ASSUME NEW ref, NEW c, RefIs(rows, ref, c), Survives(rows, ref)
       PROVE  RefIs(new, ref, c)
  <2>1. ref = <<ref[1], ref[2]>>  BY <1>10 DEF RefIs
  <2>2. CASE ref[1] = "listing"
    <3>1. PICK l \in rows.listings : l.id = ref[2] /\ VenueCompany[Venue(l)] = c
      BY <1>10, <2>2 DEF RefIs, ListingIs
    <3>2. CASE ref[2] # 0
      <4>1. l \in listings  BY <3>1, <3>2
      <4>2. ListingIs(new, ref[2], c)  BY <1>3, <3>1, <4>1 DEF ListingIs
      <4> QED BY <2>1, <2>2, <4>2 DEF RefIs
    <3>3. CASE ref[2] = 0
      <4>1. PICK id \in Nat \ {0} : ref \in Above(rows, <<"listing", id>>)
        BY <1>10, <2>1, <2>2, <3>3 DEF Survives, LegacyRefs
      <4>2. PICK k \in rows.listings : k.id = id /\ ref = <<"listing", k.id>>
        BY <2>1, <2>2, <4>1 DEF Above, ById
      <4> QED BY <3>3, <4>1, <4>2
    <3> QED BY <3>2, <3>3
  <2>3. CASE ref[1] = "instrument"
    <3>1. PICK j \in rows.instruments : j.id = ref[2] /\ IssuerIs(rows, j.issuer, c)
      BY <1>10, <2>3 DEF RefIs, InstrumentIs
    <3>2. j \in instruments
      <4>1. CASE ref[2] # 0  BY <3>1, <4>1
      <4>2. CASE ref[2] = 0
        <5>1. PICK id \in Nat \ {0} : ref \in Above(rows, <<"listing", id>>)
          BY <1>10, <2>1, <2>3, <4>2 DEF Survives, LegacyRefs
        <5>2. PICK l \in rows.listings : l.id = id /\ l.instrument = ref[2]
          BY <2>3, <5>1 DEF Above, ById
        <5> QED BY <3>1, <4>2, <5>2
      <4> QED BY <4>1, <4>2
    <3>3. IssuerIs(new, j.issuer, c)  BY <1>6, <3>1, <3>2
    <3>4. InstrumentIs(new, ref[2], c)
      <4> HIDE DEF instruments
      <4> QED BY <1>3, <3>1, <3>2, <3>3 DEF InstrumentIs
    <3> QED BY <2>1, <2>3, <3>4 DEF RefIs
  <2>4. CASE ref[1] = "issuer"
    <3>1. PICK i \in rows.issuers : i.id = ref[2] /\ NameCompany[i.name] = c
      BY <1>10, <2>4 DEF RefIs, IssuerIs
    <3>2. i \in issuers
      <4>1. CASE ref[2] # 0  BY <3>1, <4>1
      <4>2. CASE ref[2] = 0
        <5>1. PICK id \in Nat \ {0} : ref \in Above(rows, <<"listing", id>>)
          BY <1>10, <2>1, <2>4, <4>2 DEF Survives, LegacyRefs
        <5>2. PICK j \in rows.instruments, l \in rows.listings :
                  l.id = id /\ l.instrument = j.id /\ j.issuer = ref[2]
          BY <2>4, <5>1 DEF Above, ById
        <5>3. l \in listings  BY <5>1, <5>2
        <5>4. j \in instruments  BY <5>2, <5>3
        <5> QED BY <3>1, <4>2, <5>2, <5>4
      <4> QED BY <4>1, <4>2
    <3>3. IssuerIs(new, ref[2], c)
      <4> HIDE DEF issuers
      <4> QED BY <1>3, <3>1, <3>2 DEF IssuerIs
    <3> QED BY <2>1, <2>4, <3>3 DEF RefIs
  <2> QED BY <1>10, <2>2, <2>3, <2>4 DEF RefIs
<1> QED BY <1>1, <1>3, <1>8, <1>9, <1>10

LEMMA HydrateTickerKeeps ==
    ASSUME NEW whose, Agreed(whose), ResolverInv(whose), NEW f \in Finders, HydrateTicker(f)
    PROVE  ResolverInv(whose)'
<1>1. /\ startup.phase = "hydrate" /\ \A g \in Finders : finder[g].at = "idle"
      /\ UNCHANGED <<identity, answered>>
  BY DEF HydrateTicker
<1>2. StartupTrue(whose)  BY DEF ResolverInv
<1>3. startup.saved = {} /\ ~LegacyLeft(identity) /\ answered = {}  BY <1>1, <1>2 DEF StartupTrue
<1>4. Kept(whose, identity)' /\ ~LegacyLeft(identity)' /\ answered' = {}
  BY <1>1, <1>3 DEF ResolverInv, Kept, LegacyLeft
<1>5. CASE startup' = [startup EXCEPT !.phase = "serving"] /\ UNCHANGED finder
  <2>1. startup' = [phase |-> "serving", times |-> startup.times, asked |-> startup.asked,
                    tickers |-> startup.tickers, saved |-> {}]
    BY <1>2, <1>3, <1>5 DEF StartupTrue
  <2>2. \A g \in Finders : FinderTrue(whose, finder'[g], identity') /\ Fits("serving", finder'[g])
    BY <1>1, <1>5, AllRest
  <2>3. StartupTrue(whose)'  BY <1>4, <2>1, <2>2 DEF StartupTrue
  <2>4. finder' = [g \in Finders |-> finder'[g]]  BY <1>5, ShapeOf DEF ResolverInv
  <2> QED BY <1>4, <2>2, <2>3, <2>4 DEF ResolverInv
<1>6. ASSUME NEW t \in startup.tickers, NEW rows \in {FromPolygon(t), {}},
             startup' = [startup EXCEPT !.tickers = @ \ {t}],
             finder' = IF rows = {} THEN finder ELSE [finder EXCEPT ![f] =
                          [Resting EXCEPT !.op = "hydrate", !.at = "match", !.todo = rows]]
      PROVE  ResolverInv(whose)'
  <2>1. startup' = [phase |-> "hydrate", times |-> startup.times, asked |-> startup.asked,
                    tickers |-> startup.tickers \ {t}, saved |-> {}]
    BY <1>1, <1>2, <1>3, <1>6 DEF StartupTrue
  <2>2. /\ finder' = [g \in Finders |-> finder'[g]]
        /\ \A g \in Finders : FinderTrue(whose, finder'[g], identity') /\ Fits("hydrate", finder'[g])
    <3>1. CASE rows = {}
      <4>1. finder' = finder  BY <1>6, <3>1
      <4> QED BY <1>1, <4>1, AllRest DEF ResolverInv
    <3>2. CASE rows # {}
      <4>1. /\ finder'[f] = [at |-> "match", op |-> "hydrate", query |-> {}, todo |-> rows, row |-> {},
                             hit |-> {}, issuer |-> {}, seen |-> {}, refs |-> {}]
            /\ Moves(f)
        BY <1>6, <3>2, ShapeOf DEF Moves, Resting
      <4>2. \A s \in rows : TrueSighting(whose, s)
        <5>1. rows \in Provided(t)  BY <1>6 DEF Provided
        <5> QED BY <5>1, ProvidedIsTrue
      <4>3. WriteTrue(whose, finder'[f], identity')  BY <4>1, <4>2 DEF WriteTrue, SightingFor
      <4>4. FinderTrue(whose, finder'[f], identity') /\ Fits("hydrate", finder'[f])
        BY <4>1, <4>3 DEF FinderTrue, Fits, Searching, Writing
      <4>5. \A g \in Finders : FinderTrue(whose, finder[g], identity') /\ Fits("hydrate", finder[g])
        BY <1>1, AllRest
      <4> QED BY <4>1, <4>4, <4>5 DEF Moves
    <3> QED BY <3>1, <3>2
  <2>3. StartupTrue(whose)'  BY <1>4, <2>1, <2>2 DEF StartupTrue
  <2> QED BY <1>4, <2>2, <2>3 DEF ResolverInv
<1>7. \/ startup' = [startup EXCEPT !.phase = "serving"] /\ UNCHANGED finder
      \/ \E t \in startup.tickers : \E rows \in {FromPolygon(t), {}} :
          /\ startup' = [startup EXCEPT !.tickers = @ \ {t}]
          /\ finder' = IF rows = {} THEN finder ELSE [finder EXCEPT ![f] =
                          [Resting EXCEPT !.op = "hydrate", !.at = "match", !.todo = rows]]
  BY Zenon DEF HydrateTicker
<1> QED BY <1>5, <1>6, <1>7

LEMMA HydrateEndsKeeps ==
    ASSUME NEW whose, ResolverInv(whose), NEW f \in Finders, HydrateEnds(f)
    PROVE  ResolverInv(whose)'
<1>1. finder[f].at = "done" /\ finder' = [finder EXCEPT ![f] = Resting] /\ UNCHANGED <<identity, startup, answered>>
  BY DEF HydrateEnds
<1>2. Moves(f) /\ finder'[f] = Resting  BY <1>1, ShapeOf DEF Moves
<1>3. FinderTrue(whose, finder'[f], identity) /\ Fits(startup.phase, finder'[f]) /\ finder'[f].at = "idle"
  BY <1>2, RestingIsTrue
<1> QED BY <1>1, <1>2, <1>3, OneReads

LEMMA RestartServicesKeeps ==
    ASSUME NEW whose, ResolverInv(whose), RestartServices
    PROVE  ResolverInv(whose)'
<1>1. StartupTrue(whose)  BY DEF ResolverInv
<1>2. /\ identity' = IF startup.saved = {} THEN identity ELSE CHOOSE s \in startup.saved : TRUE
      /\ startup' = [phase |-> "repair", times |-> startup.times + 1, asked |-> startup.asked,
                     tickers |-> PulseTickers, saved |-> {}]
      /\ finder' = [f \in Finders |-> Resting] /\ answered' = {}
  BY DEF RestartServices
<1>3. Kept(whose, identity)'
  <2>1. CASE startup.phase = "repairing"
    <3>1. PICK s : startup.saved = {s} /\ Kept(whose, s)  BY <1>1, <2>1 DEF StartupTrue
    <3>2. identity' = s  BY <1>2, <3>1
    <3>3. Kept(whose, identity')  BY <3>1, <3>2
    <3> QED BY <3>3 DEF Kept
  <2>2. CASE startup.phase # "repairing"
    <3>1. identity' = identity  BY <1>1, <1>2, <2>2 DEF StartupTrue
    <3> QED BY <3>1 DEF ResolverInv, Kept
  <2> QED BY <2>1, <2>2
<1>4. \A f \in Finders : FinderTrue(whose, finder'[f], identity') /\ Fits("repair", finder'[f])
  BY <1>2, RestingIsTrue
<1>5. StartupTrue(whose)'  BY <1>2, <1>4 DEF StartupTrue
<1> QED BY <1>2, <1>3, <1>4, <1>5 DEF ResolverInv

LEMMA LegacyGoesKept ==
    ASSUME NEW whose, NEW rows, SoundRows(whose, rows), RefsStand(rows), \A r \in rows.refs : Survives(rows, r.ref),
           \E seed \in Seeded0 : Holdings(rows) = Holdings(seed)
    PROVE  Kept(whose, WithoutLegacy(rows)) /\ ~LegacyLeft(WithoutLegacy(rows))
<1>1. PICK new : new = WithoutLegacy(rows)  OBVIOUS
<1>2. /\ SoundRows(whose, new) /\ ~LegacyLeft(new) /\ new.refs = rows.refs
      /\ \A ref, c : RefIs(rows, ref, c) /\ Survives(rows, ref) => RefIs(new, ref, c)
  BY <1>1, LegacyGoes
<1>3. \A r \in rows.refs : CompanyOf(new, r.ref) = CompanyOf(rows, r.ref)
  <2> SUFFICES ASSUME NEW r \in rows.refs PROVE CompanyOf(new, r.ref) = CompanyOf(rows, r.ref)  OBVIOUS
  <2>1. PICK c \in Companies : RefIs(rows, r.ref, c)  BY DEF RefsStand
  <2>2. RefIs(new, r.ref, c)  BY <1>2, <2>1
  <2>3. CompanyOf(rows, r.ref) = {c}  BY <2>1, CompanyOfRef
  <2>4. CompanyOf(new, r.ref) = {c}  BY <1>2, <2>2, CompanyOfRef
  <2> QED BY <2>3, <2>4
<1>4. Holdings(new) = Holdings(rows)  BY <1>2, <1>3 DEF Holdings
<1>5. RefsStand(new)  BY <1>2 DEF RefsStand
<1>6. LegacyWhole(new)  BY <1>2 DEF LegacyWhole, LegacyLeft
<1> QED BY <1>1, <1>2, <1>4, <1>5, <1>6 DEF Kept

LEMMA SeedsRetire ==
    ASSUME NEW whose, NEW rows, Kept(whose, rows), NEW new,
           new = [rows EXCEPT !.listings = {IF l.id = 0 THEN [l EXCEPT !.active = FALSE] ELSE l : l \in @}]
    PROVE  Kept(whose, new) /\ LegacyRetired(new) /\ (LegacyLeft(rows) => LegacyLeft(new))
<1> DEFINE Retire(l) == IF l.id = 0 THEN [l EXCEPT !.active = FALSE] ELSE l
<1>1. SoundRows(whose, rows) /\ LegacyWhole(rows) /\ RefsStand(rows)  BY DEF Kept
<1>2. /\ RowsShape(new) /\ new.listings = {Retire(l) : l \in rows.listings}
      /\ new.issuers = rows.issuers /\ new.instruments = rows.instruments /\ new.refs = rows.refs
  <2> HIDE DEF Retire
  <2>1. new = [rows EXCEPT !.listings = {Retire(l) : l \in @}]  BY DEF Retire
  <2>2. RowsShape(rows)  BY <1>1 DEF SoundRows, RowsShape
  <2> QED BY <2>1, <2>2 DEF RowsShape
<1>3. \A l \in rows.listings :
         /\ Retire(l).id = l.id /\ Venue(Retire(l)) = Venue(l) /\ Retire(l).instrument = l.instrument
         /\ Retire(l).mic = l.mic /\ Retire(l).ticker = l.ticker
         /\ (l.id = 0 => ~Retire(l).active)
         /\ Retire(l) = [id |-> Retire(l).id, instrument |-> Retire(l).instrument, mic |-> Retire(l).mic,
                         ticker |-> Retire(l).ticker, active |-> Retire(l).active]
  <2> SUFFICES ASSUME NEW l \in rows.listings
               PROVE  /\ Retire(l).id = l.id /\ Venue(Retire(l)) = Venue(l) /\ Retire(l).instrument = l.instrument
                      /\ Retire(l).mic = l.mic /\ Retire(l).ticker = l.ticker
                      /\ (l.id = 0 => ~Retire(l).active)
                      /\ Retire(l) = [id |-> Retire(l).id, instrument |-> Retire(l).instrument, mic |-> Retire(l).mic,
                         ticker |-> Retire(l).ticker, active |-> Retire(l).active]
    OBVIOUS
  <2>1. TrueListing(rows, l)  BY <1>1 DEF SoundRows
  <2>2. CASE l.id # 0  BY <2>1, <2>2 DEF TrueListing
  <2>3. CASE l.id = 0
    <3>1. Retire(l) = [id |-> l.id, instrument |-> l.instrument, mic |-> l.mic, ticker |-> l.ticker, active |-> FALSE]
      BY <2>1, <2>3 DEF TrueListing
    <3> HIDE DEF Retire
    <3> QED BY <3>1 DEF Venue
  <2> QED BY <2>2, <2>3
<1> HIDE DEF Retire
<1>4. Keeps(rows, new)  BY <1>2, <1>3 DEF Keeps
<1>5. SoundRows(whose, new)
  <2>1. Numbered(new.issuers) /\ Numbered(new.instruments)  BY <1>1, <1>2 DEF SoundRows
  <2>2. \A i \in new.issuers : TrueIssuer(whose, i)  BY <1>1, <1>2 DEF SoundRows
  <2>3. Numbered(new.listings)
    <3>1. Numbered(rows.listings)  BY <1>1 DEF SoundRows
    <3>2. \A x, y \in new.listings : x.id = y.id => x = y  BY <1>2, <1>3, <3>1 DEF Numbered
    <3> QED BY <1>2, <1>3, <3>1, <3>2, NumberedStays
  <2>4. \A l \in rows.listings : TrueListing(new, Retire(l))
    <3>1. \A l \in rows.listings : Venue(l) \in DOMAIN VenueCompany /\ InstrumentIs(rows, l.instrument, VenueCompany[Venue(l)])
      BY <1>1 DEF SoundRows, TrueListing
    <3> QED BY <1>3, <1>4, <3>1, KeepsInstrumentIs DEF TrueListing
  <2>5. \A l \in new.listings : TrueListing(new, l)  BY <1>2, <2>4
  <2> QED BY <1>1, <1>2, <1>4, <2>1, <2>2, <2>3, <2>5, SoundGrows DEF RowsShape
<1>6. Holdings(new) = Holdings(rows) /\ RefsStand(new)  BY <1>1, <1>4, <1>5, KeepsHoldings
<1>7. LegacyWhole(new)
  <2>1. (\E l \in new.listings : l.id = 0) => \E l \in rows.listings : l.id = 0  BY <1>2, <1>3
  <2>2. \A l \in new.listings : l.id = 0 =>
           \E k \in rows.listings : k.id = 0 /\ l.instrument = k.instrument /\ Venue(l) = Venue(k)
    BY <1>2, <1>3
  <2>3. \A l \in rows.listings : l.id = 0 => l.instrument = 0 /\ VenueCompany[Venue(l)] = LegacyCompany
    BY <1>1 DEF LegacyWhole
  <2>4. \A l \in new.listings : l.id = 0 => l.instrument = 0 /\ VenueCompany[Venue(l)] = LegacyCompany
    BY <2>2, <2>3
  <2> QED BY <1>1, <1>2, <2>1, <2>4 DEF LegacyWhole
<1>8. LegacyRetired(new)  BY <1>2, <1>3 DEF LegacyRetired
<1>9. LegacyLeft(rows) => LegacyLeft(new)  BY <1>2, <1>3 DEF LegacyLeft
<1>10. Kept(whose, new)  BY <1>5, <1>6, <1>7 DEF Kept
<1> QED BY <1>8, <1>9, <1>10

LEMMA StartRepairKeeps ==
    ASSUME NEW whose, Agreed(whose), ResolverInv(whose), NEW f \in Finders, StartRepair(f)
    PROVE  ResolverInv(whose)'
<1>1. /\ startup.phase = "repair" /\ \A g \in Finders : finder[g].at = "idle"
      /\ answered' = answered
  BY DEF StartRepair
<1>2. StartupTrue(whose) /\ Kept(whose, identity)  BY DEF ResolverInv
<1>3. startup.saved = {} /\ answered = {}  BY <1>1, <1>2 DEF StartupTrue
<1>4. \A rows, phase : \A g \in Finders : FinderTrue(whose, finder[g], rows) /\ Fits(phase, finder[g])
  BY <1>1, AllRest
<1>5. ASSUME NEW phase \in {"hydrate", "failed"}, startup' = [startup EXCEPT !.phase = phase], UNCHANGED finder,
             Kept(whose, identity'), phase = "hydrate" => ~LegacyLeft(identity')
      PROVE  ResolverInv(whose)'
  <2>1. startup' = [phase |-> phase, times |-> startup.times, asked |-> startup.asked,
                    tickers |-> startup.tickers, saved |-> {}]
    BY <1>2, <1>3, <1>5 DEF StartupTrue
  <2>2. \A g \in Finders : FinderTrue(whose, finder'[g], identity') /\ Fits(phase, finder'[g])
    BY <1>4, <1>5
  <2>3. StartupTrue(whose)'
    <3>1. phase = "hydrate" => ~LegacyLeft(identity)'  BY <1>5 DEF LegacyLeft
    <3> QED BY <1>1, <1>3, <2>1, <2>2, <3>1 DEF StartupTrue
  <2>4. Kept(whose, identity)'  BY <1>5 DEF Kept
  <2>5. finder' = [g \in Finders |-> finder'[g]]  BY <1>5, ShapeOf
  <2> QED BY <1>1, <1>3, <2>2, <2>3, <2>4, <2>5 DEF ResolverInv
<1>6. CASE ~LegacyExists /\ startup' = [startup EXCEPT !.phase = "hydrate"] /\ UNCHANGED <<identity, finder>>
  <2>1. Kept(whose, identity') /\ ~LegacyLeft(identity')  BY <1>2, <1>6 DEF LegacyExists, LegacyLeft
  <2> QED BY <1>5, <1>6, <2>1
<1>7. CASE startup' = [startup EXCEPT !.phase = "failed"] /\ UNCHANGED <<identity, finder>>
  <2>1. Kept(whose, identity')  BY <1>2, <1>7
  <2> QED BY <1>5, <1>7, <2>1
<1>8. CASE /\ ~Referenced /\ identity' = WithoutLegacy(identity)
           /\ startup' = [startup EXCEPT !.phase = "hydrate"] /\ UNCHANGED finder
  <2>1. \A r \in identity.refs : Survives(identity, r.ref)  BY <1>8 DEF Referenced, Survives
  <2>2. Kept(whose, WithoutLegacy(identity)) /\ ~LegacyLeft(WithoutLegacy(identity))
    BY <1>2, <2>1, LegacyGoesKept DEF Kept
  <2> QED BY <1>5, <1>8, <2>2
<1>9. ASSUME LegacyExists,
             NEW row, TrueSighting(whose, row), VenueCompany[Venue(row)] = LegacyCompany,
             startup' = [startup EXCEPT !.phase = "repairing", !.saved = {identity}],
             identity' = [identity EXCEPT !.listings =
                            {IF l.id = 0 THEN [l EXCEPT !.active = FALSE] ELSE l : l \in @}],
             finder' = [finder EXCEPT ![f] = [Resting EXCEPT !.op = "repair", !.at = "match", !.todo = {row}]]
      PROVE  ResolverInv(whose)'
  <2>1. Kept(whose, identity') /\ LegacyRetired(identity') /\ LegacyLeft(identity')
    BY <1>2, <1>9, SeedsRetire DEF LegacyExists, LegacyLeft
  <2>2. Kept(whose, identity)' /\ LegacyRetired(identity)' /\ LegacyLeft(identity)'
    BY <2>1 DEF Kept, LegacyRetired, LegacyLeft
  <2>3. startup' = [phase |-> "repairing", times |-> startup.times, asked |-> startup.asked,
                    tickers |-> startup.tickers, saved |-> {identity}]
    BY <1>2, <1>9 DEF StartupTrue
  <2>4. /\ finder'[f] = [at |-> "match", op |-> "repair", query |-> {}, todo |-> {row}, row |-> {},
                         hit |-> {}, issuer |-> {}, seen |-> {}, refs |-> {}]
        /\ Moves(f)
    BY <1>9, ShapeOf DEF Moves, Resting
  <2>5. WriteTrue(whose, finder'[f], identity')  BY <1>9, <2>4 DEF WriteTrue, SightingFor
  <2>6. FinderTrue(whose, finder'[f], identity') /\ Fits("repairing", finder'[f])
    BY <2>4, <2>5 DEF FinderTrue, Fits, Searching, Writing
  <2>7. \A g \in Finders : FinderTrue(whose, finder'[g], identity') /\ Fits("repairing", finder'[g])
    BY <1>4, <2>4, <2>6 DEF Moves
  <2>8. \A g, h \in Finders : finder'[g].at # "idle" /\ finder'[h].at # "idle" => g = h
    BY <1>1, <2>4 DEF Moves
  <2>9. StartupTrue(whose)'  BY <1>1, <1>2, <1>3, <2>2, <2>3, <2>7, <2>8 DEF StartupTrue
  <2> QED BY <1>1, <1>3, <2>2, <2>4, <2>7, <2>9 DEF ResolverInv, Moves
<1>10. ASSUME LegacyExists, NEW rows \in {FromPolygon(LegacyListing.ticker), {}},
              NEW row \in IF {r \in rows : r.mic = LegacyListing.mic} # {}
                          THEN {r \in rows : r.mic = LegacyListing.mic} ELSE rows
       PROVE  TrueSighting(whose, row) /\ VenueCompany[Venue(row)] = LegacyCompany
  <2>1. rows = FromPolygon(LegacyListing.ticker) /\ row \in rows  BY <1>10
  <2>2. rows \in Provided(LegacyListing.ticker)  BY <2>1 DEF Provided
  <2>3. TrueSighting(whose, row)  BY <2>1, <2>2, ProvidedIsTrue
  <2>4. VenueCompany[Venue(row)] = LegacyCompany
    <3>1. LegacyIsTold  BY DEF Agreed
    <3> QED BY <1>10, <2>1, <3>1 DEF LegacyIsTold
  <2> QED BY <2>3, <2>4
<1>11. \/ ~LegacyExists /\ startup' = [startup EXCEPT !.phase = "hydrate"] /\ UNCHANGED <<identity, finder>>
       \/ startup' = [startup EXCEPT !.phase = "failed"] /\ UNCHANGED <<identity, finder>>
       \/ /\ ~Referenced /\ identity' = WithoutLegacy(identity)
          /\ startup' = [startup EXCEPT !.phase = "hydrate"] /\ UNCHANGED finder
       \/ /\ LegacyExists
          /\ \E rows \in {FromPolygon(LegacyListing.ticker), {}} :
             \E row \in IF {r \in rows : r.mic = LegacyListing.mic} # {}
                        THEN {r \in rows : r.mic = LegacyListing.mic} ELSE rows :
               /\ startup' = [startup EXCEPT !.phase = "repairing", !.saved = {identity}]
               /\ identity' = [identity EXCEPT !.listings =
                            {IF l.id = 0 THEN [l EXCEPT !.active = FALSE] ELSE l : l \in @}]
               /\ finder' = [finder EXCEPT ![f] =
                            [Resting EXCEPT !.op = "repair", !.at = "match", !.todo = {row}]]
  BY Zenon DEF StartRepair
<1> QED BY <1>6, <1>7, <1>8, <1>9, <1>10, <1>11

(* Which rows there are decides what a ref names, not who refers to them.  *)
LEMMA RefsDoNotMatter ==
    ASSUME NEW rows, NEW refs, NEW new, RowsShape(rows), new = [rows EXCEPT !.refs = refs]
    PROVE  /\ RowsShape(new) /\ new.issuers = rows.issuers /\ new.instruments = rows.instruments
           /\ new.listings = rows.listings /\ new.refs = refs
           /\ \A ref, c : RefIs(rows, ref, c) => RefIs(new, ref, c)
           /\ \A ref : Above(new, ref) = Above(rows, ref)
           /\ \A whose : SoundRows(whose, rows) => SoundRows(whose, new)
<1>1. /\ RowsShape(new) /\ new.issuers = rows.issuers /\ new.instruments = rows.instruments
      /\ new.listings = rows.listings /\ new.refs = refs
  BY DEF RowsShape
<1>2. \A ref, c : RefIs(rows, ref, c) => RefIs(new, ref, c)
  BY <1>1 DEF RefIs, IssuerIs, InstrumentIs, ListingIs
<1>3. \A ref : Above(new, ref) = Above(rows, ref)  BY <1>1 DEF Above
<1>4. ASSUME NEW whose, SoundRows(whose, rows) PROVE SoundRows(whose, new)
  <2>1. \A id, c : IssuerIs(rows, id, c) => IssuerIs(new, id, c)  BY <1>1 DEF IssuerIs
  <2>2. \A id, c : InstrumentIs(rows, id, c) => InstrumentIs(new, id, c)  BY <1>1, <2>1 DEF InstrumentIs
  <2>3. \A j \in rows.instruments : TrueInstrument(whose, new, j)  BY <1>4, <2>1 DEF SoundRows, TrueInstrument
  <2>4. \A l \in rows.listings : TrueListing(new, l)  BY <1>4, <2>2 DEF SoundRows, TrueListing
  <2> QED BY <1>1, <1>4, <2>3, <2>4 DEF SoundRows, RowsShape
<1> QED BY <1>1, <1>2, <1>3, <1>4

(* The seeded identity is of the company of its listing.                   *)
LEMMA LegacyRefIsOf ==
    ASSUME NEW whose, NEW rows, SoundRows(whose, rows), LegacyWhole(rows), LegacyLeft(rows),
           NEW ref \in LegacyRefs, NEW c, RefIs(rows, ref, c)
    PROVE  c = LegacyCompany
<1>1. PICK l \in rows.listings : l.id = 0 /\ l.instrument = 0 /\ VenueCompany[Venue(l)] = LegacyCompany
  BY DEF LegacyLeft, LegacyWhole
<1>2. InstrumentIs(rows, 0, LegacyCompany)  BY <1>1 DEF SoundRows, TrueListing
<1>3. IssuerIs(rows, 0, LegacyCompany)  BY <1>1, <1>2 DEF LegacyWhole, InstrumentIs
<1>4. Numbered(rows.issuers) /\ Numbered(rows.instruments) /\ Numbered(rows.listings)  BY DEF SoundRows
<1>5. CASE ref = <<"issuer", 0>>
  <2>1. IssuerIs(rows, 0, c)  BY <1>5 DEF RefIs
  <2> QED BY <1>3, <1>4, <2>1, OneIssuer
<1>6. CASE ref = <<"instrument", 0>>
  <2>1. InstrumentIs(rows, 0, c)  BY <1>6 DEF RefIs
  <2> QED BY <1>2, <1>4, <2>1, OneInstrument
<1>7. CASE ref = <<"listing", 0>>
  <2>1. ListingIs(rows, 0, c)  BY <1>7 DEF RefIs
  <2>2. PICK k \in rows.listings : k.id = 0 /\ VenueCompany[Venue(k)] = c  BY <2>1 DEF ListingIs
  <2>3. k = l  BY <1>1, <1>4, <2>2 DEF Numbered
  <2> QED BY <1>1, <2>2, <2>3
<1> QED BY <1>5, <1>6, <1>7 DEF LegacyRefs

(* A listing has an instrument and an issuer above it.                     *)
LEMMA ChainIsWhole ==
    ASSUME NEW whose, NEW rows, SoundRows(whose, rows), NEW id, NEW c, ListingIs(rows, id, c),
           NEW kind \in {"issuer", "instrument", "listing"}
    PROVE  \E r \in Above(rows, <<"listing", id>>) : r[1] = kind
<1>1. PICK l \in rows.listings : l.id = id  BY DEF ListingIs
<1>2. PICK j \in rows.instruments : j.id = l.instrument  BY DEF SoundRows, TrueListing, InstrumentIs
<1>3. PICK i \in rows.issuers : i.id = j.issuer  BY DEF SoundRows, TrueInstrument, IssuerIs
<1> DEFINE ref == <<"listing", id>>
           listings == IF ref[1] = "listing" THEN ById(rows.listings, {ref[2]}) ELSE {}
           instruments == ById(rows.instruments, IF ref[1] = "instrument" THEN {ref[2]}
                                                 ELSE {k.instrument : k \in listings})
           issuers == ById(rows.issuers, IF ref[1] = "issuer" THEN {ref[2]} ELSE {k.issuer : k \in instruments})
<1>4. l \in listings  BY <1>1 DEF ById
<1>5. j \in instruments  BY <1>2, <1>4 DEF ById
<1>6. i \in issuers  BY <1>3, <1>5 DEF ById
<1>7. Above(rows, <<"listing", id>>) =
        {<<"listing", k.id>> : k \in listings} \cup {<<"instrument", k.id>> : k \in instruments}
          \cup {<<"issuer", k.id>> : k \in issuers}
  BY DEF Above
<1> HIDE DEF listings, instruments, issuers
<1>8. /\ <<"listing", l.id>> \in Above(rows, <<"listing", id>>)
      /\ <<"instrument", j.id>> \in Above(rows, <<"listing", id>>)
      /\ <<"issuer", i.id>> \in Above(rows, <<"listing", id>>)
  BY <1>4, <1>5, <1>6, <1>7
<1>9. <<"listing", l.id>>[1] = "listing" /\ <<"instrument", j.id>>[1] = "instrument" /\ <<"issuer", i.id>>[1] = "issuer"
  OBVIOUS
<1> QED BY <1>8, <1>9

LEMMA RepairEndsKeeps ==
    ASSUME NEW whose, Agreed(whose), ResolverInv(whose), NEW f \in Finders, RepairEnds(f)
    PROVE  ResolverInv(whose)'
<1>1. finder[f].at = "done" /\ finder[f].op = "repair"  BY DEF RepairEnds
<1>2. StartupTrue(whose) /\ Kept(whose, identity) /\ FinderTrue(whose, finder[f], identity)  BY DEF ResolverInv
<1>3. startup.phase = "repairing"
  <2>1. Fits(startup.phase, finder[f])  BY <1>2 DEF StartupTrue
  <2> QED BY <1>1, <2>1 DEF Fits
<1>4. PICK id \in Nat \ {0} : finder[f].refs = {<<"listing", id>>} /\ ListingIs(identity, id, LegacyCompany)
  <2>1. DoneTrue(finder[f], identity)  BY <1>1, <1>2 DEF FinderTrue
  <2> QED BY <1>1, <2>1 DEF DoneTrue
<1> DEFINE chain == Above(identity, CHOOSE ref \in finder[f].refs : TRUE)
<1>5. chain = Above(identity, <<"listing", id>>)
  <2>1. (CHOOSE ref \in finder[f].refs : TRUE) = <<"listing", id>>  BY <1>4
  <2> QED BY <2>1
<1>6. SoundRows(whose, identity) /\ LegacyWhole(identity) /\ RefsStand(identity) /\ LegacyLeft(identity)
  BY <1>2, <1>3 DEF Kept, StartupTrue
<1> DEFINE New(ref) == CHOOSE r \in chain : r[1] = ref[1]
           Remap(r) == IF r.ref \in LegacyRefs /\ r.ref[1] \in RemappedKinds THEN [r EXCEPT !.ref = New(@)] ELSE r
<1>7. PICK rows : rows = [identity EXCEPT !.refs = {Remap(r) : r \in @}]  OBVIOUS
<1>8. \/ DiscoveryFails(f)
      \/ /\ identity' = WithoutLegacy(rows)
         /\ startup' = [startup EXCEPT !.phase = "hydrate", !.saved = {}]
         /\ finder' = [finder EXCEPT ![f] = Resting] /\ UNCHANGED answered
  <2>1. \/ DiscoveryFails(f)
        \/ /\ identity' = WithoutLegacy([identity EXCEPT !.refs = {Remap(r) : r \in @}])
           /\ startup' = [startup EXCEPT !.phase = "hydrate", !.saved = {}]
           /\ finder' = [finder EXCEPT ![f] = Resting] /\ UNCHANGED answered
    BY Zenon DEF RepairEnds
  <2> HIDE DEF Remap
  <2> QED BY <1>7, <2>1, Zenon
<1> HIDE DEF chain
<1>9. CASE DiscoveryFails(f)  BY <1>1, <1>9, DiscoveryFailsKeeps
<1>10. CASE /\ identity' = WithoutLegacy(rows)
            /\ startup' = [startup EXCEPT !.phase = "hydrate", !.saved = {}]
            /\ finder' = [finder EXCEPT ![f] = Resting] /\ UNCHANGED answered
  <2>1. RefIs(identity, <<"listing", id>>, LegacyCompany)  BY <1>4 DEF RefIs
  <2>2. AreOf(identity, chain, LegacyCompany)  BY <1>5, <1>6, <2>1, AboveIsOf
  <2>3. ASSUME NEW ref \in LegacyRefs
        PROVE  New(ref) \in chain /\ New(ref)[1] = ref[1] /\ RefIs(identity, New(ref), LegacyCompany)
    <3>1. ref[1] \in {"issuer", "instrument", "listing"}  BY <2>3 DEF LegacyRefs
    <3>2. \E r \in chain : r[1] = ref[1]  BY <1>4, <1>5, <1>6, <3>1, ChainIsWhole
    <3>3. New(ref) \in chain /\ New(ref)[1] = ref[1]  BY <3>2
    <3> HIDE DEF New
    <3> QED BY <2>2, <3>3 DEF AreOf
  <2>4. ASSUME NEW r \in identity.refs
        PROVE  /\ Remap(r) = [table |-> Remap(r).table, owner |-> Remap(r).owner, ref |-> Remap(r).ref]
               /\ Remap(r).table = r.table /\ Remap(r).owner = r.owner /\ Remap(r).ref[1] = r.ref[1]
               /\ \E c \in Companies : RefIs(identity, r.ref, c) /\ RefIs(identity, Remap(r).ref, c)
               /\ Remap(r).ref \in LegacyRefs => Remap(r).ref \in chain
    <3>1. PICK c \in Companies : RefIs(identity, r.ref, c)  BY <1>6, <2>4 DEF RefsStand
    <3>2. r = [table |-> r.table, owner |-> r.owner, ref |-> r.ref]  BY <1>6, <2>4 DEF RefsStand
    <3>3. CASE r.ref \in LegacyRefs
      <4>1. r.ref[1] \in RemappedKinds  BY <3>3 DEF LegacyRefs, RemappedKinds
      <4>2. PICK ref : ref = New(r.ref)  OBVIOUS
      <4>3. ref \in chain /\ ref[1] = r.ref[1] /\ RefIs(identity, ref, LegacyCompany)  BY <2>3, <3>3, <4>2
      <4>4. c = LegacyCompany  BY <1>6, <3>1, <3>3, LegacyRefIsOf
      <4>5. Remap(r) = [r EXCEPT !.ref = ref]  BY <3>3, <4>1, <4>2
      <4>6. Remap(r) = [table |-> r.table, owner |-> r.owner, ref |-> ref]  BY <3>2, <4>5
      <4> HIDE DEF Remap, New
      <4> QED BY <3>1, <4>3, <4>4, <4>6
    <3>4. CASE r.ref \notin LegacyRefs
      <4>1. Remap(r) = r  BY <3>4
      <4> HIDE DEF Remap, New
      <4> QED BY <3>1, <3>2, <3>4, <4>1
    <3> QED BY <3>3, <3>4
  <2> HIDE DEF Remap, New
  <2>5. PICK refs : refs = {Remap(r) : r \in identity.refs}  OBVIOUS
  <2>6. RowsShape(identity) /\ rows = [identity EXCEPT !.refs = refs]
    BY <1>6, <1>7, <2>5 DEF RowsShape, SoundRows
  <2>7. /\ rows.refs = refs /\ SoundRows(whose, rows) /\ \A ref, c : RefIs(identity, ref, c) => RefIs(rows, ref, c)
        /\ Above(rows, <<"listing", id>>) = chain
    BY <1>5, <1>6, <2>6, RefsDoNotMatter
  <2>8. RefsStand(rows)  BY <2>4, <2>5, <2>7 DEF RefsStand
  <2>9. \A r \in rows.refs : Survives(rows, r.ref)
    <3>1. \A r \in rows.refs : r.ref \in LegacyRefs => r.ref \in Above(rows, <<"listing", id>>)
      BY <2>4, <2>5, <2>7
    <3> QED BY <1>4, <3>1 DEF Survives
  <2>10. Holdings(rows) = Holdings(identity)
    <3>1. ASSUME NEW r \in identity.refs
          PROVE  CompanyOf(rows, Remap(r).ref) = CompanyOf(identity, r.ref)
      <4>1. PICK c \in Companies : RefIs(identity, r.ref, c) /\ RefIs(identity, Remap(r).ref, c)  BY <2>4
      <4>2. CompanyOf(identity, r.ref) = {c}  BY <1>6, <4>1, CompanyOfRef
      <4>3. RefIs(rows, Remap(r).ref, c)  BY <2>7, <4>1
      <4>4. CompanyOf(rows, Remap(r).ref) = {c}  BY <2>7, <4>3, CompanyOfRef
      <4> QED BY <4>2, <4>4
    <3>2. Holdings(identity) = {<<r.table, r.owner, r.ref[1], CompanyOf(identity, r.ref)>> : r \in identity.refs}
      BY DEF Holdings
    <3>3. Holdings(rows) = {<<r.table, r.owner, r.ref[1], CompanyOf(rows, r.ref)>> : r \in refs}
      BY <2>7 DEF Holdings
    <3>4. \A r \in identity.refs :
             <<Remap(r).table, Remap(r).owner, Remap(r).ref[1], CompanyOf(rows, Remap(r).ref)>>
               = <<r.table, r.owner, r.ref[1], CompanyOf(identity, r.ref)>>
      BY <2>4, <3>1
    <3> QED BY <2>5, <3>2, <3>3, <3>4
  <2>11. Kept(whose, identity') /\ ~LegacyLeft(identity')
    <3>1. \E seed \in Seeded0 : Holdings(rows) = Holdings(seed)  BY <1>2, <2>10 DEF Kept
    <3>2. Kept(whose, WithoutLegacy(rows)) /\ ~LegacyLeft(WithoutLegacy(rows))
      BY <2>7, <2>8, <2>9, <3>1, LegacyGoesKept
    <3> QED BY <1>10, <3>2
  <2>12. Kept(whose, identity)' /\ ~LegacyLeft(identity)'  BY <2>11 DEF Kept, LegacyLeft
  <2>13. startup' = [phase |-> "hydrate", times |-> startup.times, asked |-> startup.asked,
                    tickers |-> startup.tickers, saved |-> {}]
    BY <1>2, <1>10 DEF StartupTrue
  <2>14. answered' = {}  BY <1>2, <1>3, <1>10 DEF StartupTrue
  <2>15. Moves(f) /\ finder'[f] = Resting  BY <1>10, ShapeOf DEF Moves
  <2>16. \A g \in Finders : FinderTrue(whose, finder'[g], identity') /\ Fits("hydrate", finder'[g])
    <3> SUFFICES ASSUME NEW g \in Finders PROVE FinderTrue(whose, finder'[g], identity') /\ Fits("hydrate", finder'[g])
      OBVIOUS
    <3>1. CASE g = f  BY <2>15, <3>1, RestingIsTrue
    <3>2. CASE g # f
      <4>1. finder'[g] = finder[g] /\ finder[g].at = "idle"
        BY <1>1, <1>2, <1>3, <2>15, <3>2 DEF StartupTrue, Moves
      <4>2. FinderTrue(whose, finder[g], identity)  BY DEF ResolverInv
      <4> QED BY <4>1, <4>2 DEF FinderTrue, Fits, Searching, Writing
    <3> QED BY <3>1, <3>2
  <2>17. StartupTrue(whose)'  BY <2>12, <2>13, <2>14, <2>16 DEF StartupTrue
  <2> QED BY <2>12, <2>14, <2>15, <2>16, <2>17 DEF ResolverInv, Moves
<1> QED BY <1>8, <1>9, <1>10

LEMMA ResolverStarts ==
    ASSUME NEW whose, Agreed(whose), ResolverInit
    PROVE  ResolverInv(whose)
<1>1. /\ identity \in Seeded0 /\ finder = [f \in Finders |-> Resting] /\ answered = {}
      /\ startup = [phase |-> "repair", times |-> 1, asked |-> 0, tickers |-> PulseTickers, saved |-> {}]
  BY DEF ResolverInit
<1>2. Kept(whose, identity)  BY <1>1 DEF Agreed, SeedsAreSound, Kept
<1>3. \A f \in Finders : FinderTrue(whose, finder[f], identity) /\ Fits("repair", finder[f])
  BY <1>1, RestingIsTrue
<1>4. StartupTrue(whose)  BY <1>1, <1>3 DEF StartupTrue
<1> QED BY <1>1, <1>2, <1>3, <1>4 DEF ResolverInv

LEMMA ResolverSteps ==
    ASSUME NEW whose, Agreed(whose), ResolverInv(whose), [ResolverNext]_resolverVars
    PROVE  ResolverInv(whose)'
<1>1. CASE UNCHANGED resolverVars
  BY <1>1 DEF resolverVars, ResolverInv, Kept, LegacyLeft, LegacyRetired, StartupTrue
<1>2. CASE RestartServices  BY <1>2, RestartServicesKeeps
<1>3. ASSUME NEW f \in Finders,
             \/ AskSubject(f) \/ LookUpIdentifier(f) \/ LookUpTicker(f) \/ LookAgain(f) \/ LookUpName(f)
             \/ Select(f) \/ Hydrate(f) \/ LoadListings(f)
      PROVE  ResolverInv(whose)'
  BY <1>3, AskSubjectKeeps, LookUpIdentifierKeeps, LookUpTickerKeeps, LookAgainKeeps, LookUpNameKeeps,
     SelectKeeps, HydrateKeeps, LoadListingsKeeps
<1>4. ASSUME NEW f \in Finders,
             \/ MatchInstrument(f) \/ LookUpIssuer(f) \/ FillIssuer(f) \/ InsertIssuer(f)
             \/ LookUpInstrument(f) \/ FillInstrument(f) \/ InsertInstrument(f)
             \/ LookUpListing(f) \/ MoveListing(f) \/ InsertListing(f)
      PROVE  ResolverInv(whose)'
  BY <1>4, MatchInstrumentKeeps, LookUpIssuerKeeps, FillIssuerKeeps, InsertIssuerKeeps, LookUpInstrumentKeeps,
     FillInstrumentKeeps, InsertInstrumentKeeps, LookUpListingKeeps, MoveListingKeeps, InsertListingKeeps
<1>5. ASSUME NEW f \in Finders, StartRepair(f) \/ RepairEnds(f) \/ HydrateTicker(f) \/ HydrateEnds(f)
      PROVE  ResolverInv(whose)'
  BY <1>5, StartRepairKeeps, RepairEndsKeeps, HydrateTickerKeeps, HydrateEndsKeeps
<1> QED BY <1>1, <1>2, <1>3, <1>4, <1>5, Zenon DEF ResolverNext

LEMMA InvKeepsReferences ==
    ASSUME NEW whose, ResolverInv(whose)
    PROVE  ReferencesKept
<1>1. Kept(whose, Committed)
  <2>1. StartupTrue(whose) /\ Kept(whose, identity)  BY DEF ResolverInv
  <2>2. CASE startup.phase = "repairing"
    <3>1. PICK s : startup.saved = {s} /\ Kept(whose, s)  BY <2>1, <2>2 DEF StartupTrue
    <3>2. Committed = s  BY <3>1 DEF Committed
    <3> QED BY <3>1, <3>2
  <2>3. CASE startup.phase # "repairing"
    <3>1. Committed = identity  BY <2>1, <2>3 DEF StartupTrue, Committed
    <3> QED BY <2>1, <3>1
  <2> QED BY <2>2, <2>3
<1>2. \A r \in Committed.refs : r.ref \in Above(Committed, r.ref)
  <2> SUFFICES ASSUME NEW r \in Committed.refs PROVE r.ref \in Above(Committed, r.ref)  OBVIOUS
  <2>1. PICK c \in Companies : RefIs(Committed, r.ref, c)  BY <1>1 DEF Kept, RefsStand
  <2> QED BY <1>1, <2>1, AboveIsOf DEF Kept
<1> QED BY <1>1, <1>2 DEF Kept, ReferencesKept

LEMMA InvNamesOneCompany ==
    ASSUME NEW whose, ResolverInv(whose)
    PROVE  AnswersNameOneCompany
<1>1. SoundRows(whose, identity)  BY DEF ResolverInv, Kept
<1> SUFFICES ASSUME NEW x \in answered
             PROVE  LET companies == UNION {CompanyOf(identity, ref) : ref \in x.subjects \cup x.context}
                    IN /\ companies \subseteq x.query.meant
                       /\ x.context # {} => Cardinality(companies) = 1
  BY DEF AnswersNameOneCompany
<1> DEFINE companies == UNION {CompanyOf(identity, ref) : ref \in x.subjects \cup x.context}
<1>2. AnswerTrue(x, identity)  BY DEF ResolverInv
<1>3. CASE x.context = {} /\ Meant(identity, x.query, x.subjects)
  <2>1. ASSUME NEW d \in companies PROVE d \in x.query.meant
    <3>1. PICK ref \in x.subjects : d \in CompanyOf(identity, ref)  BY <1>3, <2>1
    <3>2. PICK c \in x.query.meant : RefIs(identity, ref, c)  BY <1>3, <3>1 DEF Meant
    <3>3. CompanyOf(identity, ref) = {c}  BY <1>1, <3>2, CompanyOfRef
    <3> QED BY <3>1, <3>2, <3>3
  <2> QED BY <1>3, <2>1
<1>4. CASE \E c \in x.query.meant : AreOf(identity, x.subjects \cup x.context, c)
  <2>1. PICK c \in x.query.meant : AreOf(identity, x.subjects \cup x.context, c)  BY <1>4
  <2>2. \A ref \in x.subjects \cup x.context : CompanyOf(identity, ref) = {c}
    BY <1>1, <2>1, CompanyOfRef DEF AreOf
  <2>3. companies \subseteq {c}  BY <2>2
  <2>4. x.context # {} => companies = {c}  BY <2>2
  <2>5. Cardinality({c}) = 1  BY FS_Singleton
  <2> QED BY <2>1, <2>3, <2>4, <2>5
<1> QED BY <1>2, <1>3, <1>4 DEF AnswerTrue

(* Both properties from the invariant, for one assignment of identifiers.  *)
LEMMA ResolverAlways ==
    ASSUME NEW CONSTANT whose, Agreed(whose)
    PROVE  ResolverSpec => [](ReferencesKept /\ AnswersNameOneCompany)
<1>1. ResolverInit => ResolverInv(whose)  BY ResolverStarts
<1>2. ResolverInv(whose) /\ [ResolverNext]_resolverVars => ResolverInv(whose)'  BY ResolverSteps
<1>3. ResolverInv(whose) => ReferencesKept /\ AnswersNameOneCompany
  BY InvKeepsReferences, InvNamesOneCompany
<1> QED BY <1>1, <1>2, <1>3, PTL DEF ResolverSpec

(* The repair of seeded identities (repair-provider-identities.ts), its    *)
(* failures and restarts lose no reference and put none on another company.*)
THEOREM ReferencesAreKept == SourcesAgree => (ResolverSpec => []ReferencesKept)
<1> SUFFICES ASSUME SourcesAgree PROVE ResolverSpec => []ReferencesKept  OBVIOUS
<1>1. PICK whose : Agreed(whose)  BY DEF SourcesAgree
<1>2. ResolverSpec => [](ReferencesKept /\ AnswersNameOneCompany)  BY <1>1, ResolverAlways
<1> QED BY <1>2, PTL

(* Whatever lookups, discoveries and the repair interleave, an answer names *)
(* what the text can mean and its context is of one company.                *)
THEOREM AnswersAreOfOneCompany == SourcesAgree => (ResolverSpec => []AnswersNameOneCompany)
<1> SUFFICES ASSUME SourcesAgree PROVE ResolverSpec => []AnswersNameOneCompany  OBVIOUS
<1>1. PICK whose : Agreed(whose)  BY DEF SourcesAgree
<1>2. ResolverSpec => [](ReferencesKept /\ AnswersNameOneCompany)  BY <1>1, ResolverAlways
<1> QED BY <1>2, PTL
===============================================================================
