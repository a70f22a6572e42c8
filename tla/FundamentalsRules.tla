-------------------------- MODULE FundamentalsRules ---------------------------
(* The outcomes of a find of the fundamentals service, and the statuses its requests     *)
(* answer with (availability.ts, http.ts).                                               *)
EXTENDS Integers, FiniteSets, Sequences, TLC, SequencesExt, FiniteSetsExt

AvailabilityReasons == {"missing_coverage", "rate_limited", "provider_error", "stale_data"}

NoOutcome == [kind |-> "none", reason |-> "none", retryable |-> FALSE, statement |-> {}]
Available(s) == [NoOutcome EXCEPT !.kind = "available", !.statement = {s}]
MissingCoverage == [NoOutcome EXCEPT !.kind = "unavailable", !.reason = "missing_coverage"]
UnavailableLine(reason, retryable) ==
  [NoOutcome EXCEPT !.kind = "unavailable", !.reason = reason, !.retryable = retryable]
Thrown == [NoOutcome EXCEPT !.kind = "thrown"]

StatusFor(reason) ==
  [missing_coverage |-> 404, rate_limited |-> 429, provider_error |-> 502, stale_data |-> 503][reason]
StatusOf(o) == CASE o.kind = "available" -> 200
                 [] o.kind = "thrown" -> 502
                 [] OTHER -> StatusFor(o.reason)

-------------------------------------------------------------------------------
(* Fiscal years and quarters of an issuer (fiscal-calendar.ts, issuer-fiscal-calendar.ts). *)
(* Days are numbered from Monday, 1 January of the year 1; a date is <<year, month, day>>. *)

CalendarYear == [kind |-> "calendar", month |-> 12, weekday |-> {}]
AppleCalendar == [kind |-> "last_weekday", month |-> 9, weekday |-> {6}]
MicrosoftCalendar == [kind |-> "fixed_month_end", month |-> 6, weekday |-> {}]
ToleranceDays == 7

\* the cik of an issuer is a set of at most one
CalendarOf(cik) == CASE cik = {"320193"} -> AppleCalendar
                     [] cik = {"789019"} -> MicrosoftCalendar
                     [] OTHER -> CalendarYear

IsLeap(y) == (y % 4 = 0 /\ y % 100 # 0) \/ y % 400 = 0
DaysBeforeYear(y) == 365 * (y - 1) + (y - 1) \div 4 - (y - 1) \div 100 + (y - 1) \div 400
DaysBeforeMonth(y, m) ==
  DaysBeforeYear(y) + <<0, 31, 59, 90, 120, 151, 181, 212, 243, 273, 304, 334, 365>>[m]
    + IF m > 2 /\ IsLeap(y) THEN 1 ELSE 0

\* parseIsoDate
DayOf(date) == DaysBeforeMonth(date[1], date[2]) + date[3]

LastDayOfMonth(y, m) == DaysBeforeMonth(y, m + 1)
LastWeekdayOfMonth(y, m, weekday) ==
  LET last == LastDayOfMonth(y, m) IN last - (((last % 7) - weekday + 7) % 7)

FiscalYearEnd(c, fy) ==
  IF c.kind = "last_weekday" THEN LastWeekdayOfMonth(fy, c.month, CHOOSE w \in c.weekday : TRUE)
  ELSE LastDayOfMonth(fy, c.month)
FiscalYearStart(c, fy) == FiscalYearEnd(c, fy - 1) + 1

CalendarQuarterEnd(c, fy, q) ==
  LET m == c.month - 3 * (4 - q) IN IF m > 0 THEN LastDayOfMonth(fy, m) ELSE LastDayOfMonth(fy - 1, m + 12)
WeekQuarterEnd(c, fy, q) == FiscalYearEnd(c, fy) - 7 * 13 * (4 - q)

FiscalQuarterEnd(c, fy, q) ==
  CASE q = 4 -> FiscalYearEnd(c, fy)
    [] q # 4 /\ c.kind = "last_weekday" -> WeekQuarterEnd(c, fy, q)
    [] OTHER -> CalendarQuarterEnd(c, fy, q)
FiscalQuarterStart(c, fy, q) == IF q = 1 THEN FiscalYearStart(c, fy) ELSE FiscalQuarterEnd(c, fy, q - 1) + 1

FiscalQuarterLabel(c, fy, q) ==
  [year |-> fy, period |-> <<"Q1", "Q2", "Q3", "Q4">>[q],
   start |-> FiscalQuarterStart(c, fy, q), end |-> FiscalQuarterEnd(c, fy, q)]

\* the quarter that ends nearest to a date, the earlier one of two; none beyond the tolerance
LabelForPeriodEnd(c, date) ==
  LET Distance(l) == IF l.end > DayOf(date) THEN l.end - DayOf(date) ELSE DayOf(date) - l.end
      near == {l \in {FiscalQuarterLabel(c, fy, q) : fy \in date[1] - 1 .. date[1] + 1, q \in 1..4} :
                 Distance(l) <= ToleranceDays}
  IN {l \in near : \A o \in near : Distance(l) < Distance(o) \/ (Distance(l) = Distance(o) /\ l.end <= o.end)}

-------------------------------------------------------------------------------
(* What services/fundamentals makes of an issuer's SEC companyfacts: the value of a     *)
(* concept for a fiscal period and the statement of a period (sec-edgar.ts,             *)
(* sec-facts-repository.ts), the contract of a statement (statement.ts), the metrics of *)
(* its lines (metric-mapper.ts) and the key stats of two of them (key-stats.ts). Days   *)
(* and accession numbers are numbers, and a value that may be missing is a set of at    *)
(* most one.                                                                            *)

\* concepts in the order of their priority, with their metrics
Concepts ==
  << <<"RevenueFromContractWithCustomerExcludingAssessedTax", "revenue">>, <<"SalesRevenueNet", "revenue">>,
     <<"Revenues", "revenue">>, <<"CostOfGoodsAndServicesSold", "cost_of_revenue">>,
     <<"CostOfRevenue", "cost_of_revenue">>, <<"GrossProfit", "gross_profit">>,
     <<"OperatingExpenses", "operating_expenses">>, <<"OperatingIncomeLoss", "operating_income">>,
     <<"NetIncomeLoss", "net_income">>, <<"ProfitLoss", "net_income">>,
     <<"EarningsPerShareBasic", "eps_basic">>, <<"EarningsPerShareDiluted", "eps_diluted">>,
     <<"WeightedAverageNumberOfSharesOutstandingBasic", "shares_outstanding_basic">>,
     <<"WeightedAverageNumberOfDilutedSharesOutstanding", "shares_outstanding_diluted">> >>
IncomeMetrics == {Concepts[i][2] : i \in DOMAIN Concepts}
FirstConcept(m) == Min({i \in DOMAIN Concepts : Concepts[i][2] = m})

LineUnits ==
  [USD |-> [unit |-> "currency", currency |-> {"USD"}], shares |-> [unit |-> "shares", currency |-> {}],
   pure |-> [unit |-> "pure", currency |-> {}]]
  @@ ("USD/shares" :> [unit |-> "currency_per_share", currency |-> {"USD"}])

Duration(from, to) == IF to < from THEN 0 ELSE to - from + 1
Discrete(v) == \E d \in v.start : Duration(d, v.end) \in 60..125
QuarterScore(v) == (IF v.framed THEN 2 ELSE 0) + (IF \E d \in v.start : Duration(d, v.end) >= 80 THEN 1 ELSE 0)
BetterQuarter(v, w) == QuarterScore(v) > QuarterScore(w) \/ (QuarterScore(v) = QuarterScore(w) /\ v.filed > w.filed)

\* fy, fp and form are the filing's, not those of the days that the value is about
ReportedLines(values, year, period, form, accession) ==
  SelectSeq(values, LAMBDA v : /\ v.fy = year /\ v.fp = period /\ v.form = form
                               /\ accession = {} \/ v.accn \in accession)
Annual(values, year, accession) ==
  LET found == ReportedLines(values, year, "FY", "10-K", accession) IN IF found = <<>> THEN {} ELSE {found[1]}
Quarterly(values, year, period, accession) ==
  LET found == SelectSeq(ReportedLines(values, year, period, "10-Q", accession), Discrete)
      Precedes(i, j) == BetterQuarter(found[i], found[j]) \/ (~BetterQuarter(found[j], found[i]) /\ i <= j)
  IN {found[i] : i \in {k \in DOMAIN found : \A j \in DOMAIN found : Precedes(k, j)}}

\* the fourth quarter is what the first three leave of the year, for amounts of money whose quarters are adjacent
FourthQuarter(values, unit, year, accession) ==
  UNION {{[a EXCEPT !.val = @ - q1.val - q2.val - q3.val, !.fp = "Q4", !.start = {q3.end + 1}] :
             a \in {x \in Annual(values, year, accession) :
                      /\ unit = "USD" /\ x.start # {} /\ q1.start = x.start
                      /\ q2.start = {q1.end + 1} /\ q3.start = {q2.end + 1}
                      /\ Duration(q3.end + 1, x.end) \in 60..125}} :
         q1 \in Quarterly(values, year, "Q1", {}), q2 \in Quarterly(values, year, "Q2", {}),
         q3 \in Quarterly(values, year, "Q3", {})}

ConceptValue(values, unit, year, period, accession) ==
  CASE period = "Q4" -> FourthQuarter(values, unit, year, accession)
    [] period = "FY" -> Annual(values, year, accession)
    [] OTHER -> Quarterly(values, year, period, accession)

\* a concept of a payload, by its place among Concepts, and one of its units
OfferedBy(p) ==
  UNION {{<<i, k>> : k \in DOMAIN p.facts[Concepts[i][1]]} :
         i \in {j \in DOMAIN Concepts : Concepts[j][1] \in DOMAIN p.facts}}
UnitOf(p, o) == p.facts[Concepts[o[1]][1]][o[2]].unit
ValueOf(p, o, year, period, accession) ==
  ConceptValue(p.facts[Concepts[o[1]][1]][o[2]].values, UnitOf(p, o), year, period, accession)

\* the filing that most values come from
AccessionOf(p, year, period) ==
  LET chosen(o) == {v.accn : v \in ValueOf(p, o, year, period, {})}
      named == UNION {chosen(o) : o \in OfferedBy(p)}
      votes(a) == Cardinality({o \in OfferedBy(p) : a \in chosen(o)})
  IN {a \in named : \A b \in named : votes(a) > votes(b) \/ (votes(a) = votes(b) /\ a <= b)}

\* one line a metric, from its first concept and unit that has a value
ExtractedLines(p, year, period, accession) ==
  LET hits(m) == {o \in OfferedBy(p) : /\ Concepts[o[1]][2] = m /\ UnitOf(p, o) \in DOMAIN LineUnits
                                       /\ ValueOf(p, o, year, period, accession) # {}}
      first(m) == CHOOSE o \in hits(m) : \A x \in hits(m) : o[1] < x[1] \/ (o[1] = x[1] /\ o[2] <= x[2])
      line(m) == LET v == CHOOSE w \in ValueOf(p, first(m), year, period, accession) : TRUE
                     u == LineUnits[UnitOf(p, first(m))]
                 IN [metric |-> m, value |-> {v.val}, unit |-> u.unit, currency |-> u.currency,
                     coverage |-> "full", start |-> v.start, end |-> v.end]
  IN {line(m) : m \in {x \in IncomeMetrics : hits(x) # {}}}

\* extractStatement, with the error it throws
ExtractError(p, lines) ==
  CASE ~p.gaap -> "taxonomy"
    [] \E l1, l2 \in lines : <<l1.start, l1.end>> # <<l2.start, l2.end>> -> "period"
    [] lines = {} -> "empty"
    [] \A l \in lines : l.currency = {} -> "money"
    [] OTHER -> "none"

Monetary(unit) == unit \in {"currency", "currency_per_share"}

\* assertStatementContract: an income statement needs its first day, and its money is of one currency
Contracted(s) ==
  /\ \E d \in s.start : d < s.end
  /\ \A l \in s.lines :
       /\ l.currency = IF Monetary(l.unit) THEN s.currency ELSE {}
       /\ l.value = {} => l.coverage # "full"

CompatibleUnits ==
  [currency |-> {"currency", "currency_per_share"}, percent |-> {"pure"}, count |-> {"count", "shares"},
   ratio |-> {"ratio", "pure"}]

\* mapStatement: classes holds the unit classes of the metrics that are registered
Mappable(s, classes) == \A l \in s.lines : l.metric \in DOMAIN classes /\ l.unit \in CompatibleUnits[classes[l.metric]]

\* --- key stats --------------------------------------------------------------------
LineOf(s, m) == {l \in s.lines : l.metric = m}
Amount(ls) == UNION {l.value : l \in ls}
LineWarnings(ls) ==
  {"null_statement_value" : l \in {x \in ls : x.value = {}}} \cup
  {"coverage_incomplete" : l \in {x \in ls : x.value # {} /\ x.coverage # "full"}}
CoverageRank == [full |-> 0, partial |-> 1, sparse |-> 2, unavailable |-> 3]
WorstCoverage(ls) ==
  IF ls = {} THEN "full" ELSE (CHOOSE l \in ls : \A x \in ls : CoverageRank[l.coverage] >= CoverageRank[x.coverage]).coverage
Blocking == {"currency_mismatch", "input_mismatch", "missing_statement_line", "missing_market_price", "stale_input"}

\* a quotient as a pair of numerator and denominator
StatFrom(top, bottom, difference, warnings, asOf) ==
  LET zero == {"zero_denominator" : x \in {y \in Amount(bottom) : y = 0 /\ Amount(top) # {}}}
      value == {<<IF difference THEN a - b ELSE a, b>> : a \in Amount(top), b \in Amount(bottom) \ {0}}
  IN [value |-> value, warnings |-> warnings \cup LineWarnings(top \cup bottom) \cup zero, asOf |-> asOf,
      coverage |-> IF value = {} THEN "unavailable" ELSE WorstCoverage(top \cup bottom)]

MarginStat(s, m) ==
  StatFrom(LineOf(s, m), LineOf(s, "revenue"), FALSE,
           {"missing_statement_line" : x \in {y \in {m, "revenue"} : LineOf(s, y) = {}}}, s.asOf)

\* prior is a set of at most one statement; a warning that blocks leaves the values unread
GrowthStat(s, prior) ==
  LET before == UNION {LineOf(p, "revenue") : p \in prior}
      warnings == {"missing_statement_line" : x \in {y \in {LineOf(s, "revenue"), before} : y = {}}} \cup
                  {"input_mismatch" : p \in {q \in prior : q.year # s.year - 1 \/ q.period # s.period}} \cup
                  {"currency_mismatch" : p \in {q \in prior : q.currency # s.currency}}
      asOf == Max({s.asOf} \cup {p.asOf : p \in prior})
  IN IF warnings \cap Blocking # {}
     THEN [value |-> {}, warnings |-> warnings, asOf |-> asOf, coverage |-> "unavailable"]
     ELSE StatFrom(LineOf(s, "revenue"), before, TRUE, warnings, asOf)

\* the services give no price
PeRatioStat(s) ==
  [value |-> {}, coverage |-> "unavailable", asOf |-> s.asOf,
   warnings |-> {"missing_market_price"} \cup {"missing_statement_line" : x \in {y \in {"eps_diluted"} : LineOf(s, y) = {}}}]

KeyStats(s, prior) ==
  [gross_margin |-> MarginStat(s, "gross_profit"), operating_margin |-> MarginStat(s, "operating_income"),
   net_margin |-> MarginStat(s, "net_income"), revenue_growth_yoy |-> GrowthStat(s, prior),
   pe_ratio |-> PeRatioStat(s)]
===============================================================================
