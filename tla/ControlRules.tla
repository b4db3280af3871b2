----------------------------- MODULE ControlRules -----------------------------
(* The twenty audit rules (rules/*.py) over a dataset, whose rows of a domain  *)
(* are a set of [row, v]. Amounts and progress are in hundredths and dates are *)
(* day numbers; ratios are compared by multiplying out. Progress values are    *)
(* taken to be multiples of a quarter, whose differences are exact in binary.  *)
(* A finding is its rule, its entity (the sequence of names that the rule      *)
(* joins), its severity and its evidence rows. runtime says whether the        *)
(* catalogue has a runtime section (0.2 and 0.3). A text is split at its       *)
(* slashes into segments and a segment at its bars into texts.                 *)
EXTENDS Integers, Sequences, FiniteSets, FiniteSetsExt, SequencesExt

CONSTANTS
    None, DaysPerMonth,
    Folded(_),       \* a text with its letters in one case
    Segments(_),     \* a text so folded and split, without the blanks around a segment
    _norm_text(_),   \* a text folded, other characters than letters and digits as one blank
    Length(_)        \* the number of its characters

NoText == <<"none", 0>>

Month(day) == day \div DaysPerMonth

\* a / b compared with x hundredths, where the code takes a ratio over 0 as 0.
RatioAbove(a, b, x) ==
    IF b = 0 THEN FALSE ELSE IF b > 0 THEN 100 * a > x * b ELSE 100 * a < x * b
RatioAtLeast(a, b, x) ==
    IF b = 0 THEN FALSE ELSE IF b > 0 THEN 100 * a >= x * b ELSE 100 * a <= x * b

Total(rows, field) == MapThenSumSet(LAMBDA r : r.v[field], rows)
OfWBS(rows, wbs) == {r \in rows : r.v.wbs_code = wbs}
Codes(rows) == {r.v.wbs_code : r \in rows} \ {None}

Cited(domain, rows) == {<<domain, r.row>> : r \in rows}

Finding(rule, entity, severity, evidence) ==
    [rule |-> rule, entity |-> entity, severity |-> severity, evidence |-> evidence]

Banded(critical, otherwise) == IF critical THEN "critical" ELSE otherwise

-----------------------------------------------------------------------------
(* Cost.                                                                      *)

Budget(data, wbs) == Total(OfWBS(data.rows.budget, wbs), "budget_amount")
Actual(data, wbs) == Total(OfWBS(data.rows.actual_cost, wbs), "actual_amount")
ProjectBudget(data) == Total(data.rows.budget, "budget_amount")
AllocatedBudget(data) ==
    Total({r \in data.rows.budget : r.v.wbs_code # None}, "budget_amount")

\* The statuses that the rules know: "open", and one for complete, completed,
\* cancelled and canceled.
open == <<"text", 900>>
complete == <<"text", 901>>

Open(rows) == {r \in rows : Folded(r.v.status) = open}

SignedOutstanding(data, wbs) ==
    MapThenSumSet(LAMBDA r : r.v.committed_amount - r.v.invoiced_amount,
                  Open(OfWBS(data.rows.commitments, wbs)))

Outstanding(data, wbs) ==
    MapThenSumSet(LAMBDA r : IF r.v.committed_amount > r.v.invoiced_amount
                             THEN r.v.committed_amount - r.v.invoiced_amount ELSE 0,
                  Open(OfWBS(data.rows.commitments, wbs)))

ActualExceedsBudget(data) ==
    {Finding("CST-001", <<wbs>>,
             Banded(RatioAtLeast(Actual(data, wbs), Budget(data, wbs), 110), "warning"),
             Cited("actual_cost", OfWBS(data.rows.actual_cost, wbs))) :
        wbs \in {w \in Codes(data.rows.budget) :
                    RatioAbove(Actual(data, w), Budget(data, w), 100)}}

Exposure(data, wbs) == Actual(data, wbs) + Outstanding(data, wbs)

ExposureExceedsBudget(data) ==
    {Finding("CST-002", <<wbs>>,
             Banded(RatioAtLeast(Exposure(data, wbs), Budget(data, wbs), 110), "warning"),
             Cited("commitments", Open(OfWBS(data.rows.commitments, wbs)))) :
        wbs \in {w \in Codes(data.rows.budget) :
                    RatioAbove(Exposure(data, w), Budget(data, w), 100)}}

InMonth(rows, m) == {r \in rows : Month(r.v.transaction_date) = m}

\* The last month against the mean of the up to three months before it that
\* have any cost.
CostSpike(data) ==
    LET Costs(wbs) == OfWBS(data.rows.actual_cost, wbs)
        Months(wbs) == {Month(r.v.transaction_date) : r \in Costs(wbs)}
        Spent(wbs, m) == Total(InMonth(Costs(wbs), m), "actual_amount")
        History(wbs) == {m \in Months(wbs) \ {Max(Months(wbs))} :
            Cardinality({l \in Months(wbs) \ {Max(Months(wbs))} : l > m}) < 3}
        Before(wbs) == MapThenSumSet(LAMBDA m : Spent(wbs, m), History(wbs))
        Spikes(wbs) ==
            LET current == Spent(wbs, Max(Months(wbs)))
            IN  /\ History(wbs) # {} /\ Before(wbs) > 0
                /\ 100 * current * Cardinality(History(wbs)) >= 130 * Before(wbs)
                /\ 100 * current >= ProjectBudget(data)
    IN  {Finding("CST-003", <<wbs>>, "warning",
                 Cited("actual_cost", InMonth(Costs(wbs), Max(Months(wbs))))) :
            wbs \in {w \in Codes(data.rows.actual_cost) : Spikes(w)}}

OfVendor(rows, vendor) == {r \in rows : r.v.vendor_id = vendor}

Share(data, wbs, vendor, x) ==
    RatioAtLeast(Total(OfVendor(OfWBS(data.rows.actual_cost, wbs), vendor), "actual_amount"),
                 Actual(data, wbs), x)

ConcentrationByVendor(data, runtime) ==
    LET Pairs == {<<r.v.wbs_code, r.v.vendor_id>> : r \in {s \in data.rows.actual_cost :
                      s.v.wbs_code # None /\ s.v.vendor_id # None}}
    IN  {Finding("CST-004", <<p[2]>>, "warning",
                 Cited("actual_cost", OfVendor(OfWBS(data.rows.actual_cost, p[1]), p[2]))) :
            p \in {q \in Pairs : Share(data, q[1], q[2], 40)}}

\* With a runtime section every pair of vendor and WBS is judged, without one
\* each vendor by its strongest WBS.
VendorConcentration(data, runtime) ==
    LET Pairs == {<<r.v.wbs_code, r.v.vendor_id>> : r \in {s \in data.rows.actual_cost :
                      s.v.wbs_code # None /\ s.v.vendor_id # None}}
        Large == {p \in Pairs : Share(data, p[1], p[2], 40)}
        Amount(p) == Total(OfVendor(OfWBS(data.rows.actual_cost, p[1]), p[2]), "actual_amount")
        Weight(p, q) == Amount(p) * Actual(data, q[1])
        Stronger(p, q) == IF Actual(data, p[1]) * Actual(data, q[1]) > 0
                          THEN Weight(p, q) > Weight(q, p) ELSE Weight(p, q) < Weight(q, p)
        First(p) == Min({r.row : r \in OfVendor(OfWBS(data.rows.actual_cost, p[1]), p[2])})
        Strongest == {p \in Large : \A q \in Large : q[2] = p[2] /\ q # p =>
                         Stronger(p, q) \/ (~Stronger(q, p) /\ First(p) < First(q))}
    IN  {Finding("CST-004", IF runtime THEN p ELSE <<p[2]>>,
                 Banded(Share(data, p[1], p[2], 60), "warning"),
                 Cited("actual_cost", OfVendor(OfWBS(data.rows.actual_cost, p[1]), p[2]))) :
            p \in IF runtime THEN Large ELSE Strongest}

HighValueTransaction(data, runtime) ==
    LET WBSShare(r, x) == RatioAtLeast(r.v.actual_amount, Budget(data, r.v.wbs_code), x)
        ProjectShare(r, x) == RatioAtLeast(r.v.actual_amount, AllocatedBudget(data), x)
        WithBudget(r) == r.v.wbs_code # None
        Triggered(r) == IF runtime THEN WithBudget(r) /\ WBSShare(r, 25) /\ ProjectShare(r, 3)
                        ELSE (WithBudget(r) /\ WBSShare(r, 5)) \/ ProjectShare(r, 2)
    IN  {Finding("CST-005", <<r.v.record_id>>,
                 Banded(WithBudget(r) /\ WBSShare(r, 25), "observation"),
                 Cited("actual_cost", {r})) : r \in {s \in data.rows.actual_cost : Triggered(s)}}

\* The last row of a WBS in the order of period and, within one, of the sheet.
Later(r, s) == r.v.period > s.v.period \/ (r.v.period = s.v.period /\ r.row > s.row)
Latest(data, wbs) ==
    CHOOSE r \in OfWBS(data.rows.progress, wbs) :
        \A s \in OfWBS(data.rows.progress, wbs) \ {r} : Later(r, s)

HighCostLowProgress(data) ==
    {Finding("CST-006", <<wbs>>, "critical",
             Cited("actual_cost", OfWBS(data.rows.actual_cost, wbs))
             \union Cited("progress", {Latest(data, wbs)})) :
        wbs \in {w \in Codes(data.rows.progress) :
            /\ Budget(data, w) > 0
            /\ RatioAtLeast(Actual(data, w), Budget(data, w), 80)
            /\ Latest(data, w).v.actual_progress <= 50}}

-----------------------------------------------------------------------------
(* Schedule.                                                                  *)

_completed(v) == Folded(v.status) = complete

_overdue(v, data_date) ==
    ~_completed(v) /\ v.actual_progress < 100 /\ v.baseline_finish < data_date

LateFinish(v) == v.actual_finish # None /\ v.actual_finish > v.baseline_finish

Activities(rule, data, Triggered(_), Severity(_)) ==
    {Finding(rule, <<r.v.record_id>>, Severity(r.v), Cited("schedule", {r})) :
        r \in {s \in data.rows.schedule : Triggered(s.v)}}

OverdueActivity(data) ==
    Activities("SCH-001", data,
        LAMBDA v : _overdue(v, data.data_date),
        LAMBDA v : Banded(v.critical \/ data.data_date - v.baseline_finish >= 14, "warning"))

BaselineFinishSlippage(data) ==
    Activities("SCH-002", data,
        LAMBDA v : v.actual_finish # None /\ v.actual_finish - v.baseline_finish >= 7,
        LAMBDA v : Banded(v.actual_finish - v.baseline_finish >= 14, "warning"))

CriticalActivityDelay(data) ==
    Activities("SCH-003", data,
        LAMBDA v : v.critical /\ (_overdue(v, data.data_date) \/ LateFinish(v)
                                  \/ v.total_float_days < 0),
        LAMBDA v : "critical")

Lag(v) == v.planned_progress - v.actual_progress

ActivityProgressLag(data) ==
    Activities("SCH-004", data,
        LAMBDA v : Lag(v) >= 10,
        LAMBDA v : Banded(v.critical /\ Lag(v) >= 20, "warning"))

NegativeFloat(data) ==
    Activities("SCH-005", data, LAMBDA v : v.total_float_days < 0, LAMBDA v : "critical")

-----------------------------------------------------------------------------
(* Progress and both.                                                         *)

WBSProgressLag(data) ==
    {Finding("PRG-001", <<wbs>>, Banded(Lag(Latest(data, wbs).v) >= 20, "warning"),
             Cited("progress", {Latest(data, wbs)})) :
        wbs \in {w \in Codes(data.rows.progress) : Lag(Latest(data, w).v) >= 10}}

ProgressAbove100(data) ==
    {Finding("PRG-002", <<IF r.v.wbs_code # None THEN r.v.wbs_code ELSE r.v.record_id>>,
             "critical", Cited("progress", {r})) :
        r \in {s \in data.rows.progress :
                  s.v.actual_progress > 100 \/ s.v.planned_progress > 100}}

\* The last two rows of a WBS, each with the cost of its month. A rise from
\* nothing counts as infinite.
CostRisingProgressFlat(data, runtime) ==
    LET Previous(wbs) ==
            LET earlier == OfWBS(data.rows.progress, wbs) \ {Latest(data, wbs)}
            IN  CHOOSE r \in earlier : \A s \in earlier \ {r} : Later(r, s)
        MonthCosts(wbs, r) == InMonth(OfWBS(data.rows.actual_cost, wbs), Month(r.v.period))
        Rises(was, now) == IF was > 0 THEN 100 * (now - was) >= 20 * was ELSE now > 0
        Flat(wbs) ==
            LET now == Latest(data, wbs)
                was == Previous(wbs)
                cost == Total(MonthCosts(wbs, now), "actual_amount")
            IN  /\ Rises(Total(MonthCosts(wbs, was), "actual_amount"), cost)
                /\ now.v.actual_progress - was.v.actual_progress <= 2
                /\ 100 * cost >= (IF runtime THEN 1 ELSE 0) * ProjectBudget(data)
    IN  {Finding("PRG-003", <<wbs>>, "critical",
                 Cited("actual_cost", MonthCosts(wbs, Latest(data, wbs)))
                 \union Cited("progress", {Latest(data, wbs), Previous(wbs)})) :
            wbs \in {w \in Codes(data.rows.progress) :
                        Cardinality(OfWBS(data.rows.progress, w)) >= 2 /\ Flat(w)}}

Delayed(data, wbs) ==
    {r \in OfWBS(data.rows.schedule, wbs) :
        _overdue(r.v, data.data_date) \/ (r.v.critical /\ r.v.total_float_days < 0)}

ScheduleDelayHighCostExposure(data) ==
    {Finding("XDOM-001", <<wbs>>, "critical", Cited("schedule", Delayed(data, wbs))) :
        wbs \in {w \in Codes(data.rows.schedule) :
            /\ Delayed(data, w) # {} /\ Budget(data, w) > 0
            /\ \/ RatioAtLeast(Exposure(data, w), Budget(data, w), 80)
               \/ RatioAbove(Actual(data, w), Budget(data, w), 90)}}

-----------------------------------------------------------------------------
(* Data quality.                                                              *)

RecordDomains == {"budget", "actual_cost", "commitments", "schedule", "progress"}

Records(rule, data, Triggered(_)) ==
    UNION {{Finding(rule, <<r.v.record_id>>, "critical", Cited(d, {r})) :
               r \in {s \in data.rows[d] : Triggered(s.v.wbs_code)}} : d \in RecordDomains}

MissingWBS(data) == Records("DQ-001", data, LAMBDA code : code = None)

OrphanOrMissing(data) ==
    LET known == {r.v.wbs_code : r \in data.rows.wbs}
    IN  Records("DQ-004", data, LAMBDA code : code \notin known)

OrphanWBS(data) ==
    LET known == {r.v.wbs_code : r \in data.rows.wbs}
    IN  Records("DQ-004", data, LAMBDA code : code # None /\ code \notin known)

Vendor(v) == IF v.vendor_id # None THEN v.vendor_id
             ELSE IF v.vendor_name # None THEN _norm_text(v.vendor_name) ELSE NoText

\* The entity is the list of the ids of the group in one of its orders, the same
\* for the same ids: the code sorts them. Purchase orders and descriptions are
\* taken to be alike.
DuplicateCost(data) ==
    LET Key(v) == <<v.transaction_date, v.wbs_code, Vendor(v), v.actual_amount>>
        Group(r) == {s \in data.rows.actual_cost : Key(s.v) = Key(r.v)}
        Ids(rows) == CHOOSE ids \in {[i \in DOMAIN q |-> q[i].v.record_id] : q \in SetToSeqs(rows)} : TRUE
    IN  {Finding("DQ-002", Ids(Group(r)), "warning", Cited("actual_cost", Group(r))) :
            r \in {s \in data.rows.actual_cost : Cardinality(Group(s)) >= 2}}

ContradictoryDateProgress(data) ==
    LET Invalid(p) == p < 0 \/ p > 100
    IN  Activities("DQ-003", data,
            LAMBDA v : \/ /\ v.actual_start # None /\ v.actual_finish # None
                          /\ v.actual_finish < v.actual_start
                       \/ Invalid(v.actual_progress) \/ Invalid(v.planned_progress),
            LAMBDA v : "critical")

\* The commonest name of a vendor, of equally common ones the first.
VendorIdentity(data) ==
    LET Named(vendor) == {r \in OfVendor(data.rows.actual_cost, vendor) : r.v.vendor_name # None}
        Uses(vendor, name) == {r \in Named(vendor) : _norm_text(r.v.vendor_name) = name}
        Names(vendor) == {_norm_text(r.v.vendor_name) : r \in Named(vendor)}
        Before(vendor, m, n) ==
            \/ Cardinality(Uses(vendor, m)) > Cardinality(Uses(vendor, n))
            \/ /\ Cardinality(Uses(vendor, m)) = Cardinality(Uses(vendor, n))
               /\ Min({r.row : r \in Uses(vendor, m)}) < Min({r.row : r \in Uses(vendor, n)})
        Canonical(vendor) == CHOOSE n \in Names(vendor) :
                                \A m \in Names(vendor) \ {n} : Before(vendor, n, m)
        Deviates(r) == /\ r.v.vendor_id # None /\ r.v.vendor_name # None
                       /\ _norm_text(r.v.vendor_name) # Canonical(r.v.vendor_id)
    IN  {Finding("DQ-005", <<r.v.record_id>>, "observation", Cited("actual_cost", {r})) :
            r \in {s \in data.rows.actual_cost : Deviates(s)}}

-----------------------------------------------------------------------------

Rules == {"DQ-001", "DQ-002", "DQ-003", "DQ-004", "DQ-005",
          "CST-001", "CST-002", "CST-003", "CST-004", "CST-005", "CST-006",
          "SCH-001", "SCH-002", "SCH-003", "SCH-004", "SCH-005",
          "PRG-001", "PRG-002", "PRG-003", "XDOM-001"}

evaluate(rule, data, runtime) ==
    CASE rule = "DQ-001"  -> MissingWBS(data)
      [] rule = "DQ-002"  -> DuplicateCost(data)
      [] rule = "DQ-003"  -> ContradictoryDateProgress(data)
      [] rule = "DQ-004"  -> OrphanWBS(data)
      [] rule = "DQ-005"  -> VendorIdentity(data)
      [] rule = "CST-001" -> ActualExceedsBudget(data)
      [] rule = "CST-002" -> ExposureExceedsBudget(data)
      [] rule = "CST-003" -> CostSpike(data)
      [] rule = "CST-004" -> VendorConcentration(data, runtime)
      [] rule = "CST-005" -> HighValueTransaction(data, runtime)
      [] rule = "CST-006" -> HighCostLowProgress(data)
      [] rule = "SCH-001" -> OverdueActivity(data)
      [] rule = "SCH-002" -> BaselineFinishSlippage(data)
      [] rule = "SCH-003" -> CriticalActivityDelay(data)
      [] rule = "SCH-004" -> ActivityProgressLag(data)
      [] rule = "SCH-005" -> NegativeFloat(data)
      [] rule = "PRG-001" -> WBSProgressLag(data)
      [] rule = "PRG-002" -> ProgressAbove100(data)
      [] rule = "PRG-003" -> CostRisingProgressFlat(data, runtime)
      [] rule = "XDOM-001" -> ScheduleDelayHighCostExposure(data)

-----------------------------------------------------------------------------
(* The identity of a finding.                                                 *)

\* Two texts joined by a bar: the last segment of the one and the first of the
\* other are one segment.
Barred(a, b) ==
    [k \in 1..(Len(a) + Len(b) - 1) |->
        IF k < Len(a) THEN a[k] ELSE IF k = Len(a) THEN a[k] \o b[1] ELSE b[k - Len(a) + 1]]

\* A rule joins the names of an entity with slashes, CST-004 those of a pair
\* with a bar.
Written(f) ==
    IF f.rule = "CST-004" /\ Len(f.entity) = 2
    THEN <<Barred(Segments(f.entity[1]), Segments(f.entity[2]))>>
    ELSE [i \in DOMAIN f.entity |-> Segments(f.entity[i])]

\* The segments without the empty ones. As the code sorts them, what counts is
\* how often each occurs.
normalize_entity(texts) ==
    LET Segment(p) == texts[p[1]][p[2]]
        kept == {p \in UNION {{<<i, k>> : k \in DOMAIN texts[i]} : i \in DOMAIN texts} :
                    Segment(p) # <<NoText>>}
    IN  [s \in {Segment(p) : p \in kept} |-> Cardinality({p \in kept : Segment(p) = s})]

\* What complete_run gives each finding as engine_finding_id.
stable_finding_id(f) == <<f.rule, normalize_entity(Written(f))>>

SegmentLength(s) == MapThenSumSet(LAMBDA i : Length(s[i]) + 1, DOMAIN s)

\* The length of the normalized entity, with a slash between two segments and a
\* bar between two texts.
EntityLength(f) ==
    LET entity == normalize_entity(Written(f))
    IN  MapThenSumSet(LAMBDA s : entity[s] * SegmentLength(s), DOMAIN entity) - 1
=============================================================================
