--------------------------- MODULE AnalysisPipeline ---------------------------
(* One upload from the workbook to the health score (ingestion/service.py,     *)
(* application.py, the validated import of api.py): the parts that the modules *)
(* it extends define are put together in the order of the services. Races,     *)
(* failures of the store and of COMMIT and the dedupe key are in the modules   *)
(* SnapshotIngestion and AnalysisRuns; here each request runs alone.           *)
EXTENDS GovernedFacts, ScheduleImport

CONSTANTS
    Workbooks,       \* the governed workbooks that may be uploaded
    Sheets,          \* the exported schedules that may be imported
    ProjectCode,     \* the cell that names the project
    Today,
    DaysPerMonth,
    Folded(_), Segments(_), _norm_text(_)   \* of texts, as in ControlRules

Cells == [t : STRING, n : Int]

\* A string is modelled by a sequence, a missing header by None.
IsString(h) == Len(h) \in Nat /\ h = [i \in 1..Len(h) |-> h[i]]

HasHeaders(sheet) ==
    /\ IsString(sheet.headers)
    /\ \A p \in DOMAIN sheet.headers : sheet.headers[p] # None => IsString(sheet.headers[p])

\* The rows of a sheet have a cell in each of its columns.
IsSheet(sheet) ==
    /\ HasHeaders(sheet)
    /\ sheet.rows \in Seq([1..Len(sheet.headers) -> Cells])

ASSUME WorkbooksAssumption ==
    \A b \in Workbooks, d \in Domains : b.sheets[d] # None => IsSheet(b.sheets[d])

\* An export has some rows, of any width.
ASSUME SheetsAssumption ==
    Sheets \subseteq [csv : BOOLEAN, rows : Seq(Seq(Cells)) \ {<<>>}]

\* Its WBS codes have one to three parts.
ASSUME CodesAssumption ==
    \A sheet \in Sheets : \A row \in Range(sheet.rows) : \A c \in Range(row) :
        c.t \in {"outline", "gapped"} => c.n \in 1..999

\* None is neither a number nor one of the codes that error may be.
ASSUME NoneAssumption ==
    /\ None \notin Nat
    /\ None \notin {"invalid_project_metadata", "internal_error", "analysis_failed",
                    "snapshot_service_unavailable", "validated_import_blocked"}

Audit == INSTANCE HealthScore

VARIABLES
    imported,        \* the schedule import: [sheet, preset], or None
    book,            \* the governed workbook, or None
    extracted, mapped,
    snapshot,        \* the rows of the snapshot, or None
    run,             \* [status, runtime, execution] of the analysis run, or None
    health,          \* the health snapshot, or None
    error            \* the error code the client was given, or None

vars == <<imported, book, extracted, mapped, snapshot, run, health, error>>

Nothing == /\ imported = None /\ book = None /\ extracted = None /\ mapped = None
           /\ snapshot = None /\ run = None /\ health = None /\ error = None

Init == Nothing

\* Why ingest gives up, before or within its transaction, or None. A row that
\* the database refuses is reported as a service that is unavailable; othersFit
\* says whether the texts that are left out (names, descriptions, disciplines,
\* cost codes, purchase orders) fit their columns.
Refusal(e, m, othersFit) ==
    IF _data_date(e.project_values) = None THEN "invalid_project_metadata"
    ELSE IF ~ParentsAreKept(m) THEN "internal_error"
    ELSE IF ~(DatabaseAccepts(m) /\ othersFit) THEN "snapshot_service_unavailable" ELSE None

\* (Quantifiers over one value, so that TLC evaluates it once.)
ingest(b) ==
    \E e \in {extract_workbook(b)} :
    \E m \in {Adopted(map_extracted_workbook(e), e.project_values, Text(ProjectCode))} :
    \E othersFit \in BOOLEAN :
        /\ book' = b
        /\ extracted' = e
        /\ mapped' = m
        /\ error' = Refusal(e, m, othersFit)
        /\ snapshot' = IF Refusal(e, m, othersFit) = None THEN _complete_mapped(e, m) ELSE None
        /\ UNCHANGED <<run, health>>

UploadWorkbook(b) ==
    /\ ingest(b)
    /\ UNCHANGED imported

\* create_validated_schedule_analysis_run up to its analysis.
ImportSchedule(sheet, preset) ==
    /\ imported' = [sheet |-> sheet, preset |-> preset]
    /\ \/ /\ ~validate_workbook_bytes(sheet, preset).can_import
          /\ error' = "validated_import_blocked"
          /\ UNCHANGED <<book, extracted, mapped, snapshot, run, health>>
       \/ /\ validate_workbook_bytes(sheet, preset).can_import
          /\ ingest(build_schedule_workbook(sheet, preset, ProjectCode, Today))

\* Two findings of a run may not have one id.
IdsAreUnique(findings) ==
    \A f, g \in findings : Audit!stable_finding_id(f) = Audit!stable_finding_id(g) => f = g

\* The characters that the column of an entity holds.
EntityWidth == 300

FindingsFit(findings) == \A f \in findings : Audit!EntityLength(f) <= EntityWidth

\* Findings, evidence and health are written in one transaction; without it
\* the run is recorded as failed.
run_snapshot(runtime) ==
    /\ snapshot # None
    /\ run = None
    /\ \E data \in {load(snapshot)} : \E execution \in {Audit!run_gated(data, runtime)} :
       \E written \in {IdsAreUnique(execution.findings) /\ FindingsFit(execution.findings)} :
        /\ run' = [status |-> IF written THEN "succeeded" ELSE "failed",
                   runtime |-> runtime, execution |-> execution]
        /\ health' = IF written THEN Audit!HealthSnapshot(execution) ELSE None
        /\ error' = IF written THEN None ELSE "analysis_failed"
        /\ UNCHANGED <<imported, book, extracted, mapped, snapshot>>

\* (Deployment goes on when the requests are over.)
Next ==
    \/ Nothing /\ \E b \in Workbooks : UploadWorkbook(b)
    \/ Nothing /\ \E s \in Sheets, preset \in {"msproject", "standard"} : ImportSchedule(s, preset)
    \/ \E runtime \in BOOLEAN : run_snapshot(runtime)

Spec == Init /\ [][Next]_vars

-----------------------------------------------------------------------------
(* Extraction and mapping.                                                    *)

\* Every column of a row keeps a key of its own, and the first column of each
\* header keeps the header, whatever suffixed names the sheet itself uses: the
\* extraction is not lossy (README.md, Governed Ingestion).
ColumnsAreKept ==
    book # None => \A d \in {e \in Domains : book.sheets[e] # None} :
        LET headers == book.sheets[d].headers
            Firsts == {p \in DOMAIN headers : headers[p] # None /\
                          \A q \in 1..(p - 1) : headers[q] # headers[p]}
        IN  \A r \in Range(extracted.rows_by_domain[d]) :
                /\ Cardinality(DOMAIN r.values) = Len(headers)
                /\ \A p \in Firsts :
                      r.values[headers[p]] = _json_safe(book.sheets[d].rows[r.row][p])

\* The codes of the WBS sheet, each with the parent its first good row gives.
StatedParents ==
    Parents(FirstOfEachCode([i \in DOMAIN extracted.rows_by_domain["wbs"] |->
                                _map_row("wbs", extracted.rows_by_domain["wbs"][i])]))

\* A set of codes that holds the parents of its members and no cycle.
Grounded(parents, codes) ==
    /\ \A c \in codes : parents[c] \in codes \union {None}
    /\ \A loop \in (SUBSET codes) \ {{}} : \E c \in loop : parents[c] \notin loop

\* The kept codes are the largest forest in the sheet, a rejected code is
\* called cyclic exactly when it is its own ancestor, and so persisting the
\* nodes never meets a parent that was not kept.
HierarchyIsForest ==
    mapped # None =>
        LET parents == StatedParents
            OnCycle(c) == \E loop \in SUBSET DOMAIN parents :
                             c \in loop /\ {parents[p] : p \in loop} = loop
            CalledCyclic == {extracted.rows_by_domain["wbs"][i].values[<<"wbs_code">>] :
                i \in {j \in DOMAIN mapped.rows_by_domain["wbs"] :
                    Error("cyclic_wbs_parent", "parent_wbs")
                        \in mapped.rows_by_domain["wbs"][j].issues}}
        IN  /\ KeptCodes(mapped) =
                  UNION {s \in SUBSET DOMAIN parents : Grounded(parents, s)}
            /\ {Text(c) : c \in CalledCyclic} = {c \in DOMAIN parents : OnCycle(c)}
            /\ error # "internal_error"

-----------------------------------------------------------------------------
(* The snapshot.                                                              *)

SheetRows(d) ==
    IF book.sheets[d] = None THEN {}
    ELSE {i \in DOMAIN book.sheets[d].rows : \E c \in Range(book.sheets[d].rows[i]) : c.t # "none"}

\* The counts of the six domains add up to those of the batch, the rows that
\* are stored to both, and each of the five domains that depend on a blocked
\* WBS counts one error of its own.
CountsReconcile ==
    snapshot # None =>
        LET Sum(field) == MapThenSumSet(LAMBDA d : snapshot.domain_statuses[d][field], Domains)
            blocked == snapshot.domain_statuses["wbs"].status = "blocked"
        IN  /\ Sum("error_count") = snapshot.batch.error_count
                   - Cardinality(Errors(snapshot.batch.project_issues))
                   + (IF blocked THEN Cardinality(FactDomains) ELSE 0)
            /\ Sum("warning_count") = snapshot.batch.warning_count
                   - Cardinality(snapshot.batch.project_issues \ Errors(snapshot.batch.project_issues))
            /\ Sum("row_count_raw") = snapshot.batch.rows_read
            /\ Cardinality(snapshot.raw) = snapshot.batch.rows_read
            /\ snapshot.batch.rows_read = snapshot.batch.rows_valid + snapshot.batch.rows_warning
                                          + snapshot.batch.rows_rejected
            /\ \A d \in Domains :
                  /\ Cardinality(snapshot.facts[d]) = snapshot.domain_statuses[d].row_count_canonical
                  /\ {r.row : r \in {s \in snapshot.raw : s.domain = d}} = SheetRows(d)

-----------------------------------------------------------------------------
(* The analysis.                                                              *)

\* A rule that ran saw every row of the sheets it requires: no row was left
\* out because it could not be read.
ExecutedRulesSeeWholeSheets ==
    run # None => \A rule \in run.execution.executed :
        \A d \in Audit!_REQUIRED_DOMAINS_BY_RULE(rule) :
            /\ book.sheets[d] # None
            /\ {r.row : r \in load(snapshot).rows[d]} = SheetRows(d)

\* The facts that DQ-004 reports are those that were stored without a node
\* although they name a code.
OrphansHaveNoNode ==
    (run # None /\ "DQ-004" \in run.execution.executed) =>
        {f.evidence : f \in {g \in run.execution.findings : g.rule = "DQ-004"}}
            = UNION {{{<<d, f.row>>} : f \in {g \in snapshot.facts[d] :
                          g.v.wbs_code # None /\ g.node = None}} : d \in FactDomains}

\* A cost that alone exceeds a budget exceeds it with the open commitments
\* too, and is at least as severe: CST-001 never comes without CST-002. (The
\* rules divide by the budget, so of a negative one they judge the reverse.)
OverrunIsExposure ==
    (run # None /\ {"CST-001", "CST-002"} \subseteq run.execution.executed) =>
        \A f \in {g \in run.execution.findings :
                     g.rule = "CST-001" /\ Audit!Budget(load(snapshot), g.entity[1]) > 0} :
            \E g \in run.execution.findings :
                /\ g.rule = "CST-002" /\ g.entity = f.entity
                /\ f.severity = "critical" => g.severity = "critical"

\* A name with no slash or bar in it, which its folded form stands for.
Plain(name) == Segments(name) = <<<<Folded(name)>>>> /\ Folded(name) # Audit!NoText

\* What the findings about some rows are named by.
NamesOfFacts(data) ==
    LET rows == UNION {data.rows[d] : d \in FactDomains}
    IN  {x.v.record_id : x \in rows}
        \union (({x.v.wbs_code : x \in rows}
                 \union {x.v.vendor_id : x \in data.rows["actual_cost"]}) \ {None})

\* An analysis fails only on repeated identities: two rows with one record id,
\* two rows above 100 percent that PRG-002 names alike, by their WBS or, where
\* a row has none, by its record id, two names that differ in case alone, or a
\* name that is split because of a slash or a bar; or because the ids of a group
\* of duplicates do not fit the column together. Whatever else the findings are
\* about, they never collide, under either catalogue.
FailureIsRepeatedIdentity ==
    (run # None /\ run.status = "failed") =>
        LET data == load(snapshot)
            Records == UNION {{<<d, x.row, x.v.record_id>> : x \in data.rows[d]} : d \in FactDomains}
            Above(x) == x.v.actual_progress > 100 \/ x.v.planned_progress > 100
            Named(x) == IF x.v.wbs_code # None THEN x.v.wbs_code ELSE x.v.record_id
        IN  \/ \E p, q \in Records : p # q /\ p[3] = q[3]
            \/ \E r, s \in data.rows["progress"] :
                  r # s /\ Named(r) = Named(s) /\ Above(r) /\ Above(s)
            \/ \E a, b \in NamesOfFacts(data) : a # b /\ Folded(a) = Folded(b)
            \/ \E a \in NamesOfFacts(data) : ~Plain(a)
            \/ ~FindingsFit(run.execution.findings)

\* A score is shown only for a category one of whose rules ran, every finding
\* lowers a score that is shown, and the overall score is there exactly when
\* no domain was blocked.
ScoresAreBacked ==
    health # None =>
        /\ \A c \in Audit!Categories :
              health.scores[c] # None =>
                  \E rule \in run.execution.executed : Audit!normalize_category(rule) = c
        /\ \A f \in run.execution.findings :
              health.scores[Audit!normalize_category(f.rule)] \in 0..99
        /\ health.overall # None <=>
              \A d \in Domains : snapshot.domain_statuses[d].status # "blocked"
        /\ health.availability.unavailable_domains =
              {d \in Domains : snapshot.domain_statuses[d].status = "blocked"}

-----------------------------------------------------------------------------
(* The validated import.                                                      *)

ImportedRows == LET rows == _read_rows(imported.sheet)
                IN  {rows[i] : i \in {j \in DOMAIN rows : Populated(rows[j])}}

ImportedCell(row, f) == _cell(row, Mapping(imported.sheet, imported.preset), f)

\* A schedule that passes the preflight is never refused by the mapper, and once
\* its activities, all with ids, names and WBS codes, are stored, none is held back:
\* each reaches the schedule rules under its id (the test of
\* build_schedule_workbook: the generated WBS master unblocks schedule rules).
ImportReachesTheRules ==
    /\ imported # None => error # "internal_error"
    /\ (run # None /\ imported # None
       /\ \A row \in ImportedRows :
             /\ \A f \in {"activity_id", "activity_name"} : Filled(AsWritten(ImportedCell(row, f)))
             /\ ImportedCell(row, "wbs").t \in {"outline", "gapped"}) =>
        /\ {"SCH-001", "SCH-002", "SCH-003", "SCH-004", "SCH-005"} \subseteq run.execution.executed
        /\ {r.v.record_id : r \in load(snapshot).rows["schedule"]} =
              {Text(_text(ImportedCell(r, "activity_id"))) : r \in ImportedRows}

\* SCH-001 of the catalogue: "Detect incomplete activities whose baseline
\* finish is before the analysis date"; the preflight takes progress as a
\* number "between 0 and 100".
ImportedOverdueIsReported ==
    (run # None /\ imported # None /\ "SCH-001" \in run.execution.executed) =>
        \A r \in ImportedRows :
            /\ NumberOrZero(ImportedCell(r, "progress")) < 10000
            /\ _as_date(ImportedCell(r, "baseline_finish")) < Today
            /\ Filled(AsWritten(ImportedCell(r, "activity_name")))
            => \E f \in run.execution.findings :
                  f.rule = "SCH-001" /\ f.entity = <<Text(_text(ImportedCell(r, "activity_id")))>>
=============================================================================
