---------------------------- MODULE GovernedFacts -----------------------------
(* The rows of one governed snapshot: what SnapshotRepository writes of an     *)
(* extracted and mapped workbook (persistence/ingestion_repositories.py) and   *)
(* what DatabaseDatasetLoader reads back (persistence/dataset_loader.py). The  *)
(* columns that name the tenant, the project and the snapshot are left out:    *)
(* the tables are those of one snapshot. A row's key is its number.            *)
EXTENDS WorkbookMapping

CONSTANTS
    Length(_),       \* the number of characters of a text
    AmountMax,       \* the largest amount of a column NUMERIC(20, 2)
    IntegerMax       \* the largest number of a column INTEGER

(* The project sheet, as ingest reads it.                                     *)

\* None stands for a date that is missing or no ISO text.
_data_date(values) ==
    IF "data_date" \in DOMAIN values /\ values["data_date"].t = "iso"
    THEN values["data_date"].n ELSE None

\* A workbook that names another project is kept, with a warning.
Adopted(mapped, values, project_code) ==
    LET named == "project_id" \in DOMAIN values /\ values["project_id"].t \notin {"none", "spaces"}
    IN  IF named /\ Text(values["project_id"]) # project_code
        THEN [mapped EXCEPT !.warning_count = @ + 1,
                            !.project_issues = @ \union {Warning("source_project_mismatch",
                                                                "project_id")}]
        ELSE mapped

-----------------------------------------------------------------------------
(* The rows that are written.                                                 *)

FactDomains == Domains \ {"wbs"}

ValidationStatus(r) ==
    IF r.record = None THEN "invalid" ELSE IF r.issues # {} THEN "warning" ELSE "valid"

\* zip(strict): the mapped rows are those of the extraction, in its order.
persist_raw_rows(extracted, mapped) ==
    UNION {{[domain |-> d,
             row |-> extracted.rows_by_domain[d][i].row,
             values |-> extracted.rows_by_domain[d][i].values,
             validation_status |-> ValidationStatus(mapped.rows_by_domain[d][i])] :
                 i \in DOMAIN extracted.rows_by_domain[d]} : d \in Domains}

Canonical(mapped, d) ==
    {mapped.rows_by_domain[d][i] : i \in {j \in DOMAIN mapped.rows_by_domain[d] :
                                            mapped.rows_by_domain[d][j].record # None}}

KeptCodes(mapped) == {r.record.wbs_code : r \in Canonical(mapped, "wbs")}

\* wbs_by_code has no entry for a parent that was rejected: a KeyError.
ParentsAreKept(mapped) ==
    \A r \in Canonical(mapped, "wbs") :
        r.record.parent_wbs # None => r.record.parent_wbs \in KeptCodes(mapped)

NodeRow(mapped, code) ==
    IF code \in KeptCodes(mapped)
    THEN (CHOOSE r \in Canonical(mapped, "wbs") : r.record.wbs_code = code).row ELSE None

\* Nodes carry the key of their parent's node, facts that of their own.
persist_canonical_rows(mapped) ==
    [d \in Domains |->
        {[row |-> r.row, v |-> r.record,
          node |-> NodeRow(mapped, IF d = "wbs" THEN r.record.parent_wbs
                                   ELSE r.record.wbs_code)] : r \in Canonical(mapped, d)}]

\* What a progress column holds, NUMERIC(7, 4) and not negative, and what that
\* of the variance does.
StoredProgress == 0..99999
StoredVariance == -100..100

Fits(text, limit) == text # None => Length(text) <= limit
InRange(n, limit) == -limit <= n /\ n <= limit

\* The checks of the tables and the types of their columns, where the mapper
\* lets other values pass.
NodeFits(v) ==
    /\ Fits(v.wbs_code, 100) /\ Fits(v.parent_wbs, 100)
    /\ v.level <= IntegerMax

FactFits(d, v) ==
    /\ Fits(v.record_id, 300) /\ Fits(v.wbs_code, 100)
    /\ d = "budget" => InRange(v.budget_amount, AmountMax)
    /\ d = "actual_cost" => /\ Fits(v.vendor_id, 100) /\ Fits(v.vendor_name, 250)
                            /\ InRange(v.actual_amount, AmountMax)
    /\ d = "commitments" => /\ InRange(v.committed_amount, AmountMax)
                            /\ InRange(v.invoiced_amount, AmountMax)
                            /\ Fits(v.status, 50)
    /\ d = "schedule" => InRange(v.total_float_days, IntegerMax) /\ Fits(v.status, 50)
    /\ d \in {"schedule", "progress"} =>
          {v.planned_progress, v.actual_progress} \subseteq StoredProgress
    /\ d = "progress" => v.variance \in StoredVariance

DatabaseAccepts(mapped) ==
    /\ \A r \in Canonical(mapped, "wbs") : NodeFits(r.record)
    /\ \A d \in FactDomains : \A r \in Canonical(mapped, d) : FactFits(d, r.record)

-----------------------------------------------------------------------------
(* The counts that complete writes.                                           *)

CountRows(mapped, d, status) ==
    Cardinality({i \in DOMAIN mapped.rows_by_domain[d] :
                    ValidationStatus(mapped.rows_by_domain[d][i]) = status})

DependencyOfAll(mapped, d) ==
    IF mapped.domain_statuses["wbs"] = "blocked" THEN {"blocked_by_wbs"} ELSE {}

DependencyIssues(mapped, d) ==
    IF d \in FactDomains /\ mapped.domain_statuses["wbs"] = "blocked" THEN {"blocked_by_wbs"} ELSE {}

StatusOfDomain(extracted, mapped, d) ==
    [status |-> mapped.domain_statuses[d],
     row_count_raw |-> Len(mapped.rows_by_domain[d]),
     row_count_canonical |-> CountRows(mapped, d, "valid") + CountRows(mapped, d, "warning"),
     error_count |-> Cardinality(TemplateErrors(extracted, d))
                     + IssueCount(mapped.rows_by_domain[d], "error")
                     + Cardinality(mapped.domain_issues[d])
                     + Cardinality(DependencyIssues(mapped, d)),
     warning_count |-> IssueCount(mapped.rows_by_domain[d], "warning")]

Batch(mapped) ==
    [rows_read |-> MapThenSumSet(LAMBDA d : Len(mapped.rows_by_domain[d]), Domains),
     rows_valid |-> MapThenSumSet(LAMBDA d : CountRows(mapped, d, "valid"), Domains),
     rows_warning |-> MapThenSumSet(LAMBDA d : CountRows(mapped, d, "warning"), Domains),
     rows_rejected |-> MapThenSumSet(LAMBDA d : CountRows(mapped, d, "invalid"), Domains),
     error_count |-> mapped.error_count,
     warning_count |-> mapped.warning_count,
     project_issues |-> mapped.project_issues]

CompletedStatus(mapped) ==
    IF mapped.error_count > 0 THEN "validated_with_errors" ELSE "validated"

\* What the transaction of ingest leaves once it has committed.
_complete_mapped(extracted, mapped) ==
    [status |-> CompletedStatus(mapped),
     data_date |-> _data_date(extracted.project_values),
     batch |-> Batch(mapped),
     domain_statuses |-> [d \in Domains |-> StatusOfDomain(extracted, mapped, d)],
     raw |-> persist_raw_rows(extracted, mapped),
     facts |-> persist_canonical_rows(mapped)]

-----------------------------------------------------------------------------
(* Reading the dataset of a completed snapshot.                               *)

\* The join with the raw row, which has the row number.
_canonical_rows(snapshot, d) ==
    {[row |-> f.row, v |-> f.v] : f \in {g \in snapshot.facts[d] :
        \E raw \in snapshot.raw : raw.domain = d /\ raw.row = g.row}}

\* The variance column is computed anew from the two progress columns.
Reloaded(d, r) ==
    IF d = "progress"
    THEN [r EXCEPT !.v["variance"] = r.v.actual_progress - r.v.planned_progress] ELSE r

\* Rows of a blocked domain are read like any others. A domain whose status is
\* missing would be read as blocked.
load(snapshot) ==
    [data_date |-> snapshot.data_date,
     rows |-> [d \in Domains |-> {Reloaded(d, r) : r \in _canonical_rows(snapshot, d)}],
     domain_statuses |-> [d \in Domains |->
        IF d \in DOMAIN snapshot.domain_statuses THEN snapshot.domain_statuses[d].status
        ELSE "blocked"]]
=============================================================================
