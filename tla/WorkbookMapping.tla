--------------------------- MODULE WorkbookMapping ----------------------------
(* Mapping the extracted rows to canonical records (ingestion/mapper.py): the  *)
(* scalars, the checks of one row, the WBS hierarchy and the status of each    *)
(* domain. A row maps to its record, or None, and the set of its issues. The   *)
(* order of issues and their wording are left out.                             *)
EXTENDS WorkbookExtraction, FiniteSetsExt

Error(code, field) == [code |-> code, field |-> field, severity |-> "error"]
Warning(code, field) == [code |-> code, field |-> field, severity |-> "warning"]

Errors(issues) == {i \in issues : i.severity = "error"}

Value(v) == [value |-> v, issues |-> {}]
Refused(code, field) == [value |-> None, issues |-> {Error(code, field)}]
Warned(v, code, field) == [value |-> v, issues |-> {Warning(code, field)}]

\* Kinds of cell: "text" and "padded" (text with blanks around it), "numeral"
\* (text that is a number), "percent" ("n%"), "flag" ("yes" or "no"), "iso" (an
\* ISO date), "number", "bool". Two strings are equal when their class and
\* number are.
Text(c) == <<IF c.t = "padded" THEN "text" ELSE IF c.t = "number" THEN "numeral" ELSE c.t, c.n>>

_decimal(c, column) ==
    CASE c.t = "percent" /\ column.percentage ->
            Warned(c.n, "coerced_percentage", column.field)
      [] c.t \in {"number", "numeral"} -> Value(c.n)
      [] OTHER -> Refused("invalid_decimal", column.field)

\* A number is read as Excel's count of days.
_date(c, column) ==
    CASE c.t = "iso" -> Value(c.n)
      [] c.t = "number" -> Value(c.n \div 100)
      [] OTHER -> Refused("invalid_date", column.field)

Integer(c, column) ==
    IF c.t \notin {"number", "numeral"} \/ c.n % 100 # 0
    THEN Refused("invalid_integer", column.field)
    ELSE IF c.t = "numeral" THEN Warned(c.n \div 100, "coerced_integer", column.field)
         ELSE Value(c.n \div 100)

Boolean(c, column) ==
    CASE c.t = "bool" \/ (c.t = "number" /\ c.n \in {0, 100}) -> Value(c.n # 0)
      [] c.t = "flag" \/ (c.t = "numeral" /\ c.n \in {0, 100}) ->
            Warned(c.n # 0, "coerced_boolean", column.field)
      [] OTHER -> Refused("invalid_boolean", column.field)

String(c, column) ==
    CASE c.t = "padded" -> Warned(Text(c), "normalized_string", column.field)
      [] c.t \in {"number", "bool"} -> Warned(Text(c), "coerced_string", column.field)
      [] OTHER -> Value(Text(c))

_normalize_scalar(c, column) ==
    IF c.t \in {"none", "spaces"}
    THEN IF column.required THEN Refused("missing_required_value", column.field) ELSE Value(None)
    ELSE CASE column.scalar = "string"  -> String(c, column)
           [] column.scalar = "date"    -> _date(c, column)
           [] column.scalar = "decimal" -> _decimal(c, column)
           [] column.scalar = "integer" -> Integer(c, column)
           [] column.scalar = "boolean" -> Boolean(c, column)

\* A finish before its start, when both dates were read.
ContradictoryDates(domain, values, issues) ==
    IF /\ domain = "schedule"
       /\ ~\E i \in Errors(issues) : i.field \in {"baseline_start", "baseline_finish"}
       /\ values["baseline_finish"] < values["baseline_start"]
    THEN {Error("contradictory_dates", "baseline_finish")} ELSE {}

InvalidIdentity(domain, values, issues) ==
    IF /\ domain = "wbs" /\ Errors(issues) = {}
       /\ values["parent_wbs"] = values["wbs_code"] \/ values["level"] < 1
    THEN {Error("invalid_wbs_identity", "parent_wbs")} ELSE {}

_map_row(domain, extracted) ==
    LET columns == profile[domain]
        Cell(c) == IF <<c.field>> \in DOMAIN extracted.values
                   THEN extracted.values[<<c.field>>] ELSE Blank
        scalars == [i \in DOMAIN columns |-> _normalize_scalar(Cell(columns[i]), columns[i])]
        values  == [f \in Fields(domain) |->
                        scalars[CHOOSE i \in DOMAIN columns : columns[i].field = f].value]
        read    == UNION {scalars[i].issues : i \in DOMAIN columns}
        issues  == read \union ContradictoryDates(domain, values, read)
                        \union InvalidIdentity(domain, values, read)
    IN  [row |-> extracted.row,
         record |-> IF Errors(issues) = {} THEN values ELSE None,
         issues |-> issues]

-----------------------------------------------------------------------------
(* The WBS hierarchy.                                                         *)

Reject(r, issue) == [r EXCEPT !.record = None, !.issues = @ \union {issue}]

Duplicate(rows, i) ==
    /\ rows[i].record # None
    /\ \E j \in 1..(i - 1) : /\ rows[j].record # None
                             /\ rows[j].record["wbs_code"] = rows[i].record["wbs_code"]

\* The first row of a code is kept.
FirstOfEachCode(rows) ==
    [i \in DOMAIN rows |-> IF Duplicate(rows, i)
                           THEN Reject(rows[i], Error("duplicate_wbs_code", "wbs_code"))
                           ELSE rows[i]]

\* The parent of each kept code.
Parents(rows) ==
    LET kept == {i \in DOMAIN rows : rows[i].record # None}
    IN  [c \in {rows[i].record["wbs_code"] : i \in kept} |->
            rows[CHOOSE i \in kept : rows[i].record["wbs_code"] = c].record["parent_wbs"]]

\* The walk from start along the parents until it leaves the codes, meets one
\* seen in an earlier walk, or meets itself.
Walk(parents, visited, start) ==
    LET step[n \in 0..Cardinality(DOMAIN parents)] ==
            IF n = 0 THEN [path |-> <<>>, at |-> start]
            ELSE LET w == step[n - 1]
                 IN  IF w.at \notin DOMAIN parents \/ w.at \in visited \union Range(w.path)
                     THEN w
                     ELSE [path |-> Append(w.path, w.at), at |-> parents[w.at]]
    IN  step[Cardinality(DOMAIN parents)]

\* Codes in the order of their rows; the part of a walk from the code it meets
\* again is a cycle.
CycleCodes(rows) ==
    LET parents == Parents(rows)
        Visit(seen, r) ==
            IF r.record = None \/ r.record["wbs_code"] \in seen.visited THEN seen
            ELSE LET w == Walk(parents, seen.visited, r.record["wbs_code"])
                     at == {p \in DOMAIN w.path : w.path[p] = w.at}
                 IN  [visited |-> seen.visited \union Range(w.path),
                      cycle |-> seen.cycle \union
                          {w.path[p] : p \in {q \in DOMAIN w.path : \E a \in at : q >= a}}]
    IN  FoldLeft(Visit, [visited |-> {}, cycle |-> {}], rows).cycle

\* One round: the codes whose parent is missing or invalid become invalid.
Spread(parents, invalid) ==
    invalid \union {c \in DOMAIN parents :
        parents[c] # None /\ (parents[c] \notin DOMAIN parents \/ parents[c] \in invalid)}

SpreadOnce(rows) == Spread(Parents(rows), CycleCodes(rows))

InvalidCodes(rows) ==
    LET parents == Parents(rows)
        round[n \in 0..Cardinality(DOMAIN parents)] ==
            IF n = 0 THEN CycleCodes(rows) ELSE Spread(parents, round[n - 1])
    IN  round[Cardinality(DOMAIN parents)]

_validate_wbs_rows(all) ==
    LET rows == FirstOfEachCode(all)
        cycle == CycleCodes(rows)
        invalid == InvalidCodes(rows)
        Issue(code) == Error(IF code \in cycle THEN "cyclic_wbs_parent"
                             ELSE "invalid_wbs_parent", "parent_wbs")
    IN  [i \in DOMAIN rows |->
            IF rows[i].record = None \/ rows[i].record["wbs_code"] \notin invalid THEN rows[i]
            ELSE Reject(rows[i], Issue(rows[i].record["wbs_code"]))]

-----------------------------------------------------------------------------
(* The mapped snapshot.                                                       *)

TemplateErrors(extracted, d) == {e \in extracted.template_errors : e.domain = d}

\* The issues of that severity, each with the row that has it.
IssuesOf(rows, severity) ==
    UNION {{<<i, x>> : x \in {y \in rows[i].issues : y.severity = severity}} : i \in DOMAIN rows}

IssueCount(rows, severity) == Cardinality(IssuesOf(rows, severity))

StatusOfSheet(extracted, rows, domain_issues, d) ==
    IF TemplateErrors(extracted, d) # {} \/ domain_issues[d] # {} THEN "blocked"
    ELSE IF \E i \in DOMAIN rows[d] : rows[d][i].issues # {} THEN "warning" ELSE "valid"

OwnStatus(extracted, rows, domain_issues, d) ==
    IF \/ TemplateErrors(extracted, d) # {} \/ domain_issues[d] # {}
       \/ \E i \in DOMAIN rows[d] : Errors(rows[d][i].issues) # {}
    THEN "blocked"
    ELSE IF \E i \in DOMAIN rows[d] : rows[d][i].issues # {} THEN "warning" ELSE "valid"

\* The project sheet must name the project.
_project(values) ==
    {Error("missing_project_value", f) : f \in {g \in {"project_id", "project_name"} :
        g \notin DOMAIN values \/ values[g].t \in {"none", "spaces"}}}

\* A source key holds the row's domain and number, so none occurs twice and
\* _reject_duplicate_source_keys changes nothing.
MappedRows(extracted, d) ==
    LET mapped == [i \in DOMAIN extracted.rows_by_domain[d] |->
                       _map_row(d, extracted.rows_by_domain[d][i])]
    IN  IF d = "wbs" THEN _validate_wbs_rows(mapped) ELSE mapped

DomainIssues(extracted, d) ==
    IF /\ d = "wbs" /\ extracted.rows_by_domain["wbs"] = <<>>
       /\ TemplateErrors(extracted, "wbs") = {}
    THEN {Error("empty_wbs_master", None)} ELSE {}

IssueTotal(rows, severity) == MapThenSumSet(LAMBDA d : IssueCount(rows[d], severity), Domains)

map_extracted_workbook(extracted) ==
    LET rows == [d \in Domains |-> MappedRows(extracted, d)]
        domain_issues == [d \in Domains |-> DomainIssues(extracted, d)]
        own == [d \in Domains |-> OwnStatus(extracted, rows, domain_issues, d)]
        project_issues == _project(extracted.project_values)
    IN  [rows_by_domain |-> rows,
         domain_statuses |-> IF own["wbs"] = "blocked" THEN [d \in Domains |-> "blocked"] ELSE own,
         domain_issues |-> domain_issues,
         project_issues |-> project_issues,
         error_count |-> Cardinality(extracted.template_errors)
             + Cardinality(project_issues) + Cardinality(domain_issues["wbs"])
             + IssueTotal(rows, "error"),
         warning_count |-> IssueTotal(rows, "warning")]
=============================================================================
