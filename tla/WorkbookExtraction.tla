-------------------------- MODULE WorkbookExtraction --------------------------
(* Reading a governed workbook (ingestion/extractor.py): the issues of its     *)
(* header rows, the key under which each column of a row is kept and the raw   *)
(* rows. A cell is [t, n]: what kind of value it holds and which one. Numbers  *)
(* are in hundredths. A header is the sequence <<name>>; a sequence stands for *)
(* the string with the suffix of each of its later members, so that <<h, 2>>   *)
(* is h__duplicate_2 and <<"unnamed", 3>> is __unnamed_column_3.               *)
EXTENDS NumberOrder, Sequences, SequencesExt

CONSTANT None

Domains == {"wbs", "budget", "actual_cost", "commitments", "schedule", "progress"}

Blank == [t |-> "none", n |-> 0]

\* A column of the mapping profile. In the profile a column is nullable
\* exactly when it is not required; percentage is its normalization.
Column(field, scalar, required, percentage) ==
    [field |-> field, scalar |-> scalar, required |-> required, percentage |-> percentage]

profile == [
    wbs |-> <<Column("wbs_code", "string", TRUE, FALSE),
              Column("parent_wbs", "string", FALSE, FALSE),
              Column("level", "integer", TRUE, FALSE)>>,
    budget |-> <<Column("record_id", "string", TRUE, FALSE),
                 Column("wbs_code", "string", FALSE, FALSE),
                 Column("budget_amount", "decimal", TRUE, FALSE)>>,
    actual_cost |-> <<Column("record_id", "string", TRUE, FALSE),
                      Column("transaction_date", "date", TRUE, FALSE),
                      Column("wbs_code", "string", FALSE, FALSE),
                      Column("vendor_id", "string", FALSE, FALSE),
                      Column("vendor_name", "string", FALSE, FALSE),
                      Column("actual_amount", "decimal", TRUE, FALSE)>>,
    commitments |-> <<Column("record_id", "string", TRUE, FALSE),
                      Column("wbs_code", "string", FALSE, FALSE),
                      Column("committed_amount", "decimal", TRUE, FALSE),
                      Column("invoiced_amount", "decimal", TRUE, FALSE),
                      Column("status", "string", TRUE, FALSE)>>,
    schedule |-> <<Column("record_id", "string", TRUE, FALSE),
                   Column("wbs_code", "string", FALSE, FALSE),
                   Column("baseline_start", "date", TRUE, FALSE),
                   Column("baseline_finish", "date", TRUE, FALSE),
                   Column("actual_start", "date", FALSE, FALSE),
                   Column("actual_finish", "date", FALSE, FALSE),
                   Column("planned_progress", "decimal", TRUE, TRUE),
                   Column("actual_progress", "decimal", TRUE, TRUE),
                   Column("total_float_days", "integer", TRUE, FALSE),
                   Column("critical", "boolean", TRUE, FALSE),
                   Column("status", "string", TRUE, FALSE)>>,
    progress |-> <<Column("record_id", "string", TRUE, FALSE),
                   Column("period", "date", TRUE, FALSE),
                   Column("wbs_code", "string", FALSE, FALSE),
                   Column("planned_progress", "decimal", TRUE, TRUE),
                   Column("actual_progress", "decimal", TRUE, TRUE),
                   Column("variance", "decimal", TRUE, TRUE)>>]

Fields(domain) == {profile[domain][i].field : i \in DOMAIN profile[domain]}

RequiredFields(domain) ==
    {c.field : c \in {profile[domain][i] : i \in {j \in DOMAIN profile[domain] :
                                                    profile[domain][j].required}}}

-----------------------------------------------------------------------------

\* A date reaches JSON as ISO text, every other value as it is.
_json_safe(c) == IF c.t = "date" THEN [c EXCEPT !.t = "iso"] ELSE c

LiteralHeaders(headers) == Range(headers) \ {None}

\* The least occurrence from 2 on whose suffixed name is free.
FreeOccurrence(base, taken) ==
    CHOOSE k \in 2..(Cardinality(taken) + 2) :
        /\ Append(base, k) \notin taken
        /\ \A j \in 2..(k - 1) : Append(base, j) \in taken

KeysIgnoringLiterals(headers) ==
    LET Extend(keys, h) ==
            LET base == IF h = None THEN <<"unnamed", Len(keys) + 1>> ELSE h
            IN  Append(keys, IF base \notin Range(keys) THEN base
                             ELSE Append(base, FreeOccurrence(base, Range(keys))))
    IN  FoldLeft(Extend, <<>>, headers)

\* The first column of a header keeps it; a repeated or unnamed one gets a key
\* that no header and no earlier column has.
_unique_value_keys(headers) ==
    LET literal == LiteralHeaders(headers)
        Extend(keys, h) ==
            LET used == Range(keys)
                base == IF h = None THEN <<"unnamed", Len(keys) + 1>> ELSE h
                kept == base \notin used /\ (h # None \/ base \notin literal)
            IN  Append(keys, IF kept THEN base
                             ELSE Append(base, FreeOccurrence(base, literal \union used)))
    IN  FoldLeft(Extend, <<>>, headers)

_header_issues(domain, headers) ==
    LET present  == LiteralHeaders(headers)
        expected == {<<f>> : f \in Fields(domain)}
        Issue(code, holds) == IF holds THEN {[domain |-> domain, code |-> code]} ELSE {}
    IN  Issue("duplicate_header",
              \E i, j \in DOMAIN headers : i # j /\ headers[i] = headers[j] /\ headers[i] # None)
        \union Issue("missing_required_column",
                     \E f \in RequiredFields(domain) : <<f>> \notin present)
        \union Issue("unexpected_header", ~(present \subseteq expected))

\* The last row of a name wins. Nothing is read without the sheet.
_project_values(info) ==
    IF info = None THEN [k \in {} |-> Blank]
    ELSE FoldLeft(LAMBDA values, row :
                      [k \in DOMAIN values \union {row.key} |->
                          IF k = row.key THEN _json_safe(row.cell) ELSE values[k]],
                  [k \in {} |-> Blank], info)

\* A row of empty cells is no row.
FilledRows(sheet) ==
    {i \in DOMAIN sheet.rows : \E p \in DOMAIN sheet.rows[i] : sheet.rows[i][p].t # "none"}

\* Rows keep their place in the sheet.
ExtractedRows(sheet) ==
    LET keys == _unique_value_keys(sheet.headers)
        RowAt(i) == [row |-> i,
                     values |-> [k \in Range(keys) |->
                         _json_safe(sheet.rows[i][CHOOSE p \in DOMAIN keys : keys[p] = k])]]
        kept == Ascending(FilledRows(sheet))
    IN  [n \in DOMAIN kept |-> RowAt(kept[n])]

extract_workbook(book) ==
    [project_values |-> _project_values(book.info),
     rows_by_domain |-> [d \in Domains |-> IF book.sheets[d] = None THEN <<>>
                                           ELSE ExtractedRows(book.sheets[d])],
     template_errors |-> UNION {IF book.sheets[d] = None
                                THEN {[domain |-> d, code |-> "missing_sheet"]}
                                ELSE _header_issues(d, book.sheets[d].headers) : d \in Domains}]
=============================================================================
