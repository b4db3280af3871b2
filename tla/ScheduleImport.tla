---------------------------- MODULE ScheduleImport ----------------------------
(* The validated import of a schedule: the preflight checks of an exported     *)
(* sheet (ingestion/preflight_validator.py) and the governed workbook built    *)
(* from it (ingestion/validated_import.py). A sheet says whether it is of a    *)
(* CSV file and has a sequence of rows, each a sequence of cells; the          *)
(* predecessors of a row are in a cell of kind "links", whose relations Links  *)
(* gives. A WBS code is a cell "outline" whose digits are its parts ("1.2" is  *)
(* 12), or "gapped", the same parts in another spelling ("1..2"). A "formula"  *)
(* is a text that begins with an equals sign, and no other text has a digit.   *)
(* A header is a cell whose kind is its normalized text.                       *)
EXTENDS WorkbookExtraction, FiniteSetsExt

CONSTANT Links(_)

MS_PROJECT_ALIASES ==
    [activity_id |-> {"unique id", "id", "task id"}, activity_name |-> {"name", "task name"},
     wbs |-> {"wbs", "outline number"},
     baseline_start |-> {"baseline start", "baseline1 start"},
     baseline_finish |-> {"baseline finish", "baseline1 finish"},
     start |-> {"start"}, finish |-> {"finish"}, duration |-> {"duration"},
     progress |-> {"% complete", "percent complete"},
     total_float |-> {"total slack", "total float", "slack"},
     predecessors |-> {"predecessors"}, resources |-> {"resource names", "resources"},
     constraint_type |-> {"constraint type"}]

STANDARD_ALIASES ==
    [activity_id |-> {"activity id", "task code", "task id", "unique id"},
     activity_name |-> {"activity name", "task name", "name"},
     wbs |-> {"wbs code", "wbs", "wbs id"},
     baseline_start |-> {"baseline start", "target start date", "planned start"},
     baseline_finish |-> {"baseline finish", "target end date", "planned finish"},
     start |-> {"current start", "start"}, finish |-> {"current finish", "finish"},
     duration |-> {"duration", "baseline duration days"},
     progress |-> {"actual progress pct", "% complete", "act pct comp",
                   "physical percent complete"},
     total_float |-> {"total float days", "total float", "total slack", "total float hr cnt"},
     predecessors |-> {"predecessor ids", "predecessors"},
     resources |-> {"responsible", "resource names", "resources"},
     constraint_type |-> {"constraint type"}]

Aliases(preset) == IF preset = "msproject" THEN MS_PROJECT_ALIASES ELSE STANDARD_ALIASES

Filled(c) == c.t \notin {"none", "spaces"}
Populated(row) == \E i \in DOMAIN row : Filled(row[i])

\* The header row of a CSV file is the first; of a workbook, the first of those
\* with the most cells among the top ten.
HeaderRow(sheet) ==
    LET top == {r \in DOMAIN sheet.rows : r <= 10}
        Width(r) == Cardinality({i \in DOMAIN sheet.rows[r] : Filled(sheet.rows[r][i])})
        Widest == CHOOSE r \in top :
            \A s \in top : Width(s) < Width(r) \/ (Width(s) = Width(r) /\ r <= s)
    IN  IF sheet.csv THEN 1 ELSE Widest

\* What follows the header row.
_read_rows(sheet) == SubSeq(sheet.rows, HeaderRow(sheet) + 1, Len(sheet.rows))

\* The first column with one of the names, 0 without one.
_find_column(headers, names) ==
    LET found == {i \in DOMAIN headers : headers[i].t \in names}
    IN  IF found = {} THEN 0 ELSE Min(found)

Mapping(sheet, preset) ==
    [f \in DOMAIN Aliases(preset) |-> _find_column(sheet.rows[HeaderRow(sheet)], Aliases(preset)[f])]

\* Rows may be shorter than the header row.
_cell(row, mapping, f) == IF mapping[f] \in DOMAIN row THEN row[mapping[f]] ELSE Blank
_cells(row, mapping) == [f \in DOMAIN mapping |-> _cell(row, mapping, f)]

\* The parts of a WBS code.
Digits(n) == IF n < 10 THEN 1 ELSE IF n < 100 THEN 2 ELSE 3
FirstPart(n) == IF n < 10 THEN n ELSE IF n < 100 THEN n \div 10 ELSE n \div 100
SecondPart(n) == IF n < 10 THEN 0 ELSE IF n < 100 THEN n % 10 ELSE (n \div 10) % 10

\* Days are counted from the first of 2000 (leap days are left out).
Year(day) == 2000 + day \div 365

\* The first number in the text of a cell, without its percent sign: of a date
\* the year, of a code "1.2.3" the number 1.2.
_as_number(c) ==
    CASE c.t \in {"number", "numeral"} -> c.n
      [] c.t = "percent" -> 100 * c.n
      [] c.t = "outline" -> 100 * FirstPart(c.n) + 10 * SecondPart(c.n)
      [] c.t = "gapped" -> 100 * FirstPart(c.n)
      [] c.t \in {"date", "iso"} -> 100 * Year(c.n)
      [] OTHER -> None

_as_date(c) == IF c.t \in {"iso", "date"} THEN c.n ELSE None

\* The value as a text, with the blanks around it removed.
_text(c) ==
    CASE ~Filled(c) -> Blank
      [] c.t = "padded" -> [c EXCEPT !.t = "text"]
      [] c.t = "number" -> [c EXCEPT !.t = "numeral"]
      [] c.t = "date" -> [c EXCEPT !.t = "iso"]
      [] OTHER -> c

_relationships(c) == IF c.t = "links" THEN Links(c.n) ELSE {}

-----------------------------------------------------------------------------
(* Preflight. An issue is [row, severity, code, about]; about tells apart      *)
(* several issues of a kind in one row. The two quality scores are left out.   *)

Required == {"activity_id", "activity_name", "baseline_start", "baseline_finish"}

Issue(holds, row, severity, code, about) ==
    IF holds THEN {[row |-> row, severity |-> severity, code |-> code, about |-> about]} ELSE {}

\* An id is stripped before it is tested, and a zero is none.
IdText(c) == IF c.t \in {"number", "bool"} /\ c.n = 0 THEN Blank ELSE _text(c)

Missing(cell, f) == IF f = "activity_id" THEN IdText(cell[f]) = Blank ELSE cell[f].t = "none"

Backwards(a, b) == a # None /\ b # None /\ b < a

DateIssues(i, cell) ==
    LET Unread(f, severity) ==
            Issue(cell[f].t # "none" /\ _as_date(cell[f]) = None, i, severity, "invalid_date", f)
    IN  Unread("baseline_start", "error") \union Unread("baseline_finish", "error")
        \union Unread("start", "warning") \union Unread("finish", "warning")
        \union Issue(Backwards(_as_date(cell.baseline_start), _as_date(cell.baseline_finish)),
                     i, "error", "baseline_finish_before_start", "baseline_finish")
        \union Issue(Backwards(_as_date(cell.start), _as_date(cell.finish)),
                     i, "error", "current_finish_before_start", "finish")

NumberIssues(i, cell) ==
    LET progress == _as_number(cell.progress)
        slack == _as_number(cell.total_float)
        duration == _as_number(cell.duration)
        start == _as_date(cell.baseline_start)
        finish == _as_date(cell.baseline_finish)
    IN  Issue(cell.progress.t # "none" /\ progress = None, i, "warning", "invalid_progress",
              "progress")
        \union Issue(progress # None /\ progress \notin 0..10000,
                     i, "error", "progress_out_of_range", "progress")
        \union Issue(cell.total_float.t = "none", i, "warning", "float_missing", "total_float")
        \union Issue(slack # None /\ slack > 2000, i, "warning", "excessive_float", "total_float")
        \union Issue(duration # None /\ duration < 0, i, "error", "negative_duration", "duration")
        \union Issue(duration = 0 /\ start # None /\ finish # None /\ start # finish,
                     i, "warning", "milestone_date_mismatch", "duration")

LinkIssues(i, cell, ids) ==
    LET links == _relationships(cell.predecessors)
        Own(l) == l.pred = IdText(cell.activity_id)
    IN  Issue(links = {}, i, "warning", "open_start", "predecessors")
        \union UNION {Issue(Own(l), i, "error", "self_predecessor", l)
                      \union Issue(~Own(l) /\ l.pred \notin ids, i, "warning",
                                   "predecessor_not_found", l)
                      \union Issue(l.lag < 0, i, "warning", "negative_lag", l)
                      \union Issue(l.lag > 10, i, "warning", "excessive_lag", l) : l \in links}

OtherIssues(i, cell) ==
    Issue(cell.resources.t = "none", i, "warning", "resource_missing", "resources")
    \union Issue(cell.constraint_type.t \notin {"none", "asap"}, i, "warning",
                 "hard_constraint", "constraint_type")

validate_workbook_bytes(sheet, preset) ==
    LET rows == _read_rows(sheet)
        mapping == Mapping(sheet, preset)
        populated == {i \in DOMAIN rows : Populated(rows[i])}
        Id(i) == IdText(_cell(rows[i], mapping, "activity_id"))
        ids == {_text(_cell(rows[i], mapping, "activity_id")) : i \in populated} \ {Blank}
        RowIssues(i) ==
            LET cell == _cells(rows[i], mapping)
            IN  (UNION {Issue(Missing(cell, f), i, "error", "required_value_missing", f) :
                          f \in Required})
                \union Issue(Id(i) # Blank /\ \E j \in populated : j < i /\ Id(j) = Id(i),
                             i, "error", "duplicate_activity_id", "activity_id")
                \union DateIssues(i, cell) \union NumberIssues(i, cell)
                \union LinkIssues(i, cell, ids) \union OtherIssues(i, cell)
        issues == (UNION {Issue(mapping[f] = 0, 0, "error", "missing_required_column", f) :
                            f \in Required}) \union UNION {RowIssues(i) : i \in populated}
    IN  [populated |-> populated,
         issues |-> issues,
         can_import |-> populated # {} /\ ~\E x \in issues : x.severity = "error"]

-----------------------------------------------------------------------------
(* The governed workbook.                                                     *)

Number(n) == [t |-> "number", n |-> n]
Known(class, n) == [t |-> class, n |-> n]

DirectOnly(c) == IF c.t \notin {"outline", "gapped"} THEN {} ELSE {c.n}

\* The code and the codes of all the nodes above it.
CodesUpTo(c) ==
    IF c.t \notin {"outline", "gapped"} THEN {}
    ELSE {p \in {c.n, c.n \div 10, c.n \div 100} : p > 0}

\* round() takes a half to the even neighbour.
RoundedDays(n) ==
    LET q == n \div 100  r == n % 100
    IN  IF r > 50 \/ (r = 50 /\ q % 2 = 1) THEN q + 1 ELSE q

IsoOrBlank(c) == IF _as_date(c) = None THEN Blank ELSE [t |-> "iso", n |-> c.n]
NumberOrZero(c) == IF _as_number(c) = None THEN 0 ELSE _as_number(c)

WBS_HEADERS == <<<<"wbs_code">>, <<"parent_wbs">>, <<"level">>>>

SCHEDULE_HEADERS ==
    <<<<"record_id">>, <<"wbs_code">>, <<"baseline_start">>, <<"baseline_finish">>,
      <<"actual_start">>, <<"actual_finish">>, <<"planned_progress">>, <<"actual_progress">>,
      <<"total_float_days">>, <<"critical">>, <<"status">>>>

NodeLine(n) ==
    <<Known("outline", n), IF n < 10 THEN Blank ELSE Known("outline", n \div 10),
      Number(100 * Digits(n))>>

\* A formula is written without a value, and none is read back.
AsWritten(c) == IF c.t = "formula" THEN Blank ELSE c

ActivityLine(cell) ==
    LET progress == NumberOrZero(cell.progress)
        days == RoundedDays(NumberOrZero(cell.total_float))
    IN  <<AsWritten(_text(cell.activity_id)), AsWritten(_text(cell.wbs)),
          IsoOrBlank(cell.baseline_start), IsoOrBlank(cell.baseline_finish),
          IsoOrBlank(cell.start), IsoOrBlank(cell.finish),
          Number(progress), Number(progress), Number(100 * days),
          [t |-> "bool", n |-> IF days <= 0 THEN 1 ELSE 0],
          Known("text", IF progress >= 10000 THEN 901 ELSE 902)>>

\* A row without an id, a name or a baseline is left out. Planned and actual
\* progress are the same number, as it stands in the sheet.
build_schedule_workbook(sheet, preset, project_code, data_date) ==
    LET rows == _read_rows(sheet)
        mapping == Mapping(sheet, preset)
        cell(i) == _cells(rows[i], mapping)
        Complete(i) == /\ Populated(rows[i])
                       /\ Filled(cell(i).activity_id) /\ Filled(cell(i).activity_name)
                       /\ _as_date(cell(i).baseline_start) # None
                       /\ _as_date(cell(i).baseline_finish) # None
        kept == Ascending({i \in DOMAIN rows : Complete(i)})
        nodes == UNION {CodesUpTo(_text(cell(i).wbs)) : i \in Range(kept)}
        ordered == Ascending(nodes)
    IN  [info |-> <<[key |-> "project_id", cell |-> project_code],
                    [key |-> "project_name", cell |-> Known("text", 2)],
                    [key |-> "data_date", cell |-> Known("iso", data_date)]>>,
         sheets |-> [d \in Domains |->
            CASE d = "wbs" -> [headers |-> WBS_HEADERS,
                               rows |-> [k \in DOMAIN ordered |-> NodeLine(ordered[k])]]
              [] d = "schedule" -> [headers |-> SCHEDULE_HEADERS,
                                    rows |-> [k \in DOMAIN kept |->
                                        ActivityLine(cell(kept[k]))]]
              [] OTHER -> None]]
=============================================================================
