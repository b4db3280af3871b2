---------------------------- MODULE DatabaseSchema ----------------------------
(* Tables and their foreign keys, unique keys and checks, the statements of a  *)
(* migration, and what PostgreSQL does when the row of a project is deleted.   *)
(* A table is abstracted to what these can conflict about: columns, indexes    *)
(* and the checks of a range are left out, except where a migration changes    *)
(* them. The database holds the rows of one project at most.                   *)
EXTENDS Integers, Sequences, FiniteSets, TLC, Folds, SequencesExt

(* A foreign key of a NOT NULL column, and of a column that may be null.      *)

Ref(table, on) == [table |-> table, on |-> on, optional |-> FALSE]
OptionalRef(table, on) == [table |-> table, on |-> on, optional |-> TRUE]

Cascades(tables) == {Ref(t, "cascade") : t \in tables}
Owned == Cascades({"organizations", "projects"})
Users == {OptionalRef("users", "set null")}

\* keys: the sets of columns with one row per value. checks: for a column the
\* values it may have.
Table(refs, keys, checks) == [refs |-> refs, keys |-> keys, checks |-> checks]
Values(column, values) == <<column, values>>
NotNull(column) == <<column, {"not null"}>>

\* An update of a run has either snapshot, never both.
OneSnapshot == <<"dataset_snapshot_id or governed_dataset_snapshot_id", {"one"}>>

Scores == "scores"
Bands == {"Healthy", "Needs Attention", "At Risk", "Critical"}

\* The tables of both; of a table that both have, the first one's.
Merged(f, g) == [t \in DOMAIN f \union DOMAIN g |-> IF t \in DOMAIN f THEN f[t] ELSE g[t]]

-----------------------------------------------------------------------------
(* The rows of the project: the tables that have some, the snapshot columns   *)
(* of its runs, the band of its health snapshots and whether a score is null. *)

NoRows == [full |-> {}, legacy |-> FALSE, governed |-> FALSE, band |-> "Critical",
           withheld |-> FALSE]

Empty == [tables |-> <<>>, rows |-> NoRows, ok |-> TRUE]

Names(db) == DOMAIN db.tables
Referring(db, t) == {u \in Names(db) : \E r \in db.tables[u].refs : r.table = t}

\* The rows obey what the migrations change about runs and health snapshots.
Conforms(db) ==
    /\ "analysis_runs" \in db.rows.full =>
          LET runs == db.tables["analysis_runs"] IN
          /\ Ref("dataset_snapshots", "restrict") \in runs.refs => db.rows.legacy
          /\ OneSnapshot \in runs.checks => db.rows.legacy # db.rows.governed
          /\ db.rows.legacy => "dataset_snapshots" \in db.rows.full
          /\ db.rows.governed => "governed_dataset_snapshots" \in db.rows.full
    /\ "health_snapshots" \in db.rows.full =>
          LET health == db.tables["health_snapshots"] IN
          /\ \A c \in health.checks : c[1] = "score_band" => db.rows.band \in c[2]
          /\ NotNull(Scores) \in health.checks => ~db.rows.withheld

-----------------------------------------------------------------------------
(* The statements of a migration: [op, on, ...] and what each does to a       *)
(* database. A statement that is refused leaves ok FALSE.                     *)

Create(t, table) == [op |-> "create", on |-> t, table |-> table]
Drop(t) == [op |-> "drop", on |-> t]
DropAll(tables) == [i \in DOMAIN tables |-> Drop(tables[i])]
AddRef(t, ref) == [op |-> "add ref", on |-> t, ref |-> ref]
DropRef(t, ref) == [op |-> "drop ref", on |-> t, ref |-> ref]
AddCheck(t, check) == [op |-> "add check", on |-> t, check |-> check]
DropCheck(t, check) == [op |-> "drop check", on |-> t, check |-> check]
Update(statement) == [op |-> statement, on |-> "rows"]

\* The column's NOT NULL is set or dropped; the key stays.
AlterRef(t, was, ref) == [op |-> "alter ref", on |-> t, was |-> was, ref |-> ref]

\* A run loses the columns that a dropped reference stood on.
WithoutColumn(rows, ref) ==
    IF ref.table = "governed_dataset_snapshots" THEN [rows EXCEPT !.governed = FALSE] ELSE rows

TablesAfter(tables, s) ==
    CASE s.op = "create" -> Merged([t \in {s.on} |-> s.table], tables)
      [] s.op = "drop" -> [t \in (DOMAIN tables) \ {s.on} |-> tables[t]]
      [] s.op = "add ref" -> [tables EXCEPT ![s.on].refs = @ \union {s.ref}]
      [] s.op = "drop ref" -> [tables EXCEPT ![s.on].refs = @ \ {s.ref}]
      [] s.op = "alter ref" -> [tables EXCEPT ![s.on].refs = (@ \ {s.was}) \union {s.ref}]
      [] s.op = "add check" -> [tables EXCEPT ![s.on].checks = @ \union {s.check}]
      [] s.op = "drop check" -> [tables EXCEPT ![s.on].checks = @ \ {s.check}]
      [] OTHER -> tables

RowsAfter(rows, s) ==
    CASE s.op = "drop" -> [rows EXCEPT !.full = @ \ {s.on}]
      [] s.op = "drop ref" /\ s.on = "analysis_runs" -> WithoutColumn(rows, s.ref)
      [] s.op = "copy governed snapshots" ->
            IF "analysis_runs" \in rows.full /\ rows.governed /\ ~rows.legacy
            THEN [rows EXCEPT !.full = @ \union {"dataset_snapshots"}, !.legacy = TRUE]
            ELSE rows
      [] s.op = "fill scores" ->
            [rows EXCEPT !.withheld = FALSE, !.band = IF @ \in Bands THEN @ ELSE "Critical"]
      [] OTHER -> rows

Effect(db, s) ==
    [tables |-> TablesAfter(db.tables, s), rows |-> RowsAfter(db.rows, s), ok |-> db.ok]

Applicable(db, s) ==
    CASE s.op = "create" -> /\ s.on \notin Names(db)
                            /\ \A r \in s.table.refs : r.table \in Names(db) \union {s.on}
      [] s.op = "drop" -> s.on \in Names(db) /\ Referring(db, s.on) \subseteq {s.on}
      [] s.op = "add ref" -> {s.on, s.ref.table} \subseteq Names(db)
      [] s.op = "drop ref" -> s.on \in Names(db) /\ s.ref \in db.tables[s.on].refs
      [] s.op = "alter ref" -> s.on \in Names(db) /\ s.was \in db.tables[s.on].refs
      [] s.op = "add check" -> s.on \in Names(db)
      [] s.op = "drop check" -> s.on \in Names(db) /\ s.check \in db.tables[s.on].checks
      [] s.op = "copy governed snapshots" ->
            {"dataset_snapshots", "governed_dataset_snapshots"} \subseteq Names(db)
      [] s.op = "fill scores" -> "health_snapshots" \in Names(db)

\* Statements after a refused one are not executed.
Execute(db, s) ==
    IF ~db.ok THEN db
    ELSE IF Applicable(db, s) /\ Conforms(Effect(db, s)) THEN Effect(db, s)
         ELSE [db EXCEPT !.ok = FALSE]

Script(db, statements) == FoldLeft(Execute, db, statements)

-----------------------------------------------------------------------------
(* Deleting the row of t. The triggers of a statement run in rounds: those of *)
(* round n + 1 are for the rows that round n deleted.                         *)

MaxRounds == 6   \* bound: more than the longest chain of cascades

Cascaded(db, gone) ==
    gone \union {u \in db.rows.full : \E r \in db.tables[u].refs :
                    r.on = "cascade" /\ r.table \in gone}

\* The tables whose rows are gone after each round.
Rounds(db, t) ==
    FoldLeft(LAMBDA rounds, n : Append(rounds, Cascaded(db, Last(rounds))), <<{t}>>,
             [n \in 1..MaxRounds |-> n])

\* A key without a cascade must find the referring rows gone by the time its
\* own trigger runs; one that is set to null needs a column that may be.
Resists(db, u, gone, round) ==
    \E r \in db.tables[u].refs :
        /\ r.table \in gone
        /\ r.on # "cascade"
        /\ ~(r.on = "set null" /\ r.optional)
        /\ u \notin round

Resisting(db, t) ==
    UNION {UNION {{u \in db.rows.full : Resists(db, u,
                      rounds[n] \ (IF n = 1 THEN {} ELSE rounds[n - 1]), rounds[n])}
                  : n \in DOMAIN rounds} : rounds \in {Rounds(db, t)}}

Deletable(db, t) == Resisting(db, t) = {}

Survivors(db, t) == db.rows.full \ Last(Rounds(db, t))
=============================================================================
