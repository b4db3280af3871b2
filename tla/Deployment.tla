------------------------------ MODULE Deployment ------------------------------
(* The service and its database over their deployments: alembic moves the      *)
(* schema from one revision to the next, up or down, while no request is       *)
(* served; at the last revision workbooks are analysed (AnalysisPipeline), and *)
(* what a request leaves is in the tables (DatabaseSchema) when the next       *)
(* migration, or the deletion of the project, comes. A command that runs       *)
(* several revisions is as many steps. One project is created in a behaviour.  *)
EXTENDS AnalysisPipeline, Migrations, SchemaModels

VARIABLES
    applied,    \* the revisions that have been applied
    db          \* the database: its tables, the rows of the project

deployment == <<vars, applied, db>>

DeploymentInit == Init /\ applied = {} /\ db = Empty

-----------------------------------------------------------------------------
(* Migrations. A command whose statement is refused changes nothing: its      *)
(* transaction is rolled back.                                                *)

MayUpgrade(r) == r \notin applied /\ down_revision[r] \subseteq applied
MayDowngrade(r) == r \in applied /\ ~\E c \in applied : r \in down_revision[c]

Upgrade(r) ==
    /\ Nothing /\ MayUpgrade(r)
    /\ \E after \in {Script(db, upgrade(r))} : after.ok /\ db' = after
    /\ applied' = applied \union {r}
    /\ UNCHANGED vars

Downgrade(r) ==
    /\ Nothing /\ MayDowngrade(r)
    /\ \E after \in {Script(db, downgrade(r))} : after.ok /\ db' = after
    /\ applied' = applied \ {r}
    /\ UNCHANGED vars

-----------------------------------------------------------------------------
(* Serving.                                                                   *)

AtHead == applied = Revisions

Serve == AtHead /\ db.rows = NoRows /\ Next /\ UNCHANGED <<applied, db>>

\* The tables an ingest writes; those of domains without rows are counted too,
\* which can only get in the way of more statements.
SnapshotRows ==
    IF snapshot = None THEN {}
    ELSE {"source_files"} \union DOMAIN GovernedSnapshotTables
         \union DOMAIN GovernedRowTables \union DOMAIN GovernedFactTables

\* A failed run has no findings and no health snapshot.
RunRows ==
    IF run = None THEN {}
    ELSE {"rule_catalogue_versions", "analysis_runs"}
         \union (IF health = None THEN {} ELSE {"health_snapshots", "ai_insights"})
         \union (IF health = None \/ run.execution.findings = {} THEN {}
                 ELSE {"findings", "finding_evidence"})

\* What users and workers add to a project that has findings.
Work == {"project_members", "finding_actions", "finding_action_history", "analysis_jobs",
         "project_governance_policies", "finding_closure_approvals", "governance_escalations",
         "report_packages", "ai_conversations", "ai_messages", "product_events", "finding_feedback"}

\* The requests are over; what they wrote stays, with or without the work of
\* the users.
Settle(work) ==
    /\ ~Nothing
    /\ work => "findings" \in RunRows
    /\ db' = [db EXCEPT !.rows =
          [full |-> {"organizations", "users", "organization_members", "projects", "audit_logs"}
                    \union SnapshotRows \union RunRows \union (IF work THEN Work ELSE {}),
           legacy |-> FALSE, governed |-> run # None,
           band |-> IF health = None THEN "Critical" ELSE health.score_band,
           withheld |-> health # None /\ (health.overall = None
                                          \/ \E c \in DOMAIN health.scores : health.scores[c] = None)]]
    /\ imported' = None /\ book' = None /\ extracted' = None /\ mapped' = None
    /\ snapshot' = None /\ run' = None /\ health' = None /\ error' = None
    /\ UNCHANGED applied

\* session.delete of the project row; the database does the rest.
delete_project ==
    /\ Nothing /\ AtHead
    /\ "projects" \in db.rows.full
    /\ Deletable(db, "projects")
    /\ db' = [db EXCEPT !.rows.full = Survivors(db, "projects")]
    /\ UNCHANGED <<vars, applied>>

DeploymentNext ==
    \/ \E r \in Revisions : Upgrade(r)
    \/ \E r \in Revisions : Downgrade(r)
    \/ Serve
    \/ \E work \in BOOLEAN : Settle(work)
    \/ delete_project

DeploymentSpec == DeploymentInit /\ [][DeploymentNext]_deployment

-----------------------------------------------------------------------------

\* Whatever the order of the branches, whatever the rows that the service
\* wrote, no statement of a migration is refused: a table exists when it is
\* referred to, nothing refers to it when it is dropped, and rows are made to
\* fit a constraint before it is added. A downgrade undoes its upgrade to the
\* last constraint: a redeployment starts from the schema it expects.
MigrationsApplyAndUndo ==
    Nothing =>
        /\ \A r \in Revisions : MayUpgrade(r) =>
              /\ Script(db, upgrade(r)).ok
              /\ Script(Script(db, upgrade(r)), downgrade(r)).tables = db.tables
        /\ \A r \in Revisions : MayDowngrade(r) => Script(db, downgrade(r)).ok

\* The migrated schema is the one that the ORM classes declare, with the keys,
\* deletion rules and checks that comparing metadata does not report.
HeadIsTheModels == Nothing /\ AtHead => db.tables = metadata

\* A project can always be deleted, whatever was written for it, and no row
\* that is left refers to it or to a row that is gone.
DeletionTakesTheProject ==
    (Nothing /\ AtHead /\ "projects" \in db.rows.full) =>
        /\ Deletable(db, "projects")
        /\ \A t \in Survivors(db, "projects") : \A r \in db.tables[t].refs :
              r.table \in db.rows.full \ Survivors(db, "projects") => r.on = "set null"
=============================================================================
