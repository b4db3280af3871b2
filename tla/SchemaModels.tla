----------------------------- MODULE SchemaModels -----------------------------
(* The tables as the ORM classes declare them (persistence/models.py,          *)
(* action_models.py, governance_models.py).                                    *)
EXTENDS DatabaseSchema

CoreTables ==
    [organizations |-> Table({}, {{"slug"}}, {Values("status", {"active", "suspended"})}),
     projects |-> Table(Cascades({"organizations"}), {{"organization_id", "code"}},
        {Values("status", {"planning", "active", "on_hold", "completed", "closed"})}),
     source_files |-> Table(Owned, {}, {}),
     dataset_snapshots |-> Table(Owned \union {Ref("source_files", "restrict")}, {},
        {Values("status", {"validated", "failed"})}),
     rule_catalogue_versions |-> Table({}, {{"version", "sha256"}}, {}),
     analysis_runs |-> Table(
        Owned \union {OptionalRef("dataset_snapshots", "restrict"),
                      OptionalRef("governed_dataset_snapshots", "restrict"),
                      Ref("rule_catalogue_versions", "restrict")}, {},
        {Values("status", {"queued", "running", "succeeded", "failed"}), OneSnapshot})]

FindingTables ==
    [findings |-> Table(Owned \union Cascades({"analysis_runs"}),
        {{"analysis_run_id", "engine_finding_id"}},
        {Values("severity", {"critical", "warning", "observation"}),
         Values("status", {"open", "acknowledged", "resolved", "dismissed"})}),
     finding_evidence |-> Table(Cascades({"findings"}), {{"finding_id", "evidence_order"}}, {}),
     approved_exceptions |-> Table(
        Cascades({"organizations"}) \union {OptionalRef("projects", "cascade")}, {},
        {Values("status", {"active", "expired", "revoked"})}),
     audit_logs |-> Table(
        Cascades({"organizations"}) \union {OptionalRef("projects", "set null")}, {}, {}),
     product_events |-> Table(
        Cascades({"organizations"}) \union Users
            \union {OptionalRef(t, "set null") : t \in {"projects", "analysis_runs", "findings"}},
        {}, {Values("indexes", {"organization_id", "user_id", "project_id", "analysis_run_id",
                                "finding_id"})}),
     finding_feedback |-> Table(
        Owned \union Users \union Cascades({"analysis_runs"})
            \union {OptionalRef("findings", "cascade")}, {},
        {Values("rating", {"useful", "not_useful"}),
         Values("status", {"new", "reviewed", "archived"}),
         Values("indexes", {"organization_id", "user_id", "project_id", "analysis_run_id",
                            "finding_id"})})]

SimplifiedFact ==
    Table(Owned \union Cascades({"dataset_snapshots"}) \union {OptionalRef("raw_rows", "set null")},
          {}, {})

SimplifiedTables ==
    [raw_rows |-> Table(Owned \union Cascades({"source_files"}),
        {{"source_file_id", "sheet_name", "row_number"}}, {}),
     import_batches |-> Table(
        Owned \union Cascades({"source_files"})
            \union {OptionalRef("dataset_snapshots", "set null")}, {},
        {Values("status", {"pending", "processing", "completed", "failed"})}),
     import_column_mappings |-> Table(Owned, {{"project_id", "sheet_name", "source_column"}}, {}),
     wbs_nodes |-> SimplifiedFact, budget_records |-> SimplifiedFact,
     cost_records |-> SimplifiedFact, commitment_records |-> SimplifiedFact,
     schedule_activities |-> SimplifiedFact, progress_records |-> SimplifiedFact]

GovernedSnapshotTables ==
    [governed_mapping_profile_versions |-> Table({}, {{"version", "sha256"}}, {}),
     governed_dataset_snapshots |-> Table(
        Owned \union {Ref("source_files", "restrict"),
                      Ref("governed_mapping_profile_versions", "restrict"),
                      OptionalRef("governed_import_batches", "no action")},
        {{"id", "import_batch_id"}, {"dedupe_key"}},
        {Values("status", {"ingesting", "validated", "validated_with_errors", "failed"})}),
     governed_import_batches |-> Table(
        Owned \union Cascades({"governed_dataset_snapshots"})
            \union {Ref("governed_mapping_profile_versions", "restrict")},
        {{"dataset_snapshot_id"}, {"dataset_snapshot_id", "id"}},
        {Values("status", {"ingesting", "completed", "failed"})})]

OfSnapshot == Owned \union Cascades({"governed_dataset_snapshots"})

GovernedRowTables ==
    [governed_dataset_domain_statuses |-> Table(OfSnapshot, {{"dataset_snapshot_id", "domain"}},
        {Values("status", {"valid", "warning", "blocked"})}),
     governed_raw_rows |-> Table(OfSnapshot \union {Ref("governed_import_batches", "no action")},
        {{"dataset_snapshot_id", "domain", "source_sheet", "source_row_number"},
         {"dataset_snapshot_id", "id"}},
        {Values("validation_status", {"valid", "warning", "invalid"})}),
     governed_wbs_nodes |-> Table(
        OfSnapshot \union {Ref("governed_raw_rows", "no action"),
                           OptionalRef("governed_wbs_nodes", "no action")},
        {{"dataset_snapshot_id", "source_key"}, {"raw_row_id"}, {"dataset_snapshot_id", "id"}},
        {})]

\* The mixin's columns and _governed_canonical_constraints.
GovernedFact ==
    Table(OfSnapshot \union {Ref("governed_raw_rows", "no action"),
                             OptionalRef("governed_wbs_nodes", "no action")},
          {{"dataset_snapshot_id", "source_key"}, {"raw_row_id"}}, {})

GovernedFactTables ==
    [governed_budget_records |-> GovernedFact, governed_actual_cost_records |-> GovernedFact,
     governed_commitment_records |-> GovernedFact, governed_schedule_activities |-> GovernedFact,
     governed_progress_records |-> GovernedFact]

HealthAndUserTables ==
    [health_snapshots |-> Table(Owned \union Cascades({"analysis_runs"}), {{"analysis_run_id"}},
        {Values("score_band", Bands \union {"Partial", "Not Computed"}),
         Values("computation_status", {"computed", "partial", "not_computed"})}),
     users |-> Table({}, {{"email"}}, {Values("status", {"active", "inactive", "suspended"})}),
     organization_members |-> Table(Cascades({"organizations", "users"}),
        {{"organization_id", "user_id"}},
        {Values("role", {"org_admin", "org_member", "org_viewer"})}),
     project_members |-> Table(Cascades({"projects", "users"}), {{"project_id", "user_id"}},
        {Values("role", {"project_manager", "project_member", "project_viewer"})})]

AITables ==
    [ai_conversations |-> Table(Owned \union Users, {}, {}),
     ai_messages |-> Table(Cascades({"ai_conversations"}), {},
        {Values("role", {"user", "assistant", "system", "tool"})}),
     ai_insights |-> Table(Owned \union Cascades({"analysis_runs"}), {{"analysis_run_id"}},
        {Values("status", {"pending", "generating", "ready", "failed"})})]

ReportAndJobTables ==
    [report_packages |-> Table(Owned \union Users \union {Ref("analysis_runs", "restrict")}, {},
        {Values("report_type", {"monthly", "executive", "cost", "schedule", "progress"})}),
     analysis_jobs |-> Table(Owned \union {OptionalRef("analysis_runs", "set null")}, {},
        {Values("status", {"queued", "processing", "completed", "failed"})})]

ActionTables ==
    [finding_actions |-> Table(Owned \union Cascades({"findings"}), {},
        {Values("priority", {"high", "medium", "low"}),
         Values("status", {"open", "in_review", "completed", "cancelled"})}),
     finding_action_history |-> Table(Cascades({"organizations", "finding_actions"}), {}, {})]

GovernanceTables ==
    [project_governance_policies |-> Table(Owned, {{"project_id"}}, {}),
     finding_closure_approvals |-> Table(Owned \union Cascades({"findings"}) \union Users, {},
        {Values("decision", {"pending", "approved", "rejected", "withdrawn"})}),
     governance_escalations |-> Table(
        Owned \union Cascades({"findings"}) \union Users
            \union {OptionalRef("finding_actions", "set null")}, {},
        {Values("escalation_type", {"finding_sla", "action_overdue"}),
         Values("severity", {"critical", "warning", "observation"}),
         Values("status", {"open", "acknowledged", "resolved"})})]

metadata ==
    Merged(CoreTables, Merged(FindingTables, Merged(SimplifiedTables,
    Merged(GovernedSnapshotTables, Merged(GovernedRowTables, Merged(GovernedFactTables,
    Merged(HealthAndUserTables, Merged(AITables, Merged(ReportAndJobTables,
    Merged(ActionTables, GovernanceTables))))))))))
=============================================================================
