------------------------------ MODULE Migrations ------------------------------
(* The revisions of alembic/versions: what each one comes after, and the       *)
(* statements of its upgrade and downgrade in their order. Statements about    *)
(* columns, indexes and checks that DatabaseSchema leaves out are left out.    *)
EXTENDS DatabaseSchema

Revisions ==
    {"20260817_0001", "20260821_0002", "20260822_0003", "20260904_0004", "20260905_0005",
     "20260823_0006", "20260823_0007", "20260823_0008", "20260825_0009", "20260825_0010",
     "20260825_0011", "20260906_0001", "20260831_0012", "20260831_0013", "20260907_0002",
     "20260908_0001"}

\* down_revision of each file.
down_revision ==
    [r \in Revisions |->
        CASE r = "20260817_0001" -> {}
          [] r = "20260821_0002" -> {"20260817_0001"}
          [] r = "20260822_0003" -> {"20260821_0002"}
          [] r = "20260904_0004" -> {"20260822_0003"}
          [] r = "20260905_0005" -> {"20260904_0004"}
          [] r = "20260823_0006" -> {"20260905_0005"}
          [] r = "20260823_0007" -> {"20260823_0006"}
          [] r = "20260823_0008" -> {"20260823_0007"}
          [] r = "20260825_0009" -> {"20260823_0008"}
          [] r = "20260825_0010" -> {"20260825_0009"}
          [] r = "20260825_0011" -> {"20260825_0010"}
          [] r = "20260906_0001" -> {"20260905_0005"}
          [] r = "20260831_0012" -> {"20260825_0011", "20260906_0001"}
          [] r = "20260831_0013" -> {"20260831_0012"}
          [] r = "20260907_0002" -> {"20260831_0013"}
          [] r = "20260908_0001" -> {"20260907_0002"}]

-----------------------------------------------------------------------------

phase4a_persistence == <<
    Create("organizations", Table({}, {{"slug"}}, {Values("status", {"active", "suspended"})})),
    Create("projects", Table(Cascades({"organizations"}), {{"organization_id", "code"}},
        {Values("status", {"planning", "active", "on_hold", "completed", "closed"})})),
    Create("source_files", Table(Owned, {}, {})),
    Create("dataset_snapshots", Table(Owned \union {Ref("source_files", "restrict")}, {},
        {Values("status", {"validated", "failed"})})),
    Create("rule_catalogue_versions", Table({}, {{"version", "sha256"}}, {})),
    Create("analysis_runs", Table(
        Owned \union {Ref(t, "restrict") : t \in {"dataset_snapshots", "rule_catalogue_versions"}},
        {}, {Values("status", {"queued", "running", "succeeded", "failed"})})),
    Create("findings", Table(Owned \union Cascades({"analysis_runs"}),
        {{"analysis_run_id", "engine_finding_id"}},
        {Values("severity", {"critical", "warning", "observation"}),
         Values("status", {"open", "acknowledged", "resolved", "dismissed"})})),
    Create("finding_evidence", Table(Cascades({"findings"}), {{"finding_id", "evidence_order"}}, {})),
    Create("approved_exceptions", Table(
        {Ref("organizations", "cascade"), OptionalRef("projects", "cascade")}, {},
        {Values("status", {"active", "expired", "revoked"})})),
    Create("audit_logs", Table(
        {Ref("organizations", "cascade"), OptionalRef("projects", "set null")}, {}, {}))>>

undo_phase4a_persistence == DropAll(<<
    "audit_logs", "approved_exceptions", "finding_evidence", "findings", "analysis_runs",
    "rule_catalogue_versions", "dataset_snapshots", "source_files", "projects", "organizations">>)

Lineage == Owned \union {Ref("dataset_snapshots", "cascade"), OptionalRef("raw_rows", "set null")}

phase4b_lineage == <<
    Create("raw_rows", Table(Owned \union Cascades({"source_files"}),
        {{"source_file_id", "sheet_name", "row_number"}}, {})),
    Create("import_batches", Table(
        Owned \union {Ref("source_files", "cascade"), OptionalRef("dataset_snapshots", "set null")},
        {}, {Values("status", {"pending", "processing", "completed", "failed"})})),
    Create("import_column_mappings", Table(Owned,
        {{"project_id", "sheet_name", "source_column"}}, {}))>>

\* Six tables with the same keys.
phase4b_facts ==
    LET tables == <<"wbs_nodes", "budget_records", "cost_records", "commitment_records",
                    "schedule_activities", "progress_records">>
    IN  [i \in DOMAIN tables |-> Create(tables[i], Table(Lineage, {}, {}))]

undo_phase4b_canonical_facts == DropAll(<<
    "progress_records", "schedule_activities", "commitment_records", "cost_records",
    "budget_records", "wbs_nodes", "import_column_mappings", "import_batches", "raw_rows">>)

phase5c_health_scoring == <<
    Create("health_snapshots", Table(Owned \union Cascades({"analysis_runs"}),
        {{"analysis_run_id"}}, {NotNull(Scores), Values("score_band", Bands)}))>>

undo_phase5c_health_scoring == <<Drop("health_snapshots")>>

phase4c_auth_rbac == <<
    Create("users", Table({}, {{"email"}}, {Values("status", {"active", "inactive", "suspended"})})),
    Create("organization_members", Table(Cascades({"organizations", "users"}),
        {{"organization_id", "user_id"}},
        {Values("role", {"org_admin", "org_member", "org_viewer"})})),
    Create("project_members", Table(Cascades({"projects", "users"}), {{"project_id", "user_id"}},
        {Values("role", {"project_manager", "project_member", "project_viewer"})}))>>

undo_phase4c_auth_rbac == DropAll(<<"project_members", "organization_members", "users">>)

phase6_ai_layer == <<
    Create("ai_conversations", Table(Owned \union Users, {}, {})),
    Create("ai_messages", Table(Cascades({"ai_conversations"}), {},
        {Values("role", {"user", "assistant", "system", "tool"})}))>>

undo_phase6_ai_layer == DropAll(<<"ai_messages", "ai_conversations">>)

actions_closure_governance == <<
    Create("finding_actions", Table(Owned \union Cascades({"findings"}), {},
        {Values("priority", {"high", "medium", "low"}),
         Values("status", {"open", "in_review", "completed", "cancelled"})})),
    Create("finding_action_history", Table(Cascades({"organizations", "finding_actions"}), {}, {}))>>

undo_actions_closure_governance == DropAll(<<"finding_action_history", "finding_actions">>)

approval_escalation_governance == <<
    Create("project_governance_policies", Table(Owned, {{"project_id"}}, {})),
    Create("finding_closure_approvals", Table(Owned \union Cascades({"findings"}) \union Users, {},
        {Values("decision", {"pending", "approved", "rejected", "withdrawn"})})),
    Create("governance_escalations", Table(
        Owned \union Cascades({"findings"}) \union Users
            \union {OptionalRef("finding_actions", "set null")}, {},
        {Values("escalation_type", {"finding_sla", "action_overdue"}),
         Values("severity", {"critical", "warning", "observation"}),
         Values("status", {"open", "acknowledged", "resolved"})}))>>

undo_approval_escalation_governance == DropAll(<<
    "governance_escalations", "finding_closure_approvals", "project_governance_policies">>)

\* A report belongs to its run only.
ReportOfItsRun == <<
    Create("report_packages", Table(
        Cascades({"organizations"}) \union Users \union {Ref("analysis_runs", "restrict")}, {},
        {Values("report_type", {"monthly", "executive", "cost", "schedule", "progress"})}))>>

persisted_report_packages == <<
    Create("report_packages", Table(
        Owned \union Users \union {Ref("analysis_runs", "restrict")}, {},
        {Values("report_type", {"monthly", "executive", "cost", "schedule", "progress"})}))>>

undo_persisted_report_packages == <<Drop("report_packages")>>

-----------------------------------------------------------------------------

TenantSnapshot == Owned \union Cascades({"governed_dataset_snapshots"})

governed_snapshots == <<
    Create("governed_mapping_profile_versions", Table({}, {{"version", "sha256"}}, {})),
    Create("governed_dataset_snapshots", Table(
        Owned \union {Ref("source_files", "restrict"),
                      Ref("governed_mapping_profile_versions", "restrict")},
        {{"id", "import_batch_id"}, {"dedupe_key"}},
        {Values("status", {"ingesting", "validated", "validated_with_errors", "failed"})}))>>

governed_batches == <<
    Create("governed_import_batches", Table(
        TenantSnapshot \union {Ref("governed_mapping_profile_versions", "restrict")},
        {{"dataset_snapshot_id"}, {"dataset_snapshot_id", "id"}},
        {Values("status", {"ingesting", "completed", "failed"})})),
    AddRef("governed_dataset_snapshots", OptionalRef("governed_import_batches", "no action"))>>

governed_rows == <<
    Create("governed_dataset_domain_statuses", Table(TenantSnapshot,
        {{"dataset_snapshot_id", "domain"}}, {Values("status", {"valid", "warning", "blocked"})})),
    Create("governed_raw_rows", Table(
        TenantSnapshot \union {Ref("governed_import_batches", "no action")},
        {{"dataset_snapshot_id", "domain", "source_sheet", "source_row_number"},
         {"dataset_snapshot_id", "id"}},
        {Values("validation_status", {"valid", "warning", "invalid"})})),
    Create("governed_wbs_nodes", Table(
        TenantSnapshot \union {Ref("governed_raw_rows", "no action"),
                               OptionalRef("governed_wbs_nodes", "no action")},
        {{"dataset_snapshot_id", "source_key"}, {"raw_row_id"}, {"dataset_snapshot_id", "id"}},
        {}))>>

\* _canonical_columns and _canonical_constraints.
CanonicalTable ==
    Table(TenantSnapshot \union {Ref("governed_raw_rows", "no action"),
                                 OptionalRef("governed_wbs_nodes", "no action")},
          {{"dataset_snapshot_id", "source_key"}, {"raw_row_id"}}, {})

governed_facts ==
    LET tables == <<"governed_budget_records", "governed_actual_cost_records",
                    "governed_commitment_records", "governed_schedule_activities",
                    "governed_progress_records">>
    IN  [i \in DOMAIN tables |-> Create(tables[i], CanonicalTable)]

undo_governed_canonical_schema ==
    <<DropRef("governed_dataset_snapshots", OptionalRef("governed_import_batches", "no action"))>>
    \o DropAll(<<
        "governed_progress_records", "governed_schedule_activities",
        "governed_commitment_records", "governed_actual_cost_records", "governed_budget_records",
        "governed_wbs_nodes", "governed_raw_rows", "governed_dataset_domain_statuses",
        "governed_import_batches", "governed_dataset_snapshots",
        "governed_mapping_profile_versions">>)

snapshot_analysis_metadata == <<
    AlterRef("analysis_runs", Ref("dataset_snapshots", "restrict"),
                              OptionalRef("dataset_snapshots", "restrict")),
    AddRef("analysis_runs", OptionalRef("governed_dataset_snapshots", "restrict")),
    AddCheck("analysis_runs", OneSnapshot)>>

undo_snapshot_analysis_metadata == <<
    DropCheck("analysis_runs", OneSnapshot),
    Update("copy governed snapshots"),
    DropRef("analysis_runs", OptionalRef("governed_dataset_snapshots", "restrict")),
    AlterRef("analysis_runs", OptionalRef("dataset_snapshots", "restrict"),
                              Ref("dataset_snapshots", "restrict"))>>

AllBands == Bands \union {"Partial", "Not Computed"}
ComputationStatus == Values("computation_status", {"computed", "partial", "not_computed"})

health_availability == <<
    DropCheck("health_snapshots", NotNull(Scores)),
    DropCheck("health_snapshots", Values("score_band", Bands)),
    AddCheck("health_snapshots", Values("score_band", AllBands)),
    AddCheck("health_snapshots", ComputationStatus)>>

\* The narrow check before the update that makes the rows fit it.
CheckBeforeFill == <<
    DropCheck("health_snapshots", ComputationStatus),
    DropCheck("health_snapshots", Values("score_band", AllBands)),
    AddCheck("health_snapshots", Values("score_band", Bands)),
    Update("fill scores"),
    AddCheck("health_snapshots", NotNull(Scores))>>

undo_health_availability == <<
    DropCheck("health_snapshots", ComputationStatus),
    Update("fill scores"),
    DropCheck("health_snapshots", Values("score_band", AllBands)),
    AddCheck("health_snapshots", Values("score_band", Bands)),
    AddCheck("health_snapshots", NotNull(Scores))>>

-----------------------------------------------------------------------------

ShortNames == Values("indexes", {"org", "user", "project", "run", "finding"})
LongNames == Values("indexes", {"organization_id", "user_id", "project_id", "analysis_run_id",
                                "finding_id"})

beta_telemetry_feedback == <<
    Create("product_events", Table(
        Cascades({"organizations"}) \union Users
            \union {OptionalRef(t, "set null") : t \in {"projects", "analysis_runs", "findings"}},
        {}, {ShortNames})),
    Create("finding_feedback", Table(
        Owned \union Users \union {Ref("analysis_runs", "cascade"), OptionalRef("findings", "cascade")},
        {}, {Values("rating", {"useful", "not_useful"}),
             Values("status", {"new", "reviewed", "archived"}), ShortNames}))>>

undo_beta_telemetry_feedback == DropAll(<<"finding_feedback", "product_events">>)

Rename(t, was, becomes) == <<DropCheck(t, was), AddCheck(t, becomes)>>

align_telemetry_index_names ==
    Rename("product_events", ShortNames, LongNames) \o Rename("finding_feedback", ShortNames, LongNames)

undo_align_telemetry_index_names ==
    Rename("finding_feedback", LongNames, ShortNames) \o Rename("product_events", LongNames, ShortNames)

ai_insights == <<
    Create("ai_insights", Table(Owned \union Cascades({"analysis_runs"}), {{"analysis_run_id"}},
        {Values("status", {"pending", "generating", "ready", "failed"})}))>>

undo_ai_insights == <<Drop("ai_insights")>>

\* The job goes with its run.
JobsOfRuns == <<
    Create("analysis_jobs", Table(Owned \union Cascades({"analysis_runs"}), {},
        {Values("status", {"queued", "processing", "completed", "failed"})}))>>

add_analysis_jobs == <<
    Create("analysis_jobs", Table(Owned \union {OptionalRef("analysis_runs", "set null")}, {},
        {Values("status", {"queued", "processing", "completed", "failed"})}))>>

undo_add_analysis_jobs == <<Drop("analysis_jobs")>>

-----------------------------------------------------------------------------

upgrade(revision) ==
    CASE revision = "20260817_0001" -> phase4a_persistence
      [] revision = "20260821_0002" -> phase4b_lineage \o phase4b_facts
      [] revision = "20260822_0003" -> phase5c_health_scoring
      [] revision = "20260904_0004" -> phase4c_auth_rbac
      [] revision = "20260905_0005" -> phase6_ai_layer
      [] revision = "20260823_0006" -> actions_closure_governance
      [] revision = "20260823_0007" -> approval_escalation_governance
      [] revision = "20260823_0008" -> persisted_report_packages
      [] revision = "20260825_0009" ->
            governed_snapshots \o governed_batches \o governed_rows \o governed_facts
      [] revision = "20260825_0010" -> snapshot_analysis_metadata
      [] revision = "20260825_0011" -> health_availability
      [] revision = "20260906_0001" -> beta_telemetry_feedback
      [] revision = "20260831_0012" -> <<>>
      [] revision = "20260831_0013" -> align_telemetry_index_names
      [] revision = "20260907_0002" -> ai_insights
      [] revision = "20260908_0001" -> add_analysis_jobs

downgrade(revision) ==
    CASE revision = "20260817_0001" -> undo_phase4a_persistence
      [] revision = "20260821_0002" -> undo_phase4b_canonical_facts
      [] revision = "20260822_0003" -> undo_phase5c_health_scoring
      [] revision = "20260904_0004" -> undo_phase4c_auth_rbac
      [] revision = "20260905_0005" -> undo_phase6_ai_layer
      [] revision = "20260823_0006" -> undo_actions_closure_governance
      [] revision = "20260823_0007" -> undo_approval_escalation_governance
      [] revision = "20260823_0008" -> undo_persisted_report_packages
      [] revision = "20260825_0009" -> undo_governed_canonical_schema
      [] revision = "20260825_0010" -> undo_snapshot_analysis_metadata
      [] revision = "20260825_0011" -> undo_health_availability
      [] revision = "20260906_0001" -> undo_beta_telemetry_feedback
      [] revision = "20260831_0012" -> <<>>
      [] revision = "20260831_0013" -> undo_align_telemetry_index_names
      [] revision = "20260907_0002" -> undo_ai_insights
      [] revision = "20260908_0001" -> undo_add_analysis_jobs
=============================================================================
