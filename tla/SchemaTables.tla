----------------------------- MODULE SchemaTables -----------------------------
(***************************************************************************)
(* The tables, indexes and foreign keys of the framework's modules.  Only  *)
(* the columns that a key, an index, a default or a check names are        *)
(* listed; a module never changes the type of a column.                    *)
(***************************************************************************)
EXTENDS Null, Sequences

\* A column is found again by its id when its name has changed.
Column(name) ==
  [id |-> name, name |-> name, type |-> "scalar", values |-> {}, nullable |-> FALSE,
   key |-> FALSE, unique |-> FALSE, default |-> None, generated |-> None]
Required(names) == {Column(n) : n \in names}
Optional(names) == {[c EXCEPT !.nullable = TRUE] : c \in Required(names)}
KeyColumns(names) == {[c EXCEPT !.key = TRUE] : c \in Required(names)}
Distinct(names) == {[c EXCEPT !.unique = TRUE] : c \in Required(names)}
DistinctOptional(names) == {[c EXCEPT !.nullable = TRUE] : c \in Distinct(names)}
Defaulted(name, default) == {[Column(name) EXCEPT !.default = default]}
Generated(how, columns) == {[c EXCEPT !.generated = how] : c \in columns}
Enumerated(name, values) == {[Column(name) EXCEPT !.type = "enum", !.values = values]}

Table(name, columns) == [id |-> name, name |-> name, columns |-> columns]
UniqueKey(table, columns) ==
  [id |-> <<table, columns>>, table |-> table, columns |-> columns]
Index(name, table, columns) ==
  [id |-> name, name |-> name, table |-> table, columns |-> columns, unique |-> FALSE,
   predicate |-> None]
Where(index, predicate) == [index EXCEPT !.predicate = predicate]
ForeignKey(table, column, target, key, onDelete) ==
  [id |-> <<table, column>>, table |-> table, columns |-> <<column>>, target |-> target,
   keys |-> <<key>>, onDelete |-> onDelete]

Auth(name) == "_appstruct_auth_" \o name
Product(name) == "_appstruct_product_" \o name
Billing(name) == "_appstruct_billing_" \o name
Tenant(name) == "_appstruct_tenant_" \o name
Realtime(name) == "_appstruct_realtime_" \o name
-----------------------------------------------------------------------------
(* Tables *)

ImportTables ==
  {Table("_appstruct_import_batches", KeyColumns({"scope"}) \cup Generated("now", Required({"created_at"})))}

SavedViewTables ==
  {Table("_appstruct_saved_views",
         KeyColumns({"id"}) \cup Optional({"tenant_id"}) \cup Defaulted("revision", "1")
         \cup Required({"owner_id", "scope_key", "resource", "name", "visibility", "updated_at"}))}

AuthTables ==
  {Table(Auth("accounts"), KeyColumns({"user_id"}) \cup Required({"created_at"})),
   Table(Auth("sessions"), KeyColumns({"token_hash"}) \cup Required({"user_id", "expires_at"})
                           \cup Optional({"revoked_at"})),
   Table(Auth("oauth_accounts"), KeyColumns({"subject"}) \cup Required({"user_id"})),
   Table(Auth("api_tokens"), KeyColumns({"id"}) \cup Distinct({"token_hash"})
                             \cup Required({"user_id", "created_at"})),
   Table(Auth("login_attempts"), KeyColumns({"key"})), Table(Auth("mail_capture"), KeyColumns({"id"}))}
  \cup {Table(Auth(t), KeyColumns({"token_hash"}) \cup Required({"user_id"}) \cup Optional({"used_at"})) :
          t \in {"password_resets", "email_verifications"}}
  \cup SavedViewTables

ProductTables ==
  {Table(Product("profiles"), KeyColumns({"user_id"})),
   Table(Product("notifications"), KeyColumns({"id"}) \cup Distinct({"event_key"})
                                   \cup Required({"user_id", "created_at"})
                                   \cup Optional({"tenant_id"})),
   Table(Product("credit_ledger"), KeyColumns({"id"}) \cup Distinct({"operation_key"})
                                   \cup Required({"tenant_id"}) \cup Optional({"expires_at"})),
   Table(Product("credit_reservations"), KeyColumns({"id"})),
   Table(Product("credit_purchases"), KeyColumns({"session_id"}) \cup Optional({"payment_intent"})),
   Table(Product("payments"), KeyColumns({"charge_id"}) \cup Optional({"payment_intent"})),
   Table(Product("events"), KeyColumns({"id"}) \cup Distinct({"event_key"}) \cup Optional({"actor_id"})
                            \cup Required({"kind", "occurred_at"}))}

TenantTables ==
  {Table(Tenant("organizations"), KeyColumns({"id"}) \cup Required({"created_by"})),
   Table(Tenant("memberships"), KeyColumns({"organization_id", "user_id"})),
   Table(Tenant("invitations"), KeyColumns({"id"}) \cup Distinct({"token_hash"})
                                \cup Required({"organization_id", "invited_by", "created_at"}))}

AuditTables ==
  {Table("_appstruct_audit_events",
         KeyColumns({"id"}) \cup Optional({"actor_id", "tenant_id"}) \cup Required({"occurred_at"}))}

MailTables == {Table("_appstruct_mail_deliveries", KeyColumns({"id"}) \cup Optional({"tenant_id"}))}

\* The columns of a table whose rows are claimed for work.
ClaimedColumns(states, due) ==
  KeyColumns({"id"}) \cup DistinctOptional({"idempotency_key"}) \cup Required({due, "created_at"})
  \cup Optional({"tenant_id", "locked_until"}) \cup Enumerated("status", states)

JobTables ==
  {Table("_appstruct_jobs",
         ClaimedColumns({"queued", "running", "succeeded", "dead", "cancelled"}, "run_at")),
   Table("_appstruct_job_schedules",
         KeyColumns({"id"}) \cup Distinct({"name"}) \cup Defaulted("paused", "false"))}

WebhookTables ==
  {Table("_appstruct_webhook_deliveries",
         ClaimedColumns({"pending", "delivering", "succeeded", "dead"}, "next_attempt_at"))}

RealtimeTables ==
  {Table(Realtime("presence"), KeyColumns({"connection_id"})
                               \cup Required({"actor_id", "connected_at", "expires_at"})
                               \cup Optional({"tenant_id", "resource", "record_id"})),
   Table(Realtime("events"), Generated("auto_increment", KeyColumns({"sequence"}))
                             \cup Distinct({"id"}) \cup Required({"occurred_at"})),
   Table(Realtime("locks"), KeyColumns({"lock_key"}) \cup Distinct({"lease_token"})
                            \cup Required({"actor_id"}) \cup Optional({"tenant_id"}))}

FileTables ==
  {Table("_appstruct_files", KeyColumns({"id"}) \cup Distinct({"object_key"}) \cup Optional({"tenant_id"})
                             \cup Defaulted("reference_owners", "[]")
                             \cup Generated("now", Optional({"unreferenced_at"}))
                             \cup Defaulted("deleting", "false")),
   Table("_appstruct_file_uploads", KeyColumns({"id"}) \cup Required({"actor_id", "expires_at"})
                                    \cup Optional({"file_id"}) \cup Defaulted("cancelled", "false"))}

ReportTables ==
  {Table("_appstruct_report_templates", KeyColumns({"id"}) \cup Required({"name", "version"})),
   Table("_appstruct_report_runs",
         KeyColumns({"id"}) \cup Distinct({"idempotency_scope"})
         \cup DistinctOptional({"execution_job_id", "result_file_id", "result_object_key"})
         \cup Required({"template_id", "created_at", "expires_at"})
         \cup Optional({"tenant_id", "actor_id"})
         \cup Enumerated("paper", {"a4", "letter"})
         \cup Enumerated("orientation", {"portrait", "landscape"})
         \cup Enumerated("stage", {"queued", "rendering", "publishing", "succeeded", "failed",
                                   "cancelled"}))}

ActivityTables ==
  {Table("_appstruct_activity_entries",
         KeyColumns({"id"}) \cup Required({"resource", "record_id", "occurred_at"})
         \cup Optional({"tenant_id", "actor_id", "attachment_file_id", "withdrawn_at",
                        "withdrawn_by"})
         \cup Enumerated("kind", {"comment", "system"}))}

BillingTables ==
  {Table(Billing("customers"), KeyColumns({"id"}) \cup Distinct({"organization_id", "provider_customer_id"})),
   Table(Billing("subscriptions"), KeyColumns({"id"}) \cup Required({"organization_id"})
                                   \cup Distinct({"provider_subscription_id"})
                                   \cup Defaulted("cancel_at_period_end", "false")
                                   \cup Defaulted("provider_event_created_at", "0")),
   Table(Billing("events"), KeyColumns({"event_id"})),
   Table(Billing("usage"), KeyColumns({"id"}) \cup Required({"organization_id", "entitlement"})
                           \cup Defaulted("free", "false") \cup Defaulted("refunded", "false"))}

TablesOf(m) ==
  CASE m = "auth" -> AuthTables \cup ProductTables
    [] m = "tenant" -> TenantTables
    [] m = "audit" -> AuditTables
    [] m = "mail" -> MailTables
    [] m = "jobs" -> JobTables
    [] m = "webhooks" -> WebhookTables
    [] m = "realtime" -> RealtimeTables
    [] m = "file" -> FileTables
    [] m = "report" -> ReportTables
    [] m = "activity" -> ActivityTables
    [] m = "billing" -> BillingTables
-----------------------------------------------------------------------------
(* Composite unique keys and indexes *)

UniqueKeysOf(m) ==
  CASE m = "auth" -> {UniqueKey("_appstruct_saved_views",
                                <<"owner_id", "scope_key", "resource", "name">>)}
    [] m = "report" -> {UniqueKey("_appstruct_report_templates", <<"name", "version">>)}
    [] OTHER -> {}

AuthIndexes ==
  {Index("auth_accounts_created", Auth("accounts"), <<"created_at", "user_id">>),
   Index("auth_sessions_user", Auth("sessions"), <<"user_id", "revoked_at", "expires_at">>),
   Index("auth_api_tokens_user", Auth("api_tokens"), <<"user_id", "created_at", "id">>),
   Index("auth_password_resets_user", Auth("password_resets"), <<"user_id", "used_at">>),
   Index("auth_email_verifications_user", Auth("email_verifications"), <<"user_id", "used_at">>),
   Index("saved_views_owner", "_appstruct_saved_views",
         <<"owner_id", "scope_key", "resource", "updated_at", "id">>),
   Index("saved_views_team", "_appstruct_saved_views",
         <<"tenant_id", "resource", "visibility", "updated_at", "id">>)}

ProductIndexes ==
  {Index("inbox", Product("notifications"), <<"user_id", "tenant_id", "created_at", "id">>),
   Index("ledger", Product("credit_ledger"), <<"tenant_id", "expires_at">>),
   Index("events", Product("events"), <<"kind", "occurred_at", "actor_id">>),
   Index("retention", Product("events"), <<"actor_id", "kind", "occurred_at">>),
   Index("payments", Product("payments"), <<"payment_intent">>),
   Index("purchases", Product("credit_purchases"), <<"payment_intent">>)}

TenantIndexes ==
  {Index("tenant_memberships_user", Tenant("memberships"), <<"user_id", "organization_id">>),
   Index("tenant_invitations_organization", Tenant("invitations"),
         <<"organization_id", "created_at", "id">>)}

AuditIndexes ==
  {Index("audit_events_timeline", "_appstruct_audit_events", <<"occurred_at", "id">>),
   Index("audit_events_tenant_timeline", "_appstruct_audit_events",
         <<"tenant_id", "occurred_at", "id">>)}

FileIndexes ==
  {Where(Index("pending_uploads", "_appstruct_file_uploads", <<"actor_id", "expires_at">>),
         "(file_id IS NULL) AND (NOT cancelled)"),
   Where(Index("unreferenced", "_appstruct_files", <<"unreferenced_at", "id">>),
         "reference_owners = '[]'::jsonb")}

\* The indexes of a table whose rows are claimed for work.
ClaimedIndexes(table, waiting, due, running, name) ==
  {Where(Index(name \o "_" \o waiting, table, <<due, "id">>), waiting),
   Where(Index(name \o "_running_lease", table, <<"locked_until", "id">>), running),
   Index(name \o "_admin_timeline", table, <<"status", "created_at", "id">>)}

RealtimeIndexes ==
  {Index("realtime_presence_scope", Realtime("presence"),
         <<"tenant_id", "resource", "record_id", "connected_at", "connection_id">>),
   Index("realtime_presence_expiry", Realtime("presence"), <<"expires_at">>),
   Index("realtime_events_expiry", Realtime("events"), <<"occurred_at">>)}

ReportIndexes ==
  {Index("runs_actor_timeline", "_appstruct_report_runs",
         <<"tenant_id", "actor_id", "created_at", "id">>),
   Index("runs_stage_timeline", "_appstruct_report_runs",
         <<"tenant_id", "stage", "created_at", "id">>),
   Index("runs_expiry", "_appstruct_report_runs", <<"expires_at", "id">>)}

ActivityIndexes ==
  {Index("record_timeline", "_appstruct_activity_entries",
         <<"tenant_id", "resource", "record_id", "occurred_at", "id">>),
   Index("actor_timeline", "_appstruct_activity_entries",
         <<"tenant_id", "actor_id", "occurred_at", "id">>),
   Where(Index("governance_timeline", "_appstruct_activity_entries",
               <<"tenant_id", "withdrawn_at", "id">>), "withdrawn_at IS NOT NULL")}

IndexesOf(m) ==
  CASE m = "auth" -> AuthIndexes \cup ProductIndexes
    [] m = "tenant" -> TenantIndexes
    [] m = "audit" -> AuditIndexes
    [] m = "file" -> FileIndexes
    [] m = "jobs" -> ClaimedIndexes("_appstruct_jobs", "queued", "run_at", "running", "jobs")
    [] m = "webhooks" -> ClaimedIndexes("_appstruct_webhook_deliveries", "pending",
                                        "next_attempt_at", "delivering", "webhooks")
    [] m = "realtime" -> RealtimeIndexes
    [] m = "report" -> ReportIndexes
    [] m = "activity" -> ActivityIndexes
    [] m = "billing" -> {Where(Index("free_usage", Billing("usage"),
                                     <<"organization_id", "entitlement">>),
                               "free AND (NOT refunded)")}
    [] OTHER -> {}
-----------------------------------------------------------------------------
(* Foreign keys.  user: the table and the key of the application's users. *)

ToUser(user, table, columns, onDelete) ==
  {ForeignKey(table, c, user.table, user.key, onDelete) : c \in columns}
ToAccount(table, column) ==
  ForeignKey(table, column, Auth("accounts"), "user_id", "cascade")
ToOrganization(table, column, onDelete) ==
  ForeignKey(table, column, Tenant("organizations"), "id", onDelete)

AuthKeys(user) ==
  ToUser(user, Auth("accounts"), {"user_id"}, "cascade")
  \cup {ToAccount(Auth(t), "user_id") : t \in {"sessions", "password_resets",
                                                "email_verifications", "oauth_accounts",
                                                "api_tokens"}}
  \cup {ToAccount("_appstruct_saved_views", "owner_id")}
  \cup {ToAccount(Product(t), "user_id") : t \in {"profiles", "notifications"}}

TenantKeys(user) ==
  ToUser(user, Tenant("organizations"), {"created_by"}, "restrict")
  \cup ToUser(user, Tenant("memberships"), {"user_id"}, "cascade")
  \cup ToUser(user, Tenant("invitations"), {"invited_by"}, "restrict")
  \cup {ToOrganization(Tenant(t), "organization_id", "cascade") : t \in {"memberships", "invitations"}}

ReportKeys(user) ==
  ToUser(user, "_appstruct_report_runs", {"actor_id"}, "set_null")
  \cup {ForeignKey("_appstruct_report_runs", "execution_job_id", "_appstruct_jobs", "id", "restrict"),
        ForeignKey("_appstruct_report_runs", "template_id", "_appstruct_report_templates", "id",
                   "restrict"),
        ForeignKey("_appstruct_report_runs", "result_file_id", "_appstruct_files", "id", "set_null")}

ActivityKeys(user, on) ==
  ToUser(user, "_appstruct_activity_entries", {"actor_id", "withdrawn_by"}, "set_null")
  \cup (IF "file" \in on
        THEN {ForeignKey("_appstruct_activity_entries", "attachment_file_id", "_appstruct_files",
                         "id", "set_null")}
        ELSE {})

\* What a module's rows refer to, organizations aside.
KeysOf(m, user, on) ==
  CASE m = "auth" -> AuthKeys(user)
    [] m = "tenant" -> TenantKeys(user)
    [] m = "audit" -> ToUser(user, "_appstruct_audit_events", {"actor_id"}, "set_null")
    [] m = "realtime" -> UNION {ToUser(user, Realtime(t), {"actor_id"}, "cascade") :
                                  t \in {"presence", "locks"}}
    [] m = "report" -> ReportKeys(user)
    [] m = "activity" -> ActivityKeys(user, on)
    [] m = "billing" -> {ToOrganization(Billing(t), "organization_id", "cascade") :
                           t \in {"customers", "subscriptions", "usage"}}
    [] OTHER -> {}

\* The organization of a module's rows, if the application has tenants.
TenantKeysOf(m) ==
  CASE m = "auth" -> {ToOrganization("_appstruct_saved_views", "tenant_id", "cascade")}
    [] m = "audit" -> {ToOrganization("_appstruct_audit_events", "tenant_id", "set_null")}
    [] m = "mail" -> {ToOrganization("_appstruct_mail_deliveries", "tenant_id", "set_null")}
    [] m = "jobs" -> {ToOrganization("_appstruct_jobs", "tenant_id", "set_null")}
    [] m = "webhooks" -> {ToOrganization("_appstruct_webhook_deliveries", "tenant_id", "set_null")}
    [] m = "realtime" -> {ToOrganization(Realtime(t), "tenant_id", "cascade") :
                            t \in {"presence", "locks"}}
    [] m = "file" -> {ToOrganization("_appstruct_files", "tenant_id", "set_null")}
    [] m = "report" -> {ToOrganization("_appstruct_report_runs", "tenant_id", "restrict")}
    [] m = "activity" -> {ToOrganization("_appstruct_activity_entries", "tenant_id", "restrict")}
    [] OTHER -> {}
=============================================================================
