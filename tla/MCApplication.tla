--------------------------- MODULE MCApplication ---------------------------
(* Parts of a generated backend for TLC: report runs, stored files, realtime   *)
(* events, credits and subscriptions, and the migrations of its schema.  They  *)
(* share no row, so that an instance is about one of them, chosen initially.   *)
EXTENDS ReportRuns, StoredFiles, RealtimeEvents, Subscriptions, CreditLedger, TLC

CONSTANTS a1, a2, b1, b2, b3, k1

VARIABLES
  part,
  version, catalog, migrated, rejected

backgroundVars == <<fileVars, eventVars>>
tenantVars == <<creditVars, billingVars>>
schemaVars == <<version, catalog, migrated, rejected>>
-----------------------------------------------------------------------------
Publications == {<<"q", b1>>, <<"q", b2>>, <<"p", b3>>}

Sample == INSTANCE MCSchemaPlans
Versions == Sample!Versions
Inspectable == Sample!Inspectable

Schemas == INSTANCE SchemaPlans WITH
  Specs <- Versions, Revises <- Sample!Follows, Inspected <- Inspectable,
  Lowercase <- Sample!Capital, Mentions <- Sample!Contains,
  spec <- version, database <- catalog, outcome <- migrated

ASSUME /\ FilesAssumption /\ SubscriptionsAssumption /\ EventsAssumption
       /\ LedgerAssumption
-----------------------------------------------------------------------------
\* The variables of an instantiated part that an instance is not about.
NoSchemas == version = None /\ catalog = None /\ migrated = None /\ rejected = None

ApplicationInit ==
  /\ part \in {"reports", "files", "events", "credits", "billing", "schemas"}
  /\ Init /\ FilesInit /\ EventsInit /\ BillingInit /\ LedgerInit
  /\ IF part = "schemas" THEN Schemas!SchemasInit ELSE NoSchemas

BackgroundNext ==
  \/ part = "files" /\ FilesNext /\ UNCHANGED eventVars
  \/ part = "events" /\ EventsNext /\ UNCHANGED fileVars

TenantNext ==
  \/ part = "credits" /\ LedgerNext /\ UNCHANGED billingVars
  \/ part = "billing" /\ BillingNext /\ UNCHANGED creditVars

ApplicationNext ==
  /\ \/ part = "reports" /\ Next /\ UNCHANGED <<backgroundVars, tenantVars, schemaVars>>
     \/ BackgroundNext /\ UNCHANGED <<vars, tenantVars, schemaVars>>
     \/ TenantNext /\ UNCHANGED <<vars, backgroundVars, schemaVars>>
     \/ part = "schemas" /\ Schemas!SchemasNext /\ UNCHANGED <<vars, backgroundVars, tenantVars>>
  /\ UNCHANGED part

ApplicationSpec ==
  ApplicationInit /\ [][ApplicationNext]_<<part, vars, backgroundVars, tenantVars, schemaVars>>

Alike == Permutations({a1, a2}) \cup Permutations({b1, b2})
-----------------------------------------------------------------------------
(* What is checked; the properties of the modules above are checked by name.  *)

\* Migrations lead to the schema a new installation has, whatever was added in
\* which order; they fail only for the reasons SchemaPlans names, clear only
\* what may be empty, and drift is reported when there is some (SchemaPlans).
SchemasAreSound == part = "schemas" => Schemas!SchemasAreSound
=============================================================================
