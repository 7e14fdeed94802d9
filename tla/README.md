# AppStruct: models and proofs

AppStruct is a compiler and command line (Rust) that turns a YAML App Spec into
a working application: a Rust backend over PostgreSQL, migrations and a web
client. What can go wrong in it, and what a unit test hardly reaches, is not
the text it generates but its protocols:

* the **command line** replaces trees and files, runs migrations and rebuilds a
  running application, while processes are killed, commands run at the same
  time and the developer goes on editing;
* the **generated backend** runs jobs, deliveries, reports and payments with
  leases, row locks and retries, on several processes over one database, and
  lets people sign in, join, edit and upload at the same time;
* the **runtime** starts, watches and stops the modules of a process.

This directory models those protocols in TLA+, checks them with TLC on small
instances and proves the most important results for all instances with TLAPS.
Paths below are relative to the repository; `codegen/` stands for
`crates/appstruct-codegen/`, `cli/` for `crates/appstruct-cli/src/`, `migrate/`
for `crates/appstruct-migrate/src/`, `tpl/` for
`crates/appstruct-codegen/templates/backend/`.

    tlc -workers 2 -config Leases.cfg MCLeases.tla
    tlapm SettlingProofs.tla

## 1. Inventory

| Component | State it keeps | Operations | Interacts with | What is hard | What makes it correct |
|---|---|---|---|---|---|
| Job queue (`codegen/src/backend/jobs.rs`, `jobs/lease.rs`) | `_appstruct_jobs`; in each lane the `Job` of `run_once` | enqueue, claim, heartbeat, complete, fail, admin retry and replay, cancel | everything asynchronous runs as a job | lanes overlap after a lost lease; late heartbeats; restarts; repeated keys | only the latest claim settles a job; settled jobs stay; every job settles |
| Schedules (`codegen/src/backend/jobs/schedule.rs`) | `_appstruct_job_schedules` | ensure, due, pause, resume, trigger | job queue | two releases at once, restarts | claims of a schedule are a period apart; what is due is claimed |
| Outbound webhooks (`codegen/src/backend/webhooks.rs`) | `_appstruct_webhook_deliveries` | publish, claim, complete, fail, retry, replay | receivers outside | a fixed lease without heartbeat | lanes do not share a delivery; deliveries settle |
| Report runs (`codegen/src/backend/report/`) | `_appstruct_report_runs`, usage, files, stored objects | create, render, publish, fail, cancel, retry, cleanup | job queue, billing allowance, file storage | publication outside of the lease; partial cleanups | a published report is whole and paid for, nothing is left behind |
| Credits and payments (`tpl/product/credits.rs`, `payments.rs`, `tpl/billing.rs`) | credit ledger, reservations, purchases, payments, billing events | reserve, refund, grant, checkout, webhook, admin replay | business transactions, payment provider | concurrent spending, month ends, events in any order | no credit is spent twice, revived or lost |
| Subscriptions (`tpl/billing.rs`) | customers, subscriptions, billing events | checkout, webhook, reconcile, replay | credits, entitlements, provider | stale events, remote reads under a lock | the row follows the provider and never goes back |
| Stored files, file library, reconciliation (`codegen/src/backend/file.rs`, `tpl/file_lifecycle.rs`, `file_library.rs`, `file_reconciliation.rs`) | `_appstruct_files`, upload sessions, objects | put, retain, release, delete, upload, complete, cancel, collect, reconcile | records, comments, reports, object storage | storage and database commit separately | readable files have their object; references prevent deletion; leftovers go |
| Realtime (`codegen/src/backend/realtime*`) | event rows, cursors, streams; edit leases | publish, fan out, stream; acquire, renew, release | API writes | sequence order is not commit order; answers that come late | a stream gets everything once and in order, or is told; one editor |
| Authentication (`tpl/auth/`) | accounts, profile, letters, sessions, API tokens, identities, second factor | register, sign in, recover, change, link, enable | every request | checks made before a lock; codes and links used at once | who is signed in proved the second factor; codes work once; changes end what was signed in |
| Tenants, teams (`tpl/tenant.rs`, `tpl/product/team.rs`) | organizations, memberships, invitations | create, invite, accept, transfer, leave, remove | subscriptions (seats) | checks made before the row lock | one owner, seats, one use of an invitation |
| Entity API, bulk, workflows (`codegen/src/backend/api*`) | application tables | create, read, update, delete, restore, transition, bulk | audit, realtime, files | optimistic revisions, savepoints, deadlocks | a revision tells the contents; nothing is overwritten unseen |
| Runtime (`crates/appstruct-runtime`) | services, tasks, health | start, roll back, watch, shut down | the backend's modules | failures while others start or stop | reverse order, unexpected ends are heard of, a stop ends |
| Modules and startup (`crates/appstruct-module*`, `codegen/src/backend/startup.rs`) | manifests, plan | resolve, describe, start | compiler, runtime | an order computed in one place and used in another | the plan exists if it can, and what a starter takes is there |
| Generation and update (`cli/generation/`, `cli/update/`, `cli/transaction.rs`) | generated tree, lock file, staging, backup, journal | generate, update, recover | each other, through the project directory | kills between any two file operations | the tree and the lock change together or not at all |
| Migration files (`cli/migration.rs`, `cli/migration/transaction.rs`) | numbered SQL files, schema snapshot, journal | plan, commit, recover, baseline | the runner reads the files | kills; a plan made before the lock | file and snapshot change together; accepted files stay |
| Migration runner (`migrate/runner.rs`, `migrate/runner/`) | `_appstruct_migrations`, advisory lock, the database's structure | apply, baseline, repair (by hand) | migration files of each checkout | lost connections in untransacted SQL; checkouts that differ | the history is true; nothing is executed twice or on a foreign history |
| Development server (`cli/development*`) and caches (`cli/generation/cache.rs`) | watcher, child processes, the generated tree and the binary with their keys | prepare, watch, collect, rebuild, stop | generation, migration | edits during a rebuild | what is served is what was last edited; a session that is told to stop ends |
| Schema extraction, differencing, SQL and drift (`crates/appstruct-schema`, `migrate/`) | the snapshot; the database's catalog and seeds | extract, diff, execute, detect drift | migration files, the runner | series of migrations, each planned from the snapshot of the last | migrations add up to a new installation; PostgreSQL executes them; drift is reported if there is some |
| Compiler, IR, generators, web client, site, scripts | none, or in the browser | pure, or wrappers | | | |

`PROJECT.json` lists each of them with its status and, under `hazards`, what is
hard to test at the line where it bites.

## 2. Modules

| Module | Models | Checked in | Proofs |
|---|---|---|---|
| `JobQueue` | rows of `_appstruct_jobs`, lanes, heartbeats in flight, administrators | `MCLeases`, `MCSettling` | `SettlingProofs` |
| `FencedQueue` | what the queue promises: a queue with fencing tickets and no leases or clock | refined by `JobQueue` | refinement proved |
| `Schedules` | schedules, the releases that declare them, the loop that claims what is due | `MCLeases`, `MCServices` | `ServiceProofs` |
| `WebhookDeliveries` | deliveries, lanes, administrators | `MCLeases`, `MCServices` | `ServiceProofs` |
| `EditLeases` | the edit lease of one record and the tabs that use it | `MCLeases` | `ServiceProofs` |
| `ReportRuns` | runs, their jobs, usage, files; lanes and cleanups | `MCApplication`, `MCReportRuns` | `ReportRunsProofs` |
| `StoredFiles` | file rows, upload sessions, objects, references | `MCApplication`, `MCServices` | `BackgroundProofs` |
| `RealtimeEvents` | events, polls and streams of several processes | `MCApplication` | `BackgroundProofs` |
| `CreditLedger` | the ledger of an organization, its transactions, the provider's payment events | `MCApplication` | `BillingProofs` |
| `Subscriptions` | subscriptions at the provider and in the database | `MCApplication`, `MCSubscriptions` | `BillingProofs` |
| `Teams` | one organization, its members and invitations | `MCTransactions` | `RequestProofs` |
| `Accounts` | how one user signs in | `MCTransactions` | `RequestProofs` |
| `EntityWrites` | records, revisions, single and bulk writes | `MCLeases` | `RequestProofs` |
| `FileSteps` | atomic file operations, journals and recoverable plans | used by the next two | |
| `ProjectTransactions` | generation and update over one project | `MCTransactions`, `MCProjectTransactions` | `ProjectCommandsProofs` |
| `MigrationFiles` | migration file and snapshot | `MCTransactions`, `MCMigrationFiles` | `ProjectCommandsProofs` |
| `ProjectCommands` | both over one project directory | `MCTransactions` | `ProjectCommandsProofs` |
| `MigrationRunner` | history, lock and structure of one database | `MCServices` | `MigrationRunnerProofs` |
| `ModulePlans` | manifests, resolution, descriptors | `MCModulePlans`, in `MCServices` | |
| `ModuleLifecycle` | start, supervision and stop of a process's modules | `MCServices` | `ServiceProofs` |
| `DevelopmentServer` | a session of `appstruct dev` and its caches | `MCSettling` | `SettlingProofs` |
| `SchemaTables` | tables, indexes and keys of the framework's modules | used by the next | |
| `SchemaPlans` | the schema of a specification, its plan and SQL, drift | `MCApplication`, `MCSchemaPlans` | |
| `Null` | `None`: SQL NULL, no row, nobody | extended by the others | |

Definitions named "Mutant" in their comment are plausible bugs in one
definition; they belong to no specification, and each shows that a property
notices when the code it is about is changed.

**Sums.** `MCLeases`, `MCSettling`, `MCApplication`, `MCTransactions` and
`MCServices` each hold several systems that share a question: what is claimed
for a time or written under a revision, what settles, what a backend does with outside parties, what
transactions under locks keep, what goes on in the background. The systems of
a sum share no row and no lock in the code, so an instance is about one of
them: `part` is chosen initially and never changes, and the variables of the
other parts keep an initial value. A sum EXTENDS the modules whose theorems are
about the run's own properties, so that TLC and TLAPS look at one definition
(this is why their names differ from module to module: `DeliveryLease` and
`Lease`, `FilesNext` and `Next`); the other parts are INSTANCEs, and a property
of theirs is restated there for their part. Systems that do share rows (jobs and reports, credits and
payments, files and their references, comments and uploads) are one module.

### JobQueue

One action per SQL statement. A row of the model is a row of the table; times
are ticks relative to now (`due`, `lease`), so that clocks stay bounded.
`ClaimJob` is the `UPDATE ... FOR UPDATE SKIP LOCKED` of `claim` with its order
and its two ways to be eligible; `SendBeat` and `ExecuteBeat` split a heartbeat
in the sending and the execution of its UPDATE, because `select!` may drop the
branch in between; `Complete` and `Fail` compare only the worker id, as the code
does. `EnqueueDuplicate` is the `ON CONFLICT` branch. An administrator's retry
and replay lock the row in one step and write in another. `Crash` ends a lane;
its replacement has a new id (`Start`). `Stall` lets time pass although a
heartbeat is due, `DatabaseError` makes a lane give up what it holds. `claims`
is the history of claims; `ticket` in a claim is read by properties only.

The abstract `FencedQueue` draws a fresh ticket for each claim and lets only
the latest ticket settle. `ImplementsFencedQueue` says that a bare worker id in
`locked_by` achieves this, since an id never comes back after its lane ends.

### Schedules, WebhookDeliveries, EditLeases

`Schedules`: `StartProcess` runs `ensure_schedules` of a release over the rows,
`ScheduleDue` is the statement that claims a due schedule, moves `next_run_at`
and enqueues a job under the key of that time. Time is in half seconds where
keys are in whole ones (`PerSecond`). Jobs are the keys that were enqueued.

`WebhookDeliveries`: the lanes are those of the job queue without heartbeats.
`Deliver` is the request: what the endpoint accepted stays accepted
(`accepted`) whatever becomes of the answer. Time does not pass a request's
timeout unless a `Stall` lets it.

`EditLeases`: a tab sends a request, the database executes it at any later
time, the answer comes or is lost; `held` is what the tab believes. Token and
actor are compared as the statements do.

### ReportRuns

The lease of a job is one bit, which ends only through a fault: `JobQueue`
shows that a live lane keeps it. `Create` is one transaction (usage, run, job).
The checks of a lane and the UPDATE of the stage that follows them are separate
statements, hence separate steps (`Ensure`, `MarkRendering`). Publication holds two row
locks while it stores the object: `PublishStart`, then `PublishCommit` or a
rollback. The cleanup is a sequence of transactions per run (`CleanupSelect`,
`DiscardCheck`, `DiscardObject`, `ClaimFile`, `RemoveFile`, `CleanupEnds`), and
two cleanups may overlap. The renderer and the encryption of snapshots are
steps that succeed or fail.

### StoredFiles

Rows, objects and references of the file storage, which commits on its own: an
object is written before its row commits and deleted before its row's deletion
commits. `doing[p]` is the open transaction of a process with the rows it
locked. Upload sessions go through preparation, content (by the application or,
behind the session's back, by a signed URL), completion or cancellation. A file
is authorized for a record in one step (`Attach`) and retained in another
(`CommitAttach`). `Collect`, `RemoveObject`, `KeepClaim` and `CommitDeletion` are
a batch of the collection; `ListObject`, `LookAgain` and `RemoveOrphan` the
reconciliation. Comments stand for every owner with a slot of its own
(`Retained`). Age is a bit (`expired`) and moves once.

### RealtimeEvents

`Publish` is the local delivery with the spawned insert; `Insert` draws a
sequence greater than all before, with gaps where an insert failed, and
`CommitEvent` makes the row visible, in any order; `Poll` reads the first
`Limit` rows after the cursor and `Forward` sends them to the streams by their
sequences unless they are the process's own; a stream is a bounded channel that
drops the oldest and tells its reader to reload. `CleanUp` removes rows by age.
Presence is left out, and with it that a stream yields its own
`presence.online` at once and receives it again.

### CreditLedger and Subscriptions

Ledger rows are kept as sums per expiry with the set of their operation keys.
A business transaction has three steps: `Begin` fixes CURRENT_TIMESTAMP,
`ReserveCredits` takes the organization's row lock and reads, `Commit` writes; a
refusal or failure is `Rollback`. Refunds and events lock, read and write in
one step: they hold the same lock all along. Events are snapshots of a charge
or checkout; every event sent stays deliverable, so loss until a retry,
repetition and reordering are all there, and `Replay` is the administrator's
copy under a new id. What the customer, the provider and the subscription do is
external. A request's actor is left out: a repeated id with another actor is
refused like one with another cost.

In `Subscriptions` a state of the provider is a version of the subscription,
the last one its end. A handler records the event, takes the advisory lock,
reads the provider's present state (`ReadRemote`) and writes it over the row
unless that stands for a newer event (`WriteSubscription`). Checkout looks for
the customer, creates it at the provider, links it and opens a session, each a
step of its own. Plans, prices and signatures are abstracted.

### Teams, Accounts, EntityWrites

`Teams`: a request is checked (`AskTo...`), waits for the organization's row
lock and checks again what the code checks under it (`Enter`), and commits. Whether an
invitation has expired is decided when the transaction begins (`inTime`).
`ChangePlan` is the subscription's change of the number of seats.

`Accounts`: one user. A request first finds out who asks (`AskAsActor`,
`AskAsAnyone`), then its transaction follows `Path(kind)`: the row locks and
looks of that route in the order of the code (profile, letter, account, the count of
logins, the identity), then one `Commit...` with all its writes. `row` says
that a request has the profile's row: SELECT FOR UPDATE and UPDATE lock nothing
while the row does not exist, and what `ensure_profile` inserted keeps out
only who would insert it too. The code of
the second factor is the pair of secret and time step. Rate limits, expiry of
letters and sessions, cookies, the exchange with the provider and the mail are
abstracted; `End` removes a session at any time, which covers expiry and
sign-out. `SignedInWithSecondFactor` exempts what was checked before the second
factor was enabled and committed after it (`late`).

`EntityWrites`: a client reads a record with its revision and writes under the
revision it saw, one record or several. A bulk request is one transaction with
a savepoint per item; `DeadlockDetected` is PostgreSQL's choice of a victim,
which fails that item only. Fields, access rules and workflow graphs are
whether a write is admitted.

### FileSteps, ProjectTransactions, MigrationFiles, ProjectCommands

A transaction of the command line is a *plan*: the sequence of file operations
its function performs, computed by an operator named after the function. Each
operation is one step, and a kill or an I/O error may come before any of them;
`RemoveTree` has a state between the first and the last file. What is modelled
are kills of the process. A loss of power looks like one only as far as the code
syncs what it did: journals, renames, directories and generated files are
synced, but not the files which `copy_owned_tree` copies into the tree of an
update (`cli/generation/ownership.rs:188`, `sync_tree` syncs directories only) nor
the copied `Cargo.lock` (`cli/generation/transaction.rs:288`). A check that fails is the step `Fail`. Journals have a state
in which the record is incomplete. Recovery is a plan too and can be
interrupted. `ProjectCommands` puts the commands side by side: the two
transactions have a lock each and no path in common. In `ProjectTransactions` a tree is whole in some version, partial
or absent. In `MigrationFiles` a migration is the pair of schemas it leads
between, so that "this migration was planned from that schema" can be said.

### MigrationRunner

A process loads its files (one step), takes the advisory lock, checks the
history, and executes what is pending: in one step with its row when the file
is transacted, otherwise as `marked`, `ran` and the final mark. A lost
connection in between leaves the server running the statement (`orphan`).
`structure` is what the database really has, `half` that an untransacted file
stopped in the middle, `executed` how often a file was executed to its end.
Edits of the directory and an operator's repair are external.

### ModulePlans, ModuleLifecycle

`ModulePlans` has the manifests of the official modules as the compiler writes
them, `Resolve` as the resolver orders them (a recursive function over sets of
started modules), the descriptors generated from them and what the generated
starters take from the context. `MCModulePlans` enables options one by one and
adds local modules with any small manifest. `ApplicationsStart` says that what was
resolved starts, unless a module requires a capability it provides itself
(`SelfProvided`), and that it then never does (section 5).

`ModuleLifecycle` starts the modules of a plan (`StartModule`, `StartFails`),
asks services to stop in reverse with a deadline each (`AskToStop`,
`ShutdownReturns`, `ShutdownTimesOut`), and follows each supervised task from
the end of its future (`FutureEnds`) to the report (`FutureSettles`,
`WriteFailure`, `StoreFailed`).

### SchemaTables, SchemaPlans

`SchemaTables` has the tables of the framework's modules with the columns that
a key, an index, a default or a check names. `SchemaPlans` has `Extract`, the
schema of a specification; `Unblocked`, the plans the command line accepts, with
the risks `diff` gives each change; `Applied`, what the statements of a plan
make of a catalog; `Executes` and `MeetsRows`, whether PostgreSQL (external)
accepts them, for sure or depending on rows nobody knows; `Agrees`, the
comparison that reports drift. `Migrate` goes from one version of the
specification to a later one, as `migrate dev` and `migrate apply` do together;
`AlterByHand` changes one thing of the catalog.

### DevelopmentServer

The one thread of `appstruct dev` as a list of steps still to do (`todo`); a
step that compiles reads its sources when it begins and is done later. Edits
come at any time, and the watcher (native events, or polling after it failed)
collects them. `tree`, `binary` and their keys survive a session. `failed` and
`missed` remember reloads that failed and changes that no watcher reported.

## 3. Runs

The passing instances may stop for good once their bounds (jobs, runs,
replacements, starts, operations) are used up, and check no deadlock; where a
process must not get stuck, a liveness property of `settling` or `services`
says so.

| Run | Instance | Shows |
|---|---|---|
| `leases` | jobs: 2 lanes of 3 identities, 1 job, 1 key, 1 administrator, 2 attempts, lease of 2 ticks, 2 heartbeats in flight, 2 faults, 1 operation. Webhooks: 2 lanes and a spare, 2 deliveries, 1 fault, 1 operation. Schedules: 2 processes, 2 releases, 2 schedules, 3 starts. Edit leases: 3 tabs of 2 actors, 3 tokens, 1 lost answer. Records: 2 clients over 2 records | only the latest claim settles and outcomes stay; no overlap without faults; only claims revive leases; refinement of `FencedQueue`; deliveries are apart; schedules fire as defined; one editor; revisions tell contents; nothing is overwritten |
| `settling` | 1 lane of 2 identities, 2 jobs, 1 fault, 1 operation. A development session: 4 sources of 2 versions, 2 edits, 2 sessions, 1 failure. Fairness | every job settles; a key keeps its answer; what is served is current; sessions settle |
| `application` | reports: 2 lanes, 2 cleanups, 2 runs of one scope, 2 attempts, 2 faults, 2 operations. Files: 2 processes, 1 file and 1 comment, 1 record, 1 session, 1 fault. Events: 2 processes, 3 events and sequences, channel and page of 2. Credits: 2 members, 2 operations of cost 3, grants of 1 or 2, a pack of 3 for 2 units of money, 2 months. Billing: 2 handlers, 2 subscriptions of 3 states, 2 customers, 1 replay. Schemas: users with 6 sets of fields, tasks with relations, an index and seeds, 7 sets of modules | types; published reports are whole; usage follows the outcome; nothing is left behind; publications are current; readable files exist; references prevent deletion; streams are complete; credits add up and stay within bounds; the provider is followed; access never returns; schemas are sound |
| `transactions` | 2 connections over 3 users, 2 invitations, 2 seats; 2 requests over one user's sign-ins, 2 letters, 2 credentials, one identity, in seven mixtures of routes; 2 generators and an updater, 3 versions, 2 replacements, 2 faults of generators and 1 of the updater; 2 developers and a baseline, 2 migrations, 2 faults | one owner; owners decide; joining takes an invitation; the second factor holds; codes work once and changes end sessions; project and snapshot are old or new; commands respect each other |
| `services` | 2 deployments and a baseline over 2 files, 1 edit, 1 fault; 11 options and 2 local modules; 3 modules with 2 services and 3 plans; 1 delivery, 2 lanes; 1 process, 2 schedules; 2 processes over 1 file. Fairness | deployments extend a true history; runs and stops end; services stop in order; applications start; due work is done; leftovers go |
| `update_stuck` | 1 updater, 1 fault | finding 1 |
| `migration_stale_plan` | 2 developers, no fault | finding 2 |
| `report_stale_lane`, `report_scope_reuse`, `report_cleanup` | parts of the instance above | findings 3, 4, 5 |
| `cache_hides_edit` | one session, one edit | finding 6 |
| `billing_hidden` | two checkouts | finding 7 |

**Why the bounds are enough.** A lease protocol involves whoever lost the
lease, whoever has it and the administrator: two live lanes, a spare identity
for a restart and two faults give every order of a loss, a second claim and a
second loss. Attempts of 2 give both the retry and the terminal branch. Two runs
of one scope are what reuse of a key needs, two cleanups what a race of
cleanups needs. Two releases and three starts give a rolling update and a
return to the old release; a period equal to the resolution of a key and one that
is not a multiple of it need half seconds, which `PerSecond` gives. Three tabs of
two actors are an owner with two tabs and somebody else. A file, a comment and
one record let a file be referred to by two owners at once while a process
collects and another attaches. Three events overflow a channel of two, and two
of them from one process overtake each other. One pack with two partial
refunds gives every order of payment, fulfilment and refunds; two months give
a refund after expiry and a transaction that outlives its month. Two
subscriptions of three states, two of which share a timestamp, give stale,
equal and newer events. Two requests over three users are enough for a race for
ownership or for the last seat; the proofs of `Teams` cover every number.
Requests over sign-ins are offered in mixtures of routes that touch the same
rows. Two records in two orders make a deadlock. Three versions let a
replacement be interrupted, recovered and replaced again; two migrations give a
predecessor and a successor, one edit the divergence of two checkouts. Two
edits in a development session give an edit during the rebuild of another.
Schemas are versions of two entities over seven sets of modules, each module
alone with what it needs and all at once; a version may follow any that enables
no more modules and has no more entities, so that every pair of them is
migrated directly and through others. `Inspected` names the few whose database
is altered by hand, in every way there is; `Lowercase` and `Mentions` stand for
a default in capitals and a column whose name contains another's.
Beyond these bounds the proofs below take over where they exist.

**Fairness.** Everything else may happen or not; faults are finite.

* Jobs (`settling`): each lane's steps (the loop of the worker never ends while
  the process lives, handlers return), statements that were sent, an
  administrator's open transaction, the clock.
* Sessions (`settling`): the thread of `appstruct dev` goes on (`Moves`):
  commands end and the loop comes around.
* Deployments (`services`): a process that has started goes on, as sequential
  code does, the server ends the session of a lost connection, and a process
  that waits for the advisory lock gets it if it is free again and again (strong
  fairness of `Lock`: PostgreSQL grants a lock to its waiters in their order).
* Lifecycles: futures settle when they are told to and deadlines pass.
* Webhooks: lanes go on and time passes. Schedules: the loop of one lane.
* Files: an open transaction goes on, files age, and maintenance comes to each
  leftover again and again (strong fairness of `ListObject` and `Collect`; it is
  run by an operator or by a schedule, batch after batch).

## 4. Proofs

`SettlingProofs` about the queue (any number of lanes, jobs, keys, attempts, faults). The
inductive invariant is

    IInv == Types /\ SessionsExclude /\ RunningIsHeld /\ HolderIsCurrent

`HolderIsCurrent` is not inductive alone: a claim has to find its lane without
a job (`Types`), and an administrator's retry must not touch a running row,
which is what its row lock gives (`SessionsExclude`). From it follow
`LeasesHeld`, `OutcomesFinal` (the latest claim settles, settled rows stay),
`LeasesEndForGood` and the refinement `QueueIsFenced`, by one step per action.
`OneLaneAtATime` needs a second invariant, `Kept`: without faults a lane at work
holds its row under a lease that has not ended, or the job was cancelled.
`KeysKeepTheirAnswer` needs `KeysAreAnswered`: a key stands in one row, and the
answers given are that row. `DelayBounded` is the arithmetic of the backoff.

`SettlingProofs` about `DevelopmentServer` (any contents of the sources, any
number of edits, sessions and failures). `ServedIsCurrent` speaks of a session
that waits; what holds while it works is `SessionInv`: the thread is somewhere
in one of the four flows (`UnderWay`), and each thing it has (environment,
database, tree, web server, binary, API) is made from the sources as they are,
or a step that is left makes it so, or a rebuild is due (`RebuildDue`,
`BackendDue`: a change that was not taken up, was lost with a watcher or came
before there was one, or a failed rebuild). Every step of a flow then has to
show one thing. What the flows have in common, the order of their steps
(`Ordered`), is proved once for each of them; a cache hit leaves out a step
because the tree or the binary has the key already, and a tree that is written
in a reload of the backend, which does not restart the web server, is written
only when a rebuild is due (`WritesWhenDue`).

`ReportRunsProofs` (any number of lanes, cleanups, runs). `PublishedIsWhole`
and `UsageFollowsOutcome` depend on what the two row locks and the check under
them give the publication (`PublicationHolds`), on each job belonging to its
run or to the successor of a deleted one (`JobsAreOwn`), and on cleanups that
hold only expired runs (`CleansExpired`). `PublicationIsCurrent` joins two
action properties from the same invariant.

`MigrationRunnerProofs` (any number of files, processes, edits and faults). The
invariant says what each row claims of its migration (`RowsAreTrue`), that only
the lock's holder is past the lock (`Exclusive`), that a checked history stays
as it was checked, and what holds between the two marks of an untransacted file
(`HandsAreSafe`). `DeploymentsExtendHistory` joins what follows: nothing twice,
on a whole predecessor, on the deployment's own files.

`RequestProofs` has three components. *Members* (any number of users, requests,
invitations, seats): what was
checked before the lock may be stale, what was checked under it may not: the
invariant `TeamInv` says who holds the organization's row, that only its holder
is between check and commit, and that what `Allowed` found still holds there.
`OneOwner`, `OwnersDecide` and `JoinsByInvitation` follow, the latter two as
action properties.

*Entities* (any number of clients and records): what a client was shown is
the record of that revision or an earlier one (`SeenIsKnown`), what a request
asks about it has seen (`AsksAboutSeen`), and what it wrote in its transaction is
under its lock and one revision on (`WritesAreOwn`).

*Sign-ins* (any number of connections, letters, credentials, identities,
secrets; all kinds of requests at once, where the runs offer mixtures).
`SignedInWithSecondFactor` is not inductive: a transaction that is about to insert a
session relies on what it looked up, and others commit meanwhile. `AccountsInv`
says for each request, by its place in `Path(kind)`, what it has found and that it
is still so. A code is held only with the profile's row (`Formed`) and stays
newer than the last that was accepted (`StaysGood`); a letter that is held is
unused and in nobody else's hands (`KeepsLetters`, `Apart`); who may add a
credential has proved the present secret or is `late`, and who enables the second
factor ends every credential that has not (`Proves`); what a change is to end is
gone or listed (`EndsAll`). On the side of the rows, accepted codes are spent
(`AcceptedIsSpent`), the profile's letter is unused (`LatestIsUnused`), and
without an account there is nothing (`NobodyYet`). The property about commits
follows once `OwnCommit` has shown that a request which ends with rows changed has
committed itself. The proof corrected the model: it had let requests without a
row in `product_profiles` exclude each other.

`ReportRunsProofs` also has the invariant of the cleanups, which gives
`NothingLeftBehind`: what an unfinished cleanup still has to remove is in its
hands or is found again by the next, unless the run's job was retried.

`ServiceProofs` has four components. *Edit leases*: what a tab believes is the
row's lease or has expired (`ViewsAreTrue`), and each token was drawn once
(`TokensAreApart`), also in answers that are still under way and may come after
the lease has passed on; `OneEditor` follows. *Webhooks*: a lane that has a delivery in
hand holds its row until it settles or a fault lets time pass (`ClaimsAreHeld`),
and a delivery that succeeded was accepted (`SuccessIsAccepted`). *Lifecycle*,
for every plan of modules, duplicates and unordered ones included: the handles
are the started services in their order, whatever was started before the
service that is asked to stop still runs or is the one waited for, and what
supervisors, the failure channel and the health check hold fits what ended.
*Schedules*, for any set of releases: a claim leaves the row a next run that is a
period of the claiming release away and whose key no job of the schedule has
(`ClaimsAreSpaced`), until a start redefines the row; it holds because keys of
jobs are never of the future (`KeysArePast`).

`BackgroundProofs` (any number of processes, files, sessions, records). *Files*: each
operation in progress has a clause that says what it may still do. `PutsAreFresh`:
the row of an object that was stored does not exist yet. `DeletesUnreferenced`:
what a deletion has claimed has no owner and no mention. `SessionsInHand`,
`ReferencesKept`, `ObjectsKept`: sessions and rows are locked by whom they are
said to be, references have rows, rows have objects. An attempt at this proof
found the model's `broken` too small: a storage error in the middle of a
collection, then a crash before its COMMIT, brings back rows whose object is
gone although the process remembers the failure. `ReadableFilesExist` exempts
such rows, as `remove_claimed` does what it can (section 2).

*Events*, for channels and pages of any size: what a stream got, followed by
what its channel holds, is in order (`StreamsInOrder`), which stays so because
an event of another process that was sent lies at or before the process's
cursor and what the last poll read lies after it (`CursorsFit`). `NothingOverlooked`
is `NothingMissedSilently` while rows of a poll are still to be forwarded: a
visible row that the poll went past was sent, lost or is in hand, unless it came
late or was cleaned up. It is inductive because a page leaves out only rows
after all it takes and because a row is sent before the cursor leaves it.

`BillingProofs` has two components. *Subscriptions* (any number of handlers,
subscriptions, customers): a recorded
event is shown by its row or is in the hands of the handler that recorded it
(`RecordedIsShown`), rows are states of the provider no later than its own
(`RowsAreKnown`), a row is written under the subscription's advisory lock from
what was read under it, and customers of sessions are the one that was linked.
The proof showed that `RowsCatchUp` needs no premise about handlers at rest: a
handler commits event and row together.

*Credits* (any number of members, operations, packs and months, any costs,
allowances, pack size and price). Balances are the library's sums over
reservations and packs, so the proof first shows what a sum is: it exists, may
be taken in any order, changes by as much as the one value that changes, and
grows with its values. Each is proved by a smallest counterexample (a least
subset that the claim fails for, from the well-foundedness of inclusion), which
does without an induction theorem. `CreditsAddUp` is then not inductive for
three reasons, one part of `LedgerInv` each. A key of the ledger must be free
until what it stands for is done, or `ON CONFLICT DO NOTHING` would drop a row
(`KeysAreFree`). What a reservation read when it took the lock is still so when it
commits (`ReservationsHold`): its paid credits are there, and its month holds what
it takes unless the transaction outlived the month; and nothing is booked ahead
of now (`NothingAhead`), so that what may be used now is the current month.
A payment is the largest of what the applied events say (`PaymentsAreLargest`),
whole or not captured (`EventsAreTrue`), and the deduction grows with it
(`DeductionGrows`), so that the refund booked is always the difference to what
the payment says now. That no refund revives what has expired follows from the
sums alone: if the month's balance grows and its grant does not, some
reservation of the month is spent no more.

`ProjectCommandsProofs` (any number of processes, versions, schemas, migrations,
replacements and faults). A directory of migrations is described by nine values
(`At`): how many files are complete, the schema the last leads to, and what
stands at the seven paths a commit uses. Between two commands it has one of five
shapes, one for each phase of the journal and a fifth, `Late`: a recovery of
`backed_up` was itself interrupted after the backup had been put back, so that
the next one will delete the snapshot and find no backup. While a command runs,
the plan that is left determines what stands: `Committing` has one clause for
each point of the commit and `Recovering` for each of a recovery, and `Accounted`
says what they cost: nothing is left over without a fault, and `Late` takes two.
That is why `SnapshotSurvives` and `RecoverySucceeds` speak of one fault: with two
they are false, by what `recover_backed_up` does (section 5). The proof rewrites
every recovery function, a concatenation that depends on the disk, into such a
suffix (`RecoverPrepares` and its neighbours), and then follows one step at a time.
`SnapshotIsKept` is read off the shapes. `AcceptedStays` holds for any number of
faults: no plan writes to a file of a lower number than its own, and the number
of a commit is above every accepted one. For generation and update the invariant
is about locks: `ProjectHolds` (a process with a plan holds the lock, journals
hold whole records) and `GenerationWaitsInv` (a generator's plan names no path of
an update, so that the absence of update state it checked when it took the lock
lasts as long as the lock). `CommandsRespectEachOther` joins the two.

`ProjectIsOldOrNew` needs to know what a plan leads to before it is carried out.
`Leads(d, q, X, F, E)` says it of a whole plan `q` from the disk `d`: every disk it
passes is in `X`, it fails only in `F` and it ends in `E`. The invariant
`ProjectStands` then has one clause for each stage of each command: generation
passes disks of `Generated(before, after)` only, the shapes `Quiet`, `TreePrepared`,
`TreeBackedUp` and `TreeInstalled` of its journal phases, an update those of
`Updated(before, after)`, and a disk at rest is one of either (`LeftOver`). The bulk
of the proof is a lemma per journal phase: from every disk of that shape the
recovery function, whichever branch the disk makes it take, leads to `Cleaned` or
stops at a disk that is again `LeftOver`. Recovery of a generation passes only
shapes of `Generated`, so that it may be interrupted any number of times. Recovery
of an update does not: undoing `backed_up` passes disks that are none of `Updated`, where
everything is still there (`Recoverable`) and from where a second rollback
removes the lock (section 5). That is why the theorem reads
`faults["update"] <= 1 => ProjectIsOldOrNew`; the runs allow one such fault, and
in them it is `ProjectIsOldOrNew`.

The proofs rest on the assumptions each module names (`SizesAssumption`,
`NamesAssumption`, `ReportAssumption`, `RunnerAssumption`, `LeasesAssumption`,
`DeliveriesAssumption`, `LifecycleAssumption`, `WritesAssumption`,
`FilesAssumption`, `EventsAssumption`, `SubscriptionsAssumption`, `LedgerAssumption`,
`SchedulesAssumption`, `AccountsAssumption`, `DevelopmentAssumption`,
`ContentsAssumption`, `ProjectAssumption`, `MigrationAssumption` and those of `Teams`): bounds are
natural numbers, "no value" is not a value, an interval is a
second at least and a calendar names whole seconds. TLC evaluates them in every run.

**Only model-checked.** Liveness, because neither weak fairness nor ENABLED is
in the prover's reach. `ModulePlans`, whose order is a recursive function over
lists of requirements. `SchemaPlans`, a comparison of schemas that are
themselves data: its state space is the sample of versions. Of
`DevelopmentServer`, that sessions settle.

## 5. Findings

Each is a run whose property TLC finds violated by what the code does, where a
document says otherwise; `PROJECT.json` quotes the lines.

1. `update_stuck`: a kill while the candidate of an update is copied leaves a
   staging tree that no later update accepts.
2. `migration_stale_plan`: of two concurrent `migrate dev --accept`, the second
   commits a migration planned from the schema before the first.
3. `report_stale_lane`: a lane that lost its lease after its check turns a
   published report into `rendering` for good.
4. `report_scope_reuse`: a scope used again after retention gets a run whose
   job is already settled.
5. `report_cleanup`: a cleanup killed between file and row leaves a run that
   stops every later cleanup.
6. `cache_hides_edit`: the key of the generated tree is computed after the
   tree, from sources that may have been edited since: the cache then takes the
   old tree for the tree of the new source.
7. `billing_hidden`: of two subscriptions opened by two checkouts, the end of
   one hides the other.

Seen while modelling, without a run of their own:

* A transaction that began in one month and got the organization's lock in the
  next sees both months' grants and charges the old one: `MonthlyNeverOverdrawn`
  exempts such months (`tpl/product/credits.rs:33`, CURRENT_TIMESTAMP is the start
  of the transaction).
* `generate` is stuck after a kill while it deletes the backup of an installed
  tree (`cli/generation/transaction.rs:203`).
* An interrupted rollback of an update, repeated, removes the lock before it
  looks for the backup (`cli/update/transaction.rs:258`), and an interrupted
  recovery of a migration removes the snapshot likewise
  (`cli/migration/transaction.rs:174`): `SnapshotSurvives` and `RecoverySucceeds`
  are therefore stated for one interruption.
* The next migration number is derived from the files that are there
  (`cli/migration/transaction.rs:256`).
* A report whose last attempt loses its lease before the failure is recorded
  has a dead job and stays in `rendering`.
* An administrator's retry resets `attempts`, so attempt numbers repeat; a
  retried run that expired can leave an object behind (`NothingLeftBehind`
  exempts retried runs).
* `docs/reports.md:55` says that only queued runs can be cancelled; the code
  cancels rendering ones too.
* `claim` does not compare `attempts` with `max_attempts`
  (`codegen/src/backend/jobs.rs:338`): a job that kills its process is claimed for
  ever, and the delay's exponent grows with it (`jobs.rs:361`).
* The history is ordered by the database's collation, the files by bytes
  (`migrate/runner/history.rs:43`).
* Two definitions of one schedule within a second share a job's key, so that
  one of two jobs is lost; the older of two releases moves `next_run_at` by its own
  period.
* `unlink_account` counts logins without a lock and deletes by provider, so that
  two unlinks at once, or two identities at one provider, remove the last way to
  sign in (`tpl/auth/oauth.rs:227`; `docs/oauth-oidc.md:67` promises one stays).
* The primary key of linked identities is the subject alone
  (`crates/appstruct-schema/src/schema/auth.rs:193`), where `PRODUCT.en.md:48`
  binds provider and subject.
* A reset of the password ends sessions but not API tokens: `EndsWhatThereWas`
  says so.
* `reset_password` locks letter and account, `change_password` and `confirm_email`
  account and letters: PostgreSQL breaks the deadlock (`Rollback`).
* A module that requires a capability it provides itself is resolved, as the test
  `self_provided_capabilities_do_not_create_dependencies` wants it
  (`crates/appstruct-module-sdk/src/lib.rs:326`), but its generated descriptor names
  the module among its own dependencies (`codegen/src/backend/startup.rs:255`), and
  `ModulePlan::start` refuses one that has not started (`lifecycle.rs:106`).
  `ApplicationsStart` says that exactly these applications never start.
* An invitation that expires while the request which accepts it waits for the
  organization's row is accepted: both of its comparisons are with
  CURRENT_TIMESTAMP, the start of the transaction (`tpl/tenant.rs:245`, `:251`).
  `JoinsByInvitation` says so (`inTime`).
* Ten seconds of shutdown are less than the 25 a webhook request may take. A
  lane that panics ends its worker.
* An edit lease is modelled with one TTL per tab: a tab that asks for a shorter
  one and loses the answer believes in a lease longer than it has.
* A seed that refers to a seed sorted after it (`docs/seeding.md:27`) is
  inserted first: a new installation adds the foreign key after the seeds and
  succeeds, a migration of a table that has the key fails
  (`RefersLater`). A seed of a tenant-scoped entity has no `tenant_id` and always
  fails (`SeedsTenants`).
* Two indexes whose ids end alike have one SQL name (`NamesClash`); identifiers
  over 63 bytes are not shortened by the extraction but by PostgreSQL.
* `expected_default` lower-cases a default that the catalog keeps, so `'USD'` is
  reported as drift for ever (`migrate/runner/catalog/normalize.rs`), and
  `compare_enum_check` takes the check of a column whose name contains the
  column's (`Mistaken`). Names of constraints and checks of other columns are not
  compared. Tenants cannot be enabled after authentication: the key added to
  saved views is a blocked change.
* A backend reload after a failed reload of the specification restarts without
  migrating (against `PRODUCT.en.md:64`), and polling ends the session when a
  file vanishes between listing and reading.

## 6. Not modelled

* The text of generated files, SQL, HTTP and the web client: pure functions of
  the App Spec; what the protocols need of them is that two contents differ.
* Lint's warnings and the introspection of an existing database
  (`migrate/lint.rs`, `migrate/introspection.rs`): pure; of `SchemaPlans`, types of
  columns are classes, and the order of statements is left out where no
  statement depends on it.
* Rendering, encryption, mail transport, object storage internals: steps that
  succeed or fail.
* Presence and the authorization of each event in the realtime module; shorter
  renewals of an edit lease; aggregates; imports, which are one transaction per
  batch; expiry and rate limits of sign-ins.
* In the development server: the Compose database it may start and stop, two
  sessions of one project, projects that manage their own backend, the cache
  of web dependencies, which works like the one of the tree.
* Read-only routes and commands, sequential wrappers (deploy, doctor, new,
  auth, the module registry client) and the pure crates (compiler, IR, core,
  contracts, SDK).

## 7. Plan

1. Validation of workflow and relation graphs.
2. Imports with their repeated-key check, keyset pagination, drafts of the web
   client's forms.
