----------------------------- MODULE ReportRuns -----------------------------
(***************************************************************************)
(* Report runs: a caller creates a run with its job and its usage in one   *)
(* transaction, worker lanes render and publish it, the owner may cancel   *)
(* it, an administrator may retry its dead job, and a scheduled job        *)
(* removes expired runs with their files. The lease of a job is a bit      *)
(* here: JobQueue shows that heartbeats keep it while nothing fails, so it *)
(* ends only through a fault. Every SQL statement or transaction is one    *)
(* step; publication, which stores an object while it holds row locks, and *)
(* the file deletion of the cleanup are two.                               *)
(***************************************************************************)
EXTENDS Null, Naturals, FiniteSets

CONSTANTS
  Worker, Cleaner,  \* lanes that render, and executions of report.cleanup
  Key,              \* idempotency scopes (tenant, actor, template, key)
  Metered,          \* reports have an entitlement: usage is reserved
  FreeLimit,        \* runs the free allowance admits
  MaxAttempts,      \* max_attempts of the report queue
  MaxRuns,          \* bound: runs ever created
  MaxFaults,        \* bound: stalls, crashes and database errors together
  MaxOps            \* bound: cancellations and administrator retries

Run == 1 .. MaxRuns  \* run ids; the job a run enqueues carries the run's id

ASSUME ReportAssumption ==
  /\ None \notin Worker /\ None \notin Run /\ None \notin Key /\ Metered \in BOOLEAN
  /\ MaxAttempts \in Nat \ {0} /\ MaxRuns \in Nat /\ FreeLimit \in Nat
  /\ MaxFaults \in Nat /\ MaxOps \in Nat

VARIABLES
  \* _appstruct_report_runs, _appstruct_billing_usage, _appstruct_files, storage
  stage, scope, execution, resultKey, expired, usage, metadata, object,
  \* _appstruct_jobs
  status, attempts, lockedBy, leased,
  \* row locks of an open publication
  locked,
  \* lanes: where they are in run_once, the run and attempt they hold, the outcome
  at, run, attempt, outcome,
  \* cleanup: where it is, the run in hand, whether its SELECT saw a result key
  phase, doomed, sawKey,
  \* history: runs whose job was retried after they expired
  revived,
  faults, ops

runRow == <<stage, scope, execution, resultKey, expired>>
files == <<metadata, object>>
job == <<status, attempts, lockedBy, leased>>
lane == <<at, run, attempt, outcome>>
cleanup == <<phase, doomed, sawKey>>
rest == <<revived, faults, ops>>
vars == <<runRow, usage, files, job, locked, lane, cleanup, rest>>

Terminal == {"succeeded", "failed", "cancelled"}
Stages == {"none", "queued", "rendering", "deleted"} \cup Terminal
Places == {"idle", "claimed", "loaded", "checked", "rendering", "rendered",
           "publishing", "failing", "returned", "down"}

TypeOK ==
  /\ stage \in [Run -> Stages] /\ scope \in [Run -> Key \cup {None}]
  /\ execution \in [Run -> Run \cup {None}]
  /\ resultKey \in [Run -> BOOLEAN] /\ expired \in [Run -> BOOLEAN]
  /\ usage \in [Run -> {"none", "reserved", "refunded"}]
  /\ metadata \in [Run -> BOOLEAN] /\ object \in [Run -> BOOLEAN]
  /\ status \in [Run -> {"none", "queued", "running", "succeeded", "dead", "cancelled"}]
  /\ attempts \in [Run -> Nat] /\ lockedBy \in [Run -> Worker \cup {None}]
  /\ leased \in [Run -> BOOLEAN] /\ locked \in [Run -> Worker \cup {None}]
  /\ at \in [Worker -> Places] /\ run \in [Worker -> Run \cup {None}]
  /\ attempt \in [Worker -> Nat] /\ outcome \in [Worker -> {"ok", "retryable", "fatal"}]
  /\ phase \in [Cleaner -> {"idle", "discard", "unpublished", "claim", "remove", "row"}]
  /\ doomed \in [Cleaner -> Run \cup {None}] /\ sawKey \in [Cleaner -> BOOLEAN]
  /\ revived \subseteq Run /\ faults \in 0 .. MaxFaults /\ ops \in 0 .. MaxOps
  /\ \A w \in Worker : at[w] \notin {"idle", "down"} => run[w] # None
  /\ \A c \in Cleaner : phase[c] # "idle" => doomed[c] # None

Init ==
  /\ stage = [r \in Run |-> "none"] /\ scope = [r \in Run |-> None]
  /\ execution = [r \in Run |-> None] /\ resultKey = [r \in Run |-> FALSE]
  /\ expired = [r \in Run |-> FALSE] /\ usage = [r \in Run |-> "none"]
  /\ metadata = [r \in Run |-> FALSE] /\ object = [r \in Run |-> FALSE]
  /\ status = [r \in Run |-> "none"] /\ attempts = [r \in Run |-> 0]
  /\ lockedBy = [r \in Run |-> None] /\ leased = [r \in Run |-> FALSE]
  /\ locked = [r \in Run |-> None]
  /\ at = [w \in Worker |-> "idle"] /\ run = [w \in Worker |-> None]
  /\ attempt = [w \in Worker |-> 0] /\ outcome = [w \in Worker |-> "ok"]
  /\ phase = [c \in Cleaner |-> "idle"] /\ doomed = [c \in Cleaner |-> None]
  /\ sawKey = [c \in Cleaner |-> FALSE]
  /\ revived = {} /\ faults = MaxFaults /\ ops = MaxOps

Exists(r) == stage[r] \notin {"none", "deleted"}

Fault == faults > 0 /\ faults' = faults - 1
-----------------------------------------------------------------------------
(* Callers *)

Reserve(r) ==
  IF Metered
  THEN /\ Cardinality({q \in Run : usage[q] = "reserved"}) < FreeLimit
       /\ usage' = [usage EXCEPT ![r] = "reserved"]
  ELSE UNCHANGED usage

\* refund_allowance, for a run whose stage becomes s.
Refund(r, s) ==
  usage' = IF usage[r] = "reserved" /\ s \in {"failed", "cancelled"}
           THEN [usage EXCEPT ![r] = "refunded"] ELSE usage

\* enqueue with the key report:<scope>: a job that was enqueued for the same
\* scope is returned as it is.
Enqueued(k) == {j \in Run : scope[j] = k /\ status[j] # "none"}

\* create_run, which retry_run also ends in. A scope that has a row returns it.
Create(r, k) ==
  /\ stage[r] = "none" /\ \A q \in Run : q < r => stage[q] # "none"
  /\ \A q \in Run : Exists(q) => scope[q] # k
  /\ Reserve(r)
  /\ stage' = [stage EXCEPT ![r] = "queued"]
  /\ scope' = [scope EXCEPT ![r] = k]
  /\ IF Enqueued(k) = {}
     THEN /\ execution' = [execution EXCEPT ![r] = r]
          /\ status' = [status EXCEPT ![r] = "queued"]
     ELSE /\ execution' = [execution EXCEPT ![r] = CHOOSE j \in Enqueued(k) : TRUE]
          /\ UNCHANGED status
  /\ UNCHANGED <<resultKey, expired, files, attempts, lockedBy, leased, locked, lane,
                 cleanup, rest>>

Release(j, s) ==
  /\ status' = [status EXCEPT ![j] = s]
  /\ lockedBy' = [lockedBy EXCEPT ![j] = None]
  /\ leased' = [leased EXCEPT ![j] = FALSE]

Cancel(r) ==
  /\ ops > 0 /\ ops' = ops - 1
  /\ stage[r] \in {"queued", "rendering"} /\ locked[r] = None
  /\ LET j == execution[r] IN
     /\ status[j] \in {"queued", "running"}
     /\ Release(j, "cancelled")
  /\ stage' = [stage EXCEPT ![r] = "cancelled"]
  /\ Refund(r, "cancelled")
  /\ UNCHANGED <<scope, execution, resultKey, expired, files, attempts, locked, lane,
                 cleanup, faults, revived>>

\* retry_admin_job
AdminRetry(j) ==
  /\ ops > 0 /\ ops' = ops - 1
  /\ status[j] = "dead"
  /\ Release(j, "queued")
  /\ attempts' = [attempts EXCEPT ![j] = 0]
  /\ revived' = revived \cup {r \in Run : execution[r] = j /\ expired[r]}
  /\ UNCHANGED <<runRow, usage, files, locked, lane, cleanup, faults>>
-----------------------------------------------------------------------------
(* Lanes *)

Go(w, place) == at' = [at EXCEPT ![w] = place]
Returns(w, o) == Go(w, "returned") /\ outcome' = [outcome EXCEPT ![w] = o]
FailsWith(w, o) == Go(w, "failing") /\ outcome' = [outcome EXCEPT ![w] = o]
\* run_once ends.
Leave(w, place) ==
  /\ Go(w, place)
  /\ run' = [run EXCEPT ![w] = None] /\ attempt' = [attempt EXCEPT ![w] = 0]
  /\ outcome' = [outcome EXCEPT ![w] = "ok"]
Working(w) == at[w] \notin {"idle", "down"}

Claim(w, j) ==
  /\ at[w] = "idle"
  /\ \/ status[j] = "queued"
     \/ status[j] = "running" /\ ~leased[j]
  /\ locked[j] = None
  /\ status' = [status EXCEPT ![j] = "running"]
  /\ attempts' = [attempts EXCEPT ![j] = @ + 1]
  /\ lockedBy' = [lockedBy EXCEPT ![j] = w]
  /\ leased' = [leased EXCEPT ![j] = TRUE]
  /\ Go(w, "claimed") /\ run' = [run EXCEPT ![w] = j]
  /\ attempt' = [attempt EXCEPT ![w] = attempts[j] + 1]
  /\ UNCHANGED <<runRow, usage, files, locked, outcome, cleanup, rest>>

\* load_report_work
Load(w) ==
  /\ at[w] = "claimed"
  /\ LET r == run[w] IN
     IF ~Exists(r) \/ execution[r] # r THEN FailsWith(w, "retryable")
     ELSE IF stage[r] \in {"succeeded", "cancelled"} THEN Returns(w, "ok")
     ELSE Go(w, "loaded") /\ UNCHANGED outcome
  /\ UNCHANGED <<runRow, usage, files, job, locked, run, attempt, cleanup, rest>>

\* Mutant: the reservation is not looked at.
ReleasedNever(r) == FALSE
Released(r) == usage[r] = "refunded"
Owned(w) == LET r == run[w] IN
  status[r] = "running" /\ attempts[r] = attempt[w] /\ leased[r]
\* ensure_render_active: "ok", or how the error it returns is treated.
Active(w) ==
  LET r == run[w] IN
  IF ~Exists(r) \/ execution[r] # r THEN "retryable"
  ELSE IF stage[r] = "cancelled" THEN "fatal"
  ELSE IF ~Owned(w) THEN "retryable"
  ELSE IF Released(r) THEN "fatal"
  ELSE "ok"

Ensure(w) ==
  /\ at[w] = "loaded"
  /\ IF Active(w) = "ok" THEN Go(w, "checked") /\ UNCHANGED outcome
                         ELSE FailsWith(w, Active(w))
  /\ UNCHANGED <<runRow, usage, files, job, locked, run, attempt, cleanup, rest>>

MayMark(r) == Exists(r) /\ stage[r] # "cancelled"

\* update_report_stage(.., "rendering", ..) outside any transaction.
MarkRendering(w) ==
  /\ at[w] = "checked" /\ locked[run[w]] = None
  /\ stage' = IF MayMark(run[w]) THEN [stage EXCEPT ![run[w]] = "rendering"] ELSE stage
  /\ Go(w, "rendering")
  /\ UNCHANGED <<scope, execution, resultKey, expired, usage, files, job, locked, run,
                 attempt, outcome, cleanup, rest>>

RenderDone(w) ==
  /\ at[w] = "rendering" /\ Go(w, "rendered")
  /\ UNCHANGED <<runRow, usage, files, job, locked, run, attempt, outcome, cleanup,
                 rest>>

RenderFails(w, o) ==
  /\ at[w] = "rendering" /\ FailsWith(w, o)
  /\ UNCHANGED <<runRow, usage, files, job, locked, run, attempt, cleanup, rest>>

\* wait_for_render_stop: the poll that races the renderer meets an error.
RenderStops(w) ==
  /\ at[w] = "rendering" /\ Active(w) # "ok" /\ FailsWith(w, Active(w))
  /\ UNCHANGED <<runRow, usage, files, job, locked, run, attempt, cleanup, rest>>

\* Mutant: SELECT without FOR UPDATE.
LocksNothing(w) == UNCHANGED locked
LocksRows(w) == locked' = [locked EXCEPT ![run[w]] = w]

\* publish_report locks both rows, checks again and stores the object: one
\* that a dead publication left without metadata is discarded first, one with
\* metadata is reused.
PublishStart(w) ==
  LET r == run[w] IN
  /\ at[w] = "rendered" /\ locked[r] = None
  /\ IF Active(w) = "ok"
     THEN /\ LocksRows(w) /\ Go(w, "publishing")
          /\ object' = [object EXCEPT ![r] = TRUE]
          /\ UNCHANGED outcome
     ELSE FailsWith(w, Active(w)) /\ UNCHANGED <<locked, object>>
  /\ UNCHANGED <<runRow, usage, metadata, job, run, attempt, cleanup, rest>>

Unlock(w) == locked' = [r \in Run |-> IF locked[r] = w THEN None ELSE locked[r]]

PublishCommit(w) ==
  LET r == run[w] IN
  /\ at[w] = "publishing"
  /\ stage' = [stage EXCEPT ![r] = "succeeded"]
  /\ metadata' = [metadata EXCEPT ![r] = TRUE]
  /\ resultKey' = [resultKey EXCEPT ![r] = TRUE]
  /\ Unlock(w) /\ Returns(w, "ok")
  /\ UNCHANGED <<scope, execution, expired, usage, object, job, run, attempt, cleanup,
                 rest>>

\* REPORT_PUBLISH_FAILED: a statement or the commit fails and the handler goes on
\* with the error. The transaction is rolled back, an object that was stored stays.
PublishFails(w) ==
  /\ Fault /\ at[w] \in {"rendered", "publishing"}
  /\ Unlock(w) /\ FailsWith(w, "retryable")
  /\ UNCHANGED <<runRow, usage, files, job, run, attempt, cleanup, ops, revived>>

\* retryable_job_error and the attempts of the queue.
Exhausted(w) == attempt[w] >= MaxAttempts \/ outcome[w] = "fatal"

Records(w) == Owned(w) /\ stage[run[w]] \notin {"cancelled", "succeeded"}

\* update_report_failure: the guarded UPDATE, then the refund.
RecordFailure(w) ==
  LET r == run[w]
      recorded == Exists(r) /\ execution[r] = r /\ Records(w)
      after == IF ~recorded THEN stage[r] ELSE IF Exhausted(w) THEN "failed" ELSE "queued" IN
  /\ at[w] = "failing" /\ (recorded => locked[r] = None)
  /\ stage' = [stage EXCEPT ![r] = after]
  /\ IF Exhausted(w) THEN Refund(r, after) ELSE UNCHANGED usage
  /\ Go(w, "returned")
  /\ UNCHANGED <<scope, execution, resultKey, expired, files, job, locked, run, attempt,
                 outcome, cleanup, rest>>

\* complete and fail: WHERE status = 'running' AND locked_by = $2.
Settle(w) ==
  LET j == run[w]
      to == IF outcome[w] = "ok" THEN "succeeded" ELSE IF Exhausted(w) THEN "dead" ELSE "queued" IN
  /\ at[w] = "returned" /\ locked[j] = None
  /\ IF status[j] = "running" /\ lockedBy[j] = w
     THEN Release(j, to) /\ UNCHANGED attempts
     ELSE UNCHANGED job
  /\ Leave(w, "idle")
  /\ UNCHANGED <<runRow, usage, files, locked, cleanup, rest>>

\* A heartbeat that matches no row drops the handler.
LeaseLost(w) ==
  /\ Working(w) /\ at[w] # "returned" /\ locked[run[w]] = None
  /\ ~(Owned(w) /\ lockedBy[run[w]] = w)
  /\ Leave(w, "idle")
  /\ UNCHANGED <<runRow, usage, files, job, locked, cleanup, rest>>
-----------------------------------------------------------------------------
(* report.cleanup *)

\* Mutant: expires_at is not compared.
CollectableAtOnce(r) == stage[r] \in Terminal
Collectable(r) == stage[r] \in Terminal /\ expired[r]

CleanupSelect(c, r) ==
  /\ phase[c] = "idle" /\ Collectable(r)
  /\ phase' = [phase EXCEPT ![c] = "discard"]
  /\ doomed' = [doomed EXCEPT ![c] = r]
  /\ sawKey' = [sawKey EXCEPT ![c] = resultKey[r]]
  /\ UNCHANGED <<runRow, usage, files, job, locked, lane, rest>>

\* discard_unpublished reads the metadata, then deletes the object.
DiscardCheck(c) ==
  /\ phase[c] = "discard"
  /\ phase' = [phase EXCEPT ![c] =
       IF ~metadata[doomed[c]] THEN "unpublished" ELSE IF sawKey[c] THEN "claim" ELSE "row"]
  /\ UNCHANGED <<runRow, usage, files, job, locked, lane, doomed, sawKey, rest>>

\* Mutant: objects without metadata are left alone.
DiscardsNothing(c) == UNCHANGED object
Discards(c) == object' = [object EXCEPT ![doomed[c]] = FALSE]

DiscardObject(c) ==
  /\ phase[c] = "unpublished" /\ Discards(c)
  /\ phase' = [phase EXCEPT ![c] = IF sawKey[c] THEN "claim" ELSE "row"]
  /\ UNCHANGED <<runRow, usage, metadata, job, locked, lane, doomed, sawKey, rest>>

CleanupEnds(c) ==
  /\ phase' = [phase EXCEPT ![c] = "idle"] /\ doomed' = [doomed EXCEPT ![c] = None]
  /\ sawKey' = [sawKey EXCEPT ![c] = FALSE]

\* FileState::delete claims the metadata row, waiting for whoever is deleting
\* it; without one it is ReferenceConflict and the whole cleanup fails.
ClaimFile(c) ==
  /\ phase[c] = "claim"
  /\ IF metadata[doomed[c]]
     THEN /\ ~\E d \in Cleaner : phase[d] = "remove" /\ doomed[d] = doomed[c]
          /\ object' = [object EXCEPT ![doomed[c]] = FALSE]
          /\ phase' = [phase EXCEPT ![c] = "remove"] /\ UNCHANGED <<doomed, sawKey>>
     ELSE CleanupEnds(c) /\ UNCHANGED object
  /\ UNCHANGED <<runRow, usage, metadata, job, locked, lane, rest>>

\* The foreign key of the run's result_file_id needs the run's row.
RemoveFile(c) ==
  /\ phase[c] = "remove" /\ locked[doomed[c]] = None
  /\ metadata' = [metadata EXCEPT ![doomed[c]] = FALSE]
  /\ phase' = [phase EXCEPT ![c] = "row"]
  /\ UNCHANGED <<runRow, usage, object, job, locked, lane, doomed, sawKey, rest>>

DeleteRun(c) ==
  /\ phase[c] = "row" /\ locked[doomed[c]] = None
  /\ stage' = IF Collectable(doomed[c]) THEN [stage EXCEPT ![doomed[c]] = "deleted"] ELSE stage
  /\ CleanupEnds(c)
  /\ UNCHANGED <<scope, execution, resultKey, expired, usage, files, job, locked, lane,
                 rest>>
-----------------------------------------------------------------------------
(* Time and faults *)

\* Retention is counted in days: by then the job has settled and no lane is
\* left in an attempt of it.
Expire(r) ==
  /\ Exists(r) /\ ~expired[r]
  /\ status[execution[r]] \notin {"queued", "running"} /\ \A w \in Worker : run[w] # r
  /\ expired' = [expired EXCEPT ![r] = TRUE]
  /\ UNCHANGED <<stage, scope, execution, resultKey, usage, files, job, locked, lane,
                 cleanup, rest>>

\* The lane or its database stands still until the lease is over; the lease of
\* a dead lane ends in any case.
LeaseEnds(j) ==
  /\ leased[j]
  /\ \/ at[lockedBy[j]] = "down" /\ UNCHANGED faults
     \/ Fault
  /\ leased' = [leased EXCEPT ![j] = FALSE]
  /\ UNCHANGED <<runRow, usage, files, status, attempts, lockedBy, locked, lane, cleanup, ops, revived>>

\* The process dies, or a statement fails and run_once returns the error: an
\* open transaction is rolled back, a stored object stays.
Interrupted(w, place) ==
  /\ Fault /\ Working(w) /\ Leave(w, place) /\ Unlock(w)
  /\ UNCHANGED <<runRow, usage, files, job, cleanup, ops, revived>>

\* A cleanup is killed, or one of its statements fails.
CleanupInterrupted(c) ==
  /\ Fault /\ phase[c] # "idle" /\ CleanupEnds(c)
  /\ UNCHANGED <<runRow, usage, files, job, locked, lane, ops, revived>>
-----------------------------------------------------------------------------
Rendering(w) ==
  \/ \E j \in Run : Claim(w, j)
  \/ Load(w) \/ Ensure(w) \/ MarkRendering(w)
  \/ RenderDone(w) \/ RenderStops(w) \/ \E o \in {"retryable", "fatal"} : RenderFails(w, o)
  \/ PublishStart(w) \/ PublishCommit(w) \/ PublishFails(w)
  \/ RecordFailure(w) \/ Settle(w) \/ LeaseLost(w)
  \/ \E place \in {"idle", "down"} : Interrupted(w, place)
Cleaning(c) ==
  \/ \E r \in Run : CleanupSelect(c, r)
  \/ DiscardCheck(c) \/ DiscardObject(c) \/ ClaimFile(c) \/ RemoveFile(c) \/ DeleteRun(c)
  \/ CleanupInterrupted(c)

Next ==
  \/ \E r \in Run : \/ \E k \in Key : Create(r, k)
                    \/ Cancel(r) \/ AdminRetry(r) \/ Expire(r) \/ LeaseEnds(r)
  \/ \E w \in Worker : Rendering(w)
  \/ \E c \in Cleaner : Cleaning(c)

Spec == Init /\ [][Next]_vars
-----------------------------------------------------------------------------
(* Properties *)

\* A succeeded run can be downloaded until it expires: its metadata and its
\* object are both there, whatever other attempts and cleanups do.
PublishedIsWhole ==
  \A r \in Run : stage[r] = "succeeded" /\ ~expired[r] =>
    metadata[r] /\ object[r] /\ resultKey[r]

\* A published report has been paid for, and a failed or cancelled one has
\* not: late failures, cancellations and administrator retries included.
UsageFollowsOutcome ==
  Metered => \A r \in Run :
    /\ stage[r] = "succeeded" => usage[r] = "reserved"
    /\ stage[r] \in {"failed", "cancelled"} => usage[r] = "refunded"

\* Nothing is stored for a run whose row the cleanup has removed. (A cleanup
\* does not exclude lanes: they may publish a run again only when its job is
\* retried after the run expired.)
NothingLeftBehind ==
  \A r \in Run \ revived : stage[r] = "deleted" => ~metadata[r] /\ ~object[r]

\* A cancelled run stays cancelled, although a lane may be rendering it.
CancelledStays ==
  [][\A r \in Run : stage[r] = "cancelled" => stage'[r] \in {"cancelled", "deleted"}]_vars

\* A report is published by the attempt its job counts as running: one whose
\* lease ended cannot come in between its last check and its commit. (The
\* attempt number is all the check compares, and an administrator's retry
\* starts it again at zero: a lane from before the retry may publish then.)
PublisherIsCurrent ==
  [][\A r \in Run : metadata'[r] /\ ~metadata[r] =>
       \E w \in Worker : /\ at[w] = "publishing" /\ run[w] = r
                         /\ status[r] = "running" /\ attempt[w] = attempts[r]]_vars

\* Publication is the work of the current attempt of a run nobody cancelled
\* (publish_report, update_report_stage, cancel_run).
PublicationIsCurrent == CancelledStays /\ PublisherIsCurrent

\* Lease loss never takes a published report back.
SucceededStays ==
  [][\A r \in Run : stage[r] = "succeeded" => stage'[r] \in {"succeeded", "deleted"}]_vars

\* Every run that waits for its report has a job that can still produce it.
NoStrandedRun ==
  \A r \in Run : stage[r] \in {"queued", "rendering"} => status[execution[r]] \in {"queued", "running"}

\* No expired run makes every cleanup fail: a result key has a file to delete.
CleanupCanRemove ==
  \A r \in Run : /\ Collectable(r) /\ resultKey[r] /\ \A c \in Cleaner : doomed[c] # r
                 => metadata[r]
=============================================================================
