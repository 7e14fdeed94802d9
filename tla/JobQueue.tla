------------------------------ MODULE JobQueue ------------------------------
(***************************************************************************)
(* The durable job queue of a generated application: the table             *)
(* _appstruct_jobs, the worker lanes that claim, heartbeat and settle its  *)
(* rows, the callers of enqueue, and the administrator's retry and replay. *)
(* Every SQL statement is one atomic step; what the code does between two  *)
(* statements is a state of its own, so lanes, heartbeats in flight,       *)
(* administrators and crashes interleave freely.                           *)
(*                                                                         *)
(* Time is relative: due[j] is the number of ticks until run_at (negative  *)
(* when the row has been due for a while) and lease[j] the number of ticks *)
(* until locked_until (0 when it is past or NULL).                         *)
(***************************************************************************)
EXTENDS Null, Integers, FiniteSets

CONSTANTS
  Worker,       \* identities of worker lanes; a restarted lane takes a new one
  Admin,        \* administrator sessions
  Key,          \* idempotency keys
  Kind,         \* job kinds
  Kinds,        \* the kinds each lane accepts (for_kinds; all when None)
  MaxJobs,      \* bound: rows the table may grow to
  Lanes,        \* lanes alive at once (APPSTRUCT_JOB_CONCURRENCY)
  MaxAttempts,  \* max_attempts of the queue
  Backoff,      \* backoff_seconds of the queue, in ticks
  MaxDelay,     \* the cap of 3600 seconds on a delay, in ticks
  Lease,        \* lease_seconds, in ticks
  Delays,       \* run_at offsets a caller of enqueue asks for
  MaxAge,       \* bound: run_at times older than this compare as equal
  MaxBeats,     \* bound: heartbeats in flight at once
  MaxFaults,    \* bound: crashes, stalls and database errors together
  MaxOps        \* bound: retries, replays and cancellations together

Job == 1 .. MaxJobs     \* uuid v7 ids: later rows have greater ids
Claim == [job : Job, attempt : Nat, ticket : Nat]
Beat == [worker : Worker, claim : Claim]
Session == [op : {"retry", "replay"}, job : Job]

ASSUME SizesAssumption ==
  /\ MaxJobs \in Nat /\ MaxAttempts \in Nat \ {0} /\ Lease \in Nat \ {0}
  /\ Backoff \in Nat \ {0} /\ MaxDelay \in Nat \ {0}
  /\ MaxBeats \in Nat /\ MaxAge \in Nat /\ MaxFaults \in Nat /\ MaxOps \in Nat /\ Lanes \in Nat
  /\ Delays \subseteq Nat
ASSUME NamesAssumption ==
  /\ None \notin Worker /\ None \notin Key /\ None \notin Job
  /\ None \notin Claim /\ None \notin Session /\ None \notin [job : Job, ticket : Nat]
  /\ Kinds \in [Worker -> SUBSET Kind] /\ Kind # {}

VARIABLES
  status,     \* _appstruct_jobs.status, "absent" before the INSERT
  attempts,   \* .attempts
  lockedBy,   \* .locked_by
  lease,      \* .locked_until, relative
  due,        \* .run_at, relative
  key,        \* .idempotency_key
  kind,       \* .kind
  pc,         \* where each lane is in run_once
  claim,      \* the Job value a lane's run_once holds
  result,     \* what its handler returned
  beats,      \* heartbeat UPDATEs sent and not yet executed
  admin,      \* the open transaction of each administrator session
  receipt,    \* the id enqueue last returned for each key
  claims,     \* history: how often each row was claimed
  faults,     \* faults left
  ops         \* administrator operations left

row == <<status, attempts, lockedBy, lease, due, key, kind, claims>>
lane == <<pc, claim, result>>
vars == <<row, lane, beats, admin, receipt, faults, ops>>

Terminal == {"succeeded", "dead", "cancelled"}
Outcomes == {"ok", "error", "fatal"}

TypeOK ==
  /\ status \in [Job -> {"absent", "queued", "running"} \cup Terminal]
  /\ attempts \in [Job -> Nat] /\ claims \in [Job -> Nat]
  /\ lockedBy \in [Job -> Worker \cup {None}]
  /\ lease \in [Job -> 0 .. Lease] /\ due \in [Job -> Int]
  /\ key \in [Job -> Key \cup {None}] /\ kind \in [Job -> Kind]
  /\ pc \in [Worker -> {"new", "idle", "handling", "returned", "down"}]
  /\ claim \in [Worker -> Claim \cup {None}]
  /\ result \in [Worker -> Outcomes]
  /\ beats \subseteq Beat
  /\ admin \in [Admin -> Session \cup {None}]
  /\ receipt \in [Key -> Job \cup {None}]
  /\ faults \in 0 .. MaxFaults /\ ops \in 0 .. MaxOps

Init ==
  /\ status = [j \in Job |-> "absent"] /\ attempts = [j \in Job |-> 0]
  /\ lockedBy = [j \in Job |-> None] /\ lease = [j \in Job |-> 0]
  /\ due = [j \in Job |-> 0] /\ key = [j \in Job |-> None]
  /\ kind = [j \in Job |-> CHOOSE k \in Kind : TRUE]
  /\ claims = [j \in Job |-> 0]
  /\ pc \in [Worker -> {"new", "idle"}]
  /\ Cardinality({w \in Worker : pc[w] = "idle"}) = Lanes
  /\ claim = [w \in Worker |-> None]
  /\ result = [w \in Worker |-> "ok"] /\ beats = {}
  /\ admin = [a \in Admin |-> None] /\ receipt = [k \in Key |-> None]
  /\ faults = MaxFaults /\ ops = MaxOps
-----------------------------------------------------------------------------
(* Rows *)

Working(w) == pc[w] \in {"handling", "returned"}

\* run_once ends: its Job value is dropped.
Leave(w, place) ==
  /\ pc' = [pc EXCEPT ![w] = place]
  /\ claim' = [claim EXCEPT ![w] = None]
  /\ result' = [result EXCEPT ![w] = "ok"]

\* A row an administrator transaction has locked FOR UPDATE.
Locked(j) == \E a \in Admin : admin[a] # None /\ admin[a].job = j

\* The id a new row gets: uuid v7 grows with time.
NextId(j) == status[j] = "absent" /\ \A i \in Job : i < j => status[i] # "absent"

Insert(j, k, kd, d) ==
  /\ NextId(j)
  /\ status' = [status EXCEPT ![j] = "queued"]
  /\ due' = [due EXCEPT ![j] = d]
  /\ key' = [key EXCEPT ![j] = k] /\ kind' = [kind EXCEPT ![j] = kd]
  /\ UNCHANGED <<attempts, lockedBy, lease, claims>>

\* A row leaves "running": locked_by and locked_until become NULL.
Release(j, s) ==
  /\ status' = [status EXCEPT ![j] = s]
  /\ lockedBy' = [lockedBy EXCEPT ![j] = None]
  /\ lease' = [lease EXCEPT ![j] = 0]

\* The seconds a failed attempt waits: doubled per attempt, capped.
Delay(attempt) ==
  LET exponent == IF attempt - 1 > 30 THEN 30 ELSE attempt - 1
      doubled  == Backoff * 2 ^ exponent
  IN  IF doubled \in 0 .. MaxDelay THEN doubled ELSE MaxDelay
-----------------------------------------------------------------------------
(* Callers *)

\* Mutant: the unique index covers unsettled rows only.
EnqueueAfterSettled(k, kd, d) ==
  /\ k # None => \A j \in Job : key[j] = k => status[j] \in Terminal
  /\ \E j \in Job :
       /\ Insert(j, k, kd, d)
       /\ receipt' = [q \in Key |-> IF q = k THEN j ELSE receipt[q]]
  /\ UNCHANGED <<lane, beats, admin, faults, ops>>

EnqueueNew(k, kd, d) ==
  /\ k # None => \A j \in Job : key[j] # k
  /\ \E j \in Job :
       /\ Insert(j, k, kd, d)
       /\ receipt' = [q \in Key |-> IF q = k THEN j ELSE receipt[q]]
  /\ UNCHANGED <<lane, beats, admin, faults, ops>>

\* ON CONFLICT (idempotency_key): the row stays, its id is returned.
EnqueueDuplicate(k) ==
  /\ k # None
  /\ \E j \in Job :
       /\ key[j] = k /\ ~Locked(j)
       /\ receipt' = [receipt EXCEPT ![k] = j]
  /\ UNCHANGED <<row, lane, beats, admin, faults, ops>>

\* Mutant: WHERE id = $1 only.
CancelAny(j) ==
  /\ ops > 0 /\ ops' = ops - 1
  /\ status[j] # "absent" /\ ~Locked(j)
  /\ Release(j, "cancelled")
  /\ UNCHANGED <<attempts, due, key, kind, claims, lane, beats, admin, receipt,
                 faults>>

\* A report's owner cancels the run: its job is cancelled in place.
Cancel(j) ==
  /\ ops > 0 /\ ops' = ops - 1
  /\ status[j] \in {"queued", "running"} /\ ~Locked(j)
  /\ Release(j, "cancelled")
  /\ UNCHANGED <<attempts, due, key, kind, claims, lane, beats, admin, receipt,
                 faults>>
-----------------------------------------------------------------------------
(* Worker lanes *)

\* A process that died is started again; each of its lanes has a new id.
Start(w) ==
  /\ pc[w] = "new"
  /\ Cardinality({v \in Worker : pc[v] \notin {"new", "down"}}) < Lanes
  /\ pc' = [pc EXCEPT ![w] = "idle"]
  /\ UNCHANGED <<row, claim, result, beats, admin, receipt, faults, ops>>

\* Mutant: a lease counts as over one tick early.
EligibleEarly(w, j) ==
  /\ \/ status[j] = "queued" /\ due[j] <= 0
     \/ status[j] = "running" /\ lease[j] <= 1
  /\ kind[j] \in Kinds[w] /\ ~Locked(j)

\* Mutant: rows whose lease is over are never claimed again.
EligibleQueued(w, j) ==
  status[j] = "queued" /\ due[j] <= 0 /\ kind[j] \in Kinds[w] /\ ~Locked(j)

Eligible(w, j) ==
  /\ \/ status[j] = "queued" /\ due[j] <= 0
     \/ status[j] = "running" /\ lease[j] = 0
  /\ kind[j] \in Kinds[w]
  /\ ~Locked(j)

\* ORDER BY run_at, id FOR UPDATE SKIP LOCKED LIMIT 1
Candidate(w, j) ==
  /\ Eligible(w, j)
  /\ \A i \in Job : Eligible(w, i) => \/ due[j] < due[i]
                                      \/ due[j] = due[i] /\ j <= i

\* Mutant: a reclaimed row keeps its first holder.
ClaimKeepsHolder(w) ==
  /\ pc[w] = "idle"
  /\ \E j \in Job :
       /\ Candidate(w, j)
       /\ status' = [status EXCEPT ![j] = "running"]
       /\ attempts' = [attempts EXCEPT ![j] = @ + 1]
       /\ lockedBy' = [lockedBy EXCEPT ![j] = IF @ = None THEN w ELSE @]
       /\ lease' = [lease EXCEPT ![j] = Lease]
       /\ claims' = [claims EXCEPT ![j] = @ + 1]
       /\ claim' = [claim EXCEPT ![w] =
            [job |-> j, attempt |-> attempts[j] + 1, ticket |-> claims[j] + 1]]
  /\ pc' = [pc EXCEPT ![w] = "handling"]
  /\ UNCHANGED <<due, key, kind, result, beats, admin, receipt, faults, ops>>

ClaimJob(w) ==
  /\ pc[w] = "idle"
  /\ \E j \in Job :
       /\ Candidate(w, j)
       /\ status' = [status EXCEPT ![j] = "running"]
       /\ attempts' = [attempts EXCEPT ![j] = @ + 1]
       /\ lockedBy' = [lockedBy EXCEPT ![j] = w]
       /\ lease' = [lease EXCEPT ![j] = Lease]
       /\ claims' = [claims EXCEPT ![j] = @ + 1]
       /\ claim' = [claim EXCEPT ![w] =
            [job |-> j, attempt |-> attempts[j] + 1, ticket |-> claims[j] + 1]]
  /\ pc' = [pc EXCEPT ![w] = "handling"]
  /\ UNCHANGED <<due, key, kind, result, beats, admin, receipt, faults, ops>>

\* The heartbeat branch of handle_with_lease sends its UPDATE.
SendBeat(w) ==
  /\ pc[w] = "handling"
  /\ [worker |-> w, claim |-> claim[w]] \notin beats /\ Cardinality(beats) < MaxBeats
  /\ beats' = beats \cup {[worker |-> w, claim |-> claim[w]]}
  /\ UNCHANGED <<row, lane, admin, receipt, faults, ops>>

\* Mutant: without locked_until > clock_timestamp().
BeatMatchesExpired(b) ==
  LET j == b.claim.job
  IN  /\ status[j] = "running" /\ lockedBy[j] = b.worker
      /\ attempts[j] = b.claim.attempt

\* Rows the UPDATE of a heartbeat matches.
BeatMatches(b) ==
  LET j == b.claim.job
  IN  /\ status[j] = "running" /\ lockedBy[j] = b.worker
      /\ attempts[j] = b.claim.attempt /\ lease[j] > 0

\* The UPDATE executes, which may be after select! has dropped the branch
\* that sent it. A branch still waiting for it drops the handler when no row
\* matches.
ExecuteBeat(b) ==
  LET waiting == pc[b.worker] = "handling" /\ claim[b.worker] = b.claim
  IN  /\ b \in beats /\ ~Locked(b.claim.job)
      /\ beats' = beats \ {b}
      /\ lease' = IF BeatMatches(b)
                    THEN [lease EXCEPT ![b.claim.job] = Lease] ELSE lease
      /\ IF waiting /\ ~BeatMatches(b) THEN Leave(b.worker, "idle")
                                       ELSE UNCHANGED lane
      /\ UNCHANGED <<status, attempts, lockedBy, due, key, kind, claims, admin,
                     receipt, faults, ops>>

\* A heartbeat whose branch was dropped before the statement was sent.
DropBeat(b) ==
  /\ b \in beats
  /\ ~(pc[b.worker] = "handling" /\ claim[b.worker] = b.claim)
  /\ beats' = beats \ {b}
  /\ UNCHANGED <<row, lane, admin, receipt, faults, ops>>

HandlerReturns(w, r) ==
  /\ pc[w] = "handling"
  /\ pc' = [pc EXCEPT ![w] = "returned"]
  /\ result' = [result EXCEPT ![w] = r]
  /\ UNCHANGED <<row, claim, beats, admin, receipt, faults, ops>>

\* Mutant: the worker id is not compared.
StillRunning(w) == status[claim[w].job] = "running"

\* WHERE id = $1 AND status = 'running' AND locked_by = $2
StillHolds(w) ==
  LET j == claim[w].job IN status[j] = "running" /\ lockedBy[j] = w

\* No row matched: JobError::LeaseLost, the lane goes on.
LeaseLost(w) == ~StillHolds(w) /\ UNCHANGED row

Complete(w) ==
  /\ pc[w] = "returned" /\ result[w] = "ok" /\ ~Locked(claim[w].job)
  /\ \/ /\ StillHolds(w)
        /\ Release(claim[w].job, "succeeded")
        /\ UNCHANGED <<attempts, due, key, kind, claims>>
     \/ LeaseLost(w)
  /\ Leave(w, "idle")
  /\ UNCHANGED <<beats, admin, receipt, faults, ops>>

Fail(w) ==
  LET j == claim[w].job
      terminal == claim[w].attempt >= MaxAttempts \/ result[w] = "fatal"
  IN  /\ pc[w] = "returned" /\ result[w] # "ok" /\ ~Locked(j)
      /\ \/ /\ StillHolds(w)
            /\ Release(j, IF terminal THEN "dead" ELSE "queued")
            /\ due' = IF terminal THEN due
                        ELSE [due EXCEPT ![j] = Delay(claim[w].attempt)]
            /\ UNCHANGED <<attempts, key, kind, claims>>
         \/ LeaseLost(w)
      /\ Leave(w, "idle")
      /\ UNCHANGED <<beats, admin, receipt, faults, ops>>
-----------------------------------------------------------------------------
(* Administrator *)

Lock(a, op, j) ==
  /\ ops > 0 /\ ops' = ops - 1
  /\ admin[a] = None /\ ~Locked(j)
  /\ \/ op = "retry" /\ status[j] = "dead"
     \/ op = "replay" /\ status[j] \in {"succeeded", "dead"}
  /\ admin' = [admin EXCEPT ![a] = [op |-> op, job |-> j]]
  /\ UNCHANGED <<row, lane, beats, receipt, faults>>

CommitRetry(a) ==
  /\ admin[a] # None /\ admin[a].op = "retry"
  /\ Release(admin[a].job, "queued")
  /\ attempts' = [attempts EXCEPT ![admin[a].job] = 0]
  /\ due' = [due EXCEPT ![admin[a].job] = 0]
  /\ admin' = [admin EXCEPT ![a] = None]
  /\ UNCHANGED <<key, kind, claims, lane, beats, receipt, faults, ops>>

CommitReplay(a) ==
  /\ admin[a] # None /\ admin[a].op = "replay"
  /\ \E j \in Job : Insert(j, None, kind[admin[a].job], 0)
  /\ admin' = [admin EXCEPT ![a] = None]
  /\ UNCHANGED <<lane, beats, receipt, faults, ops>>

\* The transaction is dropped before it commits.
Rollback(a) ==
  /\ admin[a] # None
  /\ admin' = [admin EXCEPT ![a] = None]
  /\ UNCHANGED <<row, lane, beats, receipt, faults, ops>>
-----------------------------------------------------------------------------
(* Time and faults *)

PassTime ==
  /\ due' = [j \in Job |-> IF status[j] \in {"queued", "running"} /\ due[j] > -MaxAge
                             THEN due[j] - 1 ELSE due[j]]
  /\ lease' = [j \in Job |-> IF lease[j] > 0 THEN lease[j] - 1 ELSE 0]
  /\ UNCHANGED <<status, attempts, lockedBy, key, kind, claims, lane, beats, admin,
                 receipt, ops>>

\* Lanes run and heartbeats fire every third of a lease: with nothing stalled
\* a live lane extends its lease before it ends.
Tick ==
  /\ \A w \in Worker : Working(w) /\ StillHolds(w) => lease[claim[w].job] # 1
  /\ PassTime /\ UNCHANGED faults

\* The process or the database stands still past a heartbeat.
Stall == faults > 0 /\ faults' = faults - 1 /\ PassTime

\* The statement of a heartbeat, complete or fail errors: the lane drops the
\* attempt and goes on.
DatabaseError(w) ==
  /\ faults > 0 /\ faults' = faults - 1
  /\ Working(w) /\ Leave(w, "idle")
  /\ UNCHANGED <<row, beats, admin, receipt, ops>>

\* A lane dies with its process; bound: an identity for its restart is left.
Crash(w) ==
  /\ faults > 0 /\ faults' = faults - 1
  /\ pc[w] \notin {"new", "down"} /\ \E v \in Worker : pc[v] = "new"
  /\ Leave(w, "down")
  /\ UNCHANGED <<row, beats, admin, receipt, ops>>
-----------------------------------------------------------------------------
Lanework(w) ==
  \/ Start(w) \/ ClaimJob(w) \/ SendBeat(w) \/ Complete(w) \/ Fail(w)
  \/ \E r \in Outcomes : HandlerReturns(w, r)
Callers ==
  \/ \E k \in Key \cup {None}, kd \in Kind, d \in Delays : EnqueueNew(k, kd, d)
  \/ \E k \in Key : EnqueueDuplicate(k)
  \/ \E j \in Job : Cancel(j)
Heartbeats == \E b \in beats : ExecuteBeat(b) \/ DropBeat(b)
Administration(a) ==
  \/ \E op \in {"retry", "replay"}, j \in Job : Lock(a, op, j)
  \/ CommitRetry(a) \/ CommitReplay(a) \/ Rollback(a)
Faults == Stall \/ \E w \in Worker : DatabaseError(w) \/ Crash(w)

Next ==
  \/ Callers \/ Heartbeats \/ \E w \in Worker : Lanework(w)
  \/ \E a \in Admin : Administration(a)
  \/ Tick \/ Faults

Spec == Init /\ [][Next]_vars

\* Lanes loop, statements execute, handlers return, transactions end and the
\* clock advances; faults and callers are never obliged to act.
Fairness ==
  /\ \A w \in Worker : /\ WF_vars(Start(w)) /\ WF_vars(ClaimJob(w))
                       /\ WF_vars(SendBeat(w))
                       /\ WF_vars(\E r \in Outcomes : HandlerReturns(w, r))
                       /\ WF_vars(Complete(w)) /\ WF_vars(Fail(w))
  /\ WF_vars(Heartbeats)
  /\ \A a \in Admin : WF_vars(CommitRetry(a) \/ CommitReplay(a) \/ Rollback(a))
  /\ WF_vars(Tick)

FairSpec == Spec /\ Fairness
-----------------------------------------------------------------------------
(* Properties *)

\* A lane whose worker id still stands in the row it works on works for the
\* row's latest claim: the worker id alone, which is all complete and fail
\* compare, fences off every earlier claim of the row.
HolderIsCurrent ==
  \A w \in Worker : Working(w) /\ StillHolds(w) =>
    /\ claim[w].ticket = claims[claim[w].job]
    /\ claim[w].attempt = attempts[claim[w].job]

\* Exactly the running rows have a holder, and only they have a lease: claim,
\* complete, fail, cancel and retry never leave one behind.
RunningIsHeld ==
  \A j \in Job : /\ status[j] = "running" <=> lockedBy[j] # None
                 /\ lease[j] > 0 => status[j] = "running"

\* Holders and leases belong together: a running row has a holder, who works for
\* its latest claim (claim, complete, fail, cancel, retry).
LeasesAreHeld == TypeOK /\ RunningIsHeld /\ HolderIsCurrent

\* While no lane crashed, stalled or lost its database, heartbeats keep every
\* claimed job with one lane: no two lanes run the handler of a job at once.
NoOverlapWithoutFaults ==
  faults = MaxFaults =>
    \A v, w \in Worker : Working(v) /\ Working(w) /\ claim[v].job = claim[w].job
                           => v = w

\* A running row ends its attempt only through the lane that holds its latest
\* claim (complete, fail) or through a cancellation: a lane that was overtaken
\* after its lease ended never decides the outcome of a newer attempt.
OnlyLatestClaimSettles ==
  [][\A j \in Job :
       status[j] = "running" /\ status'[j] \in {"queued", "succeeded", "dead"} =>
         \E w \in Worker : /\ pc[w] = "returned" /\ claim[w].job = j
                           /\ claim[w].ticket = claims[j]]_vars

\* A succeeded or cancelled job keeps its row for good, and a dead one leaves
\* that state only as a retry: queued, with no attempts and no holder.
SettledStaysSettled ==
  [][\A j \in Job :
       /\ status[j] \in {"succeeded", "cancelled"} =>
            status'[j] = status[j] /\ attempts'[j] = attempts[j]
       /\ status[j] = "dead" /\ status'[j] # "dead" =>
            status'[j] = "queued" /\ attempts'[j] = 0]_vars

\* An outcome is decided by the latest claim and, once decided, stays (complete,
\* fail, cancel, retry_admin_job).
OutcomesAreFinal == OnlyLatestClaimSettles /\ SettledStaysSettled

\* Once a lease has ended only a new claim revives it: a heartbeat that is
\* executed late does not.
OnlyClaimsReviveLeases ==
  [][\A j \in Job : lease[j] = 0 /\ lease'[j] > 0 => claims'[j] = claims[j] + 1]_vars

\* Whatever happened to the first job in the meantime, enqueue answers a
\* repeated idempotency key with the id it answered first.
ReceiptIsStable ==
  [][\A k \in Key : receipt[k] # None => receipt'[k] = receipt[k]]_vars

\* Every job a caller enqueued is eventually settled, through crashed lanes,
\* lost leases, database errors and administrators, as faults are finite.
EveryJobSettles ==
  \A j \in Job : status[j] \in {"queued", "running"} ~> status[j] \in Terminal
-----------------------------------------------------------------------------
(* Refinement: a claim's ticket is its number in the row's history, and a   *)
(* lane carries the one run_once holds.                                     *)

phaseBar == [j \in Job |-> IF status[j] = "queued" THEN "waiting"
                          ELSE IF status[j] = "running" THEN "active"
                          ELSE status[j]]
carriedBar == [w \in Worker |->
                IF Working(w) THEN [job |-> claim[w].job, ticket |-> claim[w].ticket]
                              ELSE None]

Fenced == INSTANCE FencedQueue WITH phase <- phaseBar, drawn <- claims,
                                    carried <- carriedBar

\* The worker id in locked_by does the work of a fencing ticket: the queue
\* implements one in which only the latest claim of a job can settle it.
ImplementsFencedQueue == Fenced!Spec
=============================================================================
