-------------------------- MODULE ReportRunsProofs --------------------------
(***************************************************************************)
(* Proofs about ReportRuns for any number of runs, lanes, cleanups, keys   *)
(* and faults, with and without an entitlement.                            *)
(***************************************************************************)
EXTENDS ReportRuns, TLAPS

-----------------------------------------------------------------------------
(* Types *)

LEMMA TypesInit == Init => TypeOK
  BY ReportAssumption DEF Init, TypeOK, Terminal, Stages, Places

LEMMA TypesStep == TypeOK /\ [Next]_vars => TypeOK'
<1> SUFFICES ASSUME TypeOK, [Next]_vars PROVE TypeOK'
  OBVIOUS
<1> USE ReportAssumption
    DEF TypeOK, Terminal, Stages, Places, runRow, files, job, lane, cleanup, rest
<1>1. ASSUME NEW r \in Run, NEW k \in Key, Create(r, k) PROVE TypeOK'
  <2>1. usage' \in [Run -> {"none", "reserved", "refunded"}]
    BY <1>1 DEF Create, Reserve
  <2>2. /\ execution' \in [Run -> Run \cup {None}]
        /\ status' \in [Run -> {"none", "queued", "running", "succeeded", "dead", "cancelled"}]
    <3>1. CASE Enqueued(k) = {}
      BY <1>1, <3>1 DEF Create
    <3>2. CASE Enqueued(k) # {}
      <4>1. (CHOOSE j \in Enqueued(k) : TRUE) \in Run
        BY <3>2 DEF Enqueued
      <4>2. PICK old \in Run : execution' = [execution EXCEPT ![r] = old] /\ UNCHANGED status
        <5>1. /\ execution' = [execution EXCEPT ![r] = CHOOSE j \in Enqueued(k) : TRUE]
              /\ UNCHANGED status
          BY <1>1, <3>2 DEF Create
        <5>. QED BY <4>1, <5>1
      <4>. QED BY <4>2
    <3>. QED BY <3>1, <3>2
  <2>. QED BY <1>1, <2>1, <2>2 DEF Create
<1>2. ASSUME NEW r \in Run, Cancel(r) PROVE TypeOK'
  <2>1. PICK j : Release(j, "cancelled")
    BY <1>2 DEF Cancel
  <2>2. /\ status' \in [Run -> {"none", "queued", "running", "succeeded", "dead", "cancelled"}]
        /\ lockedBy' \in [Run -> Worker \cup {None}] /\ leased' \in [Run -> BOOLEAN]
    BY <2>1 DEF Release
  <2>3. stage' \in [Run -> Stages] /\ usage' \in [Run -> {"none", "reserved", "refunded"}]
    BY <1>2 DEF Cancel, Refund
  <2>. QED BY <1>2, <2>2, <2>3 DEF Cancel
<1>3. ASSUME NEW r \in Run, AdminRetry(r) PROVE TypeOK'
  BY <1>3 DEF AdminRetry, Release
<1>4. ASSUME NEW w \in Worker, NEW j \in Run, Claim(w, j) PROVE TypeOK'
  BY <1>4 DEF Claim, Go
<1>5. ASSUME NEW w \in Worker, Load(w) \/ Ensure(w) PROVE TypeOK'
  BY <1>5 DEF Load, Ensure, Go, FailsWith, Returns, Active
<1>6. ASSUME NEW w \in Worker, MarkRendering(w) PROVE TypeOK'
  BY <1>6 DEF MarkRendering, Go
<1>7. ASSUME NEW w \in Worker, RenderDone(w) \/ RenderStops(w) PROVE TypeOK'
  BY <1>7 DEF RenderDone, RenderStops, Go, FailsWith, Active
<1>8. ASSUME NEW w \in Worker, NEW o \in {"retryable", "fatal"}, RenderFails(w, o)
      PROVE  TypeOK'
  BY <1>8 DEF RenderFails, Go, FailsWith
<1>9. ASSUME NEW w \in Worker, PublishStart(w) PROVE TypeOK'
  <2>1. run[w] \in Run
    BY <1>9 DEF PublishStart
  <2>2. CASE Active(w) = "ok"
    <3>1. /\ locked' = [locked EXCEPT ![run[w]] = w]
          /\ object' = [object EXCEPT ![run[w]] = TRUE]
      BY <1>9, <2>2 DEF PublishStart, LocksRows
    <3>2. locked' \in [Run -> Worker \cup {None}] /\ object' \in [Run -> BOOLEAN]
      BY <2>1, <3>1
    <3>. QED BY <1>9, <2>2, <3>2 DEF PublishStart, Go
  <2>3. CASE Active(w) # "ok"
    <3>1. Active(w) \in {"retryable", "fatal"}
      BY <2>3 DEF Active
    <3>. QED BY <1>9, <2>1, <2>3, <3>1, SMTT(40) DEF PublishStart, Go, FailsWith
  <2>. QED BY <2>2, <2>3
<1>10. ASSUME NEW w \in Worker, PublishCommit(w) PROVE TypeOK'
  BY <1>10 DEF PublishCommit, Unlock, Returns, Go
<1>11. ASSUME NEW w \in Worker, RecordFailure(w) PROVE TypeOK'
  BY <1>11 DEF RecordFailure, Refund, Go
<1>12. ASSUME NEW w \in Worker, Settle(w) PROVE TypeOK'
  <2>1. /\ status' \in [Run -> {"none", "queued", "running", "succeeded", "dead", "cancelled"}]
        /\ lockedBy' \in [Run -> Worker \cup {None}] /\ leased' \in [Run -> BOOLEAN]
        /\ attempts' \in [Run -> Nat]
    <3>1. CASE status[run[w]] = "running" /\ lockedBy[run[w]] = w
      <4>1. PICK to \in {"succeeded", "dead", "queued"} :
              Release(run[w], to) /\ UNCHANGED attempts
        BY <1>12, <3>1 DEF Settle
      <4>. QED BY <4>1 DEF Release
    <3>2. CASE ~(status[run[w]] = "running" /\ lockedBy[run[w]] = w)
      BY <1>12, <3>2 DEF Settle
    <3>. QED BY <3>1, <3>2
  <2>. QED BY <1>12, <2>1 DEF Settle, Leave, Go
<1>13. ASSUME NEW w \in Worker, LeaseLost(w) PROVE TypeOK'
  BY <1>13 DEF LeaseLost, Leave, Go
<1>14. ASSUME NEW w \in Worker, NEW place \in {"idle", "down"}, Interrupted(w, place)
       PROVE  TypeOK'
  BY <1>14 DEF Interrupted, Fault, Leave, Go, Unlock
<1>15. ASSUME NEW c \in Cleaner, NEW r \in Run, CleanupSelect(c, r) PROVE TypeOK'
  BY <1>15 DEF CleanupSelect
<1>16. ASSUME NEW c \in Cleaner, DiscardCheck(c) \/ DiscardObject(c) PROVE TypeOK'
  <2>1. doomed[c] \in Run
    BY <1>16 DEF DiscardCheck, DiscardObject
  <2>2. CASE DiscardCheck(c)
    BY <2>1, <2>2 DEF DiscardCheck
  <2>3. CASE DiscardObject(c)
    BY <2>1, <2>3 DEF DiscardObject, Discards
  <2>. QED BY <1>16, <2>2, <2>3
<1>17. ASSUME NEW c \in Cleaner, ClaimFile(c) \/ RemoveFile(c) PROVE TypeOK'
  <2>1. doomed[c] \in Run
    BY <1>17 DEF ClaimFile, RemoveFile
  <2>2. CASE ClaimFile(c)
    <3>1. object' \in [Run -> BOOLEAN]
      BY <2>1, <2>2, ZenonT(40) DEF ClaimFile
    <3>2. \/ /\ phase' = [phase EXCEPT ![c] = "remove"] /\ UNCHANGED <<doomed, sawKey>>
          \/ CleanupEnds(c)
      BY <2>2 DEF ClaimFile
    <3>3. /\ phase' \in [Cleaner -> {"idle", "discard", "unpublished", "claim", "remove", "row"}]
          /\ doomed' \in [Cleaner -> Run \cup {None}] /\ sawKey' \in [Cleaner -> BOOLEAN]
          /\ \A d \in Cleaner : phase'[d] # "idle" => doomed'[d] # None
      <4>1. CASE phase' = [phase EXCEPT ![c] = "remove"] /\ UNCHANGED <<doomed, sawKey>>
        BY <2>1, <4>1
      <4>2. CASE CleanupEnds(c)
        BY <4>2 DEF CleanupEnds
      <4>. QED BY <3>2, <4>1, <4>2
    <3>. QED BY <2>2, <3>1, <3>3 DEF ClaimFile
  <2>3. CASE RemoveFile(c)
    BY <2>1, <2>3 DEF RemoveFile
  <2>. QED BY <1>17, <2>2, <2>3
<1>18. ASSUME NEW c \in Cleaner, DeleteRun(c) PROVE TypeOK'
  BY <1>18 DEF DeleteRun, CleanupEnds
<1>19. ASSUME NEW c \in Cleaner, CleanupInterrupted(c) PROVE TypeOK'
  BY <1>19 DEF CleanupInterrupted, Fault, CleanupEnds
<1>20. ASSUME NEW r \in Run, Expire(r) PROVE TypeOK'
  BY <1>20 DEF Expire
<1>21. ASSUME NEW r \in Run, LeaseEnds(r) PROVE TypeOK'
  BY <1>21 DEF LeaseEnds, Fault
<1>22. ASSUME NEW w \in Worker, PublishFails(w) PROVE TypeOK'
  BY <1>22 DEF PublishFails, Fault, Unlock, FailsWith, Go
<1>23. CASE UNCHANGED vars
  BY <1>23 DEF vars
<1> HIDE DEF TypeOK, Terminal, Stages, Places, runRow, files, job, lane, cleanup, rest
<1>. QED
  BY <1>1, <1>2, <1>3, <1>4, <1>5, <1>6, <1>7, <1>8, <1>9, <1>10, <1>11, <1>12, <1>13,
     <1>14, <1>15, <1>16, <1>17, <1>18, <1>19, <1>20, <1>21, <1>22, <1>23
     DEF Next, Rendering, Cleaning

\* Every variable keeps its type, and a lane or a cleanup that is at work
\* always has a run in hand.
THEOREM TypeCorrect == Spec => []TypeOK
  BY TypesInit, TypesStep, PTL DEF Spec
-----------------------------------------------------------------------------
(* Publication *)

\* Usage is reserved when a run is created, and only where it is metered.
CreatedIsMetered ==
  \A r \in Run : IF Metered THEN stage[r] # "none" => usage[r] # "none"
                            ELSE usage[r] = "none"

\* A run either has the job it was created with, or the job of a run with the
\* same scope that has been deleted.
JobsAreOwn ==
  \A r \in Run :
    /\ scope[r] # None => stage[r] # "none"
    /\ stage[r] # "none" =>
         /\ execution[r] \in Run
         /\ execution[r] # r => stage[execution[r]] = "deleted"

\* What the two row locks and the check under them give the publication.
PublicationHolds ==
  \A w \in Worker : at[w] = "publishing" =>
    LET r == run[w] IN
    /\ locked[r] = w
    /\ execution[r] = r /\ Exists(r) /\ stage[r] # "cancelled" /\ ~Released(r)
    /\ status[r] = "running" /\ attempts[r] = attempt[w]
    /\ object[r] \/ expired[r]

CleansExpired == \A c \in Cleaner : doomed[c] # None => expired[doomed[c]]

\* Neither PublishedIsWhole nor UsageFollowsOutcome is inductive: the commit
\* needs PublicationHolds, which needs JobsAreOwn to survive a cancellation
\* of another run, and deletions need CleansExpired.
IInv ==
  /\ TypeOK /\ CreatedIsMetered /\ JobsAreOwn
  /\ UsageFollowsOutcome /\ PublicationHolds /\ CleansExpired /\ PublishedIsWhole

LEMMA IInvInit == Init => IInv
  BY TypesInit, ReportAssumption
     DEF Init, IInv, CreatedIsMetered, JobsAreOwn, UsageFollowsOutcome, PublicationHolds,
         CleansExpired, PublishedIsWhole

\* What a step may do to the row of a run: it is created, cancelled, marked,
\* published, failed or deleted by exactly these actions.
RowUntouched == UNCHANGED <<stage, scope, execution, resultKey, usage>>

LEMMA RowSteps ==
  ASSUME [Next]_vars
  PROVE  \/ \E r \in Run : \E k \in Key : Create(r, k)
         \/ \E r \in Run : Cancel(r)
         \/ \E w \in Worker : MarkRendering(w) \/ PublishCommit(w) \/ RecordFailure(w)
         \/ \E c \in Cleaner : DeleteRun(c)
         \/ RowUntouched
<1> USE DEF RowUntouched, runRow
<1>1. ASSUME NEW r \in Run, AdminRetry(r) \/ Expire(r) \/ LeaseEnds(r) PROVE RowUntouched
  BY <1>1 DEF AdminRetry, Expire, LeaseEnds
<1>2. ASSUME NEW w \in Worker, NEW j \in Run, Claim(w, j) PROVE RowUntouched
  BY <1>2 DEF Claim
<1>3. ASSUME NEW w \in Worker,
             \/ Load(w) \/ Ensure(w) \/ RenderDone(w) \/ RenderStops(w) \/ PublishStart(w)
             \/ PublishFails(w) \/ Settle(w) \/ LeaseLost(w)
             \/ \E o \in {"retryable", "fatal"} : RenderFails(w, o)
             \/ \E place \in {"idle", "down"} : Interrupted(w, place)
      PROVE  RowUntouched
  BY <1>3 DEF Load, Ensure, RenderDone, RenderStops, PublishStart, PublishFails, Settle,
              LeaseLost, RenderFails, Interrupted
<1>4. ASSUME NEW c \in Cleaner,
             \/ \E r \in Run : CleanupSelect(c, r)
             \/ DiscardCheck(c) \/ DiscardObject(c) \/ ClaimFile(c) \/ RemoveFile(c)
             \/ CleanupInterrupted(c)
      PROVE  RowUntouched
  BY <1>4 DEF CleanupSelect, DiscardCheck, DiscardObject, ClaimFile, RemoveFile,
              CleanupInterrupted
<1>5. CASE UNCHANGED vars
  BY <1>5 DEF vars
<1> HIDE DEF RowUntouched, runRow
<1>. QED
  BY <1>1, <1>2, <1>3, <1>4, <1>5 DEF Next, Rendering, Cleaning

\* A run's execution is its own while its row exists and another row's job
\* only after that row was deleted, so a cancellation meets no publication of
\* another run.
LEMMA OwnStep == IInv /\ [Next]_vars => CreatedIsMetered' /\ JobsAreOwn'
<1> SUFFICES ASSUME IInv, [Next]_vars PROVE CreatedIsMetered' /\ JobsAreOwn'
  OBVIOUS
<1> USE ReportAssumption DEF IInv, TypeOK, CreatedIsMetered, JobsAreOwn
<1>1. ASSUME NEW r \in Run, NEW k \in Key, Create(r, k)
      PROVE  CreatedIsMetered' /\ JobsAreOwn'
  <2>1. CreatedIsMetered'
    BY <1>1 DEF Create, Reserve
  <2>2. /\ stage' = [stage EXCEPT ![r] = "queued"] /\ stage[r] = "none"
        /\ scope' = [scope EXCEPT ![r] = k]
    BY <1>1 DEF Create
  <2>3. PICK j \in Run : /\ execution' = [execution EXCEPT ![r] = j]
                         /\ j # r => stage[j] = "deleted"
    <3>1. CASE Enqueued(k) = {}
      BY <1>1, <3>1 DEF Create
    <3>2. CASE Enqueued(k) # {}
      <4>1. PICK j \in Enqueued(k) : execution' = [execution EXCEPT ![r] = j]
        BY <1>1, <3>2 DEF Create
      <4>2. j \in Run /\ scope[j] = k
        BY <4>1 DEF Enqueued
      <4>3. stage[j] = "deleted"
        BY <1>1, <4>2 DEF Create, Exists
      <4>. QED BY <4>1, <4>2, <4>3
    <3>. QED BY <3>1, <3>2
  <2>4. JobsAreOwn'
    BY <2>2, <2>3
  <2>. QED BY <2>1, <2>4
<1>2. ASSUME NEW r \in Run, Cancel(r) PROVE CreatedIsMetered' /\ JobsAreOwn'
  BY <1>2 DEF Cancel, Refund
<1>3. ASSUME NEW w \in Worker, MarkRendering(w) \/ PublishCommit(w)
      PROVE  CreatedIsMetered' /\ JobsAreOwn'
  BY <1>3 DEF MarkRendering, MayMark, PublishCommit, PublicationHolds, Exists
<1>4. ASSUME NEW w \in Worker, RecordFailure(w) PROVE CreatedIsMetered' /\ JobsAreOwn'
  BY <1>4 DEF RecordFailure, Refund, Exists
<1>5. ASSUME NEW c \in Cleaner, DeleteRun(c) PROVE CreatedIsMetered' /\ JobsAreOwn'
  BY <1>5 DEF DeleteRun, Collectable, Terminal
<1>6. CASE RowUntouched
  BY <1>6 DEF RowUntouched
<1> HIDE DEF IInv, TypeOK, CreatedIsMetered, JobsAreOwn
<1>. QED BY <1>1, <1>2, <1>3, <1>4, <1>5, <1>6, RowSteps

LEMMA UsageStep == IInv /\ [Next]_vars => UsageFollowsOutcome'
<1> SUFFICES ASSUME IInv, [Next]_vars PROVE UsageFollowsOutcome'
  OBVIOUS
<1> USE ReportAssumption DEF IInv, TypeOK, CreatedIsMetered, UsageFollowsOutcome
<1>1. ASSUME NEW r \in Run, NEW k \in Key, Create(r, k) PROVE UsageFollowsOutcome'
  BY <1>1 DEF Create, Reserve
<1>2. ASSUME NEW r \in Run, Cancel(r) PROVE UsageFollowsOutcome'
  BY <1>2 DEF Cancel, Refund
<1>3. ASSUME NEW w \in Worker, MarkRendering(w) PROVE UsageFollowsOutcome'
  BY <1>3 DEF MarkRendering
<1>4. ASSUME NEW w \in Worker, PublishCommit(w) PROVE UsageFollowsOutcome'
  <2>1. Metered => usage[run[w]] = "reserved"
    BY <1>4 DEF PublishCommit, PublicationHolds, Exists, Released
  <2>. QED BY <1>4, <2>1 DEF PublishCommit
<1>5. ASSUME NEW w \in Worker, RecordFailure(w) PROVE UsageFollowsOutcome'
  <2> DEFINE recorded == Exists(run[w]) /\ execution[run[w]] = run[w] /\ Records(w)
             s == IF ~recorded THEN stage[run[w]]
                  ELSE IF Exhausted(w) THEN "failed" ELSE "queued"
  <2>1. /\ stage' = [stage EXCEPT ![run[w]] = s]
        /\ IF Exhausted(w) THEN Refund(run[w], s) ELSE UNCHANGED usage
        /\ run[w] \in Run
    BY <1>5 DEF RecordFailure
  <2>2. /\ s \in {stage[run[w]], "queued", "failed"}
        /\ s = "failed" => stage[run[w]] = "failed" \/ Exhausted(w)
        /\ s # stage[run[w]] => stage[run[w]] # "none"
    BY DEF Exists
  <2> HIDE DEF s
  <2>3. CASE Exhausted(w)
    BY <2>1, <2>2, <2>3 DEF Refund
  <2>4. CASE ~Exhausted(w)
    BY <2>1, <2>2, <2>4
  <2>. QED BY <2>3, <2>4
<1>6. ASSUME NEW c \in Cleaner, DeleteRun(c) PROVE UsageFollowsOutcome'
  BY <1>6 DEF DeleteRun
<1>7. CASE RowUntouched
  BY <1>7 DEF RowUntouched
<1> HIDE DEF IInv, TypeOK, CreatedIsMetered, UsageFollowsOutcome
<1>. QED BY <1>1, <1>2, <1>3, <1>4, <1>5, <1>6, <1>7, RowSteps

\* Outside publications, nobody touches a locked run or its job: each step
\* that writes either of them waits for the lock.
LEMMA PublicationStep == IInv /\ [Next]_vars => PublicationHolds'
<1> SUFFICES ASSUME IInv, [Next]_vars PROVE PublicationHolds'
  OBVIOUS
<1> USE ReportAssumption
    DEF IInv, TypeOK, PublicationHolds, Exists, Released, runRow, files, job, lane, cleanup, rest
<1>1. ASSUME NEW r \in Run, NEW k \in Key, Create(r, k) PROVE PublicationHolds'
  BY <1>1 DEF Create, Reserve
<1>2. ASSUME NEW r \in Run, Cancel(r) PROVE PublicationHolds'
  <2>1. execution[r] \in Run /\ (execution[r] # r => stage[execution[r]] = "deleted")
    BY <1>2 DEF Cancel, JobsAreOwn
  <2>. QED BY <1>2, <2>1 DEF Cancel, Release, Refund
<1>3. ASSUME NEW r \in Run, AdminRetry(r) \/ Expire(r) \/ LeaseEnds(r)
      PROVE  PublicationHolds'
  BY <1>3 DEF AdminRetry, Release, Expire, LeaseEnds
<1>4. ASSUME NEW w \in Worker, NEW j \in Run, Claim(w, j) PROVE PublicationHolds'
  BY <1>4 DEF Claim, Go
<1>5. ASSUME NEW w \in Worker,
             Load(w) \/ Ensure(w) \/ MarkRendering(w) \/ RenderDone(w) \/ RenderStops(w)
      PROVE  PublicationHolds'
  BY <1>5 DEF Load, Ensure, MarkRendering, RenderDone, RenderStops, Go, FailsWith, Returns
<1>6. ASSUME NEW w \in Worker, NEW o \in {"retryable", "fatal"}, RenderFails(w, o)
      PROVE  PublicationHolds'
  BY <1>6 DEF RenderFails, Go, FailsWith
<1>7. ASSUME NEW w \in Worker, PublishStart(w) PROVE PublicationHolds'
  <2>1. CASE Active(w) = "ok"
    BY <1>7, <2>1 DEF PublishStart, LocksRows, Go, Active, Owned
  <2>2. CASE Active(w) # "ok"
    BY <1>7, <2>2 DEF PublishStart, Go, FailsWith
  <2>. QED BY <2>1, <2>2
<1>8. ASSUME NEW w \in Worker, PublishCommit(w) PROVE PublicationHolds'
  BY <1>8 DEF PublishCommit, Unlock, Returns, Go
<1>9. ASSUME NEW w \in Worker, RecordFailure(w) PROVE PublicationHolds'
  <2>1. /\ at' = [at EXCEPT ![w] = "returned"]
        /\ UNCHANGED <<execution, expired, files, job, locked, run, attempt>>
        /\ run[w] \in Run
    BY <1>9 DEF RecordFailure, Go
  <2>2. ASSUME NEW v \in Worker, at[v] = "publishing" 
        PROVE  stage'[run[v]] = stage[run[v]] /\ usage'[run[v]] = usage[run[v]]
    <3>1. locked[run[v]] # None /\ stage[run[v]] # "cancelled"
      BY <2>2
    <3>2. CASE run[v] # run[w]
      <4>1. PICK s : /\ stage' = [stage EXCEPT ![run[w]] = s]
                     /\ Refund(run[w], s) \/ UNCHANGED usage
        BY <1>9 DEF RecordFailure
      <4>2. run[v] \in Run
        BY <2>2
      <4>3. stage'[run[v]] = stage[run[v]]
        BY <2>1, <3>2, <4>1, <4>2
      <4>4. CASE Refund(run[w], s)
        BY <2>1, <3>2, <4>2, <4>3, <4>4 DEF Refund
      <4>. QED BY <4>1, <4>3, <4>4
    <3>3. CASE run[v] = run[w]
      <4>1. stage' = stage
        BY <1>9, <3>1, <3>3 DEF RecordFailure
      <4>2. usage' = usage
        BY <1>9, <3>1, <3>3 DEF RecordFailure, Refund, UsageFollowsOutcome, CreatedIsMetered
      <4>. QED BY <4>1, <4>2
    <3>. QED BY <3>2, <3>3
  <2>. QED BY <2>1, <2>2
<1>10. ASSUME NEW w \in Worker, Settle(w) PROVE PublicationHolds'
  BY <1>10 DEF Settle, Release, Leave, Go
<1>11. ASSUME NEW w \in Worker, LeaseLost(w) PROVE PublicationHolds'
  BY <1>11 DEF LeaseLost, Leave, Go
<1>12. ASSUME NEW w \in Worker, NEW place \in {"idle", "down"}, Interrupted(w, place)
       PROVE  PublicationHolds'
  BY <1>12 DEF Interrupted, Fault, Leave, Go, Unlock
<1>13. ASSUME NEW c \in Cleaner,
              \/ \E r \in Run : CleanupSelect(c, r)
              \/ DiscardCheck(c) \/ RemoveFile(c) \/ DeleteRun(c) \/ CleanupInterrupted(c)
       PROVE  PublicationHolds'
  BY <1>13 DEF CleanupSelect, DiscardCheck, RemoveFile, DeleteRun, CleanupInterrupted
<1>14. ASSUME NEW c \in Cleaner, DiscardObject(c) \/ ClaimFile(c) PROVE PublicationHolds'
  <2>1. doomed[c] \in Run /\ expired[doomed[c]]
    BY <1>14 DEF DiscardObject, ClaimFile, CleansExpired
  <2>. QED BY <1>14, <2>1 DEF DiscardObject, Discards, ClaimFile
<1>15. ASSUME NEW w \in Worker, PublishFails(w) PROVE PublicationHolds'
  BY <1>15 DEF PublishFails, Fault, Unlock, FailsWith, Go
<1>16. CASE UNCHANGED vars
  BY <1>16 DEF vars
<1> HIDE DEF IInv, TypeOK, PublicationHolds, Exists, Released, runRow, files, job, lane,
             cleanup, rest
<1>. QED
  BY <1>1, <1>2, <1>3, <1>4, <1>5, <1>6, <1>7, <1>8, <1>9, <1>10, <1>11, <1>12, <1>13,
     <1>14, <1>15, <1>16
     DEF Next, Rendering, Cleaning

\* The SELECT of a cleanup sees expired runs only, and expiry is final.
LEMMA CleansStep == IInv /\ [Next]_vars => CleansExpired'
<1> SUFFICES ASSUME IInv, [Next]_vars PROVE CleansExpired'
  OBVIOUS
<1> USE ReportAssumption DEF IInv, TypeOK, CleansExpired, runRow, cleanup
<1>1. ASSUME NEW r \in Run, \E k \in Key : Create(r, k) PROVE CleansExpired'
  BY <1>1 DEF Create
<1>2. ASSUME NEW r \in Run, Cancel(r) \/ AdminRetry(r) \/ Expire(r) \/ LeaseEnds(r)
      PROVE  CleansExpired'
  BY <1>2 DEF Cancel, AdminRetry, Expire, LeaseEnds
<1>3. ASSUME NEW w \in Worker, Rendering(w) PROVE CleansExpired'
  <2>1. UNCHANGED <<expired, cleanup>>
    BY <1>3 DEF Rendering, Claim, Load, Ensure, MarkRendering, RenderDone, RenderStops,
                RenderFails, PublishStart, PublishCommit, PublishFails, RecordFailure, Settle,
                LeaseLost, Interrupted
  <2>. QED BY <2>1
<1>4. ASSUME NEW c \in Cleaner, NEW r \in Run, CleanupSelect(c, r) PROVE CleansExpired'
  BY <1>4 DEF CleanupSelect, Collectable
<1>5. ASSUME NEW c \in Cleaner, DiscardCheck(c) \/ DiscardObject(c) \/ RemoveFile(c)
      PROVE  CleansExpired'
  BY <1>5 DEF DiscardCheck, DiscardObject, RemoveFile
<1>6. ASSUME NEW c \in Cleaner, ClaimFile(c) \/ DeleteRun(c) \/ CleanupInterrupted(c)
      PROVE  CleansExpired'
  <2>1. UNCHANGED expired
    BY <1>6 DEF ClaimFile, DeleteRun, CleanupInterrupted
  <2>2. UNCHANGED doomed \/ CleanupEnds(c)
    BY <1>6 DEF ClaimFile, DeleteRun, CleanupInterrupted
  <2>. QED BY <2>1, <2>2 DEF CleanupEnds
<1>7. CASE UNCHANGED vars
  BY <1>7 DEF vars
<1> HIDE DEF IInv, TypeOK, CleansExpired, runRow, cleanup
<1>. QED BY <1>1, <1>2, <1>3, <1>4, <1>5, <1>6, <1>7 DEF Next, Cleaning

\* A run becomes a success only by a commit that has its object, and only
\* cleanups delete files, of expired runs.
LEMMA WholeStep == IInv /\ [Next]_vars => PublishedIsWhole'
<1> SUFFICES ASSUME IInv, [Next]_vars PROVE PublishedIsWhole'
  OBVIOUS
<1> USE ReportAssumption DEF IInv, TypeOK, PublishedIsWhole, runRow, files, rest
<1>1. ASSUME NEW r \in Run, NEW k \in Key, Create(r, k) PROVE PublishedIsWhole'
  BY <1>1 DEF Create
<1>2. ASSUME NEW r \in Run, Cancel(r) \/ AdminRetry(r) \/ Expire(r) \/ LeaseEnds(r)
      PROVE  PublishedIsWhole'
  BY <1>2 DEF Cancel, AdminRetry, Expire, LeaseEnds
<1>3. ASSUME NEW w \in Worker,
             \/ \E j \in Run : Claim(w, j)
             \/ Load(w) \/ Ensure(w) \/ RenderDone(w) \/ RenderStops(w)
             \/ \E o \in {"retryable", "fatal"} : RenderFails(w, o)
             \/ PublishFails(w) \/ Settle(w) \/ LeaseLost(w)
             \/ \E place \in {"idle", "down"} : Interrupted(w, place)
      PROVE  PublishedIsWhole'
  <2>1. UNCHANGED <<runRow, files>>
    BY <1>3 DEF Claim, Load, Ensure, RenderDone, RenderStops, RenderFails, PublishFails, Settle,
                LeaseLost, Interrupted
  <2>. QED BY <2>1
<1>4. ASSUME NEW w \in Worker, MarkRendering(w) PROVE PublishedIsWhole'
  BY <1>4 DEF MarkRendering
<1>5. ASSUME NEW w \in Worker, PublishStart(w) PROVE PublishedIsWhole'
  <2>1. UNCHANGED <<runRow, metadata>>
    BY <1>5 DEF PublishStart
  <2>2. object' = [object EXCEPT ![run[w]] = TRUE] \/ UNCHANGED object
    BY <1>5 DEF PublishStart
  <2>. QED BY <2>1, <2>2
<1>6. ASSUME NEW w \in Worker, PublishCommit(w) PROVE PublishedIsWhole'
  <2>1. run[w] \in Run /\ (object[run[w]] \/ expired[run[w]])
    BY <1>6 DEF PublishCommit, PublicationHolds
  <2>. QED BY <1>6, <2>1 DEF PublishCommit
<1>7. ASSUME NEW w \in Worker, RecordFailure(w) PROVE PublishedIsWhole'
  <2>1. /\ stage' = stage \/ \E s \in {"failed", "queued"} : stage' = [stage EXCEPT ![run[w]] = s]
        /\ UNCHANGED <<resultKey, expired, files>>
    BY <1>7 DEF RecordFailure
  <2>. QED BY <2>1
<1>8. ASSUME NEW c \in Cleaner,
             \/ \E r \in Run : CleanupSelect(c, r)
             \/ DiscardCheck(c) \/ CleanupInterrupted(c)
      PROVE  PublishedIsWhole'
  BY <1>8 DEF CleanupSelect, DiscardCheck, CleanupInterrupted
<1>9. ASSUME NEW c \in Cleaner, DiscardObject(c) \/ ClaimFile(c) \/ RemoveFile(c)
      PROVE  PublishedIsWhole'
  <2>1. doomed[c] \in Run /\ expired[doomed[c]]
    BY <1>9 DEF DiscardObject, ClaimFile, RemoveFile, CleansExpired
  <2>. QED BY <1>9, <2>1 DEF DiscardObject, Discards, ClaimFile, RemoveFile
<1>10. ASSUME NEW c \in Cleaner, DeleteRun(c) PROVE PublishedIsWhole'
  BY <1>10 DEF DeleteRun
<1>11. CASE UNCHANGED vars
  BY <1>11 DEF vars
<1> HIDE DEF IInv, TypeOK, PublishedIsWhole, runRow, files, rest
<1>. QED
  BY <1>1, <1>2, <1>3, <1>4, <1>5, <1>6, <1>7, <1>8, <1>9, <1>10, <1>11
     DEF Next, Rendering, Cleaning

LEMMA IInvStep == IInv /\ [Next]_vars => IInv'
  BY TypesStep, OwnStep, UsageStep, PublicationStep, CleansStep, WholeStep DEF IInv

LEMMA Inductive == Spec => []IInv
  BY IInvInit, IInvStep, PTL DEF Spec
-----------------------------------------------------------------------------
\* A succeeded run keeps its metadata, its object and its result key until it
\* expires, with any number of lanes, cleanups and faults.
THEOREM PublishedStaysWhole == Spec => []PublishedIsWhole
<1>1. IInv => PublishedIsWhole
  BY DEF IInv
<1>. QED BY <1>1, Inductive, PTL

\* Allowance is consumed by succeeded runs and given back by failed and
\* cancelled ones, in every reachable state.
THEOREM OutcomeIsPaid == Spec => []UsageFollowsOutcome
<1>1. IInv => UsageFollowsOutcome
  BY DEF IInv
<1>. QED BY <1>1, Inductive, PTL

\* No attempt that was under way when a run was cancelled brings it back.
THEOREM CancellationIsFinal == Spec => CancelledStays
<1>1. IInv /\ [Next]_vars =>
        [\A r \in Run : stage[r] = "cancelled" => stage'[r] \in {"cancelled", "deleted"}]_vars
  <2> SUFFICES ASSUME IInv, [Next]_vars, NEW r \in Run, stage[r] = "cancelled"
               PROVE  stage'[r] \in {"cancelled", "deleted"}
    OBVIOUS
  <2> USE DEF IInv, TypeOK
  <2>1. ASSUME NEW q \in Run, NEW k \in Key, Create(q, k)
        PROVE  stage'[r] \in {"cancelled", "deleted"}
    BY <2>1 DEF Create
  <2>2. ASSUME NEW q \in Run, Cancel(q) PROVE stage'[r] \in {"cancelled", "deleted"}
    BY <2>2 DEF Cancel
  <2>3. ASSUME NEW w \in Worker, MarkRendering(w) \/ PublishCommit(w)
        PROVE  stage'[r] \in {"cancelled", "deleted"}
    BY <2>3 DEF MarkRendering, MayMark, PublishCommit, PublicationHolds
  <2>4. ASSUME NEW w \in Worker, RecordFailure(w) PROVE stage'[r] \in {"cancelled", "deleted"}
    BY <2>4 DEF RecordFailure, Records
  <2>5. ASSUME NEW c \in Cleaner, DeleteRun(c) PROVE stage'[r] \in {"cancelled", "deleted"}
    BY <2>5 DEF DeleteRun
  <2>6. CASE RowUntouched
    BY <2>6 DEF RowUntouched
  <2> HIDE DEF IInv, TypeOK
  <2>. QED BY <2>1, <2>2, <2>3, <2>4, <2>5, <2>6, RowSteps
<1>. QED BY <1>1, Inductive, PTL DEF Spec, CancelledStays

\* A report becomes downloadable only in the attempt its job counts as
\* running at that moment.
THEOREM OnlyCurrentPublishes == Spec => PublisherIsCurrent
<1>1. IInv /\ [Next]_vars =>
        [\A r \in Run : metadata'[r] /\ ~metadata[r] =>
           \E w \in Worker : /\ at[w] = "publishing" /\ run[w] = r
                             /\ status[r] = "running" /\ attempt[w] = attempts[r]]_vars
  <2> SUFFICES ASSUME IInv, [Next]_vars, NEW r \in Run, metadata'[r], ~metadata[r]
               PROVE  \E w \in Worker : /\ at[w] = "publishing" /\ run[w] = r
                                        /\ status[r] = "running" /\ attempt[w] = attempts[r]
    OBVIOUS
  <2> USE DEF IInv, TypeOK, files
  <2>1. ASSUME NEW w \in Worker, PublishCommit(w)
        PROVE  /\ at[w] = "publishing" /\ run[w] = r
               /\ status[r] = "running" /\ attempt[w] = attempts[r]
    BY <2>1 DEF PublishCommit, PublicationHolds
  <2>2. ASSUME NEW w \in Worker, Rendering(w), ~PublishCommit(w) PROVE FALSE
    <3>1. UNCHANGED metadata
      BY <2>2 DEF Rendering, Claim, Load, Ensure, MarkRendering, RenderDone, RenderStops,
                  RenderFails, PublishStart, PublishFails, RecordFailure, Settle, LeaseLost,
                  Interrupted
    <3>. QED BY <3>1
  <2>3. ASSUME NEW q \in Run,
               \/ \E k \in Key : Create(q, k)
               \/ Cancel(q) \/ AdminRetry(q) \/ Expire(q) \/ LeaseEnds(q)
        PROVE  FALSE
    BY <2>3 DEF Create, Cancel, AdminRetry, Expire, LeaseEnds
  <2>4. ASSUME NEW c \in Cleaner, Cleaning(c) PROVE FALSE
    BY <2>4 DEF Cleaning, CleanupSelect, DiscardCheck, DiscardObject, ClaimFile, RemoveFile,
                DeleteRun, CleanupInterrupted
  <2>5. CASE UNCHANGED vars
    BY <2>5 DEF vars
  <2> HIDE DEF IInv, TypeOK, files
  <2>. QED BY <2>1, <2>2, <2>3, <2>4, <2>5 DEF Next
<1>. QED BY <1>1, Inductive, PTL DEF Spec, PublisherIsCurrent

\* Publication is the work of the current attempt of a run nobody cancelled
\* (publish_report, update_report_stage, cancel_run).
THEOREM PublishedByCurrent == Spec => PublicationIsCurrent
<1>. QED BY CancellationIsFinal, OnlyCurrentPublishes DEF PublicationIsCurrent
-----------------------------------------------------------------------------
(* Cleanup *)

\* A run that expired is left alone by lanes unless its job is retried, and a
\* job is that of the run it was created with.
QuietOnceExpired ==
  \A r \in Run :
    /\ expired[r] => stage[r] # "none"
    /\ stage[r] = "deleted" => expired[r]
    /\ stage[r] = "none" \/ execution[r] # r => status[r] = "none"
    /\ expired[r] /\ r \notin revived =>
         status[r] \notin {"queued", "running"} /\ \A w \in Worker : run[w] # r

\* A cleanup that goes on to the row has deleted object and metadata: a result
\* key tells of metadata, and the object goes first.
CleanedInOrder ==
  /\ \A r \in Run : metadata[r] => resultKey[r]
  /\ \A c \in Cleaner : doomed[c] # None /\ doomed[c] \notin revived =>
       /\ metadata[doomed[c]] => sawKey[c] /\ phase[c] # "unpublished"
       /\ phase[c] = "remove" => ~object[doomed[c]]
       /\ phase[c] = "row" => ~metadata[doomed[c]] /\ ~object[doomed[c]]

CleanupInv == QuietOnceExpired /\ CleanedInOrder /\ NothingLeftBehind

LEMMA CleanupInvInit == Init => CleanupInv
  BY ReportAssumption
     DEF Init, CleanupInv, QuietOnceExpired, CleanedInOrder, NothingLeftBehind

LEMMA QuietStep == IInv /\ QuietOnceExpired /\ [Next]_vars => QuietOnceExpired'
<1> SUFFICES ASSUME IInv, QuietOnceExpired, [Next]_vars PROVE QuietOnceExpired'
  OBVIOUS
<1> USE ReportAssumption DEF IInv, TypeOK, QuietOnceExpired, runRow, job, lane, rest
<1>1. ASSUME NEW r \in Run, NEW k \in Key, Create(r, k) PROVE QuietOnceExpired'
  BY <1>1 DEF Create
<1>2. ASSUME NEW r \in Run, Cancel(r) PROVE QuietOnceExpired'
  BY <1>2 DEF Cancel, Release
<1>3. ASSUME NEW r \in Run, AdminRetry(r) PROVE QuietOnceExpired'
  BY <1>3 DEF AdminRetry, Release
<1>4. ASSUME NEW r \in Run, Expire(r) PROVE QuietOnceExpired'
  BY <1>4 DEF Expire, Exists
<1>5. ASSUME NEW r \in Run, LeaseEnds(r) PROVE QuietOnceExpired'
  BY <1>5 DEF LeaseEnds, Fault
<1>6. ASSUME NEW w \in Worker, NEW j \in Run, Claim(w, j) PROVE QuietOnceExpired'
  BY <1>6 DEF Claim
<1>7. ASSUME NEW w \in Worker,
             \/ Load(w) \/ Ensure(w) \/ RenderDone(w) \/ RenderStops(w) \/ PublishStart(w)
             \/ PublishFails(w)
             \/ \E o \in {"retryable", "fatal"} : RenderFails(w, o)
      PROVE  QuietOnceExpired'
  <2>1. UNCHANGED <<runRow, job, run, revived>>
    BY <1>7 DEF Load, Ensure, RenderDone, RenderStops, PublishStart, PublishFails, RenderFails
  <2>. QED BY <2>1
<1>8. ASSUME NEW w \in Worker, MarkRendering(w) \/ PublishCommit(w) \/ RecordFailure(w)
      PROVE  QuietOnceExpired'
  <2>1. /\ UNCHANGED <<execution, expired, job, run, rest>> /\ run[w] \in Run
        /\ \/ UNCHANGED stage
           \/ /\ stage[run[w]] \notin {"none", "deleted"}
              /\ \E s \in {"rendering", "succeeded", "failed", "queued"} :
                   stage' = [stage EXCEPT ![run[w]] = s]
    <3>1. CASE MarkRendering(w)
      BY <3>1 DEF MarkRendering, MayMark, Exists
    <3>2. CASE PublishCommit(w)
      BY <3>2 DEF PublishCommit, Returns, PublicationHolds, Exists
    <3>3. CASE RecordFailure(w)
      BY <3>3, ZenonT(40) DEF RecordFailure, Exists
    <3>. QED BY <1>8, <3>1, <3>2, <3>3
  <2>. QED BY <2>1
<1>9. ASSUME NEW w \in Worker, Settle(w) PROVE QuietOnceExpired'
  BY <1>9 DEF Settle, Release, Leave
<1>10. ASSUME NEW w \in Worker,
              LeaseLost(w) \/ \E place \in {"idle", "down"} : Interrupted(w, place)
       PROVE  QuietOnceExpired'
  <2>1. UNCHANGED <<runRow, job, revived>> /\ run' = [run EXCEPT ![w] = None]
    BY <1>10 DEF LeaseLost, Interrupted, Leave
  <2>. QED BY <2>1
<1>11. ASSUME NEW c \in Cleaner, Cleaning(c) PROVE QuietOnceExpired'
  <2>1. UNCHANGED <<execution, expired, job, run, revived>>
    BY <1>11 DEF Cleaning, CleanupSelect, DiscardCheck, DiscardObject, ClaimFile, RemoveFile,
                 DeleteRun, CleanupInterrupted
  <2>2. \/ UNCHANGED stage
        \/ Collectable(doomed[c]) /\ stage' = [stage EXCEPT ![doomed[c]] = "deleted"]
    BY <1>11 DEF Cleaning, CleanupSelect, DiscardCheck, DiscardObject, ClaimFile, RemoveFile,
                 DeleteRun, CleanupInterrupted
  <2>. QED BY <2>1, <2>2 DEF Collectable, Terminal
<1>12. CASE UNCHANGED vars
  BY <1>12 DEF vars
<1> HIDE DEF IInv, TypeOK, QuietOnceExpired, runRow, job, lane, rest
<1>. QED
  BY <1>1, <1>2, <1>3, <1>4, <1>5, <1>6, <1>7, <1>8, <1>9, <1>10, <1>11, <1>12
     DEF Next, Rendering

\* Files appear for the run of a lane only, and never for one that is quiet.
LEMMA CleanedStep ==
  IInv /\ CleanupInv /\ [Next]_vars => CleanedInOrder' /\ NothingLeftBehind'
<1> SUFFICES ASSUME IInv, CleanupInv, [Next]_vars
             PROVE  CleanedInOrder' /\ NothingLeftBehind'
  OBVIOUS
<1> USE ReportAssumption DEF IInv, TypeOK, CleanupInv, CleanedInOrder, NothingLeftBehind, runRow,
                             files, cleanup, rest
<1>1. ASSUME NEW r \in Run,
             (\E k \in Key : Create(r, k)) \/ Cancel(r) \/ AdminRetry(r) \/ Expire(r) \/ LeaseEnds(r)
      PROVE  CleanedInOrder' /\ NothingLeftBehind'
  <2>1. /\ UNCHANGED <<resultKey, files, cleanup>> /\ revived \subseteq revived'
        /\ \A q \in Run : stage'[q] = "deleted" => stage[q] = "deleted"
    BY <1>1 DEF Create, Cancel, AdminRetry, Expire, LeaseEnds, Fault
  <2>. QED BY <2>1
<1>2. ASSUME NEW w \in Worker,
             \/ \E j \in Run : Claim(w, j)
             \/ Load(w) \/ Ensure(w) \/ MarkRendering(w) \/ RenderDone(w) \/ RenderStops(w)
             \/ PublishFails(w) \/ RecordFailure(w) \/ Settle(w) \/ LeaseLost(w)
             \/ \E o \in {"retryable", "fatal"} : RenderFails(w, o)
             \/ \E place \in {"idle", "down"} : Interrupted(w, place)
      PROVE  CleanedInOrder' /\ NothingLeftBehind'
  <2>1. UNCHANGED <<resultKey, files, cleanup, revived>>
    BY <1>2 DEF Claim, Load, Ensure, MarkRendering, RenderDone, RenderStops, RenderFails,
                PublishFails, RecordFailure, Settle, LeaseLost, Interrupted
  <2>2. \A q \in Run : stage'[q] = "deleted" => stage[q] = "deleted"
    BY <1>2 DEF Claim, Load, Ensure, MarkRendering, RenderDone, RenderStops, RenderFails,
                PublishFails, RecordFailure, Settle, LeaseLost, Interrupted
  <2>. QED BY <2>1, <2>2
<1>3. ASSUME NEW w \in Worker, PublishStart(w) \/ PublishCommit(w)
      PROVE  CleanedInOrder' /\ NothingLeftBehind'
  <2>1. run[w] \in Run /\ (expired[run[w]] => run[w] \in revived)
    BY <1>3 DEF PublishStart, PublishCommit, QuietOnceExpired
  <2>2. /\ UNCHANGED <<cleanup, revived>>
        /\ \A q \in Run \ {run[w]} : UNCHANGED <<metadata[q], object[q], resultKey[q], stage[q]>>
        /\ stage[run[w]] = stage'[run[w]] \/ stage'[run[w]] = "succeeded"
        /\ metadata'[run[w]] => resultKey'[run[w]]
    BY <1>3, <2>1 DEF PublishStart, PublishCommit
  <2>3. \A c \in Cleaner : doomed[c] # None /\ doomed[c] \notin revived =>
          doomed[c] \in Run \ {run[w]}
    BY <2>1 DEF CleansExpired
  <2>4. stage'[run[w]] = "deleted" => run[w] \in revived
    BY <2>1, <2>2 DEF QuietOnceExpired
  <2>. QED BY <2>1, <2>2, <2>3, <2>4
<1>4. ASSUME NEW c \in Cleaner, NEW r \in Run, CleanupSelect(c, r)
      PROVE  CleanedInOrder' /\ NothingLeftBehind'
  BY <1>4 DEF CleanupSelect
<1>5. ASSUME NEW c \in Cleaner, DiscardCheck(c) PROVE CleanedInOrder' /\ NothingLeftBehind'
  BY <1>5 DEF DiscardCheck
<1>6. ASSUME NEW c \in Cleaner, DiscardObject(c) PROVE CleanedInOrder' /\ NothingLeftBehind'
  BY <1>6 DEF DiscardObject, Discards
<1>7. ASSUME NEW c \in Cleaner, ClaimFile(c) PROVE CleanedInOrder' /\ NothingLeftBehind'
  BY <1>7, SMTT(40) DEF ClaimFile, CleanupEnds
<1>8. ASSUME NEW c \in Cleaner, RemoveFile(c) PROVE CleanedInOrder' /\ NothingLeftBehind'
  BY <1>8 DEF RemoveFile
<1>9. ASSUME NEW c \in Cleaner, DeleteRun(c) PROVE CleanedInOrder' /\ NothingLeftBehind'
  BY <1>9 DEF DeleteRun, CleanupEnds
<1>10. ASSUME NEW c \in Cleaner, CleanupInterrupted(c)
       PROVE  CleanedInOrder' /\ NothingLeftBehind'
  BY <1>10 DEF CleanupInterrupted, CleanupEnds
<1>11. CASE UNCHANGED vars
  BY <1>11 DEF vars
<1> HIDE DEF IInv, TypeOK, CleanupInv, CleanedInOrder, NothingLeftBehind, runRow, files, cleanup,
             rest
<1>. QED
  BY <1>1, <1>2, <1>3, <1>4, <1>5, <1>6, <1>7, <1>8, <1>9, <1>10, <1>11
     DEF Next, Rendering, Cleaning

\* Nothing is stored for a run whose row is gone, however often cleanups fail
\* between their statements, unless its job was retried after it expired.
THEOREM CleanupIsThorough == Spec => []NothingLeftBehind
<1>1. Init => CleanupInv
  BY CleanupInvInit
<1>2. IInv /\ CleanupInv /\ [Next]_vars => CleanupInv'
  BY QuietStep, CleanedStep DEF CleanupInv
<1>3. CleanupInv => NothingLeftBehind
  BY DEF CleanupInv
<1>. QED BY <1>1, <1>2, <1>3, Inductive, PTL DEF Spec
=============================================================================
