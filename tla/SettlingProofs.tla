--------------------------- MODULE SettlingProofs ---------------------------
(***************************************************************************)
(* Proofs about the two components MCSettling composes: JobQueue, for any  *)
(* number of rows, lanes, administrators and faults and any lengths of     *)
(* leases and delays, and DevelopmentServer, for any contents of the       *)
(* sources and any number of edits, sessions and failures.                 *)
(***************************************************************************)
EXTENDS JobQueue, DevelopmentServer, SequenceTheorems, TLAPS

\* A failed attempt waits between nothing and the cap of an hour.
LEMMA DelayBounded ==
  ASSUME NEW n \in Nat
  PROVE  Delay(n) \in 0 .. MaxDelay
  BY SizesAssumption DEF Delay

-----------------------------------------------------------------------------
(* Types *)

\* Exactly the lanes inside run_once hold a Job value.
CarriesClaim == \A w \in Worker : Working(w) <=> claim[w] # None

Types == TypeOK /\ CarriesClaim

LEMMA TypesInit == Init => Types
  BY SizesAssumption, NamesAssumption
     DEF Init, Types, TypeOK, CarriesClaim, Working, Job, Outcomes, Terminal

LEMMA TypesStep == Types /\ [Next]_vars => Types'
<1> SUFFICES ASSUME Types, [Next]_vars PROVE Types'
  OBVIOUS
<1> USE SizesAssumption, NamesAssumption DEF Types, TypeOK, CarriesClaim, Working
<1>1. ASSUME NEW k \in Key \cup {None}, NEW kd \in Kind, NEW d \in Delays,
             EnqueueNew(k, kd, d)
      PROVE  Types'
  BY <1>1 DEF EnqueueNew, Insert, NextId, lane
<1>2. ASSUME NEW k \in Key, EnqueueDuplicate(k) PROVE Types'
  BY <1>2 DEF EnqueueDuplicate, row, lane
<1>3. ASSUME NEW j \in Job, Cancel(j) PROVE Types'
  BY <1>3 DEF Cancel, Release, Terminal, lane
<1>4. ASSUME NEW w \in Worker, Start(w) PROVE Types'
  BY <1>4 DEF Start, row
<1>5. ASSUME NEW w \in Worker, ClaimJob(w) PROVE Types'
  <2>1. PICK j \in Job :
          /\ status' = [status EXCEPT ![j] = "running"]
          /\ attempts' = [attempts EXCEPT ![j] = @ + 1]
          /\ lockedBy' = [lockedBy EXCEPT ![j] = w]
          /\ lease' = [lease EXCEPT ![j] = Lease]
          /\ claims' = [claims EXCEPT ![j] = @ + 1]
          /\ claim' = [claim EXCEPT ![w] =
               [job |-> j, attempt |-> attempts[j] + 1, ticket |-> claims[j] + 1]]
    BY <1>5 DEF ClaimJob
  <2>2. [job |-> j, attempt |-> attempts[j] + 1, ticket |-> claims[j] + 1] \in Claim
    BY DEF Claim
  <2>3. CarriesClaim'
    BY <1>5, <2>1, <2>2 DEF ClaimJob
  <2>4. TypeOK'
    BY <1>5, <2>1, <2>2 DEF ClaimJob
  <2>. QED BY <2>3, <2>4
<1>6. ASSUME NEW w \in Worker, SendBeat(w) PROVE Types'
  BY <1>6 DEF SendBeat, Beat, row, lane
<1>7. ASSUME NEW w \in Worker, Complete(w) PROVE Types'
  BY <1>7 DEF Complete, Leave, LeaseLost, Release, Terminal, Outcomes, Claim, row
<1>8. ASSUME NEW w \in Worker, Fail(w) PROVE Types'
  <2>1. claim[w] \in Claim
    BY <1>8 DEF Fail
  <2>2. Delay(claim[w].attempt) \in Int
    BY <2>1, DelayBounded DEF Claim
  <2>3. claim[w].job \in Job
    BY <2>1 DEF Claim
  <2>. QED
    BY <1>8, <2>2, <2>3 DEF Fail, Leave, LeaseLost, Release, Terminal, Outcomes, row
<1>9. ASSUME NEW w \in Worker, DatabaseError(w) PROVE Types'
  BY <1>9 DEF DatabaseError, Leave, Outcomes, row
<1>10. ASSUME NEW w \in Worker, Crash(w) PROVE Types'
  BY <1>10 DEF Crash, Leave, Outcomes, row
<1>11. ASSUME NEW w \in Worker, NEW r \in Outcomes, HandlerReturns(w, r) PROVE Types'
  BY <1>11 DEF HandlerReturns, row
<1>12. ASSUME NEW b \in beats, ExecuteBeat(b) PROVE Types'
  BY <1>12 DEF ExecuteBeat, BeatMatches, Leave, Beat, Claim, Outcomes, lane
<1>13. ASSUME NEW b \in beats, DropBeat(b) PROVE Types'
  BY <1>13 DEF DropBeat, row, lane
<1>14. ASSUME NEW a \in Admin, NEW op \in {"retry", "replay"}, NEW j \in Job, Lock(a, op, j)
       PROVE  Types'
  BY <1>14 DEF Lock, Session, row, lane
<1>15. ASSUME NEW a \in Admin, CommitRetry(a) PROVE Types'
  BY <1>15 DEF CommitRetry, Release, Session, lane
<1>16. ASSUME NEW a \in Admin, CommitReplay(a) PROVE Types'
  BY <1>16 DEF CommitReplay, Insert, NextId, Session, lane
<1>17. ASSUME NEW a \in Admin, Rollback(a) PROVE Types'
  BY <1>17 DEF Rollback, row, lane
<1>18. CASE Tick
  BY <1>18 DEF Tick, PassTime, lane
<1>19. CASE Stall
  BY <1>19 DEF Stall, PassTime, lane
<1>20. CASE UNCHANGED vars
  BY <1>20 DEF vars, row, lane
<1> HIDE DEF Types, TypeOK, CarriesClaim, Working
<1>. QED
  BY <1>1, <1>2, <1>3, <1>4, <1>5, <1>6, <1>7, <1>8, <1>9, <1>10, <1>11, <1>12,
     <1>13, <1>14, <1>15, <1>16, <1>17, <1>18, <1>19, <1>20
     DEF Next, Callers, Lanework, Heartbeats, Administration, Faults

\* Every variable keeps its type: leases never exceed the configured length,
\* and only lanes inside run_once hold a job.
THEOREM TypeCorrect == Spec => []TypeOK
<1>1. Types => TypeOK
  BY DEF Types
<1>. QED BY <1>1, TypesInit, TypesStep, PTL DEF Spec
-----------------------------------------------------------------------------
(* Leases *)

\* What FOR UPDATE gives an administrator: no two sessions hold one row, and
\* the row a retry found dead is still dead when the retry writes it.
SessionsExclude ==
  \A a \in Admin : admin[a] # None =>
    /\ admin[a].op = "retry" => status[admin[a].job] = "dead"
    /\ \A b \in Admin : admin[b] # None /\ admin[b].job = admin[a].job => a = b

\* HolderIsCurrent is not inductive alone: a claim must find its lane without
\* another Job value (Types), and a retry must not touch a running row.
IInv == Types /\ SessionsExclude /\ RunningIsHeld /\ HolderIsCurrent

LEMMA IInvInit == Init => IInv
  BY TypesInit, NamesAssumption
     DEF Init, IInv, SessionsExclude, RunningIsHeld, HolderIsCurrent, Working

LEMMA SessionsStep == IInv /\ [Next]_vars => SessionsExclude'
<1> SUFFICES ASSUME IInv, [Next]_vars PROVE SessionsExclude'
  OBVIOUS
<1> USE NamesAssumption DEF IInv, Types, TypeOK, SessionsExclude
<1>1. ASSUME NEW k \in Key \cup {None}, NEW kd \in Kind, NEW d \in Delays,
             EnqueueNew(k, kd, d)
      PROVE  SessionsExclude'
  BY <1>1 DEF EnqueueNew, Insert, NextId, Session
<1>2. ASSUME NEW j \in Job, Cancel(j) PROVE SessionsExclude'
  BY <1>2 DEF Cancel, Release, Session
<1>3. ASSUME NEW w \in Worker, ClaimJob(w) PROVE SessionsExclude'
  BY <1>3 DEF ClaimJob, Candidate, Eligible, Session
<1>4. ASSUME NEW w \in Worker, Complete(w) PROVE SessionsExclude'
  BY <1>4 DEF Complete, LeaseLost, StillHolds, Release, row, Session
<1>5. ASSUME NEW w \in Worker, Fail(w) PROVE SessionsExclude'
  BY <1>5 DEF Fail, LeaseLost, StillHolds, Release, row, Session
<1>6. ASSUME NEW a \in Admin, NEW op \in {"retry", "replay"}, NEW j \in Job, Lock(a, op, j)
      PROVE  SessionsExclude'
  BY <1>6 DEF Lock, Locked, row
<1>7. ASSUME NEW a \in Admin, CommitRetry(a) PROVE SessionsExclude'
  BY <1>7 DEF CommitRetry, Release, Session
<1>8. ASSUME NEW a \in Admin, CommitReplay(a) PROVE SessionsExclude'
  BY <1>8 DEF CommitReplay, Insert, NextId, Session
<1>9. ASSUME NEW a \in Admin, Rollback(a) PROVE SessionsExclude'
  BY <1>9 DEF Rollback, row
<1>10. ASSUME UNCHANGED <<status, admin>> PROVE SessionsExclude'
  BY <1>10
<1> HIDE DEF IInv, Types, TypeOK, SessionsExclude
<1>. QED
  BY <1>1, <1>2, <1>3, <1>4, <1>5, <1>6, <1>7, <1>8, <1>9, <1>10
     DEF Next, Callers, Lanework, Heartbeats, Administration, Faults, EnqueueDuplicate,
         Start, SendBeat, HandlerReturns, ExecuteBeat, DropBeat, DatabaseError, Crash,
         Tick, Stall, PassTime, vars, row, lane

LEMMA HeldStep == IInv /\ [Next]_vars => RunningIsHeld'
<1> SUFFICES ASSUME IInv, [Next]_vars PROVE RunningIsHeld'
  OBVIOUS
<1> USE NamesAssumption, SizesAssumption DEF IInv, Types, TypeOK, RunningIsHeld
<1>1. ASSUME NEW k \in Key \cup {None}, NEW kd \in Kind, NEW d \in Delays,
             EnqueueNew(k, kd, d)
      PROVE  RunningIsHeld'
  BY <1>1 DEF EnqueueNew, Insert, NextId
<1>2. ASSUME NEW j \in Job, Cancel(j) PROVE RunningIsHeld'
  BY <1>2 DEF Cancel, Release
<1>3. ASSUME NEW w \in Worker, ClaimJob(w) PROVE RunningIsHeld'
  BY <1>3 DEF ClaimJob
<1>4. ASSUME NEW b \in beats, ExecuteBeat(b) PROVE RunningIsHeld'
  BY <1>4 DEF ExecuteBeat, BeatMatches, Beat, Claim
<1>5. ASSUME NEW w \in Worker, Complete(w) PROVE RunningIsHeld'
  BY <1>5 DEF Complete, LeaseLost, Release, row
<1>6. ASSUME NEW w \in Worker, Fail(w) PROVE RunningIsHeld'
  BY <1>6 DEF Fail, LeaseLost, Release, row
<1>7. ASSUME NEW a \in Admin, CommitRetry(a) PROVE RunningIsHeld'
  BY <1>7 DEF CommitRetry, Release
<1>8. ASSUME NEW a \in Admin, CommitReplay(a) PROVE RunningIsHeld'
  BY <1>8 DEF CommitReplay, Insert, NextId
<1>9. ASSUME PassTime PROVE RunningIsHeld'
  BY <1>9 DEF PassTime
<1>10. ASSUME UNCHANGED <<status, lockedBy, lease>> PROVE RunningIsHeld'
  BY <1>10
<1> HIDE DEF IInv, Types, TypeOK, RunningIsHeld
<1>. QED
  BY <1>1, <1>2, <1>3, <1>4, <1>5, <1>6, <1>7, <1>8, <1>9, <1>10
     DEF Next, Callers, Lanework, Heartbeats, Administration, Faults, EnqueueDuplicate,
         Start, SendBeat, HandlerReturns, DropBeat, DatabaseError, Crash, Lock, Rollback,
         Tick, Stall, vars, row, lane

LEMMA CurrentStep == IInv /\ [Next]_vars => HolderIsCurrent'
<1> SUFFICES ASSUME IInv, [Next]_vars PROVE HolderIsCurrent'
  OBVIOUS
<1> USE NamesAssumption DEF IInv, Types, TypeOK, CarriesClaim, HolderIsCurrent,
        RunningIsHeld, Working, StillHolds
<1>0. \A v \in Worker : Working(v) => claim[v].job \in Job
  BY DEF Claim
<1>1. ASSUME NEW k \in Key \cup {None}, NEW kd \in Kind, NEW d \in Delays,
             EnqueueNew(k, kd, d)
      PROVE  HolderIsCurrent'
  BY <1>0, <1>1 DEF EnqueueNew, Insert, NextId, lane
<1>2. ASSUME NEW j \in Job, Cancel(j) PROVE HolderIsCurrent'
  BY <1>0, <1>2 DEF Cancel, Release, lane
<1>3. ASSUME NEW w \in Worker, ClaimJob(w) PROVE HolderIsCurrent'
  BY <1>0, <1>3 DEF ClaimJob
<1>4. ASSUME NEW b \in beats, ExecuteBeat(b) PROVE HolderIsCurrent'
  BY <1>0, <1>4 DEF ExecuteBeat, Leave, Beat, lane
<1>5. ASSUME NEW w \in Worker, Complete(w) PROVE HolderIsCurrent'
  BY <1>0, <1>5 DEF Complete, Leave, LeaseLost, Release, row
<1>6. ASSUME NEW w \in Worker, Fail(w) PROVE HolderIsCurrent'
  BY <1>0, <1>6 DEF Fail, Leave, LeaseLost, Release, row
<1>7. ASSUME NEW a \in Admin, CommitRetry(a) PROVE HolderIsCurrent'
  BY <1>0, <1>7 DEF CommitRetry, Release, Session, lane
<1>8. ASSUME NEW a \in Admin, CommitReplay(a) PROVE HolderIsCurrent'
  BY <1>0, <1>8 DEF CommitReplay, Insert, NextId, lane
<1>9. ASSUME NEW w \in Worker, Leave(w, "idle") \/ Leave(w, "down"), UNCHANGED row
      PROVE  HolderIsCurrent'
  BY <1>0, <1>9 DEF Leave, row
<1>10. ASSUME NEW w \in Worker, NEW r \in Outcomes, HandlerReturns(w, r)
       PROVE  HolderIsCurrent'
  BY <1>0, <1>10 DEF HandlerReturns, row
<1>11. ASSUME NEW w \in Worker, Start(w) PROVE HolderIsCurrent'
  BY <1>0, <1>11 DEF Start, row
<1>12. ASSUME UNCHANGED <<status, lockedBy, attempts, claims, pc, claim>>
       PROVE  HolderIsCurrent'
  BY <1>12
<1> HIDE DEF IInv, Types, TypeOK, CarriesClaim, HolderIsCurrent, RunningIsHeld,
         Working, StillHolds
<1>. QED
  BY <1>1, <1>2, <1>3, <1>4, <1>5, <1>6, <1>7, <1>8, <1>9, <1>10, <1>11, <1>12
     DEF Next, Callers, Lanework, Heartbeats, Administration, Faults, EnqueueDuplicate,
         SendBeat, DropBeat, DatabaseError, Crash, Lock, Rollback,
         Tick, Stall, PassTime, vars, row, lane

LEMMA IInvStep == IInv /\ [Next]_vars => IInv'
  BY TypesStep, SessionsStep, HeldStep, CurrentStep DEF IInv

LEMMA Invariant == Spec => []IInv
  BY IInvInit, IInvStep, PTL DEF Spec

\* For any number of lanes and rows: a lane whose id stands in its row works
\* for the row's latest claim.
THEOREM HolderCurrent == Spec => []HolderIsCurrent
<1>1. IInv => HolderIsCurrent
  BY DEF IInv
<1>. QED BY <1>1, Invariant, PTL

\* Running rows, and only those, have a holder and may have a lease.
THEOREM RunningHeld == Spec => []RunningIsHeld
<1>1. IInv => RunningIsHeld
  BY DEF IInv
<1>. QED BY <1>1, Invariant, PTL
-----------------------------------------------------------------------------
(* Outcomes *)

SettlesByLatest(j) ==
  status[j] = "running" /\ status'[j] \in {"queued", "succeeded", "dead"} =>
    \E w \in Worker : /\ pc[w] = "returned" /\ claim[w].job = j
                      /\ claim[w].ticket = claims[j]

LEMMA SettleStep ==
  ASSUME IInv, [Next]_vars, NEW j \in Job
  PROVE  SettlesByLatest(j)
<1> SUFFICES ASSUME status[j] = "running", status'[j] \in {"queued", "succeeded", "dead"}
             PROVE  \E w \in Worker : /\ pc[w] = "returned" /\ claim[w].job = j
                                      /\ claim[w].ticket = claims[j]
  BY DEF SettlesByLatest
<1> USE DEF IInv, Types, TypeOK
<1>1. ASSUME NEW w \in Worker, Complete(w) \/ Fail(w)
      PROVE  pc[w] = "returned" /\ claim[w].job = j /\ claim[w].ticket = claims[j]
  <2>1. pc[w] = "returned"
    BY <1>1 DEF Complete, Fail
  <2>2. claim[w].job \in Job
    BY <2>1 DEF CarriesClaim, Working, Claim
  <2>3. StillHolds(w)
    BY <1>1 DEF Complete, Fail, LeaseLost, row
  <2>4. claim[w].job = j
    BY <1>1, <2>2 DEF Complete, Fail, LeaseLost, Release, row
  <2>. QED BY <2>1, <2>3, <2>4 DEF HolderIsCurrent, Working
<1>2. ASSUME NEW k \in Key \cup {None}, NEW kd \in Kind, NEW d \in Delays,
             EnqueueNew(k, kd, d)
      PROVE  FALSE
  BY <1>2 DEF EnqueueNew, Insert, NextId
<1>3. ASSUME NEW i \in Job, Cancel(i) PROVE FALSE
  BY <1>3 DEF Cancel, Release
<1>4. ASSUME NEW w \in Worker, ClaimJob(w) PROVE FALSE
  BY <1>4 DEF ClaimJob
<1>5. ASSUME NEW a \in Admin, CommitRetry(a) PROVE FALSE
  BY <1>5 DEF CommitRetry, Release, Session, SessionsExclude
<1>6. ASSUME NEW a \in Admin, CommitReplay(a) PROVE FALSE
  BY <1>6 DEF CommitReplay, Insert, NextId
<1>7. ASSUME UNCHANGED status PROVE FALSE
  BY <1>7
<1> HIDE DEF IInv, Types, TypeOK
<1>. QED
  BY <1>1, <1>2, <1>3, <1>4, <1>5, <1>6, <1>7
     DEF Next, Callers, Lanework, Heartbeats, Administration, Faults, EnqueueDuplicate,
         Start, SendBeat, HandlerReturns, ExecuteBeat, DropBeat, DatabaseError, Crash,
         Lock, Rollback, Tick, Stall, PassTime, vars, row, lane

\* Outcomes are decided by the latest claim only, however lanes stall, crash
\* and come back.
THEOREM LatestClaimSettles == Spec => OnlyLatestClaimSettles
<1>1. IInv /\ [Next]_vars =>
        [\A j \in Job :
           status[j] = "running" /\ status'[j] \in {"queued", "succeeded", "dead"} =>
             \E w \in Worker : /\ pc[w] = "returned" /\ claim[w].job = j
                               /\ claim[w].ticket = claims[j]]_vars
  BY SettleStep DEF SettlesByLatest
<1>. QED BY <1>1, Invariant, PTL DEF Spec, OnlyLatestClaimSettles

\* Settled rows are left alone: no statement matches a succeeded or cancelled
\* row, and retry alone matches a dead one.
THEOREM SettledForGood == Spec => SettledStaysSettled
<1> DEFINE Stays(j) ==
             /\ status[j] \in {"succeeded", "cancelled"} =>
                  status'[j] = status[j] /\ attempts'[j] = attempts[j]
             /\ status[j] = "dead" /\ status'[j] # "dead" =>
                  status'[j] = "queued" /\ attempts'[j] = 0
<1>1. IInv /\ [Next]_vars => [\A j \in Job : Stays(j)]_vars
  <2> SUFFICES ASSUME IInv, [Next]_vars, NEW j \in Job PROVE Stays(j)
    OBVIOUS
  <2> USE DEF IInv, Types, TypeOK
  <2>1. ASSUME NEW k \in Key \cup {None}, NEW kd \in Kind, NEW d \in Delays,
               EnqueueNew(k, kd, d)
        PROVE  Stays(j)
    BY <2>1 DEF EnqueueNew, Insert, NextId
  <2>2. ASSUME NEW i \in Job, Cancel(i) PROVE Stays(j)
    BY <2>2 DEF Cancel, Release
  <2>3. ASSUME NEW w \in Worker, ClaimJob(w) PROVE Stays(j)
    BY <2>3 DEF ClaimJob, Candidate, Eligible
  <2>4. ASSUME NEW w \in Worker, Complete(w) \/ Fail(w) PROVE Stays(j)
    BY <2>4 DEF Complete, Fail, LeaseLost, StillHolds, Release, row
  <2>5. ASSUME NEW a \in Admin, CommitRetry(a) PROVE Stays(j)
    BY <2>5 DEF CommitRetry, Release, Session, SessionsExclude
  <2>6. ASSUME NEW a \in Admin, CommitReplay(a) PROVE Stays(j)
    BY <2>6 DEF CommitReplay, Insert, NextId
  <2>7. ASSUME UNCHANGED <<status, attempts>> PROVE Stays(j)
    BY <2>7
  <2> HIDE DEF IInv, Types, TypeOK, Stays
  <2>. QED
    BY <2>1, <2>2, <2>3, <2>4, <2>5, <2>6, <2>7
       DEF Next, Callers, Lanework, Heartbeats, Administration, Faults, EnqueueDuplicate,
           Start, SendBeat, HandlerReturns, ExecuteBeat, DropBeat, DatabaseError, Crash,
           Lock, Rollback, Tick, Stall, PassTime, vars, row, lane
<1>. QED BY <1>1, Invariant, PTL DEF Spec, SettledStaysSettled

\* A heartbeat that is executed late, whoever sent it, never brings a lease
\* back that has ended.
THEOREM LeasesEndForGood == Spec => OnlyClaimsReviveLeases
<1> DEFINE Ended(j) == lease[j] = 0 /\ lease'[j] > 0 => claims'[j] = claims[j] + 1
<1>1. IInv /\ [Next]_vars => [\A j \in Job : Ended(j)]_vars
  <2> SUFFICES ASSUME IInv, [Next]_vars, NEW j \in Job PROVE Ended(j)
    OBVIOUS
  <2> USE DEF IInv, Types, TypeOK
  <2>1. ASSUME NEW w \in Worker, ClaimJob(w) PROVE Ended(j)
    BY <2>1 DEF ClaimJob
  <2>2. ASSUME NEW b \in beats, ExecuteBeat(b) PROVE Ended(j)
    BY <2>2 DEF ExecuteBeat, BeatMatches, Beat, Claim
  <2>3. ASSUME NEW i \in Job, NEW s, Release(i, s) PROVE Ended(j)
    BY <2>3 DEF Release
  <2>4. ASSUME PassTime PROVE Ended(j)
    BY <2>4 DEF PassTime
  <2>5. ASSUME UNCHANGED lease PROVE Ended(j)
    BY <2>5
  <2>6. ASSUME NEW a \in Admin, CommitRetry(a) PROVE Ended(j)
    BY <2>6 DEF CommitRetry, Release, Session
  <2>7. ASSUME NEW w \in Worker, Complete(w) \/ Fail(w) PROVE Ended(j)
    BY <2>7 DEF Complete, Fail, LeaseLost, Release, row
  <2> HIDE DEF IInv, Types, TypeOK, Ended
  <2>. QED
    BY <2>1, <2>2, <2>3, <2>4, <2>5, <2>6, <2>7
       DEF Next, Callers, Lanework, Heartbeats, Administration, Faults, EnqueueNew,
           EnqueueDuplicate, Insert, Cancel, Start, SendBeat, HandlerReturns, DropBeat,
           DatabaseError, Crash, Lock, CommitReplay, Rollback, Tick, Stall, vars, row, lane
<1>. QED BY <1>1, Invariant, PTL DEF Spec, OnlyClaimsReviveLeases

-----------------------------------------------------------------------------
(* One lane at a time, while nothing fails *)

LEMMA FaultsShrink ==
  IInv /\ [Next]_vars /\ faults' = MaxFaults => faults = MaxFaults
<1> SUFFICES ASSUME IInv, [Next]_vars, faults' = MaxFaults PROVE faults = MaxFaults
  OBVIOUS
<1>1. faults \in 0 .. MaxFaults /\ MaxFaults \in Nat
  BY SizesAssumption DEF IInv, Types, TypeOK
<1>2. CASE Faults
  BY <1>1, <1>2 DEF Faults, Stall, DatabaseError, Crash
<1>3. CASE UNCHANGED faults
  BY <1>3
<1>4. ASSUME Callers PROVE UNCHANGED faults
  BY <1>4, Zenon DEF Callers, EnqueueNew, EnqueueDuplicate, Cancel
<1>5. ASSUME NEW w \in Worker, Lanework(w) PROVE UNCHANGED faults
  <2>1. ASSUME Complete(w) \/ Fail(w) PROVE UNCHANGED faults
    BY <2>1 DEF Complete, Fail
  <2>. QED BY <1>5, <2>1, Zenon DEF Lanework, Start, ClaimJob, SendBeat, HandlerReturns
<1>6. ASSUME NEW b \in beats, ExecuteBeat(b) \/ DropBeat(b) PROVE UNCHANGED faults
  BY <1>6 DEF ExecuteBeat, DropBeat
<1>7. ASSUME NEW a \in Admin, Administration(a) PROVE UNCHANGED faults
  BY <1>7, Zenon DEF Administration, Lock, CommitRetry, CommitReplay, Rollback
<1>8. ASSUME Tick \/ UNCHANGED vars PROVE UNCHANGED faults
  BY <1>8 DEF Tick, vars
<1>. QED BY <1>2, <1>3, <1>4, <1>5, <1>6, <1>7, <1>8 DEF Next, Heartbeats

\* While nothing failed, a lane at work either still holds its row, under a
\* lease that has not ended, or the job was cancelled under it.
Kept ==
  faults = MaxFaults =>
    \A w \in Worker : Working(w) =>
      \/ StillHolds(w) /\ lease[claim[w].job] > 0
      \/ status[claim[w].job] = "cancelled"

LEMMA KeptStep == IInv /\ Kept /\ [Next]_vars => Kept'
<1> SUFFICES ASSUME IInv, Kept, [Next]_vars, faults' = MaxFaults,
                    NEW v \in Worker, Working(v)'
             PROVE  (\/ StillHolds(v) /\ lease[claim[v].job] > 0
                     \/ status[claim[v].job] = "cancelled")'
  BY DEF Kept
<1> DEFINE Good == \/ StillHolds(v) /\ lease[claim[v].job] > 0
                   \/ status[claim[v].job] = "cancelled"
<1> USE SizesAssumption, NamesAssumption DEF IInv, Types, TypeOK, Kept
<1>0. Working(v) => Good /\ claim[v] \in Claim /\ claim[v].job \in Job
  <2>1. faults = MaxFaults
    BY FaultsShrink
  <2>. QED BY <2>1 DEF CarriesClaim, Claim
<1>1. ASSUME NEW k \in Key \cup {None}, NEW kd \in Kind, NEW d \in Delays,
             EnqueueNew(k, kd, d)
      PROVE  Good'
  BY <1>0, <1>1 DEF EnqueueNew, Insert, NextId, Working, StillHolds, lane
<1>2. ASSUME NEW j \in Job, Cancel(j) PROVE Good'
  BY <1>0, <1>2 DEF Cancel, Release, Working, StillHolds, lane
<1>3. ASSUME NEW w \in Worker, ClaimJob(w) PROVE Good'
  <2>1. PICK j \in Job :
          /\ Candidate(w, j)
          /\ status' = [status EXCEPT ![j] = "running"]
          /\ lockedBy' = [lockedBy EXCEPT ![j] = w]
          /\ lease' = [lease EXCEPT ![j] = Lease]
          /\ claim' = [claim EXCEPT ![w] =
               [job |-> j, attempt |-> attempts[j] + 1, ticket |-> claims[j] + 1]]
    BY <1>3 DEF ClaimJob
  <2>2. pc' = [pc EXCEPT ![w] = "handling"]
    BY <1>3 DEF ClaimJob
  <2>3. CASE v = w
    BY <2>1, <2>2, <2>3 DEF StillHolds
  <2>4. CASE v # w
    <3>1. Working(v) /\ claim'[v] = claim[v]
      BY <2>1, <2>2, <2>4 DEF Working
    <3>2. claim[v].job # j
      BY <1>0, <2>1, <3>1 DEF Candidate, Eligible, StillHolds
    <3>. QED BY <1>0, <2>1, <3>1, <3>2 DEF StillHolds
  <2>. QED BY <2>3, <2>4
<1>4. ASSUME NEW w \in Worker, Complete(w) \/ Fail(w) PROVE Good'
  <2>1. v # w /\ Working(v) /\ claim'[v] = claim[v] /\ Working(w)
    BY <1>4 DEF Complete, Fail, Leave, Working
  <2>2. UNCHANGED <<status, lockedBy, lease>>
        \/ (StillHolds(w) /\ claim[w].job \in Job
            /\ \E s : Release(claim[w].job, s))
    BY <1>4, <2>1 DEF Complete, Fail, LeaseLost, row, CarriesClaim, Claim
  <2>3. StillHolds(w) => claim[v].job # claim[w].job \/ ~StillHolds(v)
    BY <2>1 DEF StillHolds
  <2>. QED BY <1>0, <2>1, <2>2, <2>3 DEF StillHolds, Release
<1>5. ASSUME NEW a \in Admin, CommitRetry(a) PROVE Good'
  BY <1>0, <1>5 DEF CommitRetry, Release, Session, SessionsExclude, Working, StillHolds, lane
<1>6. ASSUME NEW a \in Admin, CommitReplay(a) PROVE Good'
  BY <1>0, <1>6 DEF CommitReplay, Insert, NextId, Working, StillHolds, lane
<1>7. ASSUME NEW b \in beats, ExecuteBeat(b) PROVE Good'
  <2>1. /\ UNCHANGED <<status, lockedBy>>
        /\ \A j \in Job : lease[j] > 0 => lease'[j] > 0
    BY <1>7 DEF ExecuteBeat, Beat, Claim
  <2>2. Working(v) /\ claim'[v] = claim[v]
    BY <1>7 DEF ExecuteBeat, Leave, lane, Working, Beat
  <2>. QED BY <1>0, <2>1, <2>2 DEF StillHolds
<1>8. ASSUME Tick PROVE Good'
  BY <1>0, <1>8 DEF Tick, PassTime, Working, StillHolds, lane
<1>9. ASSUME Faults PROVE Good'
  BY <1>9 DEF Faults, Stall, DatabaseError, Crash
<1>10. ASSUME UNCHANGED <<status, lockedBy, lease, claim>>, Working(v) PROVE Good'
  BY <1>0, <1>10 DEF StillHolds
<1>11. ASSUME NEW w \in Worker, Start(w) \/ \E r \in Outcomes : HandlerReturns(w, r)
       PROVE  UNCHANGED <<status, lockedBy, lease, claim>> /\ Working(v)
  BY <1>11 DEF Start, HandlerReturns, Working, row
<1> HIDE DEF IInv, Types, TypeOK, Kept, Good
<1>. QED
  BY <1>1, <1>2, <1>3, <1>4, <1>5, <1>6, <1>7, <1>8, <1>9, <1>10, <1>11
     DEF Good, Next, Callers, Lanework, Heartbeats, Administration, EnqueueDuplicate, SendBeat,
         DropBeat, Lock, Rollback, vars, row, lane, Working

LEMMA OverlapStep ==
  IInv /\ Kept /\ NoOverlapWithoutFaults /\ [Next]_vars => NoOverlapWithoutFaults'
<1> SUFFICES ASSUME IInv, Kept, NoOverlapWithoutFaults, [Next]_vars, faults' = MaxFaults,
                    NEW v \in Worker, NEW u \in Worker, Working(v)', Working(u)',
                    claim'[v].job = claim'[u].job, v # u
             PROVE  FALSE
  BY DEF NoOverlapWithoutFaults, Working
<1> USE SizesAssumption, NamesAssumption DEF IInv, Types, TypeOK
<1>1. faults = MaxFaults
  BY FaultsShrink
<1>2. ASSUME NEW w \in Worker, ClaimJob(w) PROVE FALSE
  <2>1. PICK j \in Job :
          /\ Candidate(w, j)
          /\ claim' = [claim EXCEPT ![w] =
               [job |-> j, attempt |-> attempts[j] + 1, ticket |-> claims[j] + 1]]
    BY <1>2 DEF ClaimJob
  <2>2. pc[w] = "idle" /\ pc' = [pc EXCEPT ![w] = "handling"]
    BY <1>2 DEF ClaimJob
  <2>3. ASSUME NEW x \in Worker, x # w, Working(x)' PROVE Working(x) /\ claim'[x] = claim[x]
    BY <2>1, <2>2, <2>3 DEF Working
  <2>4. ASSUME NEW x \in Worker, Working(x) PROVE claim[x].job # j
    BY <1>1, <2>1, <2>4 DEF Kept, Candidate, Eligible, StillHolds
  <2>. QED BY <1>1, <2>1, <2>3, <2>4 DEF NoOverlapWithoutFaults
<1>3. ASSUME \A x \in Worker : Working(x)' => Working(x) /\ claim'[x] = claim[x]
      PROVE  FALSE
  BY <1>1, <1>3 DEF NoOverlapWithoutFaults
<1>4. ASSUME NEW w \in Worker, NEW place \in {"idle", "down"}, Leave(w, place)
      PROVE  \A x \in Worker : Working(x)' => Working(x) /\ claim'[x] = claim[x]
  BY <1>4 DEF Leave, Working
<1>5. ASSUME NEW w \in Worker, Start(w) \/ \E r \in Outcomes : HandlerReturns(w, r)
      PROVE  \A x \in Worker : Working(x)' => Working(x) /\ claim'[x] = claim[x]
  BY <1>5 DEF Start, HandlerReturns, Working
<1>6. ASSUME UNCHANGED lane
      PROVE  \A x \in Worker : Working(x)' => Working(x) /\ claim'[x] = claim[x]
  BY <1>6 DEF lane, Working
<1>7. ASSUME NEW b \in beats, ExecuteBeat(b)
      PROVE  \A x \in Worker : Working(x)' => Working(x) /\ claim'[x] = claim[x]
  BY <1>4, <1>6, <1>7 DEF ExecuteBeat, Beat
<1> HIDE DEF IInv, Types, TypeOK
<1>. QED
  BY <1>2, <1>3, <1>4, <1>5, <1>6, <1>7
     DEF Next, Callers, Lanework, Heartbeats, Administration, Faults, EnqueueNew,
         EnqueueDuplicate, Insert, Cancel, SendBeat, Complete, Fail, DropBeat, DatabaseError,
         Crash, Lock, CommitRetry, CommitReplay, Rollback, Tick, Stall, PassTime, vars

\* As long as no lane crashed, stalled or lost its database, the handler of a
\* job runs in one lane at a time.
THEOREM OneLaneAtATime == Spec => []NoOverlapWithoutFaults
<1>1. Init => Kept /\ NoOverlapWithoutFaults
  BY DEF Init, Kept, NoOverlapWithoutFaults, Working
<1>. QED BY <1>1, Invariant, KeptStep, OverlapStep, PTL DEF Spec

-----------------------------------------------------------------------------
(* Idempotency keys *)

\* A key stands in one row at most, and an answer enqueue gave is that row.
KeysAreAnswered ==
  /\ \A i, j \in Job : key[i] # None /\ key[i] = key[j] => i = j
  /\ \A k \in Key : receipt[k] # None => key[receipt[k]] = k
  /\ \A j \in Job : key[j] # None => status[j] # "absent"

LEMMA KeysStep ==
  IInv /\ KeysAreAnswered /\ [Next]_vars =>
    /\ KeysAreAnswered'
    /\ \A k \in Key : receipt[k] # None => receipt'[k] = receipt[k]
<1> DEFINE Stable == \A k \in Key : receipt[k] # None => receipt'[k] = receipt[k]
<1> SUFFICES ASSUME IInv, KeysAreAnswered, [Next]_vars PROVE KeysAreAnswered' /\ Stable
  OBVIOUS
<1> USE NamesAssumption DEF IInv, Types, TypeOK, KeysAreAnswered
<1>1. ASSUME NEW k \in Key \cup {None}, NEW kd \in Kind, NEW d \in Delays,
             EnqueueNew(k, kd, d)
      PROVE  KeysAreAnswered' /\ Stable
  <2>1. PICK j \in Job :
          /\ Insert(j, k, kd, d)
          /\ receipt' = [q \in Key |-> IF q = k THEN j ELSE receipt[q]]
    BY <1>1 DEF EnqueueNew
  <2>2. k # None => \A i \in Job : key[i] # k
    BY <1>1 DEF EnqueueNew
  <2>3. key[j] = None /\ key' = [key EXCEPT ![j] = k] /\ status' = [status EXCEPT ![j] = "queued"]
    BY <2>1 DEF Insert, NextId
  <2>4. Stable
    BY <2>1, <2>2
  <2>5. \A q \in Key : receipt'[q] # None => key'[receipt'[q]] = q
    BY <2>1, <2>3
  <2>6. \A i, l \in Job : key'[i] # None /\ key'[i] = key'[l] => i = l
    BY <2>2, <2>3
  <2>7. \A i \in Job : key'[i] # None => status'[i] # "absent"
    BY <2>3
  <2>. QED BY <2>4, <2>5, <2>6, <2>7
<1>2. ASSUME NEW k \in Key, EnqueueDuplicate(k) PROVE KeysAreAnswered' /\ Stable
  BY <1>2 DEF EnqueueDuplicate, row
<1>3. ASSUME UNCHANGED <<key, receipt>>,
             \A j \in Job : status[j] # "absent" => status'[j] # "absent"
      PROVE  KeysAreAnswered' /\ Stable
  BY <1>3
<1>4. ASSUME NEW a \in Admin, CommitReplay(a) PROVE KeysAreAnswered' /\ Stable
  <2>1. PICK j \in Job : Insert(j, None, kind[admin[a].job], 0)
    BY <1>4 DEF CommitReplay
  <2>2. key[j] = None
    BY <2>1 DEF Insert, NextId
  <2>3. key' = key
    BY <2>1, <2>2 DEF Insert
  <2>. QED BY <1>4, <2>1, <2>3 DEF CommitReplay, Insert
<1>5. ASSUME NEW j \in Job, NEW s \in {"queued", "running", "succeeded", "dead", "cancelled"},
             status' = [status EXCEPT ![j] = s]
      PROVE  \A i \in Job : status[i] # "absent" => status'[i] # "absent"
  BY <1>5
<1>6. ASSUME NEW j \in Job, Cancel(j) PROVE KeysAreAnswered' /\ Stable
  BY <1>3, <1>5, <1>6 DEF Cancel, Release
<1>7. ASSUME NEW w \in Worker, ClaimJob(w) PROVE KeysAreAnswered' /\ Stable
  BY <1>3, <1>5, <1>7 DEF ClaimJob
<1>8. ASSUME NEW w \in Worker, Complete(w) \/ Fail(w) PROVE KeysAreAnswered' /\ Stable
  <2>1. claim[w].job \in Job
    BY <1>8 DEF Complete, Fail, CarriesClaim, Working, Claim
  <2>. QED BY <1>3, <1>5, <1>8, <2>1 DEF Complete, Fail, LeaseLost, Release, row
<1>9. ASSUME NEW a \in Admin, CommitRetry(a) PROVE KeysAreAnswered' /\ Stable
  BY <1>3, <1>5, <1>9 DEF CommitRetry, Release, Session
<1>10. ASSUME UNCHANGED <<key, receipt, status>> PROVE KeysAreAnswered' /\ Stable
  BY <1>3, <1>10
<1> HIDE DEF IInv, Types, TypeOK, KeysAreAnswered, Stable
<1>. QED
  BY <1>1, <1>2, <1>4, <1>6, <1>7, <1>8, <1>9, <1>10
     DEF Next, Callers, Lanework, Heartbeats, Administration, Faults, Start, SendBeat,
         HandlerReturns, ExecuteBeat, DropBeat, DatabaseError, Crash, Lock, Rollback, Tick,
         Stall, PassTime, vars, row, lane

\* Whatever becomes of the row, a repeated key is answered with its id.
THEOREM KeysKeepTheirAnswer == Spec => ReceiptIsStable
<1>1. Init => KeysAreAnswered
  BY DEF Init, KeysAreAnswered
<1>2. IInv /\ KeysAreAnswered /\ [Next]_vars =>
        [\A k \in Key : receipt[k] # None => receipt'[k] = receipt[k]]_vars
  BY KeysStep
<1>3. IInv /\ KeysAreAnswered /\ [Next]_vars => KeysAreAnswered'
  BY KeysStep
<1>. QED BY <1>1, <1>2, <1>3, Invariant, PTL DEF Spec, ReceiptIsStable

-----------------------------------------------------------------------------
(* Refinement of FencedQueue *)

LEMMA FencedInit == Init => Fenced!Init
  BY DEF Init, Fenced!Init, phaseBar, carriedBar, Working

\* A lane that leaves run_once without touching its row drops its ticket.
LEMMA LeaveDrops ==
  ASSUME IInv, NEW w \in Worker, Working(w), UNCHANGED <<status, claims>>,
         Leave(w, "idle") \/ Leave(w, "down")
  PROVE  Fenced!Drop(w)
<1>1. phaseBar' = phaseBar
  BY DEF phaseBar
<1>2. carriedBar[w] # None
  <2>1. claim[w] \in Claim
    BY DEF IInv, Types, TypeOK, CarriesClaim
  <2>2. carriedBar[w] \in [job : Job, ticket : Nat]
    BY <2>1 DEF carriedBar, Claim
  <2>. QED BY <2>2, NamesAssumption
<1>3. carriedBar' = [carriedBar EXCEPT ![w] = None]
  BY DEF IInv, Types, TypeOK, carriedBar, Working, Leave
<1>. QED BY <1>1, <1>2, <1>3 DEF Fenced!Drop

\* A row leaves "running" under its holder: its latest ticket is consumed.
LEMMA ReleaseSettles ==
  ASSUME IInv, NEW w \in Worker, Working(w), StillHolds(w),
         NEW s \in {"queued", "succeeded", "dead"}, Release(claim[w].job, s),
         Leave(w, "idle"), UNCHANGED claims
  PROVE  Fenced!Settle(w, IF s = "queued" THEN "waiting" ELSE s)
<1> DEFINE j == claim[w].job
<1>1. claim[w] \in Claim /\ j \in Job
  BY DEF IInv, Types, TypeOK, CarriesClaim, Claim
<1>2. carriedBar[w] = [job |-> j, ticket |-> claims[j]]
  BY <1>1 DEF IInv, HolderIsCurrent, carriedBar
<1>3. phaseBar[j] = "active"
  BY <1>1 DEF StillHolds, phaseBar
<1>4. phaseBar' = [phaseBar EXCEPT ![j] = IF s = "queued" THEN "waiting" ELSE s]
  BY <1>1 DEF Release, phaseBar, IInv, Types, TypeOK
<1>5. carriedBar' = [carriedBar EXCEPT ![w] = None]
  BY DEF IInv, Types, TypeOK, carriedBar, Working, Leave
<1>6. carriedBar[w] # None
  <2>1. carriedBar[w] \in [job : Job, ticket : Nat]
    BY <1>1 DEF carriedBar, Claim
  <2>. QED BY <2>1, NamesAssumption
<1> HIDE DEF j
<1>. QED BY <1>2, <1>3, <1>4, <1>5, <1>6 DEF Fenced!Settle

LEMMA FencedStep == IInv /\ [Next]_vars => [Fenced!Next]_(Fenced!vars)
<1> SUFFICES ASSUME IInv, [Next]_vars PROVE [Fenced!Next]_(Fenced!vars)
  OBVIOUS
<1>0. \A w \in Worker : Working(w) => claim[w] \in Claim /\ claim[w].job \in Job
  BY DEF IInv, Types, TypeOK, CarriesClaim, Claim
<1>1. ASSUME NEW k \in Key \cup {None}, NEW kd \in Kind, NEW d \in Delays,
             EnqueueNew(k, kd, d)
      PROVE  Fenced!Next
  <2>1. PICK j \in Job : Insert(j, k, kd, d)
    BY <1>1 DEF EnqueueNew
  <2>2. Fenced!Submit(j)
    BY <1>1, <2>1 DEF EnqueueNew, Insert, NextId, Fenced!Submit, lane, phaseBar,
       carriedBar, Working, IInv, Types, TypeOK
  <2>. QED BY <2>2 DEF Fenced!Next
<1>2. ASSUME NEW j \in Job, Cancel(j) PROVE Fenced!Next
  <2>1. Fenced!Cancel(j)
    BY <1>2 DEF Cancel, Release, Fenced!Cancel, lane, phaseBar, carriedBar, Working,
       IInv, Types, TypeOK
  <2>. QED BY <2>1 DEF Fenced!Next
<1>3. ASSUME NEW w \in Worker, ClaimJob(w) PROVE Fenced!Next
  <2>1. PICK j \in Job :
          /\ Eligible(w, j)
          /\ status' = [status EXCEPT ![j] = "running"]
          /\ claims' = [claims EXCEPT ![j] = @ + 1]
          /\ claim' = [claim EXCEPT ![w] =
               [job |-> j, attempt |-> attempts[j] + 1, ticket |-> claims[j] + 1]]
    BY <1>3 DEF ClaimJob, Candidate
  <2>2. carriedBar' = [carriedBar EXCEPT ![w] = [job |-> j, ticket |-> claims[j] + 1]]
    BY <1>3, <2>1 DEF ClaimJob, carriedBar, Working, IInv, Types, TypeOK
  <2>3. phaseBar' = [phaseBar EXCEPT ![j] = "active"]
    BY <2>1 DEF phaseBar, IInv, Types, TypeOK
  <2>4. carriedBar[w] = None /\ phaseBar[j] \in {"waiting", "active"}
    BY <1>3, <2>1 DEF ClaimJob, carriedBar, phaseBar, Working, Eligible
  <2>5. Fenced!Draw(w, j)
    BY <2>1, <2>2, <2>3, <2>4 DEF Fenced!Draw
  <2>. QED BY <2>5 DEF Fenced!Next
<1>4. ASSUME NEW w \in Worker, Complete(w) PROVE Fenced!Next
  <2>1. Working(w) /\ Leave(w, "idle")
    BY <1>4 DEF Complete, Working
  <2>2. CASE StillHolds(w)
    <3>1. Release(claim[w].job, "succeeded") /\ UNCHANGED claims
      BY <1>4, <2>2 DEF Complete, LeaseLost
    <3>2. Fenced!Settle(w, "succeeded")
      BY <2>1, <2>2, <3>1, ReleaseSettles
    <3>. QED BY <3>2 DEF Fenced!Next
  <2>3. CASE ~StillHolds(w)
    BY <1>4, <2>1, <2>3, LeaveDrops DEF Complete, LeaseLost, row, Fenced!Next
  <2>. QED BY <2>2, <2>3
<1>5. ASSUME NEW w \in Worker, Fail(w) PROVE Fenced!Next
  <2>1. Working(w) /\ Leave(w, "idle")
    BY <1>5 DEF Fail, Working
  <2>2. CASE StillHolds(w)
    <3>1. PICK s \in {"queued", "dead"} : Release(claim[w].job, s)
      BY <1>5, <2>2 DEF Fail, LeaseLost
    <3>2. UNCHANGED claims
      BY <1>5, <2>2 DEF Fail, LeaseLost
    <3>3. Fenced!Settle(w, IF s = "queued" THEN "waiting" ELSE s)
      BY <2>1, <2>2, <3>1, <3>2, ReleaseSettles
    <3>. QED BY <3>1, <3>3 DEF Fenced!Next
  <2>3. CASE ~StillHolds(w)
    BY <1>5, <2>1, <2>3, LeaveDrops DEF Fail, LeaseLost, row, Fenced!Next
  <2>. QED BY <2>2, <2>3
<1>6. ASSUME NEW b \in beats, ExecuteBeat(b) PROVE [Fenced!Next]_(Fenced!vars)
  <2>1. b.worker \in Worker /\ UNCHANGED <<status, claims>>
    BY <1>6 DEF ExecuteBeat, IInv, Types, TypeOK, Beat
  <2>2. CASE UNCHANGED lane
    BY <2>1, <2>2 DEF lane, phaseBar, carriedBar, Working, Fenced!vars
  <2>3. CASE Working(b.worker) /\ Leave(b.worker, "idle")
    BY <2>1, <2>3, LeaveDrops DEF Fenced!Next
  <2>. QED BY <1>6, <2>2, <2>3 DEF ExecuteBeat, Working
<1>7. ASSUME NEW w \in Worker, DatabaseError(w) PROVE Fenced!Next
  BY <1>7, LeaveDrops DEF DatabaseError, row, Fenced!Next
<1>8. ASSUME NEW w \in Worker, Crash(w) PROVE [Fenced!Next]_(Fenced!vars)
  <2>1. Leave(w, "down") /\ UNCHANGED <<status, claims>>
    BY <1>8 DEF Crash, row
  <2>2. CASE Working(w)
    BY <2>1, <2>2, LeaveDrops DEF Fenced!Next
  <2>3. CASE ~Working(w)
    BY <2>1, <2>3 DEF Leave, phaseBar, carriedBar, Working, Fenced!vars, IInv, Types, TypeOK
  <2>. QED BY <2>2, <2>3
<1>9. ASSUME NEW a \in Admin, CommitRetry(a) PROVE Fenced!Next
  <2>1. admin[a].job \in Job /\ status[admin[a].job] = "dead"
    BY <1>9 DEF CommitRetry, IInv, Types, TypeOK, SessionsExclude, Session
  <2>2. Fenced!Retry(admin[a].job)
    BY <1>9, <2>1 DEF CommitRetry, Release, Fenced!Retry, lane, phaseBar, carriedBar,
       Working, IInv, Types, TypeOK
  <2>. QED BY <2>1, <2>2 DEF Fenced!Next
<1>10. ASSUME NEW a \in Admin, CommitReplay(a) PROVE Fenced!Next
  <2>1. PICK j \in Job : Insert(j, None, kind[admin[a].job], 0)
    BY <1>10 DEF CommitReplay
  <2>2. Fenced!Submit(j)
    BY <1>10, <2>1 DEF CommitReplay, Insert, NextId, Fenced!Submit, lane, phaseBar,
       carriedBar, Working, IInv, Types, TypeOK
  <2>. QED BY <2>2 DEF Fenced!Next
<1>11. ASSUME NEW w \in Worker, Start(w) PROVE UNCHANGED Fenced!vars
  BY <1>11 DEF Start, row, phaseBar, carriedBar, Working, Fenced!vars, IInv, Types, TypeOK
<1>12. ASSUME NEW w \in Worker, NEW r \in Outcomes, HandlerReturns(w, r)
       PROVE  UNCHANGED Fenced!vars
  BY <1>12 DEF HandlerReturns, row, phaseBar, carriedBar, Working, Fenced!vars, IInv,
     Types, TypeOK
<1>13. ASSUME UNCHANGED <<status, claims, pc, claim>> PROVE UNCHANGED Fenced!vars
  BY <1>13 DEF phaseBar, carriedBar, Working, Fenced!vars
<1>. QED
  BY <1>1, <1>2, <1>3, <1>4, <1>5, <1>6, <1>7, <1>8, <1>9, <1>10, <1>11, <1>12, <1>13
     DEF Next, Callers, Lanework, Heartbeats, Administration, Faults, EnqueueDuplicate,
         SendBeat, DropBeat, Lock, Rollback, Tick, Stall, PassTime, vars, row, lane

\* The queue implements one that fences by ticket: whatever leases, clocks,
\* crashes and administrators do, only a job's latest claim settles it.
THEOREM QueueIsFenced == Spec => ImplementsFencedQueue
<1>. QED BY FencedInit, FencedStep, Invariant, PTL
            DEF Spec, ImplementsFencedQueue, Fenced!Spec
-----------------------------------------------------------------------------
(* What the runs check by one name *)

\* Holders and leases belong together (claim, complete, fail, cancel, retry).
THEOREM LeasesHeld == Spec => []LeasesAreHeld
<1>1. TypeOK /\ RunningIsHeld /\ HolderIsCurrent => LeasesAreHeld
  BY DEF LeasesAreHeld
<1>. QED BY <1>1, TypeCorrect, RunningHeld, HolderCurrent, PTL

\* An outcome is the latest claim's and stays (complete, fail, cancel, retry).
THEOREM OutcomesFinal == Spec => OutcomesAreFinal
<1>. QED BY LatestClaimSettles, SettledForGood DEF OutcomesAreFinal

-----------------------------------------------------------------------------
(* The flows of a development session *)

\* A preparation is a sequence of steps.
Steps == [does : Does, checked : BOOLEAN]
Names(steps) == {steps[i].does : i \in DOMAIN steps}
Rest(flow, n) == SubSeq(flow, n, Len(flow))
Rests(flow) == {Rest(flow, n) : n \in 1 .. Len(flow)}
Servers == {"spawn", "restart", "restart_api"}

\* What the flows have in common.  A step leads to the steps after it, whose
\* names are others.
Leads(steps) ==
  /\ steps # <<>> /\ steps \in Seq(Steps) /\ Tail(steps) \in Seq(Steps)
  /\ Head(steps).does \in Names(steps)
  /\ Names(Tail(steps)) = Names(steps) \ {Head(steps).does}

\* The next step, and how a flow ends.
Continues(steps, starting) ==
  LET d == Head(steps).does
      next == Head(Tail(steps)).does
  IN  /\ Tail(steps) # <<>> => (next = "write" <=> d = "plan") /\ (next = "record" <=> d = "build")
      /\ d \in {"plan", "build"} => Tail(steps) # <<>> /\ Tail(Tail(steps)) # <<>>
      /\ d \in {"restart", "restart_api", "watch"} => Tail(steps) = <<>>
      /\ Tail(steps) = <<>> => IF starting THEN d = "watch"
                              ELSE d \in {"restart", "restart_api", "refresh"}

\* What is still to come.
Follow(steps, starting) ==
  LET d == Head(steps).does
      all == Names(steps)
      later == Names(Tail(steps))
      full == starting \/ "restart" \in all
  IN  /\ d \in {"load", "migrate", "plan", "write"} => "record" \in later
      /\ d \in {"load", "migrate"} => "write" \in later /\ full
      /\ d = "load" => "migrate" \in later
      /\ d = "write" /\ full => "spawn" \in later \/ "restart" \in later
      /\ d = "build" => "spawn" \in later \/ "restart" \in later \/ "restart_api" \in later
      /\ starting => "restart" \notin all /\ "restart_api" \notin all /\ "refresh" \notin all
      /\ ~starting => "spawn" \notin all /\ "watch" \notin all /\ "web" \notin all
      /\ "restart" \in all => "restart_api" \notin all
      /\ "restart" \in all /\ d = "refresh" =>
           "load" \in later /\ "migrate" \in later /\ "write" \in later /\ "record" \in later
      /\ "restart_api" \in all /\ d = "refresh" => "record" \in later
      /\ ~full => "load" \notin all /\ "migrate" \notin all
      /\ ~full /\ "restart_api" \notin all => d = "refresh" /\ Head(steps).checked = FALSE

Ordered(steps, starting) ==
  Leads(steps) /\ Continues(steps, starting) /\ Follow(steps, starting)

\* The flows, step by step.
LEMMA StartupFlow ==
  /\ Startup \in Seq(Steps) /\ Len(Startup) = 10
  /\ Startup[1].does = "load" /\ Startup[2].does = "migrate" /\ Startup[3].does = "plan"
  /\ Startup[4].does = "write" /\ Startup[5].does = "build" /\ Startup[6].does = "record"
  /\ Startup[7].does = "install" /\ Startup[8].does = "spawn" /\ Startup[9].does = "web"
  /\ Startup[10].does = "watch"
  BY DEF Startup, Prepare, After, Always, Step, Does, Steps

LEMMA SpecificationFlow ==
  /\ Specification \in Seq(Steps) /\ Len(Specification) = 9
  /\ Specification[1].does = "refresh" /\ Specification[2].does = "load"
  /\ Specification[3].does = "migrate" /\ Specification[4].does = "plan"
  /\ Specification[5].does = "write" /\ Specification[6].does = "build"
  /\ Specification[7].does = "record" /\ Specification[8].does = "install"
  /\ Specification[9].does = "restart"
  BY DEF Specification, Prepare, After, Always, Step, Does, Steps

LEMMA BackendFlow ==
  /\ Backend \in Seq(Steps)
  /\ Len(Backend) = 6
  /\ Backend[1].does = "refresh" /\ Backend[2].does = "plan" /\ Backend[3].does = "write"
  /\ Backend[4].does = "build" /\ Backend[5].does = "record"
  /\ Backend[6].does = "restart_api"
<1>1. /\ Always("refresh") \in Steps /\ Always("plan") \in Steps /\ Always("write") \in Steps
      /\ After("build") \in Steps /\ Always("record") \in Steps
      /\ After("restart_api") \in Steps
  BY DEF After, Always, Step, Does, Steps
<1>2. ASSUME NEW S, NEW a \in S, NEW b \in S, NEW c \in S, NEW d \in S, NEW e \in S, NEW f \in S
      PROVE  <<a, b, c, d, e, f>> \in Seq(S)
  OBVIOUS
<1>3. Backend \in Seq(Steps)
  BY <1>1, <1>2 DEF Backend
<1> QED
  BY <1>3 DEF Backend, After, Always, Step

LEMMA WebFlow ==
  Web \in Seq(Steps) /\ Len(Web) = 1 /\ Web[1].does = "refresh" /\ Web[1].checked = FALSE
  BY DEF Web, Always, Step, Does, Steps

\* No name comes twice.
Once(flow, len) == \A i, j \in 1 .. len : flow[i].does = flow[j].does => i = j

\* What is left of a flow from its n-th step on.
RestIs(flow, len, n) ==
  /\ Rest(flow, n) # <<>> /\ Rest(flow, n) \in Seq(Steps)
  /\ Head(Rest(flow, n)) = flow[n]
  /\ Tail(Rest(flow, n)) = Rest(flow, n + 1)
  /\ Rest(flow, n + 1) \in Seq(Steps)
  /\ Rest(flow, n + 1) = <<>> <=> n = len
  /\ Names(Rest(flow, n + 1)) = Names(Rest(flow, n)) \ {flow[n].does}
  /\ \A i \in 1 .. len : flow[i].does \in Names(Rest(flow, n)) <=> n \leq i
  /\ \A d \in Names(Rest(flow, n)) : \E i \in 1 .. len : flow[i].does = d

LEMMA RestOfFlow ==
  ASSUME NEW flow \in Seq(Steps), NEW len \in Nat, Len(flow) = len, Once(flow, len),
         NEW n \in 1 .. len
  PROVE  RestIs(flow, len, n)
<1> USE DEF Once
<1> DEFINE r == Rest(flow, n)
<1>1. /\ r \in Seq(Steps) /\ Len(r) = Len(flow) + 1 - n
      /\ \A i \in 1 .. Len(r) : r[i] = flow[n + i - 1]
  BY DEF Rest
<1>2. /\ Rest(flow, n + 1) \in Seq(Steps) /\ Len(Rest(flow, n + 1)) = Len(flow) - n
      /\ \A i \in 1 .. Len(flow) - n : Rest(flow, n + 1)[i] = flow[n + i]
  BY DEF Rest
<1>3. DOMAIN r = 1 .. Len(r) /\ DOMAIN Rest(flow, n + 1) = 1 .. Len(flow) - n
  BY <1>1, <1>2
<1>4. Rest(flow, n) # <<>> /\ Rest(flow, n) \in Seq(Steps) /\ Head(r) = flow[n]
  BY <1>1
<1>5. Tail(r) = Rest(flow, n + 1)
  <2>1. /\ Tail(r) \in Seq(Steps) /\ Len(Tail(r)) = Len(r) - 1
        /\ \A i \in 1 .. Len(r) - 1 : Tail(r)[i] = r[i + 1]
    <3> HIDE DEF r
    <3> QED
      BY <1>1, <1>4
  <2>2. \A i \in 1 .. Len(Tail(r)) : Tail(r)[i] = Rest(flow, n + 1)[i]
    <3> HIDE DEF r
    <3>1. ASSUME NEW i \in 1 .. Len(Tail(r))
          PROVE  Tail(r)[i] = Rest(flow, n + 1)[i]
      <4>1. i \in 1 .. Len(r) - 1 /\ i + 1 \in 1 .. Len(r) /\ i \in 1 .. Len(flow) - n
        BY <1>1, <2>1, <3>1
      <4>2. Tail(r)[i] = r[i + 1]
        BY <2>1, <4>1
      <4>3. r[i + 1] = flow[n + (i + 1) - 1]
        BY <1>1, <4>1
      <4>4. n + (i + 1) - 1 = n + i
        BY <4>1
      <4> QED
        BY <4>1, <4>2, <4>3, <4>4, <1>2
    <3> QED
      BY <3>1
  <2>3. Len(Tail(r)) = Len(Rest(flow, n + 1))
    BY <2>1, <1>1, <1>2
  <2> HIDE DEF r
  <2> QED
    BY SeqEqual, <2>1, <2>2, <2>3, <1>2
<1>6. Rest(flow, n + 1) = <<>> <=> n = len
  BY <1>2
<1>7. \A d : d \in Names(r) <=> \E i \in n .. Len(flow) : flow[i].does = d
  <2>1. ASSUME NEW d, NEW i \in n .. Len(flow), flow[i].does = d PROVE d \in Names(r)
    <3>1. i - n + 1 \in DOMAIN r /\ r[i - n + 1] = flow[i]
      BY <1>1, <1>3
    <3> QED
      BY <3>1, <2>1 DEF Names
  <2>2. ASSUME NEW d, d \in Names(r) PROVE \E i \in n .. Len(flow) : flow[i].does = d
    <3>1. PICK i \in DOMAIN r : r[i].does = d
      BY <2>2 DEF Names
    <3>2. n + i - 1 \in n .. Len(flow) /\ r[i] = flow[n + i - 1]
      BY <3>1, <1>1, <1>3
    <3> QED
      BY <3>1, <3>2
  <2> QED
    BY <2>1, <2>2
<1>8. \A d : d \in Names(Rest(flow, n + 1)) <=> \E i \in n + 1 .. Len(flow) : flow[i].does = d
  <2>1. ASSUME NEW d, NEW i \in n + 1 .. Len(flow), flow[i].does = d
        PROVE d \in Names(Rest(flow, n + 1))
    <3>1. i - n \in 1 .. Len(flow) - n /\ n + (i - n) = i
      OBVIOUS
    <3>2. i - n \in DOMAIN Rest(flow, n + 1) /\ Rest(flow, n + 1)[i - n] = flow[i]
      <4> HIDE DEF r
      <4> QED
        BY <1>2, <1>3, <3>1
    <3> QED
      BY <3>2, <2>1 DEF Names
  <2>2. ASSUME NEW d, d \in Names(Rest(flow, n + 1))
        PROVE \E i \in n + 1 .. Len(flow) : flow[i].does = d
    <3>1. PICK i \in DOMAIN Rest(flow, n + 1) : Rest(flow, n + 1)[i].does = d
      BY <2>2 DEF Names
    <3>2. n + i \in n + 1 .. Len(flow) /\ Rest(flow, n + 1)[i] = flow[n + i]
      <4> HIDE DEF r
      <4>1. i \in 1 .. Len(flow) - n
        BY <3>1, <1>3
      <4> QED
        BY <4>1, <1>2
    <3> QED
      BY <3>1, <3>2
  <2> QED
    BY <2>1, <2>2
<1>9. Names(Rest(flow, n + 1)) = Names(r) \ {flow[n].does}
  <2>1. ASSUME NEW d PROVE d \in Names(Rest(flow, n + 1)) <=> d \in Names(r) /\ d # flow[n].does
    BY <1>7, <1>8
  <2> QED
    BY <2>1
<1>10. \A i \in 1 .. len : flow[i].does \in Names(r) <=> n \leq i
  BY <1>7
<1>11. \A d \in Names(r) : \E i \in 1 .. len : flow[i].does = d
  BY <1>7
<1> HIDE DEF r
<1> QED
  BY <1>2, <1>4, <1>5, <1>6, <1>9, <1>10, <1>11 DEF r, RestIs

\* The four flows are ordered: by the places of the names in each of them.
LEMMA StartupOrdered ==
  ASSUME NEW n \in 1 .. 10
  PROVE  /\ Ordered(Rest(Startup, n), TRUE)
         /\ Tail(Rest(Startup, n)) = <<>> \/ Tail(Rest(Startup, n)) \in Rests(Startup)
<1> DEFINE r == Rest(Startup, n)
<1>0. ASSUME NEW i \in 1 .. 10
      PROVE  \/ i = 1 /\ Startup[i].does = "load"
             \/ i = 2 /\ Startup[i].does = "migrate"
             \/ i = 3 /\ Startup[i].does = "plan"
             \/ i = 4 /\ Startup[i].does = "write"
             \/ i = 5 /\ Startup[i].does = "build"
             \/ i = 6 /\ Startup[i].does = "record"
             \/ i = 7 /\ Startup[i].does = "install"
             \/ i = 8 /\ Startup[i].does = "spawn"
             \/ i = 9 /\ Startup[i].does = "web"
             \/ i = 10 /\ Startup[i].does = "watch"
  BY StartupFlow
<1>1. ASSUME NEW i \in 1 .. 10, NEW j \in 1 .. 10,
             Startup[i].does = Startup[j].does
      PROVE  i = j
  BY <1>0, <1>1
<1>2. \A i \in 1 .. 10 : RestIs(Startup, 10, i)
  <2>1. Once(Startup, 10)
    BY <1>1 DEF Once
  <2>2. Startup \in Seq(Steps) /\ Len(Startup) = 10 /\ 10 \in Nat
    BY StartupFlow
  <2> QED
    BY <2>1, <2>2, RestOfFlow
<1>3. /\ r # <<>> /\ r \in Seq(Steps)
      /\ Head(r) = Startup[n] /\ Tail(r) = Rest(Startup, n + 1)
      /\ Tail(r) \in Seq(Steps) /\ Names(Tail(r)) = Names(r) \ {Head(r).does}
      /\ Tail(r) = <<>> <=> n = 10
      /\ \A i \in 1 .. 10 : Startup[i].does \in Names(r) <=> n \leq i
      /\ \A d \in Names(r) : \E i \in 1 .. 10 : Startup[i].does = d
  <2>1. RestIs(Startup, 10, n)
    BY <1>2
  <2>2. Head(r) = Startup[n] /\ Tail(r) = Rest(Startup, n + 1)
    BY <2>1 DEF RestIs
  <2>3. Names(Tail(r)) = Names(r) \ {Head(r).does}
    BY <2>1, <2>2 DEF RestIs
  <2> QED
    BY <2>1, <2>2, <2>3 DEF RestIs
<1>4. n < 10 => /\ Head(Tail(r)) = Startup[n + 1]
                 /\ (Tail(Tail(r)) = <<>> <=> n + 1 = 10)
  <2>1. n < 10 => RestIs(Startup, 10, n + 1)
    BY <1>2
  <2> HIDE DEF r
  <2> QED
    BY <1>3, <2>1 DEF RestIs
<1>5. Tail(r) = <<>> \/ Tail(r) \in Rests(Startup)
  <2>1. n < 10 => n + 1 \in 1 .. Len(Startup)
    BY StartupFlow
  <2>2. n < 10 => Rest(Startup, n + 1) \in Rests(Startup)
    BY <2>1 DEF Rests
  <2> HIDE DEF r
  <2>3. n < 10 \/ Tail(r) = <<>>
    BY <1>3
  <2> QED
    BY <1>3, <2>2, <2>3
<1> HIDE DEF r
<1>6. /\ ("load" \in Names(r) <=> n \leq 1)
      /\ ("migrate" \in Names(r) <=> n \leq 2)
      /\ ("plan" \in Names(r) <=> n \leq 3)
      /\ ("write" \in Names(r) <=> n \leq 4)
      /\ ("build" \in Names(r) <=> n \leq 5)
      /\ ("record" \in Names(r) <=> n \leq 6)
      /\ ("install" \in Names(r) <=> n \leq 7)
      /\ ("spawn" \in Names(r) <=> n \leq 8)
      /\ ("web" \in Names(r) <=> n \leq 9)
      /\ ("watch" \in Names(r) <=> n \leq 10)
  BY <1>3, StartupFlow
<1>7. /\ "refresh" \notin Names(r) /\ "restart" \notin Names(r)
      /\ "restart_api" \notin Names(r)
  BY <1>0, <1>3
<1>8. /\ r # <<>> /\ r \in Seq(Steps) /\ Tail(r) \in Seq(Steps)
      /\ Names(Tail(r)) = Names(r) \ {Head(r).does} /\ Head(r).does \in Names(r)
      /\ Tail(r) = <<>> <=> n = 10
  <2>1. Head(r) = Startup[n] /\ n \leq n
    BY <1>3
  <2> QED
    BY <1>3, <2>1
<1>9. \/ n = 1 /\ Head(r).does = "load"
      \/ n = 2 /\ Head(r).does = "migrate"
      \/ n = 3 /\ Head(r).does = "plan"
      \/ n = 4 /\ Head(r).does = "write"
      \/ n = 5 /\ Head(r).does = "build"
      \/ n = 6 /\ Head(r).does = "record"
      \/ n = 7 /\ Head(r).does = "install"
      \/ n = 8 /\ Head(r).does = "spawn"
      \/ n = 9 /\ Head(r).does = "web"
      \/ n = 10 /\ Head(r).does = "watch"
  <2>1. \/ n = 1 /\ Startup[n].does = "load"
        \/ n = 2 /\ Startup[n].does = "migrate"
        \/ n = 3 /\ Startup[n].does = "plan"
        \/ n = 4 /\ Startup[n].does = "write"
        \/ n = 5 /\ Startup[n].does = "build"
        \/ n = 6 /\ Startup[n].does = "record"
        \/ n = 7 /\ Startup[n].does = "install"
        \/ n = 8 /\ Startup[n].does = "spawn"
        \/ n = 9 /\ Startup[n].does = "web"
        \/ n = 10 /\ Startup[n].does = "watch"
    BY <1>0
  <2>2. Head(r) = Startup[n]
    BY <1>3
  <2> QED
    BY <2>1, <2>2
<1>10. \/ n = 1 /\ Startup[n + 1].does = "migrate"
       \/ n = 2 /\ Startup[n + 1].does = "plan"
       \/ n = 3 /\ Startup[n + 1].does = "write"
       \/ n = 4 /\ Startup[n + 1].does = "build"
       \/ n = 5 /\ Startup[n + 1].does = "record"
       \/ n = 6 /\ Startup[n + 1].does = "install"
       \/ n = 7 /\ Startup[n + 1].does = "spawn"
       \/ n = 8 /\ Startup[n + 1].does = "web"
       \/ n = 9 /\ Startup[n + 1].does = "watch"
       \/ n = 10
  <2>1. CASE n + 1 \in 1 .. 10
    BY <1>0, <2>1
  <2> QED
    BY <2>1
<1>11. /\ ("migrate" \in Names(Tail(r)) <=> n \leq 1)
       /\ ("plan" \in Names(Tail(r)) <=> n \leq 2)
       /\ ("write" \in Names(Tail(r)) <=> n \leq 3)
       /\ ("build" \in Names(Tail(r)) <=> n \leq 4)
       /\ ("record" \in Names(Tail(r)) <=> n \leq 5)
       /\ ("install" \in Names(Tail(r)) <=> n \leq 6)
       /\ ("spawn" \in Names(Tail(r)) <=> n \leq 7)
       /\ ("web" \in Names(Tail(r)) <=> n \leq 8)
       /\ ("watch" \in Names(Tail(r)) <=> n \leq 9)
       /\ "refresh" \notin Names(Tail(r)) /\ "restart" \notin Names(Tail(r))
       /\ "restart_api" \notin Names(Tail(r)) /\ "load" \notin Names(Tail(r))
  BY <1>6, <1>7, <1>8, <1>9
<1>12. Tail(r) = <<>> <=> n = 10
  BY <1>8
<1>13. Leads(r)
  BY <1>8 DEF Leads
<1>14. Continues(r, TRUE)
  <2>1. CASE n = 10
    <3>1. Tail(r) = <<>>
      BY <1>12, <2>1
    <3> QED
      BY <1>9, <2>1, <3>1 DEF Continues
  <2>2. CASE n # 10
    <3>1. Tail(r) # <<>> /\ n < 10
      BY <1>12, <2>2
    <3>2. Head(Tail(r)).does = Startup[n + 1].does
      BY <1>4, <3>1
    <3>3. Tail(Tail(r)) = <<>> <=> n = 9
      BY <1>4, <3>1
    <3>4. /\ Head(r).does = "plan" <=> n = 3
          /\ Head(r).does = "build" <=> n = 5
          /\ Head(r).does \notin {"restart", "restart_api", "watch"}
      BY <1>9, <2>2
    <3>5. /\ Startup[n + 1].does = "write" <=> n = 3
          /\ Startup[n + 1].does = "record" <=> n = 5
      BY <1>10, <2>2
    <3> QED
      BY <3>1, <3>2, <3>3, <3>4, <3>5 DEF Continues
  <2> QED
    BY <2>1, <2>2
<1>15. Follow(r, TRUE)
  BY <1>6, <1>7, <1>9, <1>11 DEF Follow
<1> QED
  BY <1>5, <1>13, <1>14, <1>15 DEF r, Ordered

LEMMA SpecificationOrdered ==
  ASSUME NEW n \in 1 .. 9
  PROVE  /\ Ordered(Rest(Specification, n), FALSE)
         /\ \/ Tail(Rest(Specification, n)) = <<>>
            \/ Tail(Rest(Specification, n)) \in Rests(Specification)
<1> DEFINE r == Rest(Specification, n)
<1>0. ASSUME NEW i \in 1 .. 9
      PROVE  \/ i = 1 /\ Specification[i].does = "refresh"
             \/ i = 2 /\ Specification[i].does = "load"
             \/ i = 3 /\ Specification[i].does = "migrate"
             \/ i = 4 /\ Specification[i].does = "plan"
             \/ i = 5 /\ Specification[i].does = "write"
             \/ i = 6 /\ Specification[i].does = "build"
             \/ i = 7 /\ Specification[i].does = "record"
             \/ i = 8 /\ Specification[i].does = "install"
             \/ i = 9 /\ Specification[i].does = "restart"
  BY SpecificationFlow
<1>1. ASSUME NEW i \in 1 .. 9, NEW j \in 1 .. 9,
             Specification[i].does = Specification[j].does
      PROVE  i = j
  BY <1>0, <1>1
<1>2. \A i \in 1 .. 9 : RestIs(Specification, 9, i)
  <2>1. Once(Specification, 9)
    BY <1>1 DEF Once
  <2>2. Specification \in Seq(Steps) /\ Len(Specification) = 9 /\ 9 \in Nat
    BY SpecificationFlow
  <2> QED
    BY <2>1, <2>2, RestOfFlow
<1>3. /\ r # <<>> /\ r \in Seq(Steps)
      /\ Head(r) = Specification[n] /\ Tail(r) = Rest(Specification, n + 1)
      /\ Tail(r) \in Seq(Steps) /\ Names(Tail(r)) = Names(r) \ {Head(r).does}
      /\ Tail(r) = <<>> <=> n = 9
      /\ \A i \in 1 .. 9 : Specification[i].does \in Names(r) <=> n \leq i
      /\ \A d \in Names(r) : \E i \in 1 .. 9 : Specification[i].does = d
  <2>1. RestIs(Specification, 9, n)
    BY <1>2
  <2>2. Head(r) = Specification[n] /\ Tail(r) = Rest(Specification, n + 1)
    BY <2>1 DEF RestIs
  <2>3. Names(Tail(r)) = Names(r) \ {Head(r).does}
    BY <2>1, <2>2 DEF RestIs
  <2> QED
    BY <2>1, <2>2, <2>3 DEF RestIs
<1>4. n < 9 => /\ Head(Tail(r)) = Specification[n + 1]
                 /\ (Tail(Tail(r)) = <<>> <=> n + 1 = 9)
  <2>1. n < 9 => RestIs(Specification, 9, n + 1)
    BY <1>2
  <2> HIDE DEF r
  <2> QED
    BY <1>3, <2>1 DEF RestIs
<1>5. Tail(r) = <<>> \/ Tail(r) \in Rests(Specification)
  <2>1. n < 9 => n + 1 \in 1 .. Len(Specification)
    BY SpecificationFlow
  <2>2. n < 9 => Rest(Specification, n + 1) \in Rests(Specification)
    BY <2>1 DEF Rests
  <2> HIDE DEF r
  <2>3. n < 9 \/ Tail(r) = <<>>
    BY <1>3
  <2> QED
    BY <1>3, <2>2, <2>3
<1> HIDE DEF r
<1>6. /\ ("refresh" \in Names(r) <=> n \leq 1)
      /\ ("load" \in Names(r) <=> n \leq 2)
      /\ ("migrate" \in Names(r) <=> n \leq 3)
      /\ ("plan" \in Names(r) <=> n \leq 4)
      /\ ("write" \in Names(r) <=> n \leq 5)
      /\ ("build" \in Names(r) <=> n \leq 6)
      /\ ("record" \in Names(r) <=> n \leq 7)
      /\ ("install" \in Names(r) <=> n \leq 8)
      /\ ("restart" \in Names(r) <=> n \leq 9)
  BY <1>3, SpecificationFlow
<1>7. /\ "spawn" \notin Names(r) /\ "web" \notin Names(r) /\ "watch" \notin Names(r)
      /\ "restart_api" \notin Names(r)
  BY <1>0, <1>3
<1>8. /\ r # <<>> /\ r \in Seq(Steps) /\ Tail(r) \in Seq(Steps)
      /\ Names(Tail(r)) = Names(r) \ {Head(r).does} /\ Head(r).does \in Names(r)
      /\ Tail(r) = <<>> <=> n = 9
  <2>1. Head(r) = Specification[n] /\ n \leq n
    BY <1>3
  <2> QED
    BY <1>3, <2>1
<1>9. \/ n = 1 /\ Head(r).does = "refresh"
      \/ n = 2 /\ Head(r).does = "load"
      \/ n = 3 /\ Head(r).does = "migrate"
      \/ n = 4 /\ Head(r).does = "plan"
      \/ n = 5 /\ Head(r).does = "write"
      \/ n = 6 /\ Head(r).does = "build"
      \/ n = 7 /\ Head(r).does = "record"
      \/ n = 8 /\ Head(r).does = "install"
      \/ n = 9 /\ Head(r).does = "restart"
  <2>1. \/ n = 1 /\ Specification[n].does = "refresh"
        \/ n = 2 /\ Specification[n].does = "load"
        \/ n = 3 /\ Specification[n].does = "migrate"
        \/ n = 4 /\ Specification[n].does = "plan"
        \/ n = 5 /\ Specification[n].does = "write"
        \/ n = 6 /\ Specification[n].does = "build"
        \/ n = 7 /\ Specification[n].does = "record"
        \/ n = 8 /\ Specification[n].does = "install"
        \/ n = 9 /\ Specification[n].does = "restart"
    BY <1>0
  <2>2. Head(r) = Specification[n]
    BY <1>3
  <2> QED
    BY <2>1, <2>2
<1>10. \/ n = 1 /\ Specification[n + 1].does = "load"
       \/ n = 2 /\ Specification[n + 1].does = "migrate"
       \/ n = 3 /\ Specification[n + 1].does = "plan"
       \/ n = 4 /\ Specification[n + 1].does = "write"
       \/ n = 5 /\ Specification[n + 1].does = "build"
       \/ n = 6 /\ Specification[n + 1].does = "record"
       \/ n = 7 /\ Specification[n + 1].does = "install"
       \/ n = 8 /\ Specification[n + 1].does = "restart"
       \/ n = 9
  <2>1. CASE n + 1 \in 1 .. 9
    BY <1>0, <2>1
  <2> QED
    BY <2>1
<1>11. /\ ("load" \in Names(Tail(r)) <=> n \leq 1)
       /\ ("migrate" \in Names(Tail(r)) <=> n \leq 2)
       /\ ("plan" \in Names(Tail(r)) <=> n \leq 3)
       /\ ("write" \in Names(Tail(r)) <=> n \leq 4)
       /\ ("build" \in Names(Tail(r)) <=> n \leq 5)
       /\ ("record" \in Names(Tail(r)) <=> n \leq 6)
       /\ ("install" \in Names(Tail(r)) <=> n \leq 7)
       /\ ("restart" \in Names(Tail(r)) <=> n \leq 8)
       /\ "spawn" \notin Names(Tail(r)) /\ "web" \notin Names(Tail(r))
       /\ "watch" \notin Names(Tail(r)) /\ "restart_api" \notin Names(Tail(r))
       /\ "refresh" \notin Names(Tail(r))
  BY <1>6, <1>7, <1>8, <1>9
<1>12. Tail(r) = <<>> <=> n = 9
  BY <1>8
<1>13. Leads(r)
  BY <1>8 DEF Leads
<1>14. Continues(r, FALSE)
  <2>1. CASE n = 9
    <3>1. Tail(r) = <<>>
      BY <1>12, <2>1
    <3> QED
      BY <1>9, <2>1, <3>1 DEF Continues
  <2>2. CASE n # 9
    <3>1. Tail(r) # <<>> /\ n < 9
      BY <1>12, <2>2
    <3>2. Head(Tail(r)).does = Specification[n + 1].does
      BY <1>4, <3>1
    <3>3. Tail(Tail(r)) = <<>> <=> n = 8
      BY <1>4, <3>1
    <3>4. /\ Head(r).does = "plan" <=> n = 4
          /\ Head(r).does = "build" <=> n = 6
          /\ Head(r).does \notin {"restart", "restart_api", "watch"}
      BY <1>9, <2>2
    <3>5. /\ Specification[n + 1].does = "write" <=> n = 4
          /\ Specification[n + 1].does = "record" <=> n = 6
      BY <1>10, <2>2
    <3> QED
      BY <3>1, <3>2, <3>3, <3>4, <3>5 DEF Continues
  <2> QED
    BY <2>1, <2>2
<1>15. Follow(r, FALSE)
  BY <1>6, <1>7, <1>9, <1>11 DEF Follow
<1> QED
  BY <1>5, <1>13, <1>14, <1>15 DEF r, Ordered

LEMMA BackendOrdered ==
  ASSUME NEW n \in 1 .. 6
  PROVE  /\ Ordered(Rest(Backend, n), FALSE)
         /\ Tail(Rest(Backend, n)) = <<>> \/ Tail(Rest(Backend, n)) \in Rests(Backend)
<1> DEFINE r == Rest(Backend, n)
<1>0. ASSUME NEW i \in 1 .. 6
      PROVE  \/ i = 1 /\ Backend[i].does = "refresh"
             \/ i = 2 /\ Backend[i].does = "plan"
             \/ i = 3 /\ Backend[i].does = "write"
             \/ i = 4 /\ Backend[i].does = "build"
             \/ i = 5 /\ Backend[i].does = "record"
             \/ i = 6 /\ Backend[i].does = "restart_api"
  BY BackendFlow
<1>1. ASSUME NEW i \in 1 .. 6, NEW j \in 1 .. 6,
             Backend[i].does = Backend[j].does
      PROVE  i = j
  BY <1>0, <1>1
<1>2. \A i \in 1 .. 6 : RestIs(Backend, 6, i)
  <2>1. Once(Backend, 6)
    BY <1>1 DEF Once
  <2>2. Backend \in Seq(Steps) /\ Len(Backend) = 6 /\ 6 \in Nat
    BY BackendFlow
  <2> QED
    BY <2>1, <2>2, RestOfFlow
<1>3. /\ r # <<>> /\ r \in Seq(Steps)
      /\ Head(r) = Backend[n] /\ Tail(r) = Rest(Backend, n + 1)
      /\ Tail(r) \in Seq(Steps) /\ Names(Tail(r)) = Names(r) \ {Head(r).does}
      /\ Tail(r) = <<>> <=> n = 6
      /\ \A i \in 1 .. 6 : Backend[i].does \in Names(r) <=> n \leq i
      /\ \A d \in Names(r) : \E i \in 1 .. 6 : Backend[i].does = d
  <2>1. RestIs(Backend, 6, n)
    BY <1>2
  <2>2. Head(r) = Backend[n] /\ Tail(r) = Rest(Backend, n + 1)
    BY <2>1 DEF RestIs
  <2>3. Names(Tail(r)) = Names(r) \ {Head(r).does}
    BY <2>1, <2>2 DEF RestIs
  <2> QED
    BY <2>1, <2>2, <2>3 DEF RestIs
<1>4. n < 6 => /\ Head(Tail(r)) = Backend[n + 1]
                 /\ (Tail(Tail(r)) = <<>> <=> n + 1 = 6)
  <2>1. n < 6 => RestIs(Backend, 6, n + 1)
    BY <1>2
  <2> HIDE DEF r
  <2> QED
    BY <1>3, <2>1 DEF RestIs
<1>5. Tail(r) = <<>> \/ Tail(r) \in Rests(Backend)
  <2>1. n < 6 => n + 1 \in 1 .. Len(Backend)
    BY BackendFlow
  <2>2. n < 6 => Rest(Backend, n + 1) \in Rests(Backend)
    BY <2>1 DEF Rests
  <2> HIDE DEF r
  <2>3. n < 6 \/ Tail(r) = <<>>
    BY <1>3
  <2> QED
    BY <1>3, <2>2, <2>3
<1> HIDE DEF r
<1>6. /\ ("refresh" \in Names(r) <=> n \leq 1)
      /\ ("plan" \in Names(r) <=> n \leq 2)
      /\ ("write" \in Names(r) <=> n \leq 3)
      /\ ("build" \in Names(r) <=> n \leq 4)
      /\ ("record" \in Names(r) <=> n \leq 5)
      /\ ("restart_api" \in Names(r) <=> n \leq 6)
  BY <1>3, BackendFlow
<1>7. /\ "load" \notin Names(r) /\ "migrate" \notin Names(r) /\ "install" \notin Names(r)
      /\ "spawn" \notin Names(r) /\ "web" \notin Names(r) /\ "watch" \notin Names(r)
      /\ "restart" \notin Names(r)
  BY <1>0, <1>3
<1>8. /\ r # <<>> /\ r \in Seq(Steps) /\ Tail(r) \in Seq(Steps)
      /\ Names(Tail(r)) = Names(r) \ {Head(r).does} /\ Head(r).does \in Names(r)
      /\ Tail(r) = <<>> <=> n = 6
  <2>1. Head(r) = Backend[n] /\ n \leq n
    BY <1>3
  <2> QED
    BY <1>3, <2>1
<1>9. \/ n = 1 /\ Head(r).does = "refresh"
      \/ n = 2 /\ Head(r).does = "plan"
      \/ n = 3 /\ Head(r).does = "write"
      \/ n = 4 /\ Head(r).does = "build"
      \/ n = 5 /\ Head(r).does = "record"
      \/ n = 6 /\ Head(r).does = "restart_api"
  <2>1. \/ n = 1 /\ Backend[n].does = "refresh"
        \/ n = 2 /\ Backend[n].does = "plan"
        \/ n = 3 /\ Backend[n].does = "write"
        \/ n = 4 /\ Backend[n].does = "build"
        \/ n = 5 /\ Backend[n].does = "record"
        \/ n = 6 /\ Backend[n].does = "restart_api"
    BY <1>0
  <2>2. Head(r) = Backend[n]
    BY <1>3
  <2> QED
    BY <2>1, <2>2
<1>10. \/ n = 1 /\ Backend[n + 1].does = "plan"
       \/ n = 2 /\ Backend[n + 1].does = "write"
       \/ n = 3 /\ Backend[n + 1].does = "build"
       \/ n = 4 /\ Backend[n + 1].does = "record"
       \/ n = 5 /\ Backend[n + 1].does = "restart_api"
       \/ n = 6
  <2>1. CASE n + 1 \in 1 .. 6
    BY <1>0, <2>1
  <2> QED
    BY <2>1
<1>11. /\ ("plan" \in Names(Tail(r)) <=> n \leq 1)
       /\ ("write" \in Names(Tail(r)) <=> n \leq 2)
       /\ ("build" \in Names(Tail(r)) <=> n \leq 3)
       /\ ("record" \in Names(Tail(r)) <=> n \leq 4)
       /\ ("restart_api" \in Names(Tail(r)) <=> n \leq 5)
       /\ "load" \notin Names(Tail(r)) /\ "migrate" \notin Names(Tail(r))
       /\ "install" \notin Names(Tail(r)) /\ "spawn" \notin Names(Tail(r))
       /\ "web" \notin Names(Tail(r)) /\ "watch" \notin Names(Tail(r))
       /\ "restart" \notin Names(Tail(r)) /\ "refresh" \notin Names(Tail(r))
  BY <1>6, <1>7, <1>8, <1>9
<1>12. Tail(r) = <<>> <=> n = 6
  BY <1>8
<1>13. Leads(r)
  BY <1>8 DEF Leads
<1>14. Continues(r, FALSE)
  <2>1. CASE n = 6
    <3>1. Tail(r) = <<>>
      BY <1>12, <2>1
    <3> QED
      BY <1>9, <2>1, <3>1 DEF Continues
  <2>2. CASE n # 6
    <3>1. Tail(r) # <<>> /\ n < 6
      BY <1>12, <2>2
    <3>2. Head(Tail(r)).does = Backend[n + 1].does
      BY <1>4, <3>1
    <3>3. Tail(Tail(r)) = <<>> <=> n = 5
      BY <1>4, <3>1
    <3>4. /\ Head(r).does = "plan" <=> n = 2
          /\ Head(r).does = "build" <=> n = 4
          /\ Head(r).does \notin {"restart", "restart_api", "watch"}
      BY <1>9, <2>2
    <3>5. /\ Backend[n + 1].does = "write" <=> n = 2
          /\ Backend[n + 1].does = "record" <=> n = 4
      BY <1>10, <2>2
    <3> QED
      BY <3>1, <3>2, <3>3, <3>4, <3>5 DEF Continues
  <2> QED
    BY <2>1, <2>2
<1>15. Follow(r, FALSE)
  BY <1>6, <1>7, <1>9, <1>11 DEF Follow
<1> QED
  BY <1>5, <1>13, <1>14, <1>15 DEF r, Ordered

LEMMA WebOrdered ==
  ASSUME NEW n \in 1 .. 1
  PROVE  /\ Ordered(Rest(Web, n), FALSE)
         /\ Tail(Rest(Web, n)) = <<>> \/ Tail(Rest(Web, n)) \in Rests(Web)
<1> DEFINE r == Rest(Web, n)
<1>0. ASSUME NEW i \in 1 .. 1
      PROVE  \/ i = 1 /\ Web[i].does = "refresh"
  BY WebFlow
<1>1. ASSUME NEW i \in 1 .. 1, NEW j \in 1 .. 1,
             Web[i].does = Web[j].does
      PROVE  i = j
  BY <1>0, <1>1
<1>2. \A i \in 1 .. 1 : RestIs(Web, 1, i)
  <2>1. Once(Web, 1)
    BY <1>1 DEF Once
  <2>2. Web \in Seq(Steps) /\ Len(Web) = 1 /\ 1 \in Nat
    BY WebFlow
  <2> QED
    BY <2>1, <2>2, RestOfFlow
<1>3. /\ r # <<>> /\ r \in Seq(Steps)
      /\ Head(r) = Web[n] /\ Tail(r) = Rest(Web, n + 1)
      /\ Tail(r) \in Seq(Steps) /\ Names(Tail(r)) = Names(r) \ {Head(r).does}
      /\ Tail(r) = <<>> <=> n = 1
      /\ \A i \in 1 .. 1 : Web[i].does \in Names(r) <=> n \leq i
      /\ \A d \in Names(r) : \E i \in 1 .. 1 : Web[i].does = d
  <2>1. RestIs(Web, 1, n)
    BY <1>2
  <2>2. Head(r) = Web[n] /\ Tail(r) = Rest(Web, n + 1)
    BY <2>1 DEF RestIs
  <2>3. Names(Tail(r)) = Names(r) \ {Head(r).does}
    BY <2>1, <2>2 DEF RestIs
  <2> QED
    BY <2>1, <2>2, <2>3 DEF RestIs
<1>4. n < 1 => /\ Head(Tail(r)) = Web[n + 1]
                 /\ (Tail(Tail(r)) = <<>> <=> n + 1 = 1)
  <2>1. n < 1 => RestIs(Web, 1, n + 1)
    BY <1>2
  <2> HIDE DEF r
  <2> QED
    BY <1>3, <2>1 DEF RestIs
<1>5. Tail(r) = <<>> \/ Tail(r) \in Rests(Web)
  <2>1. n < 1 => n + 1 \in 1 .. Len(Web)
    BY WebFlow
  <2>2. n < 1 => Rest(Web, n + 1) \in Rests(Web)
    BY <2>1 DEF Rests
  <2> HIDE DEF r
  <2>3. n < 1 \/ Tail(r) = <<>>
    BY <1>3
  <2> QED
    BY <1>3, <2>2, <2>3
<1> HIDE DEF r
<1>6. /\ ("refresh" \in Names(r) <=> n \leq 1)
  BY <1>3, WebFlow
<1>7. {"load", "migrate", "plan", "write", "build", "record", "install", "spawn",
       "web", "watch", "restart", "restart_api"} \cap Names(r) = {}
  BY <1>0, <1>3
<1>8. Ordered(r, FALSE)
  BY <1>0, <1>3, <1>4, <1>6, <1>7, WebFlow, SMTT(60) DEF Ordered, Leads, Continues, Follow
<1> QED
  BY <1>5, <1>8 DEF r

\* All of this for every rest of every flow.
LEMMA FlowsAreOrdered ==
  /\ \A t \in Rests(Startup) : Ordered(t, TRUE) /\ (Tail(t) = <<>> \/ Tail(t) \in Rests(Startup))
  /\ \A f \in {Specification, Backend, Web} : \A t \in Rests(f) :
       Ordered(t, FALSE) /\ (Tail(t) = <<>> \/ Tail(t) \in Rests(f))
<1>1. \A t \in Rests(Startup) : Ordered(t, TRUE) /\ (Tail(t) = <<>> \/ Tail(t) \in Rests(Startup))
  <2> SUFFICES ASSUME NEW n \in 1 .. Len(Startup)
               PROVE  LET t == Rest(Startup, n)
                      IN  Ordered(t, TRUE) /\ (Tail(t) = <<>> \/ Tail(t) \in Rests(Startup))
    BY DEF Rests
  <2>1. n \in 1 .. 10
    BY StartupFlow
  <2> QED
    BY <2>1, StartupOrdered
<1>2. \A t \in Rests(Specification) :
        Ordered(t, FALSE) /\ (Tail(t) = <<>> \/ Tail(t) \in Rests(Specification))
  <2> SUFFICES ASSUME NEW n \in 1 .. Len(Specification)
               PROVE  LET t == Rest(Specification, n)
                      IN  Ordered(t, FALSE) /\ (Tail(t) = <<>> \/ Tail(t) \in Rests(Specification))
    BY DEF Rests
  <2>1. n \in 1 .. 9
    BY SpecificationFlow
  <2> QED
    BY <2>1, SpecificationOrdered
<1>3. \A t \in Rests(Backend) : Ordered(t, FALSE) /\ (Tail(t) = <<>> \/ Tail(t) \in Rests(Backend))
  <2> SUFFICES ASSUME NEW n \in 1 .. Len(Backend)
               PROVE  LET t == Rest(Backend, n)
                      IN  Ordered(t, FALSE) /\ (Tail(t) = <<>> \/ Tail(t) \in Rests(Backend))
    BY DEF Rests
  <2>1. n \in 1 .. 6
    BY BackendFlow
  <2> QED
    BY <2>1, BackendOrdered
<1>4. \A t \in Rests(Web) : Ordered(t, FALSE) /\ (Tail(t) = <<>> \/ Tail(t) \in Rests(Web))
  <2> SUFFICES ASSUME NEW n \in 1 .. Len(Web)
               PROVE  LET t == Rest(Web, n)
                      IN  Ordered(t, FALSE) /\ (Tail(t) = <<>> \/ Tail(t) \in Rests(Web))
    BY DEF Rests
  <2>1. n \in 1 .. 1
    BY WebFlow
  <2> QED
    BY <2>1, WebOrdered
<1> QED
  BY <1>1, <1>2, <1>3, <1>4

\* A flow is the rest of itself from the first step on.
LEMMA WholeFlow ==
  /\ Startup \in Rests(Startup) /\ Specification \in Rests(Specification)
  /\ Backend \in Rests(Backend) /\ Web \in Rests(Web)
<1>1. ASSUME NEW f \in Seq(Steps), Len(f) # 0 PROVE f \in Rests(f)
  <2>1. SubSeq(f, 1, Len(f)) = f /\ 1 \in 1 .. Len(f)
    BY <1>1
  <2> QED
    BY <2>1 DEF Rests, Rest
<1>2. /\ Startup \in Seq(Steps) /\ Len(Startup) # 0
      /\ Specification \in Seq(Steps) /\ Len(Specification) # 0
  BY StartupFlow, SpecificationFlow
<1>3. Backend \in Seq(Steps) /\ Len(Backend) # 0 /\ Web \in Seq(Steps) /\ Len(Web) # 0
  BY BackendFlow, WebFlow
<1> QED
  BY <1>1, <1>2, <1>3

\* The names of the whole flows.
LEMMA NamesOfFlows ==
  /\ {"load", "migrate", "write", "record", "spawn"} \subseteq Names(Startup)
  /\ Head(Startup).does = "load"
  /\ {"load", "migrate", "write", "record", "restart"} \subseteq Names(Specification)
  /\ Head(Specification).does = "refresh"
  /\ {"record", "restart_api"} \subseteq Names(Backend) /\ "restart" \notin Names(Backend)
  /\ Head(Backend).does = "refresh"
  /\ "restart" \notin Names(Web) /\ "restart_api" \notin Names(Web) /\ Head(Web).does = "refresh"
<1>1. ASSUME NEW f \in Seq(Steps), NEW d
      PROVE  d \in Names(f) <=> \E i \in 1 .. Len(f) : f[i].does = d
  BY DEF Names
<1>2. /\ {"load", "migrate", "write", "record", "spawn"} \subseteq Names(Startup)
      /\ Head(Startup).does = "load"
  <2>1. Startup \in Seq(Steps) /\ Len(Startup) = 10
    BY StartupFlow
  <2>2. \A i \in 1 .. 10 : Startup[i].does \in Names(Startup)
    BY <1>1, <2>1
  <2>3. Head(Startup) = Startup[1]
    OBVIOUS
  <2> QED
    BY <2>2, <2>3, StartupFlow
<1>3. {"load", "migrate", "write", "record", "restart"} \subseteq Names(Specification)
  BY <1>1, SpecificationFlow
<1>4. Head(Specification).does = "refresh"
  BY SpecificationFlow
<1>5. {"record", "restart_api"} \subseteq Names(Backend) /\ Head(Backend).does = "refresh"
  BY <1>1, BackendFlow
<1>6. Head(Web).does = "refresh" /\ "restart" \notin Names(Web) /\ "restart_api" \notin Names(Web)
  BY <1>1, WebFlow
<1>7. "restart" \notin Names(Backend)
  <2>1. \A i \in 1 .. 6 : Backend[i].does # "restart"
    BY BackendFlow
  <2> QED
    BY <2>1, <1>1, BackendFlow
<1> QED
  BY <1>2, <1>3, <1>4, <1>5, <1>6, <1>7

-----------------------------------------------------------------------------
(* Where the thread is *)

Left == Names(todo)

UnderWay ==
  \/ mode \in {"off", "wait"} /\ todo = <<>>
  \/ mode = "start" /\ todo \in Rests(Startup)
  \/ mode = "reload" /\ \E f \in {Specification, Backend, Web} : todo \in Rests(f)

Full == mode = "start" \/ "restart" \in Left

\* Every step of a flow leads to the next, and the flow ends in the loop.
LEMMA Advances ==
  ASSUME UnderWay, todo # <<>>
  PROVE  /\ Ordered(todo, mode = "start") /\ mode \in {"start", "reload"}
         /\ todo' = Tail(todo) /\ mode' = (IF todo' = <<>> THEN "wait" ELSE mode) => UnderWay'
         /\ Tail(todo) # <<>> => /\ Ordered(Tail(todo), mode = "start")
                                 /\ todo' = Tail(Tail(todo))
                                      /\ mode' = (IF todo' = <<>> THEN "wait" ELSE mode)
                                    => UnderWay'
<1>1. CASE mode = "start"
  BY <1>1, FlowsAreOrdered DEF UnderWay
<1>2. CASE mode = "reload"
  <2>1. PICK f \in {Specification, Backend, Web} : todo \in Rests(f)
    BY <1>2 DEF UnderWay
  <2>2. Ordered(todo, FALSE) /\ (Tail(todo) = <<>> \/ Tail(todo) \in Rests(f))
    BY <2>1, FlowsAreOrdered
  <2>3. Tail(todo) # <<>> => /\ Ordered(Tail(todo), FALSE)
                             /\ (Tail(Tail(todo)) = <<>> \/ Tail(Tail(todo)) \in Rests(f))
    BY <2>1, <2>2, FlowsAreOrdered
  <2>4. (mode = "start") = FALSE
    BY <1>2
  <2> QED
    BY <1>2, <2>1, <2>2, <2>3, <2>4 DEF UnderWay
<1> QED
  BY <1>1, <1>2 DEF UnderWay

-----------------------------------------------------------------------------
(* What is current, and what will be *)

\* A change of the source is known to the session, or was lost.
Stale(s) ==
  \/ s \in unread \cup noticed \cup missed
  \/ watch \in [Source -> Version] /\ watch[s] # src[s]

\* Something asks for a rebuild of everything, or of the backend, that is not
\* under way yet; or such a rebuild failed.
RebuildDue ==
  \/ Stale("spec") \/ Stale("environment")
  \/ "specification" \in failed /\ "restart" \notin Left
BackendDue ==
  \/ RebuildDue \/ Stale("backend")
  \/ "backend" \in failed /\ Left \cap {"restart", "restart_api"} = {}

\* Whatever a session has is current, or a step that is left will make it so,
\* or a rebuild is due.
EnvironmentCurrent == RebuildDue \/ "load" \in Left \/ environment = src["environment"]
DatabaseCurrent == RebuildDue \/ "migrate" \in Left \/ migrated = src["spec"]
TreeCurrent == RebuildDue \/ (Full /\ "write" \in Left) \/ treeKey = src["spec"]
WebCurrent == RebuildDue \/ "spawn" \in Left \/ "restart" \in Left \/ web = None \/ web = tree
BinaryCurrent == BackendDue \/ "record" \in Left \/ binaryKey = BackendKey
ApiCurrent == BackendDue \/ Servers \cap Left # {} \/ api = None \/ api = binary
WritesWhenDue == todo # <<>> /\ Head(todo).does = "write" /\ ~Full => RebuildDue

Current ==
  /\ EnvironmentCurrent /\ DatabaseCurrent /\ TreeCurrent /\ WebCurrent
  /\ BinaryCurrent /\ ApiCurrent /\ WritesWhenDue

\* A tree has a key only if there is one, and the generator has its input.
TreeIsThere ==
  /\ treeKey # None => tree # None
  /\ todo # <<>> /\ Head(todo).does = "write" => reading # None

\* What every step of the thread, of the watcher and of the developer keeps.
SessionInv ==
  /\ DevelopmentTypes /\ UnderWay /\ TreeIsThere
  /\ mode \in {"wait", "reload"} => watch # None
  /\ mode # "off" => Current

LEMMA SessionInitially == DevelopmentInit => SessionInv
<1> SUFFICES ASSUME DevelopmentInit PROVE SessionInv
  OBVIOUS
<1>1. DevelopmentTypes
  BY DevelopmentAssumption DEF DevelopmentInit, DevelopmentTypes
<1>2. UnderWay /\ TreeIsThere /\ mode = "off"
  BY DEF DevelopmentInit, UnderWay, TreeIsThere
<1> QED
  BY <1>1, <1>2 DEF SessionInv

\* What a step that does not fail does to the steps that are left: those it
\* is and those it makes superfluous are gone.
Passes(gone) ==
  /\ Ordered(todo, mode = "start") /\ UnderWay' /\ todo' \in Seq(Steps)
  /\ mode \in {"start", "reload"} /\ mode' \in {"wait", mode} /\ todo # <<>>
  /\ Left' = Left \ gone /\ gone \subseteq Left /\ Head(todo).does \in gone
  /\ gone = {Head(todo).does} \/ gone \in {{"plan", "write"}, {"build", "record"}}
  /\ mode = "start" /\ mode' = "wait" => "watch" \in gone
  /\ Full' => Full
  /\ Full /\ ~Full' => todo' = <<>>
  /\ todo' # <<>> /\ Head(todo').does = "write" => gone = {"plan"}

LEMMA PassesOne ==
  ASSUME SessionInv, todo # <<>>, Done
  PROVE  Passes({Head(todo).does})
<1>1. todo' = Tail(todo) /\ mode' = IF todo' = <<>> THEN "wait" ELSE mode
  BY DEF Done, Goes
<1>2. Ordered(todo, mode = "start") /\ UnderWay' /\ mode \in {"start", "reload"}
  BY <1>1, Advances DEF SessionInv
<1>3. todo' \in Seq(Steps) /\ Left' = Left \ {Head(todo).does} /\ Head(todo).does \in Left
  BY <1>1, <1>2 DEF Ordered, Leads, Continues, Follow, Left
<1>4. mode = "start" /\ todo' = <<>> => Head(todo).does = "watch"
  BY <1>1, <1>2 DEF Ordered, Leads, Continues, Follow
<1>5. (Full' => Full) /\ (Full /\ ~Full' => todo' = <<>> \/ Head(todo).does = "restart")
  BY <1>1, <1>2, <1>3 DEF Full
<1>6. Head(todo).does = "restart" => todo' = <<>>
  BY <1>1, <1>2 DEF Ordered, Leads, Continues, Follow
<1>7. todo' # <<>> /\ Head(todo').does = "write" => Head(todo).does = "plan"
  BY <1>1, <1>2 DEF Ordered, Leads, Continues, Follow
<1> QED
  BY <1>1, <1>2, <1>3, <1>4, <1>5, <1>6, <1>7 DEF Passes

\* A hit in a cache skips the step that would fill it.
LEMMA PassesTwo ==
  ASSUME SessionInv, todo # <<>>, Head(todo).does \in {"plan", "build"},
         Goes(Tail(Tail(todo)))
  PROVE  Passes(IF Head(todo).does = "plan" THEN {"plan", "write"} ELSE {"build", "record"})
<1> DEFINE gone == IF Head(todo).does = "plan" THEN {"plan", "write"} ELSE {"build", "record"}
<1>1. todo' = Tail(Tail(todo)) /\ mode' = IF todo' = <<>> THEN "wait" ELSE mode
  BY DEF Goes
<1>2. Ordered(todo, mode = "start") /\ mode \in {"start", "reload"}
  BY Advances DEF SessionInv
<1>3. Tail(todo) # <<>> /\ todo' # <<>>
  BY <1>1, <1>2 DEF Ordered, Leads, Continues, Follow
<1>4. UnderWay' /\ Ordered(Tail(todo), mode = "start")
  BY <1>1, <1>3, Advances DEF SessionInv
<1>5. Head(Tail(todo)).does = IF Head(todo).does = "plan" THEN "write" ELSE "record"
  BY <1>2, <1>3 DEF Ordered, Leads, Continues, Follow
<1>6. Names(Tail(todo)) = Left \ {Head(todo).does} /\ Head(todo).does \in Left
  BY <1>2 DEF Ordered, Leads, Continues, Follow, Left
<1>7. /\ Left' = Names(Tail(todo)) \ {Head(Tail(todo)).does} /\ todo' \in Seq(Steps)
      /\ Head(Tail(todo)).does \in Names(Tail(todo))
  BY <1>1, <1>4 DEF Ordered, Leads, Continues, Follow, Left
<1>8. Left' = Left \ gone /\ gone \subseteq Left /\ Head(todo).does \in gone
  BY <1>5, <1>6, <1>7
<1>9. Head(todo').does # "write"
  BY <1>1, <1>3, <1>4, <1>5 DEF Ordered, Leads, Continues, Follow
<1>10. mode' = mode /\ (Full' <=> Full)
  BY <1>1, <1>3, <1>8 DEF Full
<1> HIDE DEF gone
<1>11. gone = {"plan", "write"} \/ gone = {"build", "record"}
  BY DEF gone
<1> QED
  BY <1>2, <1>3, <1>4, <1>7, <1>8, <1>9, <1>10, <1>11 DEF Passes, gone

\* A change that is known stays known until the session gets to it.
LEMMA DueStays ==
  ASSUME NEW gone, Passes(gone), NEW rest, Goes(rest), UNCHANGED <<watcher, missed>>
  PROVE  /\ RebuildDue => RebuildDue'
         /\ BackendDue => BackendDue'
<1>1. Ordered(todo, mode = "start") /\ Left' \subseteq Left /\ Head(todo).does \in Left
  BY DEF Passes
<1>2. UNCHANGED <<src, watch, unread, noticed, missed>>
  BY DEF Goes, watcher, project
<1>3. \A s : Stale(s) => Stale(s)'
  BY <1>2 DEF Stale
<1>4. failed' = CASE At("restart") -> {}
                  [] At("restart_api") -> failed \ {"backend"}
                  [] OTHER -> failed
  BY DEF Goes
<1>5. At("restart") => "restart" \in Left
  BY <1>1 DEF At
<1>6. At("restart_api") => "restart_api" \in Left
  BY <1>1 DEF At
<1>7. RebuildDue => RebuildDue'
  BY <1>1, <1>3, <1>4, <1>5 DEF RebuildDue
<1>8. BackendDue => BackendDue'
  BY <1>1, <1>3, <1>4, <1>5, <1>6, <1>7 DEF BackendDue
<1> QED
  BY <1>7, <1>8

\* What a step does not touch stays current, unless the step was to see to it.
LEMMA CurrentMeanwhile ==
  ASSUME SessionInv, NEW gone, Passes(gone), NEW rest, Goes(rest),
         RebuildDue => RebuildDue'
  PROVE  /\ "load" \notin gone /\ UNCHANGED environment => EnvironmentCurrent'
         /\ "migrate" \notin gone /\ UNCHANGED migrated => DatabaseCurrent'
         /\ "write" \notin gone /\ UNCHANGED treeKey => TreeCurrent'
         /\ gone \cap {"spawn", "restart"} = {} /\ UNCHANGED <<tree, web>> => WebCurrent'
         /\ "record" \notin gone /\ UNCHANGED <<tree, environment, binaryKey>>
                /\ (BackendDue => BackendDue') => BinaryCurrent'
         /\ gone \cap Servers = {} /\ UNCHANGED <<api, binary>>
                /\ (BackendDue => BackendDue') => ApiCurrent'
         /\ gone # {"plan"} => WritesWhenDue'
         /\ gone # {"plan"} /\ UNCHANGED <<tree, treeKey>> => TreeIsThere'
<1>1. /\ Left' = Left \ gone
      /\ Full /\ ~Full' => todo' = <<>>
      /\ todo' # <<>> /\ Head(todo').does = "write" => gone = {"plan"}
  BY DEF Passes
<1>2. src' = src
  BY DEF Goes, project
<1>3. Current /\ TreeIsThere
  BY DEF SessionInv, Passes
<1>4. "load" \notin gone /\ UNCHANGED environment => EnvironmentCurrent'
  BY <1>1, <1>2, <1>3 DEF Current, EnvironmentCurrent
<1>5. "migrate" \notin gone /\ UNCHANGED migrated => DatabaseCurrent'
  BY <1>1, <1>2, <1>3 DEF Current, DatabaseCurrent
<1>6. todo' = <<>> => Left' = {}
  BY DEF Left, Names
<1>7. "write" \notin gone /\ UNCHANGED treeKey => TreeCurrent'
  BY <1>1, <1>2, <1>3, <1>6 DEF Current, TreeCurrent
<1>8. gone \cap {"spawn", "restart"} = {} /\ UNCHANGED <<tree, web>> => WebCurrent'
  BY <1>1, <1>3 DEF Current, WebCurrent
<1>9. "record" \notin gone /\ UNCHANGED <<tree, environment, binaryKey>>
                /\ (BackendDue => BackendDue') => BinaryCurrent'
  BY <1>1, <1>2, <1>3 DEF Current, BinaryCurrent, BackendKey
<1>10. gone \cap Servers = {} /\ UNCHANGED <<api, binary>>
                /\ (BackendDue => BackendDue') => ApiCurrent'
  BY <1>1, <1>3 DEF Current, ApiCurrent
<1>11. gone # {"plan"} => WritesWhenDue'
  BY <1>1 DEF WritesWhenDue
<1>12. gone # {"plan"} /\ UNCHANGED <<tree, treeKey>> => TreeIsThere'
  BY <1>1, <1>3 DEF TreeIsThere
<1> QED
  BY <1>4, <1>5, <1>7, <1>8, <1>9, <1>10, <1>11, <1>12

LEMMA CurrentStays ==
  ASSUME SessionInv, NEW gone, Passes(gone), NEW rest, Goes(rest), UNCHANGED <<watcher, missed>>
  PROVE  /\ "load" \notin gone /\ UNCHANGED environment => EnvironmentCurrent'
         /\ "migrate" \notin gone /\ UNCHANGED migrated => DatabaseCurrent'
         /\ "write" \notin gone /\ UNCHANGED treeKey => TreeCurrent'
         /\ gone \cap {"spawn", "restart"} = {} /\ UNCHANGED <<tree, web>> => WebCurrent'
         /\ "record" \notin gone /\ UNCHANGED <<tree, environment, binaryKey>> => BinaryCurrent'
         /\ gone \cap Servers = {} /\ UNCHANGED <<api, binary>> => ApiCurrent'
         /\ gone # {"plan"} => WritesWhenDue'
         /\ gone # {"plan"} /\ UNCHANGED <<tree, treeKey>> => TreeIsThere'
  BY DueStays, CurrentMeanwhile

\* Where the thread is, and the types of what every step leaves alone.
LEMMA PassesKeepsPlace ==
  ASSUME SessionInv, NEW gone, Passes(gone), NEW rest, Goes(rest)
  PROVE  /\ src' \in [Source -> Version] /\ edits' \in 0 .. MaxEdits
         /\ mode' \in {"off", "start", "wait", "reload"}
         /\ todo' \in Seq([does : Does, checked : BOOLEAN])
         /\ failed' \subseteq {"specification", "backend"}
         /\ sessions' \in 0 .. MaxStarts /\ trouble' \in 0 .. MaxFailures
         /\ watch' = watch => (mode' \in {"wait", "reload"} => watch' # None) \/ "watch" \in gone
  BY DEF Passes, Steps, Goes, SessionInv, DevelopmentTypes, project

-----------------------------------------------------------------------------
(* The steps *)

\* What every step of a flow has to show: the types of what it sets, and what
\* becomes current by it.
LEMMA StepKeeps ==
  ASSUME SessionInv, NEW gone, Passes(gone), NEW rest, Goes(rest), UNCHANGED <<watcher, missed>>,
         {environment', migrated', reading', tree', treeKey', web'} \subseteq Version \cup {None},
         "watch" \notin gone, TreeIsThere', Current'
  PROVE  SessionInv'
<1>1. /\ src' \in [Source -> Version] /\ edits' \in 0 .. MaxEdits
      /\ mode' \in {"off", "start", "wait", "reload"}
      /\ todo' \in Seq([does : Does, checked : BOOLEAN])
      /\ failed' \subseteq {"specification", "backend"}
      /\ sessions' \in 0 .. MaxStarts /\ trouble' \in 0 .. MaxFailures
      /\ mode' \in {"wait", "reload"} => watch' # None
  BY PassesKeepsPlace DEF watcher
<1>2. DevelopmentTypes'
  BY <1>1 DEF SessionInv, DevelopmentTypes, watcher
<1>3. UnderWay'
  BY DEF Passes
<1> QED
  BY <1>1, <1>2, <1>3 DEF SessionInv

\* The environment is loaded; the binary of another one is replaced later.
LEMMA LoadKeeps == SessionInv /\ Load => SessionInv'
<1> SUFFICES ASSUME SessionInv, Load PROVE SessionInv'
  OBVIOUS
<1>1. todo # <<>> /\ Head(todo).does = "load" /\ Done /\ UNCHANGED <<watcher, missed>>
  BY DEF Load, At
<1>2. Passes({"load"}) /\ Goes(Tail(todo))
  BY <1>1, PassesOne DEF Done
<1>3. {environment', migrated', reading', tree', treeKey', web'} \subseteq Version \cup {None}
  BY DEF Load, SessionInv, DevelopmentTypes, Source, outputs, servers
<1>4. EnvironmentCurrent'
  BY <1>1 DEF Load, EnvironmentCurrent, Done, Goes, project
<1>5. BinaryCurrent'
  BY <1>1, <1>2 DEF Passes, Ordered, Leads, Continues, Follow, Left, BinaryCurrent
<1>6. /\ DatabaseCurrent' /\ TreeCurrent' /\ WebCurrent' /\ ApiCurrent' /\ WritesWhenDue'
      /\ TreeIsThere'
  BY <1>1, <1>2, CurrentStays DEF Load, outputs, servers, Servers
<1>7. Current' /\ TreeIsThere'
  BY <1>4, <1>5, <1>6 DEF Current
<1> QED
  BY <1>1, <1>2, <1>3, <1>7, StepKeeps

\* The database is what the specification says.
LEMMA MigrateKeeps == SessionInv /\ Migrate => SessionInv'
<1> SUFFICES ASSUME SessionInv, Migrate PROVE SessionInv'
  OBVIOUS
<1>1. todo # <<>> /\ Head(todo).does = "migrate" /\ Done /\ UNCHANGED <<watcher, missed>>
  BY DEF Migrate, At
<1>2. Passes({"migrate"}) /\ Goes(Tail(todo))
  BY <1>1, PassesOne DEF Done
<1>3. {environment', migrated', reading', tree', treeKey', web'} \subseteq Version \cup {None}
  BY DEF Migrate, SessionInv, DevelopmentTypes, Source, outputs, servers
<1>4. DatabaseCurrent'
  BY <1>1 DEF Migrate, DatabaseCurrent, Done, Goes, project
<1>5. /\ EnvironmentCurrent' /\ TreeCurrent' /\ WebCurrent' /\ BinaryCurrent' /\ ApiCurrent'
      /\ WritesWhenDue' /\ TreeIsThere'
  BY <1>1, <1>2, CurrentStays DEF Migrate, outputs, servers, Servers
<1>6. Current' /\ TreeIsThere'
  BY <1>4, <1>5 DEF Current
<1> QED
  BY <1>1, <1>2, <1>3, <1>6, StepKeeps

\* The tree has the key of the sources as they are; the binary and the web server of the
\* tree before follow.
LEMMA WriteKeeps == SessionInv /\ Write => SessionInv'
<1> SUFFICES ASSUME SessionInv, Write PROVE SessionInv'
  OBVIOUS
<1>1. todo # <<>> /\ Head(todo).does = "write" /\ Done /\ UNCHANGED <<watcher, missed>>
  BY DEF Write, At
<1>2. Passes({"write"}) /\ Goes(Tail(todo))
  BY <1>1, PassesOne DEF Done
<1>3. {environment', migrated', reading', tree', treeKey', web'} \subseteq Version \cup {None}
  BY DEF Write, SessionInv, DevelopmentTypes, Source, outputs, servers
<1>4. TreeCurrent'
  BY <1>1 DEF Write, TreeCurrent, Done, Goes, project
<1>5. WebCurrent'
  <2>1. CASE Full
    <3>1. {"spawn", "restart"} \cap Left' # {}
      BY <1>1, <1>2, <2>1 DEF Passes, Ordered, Leads, Continues, Follow, Left, Full
    <3> QED
      BY <3>1 DEF WebCurrent
  <2>2. CASE ~Full
    <3>1. RebuildDue
      BY <1>1, <1>2, <2>2 DEF SessionInv, Passes, Current, WritesWhenDue
    <3>2. RebuildDue'
      BY <1>1, <1>2, <3>1, DueStays
    <3> QED
      BY <3>2 DEF WebCurrent
  <2> QED
    BY <2>1, <2>2
<1>6. BinaryCurrent'
  BY <1>1, <1>2 DEF Passes, Ordered, Leads, Continues, Follow, Left, BinaryCurrent
<1>7. TreeIsThere'
  <2>1. tree' # None
    BY <1>1 DEF Write, SessionInv, TreeIsThere
  <2>2. ~(todo' # <<>> /\ Head(todo').does = "write")
    BY <1>2 DEF Passes
  <2> QED
    BY <2>1, <2>2 DEF TreeIsThere
<1>8. EnvironmentCurrent' /\ DatabaseCurrent' /\ ApiCurrent' /\ WritesWhenDue'
  BY <1>1, <1>2, CurrentStays DEF Write, outputs, servers, Servers
<1>9. Current' /\ TreeIsThere'
  BY <1>4, <1>5, <1>6, <1>7, <1>8 DEF Current
<1> QED
  BY <1>1, <1>2, <1>3, <1>9, StepKeeps

\* The binary has the key of the sources as they are.
LEMMA RecordKeeps == SessionInv /\ Record => SessionInv'
<1> SUFFICES ASSUME SessionInv, Record PROVE SessionInv'
  OBVIOUS
<1>1. todo # <<>> /\ Head(todo).does = "record" /\ Done /\ UNCHANGED <<watcher, missed>>
  BY DEF Record, At
<1>2. Passes({"record"}) /\ Goes(Tail(todo))
  BY <1>1, PassesOne DEF Done
<1>3. {environment', migrated', reading', tree', treeKey', web'} \subseteq Version \cup {None}
  BY DEF Record, SessionInv, DevelopmentTypes, Source, outputs, servers
<1>4. BinaryCurrent'
  <2>1. binaryKey' = BackendKey /\ BackendKey' = BackendKey
    BY <1>1 DEF Record, BackendKey, Done, Goes, project
  <2> QED
    BY <2>1 DEF BinaryCurrent
<1>5. /\ EnvironmentCurrent' /\ DatabaseCurrent' /\ TreeCurrent' /\ WebCurrent' /\ ApiCurrent'
      /\ WritesWhenDue' /\ TreeIsThere'
  BY <1>1, <1>2, CurrentStays DEF Record, outputs, servers, Servers
<1>6. Current' /\ TreeIsThere'
  BY <1>4, <1>5 DEF Current
<1> QED
  BY <1>1, <1>2, <1>3, <1>6, StepKeeps

\* The packages of the web part are none of what is served.
LEMMA InstallKeeps == SessionInv /\ Install => SessionInv'
<1> SUFFICES ASSUME SessionInv, Install PROVE SessionInv'
  OBVIOUS
<1>1. todo # <<>> /\ Head(todo).does = "install" /\ Done /\ UNCHANGED <<watcher, missed>>
  BY DEF Install, At
<1>2. Passes({"install"}) /\ Goes(Tail(todo))
  BY <1>1, PassesOne DEF Done
<1>3. {environment', migrated', reading', tree', treeKey', web'} \subseteq Version \cup {None}
  BY DEF Install, SessionInv, DevelopmentTypes, Source, outputs, servers
<1>4. /\ EnvironmentCurrent' /\ DatabaseCurrent' /\ TreeCurrent' /\ WebCurrent'
      /\ BinaryCurrent' /\ ApiCurrent' /\ WritesWhenDue' /\ TreeIsThere'
  BY <1>1, <1>2, CurrentStays DEF Install, outputs, servers, Servers
<1>5. Current' /\ TreeIsThere'
  BY <1>4 DEF Current
<1> QED
  BY <1>1, <1>2, <1>3, <1>5, StepKeeps

\* Nor is the wait for the web server.
LEMMA WaitForWebKeeps == SessionInv /\ WaitForWeb => SessionInv'
<1> SUFFICES ASSUME SessionInv, WaitForWeb PROVE SessionInv'
  OBVIOUS
<1>1. todo # <<>> /\ Head(todo).does = "web" /\ Done /\ UNCHANGED <<watcher, missed>>
  BY DEF WaitForWeb, At
<1>2. Passes({"web"}) /\ Goes(Tail(todo))
  BY <1>1, PassesOne DEF Done
<1>3. {environment', migrated', reading', tree', treeKey', web'} \subseteq Version \cup {None}
  BY DEF WaitForWeb, SessionInv, DevelopmentTypes, Source, outputs, servers
<1>4. /\ EnvironmentCurrent' /\ DatabaseCurrent' /\ TreeCurrent' /\ WebCurrent'
      /\ BinaryCurrent' /\ ApiCurrent' /\ WritesWhenDue' /\ TreeIsThere'
  BY <1>1, <1>2, CurrentStays DEF WaitForWeb, outputs, servers, Servers
<1>5. Current' /\ TreeIsThere'
  BY <1>4 DEF Current
<1> QED
  BY <1>1, <1>2, <1>3, <1>5, StepKeeps

\* The API is started from the binary.
LEMMA RestartApiKeeps == SessionInv /\ RestartApi => SessionInv'
<1> SUFFICES ASSUME SessionInv, RestartApi PROVE SessionInv'
  OBVIOUS
<1>1. todo # <<>> /\ Head(todo).does = "restart_api" /\ Done /\ UNCHANGED <<watcher, missed>>
  BY DEF RestartApi, At
<1>2. Passes({"restart_api"}) /\ Goes(Tail(todo))
  BY <1>1, PassesOne DEF Done
<1>3. {environment', migrated', reading', tree', treeKey', web'} \subseteq Version \cup {None}
  BY DEF RestartApi, SessionInv, DevelopmentTypes, Source, outputs, servers
<1>4. ApiCurrent'
  BY DEF RestartApi, ApiCurrent, outputs
<1>5. /\ EnvironmentCurrent' /\ DatabaseCurrent' /\ TreeCurrent' /\ WebCurrent'
      /\ BinaryCurrent' /\ WritesWhenDue' /\ TreeIsThere'
  BY <1>1, <1>2, CurrentStays DEF RestartApi, outputs, servers, Servers
<1>6. Current' /\ TreeIsThere'
  BY <1>4, <1>5 DEF Current
<1> QED
  BY <1>1, <1>2, <1>3, <1>6, StepKeeps

\* Both servers are started from what there is.
LEMMA SpawnKeeps == SessionInv /\ Spawn => SessionInv'
<1> SUFFICES ASSUME SessionInv, Spawn PROVE SessionInv'
  OBVIOUS
<1> DEFINE d == Head(todo).does
<1>1. todo # <<>> /\ d \in {"spawn", "restart"} /\ Done /\ UNCHANGED <<watcher, missed>>
  BY DEF Spawn, At
<1>2. Passes({d}) /\ Goes(Tail(todo))
  BY <1>1, PassesOne DEF Done
<1>3. {environment', migrated', reading', tree', treeKey', web'} \subseteq Version \cup {None}
  BY DEF Spawn, SessionInv, DevelopmentTypes, outputs
<1> HIDE DEF d
<1>4. WebCurrent' /\ ApiCurrent'
  BY DEF Spawn, WebCurrent, ApiCurrent, outputs
<1>5. /\ EnvironmentCurrent' /\ DatabaseCurrent' /\ TreeCurrent' /\ BinaryCurrent' /\ WritesWhenDue'
      /\ TreeIsThere'
  BY <1>1, <1>2, CurrentStays DEF Spawn, outputs
<1>6. Current' /\ TreeIsThere'
  BY <1>4, <1>5 DEF Current
<1> QED
  BY <1>1, <1>2, <1>3, <1>6, StepKeeps

\* The generator is started, or the tree is the one of the sources as they are.
LEMMA PlanKeeps == SessionInv /\ Plan => SessionInv'
<1> SUFFICES ASSUME SessionInv, Plan PROVE SessionInv'
  OBVIOUS
<1>1. todo # <<>> /\ Head(todo).does = "plan" /\ UNCHANGED <<watcher, missed>>
  BY DEF Plan, At
<1>2. {environment', migrated', reading', tree', treeKey', web'} \subseteq Version \cup {None}
  BY DEF Plan, SessionInv, DevelopmentTypes, Source, servers
<1>3. CASE TreeIsCached
  <2> DEFINE gone == {"plan", "write"}
  <2>1. Goes(Tail(Tail(todo)))
    BY <1>3 DEF Plan
  <2>2. Passes(gone)
    BY <1>1, <2>1, PassesTwo
  <2>3. treeKey' = src'["spec"]
    BY <1>3, <2>1 DEF Plan, TreeIsCached, Goes, project
  <2>4. TreeCurrent'
    BY <2>3 DEF TreeCurrent
  <2>5. /\ gone # {"plan"} /\ gone \cap {"spawn", "restart"} = {} /\ gone \cap Servers = {}
        /\ "load" \notin gone /\ "migrate" \notin gone /\ "record" \notin gone
        /\ "watch" \notin gone
    BY DEF Servers
  <2>6. UNCHANGED <<environment, migrated, tree, treeKey, web, api, binary, binaryKey>>
    BY DEF Plan, servers
  <2> HIDE DEF gone
  <2>7. /\ EnvironmentCurrent' /\ DatabaseCurrent' /\ WebCurrent' /\ BinaryCurrent' /\ ApiCurrent'
        /\ WritesWhenDue' /\ TreeIsThere'
    BY <1>1, <2>1, <2>2, <2>5, <2>6, CurrentStays
  <2>8. Current'
    BY <2>4, <2>7 DEF Current
  <2> QED
    BY <1>1, <1>2, <2>1, <2>2, <2>5, <2>7, <2>8, StepKeeps
<1>4. CASE ~TreeIsCached
  <2>1. Done /\ reading' = src["spec"]
    BY <1>4 DEF Plan
  <2>2. Passes({"plan"}) /\ Goes(Tail(todo))
    BY <1>1, <2>1, PassesOne DEF Done
  <2>3. UNCHANGED <<environment, migrated, tree, treeKey, web, api, binary, binaryKey>>
    BY DEF Plan, servers
  <2>4. /\ EnvironmentCurrent' /\ DatabaseCurrent' /\ TreeCurrent' /\ WebCurrent' /\ BinaryCurrent'
        /\ ApiCurrent'
    BY <1>1, <2>2, <2>3, CurrentStays DEF Servers
  <2>5. reading' # None
    BY <2>1, DevelopmentAssumption DEF SessionInv, DevelopmentTypes, Source
  <2>6. TreeIsThere'
    BY <2>3, <2>5 DEF TreeIsThere, SessionInv
  <2>7. WritesWhenDue'
    <3> SUFFICES ASSUME ~Full' PROVE RebuildDue'
      BY DEF WritesWhenDue
    <3>1. ~Full
      BY <2>2 DEF Passes, Full, Ordered, Leads, Continues, Follow, Left
    <3>2. treeKey # src["spec"]
      BY <1>4, DevelopmentAssumption DEF TreeIsCached, SessionInv, TreeIsThere, DevelopmentTypes,
                      Source
    <3>3. RebuildDue
      BY <2>2, <3>1, <3>2 DEF SessionInv, Passes, Current, TreeCurrent
    <3> QED
      BY <1>1, <2>2, <3>3, DueStays
  <2>8. Current'
    BY <2>4, <2>7 DEF Current
  <2> QED
    BY <1>1, <1>2, <2>2, <2>6, <2>8, StepKeeps
<1> QED
  BY <1>3, <1>4

\* The binary is compiled, or is the one of the tree, the backend and the
\* environment as they are.
LEMMA BuildKeeps == SessionInv /\ Build => SessionInv'
<1> SUFFICES ASSUME SessionInv, Build PROVE SessionInv'
  OBVIOUS
<1>1. todo # <<>> /\ Head(todo).does = "build" /\ UNCHANGED <<watcher, missed>>
  BY DEF Build, At
<1>2. {environment', migrated', reading', tree', treeKey', web'} \subseteq Version \cup {None}
  BY DEF Build, SessionInv, DevelopmentTypes, servers
<1>3. CASE BinaryIsCached
  <2> DEFINE gone == {"build", "record"}
  <2>1. Goes(Tail(Tail(todo)))
    BY <1>3 DEF Build
  <2>2. Passes(gone)
    BY <1>1, <2>1, PassesTwo
  <2>3. UNCHANGED <<environment, migrated, reading, tree, treeKey, web, api, binary, binaryKey>>
    BY <1>3 DEF Build, servers
  <2>4. binaryKey' = BackendKey'
    BY <1>3, <2>1, <2>3 DEF BinaryIsCached, BackendKey, Goes, project
  <2>5. BinaryCurrent'
    BY <2>4 DEF BinaryCurrent
  <2>6. /\ gone # {"plan"} /\ gone \cap {"spawn", "restart"} = {} /\ gone \cap Servers = {}
        /\ "load" \notin gone /\ "migrate" \notin gone /\ "write" \notin gone
        /\ "watch" \notin gone
    BY DEF Servers
  <2> HIDE DEF gone
  <2>7. /\ EnvironmentCurrent' /\ DatabaseCurrent' /\ TreeCurrent' /\ WebCurrent' /\ ApiCurrent'
        /\ WritesWhenDue' /\ TreeIsThere'
    BY <1>1, <2>1, <2>2, <2>3, <2>6, CurrentStays
  <2>8. Current'
    BY <2>5, <2>7 DEF Current
  <2> QED
    BY <1>1, <1>2, <2>1, <2>2, <2>6, <2>7, <2>8, StepKeeps
<1>4. CASE ~BinaryIsCached
  <2>1. Done
    BY <1>4 DEF Build
  <2>2. Passes({"build"}) /\ Goes(Tail(todo))
    BY <1>1, <2>1, PassesOne DEF Done
  <2>3. UNCHANGED <<environment, migrated, reading, tree, treeKey, web, api, binaryKey>>
    BY DEF Build, servers
  <2>4. /\ EnvironmentCurrent' /\ DatabaseCurrent' /\ TreeCurrent' /\ WebCurrent' /\ BinaryCurrent'
        /\ WritesWhenDue' /\ TreeIsThere'
    BY <1>1, <2>2, <2>3, CurrentStays
  <2>5. ApiCurrent'
    BY <1>1, <2>2 DEF Passes, Ordered, Leads, Continues, Follow, Left, ApiCurrent, Servers
  <2>6. Current'
    BY <2>4, <2>5 DEF Current
  <2> QED
    BY <1>1, <1>2, <2>2, <2>4, <2>6, StepKeeps
<1> QED
  BY <1>3, <1>4

-----------------------------------------------------------------------------
(* The developer and the loop *)

\* What is current depends on nothing else.
inputs == <<src, mode, todo, watch, unread, noticed, environment, migrated, tree, treeKey, binary,
            binaryKey, api, web, failed, missed, reading>>

LEMMA CurrentUnchanged ==
  ASSUME UNCHANGED inputs
  PROVE  (Current' <=> Current) /\ (TreeIsThere' <=> TreeIsThere) /\ (UnderWay' <=> UnderWay)
<1>1. Left' = Left /\ (UnderWay' <=> UnderWay) /\ (TreeIsThere' <=> TreeIsThere)
  BY DEF inputs, Left, UnderWay, TreeIsThere
<1>2. (RebuildDue' <=> RebuildDue) /\ (BackendDue' <=> BackendDue) /\ (Full' <=> Full)
  BY <1>1 DEF inputs, RebuildDue, BackendDue, Stale, Full
<1>3. BackendKey' = BackendKey
  BY DEF inputs, BackendKey
<1> QED
  BY <1>1, <1>2, <1>3
     DEF inputs, Current, EnvironmentCurrent, DatabaseCurrent, TreeCurrent, WebCurrent,
         BinaryCurrent, ApiCurrent, WritesWhenDue

\* An edit is noticed, or counted as missed.
LEMMA EditKeeps == \A s \in Source, v \in Version : SessionInv /\ Edit(s, v) => SessionInv'
<1> SUFFICES ASSUME NEW s \in Source, NEW v \in Version, SessionInv, Edit(s, v) PROVE SessionInv'
  OBVIOUS
<1>1. /\ edits < MaxEdits /\ edits' = edits + 1
      /\ src' = [src EXCEPT ![s] = v] /\ v # src[s]
      /\ unread' = IF watch = Native THEN unread \cup {s} ELSE unread
      /\ missed' = IF Unreported(s, v) THEN missed \cup {s} ELSE missed
      /\ UNCHANGED <<mode, todo, watch, noticed, environment, migrated, reading, tree, treeKey,
                     binary, binaryKey, api, web, stopping, failed, sessions, trouble>>
  BY DEF Edit, outputs, servers
<1>2. DevelopmentTypes'
  BY <1>1, DevelopmentAssumption DEF SessionInv, DevelopmentTypes
<1>3. UnderWay' /\ TreeIsThere' /\ Left' = Left /\ (Full' <=> Full)
  BY <1>1 DEF SessionInv, UnderWay, TreeIsThere, Left, Full
<1>4. src \in [Source -> Version] /\ src'[s] = v /\ \A t \in Source \ {s} : src'[t] = src[t]
  BY <1>1 DEF SessionInv, DevelopmentTypes
<1>5. mode # "off" => Current'
  <2> SUFFICES ASSUME mode # "off" PROVE Current'
    OBVIOUS
  <2>1. \A t \in Source \ {s} : Stale(t) => Stale(t)'
    BY <1>1, <1>4 DEF Stale
  <2>2. Stale(s)'
    <3>1. CASE watch = Native
      BY <1>1, <3>1 DEF Stale
    <3>2. CASE watch = None
      <4>1. mode = "start"
        BY <1>3, <3>2 DEF SessionInv, DevelopmentTypes
      <4> QED
        BY <1>1, <3>2, <4>1 DEF Stale, Unreported
    <3>3. CASE watch \in [Source -> Version]
      <4>1. watch \notin {None, Native}
        BY <3>3, DevelopmentAssumption
      <4>2. CASE v = watch[s]
        BY <1>1, <4>1, <4>2 DEF Stale, Unreported
      <4>3. CASE v # watch[s]
        BY <1>1, <1>4, <3>3, <4>3 DEF Stale
      <4> QED
        BY <4>2, <4>3
    <3> QED
      BY <3>1, <3>2, <3>3 DEF SessionInv, DevelopmentTypes
  <2>3. (RebuildDue => RebuildDue') /\ (s \in {"spec", "environment"} => RebuildDue')
    BY <1>1, <1>3, <2>1, <2>2 DEF RebuildDue, Source
  <2>4. (BackendDue => BackendDue') /\ (s # "web" => BackendDue')
    BY <1>1, <1>3, <2>1, <2>2, <2>3 DEF BackendDue, Source
  <2>5. Current
    BY DEF SessionInv
  <2>6. EnvironmentCurrent' /\ DatabaseCurrent' /\ TreeCurrent'
    BY <1>1, <1>3, <1>4, <2>3, <2>5
       DEF Current, EnvironmentCurrent, DatabaseCurrent, TreeCurrent, Source
  <2>7. WebCurrent' /\ WritesWhenDue'
    BY <1>1, <1>3, <2>3, <2>5 DEF Current, WebCurrent, WritesWhenDue
  <2>8. s = "web" => BackendKey' = BackendKey
    BY <1>1, <1>4 DEF BackendKey, Source
  <2>9. BinaryCurrent' /\ ApiCurrent'
    BY <1>1, <1>3, <2>4, <2>5, <2>8 DEF Current, BinaryCurrent, ApiCurrent
  <2> QED
    BY <2>6, <2>7, <2>9 DEF Current
<1> QED
  BY <1>1, <1>2, <1>3, <1>5 DEF SessionInv

\* A start goes through everything.
LEMMA StartKeeps == SessionInv /\ StartSession => SessionInv'
<1> SUFFICES ASSUME SessionInv, StartSession PROVE SessionInv'
  OBVIOUS
<1>1. /\ todo' = Startup /\ mode' = "start" /\ todo' \in Seq(Steps)
      /\ UNCHANGED <<tree, treeKey>>
  BY StartupFlow DEF StartSession, outputs
<1>2. DevelopmentTypes'
  BY <1>1, DevelopmentAssumption DEF SessionInv, StartSession, DevelopmentTypes, Steps, project,
                  outputs, servers
<1>3. {"load", "migrate", "write", "record", "spawn"} \subseteq Left' /\ Head(todo').does = "load"
  BY <1>1, NamesOfFlows DEF Left
<1>4. UnderWay' /\ TreeIsThere'
  BY <1>1, <1>3, WholeFlow DEF SessionInv, UnderWay, TreeIsThere
<1>5. Current'
  BY <1>1, <1>3 DEF Current, EnvironmentCurrent, DatabaseCurrent, TreeCurrent, WebCurrent,
       BinaryCurrent, ApiCurrent, WritesWhenDue, Full, Servers
<1> QED
  BY <1>1, <1>2, <1>4, <1>5 DEF SessionInv

LEMMA InterruptKeeps == SessionInv /\ Interrupt => SessionInv'
<1> SUFFICES ASSUME SessionInv, Interrupt PROVE SessionInv'
  OBVIOUS
<1>1. UNCHANGED inputs
  BY DEF Interrupt, inputs, project, watcher, outputs, servers, history
<1>2. DevelopmentTypes'
  BY DEF Interrupt, SessionInv, DevelopmentTypes, project, watcher, outputs, servers, history
<1> QED
  BY <1>1, <1>2, CurrentUnchanged DEF SessionInv, inputs

\* The thread that waits has no steps left.
LEMMA Waiting ==
  ASSUME SessionInv, mode = "wait"
  PROVE  todo = <<>> /\ Left = {} /\ Current /\ ~Full /\ watch # None
<1>1. todo = <<>>
  BY DEF SessionInv, UnderWay
<1>2. Left = {}
  BY <1>1 DEF Left, Names
<1> QED
  BY <1>1, <1>2 DEF SessionInv, Full

LEMMA ReceiveKeeps == SessionInv /\ Receive => SessionInv'
<1> SUFFICES ASSUME SessionInv, Receive PROVE SessionInv'
  OBVIOUS
<1>1. /\ mode = "wait" /\ noticed' = noticed \cup unread /\ unread' = {}
      /\ UNCHANGED <<src, edits, mode, todo, watch, environment, migrated, reading, tree, treeKey,
                     binary, binaryKey, api, web, failed, missed, sessions, trouble>>
  BY DEF Receive, Merged, project, outputs, servers, history
<1>2. DevelopmentTypes'
  BY <1>1 DEF SessionInv, DevelopmentTypes
<1>3. Left' = Left /\ (Full' <=> Full) /\ UnderWay' /\ TreeIsThere' /\ BackendKey' = BackendKey
  BY <1>1 DEF SessionInv, Left, Full, UnderWay, TreeIsThere, BackendKey
<1>4. \A s : Stale(s)' <=> Stale(s)
  BY <1>1 DEF Stale
<1>5. (RebuildDue' <=> RebuildDue) /\ (BackendDue' <=> BackendDue)
  BY <1>1, <1>3, <1>4 DEF RebuildDue, BackendDue
<1>6. Current'
  BY <1>1, <1>3, <1>5 DEF SessionInv, Current, EnvironmentCurrent, DatabaseCurrent, TreeCurrent,
       WebCurrent, BinaryCurrent, ApiCurrent, WritesWhenDue
<1> QED
  BY <1>1, <1>2, <1>3, <1>6 DEF SessionInv

\* The reload that changes ask for sees to all of them.
LEMMA ReloadKeeps ==
  ASSUME SessionInv, mode = "wait", NEW changes \in SUBSET Source, changes # {}, Reload(changes),
         \A s \in Source : Stale(s) => Stale(s)' \/ s \in changes,
         UNCHANGED <<project, outputs, servers, history>>
  PROVE  /\ UnderWay' /\ TreeIsThere' /\ Current' /\ mode' = "reload"
         /\ todo' \in Seq([does : Does, checked : BOOLEAN])
<1>1. todo = <<>> /\ Left = {} /\ Current /\ ~Full
  BY Waiting
<1>2. /\ UNCHANGED <<src, environment, migrated, reading, tree, treeKey, binary, binaryKey, api,
                     web, failed, missed>>
      /\ BackendKey' = BackendKey
  BY DEF project, outputs, servers, history, BackendKey
<1>3. /\ mode' = "reload" /\ todo' \in {Specification, Backend, Web}
      /\ todo' = Specification \/ changes \cap {"spec", "environment"} = {}
      /\ todo' \in {Specification, Backend} \/ "backend" \notin changes
  BY DEF Reload
<1>4. UnderWay'
  BY <1>3, WholeFlow DEF UnderWay
<1>5. Head(todo').does = "refresh"
  BY <1>3, NamesOfFlows
<1>6. TreeIsThere' /\ WritesWhenDue'
  BY <1>2, <1>5 DEF SessionInv, TreeIsThere, WritesWhenDue
<1>7. CASE todo' = Specification
  <2>1. {"load", "migrate", "write", "record", "restart"} \subseteq Left'
    BY <1>7, NamesOfFlows DEF Left
  <2>2. /\ EnvironmentCurrent' /\ DatabaseCurrent' /\ TreeCurrent' /\ WebCurrent'
        /\ BinaryCurrent' /\ ApiCurrent'
    BY <2>1 DEF EnvironmentCurrent, DatabaseCurrent, TreeCurrent, WebCurrent, BinaryCurrent,
                ApiCurrent, Full, Servers
  <2> QED
    BY <1>3, <1>4, <1>6, <1>7, <2>2, SpecificationFlow DEF Current, Steps
<1>8. CASE todo' \in {Backend, Web}
  <2>1. "restart" \notin Left' /\ changes \cap {"spec", "environment"} = {}
    <3>1. "restart" \notin Left'
      BY <1>8, NamesOfFlows DEF Left
    <3>2. todo' # Specification
      BY <3>1, NamesOfFlows DEF Left
    <3> QED
      BY <3>1, <3>2, <1>3
  <2>2. RebuildDue => RebuildDue'
    BY <1>1, <1>2, <2>1 DEF RebuildDue, Source
  <2>3. EnvironmentCurrent' /\ DatabaseCurrent' /\ TreeCurrent' /\ WebCurrent'
    BY <1>1, <1>2, <2>2 DEF Current, EnvironmentCurrent, DatabaseCurrent, TreeCurrent, WebCurrent
  <2>4. CASE todo' = Backend
    <3>1. {"record", "restart_api"} \subseteq Left'
      BY <2>4, NamesOfFlows DEF Left
    <3>2. BinaryCurrent' /\ ApiCurrent'
      BY <3>1 DEF BinaryCurrent, ApiCurrent, Servers
    <3> QED
      BY <1>3, <1>4, <1>6, <2>3, <2>4, <3>2, BackendFlow DEF Current, Steps
  <2>5. CASE todo' = Web
    <3>1. "restart" \notin Left' /\ "restart_api" \notin Left'
      BY <2>5, NamesOfFlows DEF Left
    <3>2. "backend" \notin changes
      <4>1. todo' # Backend
        BY <3>1, NamesOfFlows DEF Left
      <4>2. todo' # Specification
        BY <3>1, NamesOfFlows DEF Left
      <4> QED
        BY <4>1, <4>2, <1>3
    <3>3. BackendDue => BackendDue'
      BY <1>1, <1>2, <2>2, <3>1, <3>2 DEF BackendDue, Source
    <3>4. BinaryCurrent' /\ ApiCurrent'
      BY <1>1, <1>2, <3>3 DEF Current, BinaryCurrent, ApiCurrent
    <3> QED
      BY <1>3, <1>4, <1>6, <2>3, <2>5, <3>4, WebFlow DEF Current, Steps
  <2> QED
    BY <1>8, <2>4, <2>5
<1> QED
  BY <1>3, <1>7, <1>8

LEMMA DebouncedKeeps == SessionInv /\ Debounced => SessionInv'
<1> SUFFICES ASSUME SessionInv, Debounced PROVE SessionInv'
  OBVIOUS
<1>1. /\ mode = "wait" /\ noticed # {} /\ noticed \in SUBSET Source
      /\ Reload(noticed) /\ noticed' = {}
      /\ UNCHANGED <<project, watch, unread, outputs, servers, stopping, history, sessions,
                     trouble>>
  BY DEF Debounced, SessionInv, DevelopmentTypes
<1>2. \A s \in Source : Stale(s) => Stale(s)' \/ s \in noticed
  BY <1>1 DEF Stale, project, history
<1>3. /\ UnderWay' /\ TreeIsThere' /\ Current' /\ mode' = "reload"
      /\ todo' \in Seq([does : Does, checked : BOOLEAN])
  BY <1>1, <1>2, ReloadKeeps
<1>4. DevelopmentTypes'
  BY <1>1, <1>3 DEF SessionInv, DevelopmentTypes, project, outputs, servers, history
<1> QED
  BY <1>1, <1>3, <1>4 DEF SessionInv

LEMMA PollKeeps == SessionInv /\ Poll => SessionInv'
<1> SUFFICES ASSUME SessionInv, Poll PROVE SessionInv'
  OBVIOUS
<1> DEFINE changes == {s \in Source : watch[s] # src[s]}
<1>1. /\ mode = "wait" /\ watch \in [Source -> Version] /\ watch # src
      /\ Reload(changes) /\ watch' = src
      /\ UNCHANGED <<project, unread, noticed, outputs, servers, stopping, history, sessions,
                     trouble>>
  BY DEF Poll, ComparedNext
<1>2. changes \in SUBSET Source /\ changes # {}
  BY <1>1 DEF SessionInv, DevelopmentTypes
<1>3. \A s \in Source : Stale(s) => Stale(s)' \/ s \in changes
  <2> SUFFICES ASSUME NEW s \in Source, Stale(s) PROVE Stale(s)' \/ s \in changes
    OBVIOUS
  <2>1. s \in unread \cup noticed \cup missed => Stale(s)'
    BY <1>1 DEF Stale, history
  <2>2. watch[s] # src[s] => s \in changes
    OBVIOUS
  <2> QED
    BY <2>1, <2>2 DEF Stale
<1> HIDE DEF changes
<1>4. /\ UnderWay' /\ TreeIsThere' /\ Current' /\ mode' = "reload"
      /\ todo' \in Seq([does : Does, checked : BOOLEAN])
  BY <1>1, <1>2, <1>3, ReloadKeeps
<1>5. watch' \in [Source -> Version]
  BY <1>1 DEF SessionInv, DevelopmentTypes
<1>6. DevelopmentTypes'
  BY <1>1, <1>4, <1>5 DEF SessionInv, DevelopmentTypes, project, outputs, servers, history
<1>7. watch' # None
  BY <1>5, DevelopmentAssumption
<1> QED
  BY <1>4, <1>6, <1>7 DEF SessionInv

\* What the watcher lost is missed, and a poll goes on from what there is now.
LEMMA WatcherFailsKeeps == SessionInv /\ WatcherFails => SessionInv'
<1> SUFFICES ASSUME SessionInv, WatcherFails PROVE SessionInv'
  OBVIOUS
<1>1. /\ mode = "wait" /\ watch = Native /\ watch' = src /\ unread' = {} /\ noticed' = {}
      /\ missed' = missed \cup unread \cup noticed /\ trouble' = trouble + 1
      /\ trouble < MaxFailures
      /\ UNCHANGED <<src, edits, mode, todo, environment, migrated, reading, tree, treeKey, binary,
                     binaryKey, api, web, stopping, failed, sessions>>
  BY DEF WatcherFails, project, outputs, servers
<1>2. src \in [Source -> Version] /\ watch # None /\ src # None /\ watch \notin [Source -> Version]
  BY <1>1, DevelopmentAssumption DEF SessionInv, DevelopmentTypes
<1>3. DevelopmentTypes'
  BY <1>1, <1>2, DevelopmentAssumption DEF SessionInv, DevelopmentTypes
<1>4. Left' = Left /\ (Full' <=> Full) /\ UnderWay' /\ TreeIsThere' /\ BackendKey' = BackendKey
  BY <1>1 DEF SessionInv, Left, Full, UnderWay, TreeIsThere, BackendKey
<1>5. \A s : Stale(s) => Stale(s)'
  BY <1>1, <1>2 DEF Stale
<1>6. (RebuildDue => RebuildDue') /\ (BackendDue => BackendDue')
  BY <1>1, <1>4, <1>5 DEF RebuildDue, BackendDue
<1>7. Current'
  BY <1>1, <1>4, <1>6 DEF SessionInv, Current, EnvironmentCurrent, DatabaseCurrent, TreeCurrent,
       WebCurrent, BinaryCurrent, ApiCurrent, WritesWhenDue
<1> QED
  BY <1>1, <1>2, <1>3, <1>4, <1>7 DEF SessionInv

\* Without a session nothing is claimed.
LEMMA EndKeeps ==
  ASSUME SessionInv, Ends, trouble' \in 0 .. MaxFailures, failed' = failed,
         UNCHANGED <<project, watcher, environment, migrated, tree, treeKey, missed, sessions>>
  PROVE  SessionInv'
<1>1. mode' = "off" /\ todo' = <<>> /\ web' = None /\ reading' = None
  BY DEF Ends
<1>2. DevelopmentTypes'
  BY <1>1 DEF SessionInv, DevelopmentTypes, project, watcher
<1>3. UnderWay' /\ TreeIsThere'
  BY <1>1 DEF SessionInv, UnderWay, TreeIsThere
<1> QED
  BY <1>1, <1>2, <1>3 DEF SessionInv

LEMMA EndsKeep == SessionInv /\ (LoopEnds \/ PollFails \/ WebGone) => SessionInv'
<1>1. ASSUME SessionInv, LoopEnds \/ WebGone PROVE SessionInv'
  <2>1. /\ Ends /\ failed' = failed /\ trouble' \in 0 .. MaxFailures
        /\ UNCHANGED <<project, watcher, environment, migrated, tree, treeKey, missed, sessions>>
    BY <1>1 DEF LoopEnds, WebGone, history, SessionInv, DevelopmentTypes
  <2> QED
    BY <1>1, <2>1, EndKeeps
<1>2. ASSUME SessionInv, PollFails PROVE SessionInv'
  <2>1. /\ Ends /\ failed' = failed /\ trouble' \in 0 .. MaxFailures
        /\ UNCHANGED <<project, watcher, environment, migrated, tree, treeKey, missed, sessions>>
    BY <1>2, DevelopmentAssumption DEF PollFails, history, SessionInv, DevelopmentTypes
  <2> QED
    BY <1>2, <2>1, EndKeeps
<1> QED
  BY <1>1, <1>2

\* A server that is gone serves nothing.
LEMMA ServerExitsKeeps == SessionInv /\ ServerExits => SessionInv'
<1> SUFFICES ASSUME SessionInv, ServerExits PROVE SessionInv'
  OBVIOUS
<1>1. /\ trouble < MaxFailures /\ trouble' = trouble + 1
      /\ api' \in {api, None} /\ web' \in {web, None}
      /\ UNCHANGED <<src, edits, mode, todo, watch, unread, noticed, environment, migrated, reading,
                     tree, treeKey, binary, binaryKey, failed, missed, sessions>>
  BY DEF ServerExits, project, watcher, outputs, history
<1>2. DevelopmentTypes'
  BY <1>1, DevelopmentAssumption DEF SessionInv, DevelopmentTypes
<1>3. Left' = Left /\ (Full' <=> Full) /\ UnderWay' /\ TreeIsThere' /\ BackendKey' = BackendKey
  BY <1>1 DEF SessionInv, Left, Full, UnderWay, TreeIsThere, BackendKey
<1>4. (RebuildDue' <=> RebuildDue) /\ (BackendDue' <=> BackendDue)
  BY <1>1, <1>3 DEF RebuildDue, BackendDue, Stale
<1>5. Current => Current'
  BY <1>1, <1>3, <1>4 DEF Current, EnvironmentCurrent, DatabaseCurrent, TreeCurrent,
       WebCurrent, BinaryCurrent, ApiCurrent, WritesWhenDue
<1> QED
  BY <1>1, <1>2, <1>3, <1>5 DEF SessionInv

\* What reload is under way is what its last step says.
LEMMA ReloadKinds ==
  ASSUME "restart" \in Left => "restart_api" \notin Left
  PROVE  ReloadKind = CASE "restart" \in Left -> "specification"
                        [] "restart_api" \in Left -> "backend"
                        [] OTHER -> "web"
<1>1. "restart" \in Left <=> \E i \in DOMAIN todo : todo[i].does = "restart"
  BY DEF Left, Names
<1>2. "restart_api" \in Left <=> \E i \in DOMAIN todo : todo[i].does = "restart_api"
  BY DEF Left, Names
<1> QED
  BY <1>1, <1>2 DEF ReloadKind

\* A rebuild that failed stays due.
LEMMA FailsKeeps ==
  ASSUME SessionInv, todo # <<>>, Fails, trouble' \in 0 .. MaxFailures,
         UNCHANGED <<project, watcher, environment, migrated, tree, treeKey, binary, binaryKey,
                     missed, sessions>>
  PROVE  SessionInv'
<1>1. CASE mode = "start" \/ At("refresh")
  BY <1>1, EndKeeps DEF Fails
<1>2. CASE ~(mode = "start" \/ At("refresh"))
  <2>1. /\ mode' = "wait" /\ todo' = <<>> /\ reading' = None /\ failed' = failed \cup {ReloadKind}
        /\ api' \in {api, None} /\ web' \in {web, None}
        /\ UNCHANGED <<src, watch, unread, noticed>>
    BY <1>2 DEF Fails, project, watcher
  <2>2. Ordered(todo, mode = "start") /\ mode = "reload"
    BY <1>2, Advances DEF SessionInv
  <2>3. (mode = "start") = FALSE
    BY <1>2
  <2>4. "restart" \in Left \/ "restart_api" \in Left
    <3> SUFFICES ASSUME "restart" \notin Left, "restart_api" \notin Left PROVE FALSE
      OBVIOUS
    <3>1. Head(todo).does = "refresh" /\ Head(todo).checked = FALSE
      BY <2>2, <2>3 DEF Ordered, Leads, Continues, Follow, Left
    <3> QED
      BY <1>2, <3>1 DEF At
  <2>5. "restart" \in Left => "restart_api" \notin Left
    BY <2>2 DEF Ordered, Leads, Continues, Follow, Left
  <2>6. /\ "restart" \in Left => ReloadKind = "specification"
        /\ "restart" \notin Left => ReloadKind = "backend"
    BY <2>4, <2>5, ReloadKinds
  <2>7. DevelopmentTypes'
    BY <2>1, <2>6 DEF SessionInv, DevelopmentTypes, project, watcher
  <2>8. UnderWay' /\ TreeIsThere'
    BY <2>1 DEF SessionInv, UnderWay, TreeIsThere
  <2>9. Left' = {} /\ ~Full' /\ WritesWhenDue'
    BY <2>1 DEF Left, Names, Full, WritesWhenDue
  <2>10. \A s : Stale(s) => Stale(s)'
    BY <2>1 DEF Stale
  <2>11. (RebuildDue => RebuildDue') /\ (BackendDue => BackendDue')
    BY <2>1, <2>9, <2>10 DEF RebuildDue, BackendDue
  <2>12. CASE "restart" \in Left
    <3>1. RebuildDue' /\ BackendDue'
      BY <2>1, <2>9, <2>12, <2>6 DEF RebuildDue, BackendDue
    <3> QED
      BY <2>1, <2>2, <2>7, <2>8, <2>9, <3>1
         DEF SessionInv, Current, EnvironmentCurrent, DatabaseCurrent, TreeCurrent, WebCurrent,
             BinaryCurrent, ApiCurrent
  <2>13. CASE "restart" \notin Left
    <3>1. "load" \notin Left /\ "migrate" \notin Left /\ "spawn" \notin Left /\ ~Full
      BY <2>2, <2>3, <2>13 DEF Ordered, Leads, Continues, Follow, Left, Full
    <3>2. BackendDue'
      BY <2>1, <2>9, <2>13, <2>6 DEF BackendDue
    <3>3. Current
      BY <2>2 DEF SessionInv
    <3>4. UNCHANGED <<src, environment, migrated, tree, treeKey>>
      BY DEF project
    <3>5. EnvironmentCurrent' /\ DatabaseCurrent' /\ TreeCurrent' /\ WebCurrent'
      BY <2>1, <2>11, <2>13, <3>1, <3>3, <3>4
         DEF Current, EnvironmentCurrent, DatabaseCurrent, TreeCurrent, WebCurrent
    <3>6. Current'
      BY <2>9, <3>2, <3>5 DEF Current, BinaryCurrent, ApiCurrent
    <3> QED
      BY <2>1, <2>2, <2>7, <2>8, <3>6 DEF SessionInv
  <2> QED
    BY <2>12, <2>13
<1> QED
  BY <1>1, <1>2

LEMMA FailuresKeep == SessionInv /\ (StepFails \/ Interrupted) => SessionInv'
<1>1. ASSUME SessionInv, StepFails PROVE SessionInv'
  <2>1. trouble' \in 0 .. MaxFailures
    BY <1>1, DevelopmentAssumption DEF StepFails, SessionInv, DevelopmentTypes
  <2> QED
    BY <1>1, <2>1, FailsKeeps DEF StepFails
<1>2. ASSUME SessionInv, Interrupted PROVE SessionInv'
  <2>1. trouble' \in 0 .. MaxFailures
    BY <1>2 DEF Interrupted, SessionInv, DevelopmentTypes
  <2> QED
    BY <1>2, <2>1, FailsKeeps DEF Interrupted
<1> QED
  BY <1>1, <1>2

\* A new watcher, or none: what the one before had received is missed, unless
\* the reload reads it anyway.
LEMMA WatchKeeps == SessionInv /\ Watch => SessionInv'
<1> SUFFICES ASSUME SessionInv, Watch PROVE SessionInv'
  OBVIOUS
<1> DEFINE d == Head(todo).does
<1>1. /\ todo # <<>> /\ d \in {"watch", "refresh"} /\ Done
      /\ IF watch \in {None, Native} THEN watch' \in {Native, src} ELSE watch' = watch
      /\ unread' = {} /\ missed' = (missed \cup unread) \ Reads
      /\ UNCHANGED <<noticed, environment, migrated, reading, tree, treeKey, binary, binaryKey,
                     api, web>>
  BY DEF Watch, Watches, At, outputs, servers
<1>2. Passes({d}) /\ Goes(Tail(todo))
  BY <1>1, PassesOne DEF Done
<1>3. /\ src' = src /\ src \in [Source -> Version] /\ watch' # None
      /\ watch' \in {Native} \cup [Source -> Version]
  BY <1>1, <1>2, DevelopmentAssumption DEF Goes, project, SessionInv, DevelopmentTypes
<1>4. /\ edits' \in 0 .. MaxEdits /\ mode' \in {"off", "start", "wait", "reload"}
      /\ todo' \in Seq([does : Does, checked : BOOLEAN])
      /\ failed' \subseteq {"specification", "backend"}
      /\ sessions' \in 0 .. MaxStarts /\ trouble' \in 0 .. MaxFailures
  BY <1>2, PassesKeepsPlace
<1> HIDE DEF d
<1>5. DevelopmentTypes'
  BY <1>1, <1>3, <1>4 DEF SessionInv, DevelopmentTypes
<1>6. \A s : Stale(s) => Stale(s)' \/ s \in Reads
  BY <1>1, <1>3, DevelopmentAssumption DEF Stale
<1>7. /\ Ordered(todo, mode = "start") /\ mode \in {"start", "reload"}
      /\ Left' = Left \ {d} /\ UnderWay'
  BY <1>2 DEF Passes
<1>8. "restart" \in Left => "restart_api" \notin Left
  BY <1>7 DEF Ordered, Leads, Continues, Follow, Left
<1>9. failed' = failed
  <2>1. ~At("restart") /\ ~At("restart_api")
    BY <1>1 DEF At, d
  <2> QED
    BY <1>2, <2>1 DEF Goes
<1>10. /\ d \in {"watch", "refresh"} /\ {d} # {"plan"} /\ {d} \cap {"spawn", "restart"} = {}
       /\ {d} \cap Servers = {} /\ "load" \notin {d} /\ "migrate" \notin {d} /\ "write" \notin {d}
       /\ "record" \notin {d}
  BY <1>1 DEF Servers
<1>11. TreeIsThere' /\ WritesWhenDue'
  <2>1. ~(todo' # <<>> /\ Head(todo').does = "write")
    BY <1>2, <1>10 DEF Passes
  <2> QED
    BY <1>1, <2>1 DEF SessionInv, TreeIsThere, WritesWhenDue
<1>12. CASE "restart" \in Left
  <2>1. mode # "start" /\ d = "refresh"
    BY <1>1, <1>7, <1>12 DEF Ordered, Leads, Continues, Follow, Left, d
  <2>2. {"load", "migrate", "write", "record", "restart"} \subseteq Left'
    BY <1>7, <1>12, <2>1 DEF Ordered, Leads, Continues, Follow, Left, d
  <2>3. Current'
    BY <1>11, <2>2 DEF Current, EnvironmentCurrent, DatabaseCurrent, TreeCurrent, WebCurrent,
                       BinaryCurrent, ApiCurrent, Full, Servers
  <2> QED
    BY <1>3, <1>5, <1>7, <1>11, <2>3 DEF SessionInv
<1>13. CASE "restart" \notin Left
  <2>1. Reads \subseteq {"backend"} /\ (Reads = {} \/ "restart_api" \in Left)
    <3>1. ReloadKind = IF "restart_api" \in Left THEN "backend" ELSE "web"
      BY <1>8, <1>13, ReloadKinds
    <3> QED
      BY <3>1 DEF Reads
  <2>2. RebuildDue => RebuildDue'
    BY <1>6, <1>7, <1>9, <1>13, <2>1 DEF RebuildDue
  <2>3. EnvironmentCurrent' /\ DatabaseCurrent' /\ TreeCurrent' /\ WebCurrent'
    BY <1>1, <1>2, <1>10, <2>2, CurrentMeanwhile
  <2>4. BinaryCurrent' /\ ApiCurrent'
    <3>1. CASE "restart_api" \in Left
      <4>1. mode # "start" /\ d = "refresh"
        BY <1>1, <1>7, <3>1 DEF Ordered, Leads, Continues, Follow, Left, d
      <4>2. {"record", "restart_api"} \subseteq Left'
        BY <1>7, <3>1, <4>1 DEF Ordered, Leads, Continues, Follow, Left, d
      <4> QED
        BY <4>2 DEF BinaryCurrent, ApiCurrent, Servers
    <3>2. CASE "restart_api" \notin Left
      <4>1. BackendDue => BackendDue'
        BY <1>6, <1>7, <1>9, <1>13, <2>1, <2>2, <3>2 DEF BackendDue
      <4> QED
        BY <1>1, <1>2, <1>10, <2>2, <4>1, CurrentMeanwhile
    <3> QED
      BY <3>1, <3>2
  <2>5. Current'
    BY <1>11, <2>3, <2>4 DEF Current
  <2> QED
    BY <1>3, <1>5, <1>7, <1>11, <2>5 DEF SessionInv
<1> QED
  BY <1>12, <1>13

-----------------------------------------------------------------------------
(* What a session serves *)

LEMMA SessionStep == SessionInv /\ [DevelopmentNext]_devVars => SessionInv'
<1> SUFFICES ASSUME SessionInv, [DevelopmentNext]_devVars PROVE SessionInv'
  OBVIOUS
<1>1. CASE UNCHANGED devVars
  <2>1. UNCHANGED inputs
    BY <1>1 DEF devVars, inputs, project, watcher, outputs, servers, history
  <2>2. DevelopmentTypes'
    BY <1>1 DEF devVars, SessionInv, DevelopmentTypes, project, watcher, outputs, servers, history
  <2> QED
    BY <2>1, <2>2, CurrentUnchanged DEF SessionInv, inputs
<1>2. CASE Moves
  BY <1>2, LoadKeeps, MigrateKeeps, PlanKeeps, WriteKeeps, BuildKeeps, RecordKeeps, InstallKeeps,
     SpawnKeeps, RestartApiKeeps, WaitForWebKeeps, WatchKeeps, ReceiveKeeps, DebouncedKeeps,
     PollKeeps, EndsKeep, FailuresKeep DEF Moves
<1>3. CASE StepFails \/ WatcherFails \/ PollFails \/ ServerExits
  BY <1>3, FailuresKeep, WatcherFailsKeeps, EndsKeep, ServerExitsKeeps
<1>4. CASE StartSession \/ Interrupt \/ \E s \in Source, v \in Version : Edit(s, v)
  BY <1>4, StartKeeps, InterruptKeeps, EditKeeps
<1> QED
  BY <1>1, <1>2, <1>3, <1>4 DEF DevelopmentNext

LEMMA SessionServes == SessionInv => ServedIsCurrent
<1> SUFFICES ASSUME SessionInv, Idle, failed = {}, missed = {}, KeysAreTrue, api # None, web # None
             PROVE  /\ api = <<src["spec"], src["backend"], src["environment"]>>
                    /\ web = src["spec"] /\ migrated = src["spec"]
  BY DEF ServedIsCurrent
<1>1. mode = "wait" /\ todo = <<>> /\ Left = {} /\ Current /\ ~Full
  BY Waiting DEF Idle
<1>2. \A s : ~Stale(s)
  BY DevelopmentAssumption DEF Idle, Stale, SessionInv, DevelopmentTypes
<1>3. ~RebuildDue /\ ~BackendDue
  BY <1>2 DEF RebuildDue, BackendDue
<1>4. /\ environment = src["environment"] /\ migrated = src["spec"] /\ treeKey = src["spec"]
      /\ web = tree /\ binaryKey = BackendKey /\ api = binary
  BY <1>1, <1>3 DEF Current, EnvironmentCurrent, DatabaseCurrent, TreeCurrent, WebCurrent,
                    BinaryCurrent, ApiCurrent, Servers
<1>5. treeKey = tree /\ binaryKey = binary
  BY <1>1, <1>4 DEF KeysAreTrue
<1> QED
  BY <1>4, <1>5 DEF BackendKey

\* In every session the thread is in one of the four flows, and whatever was
\* loaded, migrated to, generated, compiled or started is made from the
\* sources as they are, or is about to be replaced by a step that is left, or
\* a change or a failed rebuild asks for that, or was lost.
\* (run, reload, prepare)
THEOREM SessionInvariant == DevelopmentSpec => []SessionInv
<1>1. DevelopmentInit => SessionInv
  BY SessionInitially
<1>2. SessionInv /\ [DevelopmentNext]_devVars => SessionInv'
  BY SessionStep
<1> QED
  BY <1>1, <1>2, PTL DEF DevelopmentSpec

\* A session that waits serves what was last edited, for any contents of the
\* sources and any number of edits, sessions and failures; with the exemptions
\* ServedIsCurrent names. (run, reload, prepare)
THEOREM ServedIsCurrentAlways == DevelopmentSpec => []ServedIsCurrent
  BY SessionInvariant, SessionServes, PTL
=============================================================================
