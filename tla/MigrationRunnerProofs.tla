------------------------ MODULE MigrationRunnerProofs ------------------------
(***************************************************************************)
(* Proofs about MigrationRunner for any number of files, processes, edits  *)
(* and faults.                                                             *)
(***************************************************************************)
EXTENDS MigrationRunner, TLAPS

\* What one row says of its migration.
RowsAreTrue ==
  \A i \in Id :
    /\ state[i] = "absent" => checksum[i] = None /\ executed[i] = 0 /\ ~half[i]
    /\ state[i] # "absent" => checksum[i] \in Content
    /\ state[i] = "applied" => structure[i] = checksum[i] /\ ~half[i]
    /\ executed[i] <= 1

\* The advisory lock.
Exclusive == \A p \in Process : at[p] \notin {"idle", "loaded"} => holder = p

\* Between the two marks, the migration in hand is the one row that is not
\* applied, and the last of the history.
InHand(p, i) ==
  /\ Reached(p, i) /\ view[p][i] # None
  /\ todo[p] = Pending(view[p]) \cup {i}
  /\ state[i] = "applying" /\ checksum[i] = view[p][i]
  /\ \A j \in Id \ {i} :
       state[j] # "absent" => state[j] = "applied" /\ checksum[j] = view[p][j] /\ j < i
  /\ \A j \in Id : j < i /\ view[p][j] # None => state[j] # "absent"
  /\ at[p] \in {"marked", "orphan"} => executed[i] = 0 /\ ~half[i]
  /\ at[p] = "ran" => structure[i] = checksum[i] /\ ~half[i]

HandsAreSafe ==
  \A p \in Process :
    at[p] \in {"marked", "ran", "failed", "orphan"} => \E i \in Id : InHand(p, i)

\* CheckedHistoryHolds needs Exclusive, and the marks need HandsAreSafe: what
\* is executed between them finds its row, and nothing has been executed of it.
IInv == TypeOK /\ RowsAreTrue /\ Exclusive /\ CheckedHistoryHolds /\ HandsAreSafe

LEMMA IInvInit == Init => IInv
  BY RunnerAssumption
     DEF Init, IInv, TypeOK, RowsAreTrue, Exclusive, CheckedHistoryHolds, HandsAreSafe, File,
         Places
-----------------------------------------------------------------------------
(* Types and the lock *)

HistoryOK ==
  /\ state \in [Id -> {"absent", "applying", "applied", "failed"}]
  /\ checksum \in [Id -> File]
DatabaseOK ==
  /\ structure \in [Id -> File] /\ half \in [Id -> BOOLEAN] /\ executed \in [Id -> Nat]
SectionOK ==
  /\ holder \in Process \cup {None}
  /\ at \in [Process -> Places] /\ view \in [Process -> [Id -> File]]
  /\ todo \in [Process -> SUBSET Id]
  /\ holder # None => at[holder] \notin {"idle", "loaded"}
  /\ Exclusive
CountersOK == files \in [Id -> File] /\ edits \in 0 .. MaxEdits /\ faults \in 0 .. MaxFaults

LEMMA EndsTypes ==
  ASSUME SectionOK, NEW p \in Process, Ends(p)
  PROVE  SectionOK'
  BY RunnerAssumption DEF SectionOK, Exclusive, Ends, Go, Places, File

LEMMA MarkTypes ==
  ASSUME HistoryOK, NEW i \in Id, NEW s \in {"absent", "applying", "applied", "failed"}, Mark(i, s)
  PROVE  state' \in [Id -> {"absent", "applying", "applied", "failed"}]
  BY DEF HistoryOK, Mark

LEMMA RecordTypes ==
  ASSUME HistoryOK, SectionOK, NEW p \in Process, NEW i \in Id,
         NEW s \in {"absent", "applying", "applied", "failed"}, Record(p, i, s)
  PROVE  HistoryOK'
  BY DEF HistoryOK, SectionOK, Record, Mark

LEMMA SqlTypes ==
  ASSUME DatabaseOK, SectionOK, NEW p \in Process, NEW i \in Id, Executes(p, i) \/ Breaks(i)
  PROVE  DatabaseOK'
<1>1. CASE Executes(p, i)
  BY <1>1 DEF DatabaseOK, SectionOK, Executes
<1>2. CASE Breaks(i)
  BY <1>2 DEF DatabaseOK, Breaks
<1>. QED BY <1>1, <1>2

LEMMA TypesStep == TypeOK /\ Exclusive /\ [Next]_vars => TypeOK' /\ Exclusive'
<1> DEFINE Good == HistoryOK /\ DatabaseOK /\ SectionOK /\ CountersOK
<1> SUFFICES ASSUME Good, [Next]_vars PROVE Good'
  BY DEF TypeOK, HistoryOK, DatabaseOK, SectionOK, CountersOK
<1> USE RunnerAssumption DEF history, database, process
<1>1. ASSUME NEW p \in Process, Load(p) PROVE Good'
  BY <1>1 DEF Load, Go, HistoryOK, DatabaseOK, SectionOK, CountersOK, Exclusive, Places
<1>2. ASSUME NEW p \in Process, Lock(p) PROVE Good'
  BY <1>2 DEF Lock, AdvisoryLock, Go, HistoryOK, DatabaseOK, SectionOK, CountersOK, Exclusive,
              Places
<1>3. ASSUME NEW p \in Process, Reconcile(p) PROVE Good'
  <2>1. CASE Reconciles(view[p])
    <3>1. Pending(view[p]) \in SUBSET Id
      BY DEF Pending
    <3>2. SectionOK'
      BY <1>3, <2>1, <3>1 DEF Reconcile, Go, SectionOK, Exclusive, Places
    <3>. QED BY <1>3, <2>1, <3>2 DEF Reconcile, HistoryOK, DatabaseOK, CountersOK
  <2>2. CASE ~Reconciles(view[p])
    BY <1>3, <2>2, EndsTypes DEF Reconcile, HistoryOK, DatabaseOK, CountersOK
  <2>. QED BY <2>1, <2>2
<1>4. ASSUME NEW p \in Process, Register(p) PROVE Good'
  <2>1. HistoryOK'
    BY <1>4 DEF Register, HistoryOK, SectionOK
  <2>. QED BY <1>4, <2>1, EndsTypes DEF Register, DatabaseOK, CountersOK
<1>5. ASSUME NEW p \in Process, Finish(p) PROVE Good'
  BY <1>5, EndsTypes DEF Finish, HistoryOK, DatabaseOK, CountersOK
<1>6. ASSUME NEW p \in Process, Abort(p) PROVE Good'
  BY <1>6, EndsTypes DEF Abort, Fault, HistoryOK, DatabaseOK, CountersOK
<1>7. ASSUME NEW p \in Process, Abandon(p) PROVE Good'
  BY <1>7 DEF Abandon, Fault, Go, HistoryOK, DatabaseOK, SectionOK, CountersOK, Exclusive, Places
<1>8. ASSUME NEW p \in Process, NEW i \in Id, ApplyTransaction(p, i) PROVE Good'
  <2>1. CASE Ends(p) /\ UNCHANGED <<history, database>>
    BY <1>8, <2>1, EndsTypes DEF ApplyTransaction, HistoryOK, DatabaseOK, CountersOK
  <2>2. CASE ~(Ends(p) /\ UNCHANGED <<history, database>>)
    <3>1. HistoryOK' /\ DatabaseOK'
      BY <1>8, <2>2, RecordTypes, SqlTypes DEF ApplyTransaction
    <3>. QED BY <1>8, <2>2, <3>1 DEF ApplyTransaction, SectionOK, CountersOK, Exclusive
  <2>. QED BY <2>1, <2>2
<1>9. ASSUME NEW p \in Process, NEW i \in Id, MarkApplying(p, i) PROVE Good'
  <2>1. CASE state[i] = "absent"
    <3>1. HistoryOK'
      BY <1>9, <2>1, RecordTypes DEF MarkApplying, MarksApplying
    <3>. QED
      BY <1>9, <2>1, <3>1
         DEF MarkApplying, Go, DatabaseOK, SectionOK, CountersOK, Exclusive, Places
  <2>2. CASE state[i] # "absent"
    BY <1>9, <2>2, EndsTypes DEF MarkApplying, HistoryOK, DatabaseOK, CountersOK
  <2>. QED BY <2>1, <2>2
<1>10. ASSUME NEW p \in Process, NEW i \in Id, RunSql(p, i) PROVE Good'
  <2>1. DatabaseOK'
    BY <1>10, SqlTypes DEF RunSql
  <2>. QED
    BY <1>10, <2>1 DEF RunSql, Go, HistoryOK, SectionOK, CountersOK, Exclusive, Places
<1>11. ASSUME NEW p \in Process, NEW i \in Id, MarkFailed(p, i) PROVE Good'
  BY <1>11, EndsTypes, MarkTypes DEF MarkFailed, MarksFailed, HistoryOK, DatabaseOK, CountersOK
<1>12. ASSUME NEW p \in Process, NEW i \in Id, MarkApplied(p, i) PROVE Good'
  <2>1. HistoryOK'
    BY <1>12, MarkTypes DEF MarkApplied, HistoryOK
  <2>. QED
    BY <1>12, <2>1 DEF MarkApplied, Go, DatabaseOK, SectionOK, CountersOK, Exclusive, Places
<1>13. ASSUME NEW p \in Process, NEW i \in Id, OrphanEnds(p, i) PROVE Good'
  BY <1>13, EndsTypes, SqlTypes DEF OrphanEnds, HistoryOK, CountersOK
<1>14. ASSUME NEW i \in Id, Repair(i) PROVE Good'
  <2>1. SectionOK' /\ CountersOK'
    BY <1>14 DEF Repair, SectionOK, CountersOK, Exclusive
  <2>2. HistoryOK'
    BY <1>14 DEF Repair, Mark, HistoryOK, File
  <2>3. DatabaseOK'
    BY <1>14 DEF Repair, DatabaseOK, HistoryOK, File
  <2>. QED BY <2>1, <2>2, <2>3
<1>15. ASSUME NEW i \in Id, NEW c \in File, Edit(i, c) PROVE Good'
  BY <1>15 DEF Edit, HistoryOK, DatabaseOK, SectionOK, CountersOK, Exclusive
<1>16. CASE UNCHANGED vars
  BY <1>16 DEF vars, HistoryOK, DatabaseOK, SectionOK, CountersOK, Exclusive
<1> HIDE DEF Good, history, database, process
<1>. QED
  BY <1>1, <1>2, <1>3, <1>4, <1>5, <1>6, <1>7, <1>8, <1>9, <1>10, <1>11, <1>12, <1>13,
     <1>14, <1>15, <1>16
     DEF Next, Runs, Proceeds, Executing

-----------------------------------------------------------------------------
(* Rows *)

\* There is one first file, and between the marks it is the one in hand.
LEMMA ReachedIsInHand ==
  ASSUME HandsAreSafe, NEW p \in Process, NEW i \in Id, Reached(p, i),
         at[p] \in {"marked", "ran", "failed", "orphan"}
  PROVE  InHand(p, i)
<1>1. PICK k \in Id : InHand(p, k)
  BY DEF HandsAreSafe
<1>2. k = i
  BY <1>1, RunnerAssumption DEF InHand, Reached, Id
<1>. QED BY <1>1, <1>2

LEMMA RowsStep == IInv /\ [Next]_vars => RowsAreTrue'
<1> SUFFICES ASSUME IInv, [Next]_vars PROVE RowsAreTrue'
  OBVIOUS
<1> USE RunnerAssumption DEF IInv, TypeOK, RowsAreTrue, File, history, database
<1>1. ASSUME UNCHANGED <<history, database>> PROVE RowsAreTrue'
  BY <1>1
<1>2. ASSUME NEW p \in Process, Register(p) PROVE RowsAreTrue'
  <2>1. CASE Reconciles(view[p]) /\ Matches(view[p]) /\ \A i \in Id : state[i] = "absent"
    BY <1>2, <2>1 DEF Register, Matches
  <2>2. CASE ~(Reconciles(view[p]) /\ Matches(view[p]) /\ \A i \in Id : state[i] = "absent")
    BY <1>1, <1>2, <2>2 DEF Register
  <2>. QED BY <2>1, <2>2
<1>3. ASSUME NEW p \in Process, NEW i \in Id, ApplyTransaction(p, i) PROVE RowsAreTrue'
  <2>1. CASE UNCHANGED <<history, database>>
    BY <1>1, <2>1
  <2>2. CASE state[i] = "absent" /\ Executes(p, i) /\ Record(p, i, "applied")
    <3>1. view[p][i] \in Content
      BY <1>3 DEF ApplyTransaction, CheckedHistoryHolds, Pending, Reached
    <3>. QED BY <2>2, <3>1 DEF Executes, Record, Mark
  <2>. QED BY <1>3, <2>1, <2>2 DEF ApplyTransaction
<1>4. ASSUME NEW p \in Process, NEW i \in Id, MarkApplying(p, i) PROVE RowsAreTrue'
  <2>1. CASE state[i] = "absent"
    <3>1. view[p][i] \in Content
      BY <1>4 DEF MarkApplying
    <3>. QED BY <1>4, <2>1, <3>1 DEF MarkApplying, MarksApplying, Record, Mark
  <2>2. CASE state[i] # "absent"
    BY <1>1, <1>4, <2>2 DEF MarkApplying
  <2>. QED BY <2>1, <2>2
<1>5. ASSUME NEW p \in Process, NEW i \in Id, RunSql(p, i) \/ OrphanEnds(p, i)
      PROVE  RowsAreTrue'
  <2>1. InHand(p, i)
    BY <1>5, ReachedIsInHand DEF RunSql, OrphanEnds
  <2>2. state[i] = "applying" /\ executed[i] = 0
    BY <1>5, <2>1 DEF InHand, RunSql, OrphanEnds
  <2>3. /\ UNCHANGED history
        /\ Executes(p, i) \/ Breaks(i)
    BY <1>5 DEF RunSql, OrphanEnds
  <2>4. CASE Executes(p, i)
    BY <2>2, <2>3, <2>4 DEF Executes
  <2>5. CASE Breaks(i)
    BY <2>2, <2>3, <2>5 DEF Breaks
  <2>. QED BY <2>3, <2>4, <2>5
<1>6. ASSUME NEW p \in Process, NEW i \in Id, MarkFailed(p, i) \/ MarkApplied(p, i)
      PROVE  RowsAreTrue'
  <2>1. InHand(p, i)
    BY <1>6, ReachedIsInHand DEF MarkFailed, MarkApplied
  <2>2. CASE MarkFailed(p, i)
    BY <2>1, <2>2 DEF InHand, MarkFailed, MarksFailed, Mark
  <2>3. CASE MarkApplied(p, i)
    BY <2>1, <2>3 DEF InHand, MarkApplied, Mark
  <2>. QED BY <1>6, <2>2, <2>3
<1>7. ASSUME NEW i \in Id, Repair(i) PROVE RowsAreTrue'
  <2>1. CASE Mark(i, "applied")
    BY <1>7, <2>1 DEF Repair, Mark
  <2>2. CASE Mark(i, "absent")
    BY <1>7, <2>2 DEF Repair, Mark
  <2>. QED BY <1>7, <2>1, <2>2 DEF Repair
<1>8. ASSUME NEW p \in Process,
             \/ Load(p) \/ Lock(p) \/ Reconcile(p) \/ Finish(p) \/ Abort(p) \/ Abandon(p)
      PROVE  RowsAreTrue'
  BY <1>1, <1>8 DEF Load, Lock, Reconcile, Finish, Abort, Abandon
<1>9. ASSUME NEW i \in Id, NEW c \in File, Edit(i, c) PROVE RowsAreTrue'
  BY <1>1, <1>9 DEF Edit
<1>10. CASE UNCHANGED vars
  BY <1>1, <1>10 DEF vars
<1> HIDE DEF IInv, TypeOK, RowsAreTrue, history, database, File
<1>. QED
  BY <1>2, <1>3, <1>4, <1>5, <1>6, <1>7, <1>8, <1>9, <1>10 DEF Next, Runs, Proceeds, Executing, File
-----------------------------------------------------------------------------
(* The history a runner has checked *)

Safe == CheckedHistoryHolds /\ HandsAreSafe

\* Everybody but the holder of the lock is outside of what it protects.
LEMMA OthersAreOut ==
  ASSUME IInv, NEW p \in Process, at[p] \notin {"idle", "loaded"}
  PROVE  \A q \in Process \ {p} : at[q] \in {"idle", "loaded"}
  BY DEF IInv, Exclusive

\* So it is enough to look at the holder's own place after its step.
LEMMA HolderDecides ==
  ASSUME IInv, NEW p \in Process, at[p] \notin {"idle", "loaded"},
         \A q \in Process \ {p} : at'[q] = at[q],
         at'[p] = "applying" => todo'[p] = Pending(view[p])' /\ Reconciles(view[p])',
         at'[p] \in {"marked", "ran", "failed", "orphan"} => \E i \in Id : InHand(p, i)'
  PROVE  Safe'
  BY OthersAreOut DEF Safe, CheckedHistoryHolds, HandsAreSafe

LEMMA EndsSafely ==
  ASSUME IInv, NEW p \in Process, at[p] \notin {"idle", "loaded"}, Ends(p)
  PROVE  Safe'
  BY HolderDecides DEF IInv, TypeOK, Ends, Go

LEMMA SafeStep == IInv /\ [Next]_vars => Safe'
<1> SUFFICES ASSUME IInv, [Next]_vars PROVE Safe'
  OBVIOUS
<1> USE RunnerAssumption DEF history, database, process
<1>1. ASSUME NEW p \in Process, NEW i \in Id, ApplyTransaction(p, i) PROVE Safe'
  <2>1. CASE Ends(p)
    BY <1>1, <2>1, EndsSafely DEF ApplyTransaction
  <2>2. CASE ~Ends(p)
    <3>1. /\ at[p] = "applying" /\ Reached(p, i) /\ state[i] = "absent"
          /\ Record(p, i, "applied") /\ todo' = [todo EXCEPT ![p] = @ \ {i}]
          /\ UNCHANGED <<at, view>>
      BY <1>1, <2>2 DEF ApplyTransaction
    <3>2. todo[p] = Pending(view[p]) /\ Reconciles(view[p])
      BY <3>1 DEF IInv, CheckedHistoryHolds
    <3>3. view[p][i] # None /\ todo[p] \subseteq Id
      BY <3>1, <3>2 DEF Reached, Pending
    <3>4. todo'[p] = Pending(view[p])'
      BY <3>1, <3>2, <3>3 DEF Pending, Record, Mark, IInv, TypeOK
    <3>5. Reconciles(view[p])'
      BY <3>1, <3>2, <3>3 DEF Reconciles, Pending, Reached, Record, Mark, IInv, TypeOK, Id
    <3>. QED BY <3>1, <3>4, <3>5, HolderDecides
  <2>. QED BY <2>1, <2>2
<1>2. ASSUME NEW p \in Process, NEW i \in Id, MarkApplying(p, i) PROVE Safe'
  <2>1. CASE state[i] # "absent"
    BY <1>2, <2>1, EndsSafely DEF MarkApplying
  <2>2. CASE state[i] = "absent"
    <3>1. /\ at[p] = "applying" /\ Reached(p, i)
          /\ Record(p, i, "applying") /\ at' = [at EXCEPT ![p] = "marked"]
          /\ UNCHANGED <<view, todo, database>>
      BY <1>2, <2>2 DEF MarkApplying, MarksApplying, Go
    <3>2. todo[p] = Pending(view[p]) /\ Reconciles(view[p])
      BY <3>1 DEF IInv, CheckedHistoryHolds
    <3>3. view[p][i] # None /\ i \in Pending(view[p])
      BY <3>1, <3>2 DEF Reached, Pending
    <3>4. at'[p] = "marked" /\ \A q \in Process \ {p} : at'[q] = at[q]
      BY <3>1 DEF IInv, TypeOK
    <3>5. Reached(p, i)'
      BY <3>1 DEF Reached
    <3>6. todo'[p] = (Pending(view[p]) \cup {i})'
      BY <3>1, <3>2, <3>3 DEF Pending, Record, Mark, IInv, TypeOK
    <3>7. (state[i] = "applying" /\ checksum[i] = view[p][i])'
      BY <3>1 DEF Record, Mark, IInv, TypeOK
    <3>8. (\A j \in Id \ {i} :
            state[j] # "absent" => state[j] = "applied" /\ checksum[j] = view[p][j] /\ j < i)'
      BY <2>2, <3>1, <3>2, <3>3 DEF Reconciles, Record, Mark, IInv, TypeOK, Id
    <3>9. (\A j \in Id : j < i /\ view[p][j] # None => state[j] # "absent")'
      BY <2>2, <3>1, <3>2 DEF Reached, Pending, Record, Mark, IInv, TypeOK, Id
    <3>10. executed'[i] = 0 /\ ~half'[i]
      BY <2>2, <3>1 DEF IInv, RowsAreTrue
    <3>11. InHand(p, i)'
      BY <3>1, <3>3, <3>4, <3>5, <3>6, <3>7, <3>8, <3>9, <3>10 DEF InHand
    <3>. QED BY <3>1, <3>4, <3>11, HolderDecides
  <2>. QED BY <2>1, <2>2
<1>3. ASSUME NEW p \in Process, NEW i \in Id, RunSql(p, i) PROVE Safe'
  <2>1. InHand(p, i) /\ at[p] = "marked"
    BY <1>3, ReachedIsInHand DEF RunSql, IInv
  <2>2. UNCHANGED <<history, view, todo>> /\ \A q \in Process \ {p} : at'[q] = at[q]
    BY <1>3 DEF RunSql, Go, IInv, TypeOK
  <2>3. \/ at'[p] = "failed"
        \/ at'[p] = "ran" /\ structure'[i] = view[p][i] /\ half'[i] = half[i]
    BY <1>3 DEF RunSql, Go, Executes, IInv, TypeOK
  <2>4. InHand(p, i)'
    BY <2>1, <2>2, <2>3 DEF InHand, Reached, Pending
  <2>. QED BY <2>1, <2>2, <2>3, <2>4, HolderDecides
<1>4. ASSUME NEW p \in Process, NEW i \in Id, MarkApplied(p, i) PROVE Safe'
  <2>1. InHand(p, i) /\ at[p] = "ran"
    BY <1>4, ReachedIsInHand DEF MarkApplied, IInv
  <2>2. /\ state' = [state EXCEPT ![i] = "applied"] /\ UNCHANGED <<checksum, view>>
        /\ todo'[p] = todo[p] \ {i}
        /\ at'[p] = "applying" /\ \A q \in Process \ {p} : at'[q] = at[q]
    BY <1>4 DEF MarkApplied, Mark, Go, IInv, TypeOK
  <2>3. todo'[p] = Pending(view[p])'
    BY <2>1, <2>2 DEF InHand, Pending, IInv, TypeOK
  <2>4. Reconciles(view[p])'
    <3>1. /\ state'[i] = "applied" /\ checksum[i] = view[p][i]
          /\ \A j \in Id \ {i} :
               /\ state'[j] = state[j]
               /\ state[j] # "absent" => state[j] = "applied" /\ checksum[j] = view[p][j] /\ j < i
          /\ \A j \in Id : j < i /\ view[p][j] # None => state[j] # "absent"
      BY <2>1, <2>2 DEF InHand, IInv, TypeOK
    <3>2. \A j \in Id : state'[j] # "absent" => state'[j] = "applied" /\ checksum[j] = view[p][j]
      BY <3>1
    <3>3. ASSUME NEW j \in Id, NEW k \in Id, j < k, state'[k] # "absent", view[p][j] # None
          PROVE  state'[j] # "absent"
      <4>1. j < i /\ j # i
        BY <3>1, <3>3 DEF Id
      <4>. QED BY <3>1, <3>3, <4>1
    <3>. QED BY <2>2, <3>2, <3>3 DEF Reconciles
  <2>. QED BY <2>1, <2>2, <2>3, <2>4, HolderDecides
<1>5. ASSUME NEW p \in Process,
             \/ Register(p) \/ Finish(p)
             \/ \E i \in Id : MarkFailed(p, i) \/ OrphanEnds(p, i)
      PROVE  Safe'
  BY <1>5, EndsSafely DEF Register, Finish, MarkFailed, OrphanEnds
<1>6. ASSUME NEW p \in Process, Reconcile(p) PROVE Safe'
  <2>1. CASE Reconciles(view[p])
    <3>1. /\ at[p] = "locked" /\ UNCHANGED <<history, view>>
          /\ todo'[p] = Pending(view[p])
          /\ at'[p] = "applying" /\ \A q \in Process \ {p} : at'[q] = at[q]
      BY <1>6, <2>1 DEF Reconcile, Go, IInv, TypeOK
    <3>2. todo'[p] = Pending(view[p])' /\ Reconciles(view[p])'
      BY <2>1, <3>1 DEF Pending, Reconciles
    <3>. QED BY <3>1, <3>2, HolderDecides
  <2>2. CASE ~Reconciles(view[p])
    BY <1>6, <2>2, EndsSafely DEF Reconcile
  <2>. QED BY <2>1, <2>2
<1>7. ASSUME NEW p \in Process, Abandon(p) PROVE Safe'
  <2>1. /\ at[p] = "marked" /\ UNCHANGED <<history, database, view, todo>>
        /\ at'[p] = "orphan" /\ \A q \in Process \ {p} : at'[q] = at[q]
    BY <1>7 DEF Abandon, Go, IInv, TypeOK
  <2>2. PICK i \in Id : InHand(p, i)
    BY <2>1 DEF IInv, HandsAreSafe
  <2>3. InHand(p, i)'
    BY <2>1, <2>2 DEF InHand, Reached, Pending
  <2>. QED BY <2>1, <2>3, HolderDecides
<1>8. ASSUME NEW p \in Process, Load(p) \/ Lock(p) \/ Abort(p) PROVE Safe'
  <2>1. /\ UNCHANGED <<history, database>>
        /\ at'[p] \in {"idle", "loaded", "locked"}
        /\ \A q \in Process \ {p} : at'[q] = at[q] /\ view'[q] = view[q] /\ todo'[q] = todo[q]
    BY <1>8 DEF Load, Lock, Abort, Ends, Go, IInv, TypeOK
  <2>. QED
    BY <2>1 DEF Safe, IInv, CheckedHistoryHolds, HandsAreSafe, InHand, Reached, Pending, Reconciles
<1>9. ASSUME NEW i \in Id, Repair(i) PROVE Safe'
  <2>1. at' = at /\ \A q \in Process : at[q] \in {"idle", "loaded"}
    BY <1>9 DEF Repair, IInv, Exclusive
  <2>. QED BY <2>1 DEF Safe, CheckedHistoryHolds, HandsAreSafe
<1>10. CASE UNCHANGED <<history, database, process>>
  BY <1>10 DEF Safe, IInv, CheckedHistoryHolds, HandsAreSafe, InHand, Reached, Pending, Reconciles
<1>11. ASSUME NEW i \in Id, NEW c \in File, Edit(i, c) PROVE Safe'
  BY <1>10, <1>11 DEF Edit
<1>12. CASE UNCHANGED vars
  BY <1>10, <1>12 DEF vars
<1> HIDE DEF history, database, process
<1>. QED
  BY <1>1, <1>2, <1>3, <1>4, <1>5, <1>6, <1>7, <1>8, <1>9, <1>11, <1>12
     DEF Next, Runs, Proceeds, Executing

LEMMA IInvStep == IInv /\ [Next]_vars => IInv'
  BY TypesStep, RowsStep, SafeStep DEF IInv, Safe

LEMMA Inductive == Spec => []IInv
  BY IInvInit, IInvStep, PTL DEF Spec
-----------------------------------------------------------------------------
\* Every variable keeps its type, and nobody outside of it holds the lock.
THEOREM TypeCorrect == Spec => []TypeOK
<1>1. IInv => TypeOK
  BY DEF IInv
<1>. QED BY <1>1, Inductive, PTL

\* The history is believed by every later deployment, and it is true.
THEOREM AppliedIsThere == Spec => []HistoryIsTrue
<1>1. IInv => HistoryIsTrue
  BY DEF IInv, RowsAreTrue, HistoryIsTrue
<1>. QED BY <1>1, Inductive, PTL

\* However often a deployment is started, killed and started again, a
\* migration is executed at most once, and never without a row.
THEOREM ExecutedOnce == Spec => []RecordedOnce
<1>1. IInv => RecordedOnce
  BY DEF IInv, RowsAreTrue, RecordedOnce
<1>. QED BY <1>1, Inductive, PTL

\* What reconcile found out under the lock is still so at every later row.
THEOREM CheckStaysValid == Spec => []CheckedHistoryHolds
<1>1. IInv => CheckedHistoryHolds
  BY DEF IInv
<1>. QED BY <1>1, Inductive, PTL

\* No two processes are in what the advisory lock protects.
THEOREM LockExcludes == Spec => []Exclusive
<1>1. IInv => Exclusive
  BY DEF IInv
<1>. QED BY <1>1, Inductive, PTL

\* Nothing is executed on a database that a migration was left half way in.
THEOREM WholeIsBuiltOn == Spec => BuildsOnWhole
<1>1. IInv /\ [Next]_vars =>
        [\A i \in Id : Touches(i) =>
           \A j \in Id \ {i} : state[j] # "absent" => state[j] = "applied" /\ j < i]_vars
  <2> SUFFICES ASSUME IInv, [Next]_vars, NEW i \in Id, Touches(i), NEW j \in Id \ {i},
                      state[j] # "absent"
               PROVE  state[j] = "applied" /\ j < i
    OBVIOUS
  <2> USE RunnerAssumption DEF database
  <2>1. ASSUME UNCHANGED database PROVE FALSE
    BY <2>1 DEF Touches, IInv, TypeOK
  <2>2. ASSUME NEW p \in Process, NEW k \in Id, ApplyTransaction(p, k)
        PROVE  state[j] = "applied" /\ j < i
    <3>1. at[p] = "applying" /\ Reached(p, k) /\ state[k] = "absent" /\ Executes(p, k)
      BY <2>1, <2>2 DEF ApplyTransaction
    <3>2. k = i
      BY <3>1 DEF Executes, Touches, IInv, TypeOK
    <3>3. view[p][i] # None /\ Reconciles(view[p])
      BY <3>1, <3>2 DEF IInv, CheckedHistoryHolds, Reached, Pending
    <3>. QED BY <3>1, <3>2, <3>3 DEF Reconciles, Id
  <2>3. ASSUME NEW p \in Process, NEW k \in Id, RunSql(p, k) \/ OrphanEnds(p, k)
        PROVE  state[j] = "applied" /\ j < i
    <3>1. InHand(p, k)
      BY <2>3, ReachedIsInHand DEF RunSql, OrphanEnds, IInv
    <3>2. Executes(p, k) \/ Breaks(k)
      BY <2>3 DEF RunSql, OrphanEnds
    <3>3. k = i
      BY <3>2 DEF Executes, Breaks, Touches, IInv, TypeOK
    <3>. QED BY <3>1, <3>3 DEF InHand
  <2>4. ASSUME NEW k \in Id, Repair(k) PROVE FALSE
    BY <2>4 DEF Repair, Touches, IInv, TypeOK
  <2>5. ASSUME NEW p \in Process,
               \/ Load(p) \/ Lock(p) \/ Reconcile(p) \/ Register(p) \/ Finish(p) \/ Abort(p)
               \/ Abandon(p)
               \/ \E k \in Id : MarkApplying(p, k) \/ MarkFailed(p, k) \/ MarkApplied(p, k)
        PROVE  FALSE
    BY <2>1, <2>5 DEF Load, Lock, Reconcile, Register, Finish, Abort, Abandon, MarkApplying,
                      MarkFailed, MarkApplied
  <2>6. ASSUME NEW k \in Id, NEW c \in File, Edit(k, c) PROVE FALSE
    BY <2>1, <2>6 DEF Edit
  <2>7. CASE UNCHANGED vars
    BY <2>1, <2>7 DEF vars
  <2> HIDE DEF database
  <2>. QED
    BY <2>2, <2>3, <2>4, <2>5, <2>6, <2>7 DEF Next, Runs, Proceeds, Executing
<1>. QED BY <1>1, Inductive, PTL DEF Spec, BuildsOnWhole

LEMMA OwnFilesBelow ==
  ASSUME IInv, NEW p \in Process, NEW i \in Id,
         InHand(p, i) \/ (at[p] = "applying" /\ Reached(p, i))
  PROVE  \A j \in Id : j < i => view[p][j] = checksum[j]
<1> SUFFICES ASSUME NEW j \in Id, j < i PROVE view[p][j] = checksum[j]
  OBVIOUS
<1> USE RunnerAssumption DEF IInv, RowsAreTrue
<1>1. CASE InHand(p, i)
  <2>1. CASE state[j] = "absent"
    BY <1>1, <2>1 DEF InHand
  <2>2. CASE state[j] # "absent"
    BY <1>1, <2>2 DEF InHand, Id
  <2>. QED BY <2>1, <2>2
<1>2. CASE at[p] = "applying" /\ Reached(p, i)
  <2>1. todo[p] = Pending(view[p]) /\ Reconciles(view[p])
    BY <1>2 DEF CheckedHistoryHolds
  <2>2. CASE state[j] = "absent"
    <3>1. j \notin todo[p]
      BY <1>2 DEF Reached, Id
    <3>. QED BY <2>1, <2>2, <3>1 DEF Pending
  <2>3. CASE state[j] # "absent"
    BY <2>1, <2>3 DEF Reconciles
  <2>. QED BY <2>2, <2>3
<1>. QED BY <1>1, <1>2

\* A migration meets the database its own checkout would have built.
THEOREM OwnFilesAreBuiltOn == Spec => BuildsOnOwnFiles
<1> DEFINE Own(i) == \E p \in Process :
             /\ at[p] # at'[p] \/ todo[p] # todo'[p]
             /\ Reached(p, i) /\ \A j \in Id : j < i => view[p][j] = checksum[j]
<1>1. IInv /\ [Next]_vars => [\A i \in Id : Touches(i) => Own(i)]_vars
  <2> SUFFICES ASSUME IInv, [Next]_vars, NEW i \in Id, Touches(i) PROVE Own(i)
    OBVIOUS
  <2> USE RunnerAssumption DEF database
  <2>1. ASSUME UNCHANGED database PROVE FALSE
    BY <2>1 DEF Touches, IInv, TypeOK
  <2>2. ASSUME NEW p \in Process, NEW k \in Id, ApplyTransaction(p, k) PROVE Own(i)
    <3>1. /\ at[p] = "applying" /\ Reached(p, k) /\ Executes(p, k)
          /\ todo' = [todo EXCEPT ![p] = @ \ {k}]
      BY <2>1, <2>2 DEF ApplyTransaction
    <3>2. k = i
      BY <3>1 DEF Executes, Touches, IInv, TypeOK
    <3>3. todo'[p] # todo[p]
      BY <3>1 DEF Reached, IInv, TypeOK
    <3>. QED BY <3>1, <3>2, <3>3, OwnFilesBelow
  <2>3. ASSUME NEW p \in Process, NEW k \in Id, RunSql(p, k) \/ OrphanEnds(p, k) PROVE Own(i)
    <3>1. InHand(p, k) /\ Reached(p, k)
      BY <2>3, ReachedIsInHand DEF RunSql, OrphanEnds, IInv
    <3>2. Executes(p, k) \/ Breaks(k)
      BY <2>3 DEF RunSql, OrphanEnds
    <3>3. k = i
      BY <3>2 DEF Executes, Breaks, Touches, IInv, TypeOK
    <3>4. at'[p] # at[p]
      BY <2>3 DEF RunSql, OrphanEnds, Go, Ends, IInv, TypeOK
    <3>. QED BY <3>1, <3>3, <3>4, OwnFilesBelow
  <2>4. ASSUME NEW k \in Id, Repair(k) PROVE FALSE
    BY <2>4 DEF Repair, Touches, IInv, TypeOK
  <2>5. ASSUME NEW p \in Process,
               \/ Load(p) \/ Lock(p) \/ Reconcile(p) \/ Register(p) \/ Finish(p) \/ Abort(p)
               \/ Abandon(p)
               \/ \E k \in Id : MarkApplying(p, k) \/ MarkFailed(p, k) \/ MarkApplied(p, k)
        PROVE  FALSE
    BY <2>1, <2>5 DEF Load, Lock, Reconcile, Register, Finish, Abort, Abandon, MarkApplying,
                      MarkFailed, MarkApplied
  <2>6. ASSUME NEW k \in Id, NEW c \in File, Edit(k, c) PROVE FALSE
    BY <2>1, <2>6 DEF Edit
  <2>7. CASE UNCHANGED vars
    BY <2>1, <2>7 DEF vars
  <2> HIDE DEF database, Own
  <2>. QED
    BY <2>2, <2>3, <2>4, <2>5, <2>6, <2>7 DEF Next, Runs, Proceeds, Executing
<1>. QED BY <1>1, Inductive, PTL DEF Spec, BuildsOnOwnFiles

\* The history is true and every deployment builds on it (apply_project,
\* reconcile).
THEOREM HistoryExtended == Spec => DeploymentsExtendHistory
<1>1. TypeOK /\ HistoryIsTrue /\ RecordedOnce /\ CheckedHistoryHolds => HistoryIsKept
  BY DEF HistoryIsKept
<1>2. Spec => []HistoryIsKept
  BY <1>1, TypeCorrect, AppliedIsThere, ExecutedOnce, CheckStaysValid, PTL
<1>. QED BY <1>2, WholeIsBuiltOn, OwnFilesAreBuiltOn DEF DeploymentsExtendHistory
=============================================================================
