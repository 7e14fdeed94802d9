------------------------ MODULE ProjectCommandsProofs ------------------------
(***************************************************************************)
(* Proofs about ProjectTransactions and MigrationFiles for any number of   *)
(* processes, versions, schemas, migrations and replacements.              *)
(***************************************************************************)
EXTENDS ProjectCommands, SequenceTheorems, TLAPS

-----------------------------------------------------------------------------
(* Plans are built and consumed one step at a time.                         *)

IsPlan(s) == \E S : s \in Seq(S)

LEMMA PlanTyped == ASSUME NEW s, IsPlan(s), NEW a PROVE \E S : a \in S /\ s \in Seq(S)
<1>1. PICK S : s \in Seq(S)
  BY DEF IsPlan
<1>2. s \in Seq(S \cup {a})
  BY <1>1, SMT
<1> QED BY <1>2

LEMMA Consing ==
  ASSUME NEW a, NEW s, IsPlan(s)
  PROVE  /\ IsPlan(<<a>> \o s) /\ <<a>> \o s # <<>>
         /\ Head(<<a>> \o s) = a /\ Tail(<<a>> \o s) = s
<1>1. PICK S : a \in S /\ s \in Seq(S)
  BY PlanTyped
<1>2. <<a>> \in Seq(S)
  BY <1>1, SMT
<1>3. <<a>> \o s \in Seq(S)
  BY <1>1, <1>2, SMT
<1>4. Head(<<a>> \o s) = a /\ Tail(<<a>> \o s) = s /\ <<a>> \o s # <<>>
  BY <1>1, <1>2, SMT
<1> QED BY <1>3, <1>4 DEF IsPlan

LEMMA Single == ASSUME NEW a PROVE IsPlan(<<a>>)
<1>1. <<a>> \in Seq({a})
  BY SMT
<1> QED BY <1>1 DEF IsPlan

LEMMA NothingIsPlan == IsPlan(<<>>)
<1>1. <<>> \in Seq({})
  BY SMT
<1> QED BY <1>1 DEF IsPlan

LEMMA PlansJoin ==
  ASSUME NEW s, NEW t, IsPlan(s), IsPlan(t)
  PROVE  IsPlan(s \o t) /\ \E S : s \in Seq(S) /\ t \in Seq(S)
<1>1. PICK S : s \in Seq(S)
  BY DEF IsPlan
<1>2. PICK T : t \in Seq(T)
  BY DEF IsPlan
<1>3. s \in Seq(S \cup T) /\ t \in Seq(S \cup T)
  BY <1>1, <1>2, SMT
<1>4. s \o t \in Seq(S \cup T)
  BY <1>3, SMT
<1> QED BY <1>3, <1>4 DEF IsPlan

LEMMA PlansAssociate ==
  ASSUME NEW s, NEW t, NEW u, IsPlan(s), IsPlan(t), IsPlan(u)
  PROVE  (s \o t) \o u = s \o (t \o u)
<1>1. PICK S : s \in Seq(S) /\ t \in Seq(S)
  BY PlansJoin
<1>2. PICK T : u \in Seq(T)
  BY DEF IsPlan
<1>3. s \in Seq(S \cup T) /\ t \in Seq(S \cup T) /\ u \in Seq(S \cup T)
  BY <1>1, <1>2, SMT
<1> QED BY <1>3, ConcatAssociative

LEMMA NothingFirst == ASSUME NEW s, IsPlan(s) PROVE <<>> \o s = s /\ s \o <<>> = s
<1>1. PICK S : s \in Seq(S)
  BY DEF IsPlan
<1> QED BY <1>1, ConcatEmptySeq

\* What a plan that begins with a given step does next.
LEMMA Puts ==
  ASSUME NEW path, NEW content, NEW s, IsPlan(s)
  PROVE  /\ IsPlan(Put(path, content) \o s) /\ Put(path, content) \o s # <<>>
         /\ ~Failing(Put(path, content) \o s) /\ Tail(Put(path, content) \o s) = s
         /\ \A d : Execute(d, Head(Put(path, content) \o s)) = [d EXCEPT ![path] = content]
<1> DEFINE a == [do |-> "put", path |-> path, content |-> content]
<1>1. Put(path, content) = <<a>>
  BY DEF Put
<1>2. /\ IsPlan(<<a>> \o s) /\ <<a>> \o s # <<>>
      /\ Head(<<a>> \o s) = a /\ Tail(<<a>> \o s) = s
  BY Consing
<1>3. a.do = "put" /\ a.path = path /\ a.content = content
  OBVIOUS
<1>4. \A d : Execute(d, a) = [d EXCEPT ![path] = content]
  BY <1>3 DEF Execute
<1> QED BY <1>1, <1>2, <1>3, <1>4 DEF Failing

LEMMA Moves ==
  ASSUME NEW from, NEW to, NEW s, IsPlan(s)
  PROVE  /\ IsPlan(Move(from, to) \o s) /\ Move(from, to) \o s # <<>>
         /\ ~Failing(Move(from, to) \o s) /\ Tail(Move(from, to) \o s) = s
         /\ \A d : Execute(d, Head(Move(from, to) \o s)) = [d EXCEPT ![to] = d[from], ![from] = Absent]
<1> DEFINE a == [do |-> "move", path |-> from, content |-> to]
<1>1. Move(from, to) = <<a>>
  BY DEF Move
<1>2. /\ IsPlan(<<a>> \o s) /\ <<a>> \o s # <<>>
      /\ Head(<<a>> \o s) = a /\ Tail(<<a>> \o s) = s
  BY Consing
<1>3. a.do = "move" /\ a.path = from /\ a.content = to
  OBVIOUS
<1>4. \A d : Execute(d, a) = [d EXCEPT ![to] = d[from], ![from] = Absent]
  BY <1>3 DEF Execute
<1> QED BY <1>1, <1>2, <1>3, <1>4 DEF Failing

\* What the first of the steps that are left does, and what is left after it.
Does(q, path, c, rest) ==
  /\ q # <<>> /\ ~Failing(q) /\ Tail(q) = rest
  /\ \A d : Execute(d, Head(q)) = [d EXCEPT ![path] = c]
Renames(q, from, to, rest) ==
  /\ q # <<>> /\ ~Failing(q) /\ Tail(q) = rest
  /\ \A d : Execute(d, Head(q)) = [d EXCEPT ![to] = d[from], ![from] = Absent]

LEMMA PutsDo ==
  ASSUME NEW path, NEW c, NEW rest, IsPlan(rest)
  PROVE  Does(Put(path, c) \o rest, path, c, rest) /\ Does(Remove(path) \o rest, path, Absent, rest)
<1>1. ASSUME NEW content PROVE Does(Put(path, content) \o rest, path, content, rest)
  <2> DEFINE a == [do |-> "put", path |-> path, content |-> content]
             q == <<a>> \o rest
  <2>1. Put(path, content) = <<a>>
    BY DEF Put
  <2>2. q # <<>> /\ Head(q) = a /\ Tail(q) = rest
    BY Consing
  <2>3. a.do = "put" /\ a.path = path /\ a.content = content
    OBVIOUS
  <2> HIDE DEF q, a
  <2>4. Does(q, path, content, rest)
    BY <2>2, <2>3 DEF Does, Failing, Execute
  <2> QED BY <2>1, <2>4 DEF q
<1>2. Does(Put(path, c) \o rest, path, c, rest) /\ Does(Put(path, Absent) \o rest, path, Absent, rest)
  BY <1>1
<1> QED BY <1>2 DEF Remove

LEMMA MovesRename ==
  ASSUME NEW from, NEW to, NEW rest, IsPlan(rest)
  PROVE  Renames(Move(from, to) \o rest, from, to, rest)
<1> DEFINE a == [do |-> "move", path |-> from, content |-> to]
           q == <<a>> \o rest
<1>1. Move(from, to) = <<a>>
  BY DEF Move
<1>2. q # <<>> /\ Head(q) = a /\ Tail(q) = rest
  BY Consing
<1>3. a.do = "move" /\ a.path = from /\ a.content = to
  OBVIOUS
<1> HIDE DEF q, a
<1>4. Renames(q, from, to, rest)
  BY <1>2, <1>3 DEF Renames, Failing, Execute
<1> QED BY <1>1, <1>4 DEF q

LEMMA Fails ==
  ASSUME NEW s, IsPlan(s)
  PROVE  IsPlan(Fail \o s) /\ Failing(Fail \o s)
<1> DEFINE a == [do |-> "fail", path |-> Absent, content |-> Absent]
<1>1. Fail = <<a>>
  BY DEF Fail
<1>2. IsPlan(<<a>> \o s) /\ <<a>> \o s # <<>> /\ Head(<<a>> \o s) = a
  BY Consing
<1> QED BY <1>1, <1>2 DEF Failing

LEMMA StepsArePlans ==
  ASSUME NEW a, NEW b
  PROVE  IsPlan(Put(a, b)) /\ IsPlan(Move(a, b)) /\ IsPlan(Fail)
         /\ IsPlan(Remove(a)) /\ IsPlan(RemoveTree(a)) /\ IsPlan(WriteTree(a, b))
         /\ IsPlan(StartJournal(a, b))
<1>1. \A x, y : IsPlan(Put(x, y))
  BY Single DEF Put
<1>2. IsPlan(Move(a, b)) /\ IsPlan(Fail)
  BY Single DEF Move, Fail
<1> QED BY <1>1, <1>2, PlansJoin DEF Remove, RemoveTree, WriteTree, StartJournal

LEMMA ConditionalPlan ==
  ASSUME NEW c, NEW s, c => IsPlan(s)
  PROVE  IsPlan(When(c, s)) /\ (c => When(c, s) = s) /\ (~c => When(c, s) = <<>>)
         /\ IsPlan(Check(c)) /\ (c => Check(c) = <<>>) /\ (~c => Check(c) = Fail)
BY NothingIsPlan, StepsArePlans DEF When, Check

-----------------------------------------------------------------------------
(* The migrations directory: k files stand, and what else is there.         *)

\* The disk holds the files 1 to k, the last of which leads to tip; the file
\* after them and its staging, the snapshot, its staging and backup, and the
\* journal are as given.
At(d, k, tip, new, tmp, stg, snap, back, jou) ==
  /\ k \in 0 .. MaxMigrations /\ DOMAIN d = MigrationPath
  /\ \A m \in 1 .. k : d[Sql(m)] \in SqlFile
  /\ \A m \in Number : m > k + 1 => d[Sql(m)] = Absent
  /\ \A m \in Number : m # k + 1 => d[SqlStaging(m)] = Absent
  /\ tip = IF k = 0 THEN Absent ELSE d[Sql(k)].to
  /\ k < MaxMigrations => d[Sql(k + 1)] = new /\ d[SqlStaging(k + 1)] = tmp
  /\ k = MaxMigrations => new = Absent /\ tmp = Absent
  /\ d[SnapshotStaging] = stg /\ d[Snapshot] = snap /\ d[SnapshotBackup] = back
  /\ d[Journal] = jou

LEMMA PathsDiffer ==
  /\ Snapshot # SnapshotStaging /\ Snapshot # SnapshotBackup /\ Snapshot # Journal
  /\ SnapshotStaging # SnapshotBackup /\ SnapshotStaging # Journal /\ SnapshotBackup # Journal
  /\ \A m, n : Sql(m) = Sql(n) => m = n
  /\ \A m, n : SqlStaging(m) = SqlStaging(n) => m = n
  /\ \A m, n : Sql(m) # SqlStaging(n)
  /\ \A m : Sql(m) \notin {Snapshot, SnapshotStaging, SnapshotBackup, Journal}
  /\ \A m : SqlStaging(m) \notin {Snapshot, SnapshotStaging, SnapshotBackup, Journal}
BY SMT DEF Snapshot, SnapshotStaging, SnapshotBackup, Journal, Sql, SqlStaging

LEMMA PathsStand ==
  /\ {Snapshot, SnapshotStaging, SnapshotBackup, Journal} \subseteq MigrationPath
  /\ \A m \in Number : Sql(m) \in MigrationPath /\ SqlStaging(m) \in MigrationPath
BY DEF MigrationPath

\* The files that stood before stand unchanged.
Keeps(d, e, k) == \A m \in 1 .. k : e[Sql(m)] = d[Sql(m)]

LEMMA KeepsOthers ==
  ASSUME NEW d, NEW k, NEW tip, NEW new, NEW tmp, NEW stg, NEW snap, NEW back, NEW jou,
         At(d, k, tip, new, tmp, stg, snap, back, jou),
         NEW path, NEW c,
         path \in {Snapshot, SnapshotStaging, SnapshotBackup, Journal, Sql(k + 1), SqlStaging(k + 1)}
  PROVE  Keeps(d, [d EXCEPT ![path] = c], k)
<1>1. k \in Nat /\ MaxMigrations \in Nat /\ DOMAIN d = MigrationPath /\ k <= MaxMigrations
  BY MigrationAssumption DEF At
<1>2. \A m \in 1 .. k : Sql(m) \in MigrationPath /\ m # k + 1
  BY <1>1, PathsStand DEF Number
<1>3. \A m \in 1 .. k : Sql(m) # path
  BY <1>2, PathsDiffer
<1> QED BY <1>1, <1>2, <1>3 DEF Keeps

LEMMA KeepsBoth ==
  ASSUME NEW d, NEW e, NEW f, NEW k, Keeps(d, e, k), Keeps(e, f, k)
  PROVE  Keeps(d, f, k)
BY DEF Keeps

LEMMA PutJournal ==
  ASSUME NEW d, NEW k, NEW tip, NEW new, NEW tmp, NEW stg, NEW snap, NEW back, NEW jou, NEW c,
         At(d, k, tip, new, tmp, stg, snap, back, jou)
  PROVE  /\ At([d EXCEPT ![Journal] = c], k, tip, new, tmp, stg, snap, back, c)
         /\ Keeps(d, [d EXCEPT ![Journal] = c], k)
<1>1. At([d EXCEPT ![Journal] = c], k, tip, new, tmp, stg, snap, back, c)
  BY PathsDiffer, PathsStand, MigrationAssumption DEF At, Number
<1>2. Keeps(d, [d EXCEPT ![Journal] = c], k)
  BY KeepsOthers
<1> QED BY <1>1, <1>2

LEMMA PutSnapshot ==
  ASSUME NEW d, NEW k, NEW tip, NEW new, NEW tmp, NEW stg, NEW snap, NEW back, NEW jou, NEW c,
         At(d, k, tip, new, tmp, stg, snap, back, jou)
  PROVE  /\ At([d EXCEPT ![Snapshot] = c], k, tip, new, tmp, stg, c, back, jou)
         /\ Keeps(d, [d EXCEPT ![Snapshot] = c], k)
<1>1. At([d EXCEPT ![Snapshot] = c], k, tip, new, tmp, stg, c, back, jou)
  BY PathsDiffer, PathsStand, MigrationAssumption DEF At, Number
<1>2. Keeps(d, [d EXCEPT ![Snapshot] = c], k)
  BY KeepsOthers
<1> QED BY <1>1, <1>2

LEMMA PutSnapshotStaging ==
  ASSUME NEW d, NEW k, NEW tip, NEW new, NEW tmp, NEW stg, NEW snap, NEW back, NEW jou, NEW c,
         At(d, k, tip, new, tmp, stg, snap, back, jou)
  PROVE  /\ At([d EXCEPT ![SnapshotStaging] = c], k, tip, new, tmp, c, snap, back, jou)
         /\ Keeps(d, [d EXCEPT ![SnapshotStaging] = c], k)
<1>1. At([d EXCEPT ![SnapshotStaging] = c], k, tip, new, tmp, c, snap, back, jou)
  BY PathsDiffer, PathsStand, MigrationAssumption DEF At, Number
<1>2. Keeps(d, [d EXCEPT ![SnapshotStaging] = c], k)
  BY KeepsOthers
<1> QED BY <1>1, <1>2

LEMMA PutSnapshotBackup ==
  ASSUME NEW d, NEW k, NEW tip, NEW new, NEW tmp, NEW stg, NEW snap, NEW back, NEW jou, NEW c,
         At(d, k, tip, new, tmp, stg, snap, back, jou)
  PROVE  /\ At([d EXCEPT ![SnapshotBackup] = c], k, tip, new, tmp, stg, snap, c, jou)
         /\ Keeps(d, [d EXCEPT ![SnapshotBackup] = c], k)
<1>1. At([d EXCEPT ![SnapshotBackup] = c], k, tip, new, tmp, stg, snap, c, jou)
  BY PathsDiffer, PathsStand, MigrationAssumption DEF At, Number
<1>2. Keeps(d, [d EXCEPT ![SnapshotBackup] = c], k)
  BY KeepsOthers
<1> QED BY <1>1, <1>2

LEMMA PutSql ==
  ASSUME NEW d, NEW k, NEW tip, NEW new, NEW tmp, NEW stg, NEW snap, NEW back, NEW jou, NEW c,
         At(d, k, tip, new, tmp, stg, snap, back, jou), k < MaxMigrations
  PROVE  /\ At([d EXCEPT ![Sql(k + 1)] = c], k, tip, c, tmp, stg, snap, back, jou)
         /\ Keeps(d, [d EXCEPT ![Sql(k + 1)] = c], k)
<1> DEFINE e == [d EXCEPT ![Sql(k + 1)] = c]
<1>1. k \in Nat /\ MaxMigrations \in Nat /\ k + 1 \in Number
  BY MigrationAssumption DEF At, Number
<1>2. DOMAIN e = MigrationPath /\ e[Sql(k + 1)] = c /\ \A q \in MigrationPath : q # Sql(k + 1) => e[q] = d[q]
  BY <1>1, PathsStand DEF At
<1>3. \A m \in Number : m # k + 1 => e[Sql(m)] = d[Sql(m)]
  BY <1>2, PathsDiffer, PathsStand
<1>4. \A m \in Number : e[SqlStaging(m)] = d[SqlStaging(m)]
  BY <1>2, PathsDiffer, PathsStand
<1>5. \A q \in {Snapshot, SnapshotStaging, SnapshotBackup, Journal} : e[q] = d[q]
  BY <1>2, PathsDiffer, PathsStand
<1>6. \A m \in 1 .. k : m \in Number /\ m # k + 1
  BY <1>1 DEF At, Number
<1>7. k # 0 => k \in Number /\ k # k + 1
  BY <1>1 DEF At, Number
<1> HIDE DEF e
<1>8. At(e, k, tip, c, tmp, stg, snap, back, jou)
  BY <1>1, <1>2, <1>3, <1>4, <1>5, <1>6, <1>7 DEF At
<1>9. Keeps(d, [d EXCEPT ![Sql(k + 1)] = c], k)
  BY KeepsOthers
<1> QED BY <1>8, <1>9 DEF e

LEMMA PutStaging ==
  ASSUME NEW d, NEW k, NEW tip, NEW new, NEW tmp, NEW stg, NEW snap, NEW back, NEW jou, NEW c,
         At(d, k, tip, new, tmp, stg, snap, back, jou), k < MaxMigrations
  PROVE  /\ At([d EXCEPT ![SqlStaging(k + 1)] = c], k, tip, new, c, stg, snap, back, jou)
         /\ Keeps(d, [d EXCEPT ![SqlStaging(k + 1)] = c], k)
<1> DEFINE e == [d EXCEPT ![SqlStaging(k + 1)] = c]
<1>1. k \in Nat /\ MaxMigrations \in Nat /\ k + 1 \in Number
  BY MigrationAssumption DEF At, Number
<1>2. DOMAIN e = MigrationPath /\ e[SqlStaging(k + 1)] = c
      /\ \A q \in MigrationPath : q # SqlStaging(k + 1) => e[q] = d[q]
  BY <1>1, PathsStand DEF At
<1>3. \A m \in Number : m # k + 1 => e[SqlStaging(m)] = d[SqlStaging(m)]
  BY <1>2, PathsDiffer, PathsStand
<1>4. \A m \in Number : e[Sql(m)] = d[Sql(m)]
  BY <1>2, PathsDiffer, PathsStand
<1>5. \A q \in {Snapshot, SnapshotStaging, SnapshotBackup, Journal} : e[q] = d[q]
  BY <1>2, PathsDiffer, PathsStand
<1>6. \A m \in 1 .. k : m \in Number
  BY <1>1 DEF At, Number
<1>7. k # 0 => k \in Number
  BY <1>1 DEF At, Number
<1> HIDE DEF e
<1>8. At(e, k, tip, new, c, stg, snap, back, jou)
  BY <1>1, <1>2, <1>3, <1>4, <1>5, <1>6, <1>7 DEF At
<1>9. Keeps(d, [d EXCEPT ![SqlStaging(k + 1)] = c], k)
  BY KeepsOthers
<1> QED BY <1>8, <1>9 DEF e

\* The next file counts among the files that stand.
LEMMA Promoted ==
  ASSUME NEW d, NEW k, NEW tip, NEW new, NEW stg, NEW snap, NEW back, NEW jou,
         At(d, k, tip, new, Absent, stg, snap, back, jou), k < MaxMigrations, new \in SqlFile
  PROVE  At(d, k + 1, new.to, Absent, Absent, stg, snap, back, jou)
<1>1. k \in Nat /\ MaxMigrations \in Nat /\ k + 1 \in Number /\ k + 1 # 0
  BY MigrationAssumption DEF At, Number
<1>2. \A m \in 1 .. k + 1 : d[Sql(m)] \in SqlFile
  <2>1. \A m \in 1 .. k + 1 : m \in 1 .. k \/ m = k + 1
    BY <1>1
  <2> QED BY <2>1, <1>1 DEF At
<1>3. \A m \in Number : m > (k + 1) + 1 => d[Sql(m)] = Absent
  BY <1>1 DEF At, Number
<1>4. \A m \in Number : d[SqlStaging(m)] = Absent
  BY <1>1 DEF At, Number
<1>5. k + 1 < MaxMigrations => (k + 1) + 1 \in Number /\ d[Sql((k + 1) + 1)] = Absent
  BY <1>1 DEF At, Number
<1> QED BY <1>1, <1>2, <1>3, <1>4, <1>5 DEF At

LEMMA LatestIsLast ==
  ASSUME NEW d, NEW k, NEW tip, NEW tmp, NEW stg, NEW snap, NEW back, NEW jou,
         At(d, k, tip, Absent, tmp, stg, snap, back, jou)
  PROVE  Latest(d) = k /\ Files(d) = 1 .. k /\ Described(d) = tip
<1>1. k \in Nat /\ MaxMigrations \in Nat /\ k <= MaxMigrations
  BY MigrationAssumption DEF At
<1>2. \A m \in 1 .. k : d[Sql(m)] # Absent
  BY MigrationAssumption DEF At
<1>3. \A m \in Number : m > k => d[Sql(m)] = Absent
  <2>1. \A m \in Number : m > k => m > k + 1 \/ (m = k + 1 /\ k < MaxMigrations)
    BY <1>1 DEF Number
  <2> QED BY <2>1 DEF At
<1>4. Files(d) = 1 .. k
  BY <1>1, <1>2, <1>3 DEF Files, Exists, Number
<1>5. k # 0 => k \in 1 .. k /\ \A m \in 1 .. k : m <= k
  BY <1>1
<1>6. \A n \in 1 .. k : (\A m \in 1 .. k : m <= n) => n = k
  BY <1>1
<1>7. k = 0 => 1 .. k = {}
  BY <1>1
<1>8. Latest(d) = k
  <2>1. CASE k = 0
    BY <2>1, <1>4, <1>7 DEF Latest
  <2>2. CASE k # 0
    <3>1. Latest(d) = CHOOSE n \in 1 .. k : \A m \in 1 .. k : m <= n
      BY <2>2, <1>4, <1>5 DEF Latest
    <3>2. \E n \in 1 .. k : \A m \in 1 .. k : m <= n
      BY <2>2, <1>5
    <3> QED BY <3>1, <3>2, <1>6
  <2> QED BY <2>1, <2>2
<1> QED BY <1>4, <1>8 DEF Described, At

-----------------------------------------------------------------------------
(* What is left of a recovery and of a commit of file k + 1, step by step.   *)

Clearing == Remove(Journal)
ClearingSnapshot == Remove(SnapshotStaging) \o Clearing
ClearingSql(k) == Remove(SqlStaging(k + 1)) \o ClearingSnapshot
Restoring(k) == Move(SnapshotBackup, Snapshot) \o ClearingSql(k)
Returning(k) == IF k = 0 THEN ClearingSql(k) ELSE Restoring(k)
DroppingSnapshot(rest) == Remove(Snapshot) \o rest
DroppingSql(k, rest) == Remove(Sql(k + 1)) \o DroppingSnapshot(rest)
DroppingBackup == Remove(SnapshotBackup) \o Clearing

Noted(phase, k) == [phase |-> phase, migration |-> k + 1, hadSnapshot |-> k # 0]

Completing(k) == Put(Journal, Noted("installed", k)) \o DroppingBackup
InstallingSnapshot(k) == Move(SnapshotStaging, Snapshot) \o Completing(k)
InstallingSql(k) == Move(SqlStaging(k + 1), Sql(k + 1)) \o InstallingSnapshot(k)
NotingBackup(k) == Put(Journal, Noted("backed_up", k)) \o InstallingSql(k)
SettingAside(k) == Move(Snapshot, SnapshotBackup) \o NotingBackup(k)
BackingUp(k) == IF k = 0 THEN NotingBackup(k) ELSE SettingAside(k)
WritingSnapshot(k, file) == Put(SnapshotStaging, file.to) \o BackingUp(k)
WritingSql(k, file) == Put(SqlStaging(k + 1), file) \o WritingSnapshot(k, file)
Preparing(k, file) == Put(Journal, Noted("prepared", k)) \o WritingSql(k, file)
Beginning(k, file) == Put(Journal, Empty) \o Preparing(k, file)

LEMMA RecoveryPlans ==
  ASSUME NEW k
  PROVE  /\ IsPlan(Clearing) /\ IsPlan(ClearingSnapshot) /\ IsPlan(ClearingSql(k))
         /\ IsPlan(Restoring(k)) /\ IsPlan(Returning(k)) /\ IsPlan(DroppingBackup)
<1>1. IsPlan(Clearing)
  BY StepsArePlans DEF Clearing
<1>2. IsPlan(ClearingSnapshot) /\ IsPlan(DroppingBackup)
  BY <1>1, Puts DEF ClearingSnapshot, DroppingBackup, Remove
<1>3. IsPlan(ClearingSql(k))
  BY <1>2, Puts DEF ClearingSql, Remove
<1>4. IsPlan(Restoring(k))
  BY <1>3, Moves DEF Restoring
<1> QED BY <1>1, <1>2, <1>3, <1>4 DEF Returning

LEMMA CommitPlans ==
  ASSUME NEW k, NEW file
  PROVE  /\ IsPlan(Completing(k)) /\ IsPlan(InstallingSnapshot(k)) /\ IsPlan(InstallingSql(k))
         /\ IsPlan(NotingBackup(k)) /\ IsPlan(SettingAside(k)) /\ IsPlan(BackingUp(k))
         /\ IsPlan(WritingSnapshot(k, file)) /\ IsPlan(WritingSql(k, file))
         /\ IsPlan(Preparing(k, file)) /\ IsPlan(Beginning(k, file))
<1>1. IsPlan(Completing(k))
  BY RecoveryPlans, Puts DEF Completing
<1>2. IsPlan(InstallingSnapshot(k))
  BY <1>1, Moves DEF InstallingSnapshot
<1>3. IsPlan(InstallingSql(k))
  BY <1>2, Moves DEF InstallingSql
<1>4. IsPlan(NotingBackup(k))
  BY <1>3, Puts DEF NotingBackup
<1>5. IsPlan(SettingAside(k))
  BY <1>4, Moves DEF SettingAside
<1>6. IsPlan(BackingUp(k))
  BY <1>4, <1>5 DEF BackingUp
<1>7. IsPlan(WritingSnapshot(k, file))
  BY <1>6, Puts DEF WritingSnapshot
<1>8. IsPlan(WritingSql(k, file))
  BY <1>7, Puts DEF WritingSql
<1>9. IsPlan(Preparing(k, file))
  BY <1>8, Puts DEF Preparing
<1>10. IsPlan(Beginning(k, file))
  BY <1>9, Puts DEF Beginning
<1> QED BY <1>1, <1>2, <1>3, <1>4, <1>5, <1>6, <1>7, <1>8, <1>9, <1>10

\* The only step of a plan of one step, which has nothing after it.
LEMMA LastStep ==
  /\ Clearing # <<>> /\ ~Failing(Clearing) /\ Tail(Clearing) = <<>>
  /\ \A d : Execute(d, Head(Clearing)) = [d EXCEPT ![Journal] = Absent]
<1> DEFINE a == [do |-> "put", path |-> Journal, content |-> Absent]
<1>1. Clearing = <<a>>
  BY DEF Clearing, Remove, Put
<1>2. <<a>> # <<>> /\ Head(<<a>>) = a /\ Tail(<<a>>) = <<>>
  BY SMT
<1>3. a.do = "put" /\ a.path = Journal /\ a.content = Absent
  OBVIOUS
<1>4. \A d : Execute(d, a) = [d EXCEPT ![Journal] = Absent]
  BY <1>3 DEF Execute
<1> HIDE DEF a
<1> QED BY <1>1, <1>2, <1>3, <1>4 DEF Failing

LEMMA RecoverySteps ==
  ASSUME NEW k
  PROVE  /\ Does(Clearing, Journal, Absent, <<>>)
         /\ Does(ClearingSnapshot, SnapshotStaging, Absent, Clearing)
         /\ Does(ClearingSql(k), SqlStaging(k + 1), Absent, ClearingSnapshot)
         /\ Does(DroppingBackup, SnapshotBackup, Absent, Clearing)
         /\ Renames(Restoring(k), SnapshotBackup, Snapshot, ClearingSql(k))
<1>1. Does(Clearing, Journal, Absent, <<>>)
  BY LastStep DEF Does
<1>2. Does(ClearingSnapshot, SnapshotStaging, Absent, Clearing)
  BY PutsDo, RecoveryPlans DEF ClearingSnapshot
<1>3. Does(ClearingSql(k), SqlStaging(k + 1), Absent, ClearingSnapshot)
  BY PutsDo, RecoveryPlans DEF ClearingSql
<1>4. Does(DroppingBackup, SnapshotBackup, Absent, Clearing)
  BY PutsDo, RecoveryPlans DEF DroppingBackup
<1>5. Renames(Restoring(k), SnapshotBackup, Snapshot, ClearingSql(k))
  BY MovesRename, RecoveryPlans DEF Restoring
<1> QED BY <1>1, <1>2, <1>3, <1>4, <1>5

LEMMA DroppingSteps ==
  ASSUME NEW k, NEW rest, IsPlan(rest)
  PROVE  /\ Does(DroppingSnapshot(rest), Snapshot, Absent, rest)
         /\ Does(DroppingSql(k, rest), Sql(k + 1), Absent, DroppingSnapshot(rest))
<1>1. Does(DroppingSnapshot(rest), Snapshot, Absent, rest)
  BY PutsDo DEF DroppingSnapshot
<1>2. IsPlan(DroppingSnapshot(rest))
  BY Puts DEF DroppingSnapshot, Remove
<1>3. Does(DroppingSql(k, rest), Sql(k + 1), Absent, DroppingSnapshot(rest))
  BY <1>2, PutsDo DEF DroppingSql
<1> QED BY <1>1, <1>3

LEMMA CommitSteps ==
  ASSUME NEW k, NEW file
  PROVE  /\ Does(Completing(k), Journal, Noted("installed", k), DroppingBackup)
         /\ Renames(InstallingSnapshot(k), SnapshotStaging, Snapshot, Completing(k))
         /\ Renames(InstallingSql(k), SqlStaging(k + 1), Sql(k + 1), InstallingSnapshot(k))
         /\ Does(NotingBackup(k), Journal, Noted("backed_up", k), InstallingSql(k))
         /\ Renames(SettingAside(k), Snapshot, SnapshotBackup, NotingBackup(k))
         /\ Does(WritingSnapshot(k, file), SnapshotStaging, file.to, BackingUp(k))
         /\ Does(WritingSql(k, file), SqlStaging(k + 1), file, WritingSnapshot(k, file))
         /\ Does(Preparing(k, file), Journal, Noted("prepared", k), WritingSql(k, file))
         /\ Does(Beginning(k, file), Journal, Empty, Preparing(k, file))
<1>1. Does(Completing(k), Journal, Noted("installed", k), DroppingBackup)
  BY PutsDo, RecoveryPlans DEF Completing
<1>2. Renames(InstallingSnapshot(k), SnapshotStaging, Snapshot, Completing(k))
  BY MovesRename, CommitPlans DEF InstallingSnapshot
<1>3. Renames(InstallingSql(k), SqlStaging(k + 1), Sql(k + 1), InstallingSnapshot(k))
  BY MovesRename, CommitPlans DEF InstallingSql
<1>4. Does(NotingBackup(k), Journal, Noted("backed_up", k), InstallingSql(k))
  BY PutsDo, CommitPlans DEF NotingBackup
<1>5. Renames(SettingAside(k), Snapshot, SnapshotBackup, NotingBackup(k))
  BY MovesRename, CommitPlans DEF SettingAside
<1>6. Does(WritingSnapshot(k, file), SnapshotStaging, file.to, BackingUp(k))
  BY PutsDo, CommitPlans DEF WritingSnapshot
<1>7. Does(WritingSql(k, file), SqlStaging(k + 1), file, WritingSnapshot(k, file))
  BY PutsDo, CommitPlans DEF WritingSql
<1>8. Does(Preparing(k, file), Journal, Noted("prepared", k), WritingSql(k, file))
  BY PutsDo, CommitPlans DEF Preparing
<1>9. Does(Beginning(k, file), Journal, Empty, Preparing(k, file))
  BY PutsDo, CommitPlans DEF Beginning
<1> QED BY <1>1, <1>2, <1>3, <1>4, <1>5, <1>6, <1>7, <1>8, <1>9

-----------------------------------------------------------------------------
(* What stands on the disk between two commands.                             *)

Calm(k, tip, new, tmp, stg, snap, back, jou) ==
  /\ new = Absent /\ tmp = Absent /\ stg = Absent /\ back = Absent
  /\ snap = tip /\ jou \in {Absent, Empty}

Prepared(k, tip, new, tmp, stg, snap, back, jou) ==
  /\ k < MaxMigrations /\ new = Absent /\ jou = Noted("prepared", k)
  /\ \/ snap = tip /\ back = Absent
     \/ snap = Absent /\ back = tip

BackedUp(k, tip, new, tmp, stg, snap, back, jou) ==
  /\ k < MaxMigrations /\ jou = Noted("backed_up", k) /\ back = tip
  /\ snap \in Schema \cup {Absent}

\* A recovery was interrupted after it had put the backup back, or later: the
\* next one deletes the snapshot and finds no backup.
Late(k, tip, new, tmp, stg, snap, back, jou) ==
  /\ k < MaxMigrations /\ k # 0 /\ jou = Noted("backed_up", k)
  /\ new = Absent /\ back = Absent /\ snap \in {tip, Absent}

Installed(k, tip, new, tmp, stg, snap, back, jou) ==
  /\ k < MaxMigrations /\ jou = Noted("installed", k)
  /\ new \in SqlFile /\ snap = new.to /\ tmp = Absent /\ stg = Absent
  /\ back \in {tip, Absent}

Shape(k, tip, new, tmp, stg, snap, back, jou) ==
  \/ Calm(k, tip, new, tmp, stg, snap, back, jou)
  \/ Prepared(k, tip, new, tmp, stg, snap, back, jou)
  \/ BackedUp(k, tip, new, tmp, stg, snap, back, jou)
  \/ Late(k, tip, new, tmp, stg, snap, back, jou)
  \/ Installed(k, tip, new, tmp, stg, snap, back, jou)

\* What stands while the lock is held, with the plan that is left. The snapshot
\* is back, and only the staging and the journal are left to remove.
Restored(k, tip, new, tmp, stg, snap, back, jou) ==
  /\ k < MaxMigrations /\ new = Absent /\ snap = tip /\ back = Absent
  /\ jou \in {Noted("prepared", k), Noted("backed_up", k)}

Unrestored(k, tip, new, tmp, stg, snap, back, jou) ==
  /\ k < MaxMigrations /\ k # 0 /\ new = Absent /\ snap = Absent /\ back = tip
  /\ jou \in {Noted("prepared", k), Noted("backed_up", k)}

\* The recovery deletes what it finds and fails.
Doomed(k, q) ==
  \E rest :
    /\ IsPlan(rest) /\ Failing(rest)
    /\ q \in {rest, DroppingSnapshot(rest), DroppingSql(k, rest)}

Recovering(q, faulty, k, tip, new, tmp, stg, snap, back, jou) ==
  \/ q = <<>> /\ Calm(k, tip, new, tmp, stg, snap, back, jou)
  \/ q = Clearing /\ Calm(k, tip, new, tmp, stg, snap, back, jou)
  \/ /\ q = Clearing /\ tmp = Absent /\ stg = Absent
     /\ Restored(k, tip, new, tmp, stg, snap, back, jou)
  \/ q = Clearing /\ back = Absent /\ Installed(k, tip, new, tmp, stg, snap, back, jou)
  \/ /\ q = ClearingSnapshot /\ tmp = Absent
     /\ Restored(k, tip, new, tmp, stg, snap, back, jou)
  \/ q = ClearingSql(k) /\ Restored(k, tip, new, tmp, stg, snap, back, jou)
  \/ q = Restoring(k) /\ Unrestored(k, tip, new, tmp, stg, snap, back, jou)
  \/ /\ q = DroppingSnapshot(Returning(k)) /\ new = Absent
     /\ BackedUp(k, tip, new, tmp, stg, snap, back, jou)
  \/ /\ q = DroppingSql(k, Returning(k))
     /\ BackedUp(k, tip, new, tmp, stg, snap, back, jou)
  \/ q = DroppingBackup /\ Installed(k, tip, new, tmp, stg, snap, back, jou)
  \/ faulty >= 2 /\ Doomed(k, q) /\ Late(k, tip, new, tmp, stg, snap, back, jou)

Committing(q, file, k, tip, new, tmp, stg, snap, back, jou) ==
  \/ /\ q = Beginning(k, file) /\ k < MaxMigrations /\ jou = Absent
     /\ Calm(k, tip, new, tmp, stg, snap, back, jou)
  \/ /\ q = Preparing(k, file) /\ k < MaxMigrations
     /\ Calm(k, tip, new, tmp, stg, snap, back, jou)
  \/ /\ q = WritingSql(k, file) /\ snap = tip /\ back = Absent /\ tmp = Absent /\ stg = Absent
     /\ Prepared(k, tip, new, tmp, stg, snap, back, jou)
  \/ /\ q = WritingSnapshot(k, file) /\ snap = tip /\ back = Absent /\ tmp = file
     /\ Prepared(k, tip, new, tmp, stg, snap, back, jou)
  \/ /\ q = SettingAside(k) /\ snap = tip /\ back = Absent /\ tmp = file /\ stg = file.to
     /\ Prepared(k, tip, new, tmp, stg, snap, back, jou)
  \/ /\ q = NotingBackup(k) /\ snap = Absent /\ back = tip /\ tmp = file /\ stg = file.to
     /\ Prepared(k, tip, new, tmp, stg, snap, back, jou)
  \/ /\ q = InstallingSql(k) /\ new = Absent /\ tmp = file /\ stg = file.to
     /\ BackedUp(k, tip, new, tmp, stg, snap, back, jou)
  \/ /\ q = InstallingSnapshot(k) /\ new = file /\ tmp = Absent /\ stg = file.to
     /\ BackedUp(k, tip, new, tmp, stg, snap, back, jou)
  \/ /\ q = Completing(k) /\ new = file /\ tmp = Absent /\ stg = Absent /\ snap = file.to
     /\ BackedUp(k, tip, new, tmp, stg, snap, back, jou)
  \/ q = DroppingBackup /\ Installed(k, tip, new, tmp, stg, snap, back, jou)
  \/ q = Clearing /\ back = Absent /\ Installed(k, tip, new, tmp, stg, snap, back, jou)
  \/ q = <<>> /\ k # 0 /\ jou = Absent /\ Calm(k, tip, new, tmp, stg, snap, back, jou)

\* Nothing is interrupted without a fault, and a late interruption is a second one.
Accounted(doing, faulty, k, tip, new, tmp, stg, snap, back, jou) ==
  /\ jou # Absent /\ doing # "swap" => faulty >= 1
  /\ k # 0 /\ k < MaxMigrations /\ jou = Noted("backed_up", k) /\ back = Absent =>
       faulty >= 2 \/ (doing \in {"recover", "undo"} /\ snap = tip)

Follows(doing, q, faulty, k, tip, new, tmp, stg, snap, back, jou) ==
  /\ doing \in {"recover", "undo"} =>
       Recovering(q, faulty, k, tip, new, tmp, stg, snap, back, jou)
  /\ doing = "swap" =>
       \E file \in SqlFile : Committing(q, file, k, tip, new, tmp, stg, snap, back, jou)

Stands(d, doing, q, faulty, k, tip, new, tmp, stg, snap, back, jou) ==
  /\ At(d, k, tip, new, tmp, stg, snap, back, jou)
  /\ Shape(k, tip, new, tmp, stg, snap, back, jou)
  /\ Accounted(doing, faulty, k, tip, new, tmp, stg, snap, back, jou)
  /\ Follows(doing, q, faulty, k, tip, new, tmp, stg, snap, back, jou)

-----------------------------------------------------------------------------
LEMMA Notes ==
  ASSUME NEW k \in Nat, k < MaxMigrations, NEW phase \in {"prepared", "backed_up", "installed"}
  PROVE  /\ Noted(phase, k) \notin {Absent, Empty}
         /\ Noted(phase, k).phase = phase /\ Noted(phase, k).migration = k + 1
         /\ Noted(phase, k).hadSnapshot = (k # 0)
<1>1. k + 1 \in Number
  BY MigrationAssumption DEF Number
<1>2. (k # 0) \in BOOLEAN
  OBVIOUS
<1>3. Noted(phase, k) \in JournalRecord
  BY <1>1, <1>2 DEF Noted, JournalRecord
<1>4. Noted(phase, k) \notin {Absent, Empty}
  BY <1>3, MigrationAssumption
<1> QED BY <1>4 DEF Noted

LEMMA PhasesDiffer ==
  ASSUME NEW k
  PROVE  /\ Noted("prepared", k) # Noted("backed_up", k)
         /\ Noted("prepared", k) # Noted("installed", k)
         /\ Noted("backed_up", k) # Noted("installed", k)
BY DEF Noted

LEMMA Tips ==
  ASSUME NEW d, NEW k, NEW tip, NEW new, NEW tmp, NEW stg, NEW snap, NEW back, NEW jou,
         At(d, k, tip, new, tmp, stg, snap, back, jou)
  PROVE  /\ k \in Nat /\ (k = 0 <=> tip = Absent)
         /\ tip \in Schema \cup {Absent}
         /\ k < MaxMigrations => k + 1 \in Number
<1>1. k \in Nat /\ MaxMigrations \in Nat
  BY MigrationAssumption DEF At
<1>2. \A file \in SqlFile : file.to \in Schema /\ file.to # Absent
  BY MigrationAssumption DEF SqlFile
<1>3. k # 0 => d[Sql(k)] \in SqlFile
  BY <1>1 DEF At
<1>4. k # 0 => tip = d[Sql(k)].to
  BY DEF At
<1>5. k = 0 => tip = Absent
  BY DEF At
<1> QED BY <1>1, <1>2, <1>3, <1>4, <1>5 DEF Number

LEMMA FilesLead ==
  \A file \in SqlFile : file # Absent /\ file.to \in Schema /\ file.to # Absent
BY MigrationAssumption DEF SqlFile

\* Recovery removes what is left of staging, and last of all the journal.
LEMMA ClearingJoins ==
  ASSUME NEW k, NEW s, IsPlan(s)
  PROVE  (s \o RemoveMigrationStaging(k + 1)) \o Remove(Journal) = s \o ClearingSql(k)
<1>1. IsPlan(Remove(SqlStaging(k + 1))) /\ IsPlan(Remove(SnapshotStaging)) /\ IsPlan(Remove(Journal))
  BY StepsArePlans
<1>2. IsPlan(RemoveMigrationStaging(k + 1))
  BY <1>1, PlansJoin DEF RemoveMigrationStaging
<1>3. RemoveMigrationStaging(k + 1) \o Remove(Journal) = ClearingSql(k)
  BY <1>1, PlansAssociate DEF RemoveMigrationStaging, ClearingSql, ClearingSnapshot, Clearing
<1> DEFINE t == RemoveMigrationStaging(k + 1)
           u == Remove(Journal)
<1>4. IsPlan(t) /\ IsPlan(u)
  BY <1>1, <1>2
<1>5. t \o u = ClearingSql(k)
  BY <1>3
<1> HIDE DEF t, u
<1>6. (s \o t) \o u = s \o (t \o u)
  BY <1>4, PlansAssociate
<1>7. (s \o t) \o u = s \o ClearingSql(k)
  BY <1>5, <1>6
<1> QED BY <1>7 DEF t, u

LEMMA RecoverPrepares ==
  ASSUME NEW d, NEW k, NEW tip, NEW new, NEW tmp, NEW stg, NEW snap, NEW back, NEW jou, NEW faulty,
         At(d, k, tip, new, tmp, stg, snap, back, jou),
         Prepared(k, tip, new, tmp, stg, snap, back, jou)
  PROVE  Recovering(MigrationRecover(d), faulty, k, tip, new, tmp, stg, snap, back, jou)
<1>1. /\ k \in Nat /\ k < MaxMigrations /\ k + 1 \in Number
      /\ k = 0 <=> tip = Absent
  BY Tips DEF Prepared
<1>2. d[Journal] = Noted("prepared", k) /\ d[Sql(k + 1)] = Absent
      /\ d[Snapshot] = snap /\ d[SnapshotBackup] = back
  BY <1>1 DEF At, Prepared
<1>3. /\ d[Journal] \notin {Absent, Empty} /\ d[Journal].phase = "prepared"
      /\ d[Journal].migration = k + 1 /\ d[Journal].hadSnapshot = (k # 0)
  BY <1>1, <1>2, Notes
<1>4. MigrationRecover(d) = MigrationRecoverPrepared(d) \o Remove(Journal)
  BY <1>3 DEF MigrationRecover, Phase
<1>5. Check(~Exists(d, Sql(k + 1))) = <<>>
  BY <1>2, ConditionalPlan DEF Exists
<1>6. CASE back = Absent
  <2>1. snap = tip
    BY <1>6 DEF Prepared
  <2>2. Check(k # 0 => Exists(d, Snapshot)) = <<>>
    BY <1>1, <1>2, <2>1, ConditionalPlan DEF Exists
  <2>3. MigrationRecoverPrepared(d) = (<<>> \o <<>>) \o RemoveMigrationStaging(k + 1)
    BY <1>2, <1>3, <1>5, <1>6, <2>2 DEF MigrationRecoverPrepared, Exists
  <2>4. MigrationRecover(d) = ClearingSql(k)
    <3>1. (<<>> \o RemoveMigrationStaging(k + 1)) \o Remove(Journal) = <<>> \o ClearingSql(k)
      BY ClearingJoins, NothingIsPlan
    <3>2. <<>> \o <<>> = <<>> /\ <<>> \o ClearingSql(k) = ClearingSql(k)
      BY NothingIsPlan, NothingFirst, RecoveryPlans
    <3> QED BY <1>4, <2>3, <3>1, <3>2
  <2>5. Restored(k, tip, new, tmp, stg, snap, back, jou)
    BY <1>6, <2>1 DEF Restored, Prepared
  <2> QED BY <2>4, <2>5 DEF Recovering
<1>7. CASE back # Absent
  <2>1. snap = Absent /\ back = tip /\ k # 0
    BY <1>1, <1>7 DEF Prepared
  <2>2. Check(~Exists(d, Snapshot)) = <<>>
    BY <1>2, <2>1, ConditionalPlan DEF Exists
  <2>3. MigrationRecoverPrepared(d)
          = (<<>> \o (<<>> \o Move(SnapshotBackup, Snapshot))) \o RemoveMigrationStaging(k + 1)
    BY <1>2, <1>3, <1>5, <1>7, <2>2 DEF MigrationRecoverPrepared, Exists
  <2>4. IsPlan(Move(SnapshotBackup, Snapshot))
    BY StepsArePlans
  <2>5. MigrationRecover(d) = Restoring(k)
    BY <1>4, <2>3, <2>4, ClearingJoins, NothingFirst DEF Restoring
  <2>6. Unrestored(k, tip, new, tmp, stg, snap, back, jou)
    BY <2>1 DEF Unrestored, Prepared
  <2> QED BY <2>5, <2>6 DEF Recovering
<1> QED BY <1>6, <1>7

LEMMA RecoverRollsBack ==
  ASSUME NEW d, NEW k, NEW tip, NEW new, NEW tmp, NEW stg, NEW snap, NEW back, NEW jou, NEW faulty,
         At(d, k, tip, new, tmp, stg, snap, back, jou),
         BackedUp(k, tip, new, tmp, stg, snap, back, jou)
  PROVE  Recovering(MigrationRecover(d), faulty, k, tip, new, tmp, stg, snap, back, jou)
<1>1. /\ k \in Nat /\ k < MaxMigrations /\ k + 1 \in Number
      /\ k = 0 <=> tip = Absent
  BY Tips DEF BackedUp
<1>2. d[Journal] = Noted("backed_up", k) /\ d[SnapshotBackup] = tip
  BY <1>1 DEF At, BackedUp
<1>3. /\ d[Journal] \notin {Absent, Empty} /\ d[Journal].phase = "backed_up"
      /\ d[Journal].migration = k + 1 /\ d[Journal].hadSnapshot = (k # 0)
  BY <1>1, <1>2, Notes
<1>4. MigrationRecover(d) = MigrationRecoverBackedUp(d) \o Remove(Journal)
  BY <1>3 DEF MigrationRecover, Phase
<1> DEFINE move == Move(SnapshotBackup, Snapshot)
           sql == Remove(Sql(k + 1))
           back1 == Remove(Snapshot)
           two == sql \o back1
<1>5. IsPlan(move) /\ IsPlan(sql) /\ IsPlan(back1) /\ IsPlan(two) /\ IsPlan(two \o move)
      /\ IsPlan(ClearingSql(k))
  BY StepsArePlans, PlansJoin, RecoveryPlans
<1>6. CASE k = 0
  <2>1. Check(~Exists(d, SnapshotBackup)) = <<>>
    BY <1>1, <1>2, <1>6, ConditionalPlan DEF Exists
  <2>2. MigrationRecoverBackedUp(d) = (two \o <<>>) \o RemoveMigrationStaging(k + 1)
    BY <1>3, <1>6, <2>1 DEF MigrationRecoverBackedUp
  <2>3. MigrationRecover(d) = two \o ClearingSql(k)
    <3>1. two \o <<>> = two
      BY <1>5, NothingFirst
    <3> HIDE DEF two
    <3> QED BY <1>4, <1>5, <2>2, <3>1, ClearingJoins
  <2>4. two \o ClearingSql(k) = sql \o (back1 \o ClearingSql(k))
    <3> DEFINE rest == ClearingSql(k)
    <3>1. IsPlan(sql) /\ IsPlan(back1) /\ IsPlan(rest)
      BY <1>5
    <3> HIDE DEF sql, back1, rest
    <3>2. (sql \o back1) \o rest = sql \o (back1 \o rest)
      BY ONLY <3>1, PlansAssociate
    <3> QED BY <3>2 DEF rest
  <2>5. MigrationRecover(d) = DroppingSql(k, Returning(k))
    BY <1>6, <2>3, <2>4 DEF DroppingSql, DroppingSnapshot, Returning
  <2> QED BY <2>5 DEF Recovering
<1>7. CASE k # 0
  <2>1. Check(Exists(d, SnapshotBackup)) = <<>>
    BY <1>1, <1>2, <1>7, ConditionalPlan DEF Exists
  <2>2. MigrationRecoverBackedUp(d) = (two \o (<<>> \o move)) \o RemoveMigrationStaging(k + 1)
    BY <1>3, <1>7, <2>1 DEF MigrationRecoverBackedUp
  <2>3. MigrationRecover(d) = (two \o move) \o ClearingSql(k)
    <3>1. <<>> \o move = move
      BY <1>5, NothingFirst
    <3> HIDE DEF two, move
    <3> QED BY <1>4, <1>5, <2>2, <3>1, ClearingJoins
  <2>4. (two \o move) \o ClearingSql(k) = sql \o (back1 \o (move \o ClearingSql(k)))
    <3>1. (two \o move) \o ClearingSql(k) = two \o (move \o ClearingSql(k))
      <4> DEFINE rest == ClearingSql(k)
      <4>1. IsPlan(two) /\ IsPlan(move) /\ IsPlan(rest)
        BY <1>5
      <4> HIDE DEF two, move, rest
      <4>2. (two \o move) \o rest = two \o (move \o rest)
        BY ONLY <4>1, PlansAssociate
      <4> QED BY <4>2 DEF rest
    <3>2. IsPlan(move \o ClearingSql(k))
      BY <1>5, RecoveryPlans, PlansJoin
    <3>3. two \o (move \o ClearingSql(k)) = sql \o (back1 \o (move \o ClearingSql(k)))
      <4> DEFINE rest == move \o ClearingSql(k)
      <4>1. IsPlan(sql) /\ IsPlan(back1) /\ IsPlan(rest)
        BY <1>5, <3>2
      <4> HIDE DEF sql, back1, rest
      <4>2. (sql \o back1) \o rest = sql \o (back1 \o rest)
        BY ONLY <4>1, PlansAssociate
      <4> QED BY <4>2 DEF rest
    <3> QED BY <3>1, <3>3
  <2>5. MigrationRecover(d) = DroppingSql(k, Returning(k))
    BY <1>7, <2>3, <2>4 DEF DroppingSql, DroppingSnapshot, Returning, Restoring
  <2> QED BY <2>5 DEF Recovering
<1> QED BY <1>6, <1>7

LEMMA RecoverFails ==
  ASSUME NEW d, NEW k, NEW tip, NEW new, NEW tmp, NEW stg, NEW snap, NEW back, NEW jou, NEW faulty,
         At(d, k, tip, new, tmp, stg, snap, back, jou),
         Late(k, tip, new, tmp, stg, snap, back, jou), faulty >= 2
  PROVE  Recovering(MigrationRecover(d), faulty, k, tip, new, tmp, stg, snap, back, jou)
<1>1. k \in Nat /\ k < MaxMigrations /\ k + 1 \in Number /\ k # 0
  BY Tips DEF Late
<1>2. d[Journal] = Noted("backed_up", k) /\ d[SnapshotBackup] = Absent
  BY <1>1 DEF At, Late
<1>3. /\ d[Journal] \notin {Absent, Empty} /\ d[Journal].phase = "backed_up"
      /\ d[Journal].migration = k + 1 /\ d[Journal].hadSnapshot = (k # 0)
  BY <1>1, <1>2, Notes
<1>4. MigrationRecover(d) = MigrationRecoverBackedUp(d) \o Remove(Journal)
  BY <1>3 DEF MigrationRecover, Phase
<1> DEFINE move == Move(SnapshotBackup, Snapshot)
           sql == Remove(Sql(k + 1))
           back1 == Remove(Snapshot)
           two == sql \o back1
           rest == Fail \o (move \o ClearingSql(k))
<1>5. IsPlan(move) /\ IsPlan(sql) /\ IsPlan(back1) /\ IsPlan(two) /\ IsPlan(Fail)
  BY StepsArePlans, PlansJoin
<1>13. IsPlan(Fail \o move)
  BY <1>5, PlansJoin
<1>14. IsPlan(two \o (Fail \o move))
  BY <1>5, <1>13, PlansJoin
<1>15. IsPlan(move \o ClearingSql(k))
  BY <1>5, RecoveryPlans, PlansJoin
<1>6. Check(Exists(d, SnapshotBackup)) = Fail
  BY <1>2, ConditionalPlan DEF Exists
<1>7. MigrationRecoverBackedUp(d) = (two \o (Fail \o move)) \o RemoveMigrationStaging(k + 1)
  BY <1>1, <1>3, <1>6 DEF MigrationRecoverBackedUp
<1>8. MigrationRecover(d) = (two \o (Fail \o move)) \o ClearingSql(k)
  <2> HIDE DEF two, move
  <2> QED BY <1>4, <1>14, <1>7, ClearingJoins
<1>9. (Fail \o move) \o ClearingSql(k) = rest
  <2> DEFINE last == ClearingSql(k)
             failing == Fail
             between == move
  <2>1. IsPlan(last) /\ IsPlan(failing) /\ IsPlan(between)
    BY <1>5, RecoveryPlans
  <2> HIDE DEF last, failing, between
  <2>2. (failing \o between) \o last = failing \o (between \o last)
    BY <2>1, PlansAssociate
  <2> QED BY <2>2 DEF last, failing, between
<1>10. IsPlan(rest) /\ Failing(rest)
  BY <1>15, Fails
<1>11. MigrationRecover(d) = sql \o (back1 \o rest)
  <2>1. (two \o (Fail \o move)) \o ClearingSql(k) = two \o rest
    <3> DEFINE failing == Fail \o move
           last == ClearingSql(k)
    <3>1. IsPlan(two) /\ IsPlan(failing) /\ IsPlan(last)
      BY <1>5, <1>13, RecoveryPlans
    <3> HIDE DEF two, failing, last
    <3>2. (two \o failing) \o last = two \o (failing \o last)
      BY ONLY <3>1, PlansAssociate
    <3> QED BY <1>9, <3>2 DEF failing, last
  <2>2. two \o rest = sql \o (back1 \o rest)
    <3>1. IsPlan(sql) /\ IsPlan(back1) /\ IsPlan(rest)
      BY <1>5, <1>10
    <3> HIDE DEF rest, sql, back1
    <3>2. (sql \o back1) \o rest = sql \o (back1 \o rest)
      BY ONLY <3>1, PlansAssociate
    <3> QED BY <3>2
  <2> QED BY <1>8, <2>1, <2>2
<1>12. Doomed(k, MigrationRecover(d))
  <2> HIDE DEF rest
  <2> QED BY <1>10, <1>11 DEF Doomed, DroppingSql, DroppingSnapshot
<1> QED BY <1>12 DEF Recovering

LEMMA RecoverFinishes ==
  ASSUME NEW d, NEW k, NEW tip, NEW new, NEW tmp, NEW stg, NEW snap, NEW back, NEW jou, NEW faulty,
         At(d, k, tip, new, tmp, stg, snap, back, jou),
         Installed(k, tip, new, tmp, stg, snap, back, jou)
  PROVE  Recovering(MigrationRecover(d), faulty, k, tip, new, tmp, stg, snap, back, jou)
<1>1. k \in Nat /\ k < MaxMigrations /\ k + 1 \in Number
  BY Tips DEF Installed
<1>2. /\ d[Journal] = Noted("installed", k) /\ d[Sql(k + 1)] = new /\ d[Snapshot] = new.to
      /\ d[SqlStaging(k + 1)] = Absent /\ d[SnapshotStaging] = Absent
  BY <1>1 DEF At, Installed
<1>3. /\ d[Journal] \notin {Absent, Empty} /\ d[Journal].phase = "installed"
      /\ d[Journal].migration = k + 1
  BY <1>1, <1>2, Notes
<1>4. MigrationRecover(d) = MigrationRecoverInstalled(d) \o Remove(Journal)
  BY <1>3 DEF MigrationRecover, Phase
<1>5. new # Absent /\ new.to # Absent
  BY FilesLead DEF Installed
<1>6. Check(Exists(d, Sql(k + 1)) /\ Exists(d, Snapshot)) = <<>>
  BY <1>2, <1>5, ConditionalPlan DEF Exists
<1>7. Check(~Exists(d, SqlStaging(k + 1)) /\ ~Exists(d, SnapshotStaging)) = <<>>
  BY <1>2, ConditionalPlan DEF Exists
<1>8. MigrationRecoverInstalled(d) = (<<>> \o <<>>) \o Remove(SnapshotBackup)
  BY <1>3, <1>6, <1>7 DEF MigrationRecoverInstalled
<1>9. MigrationRecover(d) = DroppingBackup
  BY <1>4, <1>8, NothingIsPlan, NothingFirst, StepsArePlans DEF DroppingBackup, Clearing
<1> QED BY <1>9 DEF Recovering

LEMMA RecoverIsCalm ==
  ASSUME NEW d, NEW k, NEW tip, NEW new, NEW tmp, NEW stg, NEW snap, NEW back, NEW jou, NEW faulty,
         At(d, k, tip, new, tmp, stg, snap, back, jou),
         Calm(k, tip, new, tmp, stg, snap, back, jou)
  PROVE  Recovering(MigrationRecover(d), faulty, k, tip, new, tmp, stg, snap, back, jou)
<1>1. d[Journal] \in {Absent, Empty}
  BY DEF At, Calm
<1>2. MigrationRecover(d) = MigrationRecoverWithoutJournal(d) \o Remove(Journal)
  BY <1>1 DEF MigrationRecover, Phase
<1>3. ~HasMigrationStaging(d) /\ ~Exists(d, SnapshotStaging) /\ ~Exists(d, SnapshotBackup)
  <2>1. \A m \in Number : d[SqlStaging(m)] = Absent
    BY MigrationAssumption DEF At, Calm, Number
  <2> QED BY <2>1 DEF HasMigrationStaging, Exists, At, Calm
<1>4. MigrationRecoverWithoutJournal(d) = <<>>
  BY <1>3, ConditionalPlan DEF MigrationRecoverWithoutJournal
<1>5. MigrationRecover(d) = Clearing
  BY <1>2, <1>4, NothingFirst, StepsArePlans DEF Clearing
<1> QED BY <1>5 DEF Recovering

LEMMA RecoverFits ==
  ASSUME NEW d, NEW k, NEW tip, NEW new, NEW tmp, NEW stg, NEW snap, NEW back, NEW jou, NEW faulty,
         At(d, k, tip, new, tmp, stg, snap, back, jou),
         Shape(k, tip, new, tmp, stg, snap, back, jou),
         Late(k, tip, new, tmp, stg, snap, back, jou) => faulty >= 2
  PROVE  Recovering(MigrationRecover(d), faulty, k, tip, new, tmp, stg, snap, back, jou)
BY RecoverPrepares, RecoverRollsBack, RecoverFails, RecoverFinishes, RecoverIsCalm DEF Shape

-----------------------------------------------------------------------------
(* What one step does to the disk.                                           *)

LEMMA MovesAre ==
  ASSUME NEW d, NEW from, NEW to
  PROVE  [d EXCEPT ![to] = d[from], ![from] = Absent]
           = [[d EXCEPT ![to] = d[from]] EXCEPT ![from] = Absent]
OBVIOUS

LEMMA MoveBack ==
  ASSUME NEW d, NEW k, NEW tip, NEW new, NEW tmp, NEW stg, NEW snap, NEW back, NEW jou,
         At(d, k, tip, new, tmp, stg, snap, back, jou)
  PROVE  LET e == [d EXCEPT ![Snapshot] = d[SnapshotBackup], ![SnapshotBackup] = Absent] IN
         At(e, k, tip, new, tmp, stg, back, Absent, jou) /\ Keeps(d, e, k)
<1> DEFINE f == [d EXCEPT ![Snapshot] = d[SnapshotBackup]]
           e == [f EXCEPT ![SnapshotBackup] = Absent]
<1>1. d[SnapshotBackup] = back
  BY DEF At
<1>2. At(f, k, tip, new, tmp, stg, back, back, jou) /\ Keeps(d, f, k)
  BY <1>1, PutSnapshot
<1> HIDE DEF f
<1>3. At(e, k, tip, new, tmp, stg, back, Absent, jou) /\ Keeps(f, e, k)
  BY <1>2, PutSnapshotBackup
<1>4. Keeps(d, e, k)
  BY <1>2, <1>3, KeepsBoth
<1>5. e = [d EXCEPT ![Snapshot] = d[SnapshotBackup], ![SnapshotBackup] = Absent]
  BY MovesAre DEF f
<1> QED BY <1>3, <1>4, <1>5

LEMMA MoveAside ==
  ASSUME NEW d, NEW k, NEW tip, NEW new, NEW tmp, NEW stg, NEW snap, NEW back, NEW jou,
         At(d, k, tip, new, tmp, stg, snap, back, jou)
  PROVE  LET e == [d EXCEPT ![SnapshotBackup] = d[Snapshot], ![Snapshot] = Absent] IN
         At(e, k, tip, new, tmp, stg, Absent, snap, jou) /\ Keeps(d, e, k)
<1> DEFINE f == [d EXCEPT ![SnapshotBackup] = d[Snapshot]]
           e == [f EXCEPT ![Snapshot] = Absent]
<1>1. d[Snapshot] = snap
  BY DEF At
<1>2. At(f, k, tip, new, tmp, stg, snap, snap, jou) /\ Keeps(d, f, k)
  BY <1>1, PutSnapshotBackup
<1> HIDE DEF f
<1>3. At(e, k, tip, new, tmp, stg, Absent, snap, jou) /\ Keeps(f, e, k)
  BY <1>2, PutSnapshot
<1>4. Keeps(d, e, k)
  BY <1>2, <1>3, KeepsBoth
<1>5. e = [d EXCEPT ![SnapshotBackup] = d[Snapshot], ![Snapshot] = Absent]
  BY MovesAre DEF f
<1> QED BY <1>3, <1>4, <1>5

LEMMA MoveSnapshotIn ==
  ASSUME NEW d, NEW k, NEW tip, NEW new, NEW tmp, NEW stg, NEW snap, NEW back, NEW jou,
         At(d, k, tip, new, tmp, stg, snap, back, jou)
  PROVE  LET e == [d EXCEPT ![Snapshot] = d[SnapshotStaging], ![SnapshotStaging] = Absent] IN
         At(e, k, tip, new, tmp, Absent, stg, back, jou) /\ Keeps(d, e, k)
<1> DEFINE f == [d EXCEPT ![Snapshot] = d[SnapshotStaging]]
           e == [f EXCEPT ![SnapshotStaging] = Absent]
<1>1. d[SnapshotStaging] = stg
  BY DEF At
<1>2. At(f, k, tip, new, tmp, stg, stg, back, jou) /\ Keeps(d, f, k)
  BY <1>1, PutSnapshot
<1> HIDE DEF f
<1>3. At(e, k, tip, new, tmp, Absent, stg, back, jou) /\ Keeps(f, e, k)
  BY <1>2, PutSnapshotStaging
<1>4. Keeps(d, e, k)
  BY <1>2, <1>3, KeepsBoth
<1>5. e = [d EXCEPT ![Snapshot] = d[SnapshotStaging], ![SnapshotStaging] = Absent]
  BY MovesAre DEF f
<1> QED BY <1>3, <1>4, <1>5

LEMMA MoveSqlIn ==
  ASSUME NEW d, NEW k, NEW tip, NEW new, NEW tmp, NEW stg, NEW snap, NEW back, NEW jou,
         At(d, k, tip, new, tmp, stg, snap, back, jou), k < MaxMigrations
  PROVE  LET e == [d EXCEPT ![Sql(k + 1)] = d[SqlStaging(k + 1)], ![SqlStaging(k + 1)] = Absent] IN
         At(e, k, tip, tmp, Absent, stg, snap, back, jou) /\ Keeps(d, e, k)
<1> DEFINE f == [d EXCEPT ![Sql(k + 1)] = d[SqlStaging(k + 1)]]
           e == [f EXCEPT ![SqlStaging(k + 1)] = Absent]
<1>1. d[SqlStaging(k + 1)] = tmp
  BY DEF At
<1>2. At(f, k, tip, tmp, tmp, stg, snap, back, jou) /\ Keeps(d, f, k)
  BY <1>1, PutSql
<1> HIDE DEF f
<1>3. At(e, k, tip, tmp, Absent, stg, snap, back, jou) /\ Keeps(f, e, k)
  BY <1>2, PutStaging
<1>4. Keeps(d, e, k)
  BY <1>2, <1>3, KeepsBoth
<1>5. e = [d EXCEPT ![Sql(k + 1)] = d[SqlStaging(k + 1)], ![SqlStaging(k + 1)] = Absent]
  BY MovesAre DEF f
<1> QED BY <1>3, <1>4, <1>5

-----------------------------------------------------------------------------
(* Every step of a plan leads to what the next step expects.                 *)

Standing(d, doing, q, faulty, kept) ==
  \E k, tip, new, tmp, stg, snap, back, jou :
    kept \subseteq 1 .. k /\ Stands(d, doing, q, faulty, k, tip, new, tmp, stg, snap, back, jou)

LEMMA RestoredHasShape ==
  ASSUME NEW d, NEW k, NEW tip, NEW new, NEW tmp, NEW stg, NEW snap, NEW back, NEW jou,
         At(d, k, tip, new, tmp, stg, snap, back, jou),
         Restored(k, tip, new, tmp, stg, snap, back, jou)
  PROVE  Shape(k, tip, new, tmp, stg, snap, back, jou)
BY Tips DEF Restored, Shape, Prepared, BackedUp, Late

LEMMA UnrestoredHasShape ==
  ASSUME NEW k, NEW tip, NEW new, NEW tmp, NEW stg, NEW snap, NEW back, NEW jou,
         Unrestored(k, tip, new, tmp, stg, snap, back, jou)
  PROVE  Shape(k, tip, new, tmp, stg, snap, back, jou)
BY DEF Unrestored, Shape, Prepared, BackedUp


\* The journal goes, and the files are as a finished command leaves them.
LEMMA JournalGoes ==
  ASSUME NEW d, NEW k, NEW tip, NEW new, NEW tmp, NEW stg, NEW snap, NEW back, NEW jou,
         NEW doing, NEW faulty, NEW kept,
         At(d, k, tip, new, tmp, stg, snap, back, jou), kept \subseteq 1 .. k,
         tmp = Absent, stg = Absent, back = Absent,
         \/ new = Absent /\ snap = tip /\ doing # "swap"
         \/ k < MaxMigrations /\ new \in SqlFile /\ snap = new.to
  PROVE  Standing([d EXCEPT ![Journal] = Absent], doing, <<>>, faulty, kept)
<1> DEFINE e == [d EXCEPT ![Journal] = Absent]
<1>1. At(e, k, tip, new, Absent, Absent, snap, Absent, Absent)
  BY PutJournal
<1> HIDE DEF e
<1>2. k \in Nat
  BY MigrationAssumption DEF At
<1>3. \A n, t, s : Accounted(doing, faulty, n, t, Absent, Absent, Absent, s, Absent, Absent)
        \/ ~(n \in Nat)
  <2>1. \A n \in Nat : n < MaxMigrations => Absent # Noted("backed_up", n)
    BY Notes
  <2> QED BY <2>1 DEF Accounted
<1>4. CASE new = Absent /\ snap = tip /\ doing # "swap"
  <2>1. Calm(k, tip, Absent, Absent, Absent, tip, Absent, Absent)
    BY DEF Calm
  <2>2. Stands(e, doing, <<>>, faulty, k, tip, Absent, Absent, Absent, tip, Absent, Absent)
    BY <1>1, <1>2, <1>3, <1>4, <2>1 DEF Stands, Shape, Follows, Recovering
  <2>3. Standing(e, doing, <<>>, faulty, kept)
    BY <2>2 DEF Standing
  <2> QED BY <2>3 DEF e
<1>5. CASE k < MaxMigrations /\ new \in SqlFile /\ snap = new.to
  <2>1. At(e, k + 1, snap, Absent, Absent, Absent, snap, Absent, Absent)
    BY <1>1, <1>5, Promoted
  <2>2. Calm(k + 1, snap, Absent, Absent, Absent, snap, Absent, Absent)
    BY DEF Calm
  <2>3. doing = "swap" =>
          \E file \in SqlFile :
            Committing(<<>>, file, k + 1, snap, Absent, Absent, Absent, snap, Absent, Absent)
    <3>1. k + 1 # 0
      BY <1>2
    <3> QED BY <1>5, <2>2, <3>1 DEF Committing
  <2>4. Accounted(doing, faulty, k + 1, snap, Absent, Absent, Absent, snap, Absent, Absent)
    BY <1>2, <1>3
  <2>5. Stands(e, doing, <<>>, faulty, k + 1, snap, Absent, Absent, Absent, snap, Absent, Absent)
    BY <2>1, <2>2, <2>3, <2>4 DEF Stands, Shape, Follows, Recovering
  <2>6. kept \subseteq 1 .. (k + 1)
    BY <1>2
  <2>7. Standing(e, doing, <<>>, faulty, kept)
    BY <2>5, <2>6 DEF Standing
  <2> QED BY <2>7 DEF e
<1> QED BY <1>4, <1>5

LEMMA RecoveringStep ==
  ASSUME NEW d, NEW k, NEW tip, NEW new, NEW tmp, NEW stg, NEW snap, NEW back, NEW jou,
         NEW doing \in {"recover", "undo"}, NEW q, NEW faulty, NEW kept, kept \subseteq 1 .. k,
         Stands(d, doing, q, faulty, k, tip, new, tmp, stg, snap, back, jou),
         q # <<>>, ~Failing(q)
  PROVE  /\ Standing(Execute(d, Head(q)), doing, Tail(q), faulty, kept)
         /\ Keeps(d, Execute(d, Head(q)), k)
<1> DEFINE e == Execute(d, Head(q))
           r == Tail(q)
           Next(n, t, a, b, c) == Stands(e, doing, r, faulty, k, tip, n, t, a, b, c, jou)
<1>1. /\ At(d, k, tip, new, tmp, stg, snap, back, jou)
      /\ Accounted(doing, faulty, k, tip, new, tmp, stg, snap, back, jou)
      /\ Recovering(q, faulty, k, tip, new, tmp, stg, snap, back, jou)
  BY DEF Stands, Follows
<1>2. k \in Nat /\ (k = 0 <=> tip = Absent)
  BY <1>1, Tips
<1>3. ASSUME NEW n, NEW t, NEW a, NEW b, NEW c, Next(n, t, a, b, c)
      PROVE  Standing(e, doing, r, faulty, kept)
  BY <1>3 DEF Standing
<1> USE DEF Follows
<1>4. CASE q = Clearing /\ Calm(k, tip, new, tmp, stg, snap, back, jou)
  <2>1. e = [d EXCEPT ![Journal] = Absent] /\ r = <<>>
    BY <1>4, RecoverySteps DEF Does
  <2>2. Keeps(d, [d EXCEPT ![Journal] = Absent], k)
    BY <1>1, PutJournal
  <2>3. /\ tmp = Absent /\ stg = Absent /\ back = Absent
        /\ \/ new = Absent /\ snap = tip
           \/ k < MaxMigrations /\ new \in SqlFile /\ snap = new.to
    BY <1>4 DEF Calm
  <2>4. Standing([d EXCEPT ![Journal] = Absent], doing, <<>>, faulty, kept)
    BY <1>1, <2>3, JournalGoes
  <2> QED BY <2>1, <2>2, <2>4
<1>5. CASE /\ q = Clearing /\ tmp = Absent /\ stg = Absent
           /\ Restored(k, tip, new, tmp, stg, snap, back, jou)
  <2>1. e = [d EXCEPT ![Journal] = Absent] /\ r = <<>>
    BY <1>5, RecoverySteps DEF Does
  <2>2. Keeps(d, [d EXCEPT ![Journal] = Absent], k)
    BY <1>1, PutJournal
  <2>3. /\ tmp = Absent /\ stg = Absent /\ back = Absent
        /\ \/ new = Absent /\ snap = tip
           \/ k < MaxMigrations /\ new \in SqlFile /\ snap = new.to
    BY <1>5 DEF Restored
  <2>4. Standing([d EXCEPT ![Journal] = Absent], doing, <<>>, faulty, kept)
    BY <1>1, <2>3, JournalGoes
  <2> QED BY <2>1, <2>2, <2>4
<1>6. CASE q = Clearing /\ back = Absent /\ Installed(k, tip, new, tmp, stg, snap, back, jou)
  <2>1. e = [d EXCEPT ![Journal] = Absent] /\ r = <<>>
    BY <1>6, RecoverySteps DEF Does
  <2>2. Keeps(d, [d EXCEPT ![Journal] = Absent], k)
    BY <1>1, PutJournal
  <2>3. /\ tmp = Absent /\ stg = Absent /\ back = Absent
        /\ \/ new = Absent /\ snap = tip
           \/ k < MaxMigrations /\ new \in SqlFile /\ snap = new.to
    BY <1>6 DEF Installed
  <2>4. Standing([d EXCEPT ![Journal] = Absent], doing, <<>>, faulty, kept)
    BY <1>1, <2>3, JournalGoes
  <2> QED BY <2>1, <2>2, <2>4
<1>7. CASE /\ q = ClearingSnapshot /\ tmp = Absent
           /\ Restored(k, tip, new, tmp, stg, snap, back, jou)
  <2>1. e = [d EXCEPT ![SnapshotStaging] = Absent] /\ r = Clearing
    BY <1>7, RecoverySteps DEF Does
  <2>2. At(e, k, tip, new, tmp, Absent, snap, back, jou) /\ Keeps(d, e, k)
    BY <1>1, <2>1, PutSnapshotStaging
  <2> HIDE DEF e, r
  <2>3. Restored(k, tip, new, tmp, Absent, snap, back, jou)
    BY <1>7 DEF Restored
  <2>4. Shape(k, tip, new, tmp, Absent, snap, back, jou)
    BY <2>2, <2>3, RestoredHasShape
  <2>5. Recovering(r, faulty, k, tip, new, tmp, Absent, snap, back, jou)
    BY <1>7, <2>1, <2>3 DEF Recovering
  <2>6. Accounted(doing, faulty, k, tip, new, tmp, Absent, snap, back, jou)
    BY <1>1 DEF Accounted
  <2>7. Next(new, tmp, Absent, snap, back)
    BY <2>2, <2>4, <2>5, <2>6 DEF Stands
  <2> QED BY <1>3, <2>2, <2>7 DEF e, r
<1>8. CASE q = ClearingSql(k) /\ Restored(k, tip, new, tmp, stg, snap, back, jou)
  <2>1. e = [d EXCEPT ![SqlStaging(k + 1)] = Absent] /\ r = ClearingSnapshot
    BY <1>8, RecoverySteps DEF Does
  <2>2. At(e, k, tip, new, Absent, stg, snap, back, jou) /\ Keeps(d, e, k)
    BY <1>1, <1>8, <2>1, PutStaging DEF Restored
  <2> HIDE DEF e, r
  <2>3. Restored(k, tip, new, Absent, stg, snap, back, jou)
    BY <1>8 DEF Restored
  <2>4. Shape(k, tip, new, Absent, stg, snap, back, jou)
    BY <2>2, <2>3, RestoredHasShape
  <2>5. Recovering(r, faulty, k, tip, new, Absent, stg, snap, back, jou)
    BY <1>8, <2>1, <2>3 DEF Recovering
  <2>6. Accounted(doing, faulty, k, tip, new, Absent, stg, snap, back, jou)
    BY <1>1 DEF Accounted
  <2>7. Next(new, Absent, stg, snap, back)
    BY <2>2, <2>4, <2>5, <2>6 DEF Stands
  <2> QED BY <1>3, <2>2, <2>7 DEF e, r
<1>9. CASE q = Restoring(k) /\ Unrestored(k, tip, new, tmp, stg, snap, back, jou)
  <2>1. e = [d EXCEPT ![Snapshot] = d[SnapshotBackup], ![SnapshotBackup] = Absent]
        /\ r = ClearingSql(k)
    BY <1>9, RecoverySteps DEF Renames
  <2>2. At(e, k, tip, new, tmp, stg, back, Absent, jou) /\ Keeps(d, e, k)
    BY <1>1, <2>1, MoveBack
  <2> HIDE DEF e, r
  <2>3. Restored(k, tip, new, tmp, stg, back, Absent, jou)
    BY <1>9 DEF Restored, Unrestored
  <2>4. Shape(k, tip, new, tmp, stg, back, Absent, jou)
    BY <2>2, <2>3, RestoredHasShape
  <2>5. Recovering(r, faulty, k, tip, new, tmp, stg, back, Absent, jou)
    BY <2>1, <2>3 DEF Recovering
  <2>6. Accounted(doing, faulty, k, tip, new, tmp, stg, back, Absent, jou)
    BY <1>1, <2>3 DEF Accounted, Restored
  <2>7. Next(new, tmp, stg, back, Absent)
    BY <2>2, <2>4, <2>5, <2>6 DEF Stands
  <2> QED BY <1>3, <2>2, <2>7 DEF e, r
<1>10. CASE /\ q = DroppingSnapshot(Returning(k)) /\ new = Absent
            /\ BackedUp(k, tip, new, tmp, stg, snap, back, jou)
  <2>1. e = [d EXCEPT ![Snapshot] = Absent] /\ r = Returning(k)
    BY <1>10, DroppingSteps, RecoveryPlans DEF Does
  <2> DEFINE f == [d EXCEPT ![Snapshot] = Absent]
  <2>8. At(f, k, tip, new, tmp, stg, Absent, back, jou) /\ Keeps(d, f, k)
    BY <1>1, PutSnapshot
  <2>2. At(e, k, tip, new, tmp, stg, Absent, back, jou) /\ Keeps(d, e, k)
    BY <2>1, <2>8
  <2> HIDE DEF e, r
  <2>3. IF k = 0 THEN Restored(k, tip, new, tmp, stg, Absent, back, jou)
        ELSE Unrestored(k, tip, new, tmp, stg, Absent, back, jou)
    BY <1>2, <1>10 DEF Restored, Unrestored, BackedUp
  <2>4. Shape(k, tip, new, tmp, stg, Absent, back, jou)
    BY <2>2, <2>3, RestoredHasShape, UnrestoredHasShape
  <2>5. Recovering(r, faulty, k, tip, new, tmp, stg, Absent, back, jou)
    BY <2>1, <2>3 DEF Recovering, Returning
  <2>6. Accounted(doing, faulty, k, tip, new, tmp, stg, Absent, back, jou)
    BY <1>1, <1>2, <1>10 DEF Accounted, BackedUp
  <2>7. Next(new, tmp, stg, Absent, back)
    BY <2>2, <2>4, <2>5, <2>6 DEF Stands
  <2> QED BY <1>3, <2>2, <2>7 DEF e, r
<1>11. CASE /\ q = DroppingSql(k, Returning(k))
            /\ BackedUp(k, tip, new, tmp, stg, snap, back, jou)
  <2>1. IsPlan(Returning(k))
    BY RecoveryPlans
  <2>2. e = [d EXCEPT ![Sql(k + 1)] = Absent] /\ r = DroppingSnapshot(Returning(k))
    BY <1>11, <2>1, DroppingSteps DEF Does
  <2>3. At(e, k, tip, Absent, tmp, stg, snap, back, jou) /\ Keeps(d, e, k)
    BY <1>1, <1>11, <2>2, PutSql DEF BackedUp
  <2> HIDE DEF e, r
  <2>4. BackedUp(k, tip, Absent, tmp, stg, snap, back, jou)
    BY <1>11 DEF BackedUp
  <2>5. Recovering(r, faulty, k, tip, Absent, tmp, stg, snap, back, jou)
    BY <2>2, <2>4 DEF Recovering
  <2>6. Accounted(doing, faulty, k, tip, Absent, tmp, stg, snap, back, jou)
    BY <1>1 DEF Accounted
  <2>7. Next(Absent, tmp, stg, snap, back)
    BY <2>3, <2>4, <2>5, <2>6 DEF Stands, Shape
  <2> QED BY <1>3, <2>3, <2>7 DEF e, r
<1>12. CASE q = DroppingBackup /\ Installed(k, tip, new, tmp, stg, snap, back, jou)
  <2>1. e = [d EXCEPT ![SnapshotBackup] = Absent] /\ r = Clearing
    BY <1>12, RecoverySteps DEF Does
  <2>2. At(e, k, tip, new, tmp, stg, snap, Absent, jou) /\ Keeps(d, e, k)
    BY <1>1, <2>1, PutSnapshotBackup
  <2> HIDE DEF e, r
  <2>3. Installed(k, tip, new, tmp, stg, snap, Absent, jou)
    BY <1>12 DEF Installed
  <2>4. Recovering(r, faulty, k, tip, new, tmp, stg, snap, Absent, jou)
    BY <2>1, <2>3 DEF Recovering
  <2>5. Accounted(doing, faulty, k, tip, new, tmp, stg, snap, Absent, jou)
    BY <1>1, <1>12, PhasesDiffer DEF Accounted, Installed
  <2>6. Next(new, tmp, stg, snap, Absent)
    BY <2>2, <2>3, <2>4, <2>5 DEF Stands, Shape
  <2> QED BY <1>3, <2>2, <2>6 DEF e, r
<1>13. CASE faulty >= 2 /\ Doomed(k, q) /\ Late(k, tip, new, tmp, stg, snap, back, jou)
  <2>1. PICK rest : /\ IsPlan(rest) /\ Failing(rest)
                    /\ q \in {rest, DroppingSnapshot(rest), DroppingSql(k, rest)}
    BY <1>13 DEF Doomed
  <2>2. CASE q = DroppingSnapshot(rest)
    <3>1. e = [d EXCEPT ![Snapshot] = Absent] /\ r = rest
      BY <2>1, <2>2, DroppingSteps DEF Does
    <3> DEFINE f == [d EXCEPT ![Snapshot] = Absent]
    <3>8. At(f, k, tip, new, tmp, stg, Absent, back, jou) /\ Keeps(d, f, k)
      BY <1>1, PutSnapshot
    <3>2. At(e, k, tip, new, tmp, stg, Absent, back, jou) /\ Keeps(d, e, k)
      BY <3>1, <3>8
    <3> HIDE DEF e, r
    <3>3. Late(k, tip, new, tmp, stg, Absent, back, jou) /\ Doomed(k, r)
      BY <1>13, <2>1, <3>1 DEF Late, Doomed
    <3>4. Accounted(doing, faulty, k, tip, new, tmp, stg, Absent, back, jou)
      BY <1>1, <1>13 DEF Accounted
    <3>5. Next(new, tmp, stg, Absent, back)
      BY <1>13, <3>2, <3>3, <3>4 DEF Stands, Shape, Recovering
    <3> QED BY <1>3, <3>2, <3>5 DEF e, r
  <2>3. CASE q = DroppingSql(k, rest)
    <3>1. IsPlan(rest)
      BY <2>1
    <3>2. e = [d EXCEPT ![Sql(k + 1)] = Absent] /\ r = DroppingSnapshot(rest)
      BY <2>3, <3>1, DroppingSteps DEF Does
    <3>3. At(e, k, tip, Absent, tmp, stg, snap, back, jou) /\ Keeps(d, e, k)
      BY <1>1, <1>13, <3>2, PutSql DEF Late
    <3> HIDE DEF e, r
    <3>4. Late(k, tip, Absent, tmp, stg, snap, back, jou) /\ Doomed(k, r)
      BY <1>13, <2>1, <3>2 DEF Late, Doomed
    <3>5. Accounted(doing, faulty, k, tip, Absent, tmp, stg, snap, back, jou)
      BY <1>1, <1>13 DEF Accounted
    <3>6. Next(Absent, tmp, stg, snap, back)
      BY <1>13, <3>3, <3>4, <3>5 DEF Stands, Shape, Recovering
    <3> QED BY <1>3, <3>3, <3>6 DEF e, r
  <2> QED BY <2>1, <2>2, <2>3
<1> QED BY <1>1, <1>4, <1>5, <1>6, <1>7, <1>8, <1>9, <1>10, <1>11, <1>12, <1>13 DEF Recovering

\* What a commit has done so far is a shape the next recovery knows.
LEMMA CommittingStands ==
  ASSUME NEW d, NEW k, NEW tip, NEW new, NEW tmp, NEW stg, NEW snap, NEW back, NEW jou,
         NEW q, NEW file \in SqlFile, NEW faulty, NEW kept, kept \subseteq 1 .. k,
         At(d, k, tip, new, tmp, stg, snap, back, jou),
         Committing(q, file, k, tip, new, tmp, stg, snap, back, jou)
  PROVE  Standing(d, "swap", q, faulty, kept)
<1>1. k \in Nat /\ (k = 0 <=> tip = Absent)
  BY Tips
<1>2. Shape(k, tip, new, tmp, stg, snap, back, jou)
  BY DEF Committing, Shape
<1>3. k < MaxMigrations => Noted("backed_up", k) \notin {Absent, Empty}
  BY <1>1, Notes
<1>4. k # 0 /\ k < MaxMigrations /\ jou = Noted("backed_up", k) => back # Absent
  <2>1. Prepared(k, tip, new, tmp, stg, snap, back, jou) => jou # Noted("backed_up", k)
    BY PhasesDiffer DEF Prepared
  <2>2. Installed(k, tip, new, tmp, stg, snap, back, jou) => jou # Noted("backed_up", k)
    BY PhasesDiffer DEF Installed
  <2>3. k < MaxMigrations /\ Calm(k, tip, new, tmp, stg, snap, back, jou) => jou # Noted("backed_up", k)
    BY <1>3 DEF Calm
  <2>4. k # 0 /\ BackedUp(k, tip, new, tmp, stg, snap, back, jou) => back # Absent
    BY <1>1 DEF BackedUp
  <2> QED BY <2>1, <2>2, <2>3, <2>4 DEF Committing
<1>5. Accounted("swap", faulty, k, tip, new, tmp, stg, snap, back, jou)
  BY <1>4 DEF Accounted
<1>6. Follows("swap", q, faulty, k, tip, new, tmp, stg, snap, back, jou)
  BY DEF Follows
<1> QED BY <1>2, <1>5, <1>6 DEF Standing, Stands

LEMMA CommittingStep ==
  ASSUME NEW d, NEW k, NEW tip, NEW new, NEW tmp, NEW stg, NEW snap, NEW back, NEW jou,
         NEW q, NEW faulty, NEW kept, kept \subseteq 1 .. k,
         Stands(d, "swap", q, faulty, k, tip, new, tmp, stg, snap, back, jou), q # <<>>
  PROVE  /\ Standing(Execute(d, Head(q)), "swap", Tail(q), faulty, kept)
         /\ Keeps(d, Execute(d, Head(q)), k) /\ ~Failing(q)
<1> DEFINE e == Execute(d, Head(q))
           r == Tail(q)
<1>1. /\ At(d, k, tip, new, tmp, stg, snap, back, jou)
      /\ \E file \in SqlFile : Committing(q, file, k, tip, new, tmp, stg, snap, back, jou)
  BY DEF Stands, Follows
<1>2. k \in Nat /\ (k = 0 <=> tip = Absent)
  BY <1>1, Tips
<1>3. PICK file \in SqlFile : Committing(q, file, k, tip, new, tmp, stg, snap, back, jou)
  BY <1>1
<1>4. ASSUME NEW x, NEW n, NEW t, NEW a, NEW b, NEW c, NEW j, At(x, k, tip, n, t, a, b, c, j),
             NEW s, Committing(s, file, k, tip, n, t, a, b, c, j)
      PROVE  Standing(x, "swap", s, faulty, kept)
  BY <1>4, CommittingStands
<1>5. CASE /\ q = Beginning(k, file) /\ k < MaxMigrations /\ jou = Absent
           /\ Calm(k, tip, new, tmp, stg, snap, back, jou)
  <2>5. Does(Beginning(k, file), Journal, Empty, Preparing(k, file))
    BY CommitSteps
  <2>1. e = [d EXCEPT ![Journal] = Empty] /\ r = Preparing(k, file) /\ ~Failing(q)
    BY <1>5, <2>5 DEF Does
  <2> HIDE DEF e, r
  <2> DEFINE f == [d EXCEPT ![Journal] = Empty]
  <2>2. At(f, k, tip, new, tmp, stg, snap, back, Empty) /\ Keeps(d, f, k)
    BY <1>1, PutJournal
  <2>3. Committing(r, file, k, tip, new, tmp, stg, snap, back, Empty)
    BY <1>5, <2>1 DEF Committing, Calm
  <2> HIDE DEF f
  <2>4. Standing(f, "swap", r, faulty, kept)
    BY <1>4, <2>2, <2>3
  <2> QED BY <2>1, <2>2, <2>4 DEF e, r, f
<1>6. CASE /\ q = Preparing(k, file) /\ k < MaxMigrations
           /\ Calm(k, tip, new, tmp, stg, snap, back, jou)
  <2>1. e = [d EXCEPT ![Journal] = Noted("prepared", k)] /\ r = WritingSql(k, file) /\ ~Failing(q)
    BY <1>6, CommitSteps DEF Does
  <2> HIDE DEF e, r
  <2> DEFINE f == [d EXCEPT ![Journal] = Noted("prepared", k)]
  <2>2. At(f, k, tip, new, tmp, stg, snap, back, Noted("prepared", k)) /\ Keeps(d, f, k)
    BY <1>1, PutJournal
  <2>3. Committing(r, file, k, tip, new, tmp, stg, snap, back, Noted("prepared", k))
    BY <1>6, <2>1 DEF Committing, Calm, Prepared
  <2> HIDE DEF f
  <2>4. Standing(f, "swap", r, faulty, kept)
    BY <1>4, <2>2, <2>3
  <2> QED BY <2>1, <2>2, <2>4 DEF e, r, f
<1>7. CASE /\ q = WritingSql(k, file) /\ snap = tip /\ back = Absent /\ tmp = Absent /\ stg = Absent
           /\ Prepared(k, tip, new, tmp, stg, snap, back, jou)
  <2>5. Does(WritingSql(k, file), SqlStaging(k + 1), file, WritingSnapshot(k, file))
    BY CommitSteps
  <2>1. e = [d EXCEPT ![SqlStaging(k + 1)] = file] /\ r = WritingSnapshot(k, file) /\ ~Failing(q)
    BY <1>7, <2>5 DEF Does
  <2> HIDE DEF e, r
  <2> DEFINE f == [d EXCEPT ![SqlStaging(k + 1)] = file]
  <2>2. At(f, k, tip, new, file, stg, snap, back, jou) /\ Keeps(d, f, k)
    BY <1>1, <1>7, PutStaging DEF Prepared
  <2>3. Committing(r, file, k, tip, new, file, stg, snap, back, jou)
    BY <1>7, <2>1 DEF Committing, Prepared
  <2> HIDE DEF f
  <2>4. Standing(f, "swap", r, faulty, kept)
    BY <1>4, <2>2, <2>3
  <2> QED BY <2>1, <2>2, <2>4 DEF e, r, f
<1>8. CASE /\ q = WritingSnapshot(k, file) /\ snap = tip /\ back = Absent /\ tmp = file
           /\ Prepared(k, tip, new, tmp, stg, snap, back, jou)
  <2>5. Does(WritingSnapshot(k, file), SnapshotStaging, file.to, BackingUp(k))
    BY CommitSteps
  <2>1. e = [d EXCEPT ![SnapshotStaging] = file.to] /\ r = BackingUp(k) /\ ~Failing(q)
    BY <1>8, <2>5 DEF Does
  <2> HIDE DEF e, r
  <2> DEFINE f == [d EXCEPT ![SnapshotStaging] = file.to]
  <2>2. At(f, k, tip, new, tmp, file.to, snap, back, jou) /\ Keeps(d, f, k)
    BY <1>1, PutSnapshotStaging
  <2>3. Committing(r, file, k, tip, new, tmp, file.to, snap, back, jou)
    <3>1. CASE k = 0
      BY <1>2, <1>8, <2>1, <3>1 DEF Committing, Prepared, BackingUp
    <3>2. CASE k # 0
      BY <1>8, <2>1, <3>2 DEF Committing, Prepared, BackingUp
    <3> QED BY <3>1, <3>2
  <2> HIDE DEF f
  <2>4. Standing(f, "swap", r, faulty, kept)
    BY <1>4, <2>2, <2>3
  <2> QED BY <2>1, <2>2, <2>4 DEF e, r, f
<1>9. CASE /\ q = SettingAside(k) /\ snap = tip /\ back = Absent /\ tmp = file /\ stg = file.to
           /\ Prepared(k, tip, new, tmp, stg, snap, back, jou)
  <2>1. e = [d EXCEPT ![SnapshotBackup] = d[Snapshot], ![Snapshot] = Absent]
        /\ r = NotingBackup(k) /\ ~Failing(q)
    BY <1>9, CommitSteps DEF Renames
  <2> HIDE DEF e, r
  <2> DEFINE f == [d EXCEPT ![SnapshotBackup] = d[Snapshot], ![Snapshot] = Absent]
  <2>2. At(f, k, tip, new, tmp, stg, Absent, snap, jou) /\ Keeps(d, f, k)
    BY <1>1, MoveAside
  <2>3. Committing(r, file, k, tip, new, tmp, stg, Absent, snap, jou)
    BY <1>9, <2>1 DEF Committing, Prepared
  <2> HIDE DEF f
  <2>4. Standing(f, "swap", r, faulty, kept)
    BY <1>4, <2>2, <2>3
  <2> QED BY <2>1, <2>2, <2>4 DEF e, r, f
<1>10. CASE /\ q = NotingBackup(k) /\ snap = Absent /\ back = tip /\ tmp = file /\ stg = file.to
            /\ Prepared(k, tip, new, tmp, stg, snap, back, jou)
  <2>1. e = [d EXCEPT ![Journal] = Noted("backed_up", k)] /\ r = InstallingSql(k) /\ ~Failing(q)
    BY <1>10, CommitSteps DEF Does
  <2> HIDE DEF e, r
  <2> DEFINE f == [d EXCEPT ![Journal] = Noted("backed_up", k)]
  <2>2. At(f, k, tip, new, tmp, stg, snap, back, Noted("backed_up", k)) /\ Keeps(d, f, k)
    BY <1>1, PutJournal
  <2>3. Committing(r, file, k, tip, new, tmp, stg, snap, back, Noted("backed_up", k))
    BY <1>10, <2>1 DEF Committing, Prepared, BackedUp
  <2> HIDE DEF f
  <2>4. Standing(f, "swap", r, faulty, kept)
    BY <1>4, <2>2, <2>3
  <2> QED BY <2>1, <2>2, <2>4 DEF e, r, f
<1>11. CASE /\ q = InstallingSql(k) /\ new = Absent /\ tmp = file /\ stg = file.to
            /\ BackedUp(k, tip, new, tmp, stg, snap, back, jou)
  <2>1. e = [d EXCEPT ![Sql(k + 1)] = d[SqlStaging(k + 1)], ![SqlStaging(k + 1)] = Absent]
        /\ r = InstallingSnapshot(k) /\ ~Failing(q)
    BY <1>11, CommitSteps DEF Renames
  <2> HIDE DEF e, r
  <2> DEFINE f == [d EXCEPT ![Sql(k + 1)] = d[SqlStaging(k + 1)], ![SqlStaging(k + 1)] = Absent]
  <2>2. At(f, k, tip, tmp, Absent, stg, snap, back, jou) /\ Keeps(d, f, k)
    BY <1>1, <1>11, MoveSqlIn DEF BackedUp
  <2>3. Committing(r, file, k, tip, tmp, Absent, stg, snap, back, jou)
    BY <1>11, <2>1 DEF Committing, BackedUp
  <2> HIDE DEF f
  <2>4. Standing(f, "swap", r, faulty, kept)
    BY <1>4, <2>2, <2>3
  <2> QED BY <2>1, <2>2, <2>4 DEF e, r, f
<1>12. CASE /\ q = InstallingSnapshot(k) /\ new = file /\ tmp = Absent /\ stg = file.to
            /\ BackedUp(k, tip, new, tmp, stg, snap, back, jou)
  <2>1. e = [d EXCEPT ![Snapshot] = d[SnapshotStaging], ![SnapshotStaging] = Absent]
        /\ r = Completing(k) /\ ~Failing(q)
    BY <1>12, CommitSteps DEF Renames
  <2> HIDE DEF e, r
  <2> DEFINE f == [d EXCEPT ![Snapshot] = d[SnapshotStaging], ![SnapshotStaging] = Absent]
  <2>2. At(f, k, tip, new, tmp, Absent, stg, back, jou) /\ Keeps(d, f, k)
    BY <1>1, MoveSnapshotIn
  <2>3. Committing(r, file, k, tip, new, tmp, Absent, stg, back, jou)
    BY <1>12, <2>1, FilesLead DEF Committing, BackedUp
  <2> HIDE DEF f
  <2>4. Standing(f, "swap", r, faulty, kept)
    BY <1>4, <2>2, <2>3
  <2> QED BY <2>1, <2>2, <2>4 DEF e, r, f
<1>13. CASE /\ q = Completing(k) /\ new = file /\ tmp = Absent /\ stg = Absent /\ snap = file.to
            /\ BackedUp(k, tip, new, tmp, stg, snap, back, jou)
  <2>1. e = [d EXCEPT ![Journal] = Noted("installed", k)] /\ r = DroppingBackup /\ ~Failing(q)
    BY <1>13, CommitSteps DEF Does
  <2> HIDE DEF e, r
  <2> DEFINE f == [d EXCEPT ![Journal] = Noted("installed", k)]
  <2>2. At(f, k, tip, new, tmp, stg, snap, back, Noted("installed", k)) /\ Keeps(d, f, k)
    BY <1>1, PutJournal
  <2>3. Committing(r, file, k, tip, new, tmp, stg, snap, back, Noted("installed", k))
    BY <1>13, <2>1 DEF Committing, BackedUp, Installed
  <2> HIDE DEF f
  <2>4. Standing(f, "swap", r, faulty, kept)
    BY <1>4, <2>2, <2>3
  <2> QED BY <2>1, <2>2, <2>4 DEF e, r, f
<1>14. CASE q = DroppingBackup /\ Installed(k, tip, new, tmp, stg, snap, back, jou)
  <2>1. e = [d EXCEPT ![SnapshotBackup] = Absent] /\ r = Clearing /\ ~Failing(q)
    BY <1>14, RecoverySteps DEF Does
  <2> HIDE DEF e, r
  <2> DEFINE f == [d EXCEPT ![SnapshotBackup] = Absent]
  <2>2. At(f, k, tip, new, tmp, stg, snap, Absent, jou) /\ Keeps(d, f, k)
    BY <1>1, PutSnapshotBackup
  <2>3. Committing(r, file, k, tip, new, tmp, stg, snap, Absent, jou)
    BY <1>14, <2>1 DEF Committing, Installed
  <2> HIDE DEF f
  <2>4. Standing(f, "swap", r, faulty, kept)
    BY <1>4, <2>2, <2>3
  <2> QED BY <2>1, <2>2, <2>4 DEF e, r, f
<1>15. CASE q = Clearing /\ back = Absent /\ Installed(k, tip, new, tmp, stg, snap, back, jou)
  <2>1. e = [d EXCEPT ![Journal] = Absent] /\ r = <<>> /\ ~Failing(q)
    BY <1>15, RecoverySteps DEF Does
  <2>2. Keeps(d, [d EXCEPT ![Journal] = Absent], k)
    BY <1>1, PutJournal
  <2>3. /\ tmp = Absent /\ stg = Absent /\ back = Absent
        /\ k < MaxMigrations /\ new \in SqlFile /\ snap = new.to
    BY <1>15 DEF Installed
  <2>4. Standing([d EXCEPT ![Journal] = Absent], "swap", <<>>, faulty, kept)
    BY <1>1, <2>3, JournalGoes
  <2> QED BY <2>1, <2>2, <2>4
<1> HIDE DEF e, r
<1>16. Standing(e, "swap", r, faulty, kept) /\ Keeps(d, e, k) /\ ~Failing(q)
  BY <1>3, <1>5, <1>6, <1>7, <1>8, <1>9, <1>10, <1>11, <1>12, <1>13, <1>14, <1>15 DEF Committing, e, r
<1> QED BY <1>16 DEF e, r

\* The steps of MigrationSwap, read from the first to the last.
LEMMA SwapIsTaken ==
  ASSUME NEW d, NEW k, NEW tip, NEW new, NEW tmp, NEW stg, NEW snap, NEW back, NEW jou, NEW file,
         At(d, k, tip, new, tmp, stg, snap, back, jou), k < MaxMigrations,
         Calm(k, tip, new, tmp, stg, snap, back, jou)
  PROVE  MigrationSwap(d, file, file.to) = Beginning(k, file)
<1>1. Latest(d) = k
  BY LatestIsLast DEF Calm
<1>2. NextNumber(d) = k + 1
  BY <1>1 DEF NextNumber
<1>3. Exists(d, Snapshot) = (k # 0)
  <2>1. k = 0 <=> tip = Absent
    BY Tips
  <2>2. d[Snapshot] = tip
    BY DEF At, Calm
  <2> QED BY <2>1, <2>2 DEF Exists
<1>4. \A phase : MigrationRecord(d, phase) = Noted(phase, k)
  BY <1>2, <1>3 DEF MigrationRecord, Noted
<1> DEFINE empties == Put(Journal, Empty)
           prepares == Put(Journal, Noted("prepared", k))
           aside == When(k # 0, Move(Snapshot, SnapshotBackup))
           s1 == empties \o prepares
           s2 == s1 \o Put(SqlStaging(k + 1), file)
           s3 == s2 \o Put(SnapshotStaging, file.to)
           s4 == s3 \o aside
           s5 == s4 \o Put(Journal, Noted("backed_up", k))
           s6 == s5 \o Move(SqlStaging(k + 1), Sql(k + 1))
           s7 == s6 \o Move(SnapshotStaging, Snapshot)
           s8 == s7 \o Put(Journal, Noted("installed", k))
           s9 == s8 \o Remove(SnapshotBackup)
<1>5. MigrationSwap(d, file, file.to) = s9 \o Clearing
  <2> DEFINE whole(n, had, a, b, c) ==
        Put(Journal, Empty) \o Put(Journal, a)
        \o Put(SqlStaging(n), file) \o Put(SnapshotStaging, file.to)
        \o When(had, Move(Snapshot, SnapshotBackup))
        \o Put(Journal, b)
        \o Move(SqlStaging(n), Sql(n)) \o Move(SnapshotStaging, Snapshot)
        \o Put(Journal, c)
        \o Remove(SnapshotBackup)
        \o Remove(Journal)
  <2>1. MigrationSwap(d, file, file.to)
          = whole(NextNumber(d), Exists(d, Snapshot), MigrationRecord(d, "prepared"),
                  MigrationRecord(d, "backed_up"), MigrationRecord(d, "installed"))
    BY DEF MigrationSwap, StartJournal
  <2>2. whole(k + 1, k # 0, Noted("prepared", k), Noted("backed_up", k), Noted("installed", k))
          = s9 \o Clearing
    BY DEF Clearing
  <2> HIDE DEF whole
  <2>3. whole(NextNumber(d), Exists(d, Snapshot), MigrationRecord(d, "prepared"),
              MigrationRecord(d, "backed_up"), MigrationRecord(d, "installed"))
          = whole(k + 1, k # 0, Noted("prepared", k), Noted("backed_up", k), Noted("installed", k))
    BY <1>2, <1>3, <1>4
  <2> HIDE DEF s9
  <2> QED BY <2>1, <2>2, <2>3
<1>6. IsPlan(empties) /\ IsPlan(prepares) /\ IsPlan(aside)
  BY StepsArePlans, ConditionalPlan
<1>7. IsPlan(s1)
  BY <1>6, PlansJoin
<1> HIDE DEF s1, aside
<1>8. IsPlan(s2)
  BY <1>6, <1>7, StepsArePlans, PlansJoin
<1> HIDE DEF s2
<1>9. IsPlan(s3)
  BY <1>6, <1>8, StepsArePlans, PlansJoin
<1> HIDE DEF s3
<1>10. IsPlan(s4)
  BY <1>6, <1>9, StepsArePlans, PlansJoin
<1> HIDE DEF s4
<1>11. IsPlan(s5)
  BY <1>6, <1>10, StepsArePlans, PlansJoin
<1> HIDE DEF s5
<1>12. IsPlan(s6)
  BY <1>6, <1>11, StepsArePlans, PlansJoin
<1> HIDE DEF s6
<1>13. IsPlan(s7)
  BY <1>6, <1>12, StepsArePlans, PlansJoin
<1> HIDE DEF s7
<1>14. IsPlan(s8)
  BY <1>6, <1>13, StepsArePlans, PlansJoin
<1> HIDE DEF s8
<1>15. s9 \o Clearing = s8 \o DroppingBackup
  <2>1. IsPlan(Remove(SnapshotBackup)) /\ IsPlan(Clearing)
    BY StepsArePlans, RecoveryPlans
  <2>2. (s8 \o Remove(SnapshotBackup)) \o Clearing
          = s8 \o (Remove(SnapshotBackup) \o Clearing)
    BY <1>14, <2>1, PlansAssociate
  <2> QED BY <2>2 DEF s9, DroppingBackup
<1>16. s8 \o DroppingBackup = s7 \o Completing(k)
  <2>1. IsPlan(Put(Journal, Noted("installed", k))) /\ IsPlan(DroppingBackup)
    BY StepsArePlans, RecoveryPlans
  <2>2. (s7 \o Put(Journal, Noted("installed", k))) \o DroppingBackup
          = s7 \o (Put(Journal, Noted("installed", k)) \o DroppingBackup)
    BY <1>13, <2>1, PlansAssociate
  <2> QED BY <2>2 DEF s8, Completing
<1>17. s7 \o Completing(k) = s6 \o InstallingSnapshot(k)
  <2>1. IsPlan(Move(SnapshotStaging, Snapshot)) /\ IsPlan(Completing(k))
    BY StepsArePlans, CommitPlans
  <2>2. (s6 \o Move(SnapshotStaging, Snapshot)) \o Completing(k)
          = s6 \o (Move(SnapshotStaging, Snapshot) \o Completing(k))
    BY <1>12, <2>1, PlansAssociate
  <2> QED BY <2>2 DEF s7, InstallingSnapshot
<1>18. s6 \o InstallingSnapshot(k) = s5 \o InstallingSql(k)
  <2>1. IsPlan(Move(SqlStaging(k + 1), Sql(k + 1))) /\ IsPlan(InstallingSnapshot(k))
    BY StepsArePlans, CommitPlans
  <2>2. (s5 \o Move(SqlStaging(k + 1), Sql(k + 1))) \o InstallingSnapshot(k)
          = s5 \o (Move(SqlStaging(k + 1), Sql(k + 1)) \o InstallingSnapshot(k))
    BY <1>11, <2>1, PlansAssociate
  <2> QED BY <2>2 DEF s6, InstallingSql
<1>19. s5 \o InstallingSql(k) = s4 \o NotingBackup(k)
  <2>1. IsPlan(Put(Journal, Noted("backed_up", k))) /\ IsPlan(InstallingSql(k))
    BY StepsArePlans, CommitPlans
  <2>2. (s4 \o Put(Journal, Noted("backed_up", k))) \o InstallingSql(k)
          = s4 \o (Put(Journal, Noted("backed_up", k)) \o InstallingSql(k))
    BY <1>10, <2>1, PlansAssociate
  <2> QED BY <2>2 DEF s5, NotingBackup
<1>20. s4 \o NotingBackup(k) = s3 \o BackingUp(k)
  <2>1. IsPlan(NotingBackup(k))
    BY CommitPlans
  <2>2. (s3 \o aside) \o NotingBackup(k) = s3 \o (aside \o NotingBackup(k))
    BY <1>9, <1>6, <2>1, PlansAssociate
  <2>3. aside \o NotingBackup(k) = BackingUp(k)
    BY <2>1, NothingFirst DEF aside, When, BackingUp, SettingAside
  <2> QED BY <2>2, <2>3 DEF s4
<1>21. s3 \o BackingUp(k) = s2 \o WritingSnapshot(k, file)
  <2>1. IsPlan(Put(SnapshotStaging, file.to)) /\ IsPlan(BackingUp(k))
    BY StepsArePlans, CommitPlans
  <2>2. (s2 \o Put(SnapshotStaging, file.to)) \o BackingUp(k)
          = s2 \o (Put(SnapshotStaging, file.to) \o BackingUp(k))
    BY <1>8, <2>1, PlansAssociate
  <2> QED BY <2>2 DEF s3, WritingSnapshot
<1>22. s2 \o WritingSnapshot(k, file) = s1 \o WritingSql(k, file)
  <2>1. IsPlan(Put(SqlStaging(k + 1), file)) /\ IsPlan(WritingSnapshot(k, file))
    BY StepsArePlans, CommitPlans
  <2>2. (s1 \o Put(SqlStaging(k + 1), file)) \o WritingSnapshot(k, file)
          = s1 \o (Put(SqlStaging(k + 1), file) \o WritingSnapshot(k, file))
    BY <1>7, <2>1, PlansAssociate
  <2> QED BY <2>2 DEF s2, WritingSql
<1>23. s1 \o WritingSql(k, file) = Beginning(k, file)
  <2>1. IsPlan(WritingSql(k, file))
    BY CommitPlans
  <2>2. (empties \o prepares) \o WritingSql(k, file) = empties \o (prepares \o WritingSql(k, file))
    BY <1>6, <2>1, PlansAssociate
  <2> QED BY <2>2 DEF s1, Beginning, Preparing
<1> HIDE DEF s9
<1> QED BY <1>5, <1>15, <1>16, <1>17, <1>18, <1>19, <1>20, <1>21, <1>22, <1>23

-----------------------------------------------------------------------------
(* How commands begin and end.                                               *)

LEMMA NothingIsDone ==
  ASSUME NEW k, NEW tip, NEW new, NEW tmp, NEW stg, NEW snap, NEW back, NEW jou, NEW faulty
  PROVE  /\ Recovering(<<>>, faulty, k, tip, new, tmp, stg, snap, back, jou)
              => Calm(k, tip, new, tmp, stg, snap, back, jou)
         /\ \A file : Committing(<<>>, file, k, tip, new, tmp, stg, snap, back, jou)
              => k # 0 /\ jou = Absent /\ Calm(k, tip, new, tmp, stg, snap, back, jou)
<1>1. /\ Clearing # <<>> /\ ClearingSnapshot # <<>> /\ ClearingSql(k) # <<>>
      /\ DroppingBackup # <<>> /\ Restoring(k) # <<>>
  BY RecoverySteps DEF Does, Renames
<1>2. /\ DroppingSnapshot(Returning(k)) # <<>> /\ DroppingSql(k, Returning(k)) # <<>>
  BY DroppingSteps, RecoveryPlans DEF Does
<1>3. ~Doomed(k, <<>>)
  <2>1. ASSUME NEW rest, IsPlan(rest), Failing(rest)
        PROVE  <<>> \notin {rest, DroppingSnapshot(rest), DroppingSql(k, rest)}
    <3>1. rest # <<>>
      BY <2>1 DEF Failing
    <3>2. DroppingSnapshot(rest) # <<>> /\ DroppingSql(k, rest) # <<>>
      BY <2>1, DroppingSteps DEF Does
    <3> QED BY <3>1, <3>2
  <2> QED BY <2>1 DEF Doomed
<1>4. \A file : /\ Beginning(k, file) # <<>> /\ Preparing(k, file) # <<>>
                /\ WritingSql(k, file) # <<>> /\ WritingSnapshot(k, file) # <<>>
  BY CommitSteps DEF Does
<1>5. /\ Completing(k) # <<>> /\ InstallingSnapshot(k) # <<>> /\ InstallingSql(k) # <<>>
      /\ NotingBackup(k) # <<>> /\ SettingAside(k) # <<>>
  BY CommitSteps DEF Does, Renames
<1>6. Recovering(<<>>, faulty, k, tip, new, tmp, stg, snap, back, jou)
        => Calm(k, tip, new, tmp, stg, snap, back, jou)
  BY <1>1, <1>2, <1>3 DEF Recovering
<1>7. ASSUME NEW file, Committing(<<>>, file, k, tip, new, tmp, stg, snap, back, jou)
      PROVE  k # 0 /\ jou = Absent /\ Calm(k, tip, new, tmp, stg, snap, back, jou)
  BY <1>1, <1>4, <1>5, <1>7 DEF Committing
<1> QED BY <1>6, <1>7

\* Only a recovery that follows a second fault meets a check that does not hold.
LEMMA OnlyDoomedFails ==
  ASSUME NEW k, NEW tip, NEW new, NEW tmp, NEW stg, NEW snap, NEW back, NEW jou, NEW faulty, NEW q,
         Recovering(q, faulty, k, tip, new, tmp, stg, snap, back, jou), Failing(q)
  PROVE  faulty >= 2
<1>1. ~Failing(<<>>)
  BY DEF Failing
<1>2. /\ ~Failing(Clearing) /\ ~Failing(ClearingSnapshot) /\ ~Failing(ClearingSql(k))
      /\ ~Failing(DroppingBackup) /\ ~Failing(Restoring(k))
  BY RecoverySteps DEF Does, Renames
<1>3. /\ ~Failing(DroppingSnapshot(Returning(k))) /\ ~Failing(DroppingSql(k, Returning(k)))
  BY DroppingSteps, RecoveryPlans DEF Does
<1> QED BY <1>1, <1>2, <1>3 DEF Recovering

LEMMA CalmIsNotNoted ==
  ASSUME NEW d, NEW k, NEW tip, NEW new, NEW tmp, NEW stg, NEW snap, NEW back, NEW jou,
         At(d, k, tip, new, tmp, stg, snap, back, jou), k < MaxMigrations, jou \in {Absent, Empty}
  PROVE  \A phase \in {"prepared", "backed_up", "installed"} : jou # Noted(phase, k)
BY Tips, Notes

LEMMA StandingTyped ==
  ASSUME NEW d, NEW doing, NEW q, NEW faulty, NEW kept, Standing(d, doing, q, faulty, kept)
  PROVE  DOMAIN d = MigrationPath /\ d[Snapshot] \in Schema \cup {Absent}
<1>1. PICK k, tip, new, tmp, stg, snap, back, jou :
        Stands(d, doing, q, faulty, k, tip, new, tmp, stg, snap, back, jou)
  BY DEF Standing
<1>2. At(d, k, tip, new, tmp, stg, snap, back, jou) /\ Shape(k, tip, new, tmp, stg, snap, back, jou)
  BY <1>1 DEF Stands
<1>3. tip \in Schema \cup {Absent}
  BY <1>2, Tips
<1>4. snap \in Schema \cup {Absent}
  BY <1>2, <1>3, FilesLead DEF Shape, Calm, Prepared, BackedUp, Late, Installed
<1> QED BY <1>2, <1>4 DEF At

\* A recovery that is complete leaves the directory as a finished command does.
LEMMA RecoveryEnds ==
  ASSUME NEW d, NEW doing \in {"recover", "undo"}, NEW faulty, NEW kept, NEW next \in {"ready", "none"},
         Standing(d, doing, <<>>, faulty, kept)
  PROVE  Standing(d, next, <<>>, faulty, kept)
<1>1. PICK k, tip, new, tmp, stg, snap, back, jou :
        /\ kept \subseteq 1 .. k
        /\ Stands(d, doing, <<>>, faulty, k, tip, new, tmp, stg, snap, back, jou)
  BY DEF Standing
<1>2. /\ At(d, k, tip, new, tmp, stg, snap, back, jou)
      /\ Shape(k, tip, new, tmp, stg, snap, back, jou)
      /\ Accounted(doing, faulty, k, tip, new, tmp, stg, snap, back, jou)
      /\ Recovering(<<>>, faulty, k, tip, new, tmp, stg, snap, back, jou)
  BY <1>1 DEF Stands, Follows
<1>3. jou \in {Absent, Empty}
  BY <1>2, NothingIsDone DEF Calm
<1>4. Accounted(next, faulty, k, tip, new, tmp, stg, snap, back, jou)
  BY <1>2, <1>3, CalmIsNotNoted DEF Accounted
<1>5. Follows(next, <<>>, faulty, k, tip, new, tmp, stg, snap, back, jou)
  BY DEF Follows
<1>6. Stands(d, next, <<>>, faulty, k, tip, new, tmp, stg, snap, back, jou)
  BY <1>2, <1>4, <1>5 DEF Stands
<1> QED BY <1>1, <1>6 DEF Standing

LEMMA RecoveryFails ==
  ASSUME NEW d, NEW doing \in {"recover", "undo"}, NEW q, NEW faulty, NEW kept,
         Standing(d, doing, q, faulty, kept), Failing(q)
  PROVE  Standing(d, "none", <<>>, faulty, kept) /\ faulty >= 2
<1>1. PICK k, tip, new, tmp, stg, snap, back, jou :
        /\ kept \subseteq 1 .. k
        /\ Stands(d, doing, q, faulty, k, tip, new, tmp, stg, snap, back, jou)
  BY DEF Standing
<1>2. /\ At(d, k, tip, new, tmp, stg, snap, back, jou)
      /\ Shape(k, tip, new, tmp, stg, snap, back, jou)
      /\ Accounted(doing, faulty, k, tip, new, tmp, stg, snap, back, jou)
      /\ Recovering(q, faulty, k, tip, new, tmp, stg, snap, back, jou)
  BY <1>1 DEF Stands, Follows
<1>3. faulty >= 2
  BY <1>2, OnlyDoomedFails
<1>4. Accounted("none", faulty, k, tip, new, tmp, stg, snap, back, jou)
  BY <1>2, <1>3 DEF Accounted
<1>5. Follows("none", <<>>, faulty, k, tip, new, tmp, stg, snap, back, jou)
  BY DEF Follows
<1>6. Stands(d, "none", <<>>, faulty, k, tip, new, tmp, stg, snap, back, jou)
  BY <1>2, <1>4, <1>5 DEF Stands
<1> QED BY <1>1, <1>3, <1>6 DEF Standing

\* A process is killed, or meets an I/O error: one fault more.
LEMMA CommandStops ==
  ASSUME NEW d, NEW doing \in {"recover", "ready", "swap", "undo"}, NEW q, NEW faulty \in Nat, NEW kept,
         Standing(d, doing, q, faulty, kept)
  PROVE  Standing(d, "none", <<>>, faulty + 1, kept)
<1>1. PICK k, tip, new, tmp, stg, snap, back, jou :
        /\ kept \subseteq 1 .. k
        /\ Stands(d, doing, q, faulty, k, tip, new, tmp, stg, snap, back, jou)
  BY DEF Standing
<1>2. /\ At(d, k, tip, new, tmp, stg, snap, back, jou)
      /\ Shape(k, tip, new, tmp, stg, snap, back, jou)
      /\ Accounted(doing, faulty, k, tip, new, tmp, stg, snap, back, jou)
  BY <1>1 DEF Stands
<1>3. k # 0 /\ k < MaxMigrations /\ jou = Noted("backed_up", k) => jou # Absent
  BY <1>2, Tips, Notes
<1>4. Accounted("none", faulty + 1, k, tip, new, tmp, stg, snap, back, jou)
  BY <1>2, <1>3 DEF Accounted
<1>5. Follows("none", <<>>, faulty + 1, k, tip, new, tmp, stg, snap, back, jou)
  BY DEF Follows
<1>6. Stands(d, "none", <<>>, faulty + 1, k, tip, new, tmp, stg, snap, back, jou)
  BY <1>2, <1>4, <1>5 DEF Stands
<1> QED BY <1>1, <1>6 DEF Standing

LEMMA CommandGivesUp ==
  ASSUME NEW d, NEW faulty, NEW kept, Standing(d, "ready", <<>>, faulty, kept)
  PROVE  Standing(d, "none", <<>>, faulty, kept)
<1>1. PICK k, tip, new, tmp, stg, snap, back, jou :
        /\ kept \subseteq 1 .. k
        /\ Stands(d, "ready", <<>>, faulty, k, tip, new, tmp, stg, snap, back, jou)
  BY DEF Standing
<1>2. Stands(d, "none", <<>>, faulty, k, tip, new, tmp, stg, snap, back, jou)
  BY <1>1 DEF Stands, Accounted, Follows
<1> QED BY <1>1, <1>2 DEF Standing

LEMMA CommandStarts ==
  ASSUME NEW d, NEW faulty, NEW kept, Standing(d, "none", <<>>, faulty, kept)
  PROVE  Standing(d, "recover", MigrationRecover(d), faulty, kept)
<1>1. PICK k, tip, new, tmp, stg, snap, back, jou :
        /\ kept \subseteq 1 .. k
        /\ Stands(d, "none", <<>>, faulty, k, tip, new, tmp, stg, snap, back, jou)
  BY DEF Standing
<1>2. /\ At(d, k, tip, new, tmp, stg, snap, back, jou)
      /\ Shape(k, tip, new, tmp, stg, snap, back, jou)
      /\ Accounted("none", faulty, k, tip, new, tmp, stg, snap, back, jou)
  BY <1>1 DEF Stands
<1>3. Late(k, tip, new, tmp, stg, snap, back, jou) => faulty >= 2
  BY <1>2 DEF Accounted, Late
<1>4. Recovering(MigrationRecover(d), faulty, k, tip, new, tmp, stg, snap, back, jou)
  BY <1>2, <1>3, RecoverFits
<1>5. Stands(d, "recover", MigrationRecover(d), faulty, k, tip, new, tmp, stg, snap, back, jou)
  BY <1>2, <1>4 DEF Stands, Accounted, Follows
<1> QED BY <1>1, <1>5 DEF Standing

LEMMA CommitIsUndone ==
  ASSUME NEW d, NEW q, NEW faulty \in Nat, NEW kept, Standing(d, "swap", q, faulty, kept)
  PROVE  Standing(d, "undo", MigrationRecover(d), faulty + 1, kept)
<1>1. PICK k, tip, new, tmp, stg, snap, back, jou :
        /\ kept \subseteq 1 .. k
        /\ Stands(d, "swap", q, faulty, k, tip, new, tmp, stg, snap, back, jou)
  BY DEF Standing
<1>2. /\ At(d, k, tip, new, tmp, stg, snap, back, jou)
      /\ Shape(k, tip, new, tmp, stg, snap, back, jou)
      /\ Accounted("swap", faulty, k, tip, new, tmp, stg, snap, back, jou)
  BY <1>1 DEF Stands
<1>3. Late(k, tip, new, tmp, stg, snap, back, jou) => faulty + 1 >= 2
  BY <1>2 DEF Accounted, Late
<1>4. Recovering(MigrationRecover(d), faulty + 1, k, tip, new, tmp, stg, snap, back, jou)
  BY <1>2, <1>3, RecoverFits
<1>5. Accounted("undo", faulty + 1, k, tip, new, tmp, stg, snap, back, jou)
  BY <1>2 DEF Accounted
<1>6. Stands(d, "undo", MigrationRecover(d), faulty + 1, k, tip, new, tmp, stg, snap, back, jou)
  BY <1>2, <1>4, <1>5 DEF Stands, Follows
<1> QED BY <1>1, <1>6 DEF Standing

LEMMA CommitBegins ==
  ASSUME NEW d, NEW faulty, NEW kept, NEW file \in SqlFile, Standing(d, "ready", <<>>, faulty, kept),
         MigrationClean(d), NextNumber(d) \in Number
  PROVE  Standing(d, "swap", MigrationSwap(d, file, file.to), faulty, kept)
<1>1. PICK k, tip, new, tmp, stg, snap, back, jou :
        /\ kept \subseteq 1 .. k
        /\ Stands(d, "ready", <<>>, faulty, k, tip, new, tmp, stg, snap, back, jou)
  BY DEF Standing
<1>2. /\ At(d, k, tip, new, tmp, stg, snap, back, jou)
      /\ Shape(k, tip, new, tmp, stg, snap, back, jou)
  BY <1>1 DEF Stands
<1>3. jou = Absent
  BY <1>2 DEF MigrationClean, Exists, At
<1>4. Calm(k, tip, new, tmp, stg, snap, back, jou)
  BY <1>2, <1>3, CalmIsNotNoted DEF Shape, Prepared, BackedUp, Late, Installed
<1>5. Latest(d) = k
  BY <1>2, <1>4, LatestIsLast DEF Calm
<1>6. k < MaxMigrations
  BY <1>2, <1>5, Tips, MigrationAssumption DEF NextNumber, Number
<1>7. MigrationSwap(d, file, file.to) = Beginning(k, file)
  BY <1>2, <1>4, <1>6, SwapIsTaken
<1>8. Committing(Beginning(k, file), file, k, tip, new, tmp, stg, snap, back, jou)
  BY <1>3, <1>4, <1>6 DEF Committing
<1>9. Standing(d, "swap", Beginning(k, file), faulty, kept)
  BY <1>1, <1>2, <1>8, CommittingStands
<1> QED BY <1>7, <1>9

LEMMA CommitEnds ==
  ASSUME NEW d, NEW faulty, NEW kept, Standing(d, "swap", <<>>, faulty, kept)
  PROVE  Latest(d) \in Number /\ Standing(d, "none", <<>>, faulty, kept \cup {Latest(d)})
<1>1. PICK k, tip, new, tmp, stg, snap, back, jou :
        /\ kept \subseteq 1 .. k
        /\ Stands(d, "swap", <<>>, faulty, k, tip, new, tmp, stg, snap, back, jou)
  BY DEF Standing
<1>2. /\ At(d, k, tip, new, tmp, stg, snap, back, jou)
      /\ Shape(k, tip, new, tmp, stg, snap, back, jou)
      /\ \E file \in SqlFile : Committing(<<>>, file, k, tip, new, tmp, stg, snap, back, jou)
  BY <1>1 DEF Stands, Follows
<1>3. k # 0 /\ jou = Absent /\ Calm(k, tip, new, tmp, stg, snap, back, jou)
  BY <1>2, NothingIsDone
<1>4. Latest(d) = k
  BY <1>2, <1>3, LatestIsLast DEF Calm
<1>5. k \in Nat /\ MaxMigrations \in Nat /\ k <= MaxMigrations
  BY <1>2, MigrationAssumption DEF At
<1>6. k \in Number /\ k \in 1 .. k
  BY <1>3, <1>5 DEF Number
<1>7. k < MaxMigrations => jou # Noted("backed_up", k)
  BY <1>2, <1>3, CalmIsNotNoted
<1>8. Accounted("none", faulty, k, tip, new, tmp, stg, snap, back, jou)
  BY <1>3, <1>7 DEF Accounted
<1>9. Stands(d, "none", <<>>, faulty, k, tip, new, tmp, stg, snap, back, jou)
  BY <1>2, <1>8 DEF Stands, Follows
<1>10. kept \cup {Latest(d)} \subseteq 1 .. k
  BY <1>1, <1>4, <1>6
<1>11. Standing(d, "none", <<>>, faulty, kept \cup {Latest(d)})
  BY <1>9, <1>10 DEF Standing
<1> QED BY <1>4, <1>6, <1>11

-----------------------------------------------------------------------------
(* The migration commands keep the directory in one of these shapes.         *)

Acting == {"recover", "ready", "swap", "undo"}

\* The process that holds the lock has the plan that the disk calls for, and
\* nobody else has a plan.
DirectoryStands ==
  IF migrationLock = None
  THEN Standing(migrations, "none", <<>>, migrationFaults, acceptedMigrations)
  ELSE /\ migrationStage[migrationLock] \in Acting
       /\ Standing(migrations, migrationStage[migrationLock], migrationPlan[migrationLock],
                   migrationFaults, acceptedMigrations)

OnlyPlansOfHolders ==
  /\ DOMAIN migrationPlan = Migrator
  /\ \A p \in Migrator : migrationStage[p] \in {"idle", "planned", "ready"} => migrationPlan[p] = <<>>

MigrationInvariant == MigrationTypes /\ OnlyPlansOfHolders /\ DirectoryStands

LEMMA MigrationsBegin == MigrationInit => MigrationInvariant
<1> SUFFICES ASSUME MigrationInit PROVE MigrationInvariant
  OBVIOUS
<1>1. MigrationTypes
  BY MigrationAssumption DEF MigrationInit, MigrationTypes, MigrationStages, Migrator
<1>2. OnlyPlansOfHolders
  BY DEF MigrationInit, OnlyPlansOfHolders
<1>3. At(migrations, 0, Absent, Absent, Absent, Absent, Absent, Absent, Absent)
  <2>1. \A path \in MigrationPath : migrations[path] = Absent
    BY DEF MigrationInit
  <2>2. DOMAIN migrations = MigrationPath
    BY DEF MigrationInit
  <2>3. MaxMigrations \in Nat /\ (0 < MaxMigrations => 0 + 1 \in Number)
    BY MigrationAssumption DEF Number
  <2> QED BY <2>1, <2>2, <2>3, PathsStand DEF At
<1>4. Stands(migrations, "none", <<>>, 0, 0, Absent, Absent, Absent, Absent, Absent, Absent, Absent)
  BY <1>3 DEF Stands, Shape, Calm, Accounted, Follows
<1>5. Standing(migrations, "none", <<>>, 0, {})
  BY <1>4 DEF Standing
<1>6. DirectoryStands
  BY <1>5 DEF DirectoryStands, MigrationInit
<1> QED BY <1>1, <1>2, <1>6 DEF MigrationInvariant

\* What one process does while it holds no lock leaves the holder's plan alone.
LEMMA OthersStand ==
  ASSUME MigrationInvariant, NEW p \in Migrator, migrationLock # p,
         NEW s \in {"idle", "planned"}, MigrationEnters(p, s, <<>>),
         UNCHANGED <<migrations, migrationLock, migrationFaults, acceptedMigrations>>
  PROVE  OnlyPlansOfHolders' /\ DirectoryStands'
<1>1. DOMAIN migrationStage = Migrator /\ migrationLock \in Migrator \cup {None}
  BY DEF MigrationInvariant, MigrationTypes
<1>2. OnlyPlansOfHolders'
  BY <1>1 DEF MigrationInvariant, OnlyPlansOfHolders, MigrationEnters
<1>3. migrationLock # None => /\ migrationStage'[migrationLock] = migrationStage[migrationLock]
                              /\ migrationPlan'[migrationLock] = migrationPlan[migrationLock]
  BY <1>1 DEF MigrationInvariant, OnlyPlansOfHolders, MigrationEnters
<1>4. DirectoryStands'
  BY <1>3 DEF MigrationInvariant, DirectoryStands
<1> QED BY <1>2, <1>4

\* The process that holds the lock goes on, or lets it go.
LEMMA HolderStands ==
  ASSUME MigrationInvariant, NEW p \in Migrator, NEW s \in Acting, NEW q, MigrationEnters(p, s, q),
         s = "ready" => q = <<>>, migrationLock' = p,
         Standing(migrations', s, q, migrationFaults', acceptedMigrations')
  PROVE  OnlyPlansOfHolders' /\ DirectoryStands'
<1>1. DOMAIN migrationStage = Migrator /\ DOMAIN migrationPlan = Migrator
  BY DEF MigrationInvariant, MigrationTypes, OnlyPlansOfHolders
<1>2. migrationStage'[p] = s /\ migrationPlan'[p] = q
  BY <1>1 DEF MigrationEnters
<1>3. OnlyPlansOfHolders'
  BY <1>1, <1>2 DEF MigrationInvariant, OnlyPlansOfHolders, MigrationEnters, Acting
<1>4. p # None
  BY MigrationAssumption
<1>5. DirectoryStands'
  BY <1>2, <1>4 DEF DirectoryStands
<1> QED BY <1>3, <1>5

LEMMA HolderLeaves ==
  ASSUME MigrationInvariant, NEW p \in Migrator, MigrationEnters(p, "idle", <<>>), migrationLock' = None,
         Standing(migrations', "none", <<>>, migrationFaults', acceptedMigrations')
  PROVE  OnlyPlansOfHolders' /\ DirectoryStands'
<1>1. DOMAIN migrationStage = Migrator /\ DOMAIN migrationPlan = Migrator
  BY DEF MigrationInvariant, MigrationTypes, OnlyPlansOfHolders
<1>2. OnlyPlansOfHolders'
  BY <1>1 DEF MigrationInvariant, OnlyPlansOfHolders, MigrationEnters
<1>3. DirectoryStands'
  BY DEF DirectoryStands
<1> QED BY <1>2, <1>3

\* What the holder's plan is.
LEMMA Holding ==
  ASSUME MigrationInvariant, NEW p \in Migrator, migrationStage[p] \in Acting
  PROVE  /\ migrationLock = p
         /\ Standing(migrations, migrationStage[p], migrationPlan[p], migrationFaults, acceptedMigrations)
<1>1. migrationLock = p
  BY DEF MigrationInvariant, MigrationTypes, Acting
<1>2. p # None
  BY MigrationAssumption
<1> QED BY <1>1, <1>2 DEF MigrationInvariant, DirectoryStands

LEMMA DirectoryTyped ==
  ASSUME MigrationInvariant
  PROVE  DOMAIN migrations = MigrationPath /\ ReadSnapshot(migrations) \in Schema \cup {EmptySchema}
<1>1. PICK doing, q : Standing(migrations, doing, q, migrationFaults, acceptedMigrations)
  BY DEF MigrationInvariant, DirectoryStands
<1> QED BY <1>1, StandingTyped DEF ReadSnapshot, Exists

\* Types, but for the directory, whose shape says more.
ProcessTypes ==
  /\ migrationLock \in Migrator \cup {None}
  /\ migrationStage \in [Migrator -> MigrationStages]
  /\ \A p \in Migrator :
       /\ migrationStage[p] \in Acting => migrationLock = p
       /\ migrationStage[p] # "idle" => schema[p] \in Schema
  /\ base \in [Migrator -> Schema \cup {EmptySchema}]
  /\ schema \in [Migrator -> Schema \cup {EmptySchema}]
  /\ acceptedMigrations \subseteq Number
  /\ migrationFaults \in 0 .. MaxMigrationFaults

LEMMA InvariantFromParts ==
  /\ ProcessTypes /\ OnlyPlansOfHolders /\ DirectoryStands <=> MigrationInvariant
  /\ ProcessTypes' /\ OnlyPlansOfHolders' /\ DirectoryStands' <=> MigrationInvariant'
<1>1. /\ DirectoryStands => DOMAIN migrations = MigrationPath
      /\ DirectoryStands' => DOMAIN migrations' = MigrationPath
  BY StandingTyped DEF DirectoryStands
<1>2. /\ MigrationTypes <=> ProcessTypes /\ DOMAIN migrations = MigrationPath
      /\ MigrationTypes' <=> ProcessTypes' /\ DOMAIN migrations' = MigrationPath
  BY DEF MigrationTypes, ProcessTypes, Acting
<1> QED BY <1>1, <1>2 DEF MigrationInvariant

LEMMA PlanningKeeps ==
  ASSUME MigrationInvariant, NEW p \in Migrator, NEW t \in Schema,
         PlanDevelopment(p, t) \/ PlanBaseline(p, t)
  PROVE  MigrationInvariant'
<1>1. ProcessTypes /\ migrationStage[p] = "idle"
  BY InvariantFromParts DEF PlanDevelopment, PlanBaseline
<1>2. ReadSnapshot(migrations) \in Schema \cup {EmptySchema}
  BY DirectoryTyped
<1>3. /\ MigrationEnters(p, "planned", <<>>) /\ schema' = [schema EXCEPT ![p] = t]
      /\ UNCHANGED <<migrations, migrationLock, migrationFaults, acceptedMigrations>>
  BY DEF PlanDevelopment, PlanBaseline
<1>4. migrationLock # p
  <2>1. p # None
    BY MigrationAssumption
  <2>2. migrationLock = p => migrationStage[p] \in Acting
    BY <2>1 DEF MigrationInvariant, DirectoryStands
  <2> QED BY <1>1, <2>2 DEF Acting
<1>5. OnlyPlansOfHolders' /\ DirectoryStands'
  BY <1>3, <1>4, OthersStand
<1>6. base' \in [Migrator -> Schema \cup {EmptySchema}]
  BY <1>1, <1>2 DEF ProcessTypes, PlanDevelopment, PlanBaseline
<1>7. ProcessTypes'
  <2>1. /\ migrationLock' \in Migrator \cup {None}
        /\ migrationStage' \in [Migrator -> MigrationStages]
        /\ schema' \in [Migrator -> Schema \cup {EmptySchema}]
        /\ acceptedMigrations' \subseteq Number /\ migrationFaults' \in 0 .. MaxMigrationFaults
    BY <1>1, <1>3 DEF ProcessTypes, MigrationEnters, MigrationStages
  <2>2. \A x \in Migrator : /\ migrationStage'[x] \in Acting => migrationLock' = x
                            /\ migrationStage'[x] # "idle" => schema'[x] \in Schema
    BY <1>1, <1>3 DEF ProcessTypes, MigrationEnters, Acting
  <2> QED BY <1>6, <2>1, <2>2 DEF ProcessTypes
<1> QED BY <1>5, <1>7, InvariantFromParts

\* The process enters another stage of the command and keeps what it read.
LEMMA EnteringTyped ==
  ASSUME ProcessTypes, NEW p \in Migrator, NEW s \in Acting, NEW q, MigrationEnters(p, s, q),
         migrationLock' = p, migrationLock \in {None, p}, schema[p] \in Schema,
         UNCHANGED <<base, schema, acceptedMigrations>>, migrationFaults' \in 0 .. MaxMigrationFaults
  PROVE  ProcessTypes'
<1>1. p # None
  BY MigrationAssumption
<1>2. \A x \in Migrator : migrationStage'[x] \in Acting => x = p
  <2>1. \A x \in Migrator : x # p => migrationStage'[x] = migrationStage[x] /\ x # None
    BY MigrationAssumption DEF ProcessTypes, MigrationEnters
  <2> QED BY <2>1 DEF ProcessTypes
<1>3. \A x \in Migrator : migrationStage'[x] # "idle" => schema'[x] \in Schema
  BY DEF ProcessTypes, MigrationEnters
<1>4. migrationStage' \in [Migrator -> MigrationStages]
  BY DEF ProcessTypes, MigrationEnters, Acting, MigrationStages
<1> QED BY <1>2, <1>3, <1>4 DEF ProcessTypes

\* The process ends, whether or not it held the lock.
LEMMA EndingTyped ==
  ASSUME ProcessTypes, NEW p \in Migrator, MigrationEnds(p),
         migrationLock' = IF migrationLock = p THEN None ELSE migrationLock,
         acceptedMigrations' \subseteq Number, migrationFaults' \in 0 .. MaxMigrationFaults
  PROVE  ProcessTypes'
<1>1. \A x \in Migrator : x # p => migrationStage'[x] = migrationStage[x] /\ schema'[x] = schema[x]
  BY DEF ProcessTypes, MigrationEnds, MigrationEnters
<1>2. migrationStage'[p] = "idle"
  BY DEF ProcessTypes, MigrationEnds, MigrationEnters
<1>3. \A x \in Migrator : migrationStage'[x] \in Acting => migrationLock' = x
  <2>1. ASSUME NEW x \in Migrator, migrationStage'[x] \in Acting PROVE migrationLock' = x
    <3>1. x # p
      BY <1>2, <2>1 DEF Acting
    <3>2. migrationLock = x
      BY <1>1, <2>1, <3>1 DEF ProcessTypes
    <3> QED BY <3>1, <3>2
  <2> QED BY <2>1
<1>4. \A x \in Migrator : migrationStage'[x] # "idle" => schema'[x] \in Schema
  BY <1>1, <1>2 DEF ProcessTypes
<1>5. /\ migrationStage' \in [Migrator -> MigrationStages]
      /\ base' \in [Migrator -> Schema \cup {EmptySchema}]
      /\ schema' \in [Migrator -> Schema \cup {EmptySchema}]
      /\ migrationLock' \in Migrator \cup {None}
  BY DEF ProcessTypes, MigrationEnds, MigrationEnters, MigrationStages
<1> QED BY <1>3, <1>4, <1>5 DEF ProcessTypes

LEMMA AcquiringKeeps ==
  ASSUME MigrationInvariant, NEW p \in Migrator, AcquireMigration(p)
  PROVE  MigrationInvariant'
<1>1. ProcessTypes /\ migrationLock = None /\ schema[p] \in Schema
  BY InvariantFromParts DEF AcquireMigration, LockFree, ProcessTypes
<1>2. Standing(migrations, "none", <<>>, migrationFaults, acceptedMigrations)
  BY <1>1 DEF MigrationInvariant, DirectoryStands
<1>3. Standing(migrations, "recover", MigrationRecover(migrations), migrationFaults, acceptedMigrations)
  BY <1>2, CommandStarts
<1>4. /\ MigrationEnters(p, "recover", MigrationRecover(migrations)) /\ migrationLock' = p
      /\ UNCHANGED <<migrations, base, schema, acceptedMigrations, migrationFaults>>
  BY DEF AcquireMigration
<1>5. "recover" \in Acting /\ migrationFaults' \in 0 .. MaxMigrationFaults
  BY <1>1, <1>4 DEF Acting, ProcessTypes
<1>6. OnlyPlansOfHolders' /\ DirectoryStands'
  BY <1>3, <1>4, <1>5, HolderStands
<1>7. ProcessTypes'
  BY <1>1, <1>4, <1>5, EnteringTyped
<1> QED BY <1>6, <1>7, InvariantFromParts

LEMMA AcquiredKeeps ==
  ASSUME MigrationInvariant, NEW p \in Migrator, MigrationAcquired(p)
  PROVE  MigrationInvariant'
<1>1. /\ migrationStage[p] = "recover" /\ migrationPlan[p] = <<>> /\ MigrationEnters(p, "ready", <<>>)
      /\ UNCHANGED <<migrations, migrationLock, base, schema, acceptedMigrations, migrationFaults>>
  BY DEF MigrationAcquired
<1>2. ProcessTypes /\ migrationLock = p /\ schema[p] \in Schema
      /\ Standing(migrations, "recover", <<>>, migrationFaults, acceptedMigrations)
  BY <1>1, InvariantFromParts, Holding DEF ProcessTypes, Acting
<1>3. Standing(migrations, "ready", <<>>, migrationFaults, acceptedMigrations)
  BY <1>2, RecoveryEnds
<1>4. "ready" \in Acting /\ migrationFaults' \in 0 .. MaxMigrationFaults /\ migrationLock' = p
  BY <1>1, <1>2 DEF Acting, ProcessTypes
<1>5. OnlyPlansOfHolders' /\ DirectoryStands'
  BY <1>1, <1>3, <1>4, HolderStands
<1>6. ProcessTypes'
  BY <1>1, <1>2, <1>4, EnteringTyped
<1> QED BY <1>5, <1>6, InvariantFromParts

LEMMA CommitKeeps ==
  ASSUME MigrationInvariant, NEW p \in Migrator, CommitMigration(p)
  PROVE  MigrationInvariant'
<1> DEFINE file == [from |-> IF p \in Baseline THEN EmptySchema ELSE base[p], to |-> schema[p]]
<1>1. /\ migrationStage[p] = "ready" /\ MigrationClean(migrations) /\ NextNumber(migrations) \in Number
      /\ UNCHANGED <<migrations, migrationLock, base, schema, acceptedMigrations, migrationFaults>>
  BY DEF CommitMigration
<1>2. MigrationEnters(p, "swap", MigrationSwap(migrations, file, schema[p]))
  BY DEF CommitMigration
<1>3. ProcessTypes /\ migrationLock = p /\ schema[p] \in Schema
      /\ Standing(migrations, "ready", migrationPlan[p], migrationFaults, acceptedMigrations)
  BY <1>1, InvariantFromParts, Holding DEF ProcessTypes, Acting
<1>4. migrationPlan[p] = <<>>
  BY <1>1 DEF MigrationInvariant, OnlyPlansOfHolders
<1>5. file \in SqlFile /\ file.to = schema[p]
  BY <1>3 DEF ProcessTypes, SqlFile
<1> HIDE DEF file
<1>6. Standing(migrations, "swap", MigrationSwap(migrations, file, file.to), migrationFaults, acceptedMigrations)
  BY <1>1, <1>3, <1>4, <1>5, CommitBegins
<1>7. "swap" \in Acting /\ migrationFaults' \in 0 .. MaxMigrationFaults /\ migrationLock' = p
  BY <1>1, <1>3 DEF Acting, ProcessTypes
<1> DEFINE q == MigrationSwap(migrations, file, file.to)
<1>8. MigrationEnters(p, "swap", q)
  BY <1>2, <1>5
<1>9. Standing(migrations', "swap", q, migrationFaults', acceptedMigrations')
  BY <1>1, <1>6
<1> HIDE DEF q
<1>10. OnlyPlansOfHolders' /\ DirectoryStands'
  BY <1>7, <1>8, <1>9, HolderStands
<1>11. ProcessTypes'
  BY <1>1, <1>3, <1>7, <1>8, EnteringTyped
<1> QED BY <1>10, <1>11, InvariantFromParts

LEMMA AbandonKeeps ==
  ASSUME MigrationInvariant, NEW p \in Migrator, AbandonMigration(p)
  PROVE  MigrationInvariant'
<1>1. /\ migrationStage[p] \in {"planned", "ready"} /\ MigrationEnds(p)
      /\ MigrationEnters(p, "idle", <<>>)
      /\ migrationLock' = IF migrationLock = p THEN None ELSE migrationLock
      /\ UNCHANGED <<migrations, acceptedMigrations, migrationFaults>>
  BY DEF AbandonMigration, MigrationEnds
<1>2. ProcessTypes /\ migrationPlan[p] = <<>> /\ p # None
  BY <1>1, InvariantFromParts, MigrationAssumption DEF MigrationInvariant, OnlyPlansOfHolders
<1>3. ProcessTypes'
  BY <1>1, <1>2, EndingTyped DEF ProcessTypes
<1>4. CASE migrationStage[p] = "planned"
  <2>1. migrationLock # p
    BY <1>2, <1>4 DEF MigrationInvariant, DirectoryStands, Acting
  <2>2. OnlyPlansOfHolders' /\ DirectoryStands'
    BY <1>1, <2>1, OthersStand
  <2> QED BY <1>3, <2>2, InvariantFromParts
<1>5. CASE migrationStage[p] = "ready"
  <2>1. migrationLock = p /\ Standing(migrations, "ready", <<>>, migrationFaults, acceptedMigrations)
    BY <1>2, <1>5, Holding DEF Acting
  <2>2. Standing(migrations', "none", <<>>, migrationFaults', acceptedMigrations')
    BY <1>1, <2>1, CommandGivesUp
  <2>3. OnlyPlansOfHolders' /\ DirectoryStands'
    BY <1>1, <2>1, <2>2, HolderLeaves
  <2> QED BY <1>3, <2>3, InvariantFromParts
<1> QED BY <1>1, <1>4, <1>5

\* One step of a plan leaves every accepted file as it is.
LEMMA StepKeeps ==
  ASSUME MigrationInvariant, NEW p \in Migrator, MigrationStep(p)
  PROVE  /\ MigrationInvariant'
         /\ \A n \in acceptedMigrations : migrations'[Sql(n)] = migrations[Sql(n)]
<1> DEFINE s == migrationStage[p]
           q == migrationPlan[p]
           e == Execute(migrations, Head(q))
<1>1. /\ q # <<>> /\ ~Failing(q) /\ migrations' = e
      /\ migrationPlan' = [migrationPlan EXCEPT ![p] = Tail(q)]
      /\ UNCHANGED <<migrationLock, migrationStage, base, schema, acceptedMigrations, migrationFaults>>
  BY DEF MigrationStep
<1>2. ProcessTypes /\ OnlyPlansOfHolders
  BY InvariantFromParts
<1>3. s \in {"recover", "swap", "undo"} /\ s \in Acting
  BY <1>1, <1>2 DEF OnlyPlansOfHolders, ProcessTypes, MigrationStages, Acting
<1>4. migrationLock = p /\ Standing(migrations, s, q, migrationFaults, acceptedMigrations)
  BY <1>3, Holding
<1>5. PICK k, tip, new, tmp, stg, snap, back, jou :
        /\ acceptedMigrations \subseteq 1 .. k
        /\ Stands(migrations, s, q, migrationFaults, k, tip, new, tmp, stg, snap, back, jou)
  BY <1>4 DEF Standing
<1> HIDE DEF s, q
<1>6. Standing(e, s, Tail(q), migrationFaults, acceptedMigrations) /\ Keeps(migrations, e, k)
  BY <1>1, <1>3, <1>5, RecoveringStep, CommittingStep
<1>7. MigrationEnters(p, s, Tail(q))
  BY <1>1, <1>2 DEF MigrationEnters, ProcessTypes, s
<1>8. s # "ready"
  BY <1>3
<1>9. Standing(migrations', s, Tail(q), migrationFaults', acceptedMigrations')
  BY <1>1, <1>6
<1>10. OnlyPlansOfHolders' /\ DirectoryStands'
  BY <1>1, <1>3, <1>4, <1>7, <1>8, <1>9, HolderStands
<1>11. ProcessTypes'
  BY <1>1, <1>2 DEF ProcessTypes
<1>12. \A n \in acceptedMigrations : migrations'[Sql(n)] = migrations[Sql(n)]
  BY <1>1, <1>5, <1>6 DEF Keeps
<1> QED BY <1>10, <1>11, <1>12, InvariantFromParts

LEMMA LeavingKeeps ==
  ASSUME MigrationInvariant, NEW p \in Migrator, migrationLock = p, MigrationLeaves(p),
         acceptedMigrations' \subseteq Number, migrationFaults' \in 0 .. MaxMigrationFaults,
         Standing(migrations', "none", <<>>, migrationFaults', acceptedMigrations')
  PROVE  MigrationInvariant'
<1>1. MigrationEnds(p) /\ MigrationEnters(p, "idle", <<>>) /\ migrationLock' = None
  BY DEF MigrationLeaves, MigrationEnds
<1>2. ProcessTypes
  BY InvariantFromParts
<1>3. ProcessTypes'
  BY <1>1, <1>2, EndingTyped
<1>4. OnlyPlansOfHolders' /\ DirectoryStands'
  BY <1>1, HolderLeaves
<1> QED BY <1>3, <1>4, InvariantFromParts

LEMMA ReturnKeeps ==
  ASSUME MigrationInvariant, NEW p \in Migrator, MigrationReturns(p)
  PROVE  MigrationInvariant'
<1>1. /\ migrationStage[p] = "swap" /\ migrationPlan[p] = <<>> /\ MigrationLeaves(p)
      /\ acceptedMigrations' = acceptedMigrations \cup {Latest(migrations)}
      /\ UNCHANGED <<migrations, migrationFaults>>
  BY DEF MigrationReturns
<1>2. ProcessTypes /\ migrationLock = p
      /\ Standing(migrations, "swap", <<>>, migrationFaults, acceptedMigrations)
  BY <1>1, InvariantFromParts, Holding DEF Acting
<1>3. Latest(migrations) \in Number
      /\ Standing(migrations, "none", <<>>, migrationFaults, acceptedMigrations \cup {Latest(migrations)})
  BY <1>2, CommitEnds
<1>4. acceptedMigrations' \subseteq Number /\ migrationFaults' \in 0 .. MaxMigrationFaults
  BY <1>1, <1>2, <1>3 DEF ProcessTypes
<1>5. Standing(migrations', "none", <<>>, migrationFaults', acceptedMigrations')
  BY <1>1, <1>3
<1> QED BY <1>1, <1>2, <1>4, <1>5, LeavingKeeps

LEMMA UndoneKeeps ==
  ASSUME MigrationInvariant, NEW p \in Migrator, MigrationUndone(p)
  PROVE  MigrationInvariant'
<1>1. /\ migrationStage[p] = "undo" /\ migrationPlan[p] = <<>> /\ MigrationLeaves(p)
      /\ UNCHANGED <<migrations, acceptedMigrations, migrationFaults>>
  BY DEF MigrationUndone
<1>2. ProcessTypes /\ migrationLock = p
      /\ Standing(migrations, "undo", <<>>, migrationFaults, acceptedMigrations)
  BY <1>1, InvariantFromParts, Holding DEF Acting
<1>3. Standing(migrations', "none", <<>>, migrationFaults', acceptedMigrations')
  BY <1>1, <1>2, RecoveryEnds
<1>4. acceptedMigrations' \subseteq Number /\ migrationFaults' \in 0 .. MaxMigrationFaults
  BY <1>1, <1>2 DEF ProcessTypes
<1> QED BY <1>1, <1>2, <1>3, <1>4, LeavingKeeps

LEMMA CheckFailsKeeps ==
  ASSUME MigrationInvariant, NEW p \in Migrator, MigrationCheckFails(p)
  PROVE  MigrationInvariant'
<1>1. /\ Failing(migrationPlan[p]) /\ OnMigrationError(p)
      /\ UNCHANGED <<migrations, acceptedMigrations, migrationFaults>>
  BY DEF MigrationCheckFails
<1>2. ProcessTypes /\ OnlyPlansOfHolders /\ migrationPlan[p] # <<>>
  BY <1>1, InvariantFromParts DEF Failing
<1>3. migrationStage[p] \in {"recover", "swap", "undo"} /\ migrationStage[p] \in Acting
  BY <1>2 DEF OnlyPlansOfHolders, ProcessTypes, MigrationStages, Acting
<1>4. migrationLock = p
      /\ Standing(migrations, migrationStage[p], migrationPlan[p], migrationFaults, acceptedMigrations)
  BY <1>3, Holding
<1>5. migrationStage[p] # "swap"
  <2>1. ASSUME migrationStage[p] = "swap" PROVE FALSE
    <3>1. Standing(migrations, "swap", migrationPlan[p], migrationFaults, acceptedMigrations)
      BY <1>4, <2>1
    <3>2. PICK k, tip, new, tmp, stg, snap, back, jou :
            /\ acceptedMigrations \subseteq 1 .. k
            /\ Stands(migrations, "swap", migrationPlan[p], migrationFaults,
                      k, tip, new, tmp, stg, snap, back, jou)
      BY <3>1 DEF Standing
    <3>3. ~Failing(migrationPlan[p])
      BY <1>2, <3>2, CommittingStep
    <3> QED BY <1>1, <3>3
  <2> QED BY <2>1
<1>6. Standing(migrations, "none", <<>>, migrationFaults, acceptedMigrations)
  BY <1>1, <1>3, <1>4, <1>5, RecoveryFails
<1>7. MigrationLeaves(p)
  BY <1>1, <1>5 DEF OnMigrationError
<1>8. acceptedMigrations' \subseteq Number /\ migrationFaults' \in 0 .. MaxMigrationFaults
      /\ Standing(migrations', "none", <<>>, migrationFaults', acceptedMigrations')
  BY <1>1, <1>2, <1>6 DEF ProcessTypes
<1> QED BY <1>4, <1>7, <1>8, LeavingKeeps

LEMMA FaultsCounted ==
  ASSUME ProcessTypes, migrationFaults < MaxMigrationFaults, migrationFaults' = migrationFaults + 1
  PROVE  migrationFaults \in Nat /\ migrationFaults' \in 0 .. MaxMigrationFaults
BY MigrationAssumption DEF ProcessTypes

LEMMA ErrorKeeps ==
  ASSUME MigrationInvariant, NEW p \in Migrator, MigrationIOError(p)
  PROVE  MigrationInvariant'
<1>1. /\ migrationPlan[p] # <<>> /\ OnMigrationError(p)
      /\ migrationFaults < MaxMigrationFaults /\ migrationFaults' = migrationFaults + 1
      /\ UNCHANGED <<migrations, acceptedMigrations>>
  BY DEF MigrationIOError
<1>2. ProcessTypes /\ OnlyPlansOfHolders
  BY InvariantFromParts
<1>3. migrationStage[p] \in {"recover", "swap", "undo"} /\ migrationStage[p] \in Acting
  BY <1>1, <1>2 DEF OnlyPlansOfHolders, ProcessTypes, MigrationStages, Acting
<1>4. migrationLock = p
      /\ Standing(migrations, migrationStage[p], migrationPlan[p], migrationFaults, acceptedMigrations)
  BY <1>3, Holding
<1>5. migrationFaults \in Nat /\ migrationFaults' \in 0 .. MaxMigrationFaults
  BY <1>1, <1>2, FaultsCounted
<1>6. CASE migrationStage[p] = "swap"
  <2> DEFINE q == MigrationRecover(migrations)
  <2>1. MigrationEnters(p, "undo", q) /\ UNCHANGED <<migrationLock, base, schema>>
    BY <1>1, <1>6 DEF OnMigrationError
  <2>2. Standing(migrations', "undo", q, migrationFaults', acceptedMigrations')
    BY <1>1, <1>4, <1>5, <1>6, CommitIsUndone
  <2>3. "undo" \in Acting /\ schema[p] \in Schema /\ migrationLock' = p
    BY <1>2, <1>4, <1>6, <2>1 DEF Acting, ProcessTypes
  <2> HIDE DEF q
  <2>4. OnlyPlansOfHolders' /\ DirectoryStands'
    BY <2>1, <2>2, <2>3, HolderStands
  <2>5. ProcessTypes'
    BY <1>1, <1>2, <1>4, <1>5, <2>1, <2>3, EnteringTyped
  <2> QED BY <2>4, <2>5, InvariantFromParts
<1>7. CASE migrationStage[p] # "swap"
  <2>1. MigrationLeaves(p)
    BY <1>1, <1>7 DEF OnMigrationError
  <2>2. Standing(migrations', "none", <<>>, migrationFaults', acceptedMigrations')
    BY <1>1, <1>3, <1>4, <1>5, CommandStops
  <2>3. acceptedMigrations' \subseteq Number
    BY <1>1, <1>2 DEF ProcessTypes
  <2> QED BY <1>4, <1>5, <2>1, <2>2, <2>3, LeavingKeeps
<1> QED BY <1>6, <1>7

LEMMA KillKeeps ==
  ASSUME MigrationInvariant, NEW p \in Migrator, KillMigration(p)
  PROVE  MigrationInvariant'
<1>1. /\ migrationLock = p /\ MigrationLeaves(p)
      /\ migrationFaults < MaxMigrationFaults /\ migrationFaults' = migrationFaults + 1
      /\ UNCHANGED <<migrations, acceptedMigrations>>
  BY DEF KillMigration
<1>2. ProcessTypes /\ p # None
  BY InvariantFromParts, MigrationAssumption
<1>3. migrationStage[p] \in Acting
      /\ Standing(migrations, migrationStage[p], migrationPlan[p], migrationFaults, acceptedMigrations)
  BY <1>1, <1>2 DEF MigrationInvariant, DirectoryStands
<1>4. migrationFaults \in Nat /\ migrationFaults' \in 0 .. MaxMigrationFaults
  BY <1>1, <1>2, FaultsCounted
<1>5. Standing(migrations', "none", <<>>, migrationFaults', acceptedMigrations')
  BY <1>1, <1>3, <1>4, CommandStops DEF Acting
<1>6. acceptedMigrations' \subseteq Number
  BY <1>1, <1>2 DEF ProcessTypes
<1> QED BY <1>1, <1>4, <1>5, <1>6, LeavingKeeps

LEMMA MigrationStutters ==
  MigrationInvariant /\ UNCHANGED migrationVars => MigrationInvariant'
<1> SUFFICES ASSUME MigrationInvariant, UNCHANGED migrationVars PROVE MigrationInvariant'
  OBVIOUS
<1>1. /\ migrations' = migrations /\ migrationLock' = migrationLock /\ migrationStage' = migrationStage
      /\ migrationPlan' = migrationPlan /\ base' = base /\ schema' = schema
      /\ acceptedMigrations' = acceptedMigrations /\ migrationFaults' = migrationFaults
  BY DEF migrationVars
<1>2. ProcessTypes /\ OnlyPlansOfHolders /\ DirectoryStands
  BY InvariantFromParts
<1>3. ProcessTypes'
  BY <1>1, <1>2 DEF ProcessTypes
<1>4. OnlyPlansOfHolders' /\ DirectoryStands'
  BY <1>1, <1>2 DEF OnlyPlansOfHolders, DirectoryStands
<1> QED BY <1>3, <1>4, InvariantFromParts

LEMMA MigrationsContinue ==
  MigrationInvariant /\ [MigrationNext]_migrationVars => MigrationInvariant'
<1> SUFFICES ASSUME MigrationInvariant, [MigrationNext]_migrationVars PROVE MigrationInvariant'
  OBVIOUS
<1>1. CASE UNCHANGED migrationVars
  BY <1>1, MigrationStutters
<1>2. CASE MigrationNext
  <2> PICK p \in Migrator :
        \/ \E t \in Schema : PlanDevelopment(p, t) \/ PlanBaseline(p, t)
        \/ AcquireMigration(p) \/ MigrationAcquired(p) \/ CommitMigration(p) \/ AbandonMigration(p)
        \/ MigrationStep(p) \/ MigrationReturns(p) \/ MigrationCheckFails(p)
        \/ MigrationIOError(p) \/ MigrationUndone(p) \/ KillMigration(p)
    BY <1>2 DEF MigrationNext
  <2>1. CASE \E t \in Schema : PlanDevelopment(p, t) \/ PlanBaseline(p, t)
    BY <2>1, PlanningKeeps
  <2>2. CASE AcquireMigration(p)
    BY <2>2, AcquiringKeeps
  <2>3. CASE MigrationAcquired(p)
    BY <2>3, AcquiredKeeps
  <2>4. CASE CommitMigration(p)
    BY <2>4, CommitKeeps
  <2>5. CASE AbandonMigration(p)
    BY <2>5, AbandonKeeps
  <2>6. CASE MigrationStep(p)
    BY <2>6, StepKeeps
  <2>7. CASE MigrationReturns(p)
    BY <2>7, ReturnKeeps
  <2>8. CASE MigrationCheckFails(p)
    BY <2>8, CheckFailsKeeps
  <2>9. CASE MigrationIOError(p)
    BY <2>9, ErrorKeeps
  <2>10. CASE MigrationUndone(p)
    BY <2>10, UndoneKeeps
  <2>11. CASE KillMigration(p)
    BY <2>11, KillKeeps
  <2> QED BY <2>1, <2>2, <2>3, <2>4, <2>5, <2>6, <2>7, <2>8, <2>9, <2>10, <2>11
<1> QED BY <1>1, <1>2

-----------------------------------------------------------------------------
(* What the shapes mean for the snapshot.                                    *)

LEMMA CleanIsMatched ==
  ASSUME NEW d, NEW doing, NEW q, NEW faulty, NEW kept, Standing(d, doing, q, faulty, kept),
         MigrationClean(d)
  PROVE  d[Snapshot] = Described(d)
<1>1. PICK k, tip, new, tmp, stg, snap, back, jou :
        Stands(d, doing, q, faulty, k, tip, new, tmp, stg, snap, back, jou)
  BY DEF Standing
<1>2. At(d, k, tip, new, tmp, stg, snap, back, jou) /\ Shape(k, tip, new, tmp, stg, snap, back, jou)
  BY <1>1 DEF Stands
<1>3. jou = Absent
  BY <1>2 DEF MigrationClean, Exists, At
<1>4. Calm(k, tip, new, tmp, stg, snap, back, jou)
  BY <1>2, <1>3, CalmIsNotNoted DEF Shape, Prepared, BackedUp, Late, Installed
<1>5. Described(d) = tip
  BY <1>2, <1>4, LatestIsLast DEF Calm
<1> QED BY <1>2, <1>4, <1>5 DEF At, Calm

LEMMA SnapshotIsThere ==
  ASSUME NEW d, NEW doing, NEW q, NEW faulty \in Nat, NEW kept, Standing(d, doing, q, faulty, kept),
         faulty <= 1, kept # {}
  PROVE  \E path \in {Snapshot, SnapshotBackup} : \E n \in Files(d) :
           d[path] = d[Sql(n)].to /\ \A m \in kept : m <= n
<1>1. PICK k, tip, new, tmp, stg, snap, back, jou :
        /\ kept \subseteq 1 .. k
        /\ Stands(d, doing, q, faulty, k, tip, new, tmp, stg, snap, back, jou)
  BY DEF Standing
<1>2. /\ At(d, k, tip, new, tmp, stg, snap, back, jou)
      /\ Shape(k, tip, new, tmp, stg, snap, back, jou)
      /\ Accounted(doing, faulty, k, tip, new, tmp, stg, snap, back, jou)
  BY <1>1 DEF Stands
<1>3. k \in Nat /\ k # 0 /\ k \in 1 .. k /\ k \in Number /\ \A m \in kept : m <= k /\ m <= k + 1
  <2>1. k \in Nat /\ MaxMigrations \in Nat /\ k <= MaxMigrations
    BY <1>2, MigrationAssumption DEF At
  <2>2. k # 0
    <3>1. PICK m \in kept : m \in 1 .. k
      BY <1>1
    <3> QED BY <2>1, <3>1
  <2> QED BY <1>1, <2>1, <2>2 DEF Number
<1>4. k \in Files(d) /\ d[Sql(k)].to = tip
  BY <1>2, <1>3, FilesLead DEF At, Files, Exists
<1>5. d[Snapshot] = snap /\ d[SnapshotBackup] = back
  BY <1>2 DEF At
<1>6. CASE snap = tip \/ back = tip
  BY <1>3, <1>4, <1>5, <1>6
<1>7. CASE Installed(k, tip, new, tmp, stg, snap, back, jou)
  <2>1. k + 1 \in Number /\ d[Sql(k + 1)] = new /\ new # Absent /\ snap = new.to
    BY <1>2, <1>7, Tips, FilesLead DEF At, Installed
  <2>2. k + 1 \in Files(d)
    BY <2>1 DEF Files, Exists
  <2> QED BY <1>3, <1>5, <2>1, <2>2
<1>8. CASE Late(k, tip, new, tmp, stg, snap, back, jou)
  <2>1. snap = tip
    BY <1>2, <1>8 DEF Late, Accounted
  <2> QED BY <1>6, <2>1
<1> QED BY <1>2, <1>6, <1>7, <1>8 DEF Shape, Calm, Prepared, BackedUp

LEMMA AcceptedExists ==
  ASSUME NEW d, NEW doing, NEW q, NEW faulty, NEW kept, Standing(d, doing, q, faulty, kept),
         NEW n \in kept
  PROVE  Exists(d, Sql(n))
<1>1. PICK k, tip, new, tmp, stg, snap, back, jou :
        kept \subseteq 1 .. k /\ At(d, k, tip, new, tmp, stg, snap, back, jou)
  BY DEF Standing, Stands
<1> QED BY <1>1, FilesLead DEF At, Exists

LEMMA SnapshotKept == MigrationInvariant => SnapshotIsKept
<1> SUFFICES ASSUME MigrationInvariant PROVE SnapshotIsKept
  OBVIOUS
<1>1. PICK doing, q : Standing(migrations, doing, q, migrationFaults, acceptedMigrations)
  BY DEF MigrationInvariant, DirectoryStands
<1>2. MigrationTypes /\ migrationFaults \in Nat
  BY MigrationAssumption DEF MigrationInvariant, MigrationTypes
<1>3. SnapshotMatchesLatest
  BY <1>1, CleanIsMatched DEF SnapshotMatchesLatest
<1>4. SnapshotSurvives
  BY <1>1, <1>2, SnapshotIsThere DEF SnapshotSurvives
<1>5. RecoverySucceeds
  <2>1. ASSUME migrationFaults <= 1, NEW p \in Migrator, migrationStage[p] = "recover",
               Failing(migrationPlan[p])
        PROVE  FALSE
    <3>1. Standing(migrations, "recover", migrationPlan[p], migrationFaults, acceptedMigrations)
      BY <2>1, Holding DEF Acting
    <3>2. migrationFaults >= 2
      BY <2>1, <3>1, RecoveryFails
    <3> QED BY <1>2, <2>1, <3>2
  <2> QED BY <2>1 DEF RecoverySucceeds
<1> QED BY <1>2, <1>3, <1>4, <1>5 DEF SnapshotIsKept

\* The files of accepted migrations are the same after a step of any command.
LEMMA AcceptedFilesStay ==
  ASSUME MigrationInvariant, [MigrationNext]_migrationVars
  PROVE  \A n \in acceptedMigrations :
           migrations'[Sql(n)] = migrations[Sql(n)] /\ Exists(migrations, Sql(n))
<1>1. PICK doing, q : Standing(migrations, doing, q, migrationFaults, acceptedMigrations)
  BY DEF MigrationInvariant, DirectoryStands
<1>2. \A n \in acceptedMigrations : Exists(migrations, Sql(n))
  BY <1>1, AcceptedExists
<1>3. migrations' = migrations \/ \E p \in Migrator : MigrationStep(p)
  BY DEF MigrationNext, migrationVars, PlanDevelopment, PlanBaseline, AcquireMigration,
         MigrationAcquired, CommitMigration, AbandonMigration, MigrationReturns,
         MigrationCheckFails, MigrationIOError, MigrationUndone, KillMigration
<1>4. \A n \in acceptedMigrations : migrations'[Sql(n)] = migrations[Sql(n)]
  BY <1>3, StepKeeps
<1> QED BY <1>2, <1>4

-----------------------------------------------------------------------------
(* Normal generation touches nothing of an update, and every plan writes     *)
(* complete records to the journals.                                         *)

GenerationJournals == {Absent, Empty} \cup [phase : Phases]
UpdateJournals == {Absent, Empty} \cup [phase : Phases, hadLock : BOOLEAN, hadTree : BOOLEAN]

JournalsTyped(d) ==
  /\ DOMAIN d = ProjectPath
  /\ d["journal"] \in GenerationJournals /\ d["update_journal"] \in UpdateJournals

Spared(p) == IF p \in Generator THEN UpdatePaths ELSE {}

Regular(a, spared) ==
  \/ /\ a.do = "put" /\ a.path \notin spared
     /\ a.path = "journal" => a.content \in GenerationJournals
     /\ a.path = "update_journal" => a.content \in UpdateJournals
  \/ /\ a.do = "move"
     /\ a.path \notin spared \cup {"journal", "update_journal"}
     /\ a.content \notin spared \cup {"journal", "update_journal"}
  \/ a.do = "fail"

RegularPlan(q, spared) == \E S : q \in Seq(S) /\ \A a \in S : Regular(a, spared)

LEMMA RegularOne == ASSUME NEW a, NEW spared, Regular(a, spared) PROVE RegularPlan(<<a>>, spared)
<1> DEFINE S == {a}
           q == <<a>>
<1>1. q \in Seq(S)
  BY SMT
<1>2. \A b \in S : Regular(b, spared)
  OBVIOUS
<1> HIDE DEF S, q
<1>3. RegularPlan(q, spared)
  BY <1>1, <1>2 DEF RegularPlan
<1> QED BY <1>3 DEF q

LEMMA RegularNone == ASSUME NEW spared PROVE RegularPlan(<<>>, spared)
<1> DEFINE S == {}
           q == <<>>
<1>1. q \in Seq(S)
  BY SMT
<1>2. \A b \in S : Regular(b, spared)
  OBVIOUS
<1> HIDE DEF S, q
<1>3. RegularPlan(q, spared)
  BY <1>1, <1>2 DEF RegularPlan
<1> QED BY <1>3 DEF q

LEMMA RegularJoin ==
  ASSUME NEW spared, NEW s, NEW t, RegularPlan(s, spared), RegularPlan(t, spared)
  PROVE  RegularPlan(s \o t, spared)
<1>1. PICK S : s \in Seq(S) /\ \A a \in S : Regular(a, spared)
  BY DEF RegularPlan
<1>2. PICK T : t \in Seq(T) /\ \A a \in T : Regular(a, spared)
  BY DEF RegularPlan
<1>3. s \in Seq(S \cup T) /\ t \in Seq(S \cup T)
  BY <1>1, <1>2, SMT
<1>4. s \o t \in Seq(S \cup T)
  BY <1>3, SMT
<1>5. \A a \in S \cup T : Regular(a, spared)
  BY <1>1, <1>2
<1> DEFINE U == S \cup T
<1>6. s \o t \in Seq(U) /\ \A a \in U : Regular(a, spared)
  BY <1>4, <1>5
<1> HIDE DEF U
<1> QED BY <1>6, Zenon DEF RegularPlan

LEMMA RegularNext ==
  ASSUME NEW spared, NEW s, RegularPlan(s, spared), s # <<>>
  PROVE  Regular(Head(s), spared) /\ RegularPlan(Tail(s), spared)
<1>1. PICK S : s \in Seq(S) /\ \A a \in S : Regular(a, spared)
  BY DEF RegularPlan
<1>2. Head(s) \in S /\ Tail(s) \in Seq(S)
  BY <1>1, SMT
<1> QED BY <1>1, <1>2 DEF RegularPlan

LEMMA RegularPuts ==
  ASSUME NEW spared, NEW x, x \notin spared \cup {"journal", "update_journal"}, NEW c
  PROVE  /\ RegularPlan(Put(x, c), spared) /\ RegularPlan(Remove(x), spared)
         /\ RegularPlan(RemoveTree(x), spared) /\ RegularPlan(WriteTree(x, c), spared)
<1>1. \A v : RegularPlan(Put(x, v), spared)
  BY RegularOne DEF Put, Regular
<1> QED BY <1>1, RegularJoin DEF Remove, RemoveTree, WriteTree

LEMMA RegularMoves ==
  ASSUME NEW spared, NEW x, x \notin spared \cup {"journal", "update_journal"},
         NEW y, y \notin spared \cup {"journal", "update_journal"}
  PROVE  RegularPlan(Move(x, y), spared) /\ RegularPlan(Fail, spared)
BY RegularOne DEF Move, Fail, Regular

LEMMA RegularRecords ==
  ASSUME NEW spared
  PROVE  /\ "journal" \notin spared =>
              \A c \in GenerationJournals : RegularPlan(Put("journal", c), spared)
         /\ "update_journal" \notin spared =>
              \A c \in UpdateJournals : RegularPlan(Put("update_journal", c), spared)
BY RegularOne DEF Put, Regular

LEMMA RegularCondition ==
  ASSUME NEW spared, NEW c, NEW s, c => RegularPlan(s, spared)
  PROVE  RegularPlan(When(c, s), spared)
BY RegularNone DEF When

LEMMA RegularCheck == ASSUME NEW spared, NEW c PROVE RegularPlan(Check(c), spared)
<1>1. RegularPlan(Fail, spared)
  BY RegularOne DEF Fail, Regular
<1> QED BY <1>1, RegularCondition DEF Check

LEMMA RegularRecovery ==
  ASSUME NEW d, JournalsTyped(d), NEW spared \in {{}, UpdatePaths}
  PROVE  RegularPlan(Recover(d), spared)
<1>1. /\ "generated" \notin spared \cup {"journal", "update_journal"}
      /\ "backup" \notin spared \cup {"journal", "update_journal"}
      /\ "staging" \notin spared \cup {"journal", "update_journal"}
      /\ "journal" \notin spared
  BY DEF UpdatePaths
<1>2. /\ RegularPlan(RemoveTree("generated"), spared) /\ RegularPlan(RemoveTree("backup"), spared)
      /\ RegularPlan(RemoveTree("staging"), spared) /\ RegularPlan(Move("backup", "generated"), spared)
  BY <1>1, RegularPuts, RegularMoves
<1>3. RegularPlan(Remove("journal"), spared)
  BY <1>1, RegularRecords DEF Remove, GenerationJournals
<1>4. RegularPlan(RemoveStaging(d), spared)
  BY <1>2, RegularCheck, RegularCondition, RegularJoin, Zenon DEF RemoveStaging
<1>5. RegularPlan(RecoverPrepared(d), spared)
  BY <1>2, <1>4, RegularCheck, RegularCondition, RegularJoin, Zenon DEF RecoverPrepared
<1>6. RegularPlan(RecoverBackedUp(d), spared)
  BY <1>2, <1>4, RegularCheck, RegularCondition, RegularJoin, Zenon DEF RecoverBackedUp
<1>7. RegularPlan(RecoverInstalled(d), spared)
  BY <1>2, RegularCheck, RegularCondition, RegularJoin, Zenon DEF RecoverInstalled
<1>8. RegularPlan(RecoverWithoutJournal(d), spared)
  BY <1>2, RegularCheck, RegularCondition, RegularJoin, Zenon DEF RecoverWithoutJournal
<1>9. Phase(d, "journal") \in {"none", "prepared", "backed_up", "installed"}
  BY DEF JournalsTyped, GenerationJournals, Phase, Phases
<1> QED BY <1>3, <1>5, <1>6, <1>7, <1>8, <1>9, RegularJoin DEF Recover

LEMMA RegularSwap ==
  ASSUME NEW d, NEW spared \in {{}, UpdatePaths}
  PROVE  RegularPlan(Swap(d), spared) /\ RegularPlan(RemoveTree("staging"), spared)
         /\ \A v : RegularPlan(WriteTree("staging", v), spared)
<1>1. /\ "generated" \notin spared \cup {"journal", "update_journal"}
      /\ "backup" \notin spared \cup {"journal", "update_journal"}
      /\ "staging" \notin spared \cup {"journal", "update_journal"}
      /\ "journal" \notin spared
  BY DEF UpdatePaths
<1>2. /\ RegularPlan(RemoveTree("backup"), spared) /\ RegularPlan(RemoveTree("staging"), spared)
      /\ RegularPlan(Move("generated", "backup"), spared)
      /\ RegularPlan(Move("staging", "generated"), spared)
      /\ \A v : RegularPlan(WriteTree("staging", v), spared)
  BY <1>1, RegularPuts, RegularMoves
<1>3. /\ Absent \in GenerationJournals /\ Empty \in GenerationJournals
      /\ \A phase \in Phases : Record(phase) \in GenerationJournals
  BY DEF GenerationJournals, Record
<1>4. /\ RegularPlan(Put("journal", Absent), spared) /\ RegularPlan(Put("journal", Empty), spared)
      /\ \A phase \in Phases : RegularPlan(Put("journal", Record(phase)), spared)
  BY <1>1, <1>3, RegularRecords
<1>5. /\ RegularPlan(Put("journal", Record("prepared")), spared)
      /\ RegularPlan(Put("journal", Record("backed_up")), spared)
      /\ RegularPlan(Put("journal", Record("installed")), spared)
  BY <1>4 DEF Phases
<1>6. RegularPlan(Remove("journal"), spared)
      /\ RegularPlan(StartJournal("journal", Record("prepared")), spared)
  BY <1>4, <1>5, RegularJoin DEF Remove, StartJournal
<1>7. RegularPlan(Swap(d), spared)
  BY <1>2, <1>5, <1>6, RegularCondition, RegularJoin, Zenon DEF Swap
<1> QED BY <1>2, <1>7

LEMMA RegularUpdate ==
  ASSUME NEW d, JournalsTyped(d)
  PROVE  /\ RegularPlan(UpdateRecover(d), {}) /\ RegularPlan(UpdateSwap(d), {})
         /\ RegularPlan(RemoveUpdateStaging(d), {})
         /\ \A v : RegularPlan(WriteTree("update_staging", v) \o Put("lock_staging", v), {})
<1> DEFINE X == {"generated", "lock", "lock_staging", "lock_backup", "update_staging", "update_backup"}
<1>1. \A x \in X : x \notin {} \cup {"journal", "update_journal"}
  OBVIOUS
<1>2. \A x \in X : /\ RegularPlan(Remove(x), {}) /\ RegularPlan(RemoveTree(x), {})
                   /\ \A v : RegularPlan(WriteTree(x, v), {}) /\ RegularPlan(Put(x, v), {})
                   /\ \A y \in X : RegularPlan(Move(x, y), {})
  BY <1>1, RegularPuts, RegularMoves
<1>3. /\ RegularPlan(Remove("lock"), {}) /\ RegularPlan(Remove("lock_staging"), {})
      /\ RegularPlan(Remove("lock_backup"), {}) /\ RegularPlan(RemoveTree("generated"), {})
      /\ RegularPlan(RemoveTree("update_staging"), {}) /\ RegularPlan(RemoveTree("update_backup"), {})
  BY <1>2
<1>4. /\ RegularPlan(Move("lock", "lock_backup"), {}) /\ RegularPlan(Move("lock_backup", "lock"), {})
      /\ RegularPlan(Move("generated", "update_backup"), {})
      /\ RegularPlan(Move("update_backup", "generated"), {})
      /\ RegularPlan(Move("lock_staging", "lock"), {})
      /\ RegularPlan(Move("update_staging", "generated"), {})
  BY <1>2
<1>5. /\ Absent \in UpdateJournals /\ Empty \in UpdateJournals
      /\ \A phase \in Phases : UpdateRecord(d, phase) \in UpdateJournals
  BY DEF UpdateJournals, UpdateRecord, Exists
<1>6. /\ RegularPlan(Put("update_journal", Absent), {}) /\ RegularPlan(Put("update_journal", Empty), {})
      /\ \A phase \in Phases : RegularPlan(Put("update_journal", UpdateRecord(d, phase)), {})
  BY <1>5, RegularRecords
<1>7. /\ RegularPlan(Put("update_journal", UpdateRecord(d, "prepared")), {})
      /\ RegularPlan(Put("update_journal", UpdateRecord(d, "backed_up")), {})
      /\ RegularPlan(Put("update_journal", UpdateRecord(d, "installed")), {})
  BY <1>6 DEF Phases
<1>8. RegularPlan(Remove("update_journal"), {})
      /\ RegularPlan(StartJournal("update_journal", UpdateRecord(d, "prepared")), {})
  BY <1>6, <1>7, RegularJoin DEF Remove, StartJournal
<1>9. RegularPlan(RemoveUpdateStaging(d), {}) /\ RegularPlan(RemoveBackups(d), {})
  BY <1>3, RegularCheck, RegularCondition, RegularJoin, Zenon DEF RemoveUpdateStaging, RemoveBackups
<1>10. \A had : /\ RegularPlan(RestoreIfBackedUp(d, "lock", "lock_backup", had), {})
                /\ RegularPlan(RestoreIfBackedUp(d, "generated", "update_backup", had), {})
  BY <1>4, RegularCheck, RegularJoin, Zenon DEF RestoreIfBackedUp
<1>11. RegularPlan(UpdateRecoverPrepared(d), {})
  BY <1>9, <1>10, RegularCheck, RegularJoin, Zenon DEF UpdateRecoverPrepared
<1>12. \A had : RegularPlan(RollbackFile(d, had), {}) /\ RegularPlan(RollbackGenerated(d, had), {})
  BY <1>3, <1>4, RegularCheck, RegularCondition, RegularJoin, Zenon DEF RollbackFile, RollbackGenerated
<1>13. RegularPlan(UpdateRecoverBackedUp(d), {})
  BY <1>9, <1>12, RegularJoin, Zenon DEF UpdateRecoverBackedUp
<1>14. RegularPlan(UpdateRecoverInstalled(d), {}) /\ RegularPlan(UpdateRecoverWithoutJournal(d), {})
  BY <1>9, RegularCheck, RegularJoin, Zenon DEF UpdateRecoverInstalled, UpdateRecoverWithoutJournal
<1>15. Phase(d, "update_journal") \in {"none", "prepared", "backed_up", "installed"}
  BY DEF JournalsTyped, UpdateJournals, Phase, Phases
<1>16. RegularPlan(UpdateRecover(d), {})
  BY <1>8, <1>11, <1>13, <1>14, <1>15, RegularJoin DEF UpdateRecover
<1>17. RegularPlan(UpdateSwap(d), {})
  BY <1>3, <1>4, <1>7, <1>8, RegularCondition, RegularJoin, Zenon DEF UpdateSwap
<1>18. \A v : RegularPlan(WriteTree("update_staging", v) \o Put("lock_staging", v), {})
  BY <1>2, RegularJoin
<1> QED BY <1>9, <1>16, <1>17, <1>18

LEMMA RegularExecutes ==
  ASSUME NEW d, JournalsTyped(d), NEW a, NEW spared, Regular(a, spared), a.do # "fail"
  PROVE  /\ JournalsTyped(Execute(d, a))
         /\ \A x \in spared \cap ProjectPath : Execute(d, a)[x] = d[x]
<1>1. {"journal", "update_journal"} \subseteq ProjectPath
  BY DEF ProjectPath, GenerationPaths, UpdatePaths
<1>2. CASE a.do = "put"
  BY <1>1, <1>2 DEF Regular, Execute, JournalsTyped
<1>3. CASE a.do # "put"
  BY <1>1, <1>3 DEF Regular, Execute, JournalsTyped
<1> QED BY <1>2, <1>3

-----------------------------------------------------------------------------
(* Who holds the lock, and that generation holds it over no unfinished update. *)

ProjectHolds ==
  /\ ProjectTypes /\ DOMAIN stage = Process /\ DOMAIN plan = Process
  /\ DOMAIN faults = Command
  /\ \A p \in Process : stage[p] = "idle" => plan[p] = <<>>

GenerationWaitsInv ==
  /\ JournalsTyped(disk)
  /\ \A p \in Process : RegularPlan(plan[p], Spared(p))
  /\ \A p \in Generator : holder = p => ~UpdateState(disk)

ProjectInvariant == ProjectHolds /\ GenerationWaitsInv

LEMMA ProjectBegins == ProjectInit => ProjectInvariant
<1> SUFFICES ASSUME ProjectInit PROVE ProjectInvariant
  OBVIOUS
<1>1. ProjectHolds
  BY ProjectAssumption DEF ProjectInit, ProjectHolds, ProjectTypes, Stages, Command
<1>2. JournalsTyped(disk)
  <2>1. {"journal", "update_journal"} \subseteq ProjectPath
    BY DEF ProjectPath, GenerationPaths, UpdatePaths
  <2> QED BY <2>1 DEF ProjectInit, JournalsTyped, GenerationJournals, UpdateJournals
<1>3. \A p \in Process : plan[p] = <<>> /\ RegularPlan(plan[p], Spared(p))
  BY RegularNone DEF ProjectInit
<1>4. \A p \in Generator : holder # p
  BY ProjectAssumption DEF ProjectInit, Process
<1> QED BY <1>1, <1>2, <1>3, <1>4 DEF ProjectInvariant, GenerationWaitsInv

\* A process goes on with another plan, which is a regular one.
LEMMA EnteringWaits ==
  ASSUME ProjectInvariant, NEW p \in Process, NEW s \in Stages \ {"idle"}, NEW q, Enters(p, s, q),
         holder' = p, holder \in {None, p}, disk' = disk,
         RegularPlan(q, Spared(p)), p \in Generator => ~UpdateState(disk),
         commits' \in 0 .. MaxCommits, DOMAIN faults' = Command,
         \A c \in Command : faults'[c] \in 0 .. MaxFaults[c]
  PROVE  ProjectInvariant'
<1>1. /\ ProjectTypes /\ DOMAIN stage = Process /\ DOMAIN plan = Process
      /\ \A x \in Process : stage[x] = "idle" => plan[x] = <<>>
  BY DEF ProjectInvariant, ProjectHolds
<1>2. /\ DOMAIN stage' = Process /\ DOMAIN plan' = Process
      /\ stage'[p] = s /\ plan'[p] = q
      /\ \A x \in Process : x # p => stage'[x] = stage[x] /\ plan'[x] = plan[x]
  BY <1>1 DEF Enters
<1>3. \A x \in Process : x # p => stage[x] = "idle"
  BY <1>1, ProjectAssumption DEF ProjectTypes
<1>4. stage' \in [Process -> Stages]
  BY <1>1 DEF Enters, ProjectTypes
<1>5. ProjectHolds'
  BY <1>1, <1>2, <1>3, <1>4 DEF ProjectHolds, ProjectTypes
<1>6. \A x \in Process : RegularPlan(plan'[x], Spared(x))
  BY <1>2 DEF ProjectInvariant, GenerationWaitsInv
<1>7. \A x \in Generator : holder' = x => ~UpdateState(disk')
  OBVIOUS
<1>8. JournalsTyped(disk')
  BY DEF ProjectInvariant, GenerationWaitsInv
<1>9. GenerationWaitsInv'
  BY <1>6, <1>7, <1>8 DEF GenerationWaitsInv
<1> QED BY <1>5, <1>9 DEF ProjectInvariant

LEMMA LeavingWaits ==
  ASSUME ProjectInvariant, NEW p \in Process, Leave(p), holder = p, disk' = disk,
         commits' \in 0 .. MaxCommits, DOMAIN faults' = Command,
         \A c \in Command : faults'[c] \in 0 .. MaxFaults[c]
  PROVE  ProjectInvariant'
<1>1. /\ ProjectTypes /\ DOMAIN stage = Process /\ DOMAIN plan = Process
      /\ \A x \in Process : stage[x] = "idle" => plan[x] = <<>>
  BY DEF ProjectInvariant, ProjectHolds
<1>2. /\ DOMAIN stage' = Process /\ DOMAIN plan' = Process
      /\ stage'[p] = "idle" /\ plan'[p] = <<>> /\ holder' = None
      /\ \A x \in Process : x # p => stage'[x] = stage[x] /\ plan'[x] = plan[x]
  BY <1>1 DEF Leave, Enters
<1>3. \A x \in Process : stage'[x] = "idle"
  BY <1>1, <1>2 DEF ProjectTypes
<1>4. stage' \in [Process -> Stages]
  BY <1>1 DEF Leave, Enters, ProjectTypes, Stages
<1>5. ProjectHolds'
  BY <1>1, <1>2, <1>3, <1>4 DEF ProjectHolds, ProjectTypes
<1>6. \A x \in Process : RegularPlan(plan'[x], Spared(x))
  BY <1>2, RegularNone DEF ProjectInvariant, GenerationWaitsInv
<1>7. \A x \in Generator : holder' # x
  BY <1>2, ProjectAssumption DEF Process
<1>8. JournalsTyped(disk')
  BY DEF ProjectInvariant, GenerationWaitsInv
<1>9. GenerationWaitsInv'
  BY <1>6, <1>7, <1>8 DEF GenerationWaitsInv
<1> QED BY <1>5, <1>9 DEF ProjectInvariant

\* The process whose stage is not idle holds the lock.
LEMMA WorkingHolds ==
  ASSUME ProjectInvariant, NEW p \in Process, stage[p] # "idle" \/ plan[p] # <<>>
  PROVE  holder = p /\ stage[p] # "idle" /\ (p \in Generator => ~UpdateState(disk))
BY DEF ProjectInvariant, ProjectHolds, ProjectTypes, GenerationWaitsInv

LEMMA Counted ==
  ASSUME ProjectInvariant
  PROVE  /\ commits \in 0 .. MaxCommits /\ DOMAIN faults = Command
         /\ \A c \in Command : faults[c] \in 0 .. MaxFaults[c]
BY DEF ProjectInvariant, ProjectHolds, ProjectTypes

LEMMA FaultCounted ==
  ASSUME ProjectInvariant, NEW p \in Process, Fault(p)
  PROVE  DOMAIN faults' = Command /\ \A c \in Command : faults'[c] \in 0 .. MaxFaults[c]
<1>1. /\ DOMAIN faults = Command /\ CommandOf(p) \in Command
      /\ \A c \in Command : faults[c] \in 0 .. MaxFaults[c] /\ MaxFaults[c] \in Nat
  BY Counted, ProjectAssumption DEF Command, CommandOf
<1>2. faults'[CommandOf(p)] \in 0 .. MaxFaults[CommandOf(p)]
  BY <1>1 DEF Fault
<1>3. \A c \in Command : c # CommandOf(p) => faults'[c] = faults[c]
  BY <1>1 DEF Fault
<1>4. DOMAIN faults' = Command
  BY <1>1 DEF Fault
<1>5. \A c \in Command : faults'[c] \in 0 .. MaxFaults[c]
  <2>1. ASSUME NEW c \in Command PROVE faults'[c] \in 0 .. MaxFaults[c]
    <3>1. CASE c = CommandOf(p)
      BY <1>2, <3>1
    <3>2. CASE c # CommandOf(p)
      BY <1>1, <1>3, <3>2
    <3> QED BY <3>1, <3>2
  <2> QED BY <2>1
<1> QED BY <1>4, <1>5

LEMMA PlansRegular ==
  ASSUME ProjectInvariant, NEW p \in Process
  PROVE  /\ RegularPlan(Recover(disk), Spared(p))
         /\ RegularPlan(<<>>, Spared(p))
         /\ p \in Updater => /\ RegularPlan(UpdateRecover(disk), Spared(p))
                             /\ RegularPlan(UpdateSwap(disk), Spared(p))
                             /\ RegularPlan(RemoveUpdateStaging(disk), Spared(p))
         /\ p \in Generator => /\ RegularPlan(Swap(disk), Spared(p))
                               /\ RegularPlan(RemoveTree("staging"), Spared(p))
         /\ \A v : RegularPlan(Staging(p, v), Spared(p))
<1>1. JournalsTyped(disk) /\ Spared(p) \in {{}, UpdatePaths}
  BY DEF ProjectInvariant, GenerationWaitsInv, Spared
<1>2. p \in Updater => Spared(p) = {} /\ p \notin Generator
  BY ProjectAssumption DEF Spared
<1>3. p \in Generator \/ p \in Updater
  BY DEF Process
<1>4. RegularPlan(Recover(disk), Spared(p)) /\ RegularPlan(<<>>, Spared(p))
  BY <1>1, RegularRecovery, RegularNone
<1>5. p \in Updater => /\ RegularPlan(UpdateRecover(disk), Spared(p))
                       /\ RegularPlan(UpdateSwap(disk), Spared(p))
                       /\ RegularPlan(RemoveUpdateStaging(disk), Spared(p))
                       /\ \A v : RegularPlan(WriteTree("update_staging", v) \o Put("lock_staging", v), Spared(p))
  BY <1>1, <1>2, RegularUpdate
<1>6. /\ RegularPlan(Swap(disk), Spared(p)) /\ RegularPlan(RemoveTree("staging"), Spared(p))
      /\ \A v : RegularPlan(WriteTree("staging", v), Spared(p))
  BY <1>1, RegularSwap
<1>7. \A v : RegularPlan(Staging(p, v), Spared(p))
  BY <1>2, <1>3, <1>5, <1>6 DEF Staging
<1> QED BY <1>4, <1>5, <1>6, <1>7

LEMMA OneStepWaits ==
  ASSUME ProjectInvariant, NEW p \in Process, Step(p)
  PROVE  ProjectInvariant'
<1> DEFINE q == plan[p]
           a == Head(q)
<1>1. /\ q # <<>> /\ ~Failing(q) /\ disk' = Execute(disk, a)
      /\ plan' = [plan EXCEPT ![p] = Tail(q)]
      /\ UNCHANGED <<holder, stage, before, after, commits, faults>>
  BY DEF Step
<1>2. JournalsTyped(disk) /\ RegularPlan(q, Spared(p))
  BY DEF ProjectInvariant, GenerationWaitsInv
<1>3. holder = p /\ stage[p] # "idle" /\ (p \in Generator => ~UpdateState(disk))
  BY <1>1, WorkingHolds
<1>4. DOMAIN plan = Process
  BY DEF ProjectInvariant, ProjectHolds
<1> HIDE DEF q
<1>5. Regular(a, Spared(p)) /\ RegularPlan(Tail(q), Spared(p)) /\ a.do # "fail"
  BY <1>1, <1>2, RegularNext DEF Failing
<1> HIDE DEF a
<1>6. JournalsTyped(disk') /\ \A x \in Spared(p) \cap ProjectPath : disk'[x] = disk[x]
  BY <1>1, <1>2, <1>5, RegularExecutes
<1>7. p \in Generator => ~UpdateState(disk')
  <2>1. UpdatePaths \subseteq ProjectPath
    BY DEF ProjectPath
  <2> QED BY <1>3, <1>6, <2>1 DEF UpdateState, Exists, Spared
<1>8. \A x \in Process : RegularPlan(plan'[x], Spared(x))
  BY <1>1, <1>4, <1>5 DEF ProjectInvariant, GenerationWaitsInv
<1>9. GenerationWaitsInv'
  BY <1>1, <1>3, <1>6, <1>7, <1>8 DEF GenerationWaitsInv
<1>10. ProjectHolds'
  <2>1. DOMAIN disk' = ProjectPath
    BY <1>6 DEF JournalsTyped
  <2>2. DOMAIN plan' = Process /\ \A x \in Process : stage'[x] = "idle" => plan'[x] = <<>>
    BY <1>1, <1>3, <1>4 DEF ProjectInvariant, ProjectHolds
  <2> QED BY <1>1, <2>1, <2>2 DEF ProjectInvariant, ProjectHolds, ProjectTypes
<1> QED BY <1>9, <1>10 DEF ProjectInvariant

LEMMA ProjectStutters == ProjectInvariant /\ UNCHANGED projectVars => ProjectInvariant'
<1> SUFFICES ASSUME ProjectInvariant, UNCHANGED projectVars PROVE ProjectInvariant'
  OBVIOUS
<1>1. /\ disk' = disk /\ holder' = holder /\ stage' = stage /\ plan' = plan
      /\ before' = before /\ after' = after /\ commits' = commits /\ faults' = faults
  BY DEF projectVars
<1>2. ProjectHolds'
  BY <1>1 DEF ProjectInvariant, ProjectHolds, ProjectTypes
<1>3. GenerationWaitsInv'
  BY <1>1 DEF ProjectInvariant, GenerationWaitsInv, UpdateState, Exists
<1> QED BY <1>2, <1>3 DEF ProjectInvariant

LEMMA AcquireWaits ==
  ASSUME ProjectInvariant, NEW p \in Process,
         Acquire(p) \/ AcquireUpdate(p) \/ Acquired(p)
  PROVE  ProjectInvariant'
<1>1. /\ RegularPlan(Recover(disk), Spared(p)) /\ RegularPlan(<<>>, Spared(p))
      /\ p \in Updater => RegularPlan(UpdateRecover(disk), Spared(p))
  BY PlansRegular
<1>2. /\ disk' = disk /\ commits' \in 0 .. MaxCommits /\ DOMAIN faults' = Command
      /\ \A c \in Command : faults'[c] \in 0 .. MaxFaults[c]
  BY Counted DEF Acquire, AcquireUpdate, Acquired
<1>3. {"recover", "recover_update", "ready"} \subseteq Stages \ {"idle"}
  BY DEF Stages
<1>4. CASE Acquire(p)
  <2> DEFINE q == Recover(disk)
  <2>1. /\ Enters(p, "recover", q) /\ holder' = p /\ holder = None
        /\ p \in Generator => ~UpdateState(disk)
    BY <1>4 DEF Acquire, MayEnter
  <2>2. RegularPlan(q, Spared(p))
    BY <1>1
  <2> HIDE DEF q
  <2> QED BY <1>2, <1>3, <2>1, <2>2, EnteringWaits
<1>5. CASE AcquireUpdate(p)
  <2> DEFINE q == UpdateRecover(disk)
  <2>1. /\ Enters(p, "recover_update", q) /\ holder' = holder /\ stage[p] = "recover" /\ p \in Updater
    BY <1>5 DEF AcquireUpdate
  <2>2. holder = p /\ (p \in Generator => ~UpdateState(disk))
    BY <2>1, WorkingHolds
  <2>3. RegularPlan(q, Spared(p))
    BY <1>1, <2>1
  <2> HIDE DEF q
  <2> QED BY <1>2, <1>3, <2>1, <2>2, <2>3, EnteringWaits
<1>6. CASE Acquired(p)
  <2>1. Enters(p, "ready", <<>>) /\ holder' = holder /\ stage[p] # "idle"
    BY <1>6 DEF Acquired
  <2>2. holder = p /\ (p \in Generator => ~UpdateState(disk))
    BY <2>1, WorkingHolds
  <2> QED BY <1>1, <1>2, <1>3, <2>1, <2>2, EnteringWaits
<1> QED BY <1>4, <1>5, <1>6

LEMMA ReplaceWaits ==
  ASSUME ProjectInvariant, NEW p \in Process,
         Staged(p) \/ \E v \in Version : ReplaceFiles(p, v)
  PROVE  ProjectInvariant'
<1>1. {"stage", "swap"} \subseteq Stages \ {"idle"}
  BY DEF Stages
<1>2. commits \in 0 .. MaxCommits /\ DOMAIN faults = Command
      /\ \A c \in Command : faults[c] \in 0 .. MaxFaults[c]
  BY Counted
<1>3. CASE Staged(p)
  <2> DEFINE q == IF p \in Generator THEN Swap(disk) ELSE UpdateSwap(disk)
  <2>1. /\ Enters(p, "swap", q) /\ stage[p] # "idle"
        /\ UNCHANGED <<disk, holder, commits, faults>>
    BY <1>3 DEF Staged
  <2>2. holder = p /\ (p \in Generator => ~UpdateState(disk))
    BY <2>1, WorkingHolds
  <2>3. RegularPlan(q, Spared(p))
    BY PlansRegular DEF Process
  <2> HIDE DEF q
  <2> QED BY <1>1, <1>2, <2>1, <2>2, <2>3, EnteringWaits
<1>4. ASSUME NEW v \in Version, ReplaceFiles(p, v) PROVE ProjectInvariant'
  <2> DEFINE q == Staging(p, v)
  <2>1. /\ Enters(p, "stage", q) /\ stage[p] # "idle" /\ commits < MaxCommits /\ commits' = commits + 1
        /\ UNCHANGED <<disk, holder, faults>>
    BY <1>4 DEF ReplaceFiles
  <2>2. holder = p /\ (p \in Generator => ~UpdateState(disk))
    BY <2>1, WorkingHolds
  <2>3. RegularPlan(q, Spared(p))
    BY PlansRegular
  <2>4. commits' \in 0 .. MaxCommits
    BY <1>2, <2>1, ProjectAssumption
  <2> HIDE DEF q
  <2> QED BY <1>1, <1>2, <2>1, <2>2, <2>3, <2>4, EnteringWaits
<1> QED BY <1>3, <1>4

\* What OnError does leads to another plan, or ends the command.
LEMMA ErrorWaits ==
  ASSUME ProjectInvariant, NEW p \in Process, plan[p] # <<>>, OnError(p), disk' = disk,
         commits' = commits, DOMAIN faults' = Command,
         \A c \in Command : faults'[c] \in 0 .. MaxFaults[c]
  PROVE  ProjectInvariant'
<1>1. holder = p /\ stage[p] # "idle" /\ (p \in Generator => ~UpdateState(disk))
  BY WorkingHolds
<1>2. commits' \in 0 .. MaxCommits
  BY Counted
<1>3. {"cleanup", "undo"} \subseteq Stages \ {"idle"}
  BY DEF Stages
<1>4. CASE stage[p] = "stage"
  <2> DEFINE q == IF p \in Generator THEN RemoveTree("staging") ELSE RemoveUpdateStaging(disk)
  <2>1. Enters(p, "cleanup", q) /\ holder' = holder
    BY <1>4 DEF OnError
  <2>2. RegularPlan(q, Spared(p))
    BY PlansRegular DEF Process
  <2> HIDE DEF q
  <2> QED BY <1>1, <1>2, <1>3, <2>1, <2>2, EnteringWaits
<1>5. CASE stage[p] = "swap"
  <2> DEFINE q == IF p \in Generator THEN Recover(disk) ELSE UpdateRecover(disk)
  <2>1. Enters(p, "undo", q) /\ holder' = holder
    BY <1>5 DEF OnError
  <2>2. RegularPlan(q, Spared(p))
    BY PlansRegular DEF Process
  <2> HIDE DEF q
  <2> QED BY <1>1, <1>2, <1>3, <2>1, <2>2, EnteringWaits
<1>6. CASE stage[p] # "stage" /\ stage[p] # "swap"
  <2>1. Leave(p)
    BY <1>6 DEF OnError
  <2> QED BY <1>1, <1>2, <2>1, LeavingWaits
<1> QED BY <1>4, <1>5, <1>6

LEMMA EndWaits ==
  ASSUME ProjectInvariant, NEW p \in Process,
         Abandon(p) \/ Return(p) \/ Undone(p) \/ Kill(p) \/ CheckFails(p) \/ IOError(p)
  PROVE  ProjectInvariant'
<1>1. commits \in 0 .. MaxCommits /\ DOMAIN faults = Command
      /\ \A c \in Command : faults[c] \in 0 .. MaxFaults[c]
  BY Counted
<1>2. CASE Abandon(p) \/ Return(p) \/ Undone(p)
  <2>1. Leave(p) /\ stage[p] # "idle" /\ UNCHANGED <<disk, commits, faults>>
    BY <1>2 DEF Abandon, Return, Undone
  <2>2. holder = p
    BY <2>1, WorkingHolds
  <2> QED BY <1>1, <2>1, <2>2, LeavingWaits
<1>3. CASE Kill(p)
  <2>1. Leave(p) /\ stage[p] # "idle" /\ Fault(p) /\ UNCHANGED <<disk, commits>>
    BY <1>3 DEF Kill
  <2>2. holder = p
    BY <2>1, WorkingHolds
  <2>3. DOMAIN faults' = Command /\ \A c \in Command : faults'[c] \in 0 .. MaxFaults[c]
    BY <2>1, FaultCounted
  <2> QED BY <1>1, <2>1, <2>2, <2>3, LeavingWaits
<1>4. CASE CheckFails(p)
  <2>1. plan[p] # <<>> /\ OnError(p) /\ UNCHANGED <<disk, commits, faults>>
    BY <1>4 DEF CheckFails, Failing
  <2> QED BY <1>1, <2>1, ErrorWaits
<1>5. CASE IOError(p)
  <2>1. plan[p] # <<>> /\ OnError(p) /\ Fault(p) /\ UNCHANGED <<disk, commits>>
    BY <1>5 DEF IOError
  <2>2. DOMAIN faults' = Command /\ \A c \in Command : faults'[c] \in 0 .. MaxFaults[c]
    BY <2>1, FaultCounted
  <2> QED BY <2>1, <2>2, ErrorWaits
<1> QED BY <1>2, <1>3, <1>4, <1>5

LEMMA ProjectContinues == ProjectInvariant /\ [ProjectNext]_projectVars => ProjectInvariant'
<1> SUFFICES ASSUME ProjectInvariant, [ProjectNext]_projectVars PROVE ProjectInvariant'
  OBVIOUS
<1>1. CASE UNCHANGED projectVars
  BY <1>1, ProjectStutters
<1>2. CASE ProjectNext
  <2> PICK p \in Process :
        \/ Acquire(p) \/ AcquireUpdate(p) \/ Acquired(p) \/ Abandon(p)
        \/ \E v \in Version : ReplaceFiles(p, v)
        \/ Staged(p) \/ Step(p) \/ Return(p)
        \/ CheckFails(p) \/ IOError(p) \/ Undone(p) \/ Kill(p)
    BY <1>2 DEF ProjectNext
  <2> QED BY AcquireWaits, ReplaceWaits, OneStepWaits, EndWaits
<1> QED BY <1>1, <1>2

-----------------------------------------------------------------------------
(* A plan as a whole: the disks it passes are in X, those where a check      *)
(* fails are in F, and it ends in E.                                         *)

Runs(Q, X, F, E) ==
  \A w \in Q :
    /\ w[1] \in X /\ IsPlan(w[2])
    /\ w[2] = <<>> => w[1] \in E
    /\ Failing(w[2]) => w[1] \in F
    /\ w[2] # <<>> /\ ~Failing(w[2]) => <<Execute(w[1], Head(w[2])), Tail(w[2])>> \in Q

Leads(d, q, X, F, E) == \E Q : <<d, q>> \in Q /\ Runs(Q, X, F, E)

LEMMA LeadsOn ==
  ASSUME NEW d, NEW q, NEW X, NEW F, NEW E, Leads(d, q, X, F, E)
  PROVE  /\ d \in X /\ IsPlan(q)
         /\ q = <<>> => d \in E
         /\ Failing(q) => d \in F
         /\ q # <<>> /\ ~Failing(q) => Leads(Execute(d, Head(q)), Tail(q), X, F, E)
<1>1. PICK Q : <<d, q>> \in Q /\ Runs(Q, X, F, E)
  BY DEF Leads
<1> DEFINE w == <<d, q>>
<1>2. w[1] = d /\ w[2] = q /\ w \in Q
  BY <1>1
<1> HIDE DEF w
<1>3. /\ d \in X /\ IsPlan(q)
      /\ q = <<>> => d \in E
      /\ Failing(q) => d \in F
      /\ q # <<>> /\ ~Failing(q) => <<Execute(d, Head(q)), Tail(q)>> \in Q
  BY <1>1, <1>2 DEF Runs
<1> QED BY <1>1, <1>3 DEF Leads

LEMMA LeadsNowhere ==
  ASSUME NEW d, NEW X, NEW F, NEW E, d \in X, d \in E
  PROVE  Leads(d, <<>>, X, F, E)
<1> DEFINE nothing == <<>>
           Q == {<<d, nothing>>}
<1>1. IsPlan(nothing) /\ ~Failing(nothing)
  BY NothingIsPlan DEF Failing
<1>2. nothing = <<>>
  OBVIOUS
<1> HIDE DEF nothing
<1>3. Runs(Q, X, F, E)
  BY <1>1, <1>2 DEF Runs
<1>4. Leads(d, nothing, X, F, E)
  BY <1>3 DEF Leads
<1> QED BY <1>4 DEF nothing

\* A plan of one step.
LEMMA LeadsOnce ==
  ASSUME NEW d, NEW a, NEW e, NEW X, NEW F, d \in X, a.do # "fail", e = Execute(d, a), e \in X
  PROVE  Leads(d, <<a>>, X, F, {e})
<1> DEFINE q == <<a>>
           nothing == <<>>
           Q == {<<d, q>>, <<e, nothing>>}
<1>1. /\ IsPlan(nothing) /\ ~Failing(nothing) /\ nothing = <<>>
      /\ IsPlan(q) /\ Head(q) = a /\ Tail(q) = nothing /\ q # <<>> /\ ~Failing(q)
  BY NothingIsPlan, Single DEF Failing
<1> HIDE DEF nothing, q
<1>2. Runs(Q, X, F, {e})
  BY <1>1 DEF Runs
<1>3. Leads(d, q, X, F, {e})
  BY <1>2 DEF Leads
<1> QED BY <1>3 DEF q

LEMMA LeadsPut ==
  ASSUME NEW d, NEW path, NEW c, NEW e, NEW X, NEW F, d \in X, e \in X, e = [d EXCEPT ![path] = c]
  PROVE  Leads(d, Put(path, c), X, F, {e})
<1> DEFINE a == [do |-> "put", path |-> path, content |-> c]
<1>1. a.do # "fail" /\ e = Execute(d, a)
  BY DEF Execute
<1>2. Put(path, c) = <<a>>
  BY DEF Put
<1> HIDE DEF a
<1>3. Leads(d, <<a>>, X, F, {e})
  BY <1>1, LeadsOnce
<1> QED BY <1>2, <1>3

LEMMA LeadsMove ==
  ASSUME NEW d, NEW from, NEW to, NEW e, NEW X, NEW F, d \in X, e \in X,
         e = [d EXCEPT ![to] = d[from], ![from] = Absent]
  PROVE  Leads(d, Move(from, to), X, F, {e})
<1> DEFINE a == [do |-> "move", path |-> from, content |-> to]
<1>1. a.do # "fail" /\ e = Execute(d, a)
  BY DEF Execute
<1>2. Move(from, to) = <<a>>
  BY DEF Move
<1> HIDE DEF a
<1>3. Leads(d, <<a>>, X, F, {e})
  BY <1>1, LeadsOnce
<1> QED BY <1>2, <1>3

LEMMA LeadsFail ==
  ASSUME NEW d, NEW X, NEW F, NEW E, d \in X, d \in F
  PROVE  Leads(d, Fail, X, F, E)
<1> DEFINE a == [do |-> "fail", path |-> Absent, content |-> Absent]
           q == <<a>>
           Q == {<<d, q>>}
<1>1. q # <<>> /\ Failing(q) /\ IsPlan(q)
  BY Single DEF Failing
<1>2. q = Fail
  BY DEF Fail
<1> HIDE DEF q, a
<1>3. Runs(Q, X, F, E)
  BY <1>1 DEF Runs
<1> QED BY <1>2, <1>3 DEF Leads

LEMMA Joined ==
  ASSUME NEW r, NEW t, IsPlan(r), IsPlan(t), r # <<>>
  PROVE  /\ IsPlan(r \o t) /\ r \o t # <<>> /\ Head(r \o t) = Head(r)
         /\ Tail(r \o t) = Tail(r) \o t /\ IsPlan(Tail(r))
<1>1. PICK S : r \in Seq(S) /\ t \in Seq(S)
  BY PlansJoin
<1>2. r \o t \in Seq(S) /\ r \o t # <<>> /\ Head(r \o t) = Head(r) /\ Tail(r) \in Seq(S)
  BY <1>1, SMT
<1>3. Tail(r \o t) = Tail(r) \o t
  BY <1>1, SMT
<1> QED BY <1>2, <1>3 DEF IsPlan

\* One plan after another.
LEMMA LeadsThen ==
  ASSUME NEW d, NEW s, NEW e, NEW t, NEW X, NEW F, NEW E,
         Leads(d, s, X, F, {e}), Leads(e, t, X, F, E)
  PROVE  Leads(d, s \o t, X, F, E)
<1>1. PICK Q : <<d, s>> \in Q /\ Runs(Q, X, F, {e})
  BY DEF Leads
<1>2. PICK T : <<e, t>> \in T /\ Runs(T, X, F, E)
  BY DEF Leads
<1>3. IsPlan(t)
  BY LeadsOn
<1> DEFINE join(w) == <<w[1], w[2] \o t>>
           R == {join(w) : w \in Q} \cup T
<1>4. ASSUME NEW w \in Q, w[2] # <<>>
      PROVE  /\ w[1] \in X /\ IsPlan(w[2] \o t) /\ w[2] \o t # <<>>
             /\ Failing(w[2] \o t) => w[1] \in F
             /\ ~Failing(w[2] \o t) => <<Execute(w[1], Head(w[2] \o t)), Tail(w[2] \o t)>> \in R
  <2> DEFINE r == w[2]
  <2>1. /\ w[1] \in X /\ IsPlan(r) /\ r # <<>>
        /\ Failing(r) => w[1] \in F
        /\ ~Failing(r) => <<Execute(w[1], Head(r)), Tail(r)>> \in Q
    BY <1>1, <1>4 DEF Runs
  <2> HIDE DEF r
  <2>2. /\ IsPlan(r \o t) /\ r \o t # <<>> /\ Head(r \o t) = Head(r)
        /\ Tail(r \o t) = Tail(r) \o t
    BY <1>3, <2>1, Joined
  <2>3. Failing(r \o t) <=> Failing(r)
    BY <2>1, <2>2 DEF Failing
  <2>4. ~Failing(r) => <<Execute(w[1], Head(r)), Tail(r) \o t>> \in R
    <3> DEFINE v == <<Execute(w[1], Head(r)), Tail(r)>>
    <3>1. join(v) = <<Execute(w[1], Head(r)), Tail(r) \o t>>
      OBVIOUS
    <3> HIDE DEF join, v
    <3>2. v \in Q => join(v) \in R
      OBVIOUS
    <3> QED BY <2>1, <3>1, <3>2 DEF v
  <2> HIDE DEF R
  <2>5. /\ w[1] \in X /\ IsPlan(r \o t) /\ r \o t # <<>>
        /\ Failing(r \o t) => w[1] \in F
        /\ ~Failing(r \o t) => <<Execute(w[1], Head(r \o t)), Tail(r \o t)>> \in R
    BY <2>1, <2>2, <2>3, <2>4
  <2> QED BY <2>5 DEF r
<1>5. ASSUME NEW w \in Q, w[2] = <<>> PROVE join(w) = <<e, t>>
  <2>1. w[1] = e
    BY <1>1, <1>5 DEF Runs
  <2>2. <<>> \o t = t
    BY <1>3, NothingFirst
  <2> QED BY <1>5, <2>1, <2>2
<1>6. Runs(R, X, F, E)
  <2> SUFFICES ASSUME NEW v \in R
               PROVE  /\ v[1] \in X /\ IsPlan(v[2])
                      /\ v[2] = <<>> => v[1] \in E
                      /\ Failing(v[2]) => v[1] \in F
                      /\ v[2] # <<>> /\ ~Failing(v[2]) => <<Execute(v[1], Head(v[2])), Tail(v[2])>> \in R
    BY DEF Runs
  <2>1. CASE v \in T
    <3> T \subseteq R
      OBVIOUS
    <3> HIDE DEF R
    <3> QED BY <1>2, <2>1 DEF Runs
  <2>2. CASE v \notin T
    <3>1. PICK w \in Q : v = join(w)
      BY <2>2
    <3>2. w[2] # <<>>
      BY <1>2, <1>5, <2>2, <3>1
    <3>3. v[1] = w[1] /\ v[2] = w[2] \o t
      BY <3>1
    <3> HIDE DEF R, join
    <3> QED BY <1>4, <3>2, <3>3
  <2> QED BY <2>1, <2>2
<1>7. <<d, s \o t>> \in R
  <2> DEFINE w == <<d, s>>
  <2>1. join(w) = <<d, s \o t>> /\ w \in Q
    BY <1>1
  <2> HIDE DEF w, join
  <2> QED BY <2>1
<1> HIDE DEF R
<1> QED BY <1>6, <1>7 DEF Leads

\* A plan that fails does not reach what comes after.
LEMMA LeadsNoFurther ==
  ASSUME NEW d, NEW s, NEW t, NEW X, NEW F, NEW E, Leads(d, s, X, F, {}), IsPlan(t)
  PROVE  Leads(d, s \o t, X, F, E)
<1>1. PICK Q : <<d, s>> \in Q /\ Runs(Q, X, F, {})
  BY DEF Leads
<1> DEFINE join(w) == <<w[1], w[2] \o t>>
           R == {join(w) : w \in Q}
<1>2. ASSUME NEW w \in Q
      PROVE  /\ w[1] \in X /\ IsPlan(w[2] \o t) /\ w[2] \o t # <<>>
             /\ Failing(w[2] \o t) => w[1] \in F
             /\ ~Failing(w[2] \o t) => <<Execute(w[1], Head(w[2] \o t)), Tail(w[2] \o t)>> \in R
  <2> DEFINE r == w[2]
  <2>1. /\ w[1] \in X /\ IsPlan(r) /\ r # <<>>
        /\ Failing(r) => w[1] \in F
        /\ ~Failing(r) => <<Execute(w[1], Head(r)), Tail(r)>> \in Q
    BY <1>1 DEF Runs
  <2> HIDE DEF r
  <2>2. /\ IsPlan(r \o t) /\ r \o t # <<>> /\ Head(r \o t) = Head(r)
        /\ Tail(r \o t) = Tail(r) \o t
    BY <2>1, Joined
  <2>3. Failing(r \o t) <=> Failing(r)
    BY <2>1, <2>2 DEF Failing
  <2>4. ~Failing(r) => <<Execute(w[1], Head(r)), Tail(r) \o t>> \in R
    <3> DEFINE v == <<Execute(w[1], Head(r)), Tail(r)>>
    <3>1. join(v) = <<Execute(w[1], Head(r)), Tail(r) \o t>>
      OBVIOUS
    <3> HIDE DEF join, v
    <3>2. v \in Q => join(v) \in R
      OBVIOUS
    <3> QED BY <2>1, <3>1, <3>2 DEF v
  <2> HIDE DEF R
  <2>5. /\ w[1] \in X /\ IsPlan(r \o t) /\ r \o t # <<>>
        /\ Failing(r \o t) => w[1] \in F
        /\ ~Failing(r \o t) => <<Execute(w[1], Head(r \o t)), Tail(r \o t)>> \in R
    BY <2>1, <2>2, <2>3, <2>4
  <2> QED BY <2>5 DEF r
<1>3. Runs(R, X, F, E)
  <2> SUFFICES ASSUME NEW v \in R
               PROVE  /\ v[1] \in X /\ IsPlan(v[2])
                      /\ v[2] = <<>> => v[1] \in E
                      /\ Failing(v[2]) => v[1] \in F
                      /\ v[2] # <<>> /\ ~Failing(v[2]) => <<Execute(v[1], Head(v[2])), Tail(v[2])>> \in R
    BY DEF Runs
  <2>1. PICK w \in Q : v = join(w)
    OBVIOUS
  <2>2. v[1] = w[1] /\ v[2] = w[2] \o t
    BY <2>1
  <2> HIDE DEF R, join
  <2> QED BY <1>2, <2>2
<1>4. <<d, s \o t>> \in R
  <2> DEFINE w == <<d, s>>
  <2>1. join(w) = <<d, s \o t>> /\ w \in Q
    BY <1>1
  <2> HIDE DEF w, join
  <2> QED BY <2>1
<1> HIDE DEF R
<1> QED BY <1>3, <1>4 DEF Leads

LEMMA LeadsWithin ==
  ASSUME NEW d, NEW q, NEW X, NEW F, NEW E, Leads(d, q, X, F, E),
         NEW Y, NEW G, NEW H, X \subseteq Y, F \subseteq G, E \subseteq H
  PROVE  Leads(d, q, Y, G, H)
<1>1. PICK Q : <<d, q>> \in Q /\ Runs(Q, X, F, E)
  BY DEF Leads
<1>2. Runs(Q, Y, G, H)
  BY <1>1 DEF Runs
<1> QED BY <1>1, <1>2 DEF Leads

LEMMA LeadsCheck ==
  ASSUME NEW d, NEW c, NEW X, NEW F, d \in X, c \/ d \in F
  PROVE  Leads(d, Check(c), X, F, IF c THEN {d} ELSE {})
<1>1. CASE c
  <2>1. Check(c) = <<>>
    BY <1>1 DEF Check, When
  <2> QED BY <1>1, <2>1, LeadsNowhere
<1>2. CASE ~c
  <2>1. Check(c) = Fail
    BY <1>2 DEF Check, When
  <2> QED BY <1>2, <2>1, LeadsFail
<1> QED BY <1>1, <1>2

\* The files of a tree go one at a time.
LEMMA LeadsRemoveTree ==
  ASSUME NEW d, NEW path, NEW e, NEW f, NEW X, NEW F, d \in X, e \in X, f \in X,
         e = [d EXCEPT ![path] = Partial], f = [e EXCEPT ![path] = Absent]
  PROVE  Leads(d, RemoveTree(path), X, F, {f})
<1>1. Leads(d, Put(path, Partial), X, F, {e})
  BY LeadsPut
<1>2. Leads(e, Put(path, Absent), X, F, {f})
  BY LeadsPut
<1> QED BY <1>1, <1>2, LeadsThen DEF RemoveTree

-----------------------------------------------------------------------------
(* What generation and update leave on the disk wherever they are            *)
(* interrupted. old and new are pairs <<lock, tree>>.                        *)

Contained == Version \cup {Absent}
Pairs == Contained \X Contained
Disks == [ProjectPath -> Version \cup {Partial} \cup GenerationJournals \cup UpdateJournals]

Alone(e) == \A p \in UpdatePaths : e[p] = Absent
Apart(e) == \A p \in GenerationPaths : e[p] = Absent

Cleaned(old, new) ==
  {e \in Disks : Clean(e) /\ Contents(e) \in {old, new}}

\* Generation. There is no record in the journal: only staging may be left.
Quiet(e, old, new) ==
  /\ e["journal"] \in {Absent, Empty} /\ e["backup"] = Absent
  /\ e["staging"] \in {Absent, Partial, new[2]}
  /\ Contents(e) \in {old, new}

Installing(e, old, new) ==
  /\ old[1] = new[1] /\ new[2] \in Version /\ e["lock"] = old[1]
  /\ e["staging"] \in {Absent, Partial, new[2]}

TreePrepared(e, old, new) ==
  /\ e["journal"] = Record("prepared") /\ Installing(e, old, new)
  /\ \/ e["generated"] = old[2] /\ e["backup"] = Absent
     \/ e["generated"] = Absent /\ e["backup"] = old[2]

TreeBackedUp(e, old, new) ==
  /\ e["journal"] = Record("backed_up") /\ Installing(e, old, new)
  /\ \/ e["generated"] = Absent /\ e["backup"] = old[2]
     \/ /\ e["generated"] = new[2] /\ e["backup"] \in {Absent, Partial, old[2]}
        /\ e["staging"] = Absent
     \/ e["generated"] = old[2] /\ e["backup"] = Absent /\ e["staging"] = Absent

TreeInstalled(e, old, new) ==
  /\ e["journal"] = Record("installed") /\ Installing(e, old, new)
  /\ e["generated"] = new[2] /\ e["backup"] \in {Absent, Partial, old[2]}
  /\ e["staging"] = Absent

Generated(old, new) ==
  {e \in Disks : Alone(e) /\ (\/ Quiet(e, old, new) \/ TreePrepared(e, old, new)
                              \/ TreeBackedUp(e, old, new) \/ TreeInstalled(e, old, new))}

\* Update. There is no record in the journal: only staging may be left.
UpdateQuiet(e, old, new) ==
  /\ e["update_journal"] \in {Absent, Empty}
  /\ e["update_backup"] = Absent /\ e["lock_backup"] = Absent
  /\ e["update_staging"] \in {Absent, Partial, new[2]}
  /\ e["lock_staging"] \in {Absent, new[1]}
  /\ Contents(e) \in {old, new}

Journaled(e, phase, old, new) ==
  /\ new[1] \in Version /\ new[2] \in Version
  /\ e["update_journal"] =
       [phase |-> phase, hadLock |-> old[1] # Absent, hadTree |-> old[2] # Absent]

UpdatePrepared(e, old, new) ==
  /\ Journaled(e, "prepared", old, new)
  /\ e["lock_staging"] = new[1] /\ e["update_staging"] = new[2]
  /\ \/ e["lock"] = old[1] /\ e["lock_backup"] = Absent
     \/ e["lock"] = Absent /\ e["lock_backup"] = old[1]
  /\ \/ e["generated"] = old[2] /\ e["update_backup"] = Absent
     \/ e["generated"] = Absent /\ e["update_backup"] = old[2]

UpdateBackedUp(e, old, new) ==
  /\ Journaled(e, "backed_up", old, new)
  /\ e["lock_backup"] = old[1] /\ e["update_backup"] = old[2]
  /\ \/ e["lock"] = Absent /\ e["lock_staging"] = new[1]
     \/ e["lock"] = new[1] /\ e["lock_staging"] = Absent
  /\ \/ e["generated"] = Absent /\ e["update_staging"] = new[2]
     \/ e["generated"] = new[2] /\ e["update_staging"] = Absent

UpdateInstalled(e, old, new) ==
  /\ Journaled(e, "installed", old, new)
  /\ e["lock"] = new[1] /\ e["generated"] = new[2]
  /\ e["lock_staging"] = Absent /\ e["update_staging"] = Absent
  /\ e["lock_backup"] \in {Absent, old[1]} /\ e["update_backup"] \in {Absent, Partial, old[2]}

Updated(old, new) ==
  {e \in Disks : Apart(e) /\ (\/ UpdateQuiet(e, old, new) \/ UpdatePrepared(e, old, new)
                              \/ UpdateBackedUp(e, old, new) \/ UpdateInstalled(e, old, new))}

\* A recovery of an update is not interrupted, as the update was: nothing is
\* lost while it runs.
Recoverable(old, new) ==
  {e \in Disks :
     /\ Clean(e) => Contents(e) \in {old, new}
     /\ \/ /\ old[1] # Absent => old[1] \in {e["lock"], e["lock_backup"]}
           /\ old[2] # Absent => old[2] \in {e["generated"], e["update_backup"]}
        \/ e["lock"] = new[1] /\ e["generated"] = new[2]}

-----------------------------------------------------------------------------
(* The plans of generation.                                                  *)

Trees == Version \cup {Absent, Partial}

TreeAt(d, l, g, s, k, j) ==
  /\ d \in Disks /\ Alone(d)
  /\ d["lock"] = l /\ d["generated"] = g
  /\ d["staging"] = s /\ d["backup"] = k /\ d["journal"] = j

LEMMA PathsAre ==
  /\ ProjectPath = {"generated", "lock", "staging", "backup", "journal", "update_staging",
                    "update_backup", "lock_staging", "lock_backup", "update_journal"}
  /\ GenerationPaths = {"staging", "backup", "journal"}
  /\ UpdatePaths = {"update_staging", "update_backup", "lock_staging", "lock_backup", "update_journal"}
BY DEF ProjectPath, GenerationPaths, UpdatePaths

\* One path changes.
LEMMA DisksChange ==
  ASSUME NEW d \in Disks, NEW p \in ProjectPath,
         NEW c \in Version \cup {Partial} \cup GenerationJournals \cup UpdateJournals
  PROVE  /\ [d EXCEPT ![p] = c] \in Disks
         /\ [d EXCEPT ![p] = c][p] = c
         /\ \A q \in ProjectPath : q # p => [d EXCEPT ![p] = c][q] = d[q]
BY DEF Disks

LEMMA TreePuts ==
  ASSUME NEW d, NEW l, NEW g, NEW s, NEW k, NEW j, TreeAt(d, l, g, s, k, j)
  PROVE  /\ \A c \in Trees : TreeAt([d EXCEPT !["staging"] = c], l, g, c, k, j)
         /\ \A c \in Trees : TreeAt([d EXCEPT !["backup"] = c], l, g, s, c, j)
         /\ \A c \in GenerationJournals : TreeAt([d EXCEPT !["journal"] = c], l, g, s, k, c)
<1>1. Trees \subseteq Version \cup {Partial} \cup GenerationJournals \cup UpdateJournals
  BY DEF Trees, GenerationJournals
<1>2. d \in Disks
  BY DEF TreeAt
<1>3. ASSUME NEW c \in Trees PROVE TreeAt([d EXCEPT !["staging"] = c], l, g, c, k, j)
  <2> DEFINE e == [d EXCEPT !["staging"] = c]
  <2>1. e \in Disks /\ e["staging"] = c /\ \A q \in ProjectPath : q # "staging" => e[q] = d[q]
    BY <1>1, <1>2, DisksChange, PathsAre
  <2> HIDE DEF e
  <2>2. TreeAt(e, l, g, c, k, j)
    BY <2>1, PathsAre DEF TreeAt, Alone
  <2> QED BY <2>2 DEF e
<1>4. ASSUME NEW c \in Trees PROVE TreeAt([d EXCEPT !["backup"] = c], l, g, s, c, j)
  <2> DEFINE e == [d EXCEPT !["backup"] = c]
  <2>1. e \in Disks /\ e["backup"] = c /\ \A q \in ProjectPath : q # "backup" => e[q] = d[q]
    BY <1>1, <1>2, DisksChange, PathsAre
  <2> HIDE DEF e
  <2>2. TreeAt(e, l, g, s, c, j)
    BY <2>1, PathsAre DEF TreeAt, Alone
  <2> QED BY <2>2 DEF e
<1>5. ASSUME NEW c \in GenerationJournals PROVE TreeAt([d EXCEPT !["journal"] = c], l, g, s, k, c)
  <2> DEFINE e == [d EXCEPT !["journal"] = c]
  <2>1. e \in Disks /\ e["journal"] = c /\ \A q \in ProjectPath : q # "journal" => e[q] = d[q]
    BY <1>2, DisksChange, PathsAre
  <2> HIDE DEF e
  <2>2. TreeAt(e, l, g, s, k, c)
    BY <2>1, PathsAre DEF TreeAt, Alone
  <2> QED BY <2>2 DEF e
<1> QED BY <1>3, <1>4, <1>5

LEMMA TreeMoves ==
  ASSUME NEW d, NEW l, NEW g, NEW s, NEW k, NEW j, TreeAt(d, l, g, s, k, j)
  PROVE  /\ TreeAt([d EXCEPT !["backup"] = d["generated"], !["generated"] = Absent], l, Absent, s, g, j)
         /\ TreeAt([d EXCEPT !["generated"] = d["backup"], !["backup"] = Absent], l, k, s, Absent, j)
         /\ TreeAt([d EXCEPT !["generated"] = d["staging"], !["staging"] = Absent], l, s, Absent, k, j)
<1>1. d \in Disks /\ {"staging", "backup", "generated"} \subseteq ProjectPath
  BY PathsAre DEF TreeAt
<1>2. TreeAt([d EXCEPT !["backup"] = d["generated"], !["generated"] = Absent], l, Absent, s, g, j)
  <2> DEFINE e == [d EXCEPT !["backup"] = d["generated"], !["generated"] = Absent]
  <2>1. /\ e \in Disks /\ e["backup"] = d["generated"] /\ e["generated"] = Absent
        /\ \A q \in ProjectPath : q # "generated" /\ q # "backup" => e[q] = d[q]
    BY <1>1 DEF Disks, GenerationJournals
  <2> HIDE DEF e
  <2>2. TreeAt(e, l, Absent, s, g, j)
    BY <2>1, PathsAre DEF TreeAt, Alone
  <2> QED BY <2>2 DEF e
<1>3. TreeAt([d EXCEPT !["generated"] = d["backup"], !["backup"] = Absent], l, k, s, Absent, j)
  <2> DEFINE e == [d EXCEPT !["generated"] = d["backup"], !["backup"] = Absent]
  <2>1. /\ e \in Disks /\ e["generated"] = d["backup"] /\ e["backup"] = Absent
        /\ \A q \in ProjectPath : q # "backup" /\ q # "generated" => e[q] = d[q]
    BY <1>1 DEF Disks, GenerationJournals
  <2> HIDE DEF e
  <2>2. TreeAt(e, l, k, s, Absent, j)
    BY <2>1, PathsAre DEF TreeAt, Alone
  <2> QED BY <2>2 DEF e
<1>4. TreeAt([d EXCEPT !["generated"] = d["staging"], !["staging"] = Absent], l, s, Absent, k, j)
  <2> DEFINE e == [d EXCEPT !["generated"] = d["staging"], !["staging"] = Absent]
  <2>1. /\ e \in Disks /\ e["generated"] = d["staging"] /\ e["staging"] = Absent
        /\ \A q \in ProjectPath : q # "staging" /\ q # "generated" => e[q] = d[q]
    BY <1>1 DEF Disks, GenerationJournals
  <2> HIDE DEF e
  <2>2. TreeAt(e, l, s, Absent, k, j)
    BY <2>1, PathsAre DEF TreeAt, Alone
  <2> QED BY <2>2 DEF e
<1> QED BY <1>2, <1>3, <1>4

\* A change to what stands anyway.
LEMMA NothingGoes ==
  ASSUME NEW d \in Disks, NEW p \in ProjectPath, d[p] = Absent
  PROVE  [d EXCEPT ![p] = Absent] = d
BY DEF Disks

LEMMA JournalsAre ==
  /\ Absent \in GenerationJournals /\ Empty \in GenerationJournals
  /\ \A phase \in Phases :
       /\ Record(phase) \in GenerationJournals /\ Record(phase) \notin {Absent, Empty}
       /\ Record(phase).phase = phase
BY ProjectAssumption DEF GenerationJournals, Record

\* The last step of a recovery, and of a replacement.
LEMMA TreeConcludes ==
  ASSUME NEW old \in Pairs, NEW new \in Pairs, NEW e, NEW l, NEW g, NEW j, NEW F,
         TreeAt(e, l, g, Absent, Absent, j), e \in Generated(old, new), <<l, g>> \in {old, new}
  PROVE  Leads(e, Remove("journal"), Generated(old, new), F, Cleaned(<<l, g>>, <<l, g>>))
<1> DEFINE f == [e EXCEPT !["journal"] = Absent]
<1>1. TreeAt(f, l, g, Absent, Absent, Absent)
  BY TreePuts, JournalsAre
<1>2. f = [e EXCEPT !["journal"] = Absent]
  OBVIOUS
<1> HIDE DEF f
<1>3. f \in Generated(old, new)
  BY <1>1 DEF Generated, TreeAt, Quiet, Contents
<1>4. f \in Cleaned(<<l, g>>, <<l, g>>)
  BY <1>1, PathsAre DEF Cleaned, TreeAt, Clean, Contents, Alone, Exists
<1>5. Leads(e, Remove("journal"), Generated(old, new), F, {f})
  BY <1>2, <1>3, LeadsPut DEF Remove
<1> QED BY <1>4, <1>5, LeadsWithin

LEMMA CleanedOf ==
  ASSUME NEW old \in Pairs, NEW new \in Pairs, NEW pair \in {old, new}
  PROVE  Cleaned(pair, pair) \subseteq Cleaned(old, new)
BY DEF Cleaned

\* Staging goes, unless its manifest does not fit it any more.
LEMMA StagingGoes ==
  ASSUME NEW d, NEW e, NEW l, NEW g, NEW s \in Trees, NEW k, NEW j, NEW X,
         TreeAt(e, l, g, s, k, j), d["staging"] = s,
         \A f, t : t \in {s, Partial, Absent} /\ TreeAt(f, l, g, t, k, j) => f \in X
  PROVE  /\ s = Partial => Leads(e, RemoveStaging(d), X, X, {})
         /\ s # Partial => \E f : TreeAt(f, l, g, Absent, k, j) /\ Leads(e, RemoveStaging(d), X, X, {f})
<1>1. e \in X /\ e \in Disks /\ e["staging"] = s
  BY DEF TreeAt
<1>2. CASE s = Absent
  <2>1. RemoveStaging(d) = <<>>
    BY <1>2 DEF RemoveStaging, When, Exists
  <2>2. Leads(e, RemoveStaging(d), X, X, {e})
    BY <1>1, <2>1, LeadsNowhere
  <2>3. Absent # Partial
    BY ContentsAssumption
  <2> QED BY <1>2, <2>2, <2>3
<1>3. CASE s # Absent
  <2> DEFINE t == RemoveTree("staging")
  <2>1. RemoveStaging(d) = Check(Whole(d, "staging")) \o t
    BY <1>3 DEF RemoveStaging, When, Exists
  <2>2. Leads(e, Check(Whole(d, "staging")), X, X, IF Whole(d, "staging") THEN {e} ELSE {})
    BY <1>1, LeadsCheck
  <2>3. IsPlan(t)
    BY StepsArePlans
  <2>4. CASE s = Partial
    <3>1. ~Whole(d, "staging")
      BY <2>4, ContentsAssumption DEF Whole
    <3>2. Leads(e, Check(Whole(d, "staging")), X, X, {})
      BY <2>2, <3>1
    <3> HIDE DEF t
    <3> QED BY <2>1, <2>3, <2>4, <3>2, LeadsNoFurther
  <2>5. CASE s # Partial
    <3> DEFINE f1 == [e EXCEPT !["staging"] = Partial]
               f2 == [f1 EXCEPT !["staging"] = Absent]
    <3>1. TreeAt(f1, l, g, Partial, k, j)
      BY TreePuts DEF Trees
    <3>2. f1 = [e EXCEPT !["staging"] = Partial]
      OBVIOUS
    <3> HIDE DEF f1
    <3>3. TreeAt(f2, l, g, Absent, k, j)
      BY <3>1, TreePuts DEF Trees
    <3>4. f2 = [f1 EXCEPT !["staging"] = Absent]
      OBVIOUS
    <3> HIDE DEF f2
    <3>5. Leads(e, t, X, X, {f2})
      BY <1>1, <3>1, <3>2, <3>3, <3>4, LeadsRemoveTree
    <3>6. Leads(e, Check(Whole(d, "staging")), X, X, {e})
      BY <1>3, <2>2, <2>5 DEF Whole, Trees
    <3> HIDE DEF t
    <3>7. Leads(e, RemoveStaging(d), X, X, {f2})
      BY <2>1, <3>5, <3>6, LeadsThen
    <3> QED BY <2>5, <3>3, <3>7
  <2> QED BY <2>4, <2>5
<1> QED BY <1>2, <1>3

LEMMA TreePreparedRecovers ==
  ASSUME NEW old \in Pairs, NEW new \in Pairs, NEW d \in Disks, Alone(d), TreePrepared(d, old, new)
  PROVE  Leads(d, RecoverPrepared(d) \o Remove("journal"),
               Generated(old, new), Generated(old, new), Cleaned(old, new))
<1> DEFINE X == Generated(old, new)
           l == d["lock"]
           s == d["staging"]
           j == d["journal"]
           tree == When(Exists(d, "backup"),
                        Check(Whole(d, "backup"))
                        \o When(Exists(d, "generated"),
                                Check(Whole(d, "generated")) \o RemoveTree("generated"))
                        \o Move("backup", "generated"))
<1>1. /\ j = Record("prepared") /\ old[1] = new[1] /\ new[2] \in Version /\ l = old[1]
      /\ s \in {Absent, Partial, new[2]} /\ s \in Trees
      /\ old[2] \in Contained /\ old = <<old[1], old[2]>>
  BY DEF TreePrepared, Installing, Trees, Pairs, Contained
<1>2. \A e, t, g, k : /\ t \in {s, Partial, Absent} /\ TreeAt(e, l, g, t, k, j)
                      /\ \/ g = old[2] /\ k = Absent
                         \/ g = Absent /\ k = old[2]
                      => e \in X
  BY <1>1 DEF TreeAt, TreePrepared, Installing, Generated
<1>3. TreeAt(d, l, d["generated"], s, d["backup"], j)
  BY DEF TreeAt
<1>4. d \in X
  BY DEF Generated
<1>5. PICK e : TreeAt(e, l, old[2], s, Absent, j) /\ Leads(d, tree, X, X, {e})
  <2>1. CASE ~Exists(d, "backup")
    <3>1. d["backup"] = Absent /\ d["generated"] = old[2]
      BY <2>1 DEF Exists, TreePrepared
    <3>2. tree = <<>>
      BY <2>1 DEF When
    <3>3. Leads(d, tree, X, X, {d})
      BY <1>4, <3>2, LeadsNowhere
    <3> QED BY <1>3, <3>1, <3>3
  <2>2. CASE Exists(d, "backup")
    <3>1. d["generated"] = Absent /\ d["backup"] = old[2] /\ Whole(d, "backup")
      BY <1>1, <2>2 DEF Exists, TreePrepared, Whole, Contained
    <3> DEFINE e == [d EXCEPT !["generated"] = d["backup"], !["backup"] = Absent]
               c == Check(Whole(d, "backup"))
               w == When(Exists(d, "generated"), Check(Whole(d, "generated")) \o RemoveTree("generated"))
               m == Move("backup", "generated")
    <3>2. TreeAt(e, l, old[2], s, Absent, j)
      BY <1>3, <3>1, TreeMoves
    <3>3. e \in X
      BY <1>2, <3>2
    <3>4. Leads(d, m, X, X, {e})
      BY <1>4, <3>3, LeadsMove
    <3>5. Leads(d, c, X, X, {d})
      BY <1>4, <3>1, LeadsCheck
    <3>6. w = <<>>
      BY <3>1 DEF When, Exists
    <3>7. Leads(d, w, X, X, {d})
      BY <1>4, <3>6, LeadsNowhere
    <3>8. tree = c \o w \o m
      BY <2>2 DEF When
    <3> HIDE DEF X, c, w, m, e, tree
    <3>9. Leads(d, c \o w \o m, X, X, {e})
      BY <3>4, <3>5, <3>7, LeadsThen
    <3> QED BY <3>2, <3>8, <3>9
  <2> QED BY <2>1, <2>2
<1>6. RecoverPrepared(d) = tree \o RemoveStaging(d)
  BY DEF RecoverPrepared
<1> HIDE DEF tree
<1>7. \A f, t : t \in {s, Partial, Absent} /\ TreeAt(f, l, old[2], t, Absent, j) => f \in X
  BY <1>2
<1>8. IsPlan(Remove("journal"))
  BY StepsArePlans
<1>9. CASE s = Partial
  <2>1. Leads(e, RemoveStaging(d), X, X, {})
    BY <1>1, <1>5, <1>7, <1>9, StagingGoes
  <2> HIDE DEF X
  <2>2. Leads(d, tree \o RemoveStaging(d), X, X, {})
    BY <1>5, <2>1, LeadsThen
  <2> QED BY <1>6, <1>8, <2>2, LeadsNoFurther DEF X
<1>10. CASE s # Partial
  <2>1. PICK f : TreeAt(f, l, old[2], Absent, Absent, j) /\ Leads(e, RemoveStaging(d), X, X, {f})
    BY <1>1, <1>5, <1>7, <1>10, StagingGoes
  <2>2. f \in X
    BY <1>7, <2>1
  <2>3. <<l, old[2]>> = old
    BY <1>1
  <2>4. Leads(f, Remove("journal"), X, X, Cleaned(old, old))
    BY <2>1, <2>2, <2>3, TreeConcludes
  <2>5. Leads(f, Remove("journal"), X, X, Cleaned(old, new))
    BY <2>4, CleanedOf, LeadsWithin
  <2> HIDE DEF X
  <2>6. Leads(d, tree \o RemoveStaging(d), X, X, {f})
    BY <1>5, <2>1, LeadsThen
  <2>7. Leads(d, (tree \o RemoveStaging(d)) \o Remove("journal"), X, X, Cleaned(old, new))
    BY <2>5, <2>6, LeadsThen
  <2> QED BY <1>6, <2>7 DEF X
<1> QED BY <1>9, <1>10

\* The old tree goes, unless its manifest does not fit it any more.
LEMMA BackupGoes ==
  ASSUME NEW d, NEW l, NEW g, NEW k \in Trees, NEW j, NEW X,
         TreeAt(d, l, g, Absent, k, j), d \in X, k # Partial,
         k # Absent => \A f, t : t \in {Partial, Absent} /\ TreeAt(f, l, g, Absent, t, j) => f \in X
  PROVE  \E f : /\ TreeAt(f, l, g, Absent, Absent, j) /\ f \in X
                /\ Leads(d, When(Exists(d, "backup"), RemoveTree("backup")), X, X, {f})
                /\ Leads(d, When(Exists(d, "backup"),
                                 Check(Whole(d, "backup")) \o RemoveTree("backup")), X, X, {f})
<1>1. d["backup"] = k /\ d \in Disks
  BY DEF TreeAt
<1>2. CASE k = Absent
  <2>1. /\ When(Exists(d, "backup"), RemoveTree("backup")) = <<>>
        /\ When(Exists(d, "backup"), Check(Whole(d, "backup")) \o RemoveTree("backup")) = <<>>
    BY <1>1, <1>2 DEF When, Exists
  <2>2. Leads(d, <<>>, X, X, {d})
    BY LeadsNowhere
  <2> QED BY <1>2, <2>1, <2>2
<1>3. CASE k # Absent
  <2> DEFINE f1 == [d EXCEPT !["backup"] = Partial]
             f2 == [f1 EXCEPT !["backup"] = Absent]
             t == RemoveTree("backup")
             c == Check(Whole(d, "backup"))
  <2>1. TreeAt(f1, l, g, Absent, Partial, j)
    BY TreePuts DEF Trees
  <2>2. f1 = [d EXCEPT !["backup"] = Partial]
    OBVIOUS
  <2> HIDE DEF f1
  <2>3. TreeAt(f2, l, g, Absent, Absent, j)
    BY <2>1, TreePuts DEF Trees
  <2>4. f2 = [f1 EXCEPT !["backup"] = Absent]
    OBVIOUS
  <2> HIDE DEF f2
  <2>5. f1 \in X /\ f2 \in X
    BY <1>3, <2>1, <2>3
  <2>6. Leads(d, t, X, X, {f2})
    BY <2>2, <2>4, <2>5, LeadsRemoveTree
  <2>7. Whole(d, "backup")
    BY <1>1, <1>3 DEF Whole, Trees
  <2>8. Leads(d, c, X, X, {d})
    BY <2>7, LeadsCheck
  <2>9. /\ When(Exists(d, "backup"), RemoveTree("backup")) = t
        /\ When(Exists(d, "backup"), Check(Whole(d, "backup")) \o RemoveTree("backup")) = c \o t
    BY <1>1, <1>3 DEF When, Exists
  <2> HIDE DEF c, t
  <2>10. Leads(d, c \o t, X, X, {f2})
    BY <2>6, <2>8, LeadsThen
  <2> QED BY <2>3, <2>5, <2>6, <2>9, <2>10
<1> QED BY <1>2, <1>3

\* The new tree is installed: what is left is the old one.
LEMMA TreeBackedUpFinishes ==
  ASSUME NEW old \in Pairs, NEW new \in Pairs, NEW d \in Disks, Alone(d),
         TreeBackedUp(d, old, new), Exists(d, "generated")
  PROVE  Leads(d, RecoverBackedUp(d) \o Remove("journal"),
               Generated(old, new), Generated(old, new), Cleaned(old, new))
<1> DEFINE X == Generated(old, new)
           l == d["lock"]
           g == d["generated"]
           k == d["backup"]
           j == d["journal"]
<1>1. /\ j = Record("backed_up") /\ old[1] = new[1] /\ new[2] \in Version /\ l = old[1]
      /\ old[2] \in Contained /\ old = <<old[1], old[2]>> /\ new = <<new[1], new[2]>>
  BY DEF TreeBackedUp, Installing, Pairs, Contained
<1>2. /\ d["staging"] = Absent /\ g \in Version /\ <<l, g>> \in {old, new}
      /\ k \in {Absent, Partial, old[2]} /\ k \in Trees
      /\ k # Absent => g = new[2]
  BY <1>1 DEF TreeBackedUp, Exists, Contained, Trees
<1>3. d \in X /\ TreeAt(d, l, g, Absent, k, j)
  BY <1>2 DEF Generated, TreeAt
<1>4. k # Absent => \A f, t : t \in {Partial, Absent} /\ TreeAt(f, l, g, Absent, t, j) => f \in X
  BY <1>1, <1>2 DEF Generated, TreeAt, TreeBackedUp, Installing
<1> DEFINE c1 == Check(Whole(d, "generated"))
           c2 == Check(Exists(d, "backup") => Whole(d, "backup"))
           c3 == Check(~Exists(d, "staging"))
           w == When(Exists(d, "backup"), RemoveTree("backup"))
           last == Remove("journal")
<1>5. RecoverBackedUp(d) = c1 \o c2 \o c3 \o w
  BY DEF RecoverBackedUp
<1>6. Leads(d, c1, X, X, {d})
  BY <1>2, <1>3, LeadsCheck DEF Whole
<1>7. Leads(d, c3, X, X, {d})
  BY <1>2, <1>3, LeadsCheck DEF Exists
<1>8. IsPlan(c3) /\ IsPlan(w) /\ IsPlan(last)
  BY StepsArePlans, ConditionalPlan
<1>9. CASE k = Partial
  <2>1. ~(Exists(d, "backup") => Whole(d, "backup"))
    BY <1>9, ContentsAssumption DEF Exists, Whole
  <2>2. Leads(d, c2, X, X, {})
    BY <1>3, <2>1, LeadsCheck
  <2> HIDE DEF X, c1, c2, c3, w, last
  <2>3. Leads(d, c1 \o c2, X, X, {})
    BY <1>6, <2>2, LeadsThen
  <2>4. Leads(d, c1 \o c2 \o c3, X, X, {})
    BY <1>8, <2>3, LeadsNoFurther
  <2>5. Leads(d, c1 \o c2 \o c3 \o w, X, X, {})
    BY <1>8, <2>4, LeadsNoFurther
  <2>6. Leads(d, (c1 \o c2 \o c3 \o w) \o last, X, X, Cleaned(old, new))
    BY <1>8, <2>5, LeadsNoFurther
  <2> QED BY <1>5, <2>6 DEF X, last
<1>10. CASE k # Partial
  <2>1. Exists(d, "backup") => Whole(d, "backup")
    BY <1>2, <1>10 DEF Exists, Whole, Trees
  <2>2. Leads(d, c2, X, X, {d})
    BY <1>3, <2>1, LeadsCheck
  <2>3. PICK f : TreeAt(f, l, g, Absent, Absent, j) /\ f \in X /\ Leads(d, w, X, X, {f})
    BY <1>2, <1>3, <1>4, <1>10, BackupGoes
  <2>4. Leads(f, last, X, X, Cleaned(<<l, g>>, <<l, g>>))
    BY <1>2, <2>3, TreeConcludes
  <2>5. Leads(f, last, X, X, Cleaned(old, new))
    BY <1>2, <2>4, CleanedOf, LeadsWithin
  <2> HIDE DEF X, c1, c2, c3, w, last
  <2>6. Leads(d, c1 \o c2, X, X, {d})
    BY <1>6, <2>2, LeadsThen
  <2>7. Leads(d, c1 \o c2 \o c3, X, X, {d})
    BY <1>7, <2>6, LeadsThen
  <2>8. Leads(d, c1 \o c2 \o c3 \o w, X, X, {f})
    BY <2>3, <2>7, LeadsThen
  <2>9. Leads(d, (c1 \o c2 \o c3 \o w) \o last, X, X, Cleaned(old, new))
    BY <2>5, <2>8, LeadsThen
  <2> QED BY <1>5, <2>9 DEF X, last
<1> QED BY <1>9, <1>10

LEMMA TreeInstalledRecovers ==
  ASSUME NEW old \in Pairs, NEW new \in Pairs, NEW d \in Disks, Alone(d), TreeInstalled(d, old, new)
  PROVE  Leads(d, RecoverInstalled(d) \o Remove("journal"),
               Generated(old, new), Generated(old, new), Cleaned(old, new))
<1> DEFINE X == Generated(old, new)
           l == d["lock"]
           g == d["generated"]
           k == d["backup"]
           j == d["journal"]
<1>1. /\ j = Record("installed") /\ old[1] = new[1] /\ new[2] \in Version /\ l = old[1] /\ g = new[2]
      /\ old[2] \in Contained /\ new = <<new[1], new[2]>>
      /\ d["staging"] = Absent /\ k \in {Absent, Partial, old[2]} /\ k \in Trees
  BY DEF TreeInstalled, Installing, Pairs, Contained, Trees
<1>2. <<l, g>> = new
  BY <1>1
<1>3. d \in X /\ TreeAt(d, l, g, Absent, k, j)
  BY <1>1 DEF Generated, TreeAt
<1>4. \A f, t : t \in {Partial, Absent} /\ TreeAt(f, l, g, Absent, t, j) => f \in X
  BY <1>1 DEF Generated, TreeAt, TreeInstalled, Installing
<1> DEFINE c1 == Check(Whole(d, "generated"))
           c2 == Check(~Exists(d, "staging"))
           c3 == Check(Whole(d, "backup"))
           r == RemoveTree("backup")
           w == When(Exists(d, "backup"), c3 \o r)
           last == Remove("journal")
<1>5. RecoverInstalled(d) = c1 \o c2 \o w
  BY DEF RecoverInstalled
<1>6. Leads(d, c1, X, X, {d})
  BY <1>1, <1>3, LeadsCheck DEF Whole
<1>7. Leads(d, c2, X, X, {d})
  BY <1>1, <1>3, LeadsCheck DEF Exists
<1>8. IsPlan(last) /\ IsPlan(r)
  BY StepsArePlans
<1>9. CASE k = Partial
  <2>1. ~Whole(d, "backup") /\ w = c3 \o r
    BY <1>9, ContentsAssumption DEF Exists, Whole, When
  <2>2. Leads(d, c3, X, X, {})
    BY <1>3, <2>1, LeadsCheck
  <2> HIDE DEF X, c1, c2, c3, w, r, last
  <2>3. Leads(d, w, X, X, {})
    BY <1>8, <2>1, <2>2, LeadsNoFurther
  <2>4. Leads(d, c1 \o c2, X, X, {d})
    BY <1>6, <1>7, LeadsThen
  <2>5. Leads(d, c1 \o c2 \o w, X, X, {})
    BY <2>3, <2>4, LeadsThen
  <2>6. Leads(d, (c1 \o c2 \o w) \o last, X, X, Cleaned(old, new))
    BY <1>8, <2>5, LeadsNoFurther
  <2> QED BY <1>5, <2>6 DEF X, last
<1>10. CASE k # Partial
  <2>1. PICK f : TreeAt(f, l, g, Absent, Absent, j) /\ f \in X /\ Leads(d, w, X, X, {f})
    BY <1>1, <1>3, <1>4, <1>10, BackupGoes
  <2>2. Leads(f, last, X, X, Cleaned(<<l, g>>, <<l, g>>))
    BY <1>2, <2>1, TreeConcludes
  <2>3. Leads(f, last, X, X, Cleaned(old, new))
    BY <1>2, <2>2, CleanedOf, LeadsWithin
  <2> HIDE DEF X, c1, c2, w, last
  <2>4. Leads(d, c1 \o c2, X, X, {d})
    BY <1>6, <1>7, LeadsThen
  <2>5. Leads(d, c1 \o c2 \o w, X, X, {f})
    BY <2>1, <2>4, LeadsThen
  <2>6. Leads(d, (c1 \o c2 \o w) \o last, X, X, Cleaned(old, new))
    BY <2>3, <2>5, LeadsThen
  <2> QED BY <1>5, <2>6 DEF X, last
<1> QED BY <1>9, <1>10

\* The tree is away: it comes back.
LEMMA TreeBackedUpReturns ==
  ASSUME NEW old \in Pairs, NEW new \in Pairs, NEW d \in Disks, Alone(d),
         TreeBackedUp(d, old, new), ~Exists(d, "generated")
  PROVE  Leads(d, RecoverBackedUp(d) \o Remove("journal"),
               Generated(old, new), Generated(old, new), Cleaned(old, new))
<1> DEFINE X == Generated(old, new)
           l == d["lock"]
           s == d["staging"]
           k == d["backup"]
           j == d["journal"]
<1>1. /\ j = Record("backed_up") /\ old[1] = new[1] /\ new[2] \in Version /\ l = old[1]
      /\ s \in {Absent, Partial, new[2]} /\ s \in Trees
      /\ old[2] \in Contained /\ old = <<old[1], old[2]>>
  BY DEF TreeBackedUp, Installing, Pairs, Contained, Trees
<1>2. d["generated"] = Absent /\ k = old[2]
  BY <1>1, ContentsAssumption DEF TreeBackedUp, Exists
<1>3. d \in X /\ TreeAt(d, l, Absent, s, k, j)
  BY <1>2 DEF Generated, TreeAt
<1>4. \A f, t : t \in {s, Partial, Absent} /\ TreeAt(f, l, Absent, t, k, j) => f \in X
  BY <1>1, <1>2 DEF Generated, TreeAt, TreeBackedUp, Installing
<1>5. \A f : TreeAt(f, l, k, Absent, Absent, j) => f \in X
  BY <1>1, <1>2 DEF Generated, TreeAt, TreeBackedUp, Installing
<1> DEFINE c == Check(Exists(d, "backup") => Whole(d, "backup"))
           r == RemoveStaging(d)
           w == When(Exists(d, "backup"), Move("backup", "generated"))
           last == Remove("journal")
<1>6. RecoverBackedUp(d) = c \o r \o w
  BY <1>2 DEF RecoverBackedUp, Exists
<1>7. Exists(d, "backup") => Whole(d, "backup")
  BY <1>1, <1>2 DEF Exists, Whole, Contained
<1>8. Leads(d, c, X, X, {d})
  BY <1>3, <1>7, LeadsCheck
<1>9. IsPlan(w) /\ IsPlan(last)
  BY StepsArePlans, ConditionalPlan
<1>10. CASE s = Partial
  <2>1. Leads(d, r, X, X, {})
    BY <1>1, <1>3, <1>4, <1>10, StagingGoes
  <2> HIDE DEF X, c, r, w, last
  <2>2. Leads(d, c \o r, X, X, {})
    BY <1>8, <2>1, LeadsThen
  <2>3. Leads(d, c \o r \o w, X, X, {})
    BY <1>9, <2>2, LeadsNoFurther
  <2>4. Leads(d, (c \o r \o w) \o last, X, X, Cleaned(old, new))
    BY <1>9, <2>3, LeadsNoFurther
  <2> QED BY <1>6, <2>4 DEF X, last
<1>11. CASE s # Partial
  <2>1. PICK e : TreeAt(e, l, Absent, Absent, k, j) /\ Leads(d, r, X, X, {e})
    BY <1>1, <1>3, <1>4, <1>11, StagingGoes
  <2>2. e \in X
    BY <1>4, <2>1
  <2>3. PICK f : TreeAt(f, l, k, Absent, Absent, j) /\ Leads(e, w, X, X, {f})
    <3>1. CASE k = Absent
      <4>1. w = <<>>
        BY <3>1 DEF When, Exists
      <4>2. Leads(e, w, X, X, {e})
        BY <2>2, <4>1, LeadsNowhere
      <4> QED BY <2>1, <3>1, <4>2
    <3>2. CASE k # Absent
      <4> DEFINE f == [e EXCEPT !["generated"] = e["backup"], !["backup"] = Absent]
                 m == Move("backup", "generated")
      <4>1. w = m
        BY <3>2 DEF When, Exists
      <4>2. TreeAt(f, l, k, Absent, Absent, j)
        BY <2>1, TreeMoves
      <4>3. f \in X
        BY <1>5, <4>2
      <4>4. Leads(e, m, X, X, {f})
        BY <2>2, <4>3, LeadsMove
      <4> HIDE DEF f, m, w
      <4> QED BY <4>1, <4>2, <4>4
    <3> QED BY <3>1, <3>2
  <2>4. f \in X /\ <<l, k>> = old
    BY <1>1, <1>2, <1>5, <2>3
  <2>5. Leads(f, last, X, X, Cleaned(old, old))
    BY <2>3, <2>4, TreeConcludes
  <2>6. Leads(f, last, X, X, Cleaned(old, new))
    BY <2>5, CleanedOf, LeadsWithin
  <2> HIDE DEF X, c, r, w, last
  <2>7. Leads(d, c \o r, X, X, {e})
    BY <1>8, <2>1, LeadsThen
  <2>8. Leads(d, c \o r \o w, X, X, {f})
    BY <2>3, <2>7, LeadsThen
  <2>9. Leads(d, (c \o r \o w) \o last, X, X, Cleaned(old, new))
    BY <2>6, <2>8, LeadsThen
  <2> QED BY <1>6, <2>9 DEF X, last
<1> QED BY <1>10, <1>11

LEMMA TreeQuietRecovers ==
  ASSUME NEW old \in Pairs, NEW new \in Pairs, NEW d \in Disks, Alone(d), Quiet(d, old, new)
  PROVE  Leads(d, RecoverWithoutJournal(d) \o Remove("journal"),
               Generated(old, new), Generated(old, new), Cleaned(old, new))
<1> DEFINE X == Generated(old, new)
           l == d["lock"]
           g == d["generated"]
           s == d["staging"]
           j == d["journal"]
<1>1. /\ j \in {Absent, Empty} /\ d["backup"] = Absent /\ s \in {Absent, Partial, new[2]} /\ s \in Trees
      /\ <<l, g>> \in {old, new}
  BY DEF Quiet, Contents, Trees, Pairs, Contained
<1>2. d \in X /\ TreeAt(d, l, g, s, Absent, j)
  BY <1>1 DEF Generated, TreeAt
<1>3. \A f, t : t \in {Partial, Absent} /\ TreeAt(f, l, g, t, Absent, j) => f \in X
  BY <1>1 DEF Generated, TreeAt, Quiet, Contents
<1> DEFINE c == Check(~(Exists(d, "generated") /\ Exists(d, "staging") /\ Exists(d, "backup")))
           b == When(Exists(d, "backup"),
                     Check(Whole(d, "backup"))
                     \o IF Exists(d, "generated")
                        THEN Check(Whole(d, "generated")) \o RemoveTree("backup")
                        ELSE Move("backup", "generated"))
           w == When(Exists(d, "staging"), RemoveTree("staging"))
           last == Remove("journal")
<1>4. RecoverWithoutJournal(d) = c \o b \o w
  BY DEF RecoverWithoutJournal
<1>5. ~Exists(d, "backup")
  BY <1>1 DEF Exists
<1>6. Leads(d, c, X, X, {d})
  BY <1>2, <1>5, LeadsCheck
<1>7. Leads(d, b, X, X, {d})
  BY <1>2, <1>5, LeadsNowhere DEF When
<1>8. PICK f : TreeAt(f, l, g, Absent, Absent, j) /\ f \in X /\ Leads(d, w, X, X, {f})
  <2>1. CASE s = Absent
    <3>1. w = <<>>
      BY <2>1 DEF When, Exists
    <3>2. Leads(d, w, X, X, {d})
      BY <1>2, <3>1, LeadsNowhere
    <3> QED BY <1>2, <2>1, <3>2
  <2>2. CASE s # Absent
    <3> DEFINE e == [d EXCEPT !["staging"] = Partial]
               f == [e EXCEPT !["staging"] = Absent]
               r == RemoveTree("staging")
    <3>1. TreeAt(e, l, g, Partial, Absent, j)
      BY <1>2, TreePuts DEF Trees
    <3>2. e = [d EXCEPT !["staging"] = Partial]
      OBVIOUS
    <3> HIDE DEF e
    <3>3. TreeAt(f, l, g, Absent, Absent, j)
      BY <3>1, TreePuts DEF Trees
    <3>4. f = [e EXCEPT !["staging"] = Absent]
      OBVIOUS
    <3> HIDE DEF f
    <3>5. e \in X /\ f \in X
      BY <1>3, <3>1, <3>3
    <3>6. Leads(d, r, X, X, {f})
      BY <1>2, <3>2, <3>4, <3>5, LeadsRemoveTree
    <3>7. w = r
      BY <2>2 DEF When, Exists
    <3> HIDE DEF r, w
    <3> QED BY <3>3, <3>5, <3>6, <3>7
  <2> QED BY <2>1, <2>2
<1>9. Leads(f, last, X, X, Cleaned(<<l, g>>, <<l, g>>))
  BY <1>1, <1>8, TreeConcludes
<1>10. Leads(f, last, X, X, Cleaned(old, new))
  BY <1>1, <1>9, CleanedOf, LeadsWithin
<1> HIDE DEF X, c, b, w, last
<1>11. Leads(d, c \o b, X, X, {d})
  BY <1>6, <1>7, LeadsThen
<1>12. Leads(d, c \o b \o w, X, X, {f})
  BY <1>8, <1>11, LeadsThen
<1>13. Leads(d, (c \o b \o w) \o last, X, X, Cleaned(old, new))
  BY <1>10, <1>12, LeadsThen
<1> QED BY <1>4, <1>13 DEF X, last

\* Whatever generation left, its recovery puts in order or refuses.
LEMMA GenerationRecovers ==
  ASSUME NEW old \in Pairs, NEW new \in Pairs, NEW d \in Generated(old, new)
  PROVE  Leads(d, Recover(d), Generated(old, new), Generated(old, new), Cleaned(old, new))
<1>1. d \in Disks /\ Alone(d)
  BY DEF Generated
<1>2. CASE Quiet(d, old, new)
  <2>1. Recover(d) = RecoverWithoutJournal(d) \o Remove("journal")
    BY <1>2 DEF Quiet, Recover, Phase
  <2> QED BY <1>1, <1>2, <2>1, TreeQuietRecovers
<1>3. CASE TreePrepared(d, old, new)
  <2>1. Phase(d, "journal") = "prepared"
    BY <1>3, JournalsAre DEF TreePrepared, Phase, Phases
  <2>2. Recover(d) = RecoverPrepared(d) \o Remove("journal")
    BY <2>1 DEF Recover
  <2> QED BY <1>1, <1>3, <2>2, TreePreparedRecovers
<1>4. CASE TreeBackedUp(d, old, new)
  <2>1. Phase(d, "journal") = "backed_up"
    BY <1>4, JournalsAre DEF TreeBackedUp, Phase, Phases
  <2>2. Recover(d) = RecoverBackedUp(d) \o Remove("journal")
    BY <2>1 DEF Recover
  <2> QED BY <1>1, <1>4, <2>2, TreeBackedUpFinishes, TreeBackedUpReturns
<1>5. CASE TreeInstalled(d, old, new)
  <2>1. Phase(d, "journal") = "installed"
    BY <1>5, JournalsAre DEF TreeInstalled, Phase, Phases
  <2>2. Recover(d) = RecoverInstalled(d) \o Remove("journal")
    BY <2>1 DEF Recover
  <2> QED BY <1>1, <1>5, <2>2, TreeInstalledRecovers
<1> QED BY <1>2, <1>3, <1>4, <1>5 DEF Generated

\* Where a commit has written its staging: what it replaces is still there.
TreeStaged(old, new) == {d \in Disks : TreeAt(d, old[1], old[2], new[2], Absent, Absent)}

\* What stands while it writes its staging.
TreeStaging(old, new) ==
  {d \in Generated(old, new) : \E s : TreeAt(d, old[1], old[2], s, Absent, Absent)}

LEMMA TreeIsStaged ==
  ASSUME NEW old \in Pairs, NEW new \in Pairs, NEW d \in Cleaned(old, old), NEW F
  PROVE  Leads(d, WriteTree("staging", new[2]), TreeStaging(old, new), F, TreeStaged(old, new))
<1> DEFINE X == TreeStaging(old, new)
           v == new[2]
           e == [d EXCEPT !["staging"] = Partial]
           f == [e EXCEPT !["staging"] = v]
<1>1. old = <<old[1], old[2]>> /\ v \in Trees
  BY DEF Pairs, Trees, Contained
<1>2. TreeAt(d, old[1], old[2], Absent, Absent, Absent)
  BY <1>1, PathsAre DEF Cleaned, Clean, Exists, TreeAt, Alone, Contents
<1>3. \A x, t : t \in {Absent, Partial, v} /\ TreeAt(x, old[1], old[2], t, Absent, Absent) => x \in X
  BY <1>1 DEF TreeStaging, Generated, TreeAt, Quiet, Contents
<1>4. TreeAt(e, old[1], old[2], Partial, Absent, Absent)
  BY <1>2, TreePuts DEF Trees
<1>5. e = [d EXCEPT !["staging"] = Partial]
  OBVIOUS
<1> HIDE DEF e
<1>6. TreeAt(f, old[1], old[2], v, Absent, Absent)
  BY <1>1, <1>4, TreePuts
<1>7. f = [e EXCEPT !["staging"] = v]
  OBVIOUS
<1> HIDE DEF f
<1>8. d \in X /\ e \in X /\ f \in X
  BY <1>2, <1>3, <1>4, <1>6
<1>9. f \in TreeStaged(old, new)
  BY <1>6 DEF TreeStaged, TreeAt
<1> HIDE DEF X
<1>10. Leads(d, Put("staging", Partial), X, F, {e})
  BY <1>5, <1>8, LeadsPut
<1>11. Leads(e, Put("staging", v), X, F, {f})
  BY <1>7, <1>8, LeadsPut
<1>12. Leads(e, Put("staging", v), X, F, TreeStaged(old, new))
  BY <1>9, <1>11, LeadsWithin
<1> DEFINE p1 == Put("staging", Partial)
           p2 == Put("staging", v)
<1>13. WriteTree("staging", v) = p1 \o p2
  BY DEF WriteTree
<1> HIDE DEF p1, p2
<1>14. Leads(d, p1 \o p2, X, F, TreeStaged(old, new))
  BY <1>10, <1>12, LeadsThen DEF p1, p2
<1> QED BY <1>13, <1>14 DEF X

\* A commit that could not write its staging removes it.
LEMMA StagingIsDropped ==
  ASSUME NEW old \in Pairs, NEW new \in Pairs, NEW d \in TreeStaging(old, new), NEW F
  PROVE  Leads(d, RemoveTree("staging"), Generated(old, new), F, Cleaned(old, new))
<1> DEFINE X == Generated(old, new)
           e == [d EXCEPT !["staging"] = Partial]
           f == [e EXCEPT !["staging"] = Absent]
<1> PICK s : TreeAt(d, old[1], old[2], s, Absent, Absent)
  BY DEF TreeStaging
<1>1. old = <<old[1], old[2]>> /\ d \in X
  BY DEF Pairs, TreeStaging
<1>2. \A x, t : t \in {Absent, Partial} /\ TreeAt(x, old[1], old[2], t, Absent, Absent) => x \in X
  BY <1>1 DEF Generated, TreeAt, Quiet, Contents
<1>3. TreeAt(e, old[1], old[2], Partial, Absent, Absent)
  BY TreePuts DEF Trees
<1>4. e = [d EXCEPT !["staging"] = Partial]
  OBVIOUS
<1> HIDE DEF e
<1>5. TreeAt(f, old[1], old[2], Absent, Absent, Absent)
  BY <1>3, TreePuts DEF Trees
<1>6. f = [e EXCEPT !["staging"] = Absent]
  OBVIOUS
<1> HIDE DEF f
<1>7. e \in X /\ f \in X
  BY <1>2, <1>3, <1>5
<1>8. f \in Cleaned(old, new)
  BY <1>1, <1>5, PathsAre DEF Cleaned, Clean, Exists, TreeAt, Alone, Contents
<1>9. Leads(d, RemoveTree("staging"), X, F, {f})
  BY <1>1, <1>4, <1>6, <1>7, LeadsRemoveTree
<1> QED BY <1>8, <1>9, LeadsWithin

\* The swap: the old tree is set aside, the new one takes its place.
LEMMA TreesSwap ==
  ASSUME NEW old \in Pairs, NEW new \in Pairs, old[1] = new[1], new[2] \in Version,
         NEW d \in TreeStaged(old, new)
  PROVE  Leads(d, Swap(d), Generated(old, new), Generated(old, new), Cleaned(new, new))
<1> DEFINE X == Generated(old, new)
           l == old[1]
           a == old[2]
           v == new[2]
           r1 == Record("prepared")
           r2 == Record("backed_up")
           r3 == Record("installed")
           e1 == [d EXCEPT !["journal"] = Empty]
           e2 == [e1 EXCEPT !["journal"] = r1]
           e3 == [e2 EXCEPT !["backup"] = e2["generated"], !["generated"] = Absent]
           e4 == [e3 EXCEPT !["journal"] = r2]
           e5 == [e4 EXCEPT !["generated"] = e4["staging"], !["staging"] = Absent]
           e6 == [e5 EXCEPT !["journal"] = r3]
<1>1. /\ TreeAt(d, l, a, v, Absent, Absent) /\ v \in Trees /\ a \in Contained /\ v # Absent
      /\ old = <<l, a>> /\ new = <<l, v>> /\ {r1, r2, r3, Empty} \subseteq GenerationJournals
  BY ContentsAssumption, JournalsAre DEF TreeStaged, Trees, Pairs, Contained, Phases
<1>2. TreeAt(e1, l, a, v, Absent, Empty)
  BY <1>1, TreePuts
<1>3. e1 = [d EXCEPT !["journal"] = Empty]
  OBVIOUS
<1> HIDE DEF e1
<1>4. TreeAt(e2, l, a, v, Absent, r1)
  BY <1>1, <1>2, TreePuts
<1>5. e2 = [e1 EXCEPT !["journal"] = r1]
  OBVIOUS
<1> HIDE DEF e2
<1>6. TreeAt(e3, l, Absent, v, a, r1)
  BY <1>4, TreeMoves
<1>7. e3 = [e2 EXCEPT !["backup"] = e2["generated"], !["generated"] = Absent]
  OBVIOUS
<1> HIDE DEF e3
<1>8. TreeAt(e4, l, Absent, v, a, r2)
  BY <1>1, <1>6, TreePuts
<1>9. e4 = [e3 EXCEPT !["journal"] = r2]
  OBVIOUS
<1> HIDE DEF e4
<1>10. TreeAt(e5, l, v, Absent, a, r2)
  BY <1>8, TreeMoves
<1>11. e5 = [e4 EXCEPT !["generated"] = e4["staging"], !["staging"] = Absent]
  OBVIOUS
<1> HIDE DEF e5
<1>12. TreeAt(e6, l, v, Absent, a, r3)
  BY <1>1, <1>10, TreePuts
<1>13. e6 = [e5 EXCEPT !["journal"] = r3]
  OBVIOUS
<1> HIDE DEF e6
<1>14. d \in X /\ e1 \in X
  BY <1>1, <1>2 DEF Generated, TreeAt, Quiet, Contents
<1>15. e2 \in X /\ e3 \in X
  BY <1>1, <1>4, <1>6 DEF Generated, TreeAt, TreePrepared, Installing
<1>16. e4 \in X /\ e5 \in X
  BY <1>1, <1>8, <1>10 DEF Generated, TreeAt, TreeBackedUp, Installing
<1>17. \A f, t : t \in {a, Partial, Absent} /\ TreeAt(f, l, v, Absent, t, r3) => f \in X
  BY <1>1 DEF Generated, TreeAt, TreeInstalled, Installing
<1>18. e6 \in X
  BY <1>12, <1>17
<1> DEFINE p1 == Put("journal", Empty)
           p2 == Put("journal", r1)
           p3 == When(Exists(d, "generated"), Move("generated", "backup"))
           p4 == Put("journal", r2)
           p5 == Move("staging", "generated")
           p6 == Put("journal", r3)
           p7 == When(Exists(d, "generated"), RemoveTree("backup"))
           p8 == Remove("journal")
<1>19. Swap(d) = (p1 \o p2) \o p3 \o p4 \o p5 \o p6 \o p7 \o p8
  BY DEF Swap, StartJournal
<1>20. Leads(d, p1, X, X, {e1}) /\ Leads(e1, p2, X, X, {e2})
  BY <1>3, <1>5, <1>14, <1>15, LeadsPut
<1>21. Leads(e2, p3, X, X, {e3})
  <2>1. d["generated"] = a
    BY <1>1 DEF TreeAt
  <2>2. CASE a = Absent
    <3>1. e3 = e2
      BY <1>4, <1>7, <2>2 DEF TreeAt, Disks
    <3>2. p3 = <<>>
      BY <2>1, <2>2 DEF When, Exists
    <3>3. Leads(e2, <<>>, X, X, {e3})
      BY <1>15, <3>1, LeadsNowhere
    <3> QED BY <3>2, <3>3
  <2>3. CASE a # Absent
    <3>1. p3 = Move("generated", "backup")
      BY <2>1, <2>3 DEF When, Exists
    <3>2. Leads(e2, Move("generated", "backup"), X, X, {e3})
      BY <1>7, <1>15, LeadsMove
    <3> QED BY <3>1, <3>2
  <2> QED BY <2>2, <2>3
<1>22. Leads(e3, p4, X, X, {e4})
  BY <1>9, <1>15, <1>16, LeadsPut
<1>23. Leads(e4, p5, X, X, {e5})
  BY <1>11, <1>16, LeadsMove
<1>24. Leads(e5, p6, X, X, {e6})
  BY <1>13, <1>16, <1>18, LeadsPut
<1>25. PICK f : TreeAt(f, l, v, Absent, Absent, r3) /\ f \in X /\ Leads(e6, p7, X, X, {f})
  <2>1. a \in Trees /\ a # Partial
    BY <1>1, ContentsAssumption DEF Trees, Contained
  <2>2. PICK f : /\ TreeAt(f, l, v, Absent, Absent, r3) /\ f \in X
                 /\ Leads(e6, When(Exists(e6, "backup"), RemoveTree("backup")), X, X, {f})
    BY <1>12, <1>17, <1>18, <2>1, BackupGoes
  <2>3. Exists(e6, "backup") <=> Exists(d, "generated")
    BY <1>1, <1>12 DEF TreeAt, Exists
  <2>4. When(Exists(e6, "backup"), RemoveTree("backup")) = p7
    BY <2>3 DEF When
  <2> QED BY <2>2, <2>4
<1>26. Leads(f, p8, X, X, Cleaned(new, new))
  BY <1>1, <1>25, TreeConcludes
<1> HIDE DEF p1, p2, p3, p4, p5, p6, p7, p8, X
<1>27. Leads(d, p1 \o p2, X, X, {e2})
  BY <1>20, LeadsThen
<1>28. Leads(d, (p1 \o p2) \o p3, X, X, {e3})
  BY <1>21, <1>27, LeadsThen
<1>29. Leads(d, (p1 \o p2) \o p3 \o p4, X, X, {e4})
  BY <1>22, <1>28, LeadsThen
<1>30. Leads(d, (p1 \o p2) \o p3 \o p4 \o p5, X, X, {e5})
  BY <1>23, <1>29, LeadsThen
<1>31. Leads(d, (p1 \o p2) \o p3 \o p4 \o p5 \o p6, X, X, {e6})
  BY <1>24, <1>30, LeadsThen
<1>32. Leads(d, (p1 \o p2) \o p3 \o p4 \o p5 \o p6 \o p7, X, X, {f})
  BY <1>25, <1>31, LeadsThen
<1>33. Leads(d, (p1 \o p2) \o p3 \o p4 \o p5 \o p6 \o p7 \o p8, X, X, Cleaned(new, new))
  BY <1>26, <1>32, LeadsThen
<1> QED BY <1>19, <1>33 DEF X

-----------------------------------------------------------------------------
(* The plans of an update.                                                   *)

UpdateAt(d, l, g, us, ub, ls, lb, j) ==
  /\ d \in Disks /\ Apart(d)
  /\ d["lock"] = l /\ d["generated"] = g
  /\ d["update_staging"] = us /\ d["update_backup"] = ub
  /\ d["lock_staging"] = ls /\ d["lock_backup"] = lb /\ d["update_journal"] = j

LEMMA UpdatePuts ==
  ASSUME NEW d, NEW l, NEW g, NEW us, NEW ub, NEW ls, NEW lb, NEW j,
         UpdateAt(d, l, g, us, ub, ls, lb, j)
  PROVE  /\ \A c \in Trees : /\ UpdateAt([d EXCEPT !["update_staging"] = c], l, g, c, ub, ls, lb, j)
                             /\ UpdateAt([d EXCEPT !["update_backup"] = c], l, g, us, c, ls, lb, j)
                             /\ UpdateAt([d EXCEPT !["lock_staging"] = c], l, g, us, ub, c, lb, j)
                             /\ UpdateAt([d EXCEPT !["lock_backup"] = c], l, g, us, ub, ls, c, j)
                             /\ UpdateAt([d EXCEPT !["lock"] = c], c, g, us, ub, ls, lb, j)
                             /\ UpdateAt([d EXCEPT !["generated"] = c], l, c, us, ub, ls, lb, j)
         /\ \A c \in UpdateJournals :
              UpdateAt([d EXCEPT !["update_journal"] = c], l, g, us, ub, ls, lb, c)
<1>1. Trees \subseteq Version \cup {Partial} \cup GenerationJournals \cup UpdateJournals
  BY DEF Trees, GenerationJournals
<1>2. d \in Disks
  BY DEF UpdateAt
<1>3. ASSUME NEW c \in Trees PROVE UpdateAt([d EXCEPT !["update_staging"] = c], l, g, c, ub, ls, lb, j)
  <2> DEFINE e == [d EXCEPT !["update_staging"] = c]
  <2>1. e \in Disks /\ e["update_staging"] = c /\ \A q \in ProjectPath : q # "update_staging" => e[q] = d[q]
    BY <1>1, <1>2, DisksChange, PathsAre
  <2> HIDE DEF e
  <2>2. UpdateAt(e, l, g, c, ub, ls, lb, j)
    BY <2>1, PathsAre DEF UpdateAt, Apart
  <2> QED BY <2>2 DEF e
<1>4. ASSUME NEW c \in Trees PROVE UpdateAt([d EXCEPT !["update_backup"] = c], l, g, us, c, ls, lb, j)
  <2> DEFINE e == [d EXCEPT !["update_backup"] = c]
  <2>1. e \in Disks /\ e["update_backup"] = c /\ \A q \in ProjectPath : q # "update_backup" => e[q] = d[q]
    BY <1>1, <1>2, DisksChange, PathsAre
  <2> HIDE DEF e
  <2>2. UpdateAt(e, l, g, us, c, ls, lb, j)
    BY <2>1, PathsAre DEF UpdateAt, Apart
  <2> QED BY <2>2 DEF e
<1>5. ASSUME NEW c \in Trees PROVE UpdateAt([d EXCEPT !["lock_staging"] = c], l, g, us, ub, c, lb, j)
  <2> DEFINE e == [d EXCEPT !["lock_staging"] = c]
  <2>1. e \in Disks /\ e["lock_staging"] = c /\ \A q \in ProjectPath : q # "lock_staging" => e[q] = d[q]
    BY <1>1, <1>2, DisksChange, PathsAre
  <2> HIDE DEF e
  <2>2. UpdateAt(e, l, g, us, ub, c, lb, j)
    BY <2>1, PathsAre DEF UpdateAt, Apart
  <2> QED BY <2>2 DEF e
<1>6. ASSUME NEW c \in Trees PROVE UpdateAt([d EXCEPT !["lock_backup"] = c], l, g, us, ub, ls, c, j)
  <2> DEFINE e == [d EXCEPT !["lock_backup"] = c]
  <2>1. e \in Disks /\ e["lock_backup"] = c /\ \A q \in ProjectPath : q # "lock_backup" => e[q] = d[q]
    BY <1>1, <1>2, DisksChange, PathsAre
  <2> HIDE DEF e
  <2>2. UpdateAt(e, l, g, us, ub, ls, c, j)
    BY <2>1, PathsAre DEF UpdateAt, Apart
  <2> QED BY <2>2 DEF e
<1>7. ASSUME NEW c \in Trees PROVE UpdateAt([d EXCEPT !["lock"] = c], c, g, us, ub, ls, lb, j)
  <2> DEFINE e == [d EXCEPT !["lock"] = c]
  <2>1. e \in Disks /\ e["lock"] = c /\ \A q \in ProjectPath : q # "lock" => e[q] = d[q]
    BY <1>1, <1>2, DisksChange, PathsAre
  <2> HIDE DEF e
  <2>2. UpdateAt(e, c, g, us, ub, ls, lb, j)
    BY <2>1, PathsAre DEF UpdateAt, Apart
  <2> QED BY <2>2 DEF e
<1>8. ASSUME NEW c \in Trees PROVE UpdateAt([d EXCEPT !["generated"] = c], l, c, us, ub, ls, lb, j)
  <2> DEFINE e == [d EXCEPT !["generated"] = c]
  <2>1. e \in Disks /\ e["generated"] = c /\ \A q \in ProjectPath : q # "generated" => e[q] = d[q]
    BY <1>1, <1>2, DisksChange, PathsAre
  <2> HIDE DEF e
  <2>2. UpdateAt(e, l, c, us, ub, ls, lb, j)
    BY <2>1, PathsAre DEF UpdateAt, Apart
  <2> QED BY <2>2 DEF e
<1>9. ASSUME NEW c \in UpdateJournals
      PROVE  UpdateAt([d EXCEPT !["update_journal"] = c], l, g, us, ub, ls, lb, c)
  <2> DEFINE e == [d EXCEPT !["update_journal"] = c]
  <2>1. e \in Disks /\ e["update_journal"] = c /\ \A q \in ProjectPath : q # "update_journal" => e[q] = d[q]
    BY <1>2, DisksChange, PathsAre
  <2> HIDE DEF e
  <2>2. UpdateAt(e, l, g, us, ub, ls, lb, c)
    BY <2>1, PathsAre DEF UpdateAt, Apart
  <2> QED BY <2>2 DEF e
<1> QED BY <1>3, <1>4, <1>5, <1>6, <1>7, <1>8, <1>9

LEMMA UpdateMoves ==
  ASSUME NEW d, NEW l, NEW g, NEW us, NEW ub, NEW ls, NEW lb, NEW j,
         UpdateAt(d, l, g, us, ub, ls, lb, j)
  PROVE  /\ UpdateAt([d EXCEPT !["lock_backup"] = d["lock"], !["lock"] = Absent],
                     Absent, g, us, ub, ls, l, j)
         /\ UpdateAt([d EXCEPT !["lock"] = d["lock_backup"], !["lock_backup"] = Absent],
                     lb, g, us, ub, ls, Absent, j)
         /\ UpdateAt([d EXCEPT !["lock"] = d["lock_staging"], !["lock_staging"] = Absent],
                     ls, g, us, ub, Absent, lb, j)
         /\ UpdateAt([d EXCEPT !["update_backup"] = d["generated"], !["generated"] = Absent],
                     l, Absent, us, g, ls, lb, j)
         /\ UpdateAt([d EXCEPT !["generated"] = d["update_backup"], !["update_backup"] = Absent],
                     l, ub, us, Absent, ls, lb, j)
         /\ UpdateAt([d EXCEPT !["generated"] = d["update_staging"], !["update_staging"] = Absent],
                     l, us, Absent, ub, ls, lb, j)
<1>1. d \in Disks /\ {"lock", "lock_staging", "lock_backup", "generated", "update_staging", "update_backup"} \subseteq ProjectPath
  BY PathsAre DEF UpdateAt
<1>2. UpdateAt([d EXCEPT !["lock_backup"] = d["lock"], !["lock"] = Absent], Absent, g, us, ub, ls, l, j)
  <2> DEFINE e == [d EXCEPT !["lock_backup"] = d["lock"], !["lock"] = Absent]
  <2>1. /\ e \in Disks /\ e["lock_backup"] = d["lock"] /\ e["lock"] = Absent
        /\ \A q \in ProjectPath : q # "lock_backup" /\ q # "lock" => e[q] = d[q]
    BY <1>1 DEF Disks, GenerationJournals
  <2> HIDE DEF e
  <2>2. UpdateAt(e, Absent, g, us, ub, ls, l, j)
    BY <2>1, PathsAre DEF UpdateAt, Apart
  <2> QED BY <2>2 DEF e
<1>3. UpdateAt([d EXCEPT !["lock"] = d["lock_backup"], !["lock_backup"] = Absent], lb, g, us, ub, ls, Absent, j)
  <2> DEFINE e == [d EXCEPT !["lock"] = d["lock_backup"], !["lock_backup"] = Absent]
  <2>1. /\ e \in Disks /\ e["lock"] = d["lock_backup"] /\ e["lock_backup"] = Absent
        /\ \A q \in ProjectPath : q # "lock_backup" /\ q # "lock" => e[q] = d[q]
    BY <1>1 DEF Disks, GenerationJournals
  <2> HIDE DEF e
  <2>2. UpdateAt(e, lb, g, us, ub, ls, Absent, j)
    BY <2>1, PathsAre DEF UpdateAt, Apart
  <2> QED BY <2>2 DEF e
<1>4. UpdateAt([d EXCEPT !["lock"] = d["lock_staging"], !["lock_staging"] = Absent], ls, g, us, ub, Absent, lb, j)
  <2> DEFINE e == [d EXCEPT !["lock"] = d["lock_staging"], !["lock_staging"] = Absent]
  <2>1. /\ e \in Disks /\ e["lock"] = d["lock_staging"] /\ e["lock_staging"] = Absent
        /\ \A q \in ProjectPath : q # "lock_staging" /\ q # "lock" => e[q] = d[q]
    BY <1>1 DEF Disks, GenerationJournals
  <2> HIDE DEF e
  <2>2. UpdateAt(e, ls, g, us, ub, Absent, lb, j)
    BY <2>1, PathsAre DEF UpdateAt, Apart
  <2> QED BY <2>2 DEF e
<1>5. UpdateAt([d EXCEPT !["update_backup"] = d["generated"], !["generated"] = Absent], l, Absent, us, g, ls, lb, j)
  <2> DEFINE e == [d EXCEPT !["update_backup"] = d["generated"], !["generated"] = Absent]
  <2>1. /\ e \in Disks /\ e["update_backup"] = d["generated"] /\ e["generated"] = Absent
        /\ \A q \in ProjectPath : q # "update_backup" /\ q # "generated" => e[q] = d[q]
    BY <1>1 DEF Disks, GenerationJournals
  <2> HIDE DEF e
  <2>2. UpdateAt(e, l, Absent, us, g, ls, lb, j)
    BY <2>1, PathsAre DEF UpdateAt, Apart
  <2> QED BY <2>2 DEF e
<1>6. UpdateAt([d EXCEPT !["generated"] = d["update_backup"], !["update_backup"] = Absent], l, ub, us, Absent, ls, lb, j)
  <2> DEFINE e == [d EXCEPT !["generated"] = d["update_backup"], !["update_backup"] = Absent]
  <2>1. /\ e \in Disks /\ e["generated"] = d["update_backup"] /\ e["update_backup"] = Absent
        /\ \A q \in ProjectPath : q # "update_backup" /\ q # "generated" => e[q] = d[q]
    BY <1>1 DEF Disks, GenerationJournals
  <2> HIDE DEF e
  <2>2. UpdateAt(e, l, ub, us, Absent, ls, lb, j)
    BY <2>1, PathsAre DEF UpdateAt, Apart
  <2> QED BY <2>2 DEF e
<1>7. UpdateAt([d EXCEPT !["generated"] = d["update_staging"], !["update_staging"] = Absent], l, us, Absent, ub, ls, lb, j)
  <2> DEFINE e == [d EXCEPT !["generated"] = d["update_staging"], !["update_staging"] = Absent]
  <2>1. /\ e \in Disks /\ e["generated"] = d["update_staging"] /\ e["update_staging"] = Absent
        /\ \A q \in ProjectPath : q # "update_staging" /\ q # "generated" => e[q] = d[q]
    BY <1>1 DEF Disks, GenerationJournals
  <2> HIDE DEF e
  <2>2. UpdateAt(e, l, us, Absent, ub, ls, lb, j)
    BY <2>1, PathsAre DEF UpdateAt, Apart
  <2> QED BY <2>2 DEF e
<1> QED BY <1>2, <1>3, <1>4, <1>5, <1>6, <1>7

LEMMA UpdateJournalsAre ==
  /\ Absent \in UpdateJournals /\ Empty \in UpdateJournals
  /\ \A e, old, new, phase :
       phase \in Phases /\ Journaled(e, phase, old, new) =>
         /\ e["update_journal"] \in UpdateJournals \ {Absent, Empty}
         /\ Phase(e, "update_journal") = phase
         /\ e["update_journal"].hadLock = (old[1] # Absent)
         /\ e["update_journal"].hadTree = (old[2] # Absent)
<1>1. Absent \in UpdateJournals /\ Empty \in UpdateJournals
  BY DEF UpdateJournals
<1>2. ASSUME NEW e, NEW old, NEW new, NEW phase \in Phases, Journaled(e, phase, old, new)
      PROVE  /\ e["update_journal"] \in UpdateJournals \ {Absent, Empty}
             /\ Phase(e, "update_journal") = phase
             /\ e["update_journal"].hadLock = (old[1] # Absent)
             /\ e["update_journal"].hadTree = (old[2] # Absent)
  <2> DEFINE a == old[1] # Absent
             b == old[2] # Absent
             r == [phase |-> phase, hadLock |-> a, hadTree |-> b]
  <2>1. e["update_journal"] = r
    BY <1>2 DEF Journaled
  <2>2. a \in BOOLEAN /\ b \in BOOLEAN
    OBVIOUS
  <2> HIDE DEF a, b
  <2>3. r \in [phase : Phases, hadLock : BOOLEAN, hadTree : BOOLEAN]
    BY <2>2
  <2>4. r.phase = phase /\ r.hadLock = a /\ r.hadTree = b
    OBVIOUS
  <2> HIDE DEF r
  <2>5. r \in UpdateJournals \ {Absent, Empty}
    BY <2>3, ProjectAssumption DEF UpdateJournals
  <2>6. Phase(e, "update_journal") = phase
    BY <2>1, <2>4, <2>5 DEF Phase
  <2> QED BY <2>1, <2>4, <2>5, <2>6 DEF a, b
<1> QED BY <1>1, <1>2

\* What a disk must show for a recovery to go on with.
LEMMA IsRecoverable ==
  ASSUME NEW old, NEW new, NEW f, NEW l, NEW g, NEW us, NEW ub, NEW ls, NEW lb, NEW j,
         UpdateAt(f, l, g, us, ub, ls, lb, j),
         j # Absent \/ <<l, g>> \in {old, new},
         \/ /\ old[1] # Absent => old[1] \in {l, lb}
            /\ old[2] # Absent => old[2] \in {g, ub}
         \/ l = new[1] /\ g = new[2]
  PROVE  f \in Recoverable(old, new)
<1>1. /\ f \in Disks /\ f["lock"] = l /\ f["generated"] = g /\ f["update_journal"] = j
      /\ f["lock_backup"] = lb /\ f["update_backup"] = ub /\ Contents(f) = <<l, g>>
  BY DEF UpdateAt, Contents
<1>2. Clean(f) => j = Absent
  BY <1>1, PathsAre DEF Clean, Exists
<1> QED BY <1>1, <1>2 DEF Recoverable

LEMMA UpdateConcludes ==
  ASSUME NEW old \in Pairs, NEW new \in Pairs, NEW e, NEW l, NEW g, NEW j, NEW X, NEW F,
         UpdateAt(e, l, g, Absent, Absent, Absent, Absent, j), e \in X, <<l, g>> \in {old, new},
         \A f : UpdateAt(f, l, g, Absent, Absent, Absent, Absent, Absent) => f \in X
  PROVE  Leads(e, Remove("update_journal"), X, F, Cleaned(<<l, g>>, <<l, g>>))
<1> DEFINE f == [e EXCEPT !["update_journal"] = Absent]
<1>1. UpdateAt(f, l, g, Absent, Absent, Absent, Absent, Absent)
  BY UpdatePuts, UpdateJournalsAre
<1>2. f = [e EXCEPT !["update_journal"] = Absent]
  OBVIOUS
<1> HIDE DEF f
<1>3. f \in X
  BY <1>1
<1>4. f \in Cleaned(<<l, g>>, <<l, g>>)
  BY <1>1, PathsAre DEF Cleaned, UpdateAt, Clean, Contents, Apart, Exists
<1>5. Leads(e, Remove("update_journal"), X, F, {f})
  BY <1>2, <1>3, LeadsPut DEF Remove
<1> QED BY <1>4, <1>5, LeadsWithin

\* Staging goes, unless its manifest does not fit it any more.
LEMMA UpdateStagingGoes ==
  ASSUME NEW d, NEW e, NEW l, NEW g, NEW us \in Trees, NEW ls, NEW j, NEW X, NEW F,
         UpdateAt(e, l, g, us, Absent, ls, Absent, j), d["update_staging"] = us,
         \A f, t, q : t \in {us, Partial, Absent} /\ q \in {ls, Absent}
                       /\ UpdateAt(f, l, g, t, Absent, q, Absent, j) => f \in X
  PROVE  /\ us = Partial /\ (\A f : UpdateAt(f, l, g, Partial, Absent, Absent, Absent, j) => f \in F)
              => Leads(e, RemoveUpdateStaging(d), X, F, {})
         /\ us # Partial => \E f : /\ UpdateAt(f, l, g, Absent, Absent, Absent, Absent, j)
                                   /\ Leads(e, RemoveUpdateStaging(d), X, F, {f})
<1> DEFINE f1 == [e EXCEPT !["lock_staging"] = Absent]
           p == Remove("lock_staging")
           c == Check(Whole(d, "update_staging"))
           t == RemoveTree("update_staging")
           w == When(Exists(d, "update_staging"), c \o t)
<1>1. UpdateAt(f1, l, g, us, Absent, Absent, Absent, j)
  BY UpdatePuts DEF Trees
<1>2. f1 = [e EXCEPT !["lock_staging"] = Absent]
  OBVIOUS
<1> HIDE DEF f1
<1>3. e \in X /\ f1 \in X
  BY <1>1
<1>4. Leads(e, p, X, F, {f1})
  BY <1>2, <1>3, LeadsPut DEF Remove
<1>5. RemoveUpdateStaging(d) = p \o w
  BY DEF RemoveUpdateStaging
<1>6. IsPlan(t)
  BY StepsArePlans
<1>7. CASE us = Partial
  <2> SUFFICES ASSUME \A f : UpdateAt(f, l, g, Partial, Absent, Absent, Absent, j) => f \in F
               PROVE  Leads(e, RemoveUpdateStaging(d), X, F, {})
    BY <1>7
  <2>1. ~Whole(d, "update_staging") /\ Exists(d, "update_staging")
    BY <1>7, ContentsAssumption DEF Exists, Whole
  <2>2. f1 \in F
    BY <1>1, <1>7
  <2>3. Leads(f1, c, X, F, {})
    BY <1>3, <2>1, <2>2, LeadsCheck
  <2>4. w = c \o t
    BY <2>1 DEF When
  <2> HIDE DEF p, c, t, w
  <2>5. Leads(f1, w, X, F, {})
    BY <1>6, <2>3, <2>4, LeadsNoFurther
  <2> QED BY <1>4, <1>5, <2>5, LeadsThen
<1>8. CASE us = Absent
  <2>1. w = <<>>
    BY <1>8 DEF When, Exists
  <2>2. Leads(f1, w, X, F, {f1})
    BY <1>3, <2>1, LeadsNowhere
  <2> HIDE DEF p, w
  <2>3. Leads(e, RemoveUpdateStaging(d), X, F, {f1})
    BY <1>4, <1>5, <2>2, LeadsThen
  <2>4. us # Partial
    BY <1>8, ContentsAssumption
  <2> QED BY <1>1, <1>8, <2>3, <2>4
<1>9. CASE us # Partial /\ us # Absent
  <2> DEFINE f2 == [f1 EXCEPT !["update_staging"] = Partial]
             f3 == [f2 EXCEPT !["update_staging"] = Absent]
  <2>1. UpdateAt(f2, l, g, Partial, Absent, Absent, Absent, j)
    BY <1>1, UpdatePuts DEF Trees
  <2>2. f2 = [f1 EXCEPT !["update_staging"] = Partial]
    OBVIOUS
  <2> HIDE DEF f2
  <2>3. UpdateAt(f3, l, g, Absent, Absent, Absent, Absent, j)
    BY <2>1, UpdatePuts DEF Trees
  <2>4. f3 = [f2 EXCEPT !["update_staging"] = Absent]
    OBVIOUS
  <2> HIDE DEF f3
  <2>5. f2 \in X /\ f3 \in X
    BY <2>1, <2>3
  <2>6. Leads(f1, t, X, F, {f3})
    BY <1>3, <2>2, <2>4, <2>5, LeadsRemoveTree
  <2>7. Whole(d, "update_staging") /\ Exists(d, "update_staging")
    BY <1>9 DEF Whole, Exists, Trees
  <2>8. Leads(f1, c, X, F, {f1})
    BY <1>3, <2>7, LeadsCheck
  <2>9. w = c \o t
    BY <2>7 DEF When
  <2> HIDE DEF p, c, t, w
  <2>10. Leads(f1, w, X, F, {f3})
    BY <2>6, <2>8, <2>9, LeadsThen
  <2>11. Leads(e, RemoveUpdateStaging(d), X, F, {f3})
    BY <1>4, <1>5, <2>10, LeadsThen
  <2> QED BY <1>9, <2>3, <2>11
<1> QED BY <1>7, <1>8, <1>9

\* There is no record: only staging may be left.
LEMMA UpdateQuietRecovers ==
  ASSUME NEW old \in Pairs, NEW new \in Pairs, NEW d \in Disks, Apart(d), UpdateQuiet(d, old, new)
  PROVE  Leads(d, UpdateRecoverWithoutJournal(d) \o Remove("update_journal"),
               Recoverable(old, new), Updated(old, new), Cleaned(old, new))
<1> DEFINE X == Recoverable(old, new)
           F == Updated(old, new)
           l == d["lock"]
           g == d["generated"]
           us == d["update_staging"]
           ls == d["lock_staging"]
           j == d["update_journal"]
           c == Check(~Exists(d, "lock_backup") /\ ~Exists(d, "update_backup"))
           r == RemoveUpdateStaging(d)
           last == Remove("update_journal")
<1>1. /\ us \in Trees /\ us \in {Absent, Partial, new[2]} /\ ls \in {Absent, new[1]}
      /\ <<l, g>> \in {old, new} /\ j \in {Absent, Empty}
      /\ old = <<old[1], old[2]>> /\ new = <<new[1], new[2]>>
  BY DEF UpdateQuiet, Trees, Pairs, Contained, Contents
<1>2. UpdateAt(d, l, g, us, Absent, ls, Absent, j)
  BY DEF UpdateAt, UpdateQuiet
<1>3. \A f, t, q, i : UpdateAt(f, l, g, t, Absent, q, Absent, i) => f \in X
  BY <1>1, IsRecoverable
<1>4. d \in X
  BY <1>2, <1>3
<1>5. Leads(d, c, X, F, {d})
  BY <1>4, LeadsCheck DEF UpdateQuiet, Exists
<1>6. UpdateRecoverWithoutJournal(d) = c \o r
  BY DEF UpdateRecoverWithoutJournal
<1>7. \A f : UpdateAt(f, l, g, Partial, Absent, Absent, Absent, j) => f \in F
  BY <1>1 DEF UpdateAt, Updated, UpdateQuiet, Contents
<1>8. IsPlan(last)
  BY StepsArePlans
<1>11. /\ us = Partial => Leads(d, r, X, F, {})
       /\ us # Partial => \E f : UpdateAt(f, l, g, Absent, Absent, Absent, Absent, j) /\ Leads(d, r, X, F, {f})
  <2>1. us \in Trees /\ d["update_staging"] = us
    BY <1>1
  <2>2. \A f, t, q : t \in {us, Partial, Absent} /\ q \in {ls, Absent}
                      /\ UpdateAt(f, l, g, t, Absent, q, Absent, j) => f \in X
    BY <1>3
  <2>3. us = Partial => \A f : UpdateAt(f, l, g, Partial, Absent, Absent, Absent, j) => f \in F
    BY <1>7
  <2> HIDE DEF X, F, l, g, us, ls, j
  <2>4. /\ us = Partial => Leads(d, RemoveUpdateStaging(d), X, F, {})
        /\ us # Partial => \E f : /\ UpdateAt(f, l, g, Absent, Absent, Absent, Absent, j)
                                  /\ Leads(d, RemoveUpdateStaging(d), X, F, {f})
    BY <1>2, <2>1, <2>2, <2>3, UpdateStagingGoes
  <2> QED BY <2>4 DEF r
<1>9. CASE us = Partial
  <2>1. Leads(d, r, X, F, {})
    BY <1>9, <1>11
  <2> HIDE DEF X, F, c, r, last
  <2>2. Leads(d, c \o r, X, F, {})
    BY <1>5, <2>1, LeadsThen
  <2>3. Leads(d, (c \o r) \o last, X, F, Cleaned(old, new))
    BY <1>8, <2>2, LeadsNoFurther
  <2> QED BY <1>6, <2>3 DEF X, F, last
<1>10. CASE us # Partial
  <2>1. PICK f : UpdateAt(f, l, g, Absent, Absent, Absent, Absent, j) /\ Leads(d, r, X, F, {f})
    BY <1>10, <1>11
  <2>2. Leads(f, last, X, F, Cleaned(<<l, g>>, <<l, g>>))
    BY <1>1, <1>3, <2>1, UpdateConcludes
  <2>3. Leads(f, last, X, F, Cleaned(old, new))
    BY <1>1, <2>2, CleanedOf, LeadsWithin
  <2> HIDE DEF X, F, c, r, last
  <2>4. Leads(d, c \o r, X, F, {f})
    BY <1>5, <2>1, LeadsThen
  <2>5. Leads(d, (c \o r) \o last, X, F, Cleaned(old, new))
    BY <2>3, <2>4, LeadsThen
  <2> QED BY <1>6, <2>5 DEF X, F, last
<1> QED BY <1>9, <1>10

\* What was set aside comes back: the lock, and the tree.
LEMMA LockComesBack ==
  ASSUME NEW d, NEW old, NEW had, NEW l, NEW g, NEW us, NEW ub, NEW ls, NEW lb, NEW j, NEW X, NEW F,
         UpdateAt(d, l, g, us, ub, ls, lb, j),
         (l = old /\ lb = Absent) \/ (l = Absent /\ lb = old), had => old # Absent, d \in X,
         \A f : UpdateAt(f, old, g, us, ub, ls, Absent, j) => f \in X
  PROVE  \E e : /\ UpdateAt(e, old, g, us, ub, ls, Absent, j)
                /\ Leads(d, RestoreIfBackedUp(d, "lock", "lock_backup", had), X, F, {e})
<1>1. d["lock"] = l /\ d["lock_backup"] = lb
  BY DEF UpdateAt
<1>2. CASE lb = Absent
  <2>1. l = old /\ (had => Exists(d, "lock")) /\ ~Exists(d, "lock_backup")
    BY <1>1, <1>2 DEF Exists
  <2> DEFINE c == Check(had => Exists(d, "lock"))
  <2>2. RestoreIfBackedUp(d, "lock", "lock_backup", had) = c
    BY <2>1 DEF RestoreIfBackedUp
  <2>3. Leads(d, c, X, F, {d})
    BY <2>1, LeadsCheck
  <2> HIDE DEF c
  <2> QED BY <1>2, <2>1, <2>2, <2>3
<1>3. CASE lb # Absent
  <2> DEFINE e == [d EXCEPT !["lock"] = d["lock_backup"], !["lock_backup"] = Absent]
             c == Check(~Exists(d, "lock"))
             m == Move("lock_backup", "lock")
  <2>1. l = Absent /\ lb = old /\ ~Exists(d, "lock") /\ Exists(d, "lock_backup")
    BY <1>1, <1>3 DEF Exists
  <2>2. UpdateAt(e, old, g, us, ub, ls, Absent, j)
    BY <2>1, UpdateMoves
  <2>3. e = [d EXCEPT !["lock"] = d["lock_backup"], !["lock_backup"] = Absent]
    OBVIOUS
  <2> HIDE DEF e
  <2>4. Leads(d, m, X, F, {e})
    BY <2>2, <2>3, LeadsMove
  <2>5. Leads(d, c, X, F, {d})
    BY <2>1, LeadsCheck
  <2>6. RestoreIfBackedUp(d, "lock", "lock_backup", had) = c \o m
    BY <2>1 DEF RestoreIfBackedUp
  <2> HIDE DEF c, m
  <2>7. Leads(d, c \o m, X, F, {e})
    BY <2>4, <2>5, LeadsThen
  <2> QED BY <2>2, <2>6, <2>7
<1> QED BY <1>2, <1>3

LEMMA TreeComesBack ==
  ASSUME NEW d, NEW e, NEW old, NEW had, NEW l, NEW g, NEW us, NEW ub, NEW ls, NEW lb, NEW j, NEW X, NEW F,
         UpdateAt(e, l, g, us, ub, ls, lb, j), d["generated"] = g, d["update_backup"] = ub,
         (g = old /\ ub = Absent) \/ (g = Absent /\ ub = old), had => old # Absent, e \in X,
         \A f : UpdateAt(f, l, old, us, Absent, ls, lb, j) => f \in X
  PROVE  \E f : /\ UpdateAt(f, l, old, us, Absent, ls, lb, j)
                /\ Leads(e, RestoreIfBackedUp(d, "generated", "update_backup", had), X, F, {f})
<1>2. CASE ub = Absent
  <2>1. g = old /\ (had => Exists(d, "generated")) /\ ~Exists(d, "update_backup")
    BY <1>2 DEF Exists
  <2> DEFINE c == Check(had => Exists(d, "generated"))
  <2>2. RestoreIfBackedUp(d, "generated", "update_backup", had) = c
    BY <2>1 DEF RestoreIfBackedUp
  <2>3. Leads(e, c, X, F, {e})
    BY <2>1, LeadsCheck
  <2> HIDE DEF c
  <2> QED BY <1>2, <2>1, <2>2, <2>3
<1>3. CASE ub # Absent
  <2> DEFINE f == [e EXCEPT !["generated"] = e["update_backup"], !["update_backup"] = Absent]
             c == Check(~Exists(d, "generated"))
             m == Move("update_backup", "generated")
  <2>1. g = Absent /\ ub = old /\ ~Exists(d, "generated") /\ Exists(d, "update_backup")
    BY <1>3 DEF Exists
  <2>2. UpdateAt(f, l, old, us, Absent, ls, lb, j)
    BY <2>1, UpdateMoves
  <2>3. f = [e EXCEPT !["generated"] = e["update_backup"], !["update_backup"] = Absent]
    OBVIOUS
  <2> HIDE DEF f
  <2>4. Leads(e, m, X, F, {f})
    BY <2>2, <2>3, LeadsMove
  <2>5. Leads(e, c, X, F, {e})
    BY <2>1, LeadsCheck
  <2>6. RestoreIfBackedUp(d, "generated", "update_backup", had) = c \o m
    BY <2>1 DEF RestoreIfBackedUp
  <2> HIDE DEF c, m
  <2>7. Leads(e, c \o m, X, F, {f})
    BY <2>4, <2>5, LeadsThen
  <2> QED BY <2>2, <2>6, <2>7
<1> QED BY <1>2, <1>3

\* The journal says that the old files were being set aside.
LEMMA UpdatePreparedRecovers ==
  ASSUME NEW old \in Pairs, NEW new \in Pairs, NEW d \in Disks, Apart(d), UpdatePrepared(d, old, new)
  PROVE  Leads(d, UpdateRecoverPrepared(d) \o Remove("update_journal"),
               Recoverable(old, new), Updated(old, new), Cleaned(old, new))
<1> DEFINE X == Recoverable(old, new)
           F == Updated(old, new)
           l == d["lock"]
           g == d["generated"]
           us == new[2]
           ls == new[1]
           lb == d["lock_backup"]
           ub == d["update_backup"]
           j == d["update_journal"]
           a == old[1]
           b == old[2]
           p1 == RestoreIfBackedUp(d, "lock", "lock_backup", j.hadLock)
           p2 == Check(Exists(d, "update_backup") => Whole(d, "update_backup"))
           p3 == RestoreIfBackedUp(d, "generated", "update_backup", j.hadTree)
           p4 == RemoveUpdateStaging(d)
           p5 == Remove("update_journal")
<1>1. /\ j \in UpdateJournals \ {Absent, Empty} /\ (j.hadLock <=> a # Absent) /\ (j.hadTree <=> b # Absent)
      /\ old = <<a, b>> /\ new = <<ls, us>> /\ us \in Version /\ us \in Trees /\ us # Partial /\ b \in Contained
      /\ d["update_staging"] = us
  <2>1. Journaled(d, "prepared", old, new) /\ "prepared" \in Phases /\ d["update_staging"] = us
    BY DEF UpdatePrepared, Phases
  <2>2. /\ j \in UpdateJournals \ {Absent, Empty} /\ (j.hadLock <=> a # Absent) /\ (j.hadTree <=> b # Absent)
    BY <2>1, UpdateJournalsAre
  <2>3. old = <<a, b>> /\ new = <<ls, us>> /\ us \in Version /\ b \in Contained
    BY <2>1 DEF Journaled, Pairs
  <2> HIDE DEF j
  <2> QED BY <2>1, <2>2, <2>3, ContentsAssumption DEF Trees
<1>2. UpdateAt(d, l, g, us, ub, ls, lb, j)
  BY DEF UpdateAt, UpdatePrepared
<1>3. /\ (l = a /\ lb = Absent) \/ (l = Absent /\ lb = a)
      /\ (g = b /\ ub = Absent) \/ (g = Absent /\ ub = b)
  BY DEF UpdatePrepared
<1>4. UpdateRecoverPrepared(d) = p1 \o p2 \o p3 \o p4
  BY DEF UpdateRecoverPrepared
<1>5. \A f, l1, g1, s1, u1, q1, k1 :
        /\ UpdateAt(f, l1, g1, s1, u1, q1, k1, j)
        /\ l1 = a \/ k1 = a
        /\ g1 = b \/ u1 = b
        => f \in X
  BY <1>1, IsRecoverable
<1>6. d \in X
  BY <1>2, <1>3, <1>5
<1>7. Exists(d, "update_backup") => Whole(d, "update_backup")
  BY <1>1, <1>3 DEF Exists, Whole, Contained
<1> HIDE DEF X, F, l, g, us, ls, lb, ub, j, a, b
<1>8. PICK e1 : UpdateAt(e1, a, g, us, ub, ls, Absent, j) /\ Leads(d, p1, X, F, {e1})
  <2>1. \A f : UpdateAt(f, a, g, us, ub, ls, Absent, j) => f \in X
    BY <1>3, <1>5
  <2>2. j.hadLock => a # Absent
    BY <1>1
  <2> HIDE DEF p1
  <2> QED BY ONLY <1>2, <1>3, <1>6, <2>1, <2>2, LockComesBack DEF p1
<1>9. e1 \in X
  BY <1>3, <1>5, <1>8
<1>10. Leads(e1, p2, X, F, {e1})
  BY <1>7, <1>9, LeadsCheck
<1>11. PICK e2 : UpdateAt(e2, a, b, us, Absent, ls, Absent, j) /\ Leads(e1, p3, X, F, {e2})
  <2>1. \A f : UpdateAt(f, a, b, us, Absent, ls, Absent, j) => f \in X
    BY <1>5
  <2>2. (j.hadTree => b # Absent) /\ d["generated"] = g /\ d["update_backup"] = ub
    BY <1>1 DEF g, ub
  <2> HIDE DEF p3
  <2> QED BY ONLY <1>3, <1>8, <1>9, <2>1, <2>2, TreeComesBack DEF p3
<1>12. PICK f : UpdateAt(f, a, b, Absent, Absent, Absent, Absent, j) /\ Leads(e2, p4, X, F, {f})
  <2>1. \A x, t, q : t \in {us, Partial, Absent} /\ q \in {ls, Absent}
                      /\ UpdateAt(x, a, b, t, Absent, q, Absent, j) => x \in X
    BY <1>5
  <2> HIDE DEF p4
  <2> QED BY ONLY <1>1, <1>11, <2>1, UpdateStagingGoes DEF p4
<1>13. Leads(f, p5, X, F, Cleaned(<<a, b>>, <<a, b>>))
  <2>1. f \in X
    BY <1>5, <1>12
  <2>2. <<a, b>> \in {old, new} /\ (\A x : UpdateAt(x, a, b, Absent, Absent, Absent, Absent, Absent) => x \in X)
    BY <1>1, IsRecoverable DEF a, b, X
  <2> QED BY <1>12, <2>1, <2>2, UpdateConcludes
<1>14. Leads(f, p5, X, F, Cleaned(old, new))
  BY <1>1, <1>13, CleanedOf, LeadsWithin
<1> HIDE DEF p1, p2, p3, p4, p5
<1>15. Leads(d, p1 \o p2, X, F, {e1})
  BY <1>8, <1>10, LeadsThen
<1>16. Leads(d, p1 \o p2 \o p3, X, F, {e2})
  BY <1>11, <1>15, LeadsThen
<1>17. Leads(d, p1 \o p2 \o p3 \o p4, X, F, {f})
  BY <1>12, <1>16, LeadsThen
<1>18. Leads(d, (p1 \o p2 \o p3 \o p4) \o p5, X, F, Cleaned(old, new))
  BY <1>14, <1>17, LeadsThen
<1> QED BY <1>4, <1>18 DEF X, F, p5

\* What was installed goes and what was set aside comes back.
LEMMA LockRollsBack ==
  ASSUME NEW d, NEW old, NEW had, NEW l, NEW g, NEW us, NEW ub, NEW ls, NEW j, NEW X, NEW F,
         UpdateAt(d, l, g, us, ub, ls, old, j), had <=> old # Absent, d \in X,
         \A f, t, q : (t = Absent /\ q = old) \/ (t = old /\ q = Absent)
                       => (UpdateAt(f, t, g, us, ub, ls, q, j) => f \in X)
  PROVE  \E e : /\ UpdateAt(e, old, g, us, ub, ls, Absent, j)
                /\ Leads(d, RollbackFile(d, had), X, F, {e})
<1> DEFINE d1 == [d EXCEPT !["lock"] = Absent]
           p1 == Remove("lock")
           c == Check(Exists(d, "lock_backup"))
           m == Move("lock_backup", "lock")
           n == Remove("lock_backup")
<1>1. UpdateAt(d1, Absent, g, us, ub, ls, old, j)
  BY UpdatePuts DEF Trees
<1>2. d1 = [d EXCEPT !["lock"] = Absent]
  OBVIOUS
<1> HIDE DEF d1
<1>3. d1 \in X
  BY <1>1
<1>4. Leads(d, p1, X, F, {d1})
  BY <1>2, <1>3, LeadsPut DEF Remove
<1>5. CASE old = Absent
  <2> DEFINE e == [d1 EXCEPT !["lock_backup"] = Absent]
  <2>1. UpdateAt(e, old, g, us, ub, ls, Absent, j)
    BY <1>1, <1>5, UpdatePuts DEF Trees
  <2>2. e = [d1 EXCEPT !["lock_backup"] = Absent]
    OBVIOUS
  <2> HIDE DEF e
  <2>3. Leads(d1, n, X, F, {e})
    BY <1>3, <2>1, <2>2, LeadsPut DEF Remove
  <2>4. RollbackFile(d, had) = p1 \o n
    BY <1>5 DEF RollbackFile
  <2> HIDE DEF p1, n
  <2>5. Leads(d, p1 \o n, X, F, {e})
    BY <1>4, <2>3, LeadsThen
  <2> QED BY <2>1, <2>4, <2>5
<1>6. CASE old # Absent
  <2> DEFINE e == [d1 EXCEPT !["lock"] = d1["lock_backup"], !["lock_backup"] = Absent]
  <2>1. UpdateAt(e, old, g, us, ub, ls, Absent, j)
    BY <1>1, UpdateMoves
  <2>2. e = [d1 EXCEPT !["lock"] = d1["lock_backup"], !["lock_backup"] = Absent]
    OBVIOUS
  <2> HIDE DEF e
  <2>3. e \in X
    BY <2>1
  <2>4. Leads(d1, m, X, F, {e})
    BY <1>3, <2>2, <2>3, LeadsMove
  <2>5. Exists(d, "lock_backup")
    BY <1>6 DEF UpdateAt, Exists
  <2>6. Leads(d1, c, X, F, {d1})
    BY <1>3, <2>5, LeadsCheck
  <2>7. RollbackFile(d, had) = p1 \o (c \o m)
    BY <1>6 DEF RollbackFile
  <2> HIDE DEF p1, c, m
  <2>8. Leads(d1, c \o m, X, F, {e})
    BY <2>4, <2>6, LeadsThen
  <2>9. Leads(d, p1 \o (c \o m), X, F, {e})
    BY <1>4, <2>8, LeadsThen
  <2> QED BY <2>1, <2>7, <2>9
<1> QED BY <1>5, <1>6

LEMMA TreeRollsBack ==
  ASSUME NEW d, NEW e, NEW old \in Contained, NEW had, NEW l, NEW g \in Contained, NEW us, NEW ls, NEW lb, NEW j,
         NEW X, NEW F,
         UpdateAt(e, l, g, us, old, ls, lb, j), d["generated"] = g, d["update_backup"] = old,
         had <=> old # Absent,
         \A f, t : t \in {g, Partial, Absent} /\ UpdateAt(f, l, t, us, old, ls, lb, j) => f \in X,
         \A f : UpdateAt(f, l, old, us, Absent, ls, lb, j) => f \in X
  PROVE  \E f : /\ UpdateAt(f, l, old, us, Absent, ls, lb, j)
                /\ Leads(e, RollbackGenerated(d, had), X, F, {f})
<1> DEFINE w == When(Exists(d, "generated"), Check(Whole(d, "generated")) \o RemoveTree("generated"))
           b == IF had THEN Check(Whole(d, "update_backup")) \o Move("update_backup", "generated")
                ELSE Check(~Exists(d, "update_backup"))
<1>1. RollbackGenerated(d, had) = w \o b
  BY DEF RollbackGenerated
<1>2. e \in X
  OBVIOUS
<1>3. PICK x : UpdateAt(x, l, Absent, us, old, ls, lb, j) /\ Leads(e, w, X, F, {x})
  <2>1. CASE g = Absent
    <3>1. w = <<>>
      BY <2>1 DEF When, Exists
    <3>2. Leads(e, w, X, F, {e})
      BY <1>2, <3>1, LeadsNowhere
    <3> QED BY <2>1, <3>2
  <2>2. CASE g # Absent
    <3> DEFINE x1 == [e EXCEPT !["generated"] = Partial]
               x2 == [x1 EXCEPT !["generated"] = Absent]
               c == Check(Whole(d, "generated"))
               t == RemoveTree("generated")
    <3>1. UpdateAt(x1, l, Partial, us, old, ls, lb, j)
      BY UpdatePuts DEF Trees
    <3>2. x1 = [e EXCEPT !["generated"] = Partial]
      OBVIOUS
    <3> HIDE DEF x1
    <3>3. UpdateAt(x2, l, Absent, us, old, ls, lb, j)
      BY <3>1, UpdatePuts DEF Trees
    <3>4. x2 = [x1 EXCEPT !["generated"] = Absent]
      OBVIOUS
    <3> HIDE DEF x2
    <3>5. x1 \in X /\ x2 \in X
      BY <3>1, <3>3
    <3>6. Leads(e, t, X, F, {x2})
      BY <1>2, <3>2, <3>4, <3>5, LeadsRemoveTree
    <3>7. Whole(d, "generated") /\ Exists(d, "generated")
      BY <2>2 DEF Whole, Exists, Contained
    <3>8. Leads(e, c, X, F, {e})
      BY <1>2, <3>7, LeadsCheck
    <3>9. w = c \o t
      BY <3>7 DEF When
    <3> HIDE DEF c, t, w
    <3>10. Leads(e, c \o t, X, F, {x2})
      BY <3>6, <3>8, LeadsThen
    <3> QED BY <3>3, <3>9, <3>10
  <2> QED BY <2>1, <2>2
<1>4. x \in X
  BY <1>3
<1>5. PICK f : UpdateAt(f, l, old, us, Absent, ls, lb, j) /\ Leads(x, b, X, F, {f})
  <2>1. CASE old = Absent
    <3>1. ~Exists(d, "update_backup")
      BY <2>1 DEF Exists
    <3>2. b = Check(~Exists(d, "update_backup"))
      BY <2>1
    <3>3. Leads(x, Check(~Exists(d, "update_backup")), X, F, {x})
      BY <1>4, <3>1, LeadsCheck
    <3> QED BY <1>3, <2>1, <3>2, <3>3
  <2>2. CASE old # Absent
    <3> DEFINE f == [x EXCEPT !["generated"] = x["update_backup"], !["update_backup"] = Absent]
               c == Check(Whole(d, "update_backup"))
               m == Move("update_backup", "generated")
    <3>1. UpdateAt(f, l, old, us, Absent, ls, lb, j)
      BY <1>3, UpdateMoves
    <3>2. f = [x EXCEPT !["generated"] = x["update_backup"], !["update_backup"] = Absent]
      OBVIOUS
    <3> HIDE DEF f
    <3>3. f \in X
      BY <3>1
    <3>4. Leads(x, m, X, F, {f})
      BY <1>4, <3>2, <3>3, LeadsMove
    <3>5. Whole(d, "update_backup")
      BY <2>2 DEF Whole, Contained
    <3>6. Leads(x, c, X, F, {x})
      BY <1>4, <3>5, LeadsCheck
    <3>7. b = c \o m
      BY <2>2
    <3> HIDE DEF c, m, b
    <3>8. Leads(x, c \o m, X, F, {f})
      BY <3>4, <3>6, LeadsThen
    <3> QED BY <3>1, <3>7, <3>8
  <2> QED BY <2>1, <2>2
<1> HIDE DEF w, b
<1>6. Leads(e, w \o b, X, F, {f})
  BY <1>3, <1>5, LeadsThen
<1> QED BY <1>1, <1>5, <1>6

\* The journal says that the new files were being installed.
LEMMA UpdateBackedUpRecovers ==
  ASSUME NEW old \in Pairs, NEW new \in Pairs, NEW d \in Disks, Apart(d), UpdateBackedUp(d, old, new)
  PROVE  Leads(d, UpdateRecoverBackedUp(d) \o Remove("update_journal"),
               Recoverable(old, new), Updated(old, new), Cleaned(old, new))
<1> DEFINE X == Recoverable(old, new)
           F == Updated(old, new)
           l == d["lock"]
           g == d["generated"]
           us == d["update_staging"]
           ls == d["lock_staging"]
           j == d["update_journal"]
           a == old[1]
           b == old[2]
           p1 == RollbackFile(d, j.hadLock)
           p2 == RollbackGenerated(d, j.hadTree)
           p3 == RemoveUpdateStaging(d)
           p4 == Remove("update_journal")
<1>1. /\ j \in UpdateJournals \ {Absent, Empty} /\ (j.hadLock <=> a # Absent) /\ (j.hadTree <=> b # Absent)
      /\ old = <<a, b>> /\ us \in Trees /\ us # Partial /\ b \in Contained /\ g \in Contained
  <2>1. /\ Journaled(d, "backed_up", old, new) /\ "backed_up" \in Phases
        /\ us \in {new[2], Absent} /\ g \in {new[2], Absent}
    BY DEF UpdateBackedUp, Phases
  <2>2. /\ j \in UpdateJournals \ {Absent, Empty} /\ (j.hadLock <=> a # Absent) /\ (j.hadTree <=> b # Absent)
    BY <2>1, UpdateJournalsAre
  <2>3. old = <<a, b>> /\ new[2] \in Version /\ b \in Contained
    BY <2>1 DEF Journaled, Pairs
  <2> HIDE DEF j
  <2> QED BY <2>1, <2>2, <2>3, ContentsAssumption DEF Trees, Contained
<1>2. UpdateAt(d, l, g, us, b, ls, a, j)
  BY DEF UpdateAt, UpdateBackedUp
<1>3. UpdateRecoverBackedUp(d) = p1 \o p2 \o p3
  BY DEF UpdateRecoverBackedUp
<1>4. \A f, l1, g1, s1, u1, q1, k1 :
        /\ UpdateAt(f, l1, g1, s1, u1, q1, k1, j)
        /\ l1 = a \/ k1 = a
        /\ g1 = b \/ u1 = b
        => f \in X
  BY <1>1, IsRecoverable
<1>5. d \in X
  BY <1>2, <1>4
<1>6. d["generated"] = g /\ d["update_backup"] = b /\ d["update_staging"] = us
  BY <1>2 DEF UpdateAt
<1> HIDE DEF X, F, l, g, us, ls, j, a, b
<1>7. PICK e1 : UpdateAt(e1, a, g, us, b, ls, Absent, j) /\ Leads(d, p1, X, F, {e1})
  <2>1. \A f, t, q : (t = Absent /\ q = a) \/ (t = a /\ q = Absent)
                       => (UpdateAt(f, t, g, us, b, ls, q, j) => f \in X)
    BY <1>4
  <2>2. j.hadLock <=> a # Absent
    BY <1>1
  <2> HIDE DEF p1
  <2> QED BY ONLY <1>2, <1>5, <2>1, <2>2, LockRollsBack DEF p1
<1>8. PICK e2 : UpdateAt(e2, a, b, us, Absent, ls, Absent, j) /\ Leads(e1, p2, X, F, {e2})
  <2>1. \A f, t : t \in {g, Partial, Absent} /\ UpdateAt(f, a, t, us, b, ls, Absent, j) => f \in X
    BY <1>4
  <2>2. \A f : UpdateAt(f, a, b, us, Absent, ls, Absent, j) => f \in X
    BY <1>4
  <2>3. (j.hadTree <=> b # Absent) /\ b \in Contained /\ g \in Contained
    BY <1>1
  <2> HIDE DEF p2
  <2> QED BY ONLY <1>6, <1>7, <2>1, <2>2, <2>3, TreeRollsBack DEF p2
<1>9. PICK f : UpdateAt(f, a, b, Absent, Absent, Absent, Absent, j) /\ Leads(e2, p3, X, F, {f})
  <2>1. \A x, t, q : t \in {us, Partial, Absent} /\ q \in {ls, Absent}
                      /\ UpdateAt(x, a, b, t, Absent, q, Absent, j) => x \in X
    BY <1>4
  <2>2. us \in Trees /\ us # Partial
    BY <1>1
  <2> HIDE DEF p3
  <2> QED BY ONLY <1>6, <1>8, <2>1, <2>2, UpdateStagingGoes DEF p3
<1>10. Leads(f, p4, X, F, Cleaned(<<a, b>>, <<a, b>>))
  <2>1. f \in X
    BY <1>4, <1>9
  <2>2. <<a, b>> \in {old, new} /\ (\A x : UpdateAt(x, a, b, Absent, Absent, Absent, Absent, Absent) => x \in X)
    BY <1>1, IsRecoverable DEF a, b, X
  <2> QED BY <1>9, <2>1, <2>2, UpdateConcludes
<1>11. Leads(f, p4, X, F, Cleaned(old, new))
  BY <1>1, <1>10, CleanedOf, LeadsWithin
<1> HIDE DEF p1, p2, p3, p4
<1>12. Leads(d, p1 \o p2, X, F, {e2})
  BY <1>7, <1>8, LeadsThen
<1>13. Leads(d, p1 \o p2 \o p3, X, F, {f})
  BY <1>9, <1>12, LeadsThen
<1>14. Leads(d, (p1 \o p2 \o p3) \o p4, X, F, Cleaned(old, new))
  BY <1>11, <1>13, LeadsThen
<1> QED BY <1>3, <1>14 DEF X, F, p4

\* What was set aside goes, unless its manifest does not fit it any more.
LEMMA UpdateBackupsGo ==
  ASSUME NEW d, NEW e, NEW l, NEW g, NEW ub \in Trees, NEW lb, NEW j, NEW X, NEW F,
         UpdateAt(e, l, g, Absent, ub, Absent, lb, j), d["update_backup"] = ub,
         \A f, t, q : t \in {ub, Partial, Absent} /\ q \in {lb, Absent}
                       /\ UpdateAt(f, l, g, Absent, t, Absent, q, j) => f \in X
  PROVE  /\ ub = Partial /\ (\A f : UpdateAt(f, l, g, Absent, Partial, Absent, Absent, j) => f \in F)
              => Leads(e, RemoveBackups(d), X, F, {})
         /\ ub # Partial =>
              \E f1, f2 : /\ f1 \in X /\ Leads(e, Remove("lock_backup"), X, F, {f1})
                          /\ UpdateAt(f2, l, g, Absent, Absent, Absent, Absent, j)
                          /\ Leads(f1, When(Exists(d, "update_backup"), RemoveTree("update_backup")), X, F, {f2})
                          /\ Leads(e, RemoveBackups(d), X, F, {f2})
<1> DEFINE f1 == [e EXCEPT !["lock_backup"] = Absent]
           p == Remove("lock_backup")
           c == Check(Whole(d, "update_backup"))
           t == RemoveTree("update_backup")
           w == When(Exists(d, "update_backup"), c \o t)
           w0 == When(Exists(d, "update_backup"), t)
<1>1. UpdateAt(f1, l, g, Absent, ub, Absent, Absent, j)
  BY UpdatePuts DEF Trees
<1>2. f1 = [e EXCEPT !["lock_backup"] = Absent]
  OBVIOUS
<1> HIDE DEF f1
<1>3. e \in X /\ f1 \in X
  BY <1>1
<1>4. Leads(e, p, X, F, {f1})
  BY <1>2, <1>3, LeadsPut DEF Remove
<1>5. RemoveBackups(d) = p \o w
  BY DEF RemoveBackups
<1>6. IsPlan(t)
  BY StepsArePlans
<1>7. CASE ub = Partial
  <2> SUFFICES ASSUME \A f : UpdateAt(f, l, g, Absent, Partial, Absent, Absent, j) => f \in F
               PROVE  Leads(e, RemoveBackups(d), X, F, {})
    BY <1>7
  <2>1. ~Whole(d, "update_backup") /\ Exists(d, "update_backup")
    BY <1>7, ContentsAssumption DEF Exists, Whole
  <2>2. f1 \in F
    BY <1>1, <1>7
  <2>3. Leads(f1, c, X, F, {})
    BY <1>3, <2>1, <2>2, LeadsCheck
  <2>4. w = c \o t
    BY <2>1 DEF When
  <2> HIDE DEF p, c, t, w
  <2>5. Leads(f1, w, X, F, {})
    BY <1>6, <2>3, <2>4, LeadsNoFurther
  <2> QED BY <1>4, <1>5, <2>5, LeadsThen
<1>8. CASE ub = Absent
  <2>1. w = <<>> /\ w0 = <<>>
    BY <1>8 DEF When, Exists
  <2>2. Leads(f1, w, X, F, {f1}) /\ Leads(f1, w0, X, F, {f1})
    BY <1>3, <2>1, LeadsNowhere
  <2> HIDE DEF p, w, w0, t
  <2>3. Leads(e, RemoveBackups(d), X, F, {f1})
    BY <1>4, <1>5, <2>2, LeadsThen
  <2>4. ub # Partial
    BY <1>8, ContentsAssumption
  <2> QED BY <1>1, <1>3, <1>4, <1>8, <2>2, <2>3, <2>4 DEF p, t, w0
<1>9. CASE ub # Partial /\ ub # Absent
  <2> DEFINE f2 == [f1 EXCEPT !["update_backup"] = Partial]
             f3 == [f2 EXCEPT !["update_backup"] = Absent]
  <2>1. UpdateAt(f2, l, g, Absent, Partial, Absent, Absent, j)
    BY <1>1, UpdatePuts DEF Trees
  <2>2. f2 = [f1 EXCEPT !["update_backup"] = Partial]
    OBVIOUS
  <2> HIDE DEF f2
  <2>3. UpdateAt(f3, l, g, Absent, Absent, Absent, Absent, j)
    BY <2>1, UpdatePuts DEF Trees
  <2>4. f3 = [f2 EXCEPT !["update_backup"] = Absent]
    OBVIOUS
  <2> HIDE DEF f3
  <2>5. f2 \in X /\ f3 \in X
    BY <2>1, <2>3
  <2>6. Leads(f1, t, X, F, {f3})
    BY <1>3, <2>2, <2>4, <2>5, LeadsRemoveTree
  <2>7. Whole(d, "update_backup") /\ Exists(d, "update_backup")
    BY <1>9 DEF Whole, Exists, Trees
  <2>8. Leads(f1, c, X, F, {f1})
    BY <1>3, <2>7, LeadsCheck
  <2>9. w = c \o t /\ w0 = t
    BY <2>7 DEF When
  <2> HIDE DEF p, c, t, w, w0
  <2>10. Leads(f1, w, X, F, {f3})
    BY <2>6, <2>8, <2>9, LeadsThen
  <2>11. Leads(e, RemoveBackups(d), X, F, {f3})
    BY <1>4, <1>5, <2>10, LeadsThen
  <2>12. Leads(f1, w0, X, F, {f3})
    BY <2>6, <2>9
  <2> QED BY <1>3, <1>4, <1>9, <2>3, <2>11, <2>12 DEF p, t, w0
<1> QED BY <1>7, <1>8, <1>9

\* The journal says that the new files are installed.
LEMMA UpdateInstalledRecovers ==
  ASSUME NEW old \in Pairs, NEW new \in Pairs, NEW d \in Disks, Apart(d), UpdateInstalled(d, old, new)
  PROVE  Leads(d, UpdateRecoverInstalled(d) \o Remove("update_journal"),
               Recoverable(old, new), Updated(old, new), Cleaned(old, new))
<1> DEFINE X == Recoverable(old, new)
           F == Updated(old, new)
           l == new[1]
           g == new[2]
           lb == d["lock_backup"]
           ub == d["update_backup"]
           j == d["update_journal"]
           p1 == Check(Exists(d, "lock") /\ Whole(d, "generated"))
           p2 == Check(~Exists(d, "lock_staging") /\ ~Exists(d, "update_staging"))
           p3 == RemoveBackups(d)
           p4 == Remove("update_journal")
<1>1. /\ j \in UpdateJournals \ {Absent, Empty} /\ new = <<l, g>> /\ l \in Version /\ g \in Version
      /\ ub \in Trees
  <2>1. Journaled(d, "installed", old, new) /\ "installed" \in Phases /\ ub \in {Absent, Partial, old[2]}
    BY DEF UpdateInstalled, Phases
  <2>2. j \in UpdateJournals \ {Absent, Empty}
    BY <2>1, UpdateJournalsAre
  <2> QED BY <2>1, <2>2 DEF Journaled, Pairs, Trees, Contained
<1>2. UpdateAt(d, l, g, Absent, ub, Absent, lb, j) /\ d["update_backup"] = ub
  BY DEF UpdateAt, UpdateInstalled
<1>3. UpdateRecoverInstalled(d) = p1 \o p2 \o p3
  BY DEF UpdateRecoverInstalled
<1>4. \A f, s1, u1, q1, k1 : UpdateAt(f, l, g, s1, u1, q1, k1, j) => f \in X
  BY <1>1, IsRecoverable
<1>5. \A f : UpdateAt(f, l, g, Absent, Partial, Absent, Absent, j) => f \in F
  BY <1>1 DEF Updated, UpdateAt, UpdateInstalled, Journaled
<1>6. d \in X
  BY <1>2, <1>4
<1>7. Leads(d, p1, X, F, {d})
  <2>1. Exists(d, "lock") /\ Whole(d, "generated")
    BY <1>1, <1>2, ContentsAssumption DEF UpdateAt, Exists, Whole
  <2> QED BY <1>6, <2>1, LeadsCheck
<1>8. Leads(d, p2, X, F, {d})
  <2>1. ~Exists(d, "lock_staging") /\ ~Exists(d, "update_staging")
    BY <1>2 DEF UpdateAt, Exists
  <2> QED BY <1>6, <2>1, LeadsCheck
<1>9. IsPlan(p4)
  BY StepsArePlans
<1> HIDE DEF X, F, l, g, lb, ub, j
<1>10. /\ ub = Partial => Leads(d, p3, X, F, {})
       /\ ub # Partial => \E f : /\ UpdateAt(f, l, g, Absent, Absent, Absent, Absent, j)
                                 /\ Leads(d, p3, X, F, {f})
  <2>1. \A f, t, q : t \in {ub, Partial, Absent} /\ q \in {lb, Absent}
                       /\ UpdateAt(f, l, g, Absent, t, Absent, q, j) => f \in X
    BY <1>4
  <2>2. ub \in Trees
    BY <1>1
  <2> HIDE DEF p3
  <2> QED BY ONLY <1>2, <1>5, <2>1, <2>2, UpdateBackupsGo DEF p3
<1>11. CASE ub = Partial
  <2> HIDE DEF p1, p2, p3, p4
  <2>1. Leads(d, p1 \o p2, X, F, {d})
    BY <1>7, <1>8, LeadsThen
  <2>2. Leads(d, p1 \o p2 \o p3, X, F, {})
    BY <1>10, <1>11, <2>1, LeadsThen
  <2>3. Leads(d, (p1 \o p2 \o p3) \o p4, X, F, Cleaned(old, new))
    BY <1>9, <2>2, LeadsNoFurther
  <2> QED BY <1>3, <2>3 DEF X, F, p4
<1>12. CASE ub # Partial
  <2>1. PICK f : UpdateAt(f, l, g, Absent, Absent, Absent, Absent, j) /\ Leads(d, p3, X, F, {f})
    BY <1>10, <1>12
  <2>2. Leads(f, p4, X, F, Cleaned(<<l, g>>, <<l, g>>))
    <3>1. f \in X
      BY <1>4, <2>1
    <3>2. <<l, g>> \in {old, new} /\ (\A x : UpdateAt(x, l, g, Absent, Absent, Absent, Absent, Absent) => x \in X)
      BY <1>1, IsRecoverable DEF l, g, X
    <3> QED BY <2>1, <3>1, <3>2, UpdateConcludes
  <2>3. Leads(f, p4, X, F, Cleaned(old, new))
    BY <1>1, <2>2, CleanedOf, LeadsWithin
  <2> HIDE DEF p1, p2, p3, p4
  <2>4. Leads(d, p1 \o p2, X, F, {d})
    BY <1>7, <1>8, LeadsThen
  <2>5. Leads(d, p1 \o p2 \o p3, X, F, {f})
    BY <2>1, <2>4, LeadsThen
  <2>6. Leads(d, (p1 \o p2 \o p3) \o p4, X, F, Cleaned(old, new))
    BY <2>3, <2>5, LeadsThen
  <2> QED BY <1>3, <2>6 DEF X, F, p4
<1> QED BY <1>11, <1>12

\* Whatever the update left, its recovery puts in order or refuses.
LEMMA UpdateRecoversAll ==
  ASSUME NEW old \in Pairs, NEW new \in Pairs, NEW d \in Updated(old, new)
  PROVE  Leads(d, UpdateRecover(d), Recoverable(old, new), Updated(old, new), Cleaned(old, new))
<1>1. d \in Disks /\ Apart(d)
  BY DEF Updated
<1>2. CASE UpdateQuiet(d, old, new)
  <2>1. UpdateRecover(d) = UpdateRecoverWithoutJournal(d) \o Remove("update_journal")
    BY <1>2 DEF UpdateQuiet, UpdateRecover, Phase
  <2> QED BY <1>1, <1>2, <2>1, UpdateQuietRecovers
<1>3. CASE UpdatePrepared(d, old, new)
  <2>1. Phase(d, "update_journal") = "prepared"
    BY <1>3, UpdateJournalsAre DEF UpdatePrepared, Phases
  <2>2. UpdateRecover(d) = UpdateRecoverPrepared(d) \o Remove("update_journal")
    BY <2>1 DEF UpdateRecover
  <2> QED BY <1>1, <1>3, <2>2, UpdatePreparedRecovers
<1>4. CASE UpdateBackedUp(d, old, new)
  <2>1. Phase(d, "update_journal") = "backed_up"
    BY <1>4, UpdateJournalsAre DEF UpdateBackedUp, Phases
  <2>2. UpdateRecover(d) = UpdateRecoverBackedUp(d) \o Remove("update_journal")
    BY <2>1 DEF UpdateRecover
  <2> QED BY <1>1, <1>4, <2>2, UpdateBackedUpRecovers
<1>5. CASE UpdateInstalled(d, old, new)
  <2>1. Phase(d, "update_journal") = "installed"
    BY <1>5, UpdateJournalsAre DEF UpdateInstalled, Phases
  <2>2. UpdateRecover(d) = UpdateRecoverInstalled(d) \o Remove("update_journal")
    BY <2>1 DEF UpdateRecover
  <2> QED BY <1>1, <1>5, <2>2, UpdateInstalledRecovers
<1> QED BY <1>2, <1>3, <1>4, <1>5 DEF Updated

LEMMA LeadsRemoveNothing ==
  ASSUME NEW X, NEW F, NEW d \in X, d \in Disks, NEW p \in ProjectPath, d[p] = Absent
  PROVE  Leads(d, Remove(p), X, F, {d})
<1>1. d = [d EXCEPT ![p] = Absent]
  BY NothingGoes
<1> QED BY <1>1, LeadsPut DEF Remove

LEMMA CleanIsEmpty ==
  ASSUME NEW old, NEW new, NEW d \in Cleaned(old, new)
  PROVE  /\ d \in Disks /\ Contents(d) \in {old, new} /\ Alone(d) /\ Apart(d)
         /\ \A p \in GenerationPaths \cup UpdatePaths : d[p] = Absent
BY DEF Cleaned, Clean, Exists, Alone, Apart

\* The recovery of an update finds nothing to do.
LEMMA UpdateFindsClean ==
  ASSUME NEW old \in Pairs, NEW new \in Pairs, NEW d \in Cleaned(old, new), NEW F
  PROVE  Leads(d, UpdateRecover(d), Cleaned(old, new), F, Cleaned(old, new))
<1> DEFINE X == Cleaned(old, new)
           c == Check(~Exists(d, "lock_backup") /\ ~Exists(d, "update_backup"))
           p == Remove("lock_staging")
           w == When(Exists(d, "update_staging"),
                     Check(Whole(d, "update_staging")) \o RemoveTree("update_staging"))
           last == Remove("update_journal")
<1>1. /\ d \in Disks /\ {"lock_staging", "update_journal"} \subseteq ProjectPath
      /\ \A q \in {"lock_staging", "lock_backup", "update_staging", "update_backup", "update_journal"} :
            d[q] = Absent
  BY CleanIsEmpty, PathsAre
<1>2. UpdateRecover(d) = (c \o (p \o w)) \o last
  BY <1>1 DEF UpdateRecover, UpdateRecoverWithoutJournal, RemoveUpdateStaging, Phase
<1>3. Leads(d, c, X, F, {d})
  BY <1>1, LeadsCheck DEF Exists
<1>4. Leads(d, p, X, F, {d})
  BY <1>1, LeadsRemoveNothing
<1>5. Leads(d, w, X, F, {d})
  <2>1. w = <<>>
    BY <1>1 DEF When, Exists
  <2> QED BY <2>1, LeadsNowhere
<1>6. Leads(d, last, X, F, X)
  <2>1. Leads(d, last, X, F, {d})
    BY <1>1, LeadsRemoveNothing
  <2> QED BY <2>1, LeadsWithin
<1> HIDE DEF X, c, p, w, last
<1>7. Leads(d, p \o w, X, F, {d})
  BY <1>4, <1>5, LeadsThen
<1>8. Leads(d, c \o (p \o w), X, F, {d})
  BY <1>3, <1>7, LeadsThen
<1>9. Leads(d, (c \o (p \o w)) \o last, X, F, X)
  BY <1>6, <1>8, LeadsThen
<1> QED BY <1>2, <1>9 DEF X

\* The recovery of the tree leaves an unfinished update to that of the update.
LEMMA GenerationFindsUpdate ==
  ASSUME NEW old \in Pairs, NEW new \in Pairs, NEW d \in Updated(old, new), NEW F
  PROVE  Leads(d, Recover(d), Updated(old, new), F, Updated(old, new))
<1> DEFINE X == Updated(old, new)
           c == Check(~(Exists(d, "generated") /\ Exists(d, "staging") /\ Exists(d, "backup")))
           b == When(Exists(d, "backup"),
                     Check(Whole(d, "backup"))
                     \o IF Exists(d, "generated")
                        THEN Check(Whole(d, "generated")) \o RemoveTree("backup")
                        ELSE Move("backup", "generated"))
           w == When(Exists(d, "staging"), RemoveTree("staging"))
           last == Remove("journal")
<1>1. /\ d \in X /\ d \in Disks /\ d["journal"] = Absent /\ d["staging"] = Absent /\ d["backup"] = Absent
      /\ "journal" \in ProjectPath
  BY PathsAre DEF Updated, Apart
<1>2. Recover(d) = (c \o b \o w) \o last
  BY <1>1 DEF Recover, RecoverWithoutJournal, Phase
<1>3. Leads(d, c, X, F, {d})
  BY <1>1, LeadsCheck DEF Exists
<1>4. Leads(d, b, X, F, {d})
  <2>1. b = <<>>
    BY <1>1 DEF When, Exists
  <2> QED BY <1>1, <2>1, LeadsNowhere
<1>5. Leads(d, w, X, F, {d})
  <2>1. w = <<>>
    BY <1>1 DEF When, Exists
  <2> QED BY <1>1, <2>1, LeadsNowhere
<1>6. Leads(d, last, X, F, X)
  <2>1. Leads(d, last, X, F, {d})
    BY <1>1, LeadsRemoveNothing
  <2> QED BY <1>1, <2>1, LeadsWithin
<1> HIDE DEF X, c, b, w, last
<1>7. Leads(d, c \o b, X, F, {d})
  BY <1>3, <1>4, LeadsThen
<1>8. Leads(d, c \o b \o w, X, F, {d})
  BY <1>5, <1>7, LeadsThen
<1>9. Leads(d, (c \o b \o w) \o last, X, F, X)
  BY <1>6, <1>8, LeadsThen
<1> QED BY <1>2, <1>9 DEF X

\* Where an update has written its staging, and what stands while it does.
UpdateStaged(old, new) ==
  {d \in Disks : UpdateAt(d, old[1], old[2], new[2], Absent, new[1], Absent, Absent)}

UpdateStaging(old, new) ==
  {d \in Updated(old, new) :
     \E us \in {Absent, Partial, new[2]}, ls \in {Absent, new[1]} :
       UpdateAt(d, old[1], old[2], us, Absent, ls, Absent, Absent)}

LEMMA UpdateIsStaged ==
  ASSUME NEW old \in Pairs, NEW new \in Pairs, NEW d \in Cleaned(old, old), NEW F
  PROVE  Leads(d, WriteTree("update_staging", new[2]) \o Put("lock_staging", new[1]),
               UpdateStaging(old, new), F, UpdateStaged(old, new))
<1> DEFINE X == UpdateStaging(old, new)
           l == new[1]
           v == new[2]
           e == [d EXCEPT !["update_staging"] = Partial]
           f == [e EXCEPT !["update_staging"] = v]
           h == [f EXCEPT !["lock_staging"] = l]
           p1 == Put("update_staging", Partial)
           p2 == Put("update_staging", v)
           p3 == Put("lock_staging", l)
<1>1. old = <<old[1], old[2]>> /\ v \in Trees /\ l \in Trees
  BY DEF Pairs, Trees, Contained
<1>2. UpdateAt(d, old[1], old[2], Absent, Absent, Absent, Absent, Absent)
  BY <1>1, PathsAre DEF Cleaned, Clean, Exists, UpdateAt, Apart, Contents
<1>3. \A x, t, q : t \in {Absent, Partial, v} /\ q \in {Absent, l}
                     /\ UpdateAt(x, old[1], old[2], t, Absent, q, Absent, Absent) => x \in X
  BY <1>1 DEF UpdateStaging, Updated, UpdateAt, UpdateQuiet, Contents
<1>4. UpdateAt(e, old[1], old[2], Partial, Absent, Absent, Absent, Absent)
  BY <1>2, UpdatePuts DEF Trees
<1>5. e = [d EXCEPT !["update_staging"] = Partial]
  OBVIOUS
<1> HIDE DEF e
<1>6. UpdateAt(f, old[1], old[2], v, Absent, Absent, Absent, Absent)
  BY <1>1, <1>4, UpdatePuts
<1>7. f = [e EXCEPT !["update_staging"] = v]
  OBVIOUS
<1> HIDE DEF f
<1>8. UpdateAt(h, old[1], old[2], v, Absent, l, Absent, Absent)
  BY <1>1, <1>6, UpdatePuts
<1>9. h = [f EXCEPT !["lock_staging"] = l]
  OBVIOUS
<1> HIDE DEF h
<1>10. d \in X /\ e \in X /\ f \in X /\ h \in X
  BY <1>2, <1>3, <1>4, <1>6, <1>8
<1>11. h \in UpdateStaged(old, new)
  BY <1>8 DEF UpdateStaged, UpdateAt
<1> HIDE DEF X
<1>12. Leads(d, p1, X, F, {e})
  BY <1>5, <1>10, LeadsPut
<1>13. Leads(e, p2, X, F, {f})
  BY <1>7, <1>10, LeadsPut
<1>14. Leads(f, p3, X, F, {h})
  BY <1>9, <1>10, LeadsPut
<1>15. Leads(f, p3, X, F, UpdateStaged(old, new))
  BY <1>11, <1>14, LeadsWithin
<1>16. WriteTree("update_staging", new[2]) \o Put("lock_staging", new[1]) = (p1 \o p2) \o p3
  BY DEF WriteTree
<1> HIDE DEF p1, p2, p3
<1>17. Leads(d, p1 \o p2, X, F, {f})
  BY <1>12, <1>13, LeadsThen
<1>18. Leads(d, (p1 \o p2) \o p3, X, F, UpdateStaged(old, new))
  BY <1>15, <1>17, LeadsThen
<1> QED BY <1>16, <1>18 DEF X

\* An update that could not write its staging removes it.
LEMMA UpdateStagingIsDropped ==
  ASSUME NEW old \in Pairs, NEW new \in Pairs, NEW d \in UpdateStaging(old, new)
  PROVE  Leads(d, RemoveUpdateStaging(d), Recoverable(old, new), Updated(old, new), Cleaned(old, new))
<1> DEFINE X == Recoverable(old, new)
           F == Updated(old, new)
           a == old[1]
           b == old[2]
<1>1. PICK us \in {Absent, Partial, new[2]}, ls \in {Absent, new[1]} :
        UpdateAt(d, a, b, us, Absent, ls, Absent, Absent)
  BY DEF UpdateStaging
<1>2. us \in Trees /\ old = <<a, b>> /\ d["update_staging"] = us
  BY <1>1 DEF Pairs, Trees, Contained, UpdateAt
<1>3. \A f, t, q : t \in {us, Partial, Absent} /\ q \in {ls, Absent}
                     /\ UpdateAt(f, a, b, t, Absent, q, Absent, Absent) => f \in X
  BY <1>2, IsRecoverable
<1>4. \A f : UpdateAt(f, a, b, Partial, Absent, Absent, Absent, Absent) => f \in F
  BY <1>2 DEF Updated, UpdateAt, UpdateQuiet, Contents
<1>5. \A f : UpdateAt(f, a, b, Absent, Absent, Absent, Absent, Absent) => f \in Cleaned(old, new)
  BY <1>2, PathsAre DEF Cleaned, UpdateAt, Clean, Contents, Apart, Exists
<1> HIDE DEF X, F, a, b
<1>6. \/ Leads(d, RemoveUpdateStaging(d), X, F, {})
      \/ \E f : /\ UpdateAt(f, a, b, Absent, Absent, Absent, Absent, Absent)
                /\ Leads(d, RemoveUpdateStaging(d), X, F, {f})
  BY <1>1, <1>2, <1>3, <1>4, UpdateStagingGoes
<1>7. Leads(d, RemoveUpdateStaging(d), X, F, Cleaned(old, new))
  <2>1. CASE Leads(d, RemoveUpdateStaging(d), X, F, {})
    <3>1. {} \subseteq Cleaned(old, new)
      OBVIOUS
    <3> QED BY ONLY <2>1, <3>1, LeadsWithin
  <2>2. CASE \E f : /\ UpdateAt(f, a, b, Absent, Absent, Absent, Absent, Absent)
                    /\ Leads(d, RemoveUpdateStaging(d), X, F, {f})
    <3>1. PICK f : f \in Cleaned(old, new) /\ Leads(d, RemoveUpdateStaging(d), X, F, {f})
      BY <1>5, <2>2
    <3>2. {f} \subseteq Cleaned(old, new)
      BY <3>1
    <3> QED BY ONLY <3>1, <3>2, LeadsWithin
  <2> QED BY <1>6, <2>1, <2>2
<1> QED BY <1>7 DEF X, F

\* The old files are set aside.
LEMMA LockIsSetAside ==
  ASSUME NEW d, NEW e, NEW l, NEW g, NEW us, NEW ub, NEW ls, NEW j, NEW X, NEW F,
         UpdateAt(e, l, g, us, ub, ls, Absent, j), d["lock"] = l, e \in X,
         \A f : UpdateAt(f, Absent, g, us, ub, ls, l, j) => f \in X
  PROVE  \E f : /\ UpdateAt(f, Absent, g, us, ub, ls, l, j) /\ f \in X
                /\ Leads(e, When(Exists(d, "lock"), Move("lock", "lock_backup")), X, F, {f})
<1>1. CASE l = Absent
  <2>1. When(Exists(d, "lock"), Move("lock", "lock_backup")) = <<>>
    BY <1>1 DEF When, Exists
  <2>2. Leads(e, <<>>, X, F, {e})
    BY LeadsNowhere
  <2> QED BY <1>1, <2>1, <2>2
<1>2. CASE l # Absent
  <2> DEFINE f == [e EXCEPT !["lock_backup"] = e["lock"], !["lock"] = Absent]
             m == Move("lock", "lock_backup")
  <2>1. UpdateAt(f, Absent, g, us, ub, ls, l, j)
    BY UpdateMoves
  <2>2. f = [e EXCEPT !["lock_backup"] = e["lock"], !["lock"] = Absent]
    OBVIOUS
  <2> HIDE DEF f
  <2>3. f \in X
    BY <2>1
  <2>4. Leads(e, m, X, F, {f})
    BY <2>2, <2>3, LeadsMove
  <2>5. When(Exists(d, "lock"), m) = m
    BY <1>2 DEF When, Exists
  <2> QED BY <2>1, <2>3, <2>4, <2>5
<1> QED BY <1>1, <1>2

LEMMA TreeIsSetAside ==
  ASSUME NEW d, NEW e, NEW l, NEW g, NEW us, NEW ls, NEW lb, NEW j, NEW X, NEW F,
         UpdateAt(e, l, g, us, Absent, ls, lb, j), d["generated"] = g, e \in X,
         \A f : UpdateAt(f, l, Absent, us, g, ls, lb, j) => f \in X
  PROVE  \E f : /\ UpdateAt(f, l, Absent, us, g, ls, lb, j) /\ f \in X
                /\ Leads(e, When(Exists(d, "generated"), Move("generated", "update_backup")), X, F, {f})
<1>1. CASE g = Absent
  <2>1. When(Exists(d, "generated"), Move("generated", "update_backup")) = <<>>
    BY <1>1 DEF When, Exists
  <2>2. Leads(e, <<>>, X, F, {e})
    BY LeadsNowhere
  <2> QED BY <1>1, <2>1, <2>2
<1>2. CASE g # Absent
  <2> DEFINE f == [e EXCEPT !["update_backup"] = e["generated"], !["generated"] = Absent]
             m == Move("generated", "update_backup")
  <2>1. UpdateAt(f, l, Absent, us, g, ls, lb, j)
    BY UpdateMoves
  <2>2. f = [e EXCEPT !["update_backup"] = e["generated"], !["generated"] = Absent]
    OBVIOUS
  <2> HIDE DEF f
  <2>3. f \in X
    BY <2>1
  <2>4. Leads(e, m, X, F, {f})
    BY <2>2, <2>3, LeadsMove
  <2>5. When(Exists(d, "generated"), m) = m
    BY <1>2 DEF When, Exists
  <2> QED BY <2>1, <2>3, <2>4, <2>5
<1> QED BY <1>1, <1>2

\* The swap: the old files are set aside, the new ones take their place.
LEMMA FilesSwap ==
  ASSUME NEW old \in Pairs, NEW new \in Pairs, new[1] \in Version, new[2] \in Version,
         NEW d \in UpdateStaged(old, new), NEW F
  PROVE  Leads(d, UpdateSwap(d), Updated(old, new), F, Cleaned(new, new))
<1> DEFINE X == Updated(old, new)
           a == old[1]
           b == old[2]
           l == new[1]
           v == new[2]
           r1 == UpdateRecord(d, "prepared")
           r2 == UpdateRecord(d, "backed_up")
           r3 == UpdateRecord(d, "installed")
           e1 == [d EXCEPT !["update_journal"] = Empty]
           e2 == [e1 EXCEPT !["update_journal"] = r1]
<1>1. /\ UpdateAt(d, a, b, v, Absent, l, Absent, Absent)
      /\ a \in Contained /\ b \in Contained /\ l \in Version /\ v \in Version
      /\ old = <<a, b>> /\ new = <<l, v>>
  BY DEF UpdateStaged, Pairs
<1>2. d["lock"] = a /\ d["generated"] = b
  BY <1>1 DEF UpdateAt
<1>3. {r1, r2, r3, Empty, Absent} \subseteq UpdateJournals
  <2>1. \A phase \in Phases, hadLock, hadTree \in BOOLEAN :
          [phase |-> phase, hadLock |-> hadLock, hadTree |-> hadTree] \in UpdateJournals
    BY DEF UpdateJournals
  <2>2. Exists(d, "lock") \in BOOLEAN /\ Exists(d, "generated") \in BOOLEAN
    BY DEF Exists
  <2>3. "prepared" \in Phases /\ "backed_up" \in Phases /\ "installed" \in Phases
    BY DEF Phases
  <2>4. \A phase \in Phases : UpdateRecord(d, phase) \in UpdateJournals
    BY <2>1, <2>2 DEF UpdateRecord
  <2> QED BY <2>3, <2>4, UpdateJournalsAre
<1>4. /\ r1 = [phase |-> "prepared", hadLock |-> a # Absent, hadTree |-> b # Absent]
      /\ r2 = [phase |-> "backed_up", hadLock |-> a # Absent, hadTree |-> b # Absent]
      /\ r3 = [phase |-> "installed", hadLock |-> a # Absent, hadTree |-> b # Absent]
  BY <1>2 DEF UpdateRecord, Exists
<1>5. /\ \A f : UpdateAt(f, a, b, v, Absent, l, Absent, Absent) => f \in X
      /\ \A f : UpdateAt(f, a, b, v, Absent, l, Absent, Empty) => f \in X
      /\ \A f : UpdateAt(f, l, v, Absent, Absent, Absent, Absent, Absent) => f \in X
  BY <1>1 DEF Updated, UpdateAt, UpdateQuiet, Contents
<1>6. /\ \A f : UpdateAt(f, a, b, v, Absent, l, Absent, r1) => f \in X
      /\ \A f : UpdateAt(f, Absent, b, v, Absent, l, a, r1) => f \in X
      /\ \A f : UpdateAt(f, Absent, Absent, v, b, l, a, r1) => f \in X
  BY <1>1, <1>4 DEF Updated, UpdateAt, UpdatePrepared, Journaled
<1>7. /\ \A f : UpdateAt(f, Absent, Absent, v, b, l, a, r2) => f \in X
      /\ \A f : UpdateAt(f, l, Absent, v, b, Absent, a, r2) => f \in X
      /\ \A f : UpdateAt(f, l, v, Absent, b, Absent, a, r2) => f \in X
  BY <1>1, <1>4 DEF Updated, UpdateAt, UpdateBackedUp, Journaled
<1>8. \A f, t, q : t \in {b, Partial, Absent} /\ q \in {a, Absent}
                     /\ UpdateAt(f, l, v, Absent, t, Absent, q, r3) => f \in X
  BY <1>1, <1>4 DEF Updated, UpdateAt, UpdateInstalled, Journaled
<1>9. b \in Trees /\ b # Partial
  BY <1>1, ContentsAssumption DEF Trees, Contained
<1> DEFINE p1 == Put("update_journal", Empty)
           p2 == Put("update_journal", r1)
           p3 == When(Exists(d, "lock"), Move("lock", "lock_backup"))
           p4 == When(Exists(d, "generated"), Move("generated", "update_backup"))
           p5 == Put("update_journal", r2)
           p6 == Move("lock_staging", "lock")
           p7 == Move("update_staging", "generated")
           p8 == Put("update_journal", r3)
           p9 == Remove("lock_backup")
           p10 == When(Exists(d, "generated"), RemoveTree("update_backup"))
           p11 == Remove("update_journal")
<1>10. UpdateSwap(d) = (p1 \o p2) \o p3 \o p4 \o p5 \o p6 \o p7 \o p8 \o p9 \o p10 \o p11
  BY DEF UpdateSwap, StartJournal
<1> HIDE DEF X, a, b, l, v, r1, r2, r3
<1>11. UpdateAt(e1, a, b, v, Absent, l, Absent, Empty)
  BY <1>1, <1>3, UpdatePuts
<1>12. e1 = [d EXCEPT !["update_journal"] = Empty]
  OBVIOUS
<1> HIDE DEF e1
<1>13. UpdateAt(e2, a, b, v, Absent, l, Absent, r1)
  BY <1>3, <1>11, UpdatePuts
<1>14. e2 = [e1 EXCEPT !["update_journal"] = r1]
  OBVIOUS
<1> HIDE DEF e2
<1>15. d \in X /\ e1 \in X /\ e2 \in X
  BY <1>1, <1>5, <1>6, <1>11, <1>13
<1>16. Leads(d, p1, X, F, {e1}) /\ Leads(e1, p2, X, F, {e2})
  BY <1>12, <1>14, <1>15, LeadsPut
<1>17. PICK e3 : /\ UpdateAt(e3, Absent, b, v, Absent, l, a, r1) /\ e3 \in X
                 /\ Leads(e2, p3, X, F, {e3})
  <2> HIDE DEF p3
  <2> QED BY ONLY <1>2, <1>6, <1>13, <1>15, LockIsSetAside DEF p3
<1>18. PICK e4 : /\ UpdateAt(e4, Absent, Absent, v, b, l, a, r1) /\ e4 \in X
                 /\ Leads(e3, p4, X, F, {e4})
  <2> HIDE DEF p4
  <2> QED BY ONLY <1>2, <1>6, <1>17, TreeIsSetAside DEF p4
<1> DEFINE e5 == [e4 EXCEPT !["update_journal"] = r2]
           e6 == [e5 EXCEPT !["lock"] = e5["lock_staging"], !["lock_staging"] = Absent]
           e7 == [e6 EXCEPT !["generated"] = e6["update_staging"], !["update_staging"] = Absent]
           e8 == [e7 EXCEPT !["update_journal"] = r3]
<1>19. UpdateAt(e5, Absent, Absent, v, b, l, a, r2)
  BY <1>3, <1>18, UpdatePuts
<1>20. e5 = [e4 EXCEPT !["update_journal"] = r2]
  OBVIOUS
<1> HIDE DEF e5
<1>21. UpdateAt(e6, l, Absent, v, b, Absent, a, r2)
  BY <1>19, UpdateMoves
<1>22. e6 = [e5 EXCEPT !["lock"] = e5["lock_staging"], !["lock_staging"] = Absent]
  OBVIOUS
<1> HIDE DEF e6
<1>23. UpdateAt(e7, l, v, Absent, b, Absent, a, r2)
  BY <1>21, UpdateMoves
<1>24. e7 = [e6 EXCEPT !["generated"] = e6["update_staging"], !["update_staging"] = Absent]
  OBVIOUS
<1> HIDE DEF e7
<1>25. UpdateAt(e8, l, v, Absent, b, Absent, a, r3)
  BY <1>3, <1>23, UpdatePuts
<1>26. e8 = [e7 EXCEPT !["update_journal"] = r3]
  OBVIOUS
<1> HIDE DEF e8
<1>27. e5 \in X /\ e6 \in X /\ e7 \in X /\ e8 \in X
  BY <1>7, <1>8, <1>19, <1>21, <1>23, <1>25
<1>28. Leads(e4, p5, X, F, {e5})
  BY <1>18, <1>20, <1>27, LeadsPut
<1>29. Leads(e5, p6, X, F, {e6})
  BY <1>22, <1>27, LeadsMove
<1>30. Leads(e6, p7, X, F, {e7})
  BY <1>24, <1>27, LeadsMove
<1>31. Leads(e7, p8, X, F, {e8})
  BY <1>26, <1>27, LeadsPut
<1>32. PICK e9, f : /\ e9 \in X /\ Leads(e8, p9, X, F, {e9})
                    /\ UpdateAt(f, l, v, Absent, Absent, Absent, Absent, r3)
                    /\ Leads(e9, p10, X, F, {f})
  <2>1. e8["update_backup"] = b
    BY <1>25 DEF UpdateAt
  <2>2. PICK e9, f : /\ e9 \in X /\ Leads(e8, Remove("lock_backup"), X, F, {e9})
                     /\ UpdateAt(f, l, v, Absent, Absent, Absent, Absent, r3)
                     /\ Leads(e9, When(Exists(e8, "update_backup"), RemoveTree("update_backup")), X, F, {f})
    BY ONLY <1>8, <1>9, <1>25, <2>1, UpdateBackupsGo
  <2>3. Exists(e8, "update_backup") <=> Exists(d, "generated")
    BY <1>2, <2>1 DEF Exists
  <2>4. When(Exists(e8, "update_backup"), RemoveTree("update_backup")) = p10
    BY <2>3 DEF When
  <2> HIDE DEF p10
  <2> QED BY <2>2, <2>4
<1>33. Leads(f, p11, X, F, Cleaned(new, new))
  <2>1. f \in X /\ <<l, v>> = new
    BY <1>1, <1>8, <1>32
  <2>2. Leads(f, p11, X, F, Cleaned(<<l, v>>, <<l, v>>))
    BY <1>5, <1>32, <2>1, UpdateConcludes
  <2> QED BY <2>1, <2>2
<1> HIDE DEF p1, p2, p3, p4, p5, p6, p7, p8, p9, p10, p11
<1>34. Leads(d, p1 \o p2, X, F, {e2})
  BY <1>16, LeadsThen
<1>35. Leads(d, (p1 \o p2) \o p3, X, F, {e3})
  BY <1>17, <1>34, LeadsThen
<1>36. Leads(d, (p1 \o p2) \o p3 \o p4, X, F, {e4})
  BY <1>18, <1>35, LeadsThen
<1>37. Leads(d, (p1 \o p2) \o p3 \o p4 \o p5, X, F, {e5})
  BY <1>28, <1>36, LeadsThen
<1>38. Leads(d, (p1 \o p2) \o p3 \o p4 \o p5 \o p6, X, F, {e6})
  BY <1>29, <1>37, LeadsThen
<1>39. Leads(d, (p1 \o p2) \o p3 \o p4 \o p5 \o p6 \o p7, X, F, {e7})
  BY <1>30, <1>38, LeadsThen
<1>40. Leads(d, (p1 \o p2) \o p3 \o p4 \o p5 \o p6 \o p7 \o p8, X, F, {e8})
  BY <1>31, <1>39, LeadsThen
<1>41. Leads(d, (p1 \o p2) \o p3 \o p4 \o p5 \o p6 \o p7 \o p8 \o p9, X, F, {e9})
  BY <1>32, <1>40, LeadsThen
<1>42. Leads(d, (p1 \o p2) \o p3 \o p4 \o p5 \o p6 \o p7 \o p8 \o p9 \o p10, X, F, {f})
  BY <1>32, <1>41, LeadsThen
<1>43. Leads(d, (p1 \o p2) \o p3 \o p4 \o p5 \o p6 \o p7 \o p8 \o p9 \o p10 \o p11, X, F, Cleaned(new, new))
  BY <1>33, <1>42, LeadsThen
<1> QED BY <1>10, <1>43 DEF X

-----------------------------------------------------------------------------
(* What stands on the disk while nobody is at work, and what the plan of the *)
(* process at work leads to. An update was interrupted (f) at most once.     *)

LeftOver(d, old, new, f) ==
  d \in Generated(old, new) \/ (f = 1 /\ d \in Updated(old, new))

Generating(s, d, q, old, new) ==
  \/ s \in {"recover", "undo"} /\ Leads(d, q, Generated(old, new), Generated(old, new), Cleaned(old, new))
  \/ s = "ready" /\ q = <<>> /\ d \in Cleaned(old, new)
  \/ /\ s = "stage" /\ old[1] = new[1] /\ new[2] \in Version
     /\ Leads(d, q, TreeStaging(old, new), {}, TreeStaged(old, new))
  \/ s = "swap" /\ Leads(d, q, Generated(old, new), Generated(old, new), Cleaned(new, new))
  \/ s = "cleanup" /\ Leads(d, q, Generated(old, new), {}, Cleaned(old, new))

\* Recovering what an interrupted update left.
Mending(d, q, old, new, f) ==
  f = 1 /\ Leads(d, q, Recoverable(old, new), Updated(old, new), Cleaned(old, new))

Updating(s, d, q, old, new, f) ==
  \/ /\ s = "recover"
     /\ \/ Leads(d, q, Generated(old, new), Generated(old, new), Cleaned(old, new))
        \/ f = 1 /\ Leads(d, q, Updated(old, new), {}, Updated(old, new))
  \/ /\ s = "recover_update"
     /\ Leads(d, q, Cleaned(old, new), {}, Cleaned(old, new)) \/ Mending(d, q, old, new, f)
  \/ s = "ready" /\ q = <<>> /\ d \in Cleaned(old, new)
  \/ /\ s = "stage" /\ new[1] \in Version /\ new[2] \in Version
     /\ Leads(d, q, UpdateStaging(old, new), {}, UpdateStaged(old, new))
  \/ s = "swap" /\ Leads(d, q, Updated(old, new), {}, Cleaned(new, new))
  \/ s \in {"undo", "cleanup"} /\ Mending(d, q, old, new, f)

\* What a project must have kept.
Kept(d, old, new) ==
  /\ Clean(d) => Contents(d) \in {old, new}
  /\ \E pair \in {old, new} :
       /\ pair[1] # Absent => \E p \in {"lock", "lock_backup", "lock_staging"} : d[p] = pair[1]
       /\ pair[2] # Absent =>
            \E p \in {"generated", "backup", "staging", "update_backup", "update_staging"} : d[p] = pair[2]

LEMMA CleanedIsGenerated ==
  ASSUME NEW old \in Pairs, NEW new \in Pairs
  PROVE  Cleaned(old, new) \subseteq Generated(old, new) /\ TreeStaging(old, new) \subseteq Generated(old, new)
         /\ UpdateStaging(old, new) \subseteq Updated(old, new)
<1>1. ASSUME NEW d \in Cleaned(old, new) PROVE d \in Generated(old, new)
  <2>1. d \in Disks /\ Contents(d) \in {old, new} /\ Alone(d)
        /\ d["journal"] = Absent /\ d["backup"] = Absent /\ d["staging"] = Absent
    BY CleanIsEmpty, PathsAre
  <2> QED BY <2>1 DEF Generated, Quiet
<1> QED BY <1>1 DEF TreeStaging, UpdateStaging

LEMMA GeneratedIsKept ==
  ASSUME NEW old \in Pairs, NEW new \in Pairs, NEW d \in Generated(old, new)
  PROVE  Kept(d, old, new)
<1>1. old = <<old[1], old[2]>> /\ new = <<new[1], new[2]>>
  BY DEF Pairs
<1>2. Clean(d) => d["journal"] = Absent
  BY PathsAre DEF Clean, Exists
<1>3. \A phase \in Phases : Record(phase) # Absent
  BY JournalsAre
<1>4. CASE Quiet(d, old, new)
  <2>1. PICK pair \in {old, new} : d["lock"] = pair[1] /\ d["generated"] = pair[2]
    BY <1>1, <1>4 DEF Quiet, Contents
  <2> QED BY <1>4, <2>1 DEF Kept, Quiet
<1>5. CASE TreePrepared(d, old, new)
  <2>1. ~Clean(d)
    BY <1>2, <1>3, <1>5 DEF TreePrepared, Phases
  <2>2. d["lock"] = old[1] /\ (d["generated"] = old[2] \/ d["backup"] = old[2])
    BY <1>5 DEF TreePrepared, Installing
  <2> QED BY <2>1, <2>2 DEF Kept
<1>6. CASE TreeBackedUp(d, old, new)
  <2>1. ~Clean(d)
    BY <1>2, <1>3, <1>6 DEF TreeBackedUp, Phases
  <2>2. PICK pair \in {old, new} : d["lock"] = pair[1] /\ (d["generated"] = pair[2] \/ d["backup"] = pair[2])
    BY <1>6 DEF TreeBackedUp, Installing
  <2> QED BY <2>1, <2>2 DEF Kept
<1>7. CASE TreeInstalled(d, old, new)
  <2>1. ~Clean(d)
    BY <1>2, <1>3, <1>7 DEF TreeInstalled, Phases
  <2>2. d["lock"] = new[1] /\ d["generated"] = new[2]
    BY <1>7 DEF TreeInstalled, Installing
  <2> QED BY <2>1, <2>2 DEF Kept
<1> QED BY <1>4, <1>5, <1>6, <1>7 DEF Generated

LEMMA UpdatedIsKept ==
  ASSUME NEW old \in Pairs, NEW new \in Pairs, NEW d \in Updated(old, new)
  PROVE  Kept(d, old, new)
<1>1. old = <<old[1], old[2]>> /\ new = <<new[1], new[2]>>
  BY DEF Pairs
<1>2. Clean(d) => d["update_journal"] = Absent
  BY PathsAre DEF Clean, Exists
<1>3. \A phase \in Phases : Journaled(d, phase, old, new) => d["update_journal"] # Absent
  BY UpdateJournalsAre
<1>4. CASE UpdateQuiet(d, old, new)
  <2>1. PICK pair \in {old, new} : d["lock"] = pair[1] /\ d["generated"] = pair[2]
    BY <1>1, <1>4 DEF UpdateQuiet, Contents
  <2> QED BY <1>4, <2>1 DEF Kept, UpdateQuiet
<1>5. CASE UpdatePrepared(d, old, new)
  <2>1. ~Clean(d)
    BY <1>2, <1>3, <1>5 DEF UpdatePrepared, Phases
  <2>2. /\ d["lock"] = old[1] \/ d["lock_backup"] = old[1]
        /\ d["generated"] = old[2] \/ d["update_backup"] = old[2]
    BY <1>5 DEF UpdatePrepared
  <2> QED BY <2>1, <2>2 DEF Kept
<1>6. CASE UpdateBackedUp(d, old, new)
  <2>1. ~Clean(d)
    BY <1>2, <1>3, <1>6 DEF UpdateBackedUp, Phases
  <2>2. d["lock_backup"] = old[1] /\ d["update_backup"] = old[2]
    BY <1>6 DEF UpdateBackedUp
  <2> QED BY <2>1, <2>2 DEF Kept
<1>7. CASE UpdateInstalled(d, old, new)
  <2>1. ~Clean(d)
    BY <1>2, <1>3, <1>7 DEF UpdateInstalled, Phases
  <2>2. d["lock"] = new[1] /\ d["generated"] = new[2]
    BY <1>7 DEF UpdateInstalled
  <2> QED BY <2>1, <2>2 DEF Kept
<1> QED BY <1>4, <1>5, <1>6, <1>7 DEF Updated

LEMMA RecoverableIsKept ==
  ASSUME NEW old \in Pairs, NEW new \in Pairs, NEW d \in Recoverable(old, new)
  PROVE  Kept(d, old, new)
<1>1. Clean(d) => Contents(d) \in {old, new}
  BY DEF Recoverable
<1>2. CASE /\ old[1] # Absent => old[1] \in {d["lock"], d["lock_backup"]}
           /\ old[2] # Absent => old[2] \in {d["generated"], d["update_backup"]}
  BY <1>1, <1>2 DEF Kept
<1>3. CASE d["lock"] = new[1] /\ d["generated"] = new[2]
  BY <1>1, <1>3 DEF Kept
<1> QED BY <1>2, <1>3 DEF Recoverable

\* Whatever stands, it is kept.
LEMMA LeftOverIsKept ==
  ASSUME NEW old \in Pairs, NEW new \in Pairs, NEW d, NEW f, LeftOver(d, old, new, f)
  PROVE  Kept(d, old, new)
BY GeneratedIsKept, UpdatedIsKept DEF LeftOver

LEMMA GeneratingIsGenerated ==
  ASSUME NEW old \in Pairs, NEW new \in Pairs, NEW s, NEW d, NEW q, Generating(s, d, q, old, new)
  PROVE  d \in Generated(old, new)
<1>1. ASSUME NEW X, NEW F, NEW E, Leads(d, q, X, F, E) PROVE d \in X
  BY <1>1, LeadsOn
<1> QED BY <1>1, CleanedIsGenerated DEF Generating

LEMMA UpdatingIsKept ==
  ASSUME NEW old \in Pairs, NEW new \in Pairs, NEW s, NEW d, NEW q, NEW f, Updating(s, d, q, old, new, f)
  PROVE  Kept(d, old, new)
<1>1. ASSUME NEW X, NEW F, NEW E, Leads(d, q, X, F, E) PROVE d \in X
  BY <1>1, LeadsOn
<1>2. d \in Generated(old, new) \cup Updated(old, new) \cup Recoverable(old, new)
  BY <1>1, CleanedIsGenerated DEF Updating, Mending
<1> QED BY <1>2, GeneratedIsKept, UpdatedIsKept, RecoverableIsKept

\* An interruption leaves the update as it stands.
LEMMA InterruptedIsLeftOver ==
  ASSUME NEW old \in Pairs, NEW new \in Pairs, NEW s, NEW d, NEW q, Updating(s, d, q, old, new, 0)
  PROVE  LeftOver(d, old, new, 1)
<1>1. ASSUME NEW X, NEW F, NEW E, Leads(d, q, X, F, E) PROVE d \in X
  BY <1>1, LeadsOn
<1>2. d \in Generated(old, new) \cup Updated(old, new)
  BY <1>1, CleanedIsGenerated DEF Updating, Mending
<1> QED BY <1>2 DEF LeftOver

-----------------------------------------------------------------------------
(* From one plan to the next.                                                *)

LEMMA GenerationStarts ==
  ASSUME NEW old \in Pairs, NEW new \in Pairs, NEW d, NEW f, LeftOver(d, old, new, f), ~UpdateState(d)
  PROVE  Generating("recover", d, Recover(d), old, new)
<1>1. d \in Generated(old, new)
  <2>1. CASE d \in Updated(old, new)
    <3>1. d \in Disks /\ Apart(d) /\ Alone(d) /\ d["update_journal"] = Absent
      BY <2>1, PathsAre DEF Updated, UpdateState, Exists, Alone
    <3>2. \A phase \in Phases : ~Journaled(d, phase, old, new)
      BY <3>1, UpdateJournalsAre
    <3>3. Contents(d) \in {old, new}
      BY <2>1, <3>2 DEF Updated, UpdateQuiet, UpdatePrepared, UpdateBackedUp, UpdateInstalled, Phases
    <3>4. d["journal"] = Absent /\ d["staging"] = Absent /\ d["backup"] = Absent
      BY <3>1, PathsAre DEF Apart
    <3> QED BY <3>1, <3>3, <3>4 DEF Generated, Quiet
  <2> QED BY <2>1 DEF LeftOver
<1> QED BY <1>1, GenerationRecovers DEF Generating

LEMMA UpdateStarts ==
  ASSUME NEW old \in Pairs, NEW new \in Pairs, NEW d, NEW f, LeftOver(d, old, new, f)
  PROVE  Updating("recover", d, Recover(d), old, new, f)
<1>1. CASE d \in Generated(old, new)
  BY <1>1, GenerationRecovers DEF Updating
<1>2. CASE f = 1 /\ d \in Updated(old, new)
  BY <1>2, GenerationFindsUpdate DEF Updating
<1> QED BY <1>1, <1>2 DEF LeftOver

\* A step of the plan.
LEMMA GeneratingStep ==
  ASSUME NEW old, NEW new, NEW s, NEW d, NEW q, Generating(s, d, q, old, new), q # <<>>, ~Failing(q)
  PROVE  Generating(s, Execute(d, Head(q)), Tail(q), old, new)
<1>1. ASSUME NEW X, NEW F, NEW E, Leads(d, q, X, F, E) PROVE Leads(Execute(d, Head(q)), Tail(q), X, F, E)
  BY <1>1, LeadsOn
<1> QED BY <1>1 DEF Generating

LEMMA UpdatingStep ==
  ASSUME NEW old, NEW new, NEW s, NEW d, NEW q, NEW f, Updating(s, d, q, old, new, f), q # <<>>, ~Failing(q)
  PROVE  Updating(s, Execute(d, Head(q)), Tail(q), old, new, f)
<1>1. ASSUME NEW X, NEW F, NEW E, Leads(d, q, X, F, E) PROVE Leads(Execute(d, Head(q)), Tail(q), X, F, E)
  BY <1>1, LeadsOn
<1> QED BY <1>1 DEF Updating, Mending

\* The end of a plan.
LEMMA GeneratingEnds ==
  ASSUME NEW old \in Pairs, NEW new \in Pairs, NEW s, NEW d, Generating(s, d, <<>>, old, new)
  PROVE  /\ s \in {"recover", "ready", "undo", "cleanup"} => d \in Cleaned(old, new)
         /\ s = "stage" => Generating("swap", d, Swap(d), old, new)
         /\ s = "swap" => d \in Cleaned(new, new)
<1> DEFINE nothing == <<>>
<1>1. nothing = <<>> /\ Generating(s, d, nothing, old, new)
  OBVIOUS
<1> HIDE DEF nothing
<1>2. ASSUME NEW X, NEW F, NEW E, Leads(d, nothing, X, F, E) PROVE d \in E
  BY <1>1, <1>2, LeadsOn
<1>3. s \in {"recover", "ready", "undo", "cleanup"} => d \in Cleaned(old, new)
  BY <1>1, <1>2 DEF Generating
<1>4. s = "stage" => Generating("swap", d, Swap(d), old, new)
  <2>1. s = "stage" => old[1] = new[1] /\ new[2] \in Version /\ d \in TreeStaged(old, new)
    BY <1>1, <1>2 DEF Generating
  <2> QED BY <2>1, TreesSwap DEF Generating
<1>5. s = "swap" => d \in Cleaned(new, new)
  BY <1>1, <1>2 DEF Generating
<1> QED BY <1>3, <1>4, <1>5

LEMMA UpdatingEnds ==
  ASSUME NEW old \in Pairs, NEW new \in Pairs, NEW s, NEW d, NEW f, Updating(s, d, <<>>, old, new, f)
  PROVE  /\ s = "recover" => Updating("recover_update", d, UpdateRecover(d), old, new, f)
         /\ s \in {"recover_update", "ready", "undo", "cleanup"} => d \in Cleaned(old, new)
         /\ s = "stage" => Updating("swap", d, UpdateSwap(d), old, new, f)
         /\ s = "swap" => d \in Cleaned(new, new)
<1> DEFINE nothing == <<>>
<1>1. nothing = <<>> /\ Updating(s, d, nothing, old, new, f)
  OBVIOUS
<1> HIDE DEF nothing
<1>2. ASSUME NEW X, NEW F, NEW E, Leads(d, nothing, X, F, E) PROVE d \in E
  BY <1>1, <1>2, LeadsOn
<1>3. s = "recover" => Updating("recover_update", d, UpdateRecover(d), old, new, f)
  <2>1. s = "recover" => d \in Cleaned(old, new) \/ (f = 1 /\ d \in Updated(old, new))
    BY <1>1, <1>2 DEF Updating
  <2>2. d \in Cleaned(old, new) => Leads(d, UpdateRecover(d), Cleaned(old, new), {}, Cleaned(old, new))
    BY UpdateFindsClean
  <2>3. f = 1 /\ d \in Updated(old, new) => Mending(d, UpdateRecover(d), old, new, f)
    BY UpdateRecoversAll DEF Mending
  <2> QED BY <2>1, <2>2, <2>3 DEF Updating
<1>4. s \in {"recover_update", "ready", "undo", "cleanup"} => d \in Cleaned(old, new)
  BY <1>1, <1>2 DEF Updating, Mending
<1>5. s = "stage" => Updating("swap", d, UpdateSwap(d), old, new, f)
  <2>1. s = "stage" => new[1] \in Version /\ new[2] \in Version /\ d \in UpdateStaged(old, new)
    BY <1>1, <1>2 DEF Updating
  <2> QED BY <2>1, FilesSwap DEF Updating
<1>6. s = "swap" => d \in Cleaned(new, new)
  BY <1>1, <1>2 DEF Updating
<1> QED BY <1>3, <1>4, <1>5, <1>6

\* A new replacement begins.
LEMMA CommitStages ==
  ASSUME NEW old \in Pairs, NEW new \in Pairs, NEW d \in Cleaned(old, new), NEW v \in Version, NEW f,
         NEW pair, pair = Contents(d)
  PROVE  /\ pair \in Pairs /\ <<d["lock"], v>> \in Pairs /\ <<v, v>> \in Pairs
         /\ Generating("stage", d, WriteTree("staging", v), pair, <<d["lock"], v>>)
         /\ Updating("stage", d, WriteTree("update_staging", v) \o Put("lock_staging", v), pair, <<v, v>>, f)
<1>1. pair \in Pairs /\ pair = <<d["lock"], d["generated"]>> /\ pair[1] = d["lock"]
  BY DEF Cleaned, Contents
<1>2. d["lock"] \in Contained /\ v \in Contained
  BY <1>1 DEF Pairs, Contained
<1> DEFINE one == <<d["lock"], v>>
           two == <<v, v>>
<1>3. one \in Pairs /\ two \in Pairs /\ one[1] = pair[1] /\ one[2] = v /\ two[1] = v /\ two[2] = v
  BY <1>1, <1>2 DEF Pairs
<1> HIDE DEF one, two
<1>4. d \in Cleaned(pair, pair)
  BY DEF Cleaned
<1>5. Leads(d, WriteTree("staging", one[2]), TreeStaging(pair, one), {}, TreeStaged(pair, one))
  BY <1>1, <1>3, <1>4, TreeIsStaged
<1>6. Generating("stage", d, WriteTree("staging", v), pair, one)
  BY <1>3, <1>5 DEF Generating
<1>7. Leads(d, WriteTree("update_staging", two[2]) \o Put("lock_staging", two[1]),
            UpdateStaging(pair, two), {}, UpdateStaged(pair, two))
  BY <1>1, <1>3, <1>4, UpdateIsStaged
<1>8. Updating("stage", d, WriteTree("update_staging", v) \o Put("lock_staging", v), pair, two, f)
  BY <1>3, <1>7 DEF Updating
<1> QED BY <1>1, <1>3, <1>6, <1>8 DEF one, two

\* An error.
LEMMA GenerationErrs ==
  ASSUME NEW old \in Pairs, NEW new \in Pairs, NEW s, NEW d, NEW q, Generating(s, d, q, old, new)
  PROVE  /\ s = "stage" => Generating("cleanup", d, RemoveTree("staging"), old, new)
         /\ s = "swap" => Generating("undo", d, Recover(d), old, new)
<1>1. s = "stage" => Generating("cleanup", d, RemoveTree("staging"), old, new)
  <2>1. s = "stage" => d \in TreeStaging(old, new)
    BY LeadsOn DEF Generating
  <2> QED BY <2>1, StagingIsDropped DEF Generating
<1>2. d \in Generated(old, new)
  BY GeneratingIsGenerated
<1>3. Generating("undo", d, Recover(d), old, new)
  BY <1>2, GenerationRecovers DEF Generating
<1> QED BY <1>1, <1>3

LEMMA UpdateErrs ==
  ASSUME NEW old \in Pairs, NEW new \in Pairs, NEW s, NEW d, NEW q, Updating(s, d, q, old, new, 0)
  PROVE  /\ s = "stage" => Updating("cleanup", d, RemoveUpdateStaging(d), old, new, 1)
         /\ s = "swap" => Updating("undo", d, UpdateRecover(d), old, new, 1)
<1>1. s = "stage" => Updating("cleanup", d, RemoveUpdateStaging(d), old, new, 1)
  <2>1. s = "stage" => d \in UpdateStaging(old, new)
    BY LeadsOn DEF Updating
  <2> QED BY <2>1, UpdateStagingIsDropped DEF Updating, Mending
<1>2. s = "swap" => Updating("undo", d, UpdateRecover(d), old, new, 1)
  <2>1. s = "swap" => d \in Updated(old, new)
    BY LeadsOn DEF Updating
  <2> QED BY <2>1, UpdateRecoversAll DEF Updating, Mending
<1> QED BY <1>1, <1>2

\* A check that does not hold.
LEMMA UpdateRefuses ==
  ASSUME NEW old \in Pairs, NEW new \in Pairs, NEW s, NEW d, NEW q, NEW f,
         Updating(s, d, q, old, new, f), Failing(q)
  PROVE  s \notin {"stage", "swap"} /\ LeftOver(d, old, new, f)
<1>1. ASSUME NEW X, NEW F, NEW E, Leads(d, q, X, F, E) PROVE d \in F
  BY <1>1, LeadsOn
<1>2. q # <<>>
  BY DEF Failing
<1> QED BY <1>1, <1>2 DEF Updating, Mending, LeftOver

-----------------------------------------------------------------------------
(* The directory at every moment, of an update interrupted at most once.     *)

Interrupted == faults["update"]

Fitting(h) ==
  /\ before \in Pairs /\ after \in Pairs
  /\ h = None => LeftOver(disk, before, after, Interrupted)
  /\ h \in Generator => Generating(stage[h], disk, plan[h], before, after)
  /\ h \in Updater => Updating(stage[h], disk, plan[h], before, after, Interrupted)

ProjectStands == Interrupted <= 1 => Fitting(holder)

LEMMA StandsBegin == ProjectInit => ProjectStands
<1> SUFFICES ASSUME ProjectInit PROVE Fitting(holder)
  BY DEF ProjectStands
<1>1. PICK tree, lock \in Contained :
        /\ disk = [p \in ProjectPath |-> CASE p = "generated" -> tree [] p = "lock" -> lock [] OTHER -> Absent]
        /\ before = <<lock, tree>> /\ after = <<lock, tree>>
  BY DEF ProjectInit, Contained
<1>2. /\ disk["lock"] = lock /\ disk["generated"] = tree
      /\ \A p \in GenerationPaths \cup UpdatePaths : disk[p] = Absent
  BY <1>1, PathsAre
<1>3. disk \in Disks
  BY <1>1 DEF Disks, Contained, GenerationJournals
<1>4. disk \in Generated(before, after)
  BY <1>1, <1>2, <1>3, PathsAre DEF Generated, Alone, Quiet, Contents
<1>5. before \in Pairs /\ after \in Pairs
  BY <1>1 DEF Pairs
<1>6. holder = None /\ None \notin Generator /\ None \notin Updater
  BY ProjectAssumption DEF ProjectInit, Process
<1> QED BY <1>4, <1>5, <1>6 DEF Fitting, LeftOver

\* The two ways a step ends: somebody is at work, or nobody is.
LEMMA WorkStands ==
  ASSUME NEW p \in Process, ProjectInvariant, NEW s, NEW q, Enters(p, s, q), holder' = p,
         Interrupted' <= 1 =>
           /\ before' \in Pairs /\ after' \in Pairs
           /\ p \in Generator => Generating(s, disk', q, before', after')
           /\ p \in Updater => Updating(s, disk', q, before', after', Interrupted')
  PROVE  ProjectStands'
<1>1. stage'[p] = s /\ plan'[p] = q
  BY DEF Enters, ProjectInvariant, ProjectHolds
<1>2. p # None
  BY ProjectAssumption
<1> QED BY <1>1, <1>2 DEF ProjectStands, Fitting

LEMMA LeaveStands ==
  ASSUME NEW p \in Process, Leave(p),
         Interrupted' <= 1 =>
           before' \in Pairs /\ after' \in Pairs /\ LeftOver(disk', before', after', Interrupted')
  PROVE  ProjectStands'
<1>1. holder' = None /\ None \notin Generator /\ None \notin Updater
  BY ProjectAssumption DEF Leave, Process
<1> QED BY <1>1 DEF ProjectStands, Fitting

\* The process at work, and what is known of it.
LEMMA WorkIsFitting ==
  ASSUME ProjectInvariant, ProjectStands, NEW p \in Process, stage[p] # "idle" \/ plan[p] # <<>>,
         Interrupted <= 1
  PROVE  /\ before \in Pairs /\ after \in Pairs
         /\ p \in Generator => Generating(stage[p], disk, plan[p], before, after)
         /\ p \in Updater => Updating(stage[p], disk, plan[p], before, after, Interrupted)
BY WorkingHolds DEF ProjectStands, Fitting

LEMMA OneOrOther == \A p \in Process : p \in Generator <=> p \notin Updater
BY ProjectAssumption DEF Process

LEMMA FirstFault ==
  ASSUME ProjectInvariant, NEW p \in Process, Fault(p)
  PROVE  /\ Interrupted \in Nat
         /\ p \in Generator => Interrupted' = Interrupted
         /\ p \in Updater => Interrupted' = Interrupted + 1
<1>1. Interrupted \in Nat /\ DOMAIN faults = Command
  BY Counted, ProjectAssumption DEF Interrupted, Command
<1>2. p \in Generator => CommandOf(p) = "generate"
  BY DEF CommandOf
<1>3. p \in Updater => CommandOf(p) = "update"
  BY OneOrOther DEF CommandOf
<1>4. faults' = [faults EXCEPT ![CommandOf(p)] = @ + 1]
  BY DEF Fault
<1> QED BY <1>1, <1>2, <1>3, <1>4 DEF Interrupted, Command

LEMMA AcquireStands ==
  ASSUME ProjectInvariant, ProjectStands, NEW p \in Process, Acquire(p)
  PROVE  ProjectStands'
<1> DEFINE q == Recover(disk)
<1>1. /\ Enters(p, "recover", q) /\ holder' = p /\ holder = None
      /\ p \in Generator => ~UpdateState(disk)
      /\ UNCHANGED <<disk, before, after, commits, faults>>
  BY DEF Acquire, MayEnter
<1>2. Interrupted' = Interrupted
  BY <1>1 DEF Interrupted
<1>3. Interrupted <= 1 =>
           /\ before \in Pairs /\ after \in Pairs
           /\ p \in Generator => Generating("recover", disk, q, before, after)
           /\ p \in Updater => Updating("recover", disk, q, before, after, Interrupted)
  BY <1>1, GenerationStarts, UpdateStarts DEF ProjectStands, Fitting
<1> HIDE DEF q
<1> QED BY <1>1, <1>2, <1>3, WorkStands

LEMMA AcquireUpdateStands ==
  ASSUME ProjectInvariant, ProjectStands, NEW p \in Process, AcquireUpdate(p)
  PROVE  ProjectStands'
<1> DEFINE q == UpdateRecover(disk)
<1>1. /\ Enters(p, "recover_update", q) /\ holder' = holder /\ p \in Updater
      /\ stage[p] = "recover" /\ plan[p] = <<>>
      /\ UNCHANGED <<disk, before, after, commits, faults>>
  BY DEF AcquireUpdate
<1>2. Interrupted' = Interrupted /\ holder' = p /\ p \notin Generator
  BY <1>1, WorkingHolds, OneOrOther DEF Interrupted
<1>3. Interrupted <= 1 =>
           /\ before \in Pairs /\ after \in Pairs
           /\ Updating("recover_update", disk, q, before, after, Interrupted)
  BY <1>1, WorkIsFitting, UpdatingEnds
<1> HIDE DEF q
<1> QED BY <1>1, <1>2, <1>3, WorkStands

LEMMA AcquiredStands ==
  ASSUME ProjectInvariant, ProjectStands, NEW p \in Process, Acquired(p)
  PROVE  ProjectStands'
<1>1. /\ Enters(p, "ready", <<>>) /\ holder' = holder
      /\ p \in Generator => stage[p] = "recover"
      /\ p \notin Generator => stage[p] = "recover_update"
      /\ plan[p] = <<>> /\ UNCHANGED <<disk, before, after, commits, faults>>
  BY DEF Acquired
<1>2. Interrupted' = Interrupted /\ holder' = p
  BY <1>1, WorkingHolds DEF Interrupted
<1>3. ASSUME Interrupted <= 1 PROVE before \in Pairs /\ after \in Pairs /\ disk \in Cleaned(before, after)
  <2>1. /\ before \in Pairs /\ after \in Pairs
        /\ p \in Generator => Generating("recover", disk, <<>>, before, after)
        /\ p \in Updater => Updating("recover_update", disk, <<>>, before, after, Interrupted)
    BY <1>1, <1>3, WorkIsFitting, OneOrOther
  <2> QED BY <2>1, GeneratingEnds, UpdatingEnds, OneOrOther
<1>4. Interrupted <= 1 =>
           /\ before \in Pairs /\ after \in Pairs
           /\ p \in Generator => Generating("ready", disk, <<>>, before, after)
           /\ p \in Updater => Updating("ready", disk, <<>>, before, after, Interrupted)
  BY <1>3 DEF Generating, Updating
<1> QED BY <1>1, <1>2, <1>4, WorkStands

LEMMA ReplaceStands ==
  ASSUME ProjectInvariant, ProjectStands, NEW p \in Process, NEW v \in Version, ReplaceFiles(p, v)
  PROVE  ProjectStands'
<1> DEFINE q == Staging(p, v)
           pair == Contents(disk)
           one == <<disk["lock"], v>>
           two == <<v, v>>
<1>1. /\ Enters(p, "stage", q) /\ holder' = holder /\ stage[p] = "ready"
      /\ before' = pair /\ after' = <<IF p \in Generator THEN disk["lock"] ELSE v, v>>
      /\ UNCHANGED <<disk, holder, faults>>
  BY DEF ReplaceFiles
<1>2. Interrupted' = Interrupted /\ holder' = p
  BY <1>1, WorkingHolds DEF Interrupted
<1>3. /\ p \in Generator => after' = one /\ q = WriteTree("staging", v)
      /\ p \notin Generator => after' = two /\ q = WriteTree("update_staging", v) \o Put("lock_staging", v)
  BY <1>1 DEF Staging
<1>4. ASSUME Interrupted <= 1 PROVE before \in Pairs /\ after \in Pairs /\ disk \in Cleaned(before, after)
  <2>1. /\ before \in Pairs /\ after \in Pairs
        /\ p \in Generator => Generating("ready", disk, plan[p], before, after)
        /\ p \in Updater => Updating("ready", disk, plan[p], before, after, Interrupted)
    BY <1>1, <1>4, WorkIsFitting
  <2> QED BY <2>1, OneOrOther DEF Generating, Updating
<1> HIDE DEF q, one, two, pair
<1>5. ASSUME Interrupted <= 1
      PROVE  /\ pair \in Pairs /\ one \in Pairs /\ two \in Pairs
             /\ Generating("stage", disk, WriteTree("staging", v), pair, one)
             /\ Updating("stage", disk, WriteTree("update_staging", v) \o Put("lock_staging", v), pair, two, Interrupted)
  <2>1. pair = Contents(disk)
    BY DEF pair
  <2> QED BY <1>4, <1>5, <2>1, CommitStages DEF one, two
<1>6. Interrupted' <= 1 =>
           /\ before' \in Pairs /\ after' \in Pairs
           /\ p \in Generator => Generating("stage", disk', q, before', after')
           /\ p \in Updater => Updating("stage", disk', q, before', after', Interrupted')
  BY <1>1, <1>2, <1>3, <1>5, OneOrOther
<1> QED BY <1>1, <1>2, <1>6, WorkStands

LEMMA StagedStands ==
  ASSUME ProjectInvariant, ProjectStands, NEW p \in Process, Staged(p)
  PROVE  ProjectStands'
<1> DEFINE q == IF p \in Generator THEN Swap(disk) ELSE UpdateSwap(disk)
<1>1. /\ Enters(p, "swap", q) /\ holder' = holder /\ stage[p] = "stage" /\ plan[p] = <<>>
      /\ UNCHANGED <<disk, holder, before, after, faults>>
  BY DEF Staged
<1>2. Interrupted' = Interrupted /\ holder' = p
  BY <1>1, WorkingHolds DEF Interrupted
<1>3. ASSUME Interrupted <= 1
      PROVE  /\ before \in Pairs /\ after \in Pairs
             /\ p \in Generator => Generating("swap", disk, Swap(disk), before, after)
             /\ p \in Updater => Updating("swap", disk, UpdateSwap(disk), before, after, Interrupted)
  <2>1. /\ before \in Pairs /\ after \in Pairs
        /\ p \in Generator => Generating("stage", disk, <<>>, before, after)
        /\ p \in Updater => Updating("stage", disk, <<>>, before, after, Interrupted)
    BY <1>1, <1>3, WorkIsFitting
  <2> QED BY <2>1, GeneratingEnds, UpdatingEnds
<1>4. (p \in Generator => q = Swap(disk)) /\ (p \in Updater => q = UpdateSwap(disk))
  BY OneOrOther
<1> HIDE DEF q
<1> QED BY <1>1, <1>2, <1>3, <1>4, WorkStands

LEMMA StepStands ==
  ASSUME ProjectInvariant, ProjectStands, NEW p \in Process, Step(p)
  PROVE  ProjectStands'
<1> DEFINE q == plan[p]
           rest == Tail(q)
           e == Execute(disk, Head(q))
<1>1. /\ q # <<>> /\ ~Failing(q) /\ disk' = e /\ plan' = [plan EXCEPT ![p] = rest]
      /\ UNCHANGED <<holder, stage, before, after, commits, faults>>
  BY DEF Step
<1>2. Interrupted' = Interrupted /\ holder = p
  BY <1>1, WorkingHolds DEF Interrupted
<1>3. Interrupted <= 1 =>
           /\ before \in Pairs /\ after \in Pairs
           /\ p \in Generator => Generating(stage[p], e, rest, before, after)
           /\ p \in Updater => Updating(stage[p], e, rest, before, after, Interrupted)
  BY <1>1, WorkIsFitting, GeneratingStep, UpdatingStep
<1> HIDE DEF q, rest, e
<1>4. Enters(p, stage[p], rest)
  <2>1. stage = [stage EXCEPT ![p] = stage[p]]
    BY DEF ProjectInvariant, ProjectHolds, ProjectTypes
  <2> QED BY <1>1, <2>1 DEF Enters
<1> QED BY <1>1, <1>2, <1>3, <1>4, WorkStands

LEMMA EndStands ==
  ASSUME ProjectInvariant, ProjectStands, NEW p \in Process, Abandon(p) \/ Return(p) \/ Undone(p)
  PROVE  ProjectStands'
<1>1. Leave(p) /\ stage[p] # "idle" /\ disk' = disk /\ after' = after /\ faults' = faults
  BY DEF Abandon, Return, Undone
<1>2. Interrupted' = Interrupted
  BY <1>1 DEF Interrupted
<1>3. CASE Abandon(p) \/ Undone(p)
  <2>1. before' = before /\ stage[p] \in {"ready", "undo", "cleanup"}
        /\ (stage[p] # "ready" => plan[p] = <<>>)
    BY <1>3 DEF Abandon, Undone
  <2>2. ASSUME Interrupted <= 1
        PROVE  before \in Pairs /\ after \in Pairs /\ LeftOver(disk, before, after, Interrupted)
    <3>1. /\ before \in Pairs /\ after \in Pairs
          /\ p \in Generator => Generating(stage[p], disk, plan[p], before, after)
          /\ p \in Updater => Updating(stage[p], disk, plan[p], before, after, Interrupted)
      BY <1>1, <2>2, WorkIsFitting
    <3>2. stage[p] = "ready" => plan[p] = <<>>
      BY <3>1, OneOrOther DEF Generating, Updating
    <3>3. plan[p] = <<>>
      BY <2>1, <3>2
    <3>4. disk \in Cleaned(before, after)
      BY <2>1, <3>1, <3>3, OneOrOther, GeneratingEnds, UpdatingEnds
    <3> QED BY <3>1, <3>4, CleanedIsGenerated DEF LeftOver
  <2> QED BY <1>1, <1>2, <2>1, <2>2, LeaveStands
<1>4. CASE Return(p)
  <2>1. before' = after /\ stage[p] = "swap" /\ plan[p] = <<>>
    BY <1>4 DEF Return
  <2>2. ASSUME Interrupted <= 1
        PROVE  after \in Pairs /\ LeftOver(disk, after, after, Interrupted)
    <3>1. /\ before \in Pairs /\ after \in Pairs
          /\ p \in Generator => Generating("swap", disk, <<>>, before, after)
          /\ p \in Updater => Updating("swap", disk, <<>>, before, after, Interrupted)
      BY <1>1, <2>1, <2>2, WorkIsFitting
    <3>2. disk \in Cleaned(after, after)
      BY <3>1, OneOrOther, GeneratingEnds, UpdatingEnds
    <3> QED BY <3>1, <3>2, CleanedIsGenerated DEF LeftOver
  <2> QED BY <1>1, <1>2, <2>1, <2>2, LeaveStands
<1> QED BY <1>3, <1>4

\* The process at work is stopped: what it leaves is what the next one finds.
LEMMA KillStands ==
  ASSUME ProjectInvariant, ProjectStands, NEW p \in Process, Kill(p)
  PROVE  ProjectStands'
<1>1. Leave(p) /\ stage[p] # "idle" /\ Fault(p) /\ UNCHANGED <<disk, before, after>>
  BY DEF Kill
<1>2. /\ Interrupted \in Nat
      /\ p \in Generator => Interrupted' = Interrupted
      /\ p \in Updater => Interrupted' = Interrupted + 1
  BY <1>1, FirstFault
<1>3. ASSUME Interrupted' <= 1
      PROVE  before \in Pairs /\ after \in Pairs /\ LeftOver(disk, before, after, Interrupted')
  <2>1. Interrupted <= 1
    BY <1>2, <1>3, OneOrOther
  <2>2. /\ before \in Pairs /\ after \in Pairs
        /\ p \in Generator => Generating(stage[p], disk, plan[p], before, after)
        /\ p \in Updater => Updating(stage[p], disk, plan[p], before, after, Interrupted)
    BY <1>1, <2>1, WorkIsFitting
  <2>3. CASE p \in Generator
    BY <2>2, <2>3, GeneratingIsGenerated DEF LeftOver
  <2>4. CASE p \in Updater
    <3>1. Interrupted = 0 /\ Interrupted' = 1
      BY <1>2, <1>3, <2>4
    <3> QED BY <2>2, <2>4, <3>1, InterruptedIsLeftOver
  <2> QED BY <2>2, <2>3, <2>4, OneOrOther
<1> QED BY <1>1, <1>3, LeaveStands

\* An error is answered by cleaning up, by recovering, or by giving up.
LEMMA ErrorStands ==
  ASSUME ProjectInvariant, ProjectStands, NEW p \in Process, IOError(p)
  PROVE  ProjectStands'
<1>1. plan[p] # <<>> /\ Fault(p) /\ OnError(p) /\ UNCHANGED <<disk, before, after>>
  BY DEF IOError
<1>2. /\ Interrupted \in Nat
      /\ p \in Generator => Interrupted' = Interrupted
      /\ p \in Updater => Interrupted' = Interrupted + 1
  BY <1>1, FirstFault
<1>3. holder = p
  BY <1>1, WorkingHolds
<1> DEFINE s == stage[p]
<1>4. ASSUME Interrupted' <= 1
      PROVE  /\ before \in Pairs /\ after \in Pairs
             /\ p \in Generator => Generating(s, disk, plan[p], before, after)
             /\ p \in Updater => Interrupted' = 1 /\ Updating(s, disk, plan[p], before, after, 0)
  <2>1. Interrupted <= 1
    BY <1>2, <1>4, OneOrOther
  <2>2. p \in Updater => Interrupted = 0 /\ Interrupted' = 1
    BY <1>2, <1>4
  <2> QED BY <1>1, <2>1, <2>2, WorkIsFitting
<1>5. CASE s = "stage"
  <2> DEFINE q == IF p \in Generator THEN RemoveTree("staging") ELSE RemoveUpdateStaging(disk)
  <2>1. Enters(p, "cleanup", q) /\ holder' = p
    BY <1>1, <1>3, <1>5 DEF OnError
  <2>2. /\ p \in Generator => q = RemoveTree("staging")
        /\ p \in Updater => q = RemoveUpdateStaging(disk)
    BY OneOrOther
  <2> HIDE DEF q
  <2>3. Interrupted' <= 1 =>
           /\ before \in Pairs /\ after \in Pairs
           /\ p \in Generator => Generating("cleanup", disk, q, before, after)
           /\ p \in Updater => Updating("cleanup", disk, q, before, after, Interrupted')
    BY <1>4, <1>5, <2>2, GenerationErrs, UpdateErrs
  <2> QED BY <1>1, <2>1, <2>3, WorkStands
<1>6. CASE s = "swap"
  <2> DEFINE q == IF p \in Generator THEN Recover(disk) ELSE UpdateRecover(disk)
  <2>1. Enters(p, "undo", q) /\ holder' = p
    BY <1>1, <1>3, <1>6 DEF OnError
  <2>2. /\ p \in Generator => q = Recover(disk)
        /\ p \in Updater => q = UpdateRecover(disk)
    BY OneOrOther
  <2> HIDE DEF q
  <2>3. Interrupted' <= 1 =>
           /\ before \in Pairs /\ after \in Pairs
           /\ p \in Generator => Generating("undo", disk, q, before, after)
           /\ p \in Updater => Updating("undo", disk, q, before, after, Interrupted')
    BY <1>4, <1>6, <2>2, GenerationErrs, UpdateErrs
  <2> QED BY <1>1, <2>1, <2>3, WorkStands
<1>7. CASE s # "stage" /\ s # "swap"
  <2>1. Leave(p)
    BY <1>1, <1>7 DEF OnError
  <2>2. Interrupted' <= 1 =>
           before \in Pairs /\ after \in Pairs /\ LeftOver(disk, before, after, Interrupted')
    BY <1>4, OneOrOther, GeneratingIsGenerated, InterruptedIsLeftOver DEF LeftOver
  <2> QED BY <1>1, <2>1, <2>2, LeaveStands
<1> QED BY <1>5, <1>6, <1>7

LEMMA CheckStands ==
  ASSUME ProjectInvariant, ProjectStands, NEW p \in Process, CheckFails(p)
  PROVE  ProjectStands'
<1>1. Failing(plan[p]) /\ plan[p] # <<>> /\ OnError(p) /\ UNCHANGED <<disk, before, after, faults>>
  BY DEF CheckFails, Failing
<1>2. Interrupted' = Interrupted /\ holder = p
  BY <1>1, WorkingHolds DEF Interrupted
<1> DEFINE s == stage[p]
<1>3. ASSUME Interrupted <= 1
      PROVE  /\ before \in Pairs /\ after \in Pairs
             /\ p \in Generator => Generating(s, disk, plan[p], before, after)
             /\ p \in Updater => s \notin {"stage", "swap"} /\ LeftOver(disk, before, after, Interrupted)
  BY <1>1, <1>3, WorkIsFitting, UpdateRefuses
<1>4. CASE s = "stage"
  <2> DEFINE q == IF p \in Generator THEN RemoveTree("staging") ELSE RemoveUpdateStaging(disk)
  <2>1. Enters(p, "cleanup", q) /\ holder' = p
    BY <1>1, <1>2, <1>4 DEF OnError
  <2>2. p \in Generator => q = RemoveTree("staging")
    OBVIOUS
  <2> HIDE DEF q
  <2>3. Interrupted <= 1 =>
           /\ before \in Pairs /\ after \in Pairs
           /\ p \in Generator => Generating("cleanup", disk, q, before, after)
           /\ p \in Updater => Updating("cleanup", disk, q, before, after, Interrupted)
    BY <1>3, <1>4, <2>2, GenerationErrs
  <2> QED BY <1>1, <1>2, <2>1, <2>3, WorkStands
<1>5. CASE s = "swap"
  <2> DEFINE q == IF p \in Generator THEN Recover(disk) ELSE UpdateRecover(disk)
  <2>1. Enters(p, "undo", q) /\ holder' = p
    BY <1>1, <1>2, <1>5 DEF OnError
  <2>2. p \in Generator => q = Recover(disk)
    OBVIOUS
  <2> HIDE DEF q
  <2>3. Interrupted <= 1 =>
           /\ before \in Pairs /\ after \in Pairs
           /\ p \in Generator => Generating("undo", disk, q, before, after)
           /\ p \in Updater => Updating("undo", disk, q, before, after, Interrupted)
    BY <1>3, <1>5, <2>2, GenerationErrs
  <2> QED BY <1>1, <1>2, <2>1, <2>3, WorkStands
<1>6. CASE s # "stage" /\ s # "swap"
  <2>1. Leave(p)
    BY <1>1, <1>6 DEF OnError
  <2>2. Interrupted <= 1 =>
           before \in Pairs /\ after \in Pairs /\ LeftOver(disk, before, after, Interrupted)
    BY <1>3, OneOrOther, GeneratingIsGenerated DEF LeftOver
  <2> QED BY <1>1, <1>2, <2>1, <2>2, LeaveStands
<1> QED BY <1>4, <1>5, <1>6

LEMMA StandsContinue ==
  ASSUME ProjectInvariant, ProjectStands, [ProjectNext]_projectVars
  PROVE  ProjectStands'
<1>1. CASE UNCHANGED projectVars
  BY <1>1 DEF projectVars, ProjectStands, Fitting, Interrupted
<1>2. CASE ProjectNext
  <2> PICK p \in Process :
        \/ Acquire(p) \/ AcquireUpdate(p) \/ Acquired(p) \/ Abandon(p)
        \/ \E v \in Version : ReplaceFiles(p, v)
        \/ Staged(p) \/ Step(p) \/ Return(p)
        \/ CheckFails(p) \/ IOError(p) \/ Undone(p) \/ Kill(p)
    BY <1>2 DEF ProjectNext
  <2> QED BY AcquireStands, AcquireUpdateStands, AcquiredStands, ReplaceStands, StagedStands, StepStands,
             EndStands, KillStands, ErrorStands, CheckStands
<1> QED BY <1>1, <1>2

LEMMA StandsKept ==
  ASSUME ProjectInvariant, ProjectStands, faults["update"] <= 1
  PROVE  ProjectIsOldOrNew
<1>1. ProjectTypes
  BY DEF ProjectInvariant, ProjectHolds
<1>2. Fitting(holder)
  BY DEF ProjectStands, Interrupted
<1>3. holder = None \/ holder \in Generator \/ holder \in Updater
  BY <1>1 DEF ProjectTypes, Process
<1>4. Kept(disk, before, after)
  <2>1. holder = None => Kept(disk, before, after)
    BY <1>2, LeftOverIsKept DEF Fitting
  <2>2. holder \in Generator => Kept(disk, before, after)
    BY <1>2, GeneratingIsGenerated, GeneratedIsKept DEF Fitting
  <2>3. holder \in Updater => Kept(disk, before, after)
    BY <1>2, UpdatingIsKept DEF Fitting
  <2> QED BY <1>3, <2>1, <2>2, <2>3
<1> QED BY <1>1, <1>4 DEF ProjectIsOldOrNew, CleanIsOldOrNew, NothingIsLost, Survives, Kept

-----------------------------------------------------------------------------
LEMMA CommandsContinue ==
  ProjectInvariant /\ MigrationInvariant /\ [CommandsNext]_<<projectVars, migrationVars>>
    => ProjectInvariant' /\ MigrationInvariant'
<1> SUFFICES ASSUME ProjectInvariant, MigrationInvariant, [CommandsNext]_<<projectVars, migrationVars>>
             PROVE  ProjectInvariant' /\ MigrationInvariant'
  OBVIOUS
<1>1. [ProjectNext]_projectVars /\ [MigrationNext]_migrationVars
  BY DEF CommandsNext
<1> QED BY <1>1, ProjectContinues, MigrationsContinue

\* Whatever commands run, are killed or meet errors, at most one process holds
\* each lock, the journals hold complete records, the migrations directory has
\* one of the shapes that recovery knows, and the plan of the process at work
\* is the one that its directory calls for.
\* (GenerationTransaction, UpdateTransaction, MigrationTransaction)
THEOREM CommandsInvariant == CommandsSpec => [](ProjectInvariant /\ MigrationInvariant)
<1>1. CommandsInit => ProjectInvariant /\ MigrationInvariant
  BY ProjectBegins, MigrationsBegin DEF CommandsInit
<1>2. ProjectInvariant /\ MigrationInvariant /\ [CommandsNext]_<<projectVars, migrationVars>>
        => (ProjectInvariant /\ MigrationInvariant)'
  BY CommandsContinue
<1> QED BY <1>1, <1>2, PTL DEF CommandsSpec

\* The snapshot describes what the latest migration file leads to whenever no
\* transaction state is on disk; after one kill or error a snapshot no older
\* than every accepted migration stands, and the next command recovers it.
\* (MigrationTransaction::commit, recover)
THEOREM SnapshotIsKeptAlways == CommandsSpec => []SnapshotIsKept
<1>1. ProjectInvariant /\ MigrationInvariant => SnapshotIsKept
  BY SnapshotKept
<1> QED BY <1>1, CommandsInvariant, PTL

\* Generation changes nothing while an update is unfinished, and no command
\* and no recovery takes back a migration that was reported as written.
\* (GenerationTransaction::acquire, MigrationTransaction::commit)
THEOREM CommandsRespectEachOtherAlways == CommandsSpec => CommandsRespectEachOther
<1> DEFINE Waits == \A p \in Generator : holder = p /\ disk' # disk => ~UpdateState(disk)
           Stays == \A n \in acceptedMigrations :
                      migrations'[Sql(n)] = migrations[Sql(n)] /\ Exists(migrations, Sql(n))
<1>1. ProjectInvariant => [Waits]_projectVars
  BY DEF ProjectInvariant, GenerationWaitsInv
<1>2. MigrationInvariant /\ [CommandsNext]_<<projectVars, migrationVars>> => [Stays]_migrationVars
  <2> SUFFICES ASSUME MigrationInvariant, [CommandsNext]_<<projectVars, migrationVars>>
               PROVE  Stays
    OBVIOUS
  <2>1. [MigrationNext]_migrationVars
    BY DEF CommandsNext
  <2> QED BY <2>1, AcceptedFilesStay
<1>3. CommandsSpec => [][Waits]_projectVars
  BY <1>1, CommandsInvariant, PTL DEF CommandsSpec
<1>4. CommandsSpec => [][Stays]_migrationVars
  BY <1>2, CommandsInvariant, PTL DEF CommandsSpec
<1> QED BY <1>3, <1>4 DEF CommandsRespectEachOther, GenerationWaits, AcceptedStays

\* As long as no more than one update was interrupted, and however often
\* generation was: the lock and the tree of a project without transaction
\* state are together the old or together the new ones, and whatever is
\* interrupted, one of the two can still be found whole.
\* (GenerationTransaction::replace, UpdateTransaction::commit, their recovery)
THEOREM ProjectIsOldOrNewAlways == CommandsSpec => [](faults["update"] <= 1 => ProjectIsOldOrNew)
<1>1. CommandsInit => ProjectStands
  BY StandsBegin DEF CommandsInit
<1>2. ProjectInvariant /\ ProjectStands /\ [CommandsNext]_<<projectVars, migrationVars>> => ProjectStands'
  <2> SUFFICES ASSUME ProjectInvariant, ProjectStands, [CommandsNext]_<<projectVars, migrationVars>>
               PROVE  ProjectStands'
    OBVIOUS
  <2>1. [ProjectNext]_projectVars
    BY DEF CommandsNext
  <2> QED BY <2>1, StandsContinue
<1>3. ProjectInvariant /\ ProjectStands => (faults["update"] <= 1 => ProjectIsOldOrNew)
  BY StandsKept
<1> QED BY <1>1, <1>2, <1>3, CommandsInvariant, PTL DEF CommandsSpec
=============================================================================
