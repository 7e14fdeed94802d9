----------------------------- MODULE Schedules -----------------------------
(***************************************************************************)
(* Recurring jobs: rows of _appstruct_job_schedules, which every process   *)
(* brings in line with its own release when it starts, and the loop of a   *)
(* process's first lane that claims what is due and enqueues a job.        *)
(* Processes of two releases may run side by side.                         *)
(***************************************************************************)
EXTENDS Null, Naturals, Sequences, FiniteSets

CONSTANTS
  Process,
  Schedule,   \* names
  Releases,   \* a release is the sequence of its schedules
  PerSecond,  \* ticks of the clock in a second, the unit of a job's key
  MaxClock,   \* bound: the clock
  MaxStarts,  \* bound: starts of processes
  MaxMishaps, \* bound: database errors
  MaxManual   \* bound: administrators' triggers

Declared == [name : Schedule, every : BOOLEAN, period : Nat \ {0}]
Definition == [every : BOOLEAN, period : Nat \ {0}]
ScheduleRow == [def : Definition, enabled : BOOLEAN, paused : BOOLEAN, next : Nat]
Loop == [release : Releases, at : Nat \ {0}]
Firing == [at : Nat, period : Nat \ {0}, every : BOOLEAN]

\* An interval is a second at least; the occurrences of a calendar are whole
\* minutes, of which no more is used than that they are whole seconds.
SchedulesAssumption ==
  /\ Releases \subseteq Seq(Declared)
  /\ \A r \in Releases : \A i, j \in 1 .. Len(r) :
       /\ r[i].every => r[i].period >= PerSecond
       /\ ~r[i].every => r[i].period % PerSecond = 0
       /\ r[i].name = r[j].name => i = j
  /\ PerSecond \in Nat \ {0} /\ MaxClock \in Nat /\ MaxStarts \in Nat
  /\ MaxMishaps \in Nat /\ MaxManual \in Nat
  /\ None \notin ScheduleRow /\ None \notin Loop /\ None \notin Firing

VARIABLES
  clock,        \* of the database
  schedule,     \* rows by name
  running, starts,  \* the release a process runs, and where its loop is
  jobs,         \* idempotency keys of jobs, which are kept
  manual,       \* jobs of administrators
  last,         \* history: claim and period since a row was last (re)defined
  mishaps

schedulesVars == <<clock, schedule, running, starts, jobs, manual, last, mishaps>>

SchedulesTypes ==
  /\ clock \in 0 .. MaxClock /\ manual \in 0 .. MaxManual /\ mishaps \in 0 .. MaxMishaps
  /\ starts \in 0 .. MaxStarts /\ jobs \subseteq Schedule \X Nat
  /\ schedule \in [Schedule -> ScheduleRow \cup {None}]
  /\ running \in [Process -> Loop \cup {None}]
  /\ \A p \in Process : running[p] # None => running[p].release = <<>> \/ running[p].at <= Len(running[p].release)
  /\ last \in [Schedule -> Firing \cup {None}]

SchedulesInit ==
  /\ clock = 0 /\ manual = 0 /\ mishaps = 0 /\ starts = 0 /\ jobs = {}
  /\ schedule = [n \in Schedule |-> None]
  /\ last = [n \in Schedule |-> None]
  /\ running = [p \in Process |-> None]

Def(s) == [every |-> s.every, period |-> s.period]

\* An interval counts from now; a calendar's occurrences are its multiples.
NextRun(s) == IF s.every THEN clock + s.period ELSE (clock \div s.period + 1) * s.period
-----------------------------------------------------------------------------
(* Registration, at the start of a process and in one transaction *)

\* Mutant: registration always restarts.
Restart(row, s) == TRUE

\* A new, changed or re-enabled definition starts over.
StartsOver(row, s) == ~row.enabled \/ row.def # Def(s)

Registered(row, s) ==
  [def |-> Def(s), enabled |-> TRUE, paused |-> row.paused,
   next |-> IF StartsOver(row, s) THEN IF s.every THEN clock ELSE NextRun(s) ELSE row.next]

NewRow(s) == [def |-> Def(s), enabled |-> FALSE, paused |-> FALSE, next |-> 0]

\* ensure_schedules: rows that are not declared are disabled.
EnsureSchedules(r) ==
  LET declared(n) == {i \in DOMAIN r : r[i].name = n}
      s(n) == r[CHOOSE i \in declared(n) : TRUE]
      row(n) == IF schedule[n] = None THEN NewRow(s(n)) ELSE schedule[n]
  IN  /\ schedule' = [n \in Schedule |->
           IF declared(n) # {} THEN Registered(row(n), s(n))
           ELSE IF schedule[n] = None THEN None ELSE [schedule[n] EXCEPT !.enabled = FALSE]]
      /\ last' = [n \in Schedule |->
           IF declared(n) # {} /\ (~row(n).enabled \/ row(n).def # Def(s(n)))
           THEN None ELSE last[n]]

\* A failure is logged, and the loop starts all the same.
StartProcess(p, r) ==
  /\ running[p] = None /\ starts < MaxStarts
  /\ starts' = starts + 1
  /\ running' = [running EXCEPT ![p] = [release |-> r, at |-> 1]]
  /\ \/ EnsureSchedules(r) /\ UNCHANGED mishaps
     \/ mishaps < MaxMishaps /\ mishaps' = mishaps + 1 /\ UNCHANGED <<schedule, last>>
  /\ UNCHANGED <<clock, jobs, manual>>

StopProcess(p) ==
  /\ running[p] # None
  /\ running' = [running EXCEPT ![p] = None]
  /\ UNCHANGED <<clock, schedule, starts, jobs, manual, last, mishaps>>
-----------------------------------------------------------------------------
(* schedule_due: one transaction for each schedule of the release *)

Due(n) ==
  schedule[n] # None /\ schedule[n].enabled /\ ~schedule[n].paused /\ schedule[n].next <= clock

GoesOn(p, fired) ==
  IF running[p].at < Len(running[p].release) THEN running[p].at + 1 ELSE 1

JobKey(n, time) == <<n, time \div PerSecond>>

\* The row is updated with the process's own definition; enqueue returns the
\* job that has the key, if there is one.
ClaimSchedule(s) ==
  /\ schedule' = [schedule EXCEPT ![s.name].next = NextRun(s)]
  /\ jobs' = jobs \cup {JobKey(s.name, schedule[s.name].next)}
  /\ last' = [last EXCEPT ![s.name] = [at |-> clock, period |-> s.period, every |-> s.every]]

ScheduleDue(p) ==
  /\ running[p] # None /\ running[p].release # <<>>
  /\ LET s == running[p].release[running[p].at]
     IN  /\ IF Due(s.name) THEN ClaimSchedule(s) ELSE UNCHANGED <<schedule, jobs, last>>
         /\ running' = [running EXCEPT ![p].at = GoesOn(p, Due(s.name))]
  /\ UNCHANGED <<clock, starts, manual, mishaps>>

\* Nothing is committed and the iteration ends; the next starts over.
ScheduleError(p) ==
  /\ running[p] # None /\ mishaps < MaxMishaps
  /\ running' = [running EXCEPT ![p].at = 1]
  /\ mishaps' = mishaps + 1
  /\ UNCHANGED <<clock, schedule, starts, jobs, manual, last>>
-----------------------------------------------------------------------------
(* Administrators *)

SetPaused(n, paused) ==
  /\ schedule[n] # None /\ schedule[n].enabled
  /\ schedule' = [schedule EXCEPT ![n].paused = paused]
  /\ UNCHANGED <<clock, running, starts, jobs, manual, last, mishaps>>

\* Also of a paused schedule; the job has no key.
Trigger(n) ==
  /\ schedule[n] # None /\ schedule[n].enabled /\ manual < MaxManual
  /\ manual' = manual + 1
  /\ UNCHANGED <<clock, schedule, running, starts, jobs, last, mishaps>>

ClockTicks ==
  /\ clock < MaxClock /\ clock' = clock + 1
  /\ UNCHANGED <<schedule, running, starts, jobs, manual, last, mishaps>>
-----------------------------------------------------------------------------
SchedulesNext ==
  \/ \E p \in Process : \/ ScheduleDue(p) \/ ScheduleError(p) \/ StopProcess(p)
                        \/ \E r \in Releases : StartProcess(p, r)
  \/ \E n \in Schedule : Trigger(n) \/ \E paused \in BOOLEAN : SetPaused(n, paused)
  \/ ClockTicks

\* A first lane comes back to its loop after each job.
SchedulesFairness == \A p \in Process : WF_schedulesVars(ScheduleDue(p))

SchedulesSpec == SchedulesInit /\ [][SchedulesNext]_schedulesVars /\ SchedulesFairness
-----------------------------------------------------------------------------
(* Properties *)

\* Processes of one or of two releases that come and go fire a schedule as its
\* definition says: each claim enqueues a job of its own and lies a period (of
\* the release that claimed before) after the last one (skip-backlog), unless the
\* row was redefined or re-enabled in between; a paused schedule is not claimed,
\* and a process that starts does not resume it.  (ensure_schedules, schedule_due)
FiresAsDefined ==
  \A n \in Schedule :
    LET claimed == last'[n] # None /\ last'[n] # last[n]
    IN  /\ claimed /\ last[n] # None =>
             /\ jobs' # jobs
             /\ last[n].every => clock >= last[n].at + last[n].period
             /\ ~last[n].every => clock \div last[n].period > last[n].at \div last[n].period
        /\ schedule[n] # None /\ schedule[n].paused =>
             /\ ~claimed
             /\ running' # running => schedule'[n].paused
SchedulesFireAsDefined == [][FiresAsDefined]_schedulesVars

Serves(p, n) == running[p] # None /\ \E i \in DOMAIN running[p].release : running[p].release[i].name = n

\* A schedule that is due is claimed as long as some process that declares it
\* runs, whatever comes before it in the release.  (schedule_due)
DueSchedulesAreClaimed ==
  \A n \in Schedule :
    (Due(n) /\ \E p \in Process : Serves(p, n)) ~> (~Due(n) \/ \A p \in Process : ~Serves(p, n))
=============================================================================
