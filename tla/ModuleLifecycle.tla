-------------------------- MODULE ModuleLifecycle --------------------------
(***************************************************************************)
(* A process of a generated application: it starts its modules in the      *)
(* order of the plan, serves until it is told to stop or fails, and stops  *)
(* them in reverse.  A module may have a background service, a task that   *)
(* is supervised: its end is either the answer to a request to stop or an  *)
(* exit somebody has to hear of.                                           *)
(***************************************************************************)
EXTENDS Null, Naturals, Sequences, FiniteSets

CONSTANTS
  Module,       \* names
  Service,      \* those that may have a background service
  Watched,      \* the service whose exit the health check reports: jobs
  Plans         \* sequences of descriptors: [name, dependencies]

Descriptor == [name : Module, dependencies : SUBSET Module]

VARIABLES
  plan, next,   \* ModulePlan, and the starter that is next
  phase,        \* of the process
  started,      \* ModuleRuntime: names, in order
  handles,      \* those of its services that have not been popped
  waiting,      \* the handle whose shutdown is awaited
  task,         \* supervised tasks by service
  failures,     \* ShutdownReport
  health, failure, marking  \* ApplicationHealth, and where mark_failed is

lifecycleVars == <<plan, next, phase, started, handles, waiting, task, failures, health, failure,
                   marking>>

\* ended: how the future ended; early: before anybody asked (history); state:
\* the atomic of the supervisor; joined: the supervising task has ended; told:
\* the watch channel; noticed: calls of the observer.
Task == [ended : {"no", "ok", "failed"}, early : BOOLEAN,
         state : {"running", "shutting down", "exited"},
         joined : BOOLEAN, told : BOOLEAN, noticed : 0 .. 2]

LifecycleAssumption ==
  /\ Service \subseteq Module /\ Watched \in Service /\ None \notin Module /\ None \notin Task
  /\ \A p \in Plans : p \in Seq(Descriptor)

Prefix(s, n) == {s[i] : i \in 1 .. n}
Elements(s) == Prefix(s, Len(s))

LifecycleTypes ==
  /\ plan \in Plans /\ next \in 1 .. (Len(plan) + 1)
  /\ phase \in {"starting", "serving", "draining", "stopping", "rolling back", "done"}
  /\ started \in Seq(Module) /\ handles \in Seq(Service)
  /\ waiting \in Service \cup {None}
  /\ task \in [Service -> Task \cup {None}]
  /\ failures \subseteq Service \X {"error", "timeout"}
  /\ health \in {"starting", "ready", "draining", "failed"} /\ failure \in BOOLEAN
  /\ marking \in {"no", "write", "store"}

LifecycleInit ==
  /\ plan \in Plans /\ next = 1 /\ phase = "starting"
  /\ started = <<>> /\ handles = <<>> /\ waiting = None /\ failures = {}
  /\ task = [s \in Service |-> None]
  /\ health = "starting" /\ failure = FALSE /\ marking = "no"
-----------------------------------------------------------------------------
(* ModulePlan::start *)

Spawned == [ended |-> "no", early |-> FALSE, state |-> "running", joined |-> FALSE,
            told |-> FALSE, noticed |-> 0]

Duplicate(m) == m.name \in Elements(started)
Missing(m) == m.dependencies \ Elements(started) # {}

StartModule ==
  /\ phase = "starting" /\ next <= Len(plan)
  /\ LET m == plan[next]
     IN  /\ ~Duplicate(m) /\ ~Missing(m)
         /\ started' = Append(started, m.name)
         /\ \/ UNCHANGED <<handles, task>>
            \/ /\ m.name \in Service
               /\ handles' = Append(handles, m.name)
               /\ task' = [task EXCEPT ![m.name] = Spawned]
  /\ next' = next + 1
  /\ UNCHANGED <<plan, phase, waiting, failures, health, failure, marking>>

\* A name appears twice, a dependency has not been started, or the starter fails;
\* or all have started and none has left what the application needs (finish).
StartFails ==
  /\ phase = "starting"
  /\ phase' = "rolling back"
  /\ UNCHANGED <<plan, next, started, handles, waiting, task, failures, health, failure, marking>>

\* The application is marked ready and serves.
AllStarted ==
  /\ phase = "starting" /\ next > Len(plan)
  /\ phase' = "serving" /\ health' = "ready"
  /\ UNCHANGED <<plan, next, started, handles, waiting, task, failures, failure, marking>>
-----------------------------------------------------------------------------
(* Application::serve *)

SignalArrives ==
  /\ phase = "serving" /\ phase' = "draining" /\ health' = "draining"
  /\ UNCHANGED <<plan, next, started, handles, waiting, task, failures, failure, marking>>

\* The server has drained, or failed, or did not drain within 30 seconds.
ServerEnds ==
  /\ phase \in {"serving", "draining"}
  /\ phase' = "stopping" /\ health' = "draining"
  /\ UNCHANGED <<plan, next, started, handles, waiting, task, failures, failure, marking>>
-----------------------------------------------------------------------------
(* ServiceHandles::shutdown_reverse, of a rollback too *)

\* Mutant: services are stopped in the order they were started.
Oldest == 1

\* The position of the handle that is popped.
Popped == Len(handles)

Without(s, i) == [j \in 1 .. (Len(s) - 1) |-> IF j < i THEN s[j] ELSE s[j + 1]]

AskToStop ==
  /\ phase \in {"stopping", "rolling back"} /\ waiting = None /\ handles # <<>>
  /\ waiting' = handles[Popped]
  /\ handles' = Without(handles, Popped)
  /\ task' = [task EXCEPT ![handles[Popped]].told = TRUE,
                          ![handles[Popped]].state = IF @ = "running" THEN "shutting down" ELSE @]
  /\ UNCHANGED <<plan, next, phase, started, failures, health, failure, marking>>

\* The supervising task gives what the future returned.
ShutdownReturns ==
  /\ waiting # None /\ task[waiting].joined
  /\ failures' = IF task[waiting].ended = "failed"
                 THEN failures \cup {<<waiting, "error">>} ELSE failures
  /\ waiting' = None
  /\ UNCHANGED <<plan, next, phase, started, handles, task, health, failure, marking>>

MayTimeOut == waiting # None

\* Ten seconds: the task goes on, and nobody waits for it any more.
ShutdownTimesOut ==
  /\ MayTimeOut
  /\ failures' = failures \cup {<<waiting, "timeout">>}
  /\ waiting' = None
  /\ UNCHANGED <<plan, next, phase, started, handles, task, health, failure, marking>>

AllStopped ==
  /\ phase \in {"stopping", "rolling back"} /\ waiting = None /\ handles = <<>>
  /\ phase' = "done" /\ started' = <<>>
  /\ UNCHANGED <<plan, next, handles, waiting, task, failures, health, failure, marking>>
-----------------------------------------------------------------------------
(* SupervisedTaskHandle *)

Running(s) == task[s] # None /\ task[s].ended = "no"

\* The future returns, fails or panics; when it has been told to stop it does
\* so at the end of what it is at.
FutureEnds(s) ==
  /\ Running(s)
  /\ \E how \in {"ok", "failed"} :
       task' = [task EXCEPT ![s].ended = how, ![s].early = task[s].state = "running"]
  /\ UNCHANGED <<plan, next, phase, started, handles, waiting, failures, health, failure, marking>>

\* compare_exchange(RUNNING, EXITED)
IsExit(s) == task[s].state = "running"

\* The observer is called before the supervising task ends; that of the
\* watched service marks the application failed, unless it is draining.
FutureSettles(s) ==
  /\ task[s] # None /\ task[s].ended # "no" /\ ~task[s].joined /\ task[s].state # "exited"
  /\ IF IsExit(s)
     THEN /\ task' = [task EXCEPT ![s].state = "exited", ![s].noticed = @ + 1,
                                  ![s].joined = s # Watched \/ health = "draining"]
          /\ marking' = IF s = Watched /\ health # "draining" THEN "write" ELSE marking
     ELSE task' = [task EXCEPT ![s].joined = TRUE] /\ UNCHANGED marking
  /\ UNCHANGED <<plan, next, phase, started, handles, waiting, failures, health, failure>>

\* mark_failed: the message first, then the state.
WriteFailure ==
  /\ marking = "write" /\ marking' = "store" /\ failure' = TRUE
  /\ UNCHANGED <<plan, next, phase, started, handles, waiting, task, failures, health>>

StoreFailed ==
  /\ marking = "store" /\ marking' = "no" /\ health' = "failed"
  /\ task' = [task EXCEPT ![Watched].joined = TRUE]
  /\ UNCHANGED <<plan, next, phase, started, handles, waiting, failures, failure>>

IsReady == health = "ready" /\ ~failure
-----------------------------------------------------------------------------
Supervises(s) == FutureEnds(s) \/ FutureSettles(s)
LifecycleMoves ==
  \/ StartModule \/ AllStarted \/ AskToStop \/ ShutdownReturns \/ ShutdownTimesOut \/ AllStopped
  \/ phase = "draining" /\ ServerEnds

LifecycleNext ==
  \/ LifecycleMoves \/ StartFails \/ SignalArrives \/ ServerEnds
  \/ WriteFailure \/ StoreFailed
  \/ \E s \in Service : Supervises(s)

\* start and shutdown are sequential code whose waits have a deadline; nobody is
\* obliged to fail, to exit or to send a signal.
LifecycleFairness == WF_lifecycleVars(LifecycleMoves)

LifecycleSpec == LifecycleInit /\ [][LifecycleNext]_lifecycleVars /\ LifecycleFairness
-----------------------------------------------------------------------------
(* Properties *)

Overran(s) == <<s, "timeout">> \in failures
Gone(s) == task[s] = None \/ task[s].joined \/ Overran(s)

\* Services stop in reverse: one is asked to stop only when those started after
\* it have ended or overran their time, also in a rollback; and when the
\* process is done none runs that has not overrun.  Modules run only with
\* their dependencies.  (shutdown_reverse_with_timeout, ModulePlan::start)
ServicesStopInReverse ==
  /\ LifecycleTypes
  /\ \A i, j \in DOMAIN started :
       i < j /\ {started[i], started[j]} \subseteq Service /\ task[started[i]] # None
         /\ task[started[i]].told => Gone(started[j])
  /\ phase = "done" => \A s \in Service : Gone(s)
  /\ \A i \in DOMAIN started :
       \E k \in DOMAIN plan : /\ plan[k].name = started[i]
                              /\ plan[k].dependencies \subseteq Prefix(started, i - 1)

\* A service that ends is heard of: the observer is called once, and only when
\* nobody had asked it to stop; a failure is also in the report, unless it
\* overran.  Once a worker's exit has been recorded, no probe finds the
\* application ready, whether it came before or after the application was marked
\* so; nor while modules start or stop.  (SupervisedTaskHandle, mark_failed)
ExitsAreHeardOf ==
  /\ \A s \in Service : task[s] # None =>
       /\ task[s].noticed = IF task[s].state = "exited" THEN 1 ELSE 0
       /\ task[s].noticed = 1 => task[s].early
       /\ phase = "done" /\ task[s].ended = "failed" /\ ~Overran(s) => <<s, "error">> \in failures
  /\ IsReady => /\ phase = "serving"
                /\ task[Watched] # None /\ task[Watched].state = "exited" => marking = "write"

\* Every service is stopped in its turn, and none ends unnoticed.
ServicesStopInOrder == ServicesStopInReverse /\ ExitsAreHeardOf

\* A process that is told to stop stops, even if its tasks do not.
StopsEventually == (phase \in {"draining", "stopping", "rolling back"}) ~> (phase = "done")
=============================================================================
