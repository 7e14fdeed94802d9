----------------------------- MODULE MCServices -----------------------------
(* What is deployed and what goes on in the background, for TLC with fairness: *)
(* the migration runner, the modules an application enables, the lifecycle of  *)
(* a process, webhook deliveries, schedules and the maintenance of stored      *)
(* files.  They share no row, so that an instance is about one of them, chosen *)
(* initially; the fairness of each is stated for it.                           *)
EXTENDS MigrationRunner, ModuleLifecycle, TLC

CONSTANTS p1, p2, b1, tx, off, w1, w2, d1, e1, k1, f1

VARIABLES
  part,
  on, local,
  delivery, sending, lanesStarted, alive, accepted, deliveryFaults, deliveryOps,
  clock, schedule, running, starts, jobs, manual, last, mishaps,
  row, objects, upload, expiredUploads, record, mention, doing, broken, fileFaults

moduleVars == <<on, local>>
webhookVars == <<delivery, sending, lanesStarted, alive, accepted, deliveryFaults, deliveryOps>>
scheduleVars == <<clock, schedule, running, starts, jobs, manual, last, mishaps>>
fileVars == <<row, objects, upload, expiredUploads, record, mention, doing, broken, fileFaults>>
serviceVars == <<part, vars, moduleVars, lifecycleVars, webhookVars, scheduleVars, fileVars>>
-----------------------------------------------------------------------------
Applications == INSTANCE MCModulePlans WITH
  Option <- {"activity", "attachments", "audit", "auth", "file", "jobs", "mail", "realtime",
             "report", "tenant", "webhooks"},
  FewOptions <- {"auth", "jobs"}, LocalNames <- {"a local module", "local module"},
  Provided <- {"x", "y"}, Needed <- {"x", "y", "auth.identity"}

Mail == [name |-> "mail", dependencies |-> {}]
Jobs(dependencies) == [name |-> "jobs", dependencies |-> dependencies]
Hooks == [name |-> "webhooks", dependencies |-> {}]
PlanOfThree == <<Mail, Jobs({"mail"}), Hooks>>
PlansToStart == {PlanOfThree, <<Jobs({"mail"}), Mail, Hooks>>, <<Hooks, Hooks, Jobs({})>>}

Webhooks == INSTANCE WebhookDeliveries WITH
  Lane <- {w1, w2}, Delivery <- {d1}, Endpoint <- {e1}, Event <- {k1},
  DeliveryLanes <- 1, DeliveryAttempts <- 2, DeliveryBackoff <- 1, MaxDeliveryDelay <- 1,
  DeliveryLease <- 2, MaxDeliveryFaults <- 1, MaxDeliveryOps <- 1

Named(n, every, period) == [name |-> n, every |-> every, period |-> period]
Schedules == INSTANCE Schedules WITH
  Process <- {"q"}, Schedule <- {"a", "b"},
  Releases <- {<<Named("a", TRUE, 2), Named("b", FALSE, 2)>>},
  PerSecond <- 2, MaxClock <- 3, MaxStarts <- 2, MaxMishaps <- 1, MaxManual <- 1

Files == INSTANCE StoredFiles WITH
  Process <- {"m", "n"}, File <- {f1}, Comment <- {f1}, BusinessRecord <- {"r"}, Session <- {},
  Library <- "library", MaxPending <- 0, MaxAttached <- 1, Batch <- 1, MaxFileFaults <- 1

ASSUME /\ LifecycleAssumption /\ Webhooks!DeliveriesAssumption
       /\ Schedules!SchedulesAssumption /\ Files!FilesAssumption
-----------------------------------------------------------------------------
\* What is not looked at keeps one of its initial states.
ServicesInit ==
  /\ part \in {"migration", "modules", "lifecycle", "webhooks", "schedules", "files"}
  /\ Init /\ (part # "migration" => \A i \in Id : files[i] = None /\ structure[i] = None)
  /\ Applications!PlansInit
  /\ LifecycleInit /\ (part # "lifecycle" => plan = PlanOfThree)
  /\ Webhooks!DeliveriesInit /\ Schedules!SchedulesInit /\ Files!FilesInit

ServicesNext ==
  /\ \/ /\ part = "migration" /\ Next
        /\ UNCHANGED <<moduleVars, lifecycleVars, webhookVars, scheduleVars, fileVars>>
     \/ /\ part = "modules" /\ Applications!PlansNext
        /\ UNCHANGED <<vars, lifecycleVars, webhookVars, scheduleVars, fileVars>>
     \/ /\ part = "lifecycle" /\ LifecycleNext
        /\ UNCHANGED <<vars, moduleVars, webhookVars, scheduleVars, fileVars>>
     \/ /\ part = "webhooks" /\ Webhooks!DeliveriesNext
        /\ UNCHANGED <<vars, moduleVars, lifecycleVars, scheduleVars, fileVars>>
     \/ /\ part = "schedules" /\ Schedules!SchedulesNext
        /\ UNCHANGED <<vars, moduleVars, lifecycleVars, webhookVars, fileVars>>
     \/ /\ part = "files" /\ Files!FilesNext
        /\ UNCHANGED <<vars, moduleVars, lifecycleVars, webhookVars, scheduleVars>>
  /\ UNCHANGED part

In(p, action) == part = p /\ action

ServicesFairness ==
  /\ \A p \in Process :
       /\ WF_vars(In("migration", Proceeds(p))) /\ SF_vars(In("migration", Lock(p)))
  /\ WF_lifecycleVars(In("lifecycle", LifecycleMoves))
  /\ \A w \in {w1, w2} : WF_webhookVars(In("webhooks", Webhooks!LaneGoes(w)))
  /\ WF_webhookVars(In("webhooks", Webhooks!DeliveryTick))
  /\ WF_scheduleVars(In("schedules", Schedules!ScheduleDue("q")))
  /\ (\A m \in {"m", "n"} : WF_fileVars(In("files", Files!FileGoes(m))))
  /\ WF_fileVars(In("files", Files!Age(f1)))
  /\ SF_fileVars(In("files", \E m \in {"m", "n"} : Files!ListObject(m, f1)))
  /\ SF_fileVars(In("files", \E m \in {"m", "n"} : Files!Collect(m) /\ f1 \in doing'[m].files))

ServicesSpec == ServicesInit /\ [][ServicesNext]_serviceVars /\ ServicesFairness
-----------------------------------------------------------------------------
(* What is checked; DeploymentsExtendHistory and ServicesStopInOrder are checked *)
(* by name.                                                                      *)

\* Whatever is enabled, the plan exists exactly if it can, and works exactly if no
\* module requires what it provides itself (resolve_modules, descriptor_arm).
ApplicationsStart == part = "modules" => Applications!ApplicationsStart

\* A migration run ends (MigrationRunner), a process that is told to stop stops
\* (ModuleLifecycle).
RunsAndStopsEnd == EveryRunEnds /\ StopsEventually

\* A published delivery is settled (WebhookDeliveries), and a schedule that is
\* due is claimed (Schedules).
DueWorkIsDone == Webhooks!EveryDeliverySettles /\ Schedules!DueSchedulesAreClaimed

\* Objects and claims that were left behind go (StoredFiles).
LeftoversGo == Files!LeftoversGo
=============================================================================
