------------------------------ MODULE MCLeases ------------------------------
(* Whatever is claimed for a time, for TLC: jobs, webhook deliveries,          *)
(* schedules and the edit leases of records, and the writes of records, which  *)
(* go by revisions and not by the lease.  They share no row, so that an        *)
(* instance is about one of them, chosen initially.  All that is checked is of *)
(* the five modules, by name.                                                  *)
EXTENDS JobQueue, Schedules, WebhookDeliveries, EditLeases, EntityWrites, TLC

CONSTANTS w1, w2, w3, a1, k1, mail, p1, p2

VARIABLE part

AnyKind == [w \in Worker |-> Kind]
Immediately == {0}
TwoOfThree == [t \in Tab |-> IF t = "c" THEN "other" ELSE "owner"]
OneShorter == [t \in Tab |-> IF t = "b" THEN 1 ELSE 2]
ThreeAndTwo == [r |-> 3, s |-> 2]
-----------------------------------------------------------------------------
Named(n, every, period) == [name |-> n, every |-> every, period |-> period]
TwoReleases == {<<Named("a", TRUE, 2), Named("b", FALSE, 2)>>, <<Named("a", TRUE, 3)>>}

ASSUME DeliveriesAssumption /\ LeasesAssumption /\ SchedulesAssumption /\ WritesAssumption
-----------------------------------------------------------------------------
\* What is not looked at keeps one of its initial states.
ClaimsInit ==
  /\ part \in {"jobs", "webhooks", "schedules", "edit leases", "records"}
  /\ Init
  /\ part # "jobs" => pc = CHOOSE p \in [Worker -> {"new", "idle"}] :
                             Cardinality({w \in Worker : p[w] = "idle"}) = Lanes
  /\ SchedulesInit /\ DeliveriesInit /\ LeasesInit /\ WritesInit

Claims ==
  \/ part = "jobs" /\ Next /\ UNCHANGED <<webhookVars, schedulesVars, leaseVars>>
  \/ part = "webhooks" /\ DeliveriesNext /\ UNCHANGED <<vars, schedulesVars, leaseVars>>
  \/ part = "schedules" /\ SchedulesNext /\ UNCHANGED <<vars, webhookVars, leaseVars>>
  \/ part = "edit leases" /\ LeasesNext /\ UNCHANGED <<vars, webhookVars, schedulesVars>>

ClaimsNext ==
  /\ \/ Claims /\ UNCHANGED writeVars
     \/ /\ part = "records" /\ WritesNext
        /\ UNCHANGED <<vars, webhookVars, schedulesVars, leaseVars>>
  /\ UNCHANGED part

ClaimsSpec ==
  /\ ClaimsInit
  /\ [][ClaimsNext]_<<part, vars, webhookVars, schedulesVars, leaseVars, writeVars>>

Alike == Permutations(Worker) \cup Permutations(Process)
=============================================================================
