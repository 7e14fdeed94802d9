------------------------- MODULE WebhookDeliveries -------------------------
(***************************************************************************)
(* The outbox of signed webhooks: rows of _appstruct_webhook_deliveries,   *)
(* the lanes that claim and send them and the administrators who put them  *)
(* back.  A claim lasts DeliveryLease ticks and nothing renews it: what    *)
(* keeps two lanes apart is that a request ends sooner (its timeout is at  *)
(* most 25 seconds, the lease 30).  One action for each statement; times   *)
(* are ticks from now.                                                     *)
(***************************************************************************)
EXTENDS Null, Naturals, FiniteSets

CONSTANTS
  Lane,              \* worker ids; a lane that starts has a new one
  Delivery,          \* ids of rows
  Endpoint,          \* endpoints that accept the event
  Event,             \* idempotency keys of published events
  DeliveryLanes,     \* lanes that run at once
  DeliveryAttempts, DeliveryBackoff, MaxDeliveryDelay, DeliveryLease,
  MaxDeliveryFaults, \* bound: crashes, stalls, lost answers of the database
  MaxDeliveryOps     \* bound: retries and replays of administrators

VARIABLES
  delivery,     \* the rows
  sending,      \* what each lane has claimed, and what it knows of the answer
  lanesStarted, \* worker ids in use or used
  alive,        \* lanes that run
  accepted,     \* external: deliveries an endpoint has answered with success
  deliveryFaults, deliveryOps

webhookVars == <<delivery, sending, lanesStarted, alive, accepted, deliveryFaults, deliveryOps>>

Status == {"pending", "delivering", "succeeded", "dead"}
Row == [endpoint : Endpoint, key : Event \cup {None}, status : Status, attempts : Nat,
        due : 0 .. MaxDeliveryDelay, by : Lane \cup {None}, lease : 0 .. DeliveryLease]

Claimed == [id : Delivery, attempts : Nat, answer : {"none", "success", "error"}]

DeliveriesAssumption ==
  /\ DeliveryAttempts \in Nat \ {0} /\ DeliveryLease \in Nat \ {0}
  /\ DeliveryBackoff \in Nat /\ MaxDeliveryDelay \in Nat
  /\ MaxDeliveryFaults \in Nat /\ MaxDeliveryOps \in Nat /\ DeliveryLanes \in Nat
  /\ None \notin Lane \cup Delivery /\ None \notin Row /\ None \notin Claimed

DeliveryTypes ==
  /\ delivery \in [Delivery -> Row \cup {None}] /\ sending \in [Lane -> Claimed \cup {None}]
  /\ alive \subseteq lanesStarted /\ lanesStarted \subseteq Lane /\ accepted \subseteq Delivery
  /\ \A w \in Lane : sending[w] # None => w \in alive
  /\ deliveryFaults \in 0 .. MaxDeliveryFaults /\ deliveryOps \in 0 .. MaxDeliveryOps

DeliveriesInit ==
  /\ delivery = [d \in Delivery |-> None]
  /\ sending = [w \in Lane |-> None]
  /\ lanesStarted = {} /\ alive = {} /\ accepted = {} /\ deliveryFaults = 0 /\ deliveryOps = 0

Lesser(x, y) == IF x < y THEN x ELSE y

Present == {d \in Delivery : delivery[d] # None}
Unused == Delivery \ Present
New(endpoint, key) ==
  [endpoint |-> endpoint, key |-> key, status |-> "pending", attempts |-> 0, due |-> 0,
   by |-> None, lease |-> 0]
-----------------------------------------------------------------------------
(* Publication, in the transaction of the business change *)

\* ON CONFLICT (idempotency_key): the key holds the endpoint's name.
Lacking(key) ==
  {e \in Endpoint : \A d \in Present : delivery[d].endpoint # e \/ delivery[d].key # key}

Publish(key) ==
  /\ Lacking(key) # {} /\ Cardinality(Lacking(key)) <= Cardinality(Unused)
  /\ \E id \in [Lacking(key) -> Unused] :
       /\ \A e, g \in Lacking(key) : e # g => id[e] # id[g]
       /\ delivery' = [d \in Delivery |->
            IF \E e \in Lacking(key) : id[e] = d
            THEN New(CHOOSE e \in Lacking(key) : id[e] = d, key) ELSE delivery[d]]
  /\ UNCHANGED <<sending, lanesStarted, alive, accepted, deliveryFaults, deliveryOps>>
-----------------------------------------------------------------------------
(* Lanes *)

\* Mutant: a claim is not taken over.
PendingOnly(d) == delivery[d] # None /\ delivery[d].status = "pending" /\ delivery[d].due = 0

Claimable(d) ==
  /\ delivery[d] # None
  /\ \/ delivery[d].status = "pending" /\ delivery[d].due = 0
     \/ delivery[d].status = "delivering" /\ delivery[d].lease = 0

\* Of the rows that are due any may come first.
ClaimDelivery(w) ==
  /\ w \in alive /\ sending[w] = None
  /\ \E d \in Delivery :
       /\ Claimable(d)
       /\ delivery' = [delivery EXCEPT ![d].status = "delivering", ![d].attempts = @ + 1,
                                       ![d].by = w, ![d].lease = DeliveryLease]
       /\ sending' = [sending EXCEPT ![w] =
            [id |-> d, attempts |-> delivery[d].attempts + 1, answer |-> "none"]]
  /\ UNCHANGED <<lanesStarted, alive, accepted, deliveryFaults, deliveryOps>>

\* The endpoint answers with success, with another status, or not in time,
\* having accepted the request or not; or the secret is missing.
Deliver(w) ==
  /\ sending[w] # None /\ sending[w].answer = "none"
  /\ \E answer \in {"success", "error"}, received \in BOOLEAN :
       /\ answer = "success" => received
       /\ sending' = [sending EXCEPT ![w].answer = answer]
       /\ accepted' = IF received THEN accepted \cup {sending[w].id} ELSE accepted
  /\ UNCHANGED <<delivery, lanesStarted, alive, deliveryFaults, deliveryOps>>

OwnsDelivery(d, w) == delivery[d].status = "delivering" /\ delivery[d].by = w

\* Without the row the lane has lost its lease, which is logged.
Settle(w, row) ==
  /\ delivery' = IF OwnsDelivery(sending[w].id, w)
                 THEN [delivery EXCEPT ![sending[w].id] = row] ELSE delivery
  /\ sending' = [sending EXCEPT ![w] = None]
  /\ UNCHANGED <<lanesStarted, alive, accepted, deliveryFaults, deliveryOps>>

CompleteDelivery(w) ==
  /\ sending[w] # None /\ sending[w].answer = "success"
  /\ Settle(w, [delivery[sending[w].id] EXCEPT !.status = "succeeded", !.by = None, !.lease = 0])

IsLastAttempt(attempts) == attempts >= DeliveryAttempts

DeliveryDelay(attempts) ==
  LET doubled == DeliveryBackoff * 2 ^ Lesser(attempts - 1, 30)
  IN  IF doubled \in 0 .. MaxDeliveryDelay THEN doubled ELSE MaxDeliveryDelay

FailDelivery(w) ==
  /\ sending[w] # None /\ sending[w].answer = "error"
  /\ LET row == [delivery[sending[w].id] EXCEPT !.by = None, !.lease = 0]
         delay == DeliveryDelay(sending[w].attempts)
     IN  Settle(w, IF IsLastAttempt(sending[w].attempts) THEN [row EXCEPT !.status = "dead"]
                   ELSE [row EXCEPT !.status = "pending", !.due = delay])

StartLane(w) ==
  /\ w \notin lanesStarted /\ Cardinality(alive) < DeliveryLanes
  /\ lanesStarted' = lanesStarted \cup {w} /\ alive' = alive \cup {w}
  /\ UNCHANGED <<delivery, sending, accepted, deliveryFaults, deliveryOps>>
-----------------------------------------------------------------------------
(* Administrators: the row is locked, checked and written in one transaction *)

RetryDelivery(d) ==
  /\ deliveryOps < MaxDeliveryOps /\ delivery[d] # None /\ delivery[d].status = "dead"
  /\ delivery' = [delivery EXCEPT ![d] = New(delivery[d].endpoint, delivery[d].key)]
  /\ deliveryOps' = deliveryOps + 1
  /\ UNCHANGED <<sending, lanesStarted, alive, accepted, deliveryFaults>>

ReplayDelivery(d) ==
  /\ deliveryOps < MaxDeliveryOps
  /\ delivery[d] # None /\ delivery[d].status \in {"succeeded", "dead"}
  /\ \E new \in Unused : delivery' = [delivery EXCEPT ![new] = New(delivery[d].endpoint, None)]
  /\ deliveryOps' = deliveryOps + 1
  /\ UNCHANGED <<sending, lanesStarted, alive, accepted, deliveryFaults>>
-----------------------------------------------------------------------------
(* Time and faults *)

Passed(row) == [row EXCEPT !.due = IF @ = 0 THEN 0 ELSE @ - 1,
                           !.lease = IF @ = 0 THEN 0 ELSE @ - 1]
TimePasses == delivery' = [d \in Delivery |-> IF delivery[d] = None THEN None
                                              ELSE Passed(delivery[d])]
TimeMatters == \E d \in Present : delivery[d].due > 0 \/ delivery[d].lease > 0

\* Mutant: the request's timeout may exceed the lease.
NoTimeout == TRUE

\* A lane that runs has its answer or its timeout, and writes it, before its
\* claim ends.
RequestsEndInTime ==
  \A w \in Lane : sending[w] # None /\ OwnsDelivery(sending[w].id, w) =>
    delivery[sending[w].id].lease > 1

DeliveryTick ==
  /\ TimeMatters /\ RequestsEndInTime /\ TimePasses
  /\ UNCHANGED <<sending, lanesStarted, alive, accepted, deliveryFaults, deliveryOps>>

\* The lanes or their database stand still for a while.
StallLanes ==
  /\ TimeMatters /\ ~RequestsEndInTime /\ deliveryFaults < MaxDeliveryFaults /\ TimePasses
  /\ deliveryFaults' = deliveryFaults + 1
  /\ UNCHANGED <<sending, lanesStarted, alive, accepted, deliveryOps>>

\* The statement that settles fails; the lane goes on with other rows.
LoseDatabase(w) ==
  /\ sending[w] # None /\ sending[w].answer # "none" /\ deliveryFaults < MaxDeliveryFaults
  /\ sending' = [sending EXCEPT ![w] = None] /\ deliveryFaults' = deliveryFaults + 1
  /\ UNCHANGED <<delivery, lanesStarted, alive, accepted, deliveryOps>>

\* A request that was sent may still arrive.
CrashLane(w) ==
  /\ w \in alive /\ deliveryFaults < MaxDeliveryFaults
  /\ alive' = alive \ {w} /\ sending' = [sending EXCEPT ![w] = None]
  /\ \/ UNCHANGED accepted
     \/ sending[w] # None /\ accepted' = accepted \cup {sending[w].id}
  /\ deliveryFaults' = deliveryFaults + 1
  /\ UNCHANGED <<delivery, lanesStarted, deliveryOps>>
-----------------------------------------------------------------------------
LaneGoes(w) ==
  ClaimDelivery(w) \/ Deliver(w) \/ CompleteDelivery(w) \/ FailDelivery(w) \/ StartLane(w)

DeliveriesNext ==
  \/ \E key \in Event \cup {None} : Publish(key)
  \/ \E w \in Lane : LaneGoes(w) \/ LoseDatabase(w) \/ CrashLane(w)
  \/ \E d \in Delivery : RetryDelivery(d) \/ ReplayDelivery(d)
  \/ DeliveryTick \/ StallLanes

\* A lane never leaves its loop and its requests end; processes that went are
\* started again; database time passes.
DeliveriesFairness == (\A w \in Lane : WF_webhookVars(LaneGoes(w))) /\ WF_webhookVars(DeliveryTick)

DeliveriesSpec == DeliveriesInit /\ [][DeliveriesNext]_webhookVars /\ DeliveriesFairness
-----------------------------------------------------------------------------
(* Properties *)

\* While nothing failed no delivery is in the hands of two lanes, although no
\* heartbeat renews a claim; and what counts as delivered has been accepted
\* by its endpoint.  (WebhookWorker::run_once, claim, complete)
DeliveriesAreApart ==
  /\ DeliveryTypes
  /\ deliveryFaults = 0 => \A v, w \in Lane : v # w /\ sending[v] # None /\ sending[w] # None
                                        => sending[v].id # sending[w].id
  /\ \A d \in Present : delivery[d].status = "succeeded" => d \in accepted

\* A delivery that was published is delivered or given up, whatever crashes,
\* as long as lanes run.  (claim, fail)
EveryDeliverySettles ==
  \A d \in Delivery :
    (delivery[d] # None /\ delivery[d].status \in {"pending", "delivering"})
      ~> (delivery[d] # None /\ delivery[d].status \in {"succeeded", "dead"})
=============================================================================
