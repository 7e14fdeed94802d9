---------------------------- MODULE Subscriptions ----------------------------
(***************************************************************************)
(* The subscriptions of one organization: what the payment provider holds, *)
(* what billing_subscriptions says of it, and the events, delivered late,  *)
(* repeatedly and in any order, that bring the two together.               *)
(*                                                                         *)
(* An event only says that something changed: its handler takes an         *)
(* advisory lock on the subscription, asks the provider for its present    *)
(* state and writes it over a row of an event that is not newer.  Versions *)
(* stand for the states of a subscription, the last of them for its end;   *)
(* PerSecond of them share a timestamp.                                    *)
(***************************************************************************)
EXTENDS Null, Naturals, FiniteSets

CONSTANTS
  Handler,    \* connections that serve webhooks, replays and checkouts
  Subscription,
  Customer,   \* ids the provider gives to customers
  Last,       \* version in which a subscription has ended
  PerSecond,  \* bound: changes within one second
  MaxReplays, \* bound: replays by administrators
  MaxTries    \* bound: handlers that begin

VARIABLES
  remote,       \* external: version and customer the provider holds, None before
  subscription, \* billing_subscriptions
  customer,     \* billing_customers.provider_customer_id
  recorded,     \* ids in billing_events
  advisory,     \* advisory lock of each subscription
  handling,     \* what each handler is doing
  session,      \* external: customers of open checkout sessions
  replays, tries

billingVars ==
  <<remote, subscription, customer, recorded, advisory, handling, session, replays, tries>>

Version == 1 .. Last
CreatedAt(v) == v \div PerSecond
\* An event is about a version; a replay of it has an id of its own.
EventId == Subscription \X Version \X (0 .. MaxReplays)
Sub(e) == e[1]
Of(e) == e[2]
Remote == [version : Version, customer : Customer]
Row == [version : Version, at : Nat, updated : 1 .. MaxTries]
Handling ==
  [does : {"event"}, event : EventId, begun : 1 .. MaxTries, step : {"wait", "read", "write"},
   version : Version \cup {None}]
  \cup [does : {"checkout"}, step : {"lookup", "ask", "link", "open"},
        customer : Customer \cup {None}]

SubscriptionsAssumption ==
  /\ Last \in Nat \ {0} /\ PerSecond \in Nat \ {0} /\ MaxReplays \in Nat /\ MaxTries \in Nat
  /\ None \notin Handler /\ None \notin Customer /\ None \notin Version
  /\ None \notin Remote /\ None \notin Row /\ None \notin Handling

BillingTypes ==
  /\ remote \in [Subscription -> Remote \cup {None}]
  /\ subscription \in [Subscription -> Row \cup {None}]
  /\ advisory \in [Subscription -> Handler \cup {None}]
  /\ customer \in Customer \cup {None} /\ recorded \subseteq EventId
  /\ handling \in [Handler -> Handling \cup {None}]
  /\ session \subseteq Customer /\ replays \in 0 .. MaxReplays /\ tries \in 0 .. MaxTries

BillingInit ==
  /\ remote = [s \in Subscription |-> None]
  /\ subscription = [s \in Subscription |-> None] /\ customer = None
  /\ recorded = {} /\ advisory = [s \in Subscription |-> None]
  /\ handling = [h \in Handler |-> None] /\ session = {} /\ replays = 0 /\ tries = 0

Doing(h, what, step) ==
  handling[h] # None /\ handling[h].does = what /\ handling[h].step = step
HandlerGoes(h, f) == handling' = [handling EXCEPT ![h] = f]
-----------------------------------------------------------------------------
(* Events *)

Sent == {e \in EventId : remote[Sub(e)] # None /\ Of(e) <= remote[Sub(e)].version}
Happened == {e \in Sent : e[3] = 0}

\* A transaction begins: CURRENT_TIMESTAMP is the number of transactions begun.
HandleEvent(h, e) ==
  /\ handling[h] = None /\ tries < MaxTries
  /\ tries' = tries + 1
  /\ HandlerGoes(h, [does |-> "event", event |-> e, begun |-> tries + 1, step |-> "wait",
              version |-> None])

DeliverEvent(h) ==
  /\ \E e \in Happened : HandleEvent(h, e)
  /\ UNCHANGED <<remote, subscription, customer, recorded, advisory, session, replays>>

ReplayEvent(h) ==
  /\ replays < MaxReplays
  /\ \E e \in recorded : e[3] = 0 /\ HandleEvent(h, <<Sub(e), Of(e), replays + 1>>)
  /\ replays' = replays + 1
  /\ UNCHANGED <<remote, subscription, customer, recorded, advisory, session>>

\* Mutants: events of a subscription do not wait for each other; only an event
\* newer than the row's writes it; the answer to the creation is used.
NeverWaits(s) == TRUE
OnlyNewer(old, e) == old = None \/ old.at < CreatedAt(Of(e))
OwnAnswer(h) == handling[h].customer

NobodyHandles(s) == advisory[s] = None

\* WHERE provider_event_created_at <= EXCLUDED.provider_event_created_at
NotOlder(old, e) == old = None \/ old.at <= CreatedAt(Of(e))

LockSubscription(h) ==
  /\ Doing(h, "event", "wait")
  /\ LET e == handling[h].event
     IN  /\ NobodyHandles(Sub(e))
         /\ IF e \in recorded
            THEN HandlerGoes(h, None) /\ UNCHANGED advisory
            ELSE /\ HandlerGoes(h, [handling[h] EXCEPT !.step = "read"])
                 /\ advisory' = [advisory EXCEPT ![Sub(e)] = h]
  /\ UNCHANGED <<remote, subscription, customer, recorded, session, replays, tries>>

ReadRemote(h) ==
  /\ Doing(h, "event", "read")
  /\ LET r == remote[Sub(handling[h].event)]
     IN  /\ r.customer = customer
         /\ HandlerGoes(h, [handling[h] EXCEPT !.step = "write", !.version = r.version])
  /\ UNCHANGED <<remote, subscription, customer, recorded, advisory, session, replays, tries>>

Unlocked(h) == [s \in Subscription |-> IF advisory[s] = h THEN None ELSE advisory[s]]

WriteSubscription(h) ==
  /\ Doing(h, "event", "write")
  /\ LET e == handling[h].event
         s == Sub(e)
     IN  /\ subscription' =
              IF NotOlder(subscription[s], e)
              THEN [subscription EXCEPT ![s] =
                     [version |-> handling[h].version, at |-> CreatedAt(Of(e)),
                      updated |-> handling[h].begun]]
              ELSE subscription
         /\ recorded' = recorded \cup {e}
  /\ advisory' = Unlocked(h) /\ HandlerGoes(h, None)
  /\ UNCHANGED <<remote, customer, session, replays, tries>>

\* The provider does not answer, the customer is not the organization's, or the
\* connection is lost: the transaction is rolled back.
GiveUp(h) ==
  /\ handling[h] # None
  /\ advisory' = Unlocked(h) /\ HandlerGoes(h, None)
  /\ UNCHANGED <<remote, subscription, customer, recorded, session, replays, tries>>
-----------------------------------------------------------------------------
(* Checkout *)

IsActive(v) == v < Last
RowsPresent == {s \in Subscription : subscription[s] # None}
\* ORDER BY updated_at DESC LIMIT 1
Current ==
  {s \in RowsPresent : \A t \in RowsPresent : subscription[t].updated <= subscription[s].updated}
Subscribed == \E s \in Current : IsActive(subscription[s].version)

Checkout(h) ==
  /\ handling[h] = None /\ tries < MaxTries /\ ~Subscribed
  /\ tries' = tries + 1
  /\ HandlerGoes(h, [does |-> "checkout", step |-> "lookup", customer |-> None])
  /\ UNCHANGED <<remote, subscription, customer, recorded, advisory, session, replays>>

Step(h, from, to, c) ==
  /\ Doing(h, "checkout", from)
  /\ HandlerGoes(h, [does |-> "checkout", step |-> to, customer |-> c])
  /\ UNCHANGED <<remote, subscription, recorded, advisory, session, replays, tries>>

LookUpCustomer(h) ==
  /\ IF customer = None THEN Step(h, "lookup", "ask", None)
                        ELSE Step(h, "lookup", "open", customer)
  /\ UNCHANGED customer

\* The provider remembers the key of the request for a while only, so that a
\* second request may be answered with another customer.
CreateCustomer(h) ==
  /\ \E c \in Customer : Step(h, "ask", "link", c)
  /\ UNCHANGED customer

\* Two statements: INSERT ... ON CONFLICT (organization_id) DO NOTHING, and the
\* SELECT that sees the row of whoever was first.
LinkedCustomer(h) == IF customer = None THEN handling[h].customer ELSE customer

LinkCustomer(h) ==
  /\ Step(h, "link", "open", LinkedCustomer(h))
  /\ customer' = IF customer = None THEN handling[h].customer ELSE customer

OpenSession(h) ==
  /\ Doing(h, "checkout", "open")
  /\ session' = session \cup {handling[h].customer} /\ HandlerGoes(h, None)
  /\ UNCHANGED <<remote, subscription, customer, recorded, advisory, replays, tries>>
-----------------------------------------------------------------------------
(* The provider *)

Complete(s) ==
  /\ remote[s] = None
  /\ \E c \in session :
       /\ remote' = [remote EXCEPT ![s] = [version |-> 1, customer |-> c]]
       /\ session' = session \ {c}
  /\ UNCHANGED <<subscription, customer, recorded, advisory, handling, replays, tries>>

Change(s) ==
  /\ remote[s] # None /\ remote[s].version < Last
  /\ remote' = [remote EXCEPT ![s].version = @ + 1]
  /\ UNCHANGED <<subscription, customer, recorded, advisory, handling, session, replays, tries>>

Handles(h) ==
  \/ DeliverEvent(h) \/ ReplayEvent(h) \/ LockSubscription(h) \/ ReadRemote(h)
  \/ WriteSubscription(h) \/ GiveUp(h)
  \/ Checkout(h) \/ LookUpCustomer(h) \/ CreateCustomer(h) \/ LinkCustomer(h) \/ OpenSession(h)

BillingNext ==
  (\E h \in Handler : Handles(h)) \/ (\E s \in Subscription : Complete(s) \/ Change(s))

BillingSpec == BillingInit /\ [][BillingNext]_billingVars
-----------------------------------------------------------------------------
(* Properties *)

\* No order and no repetition of events makes a subscription's row go back to
\* an earlier state of the provider (reconcile_subscription).
GoesForward ==
  \A s \in Subscription :
    subscription[s] # None => subscription'[s].version >= subscription[s].version
AccessNeverReturns == [][GoesForward]_billingVars

\* Once everything that happened has been told, the rows say what the provider
\* holds, whatever came late and whoever replayed what (reconcile_subscription).
RowsCatchUp ==
  Happened \subseteq recorded =>
    \A s \in Subscription :
      remote[s] # None =>
        subscription[s] # None /\ subscription[s].version = remote[s].version

\* Whatever requests race to create the customer, a session is opened only for
\* the one the organization is linked to, the one whose events are accepted.
PaysAsOneCustomer ==
  /\ session \subseteq {customer}
  /\ \A s \in Subscription : remote[s] # None => remote[s].customer = customer

\* The rows follow the subscriptions of one customer.
ProviderIsFollowed == BillingTypes /\ RowsCatchUp /\ PaysAsOneCustomer

\* The organization has access exactly as long as a subscription of it has.
AccessIsTheProviders ==
  Happened \subseteq recorded /\ (\A h \in Handler : handling[h] = None) =>
    (Subscribed <=> \E s \in Subscription : remote[s] # None /\ IsActive(remote[s].version))
=============================================================================
