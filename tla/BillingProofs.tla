---------------------------- MODULE BillingProofs ----------------------------
(***************************************************************************)
(* Proofs about Subscriptions for any number of handlers, subscriptions,   *)
(* customers, versions and changes within a second, and about CreditLedger *)
(* for any actors, operations, packs, months, allowances and prices.       *)
(***************************************************************************)
EXTENDS Subscriptions, CreditLedger, FiniteSetTheorems, WellFoundedInduction, TLAPS

\* The provider has had the state that an event is about.
Known(e) == remote[Sub(e)] # None /\ Of(e) <= remote[Sub(e)].version

\* What is handled has happened, under the lock of its subscription once it is
\* being read; what has been read is no older than the row nor the event.
Handled(h) ==
  handling[h] # None /\ handling[h].does = "event" =>
    LET e == handling[h].event
        s == Sub(e)
    IN  /\ Known(e)
        /\ handling[h].step \in {"read", "write"} => advisory[s] = h
        /\ handling[h].step = "write" =>
             /\ handling[h].version \in Version
             /\ Of(e) <= handling[h].version /\ handling[h].version <= remote[s].version
             /\ subscription[s] # None => subscription[s].version <= handling[h].version
EventsHandled == \A h \in Handler : Handled(h)

\* A row holds a state no older than the event that wrote it, and the time of that
\* event, which decides whether a later one overwrites it.
RowsAreKnown ==
  \A s \in Subscription : subscription[s] # None =>
    /\ remote[s] # None /\ subscription[s].version <= remote[s].version
    /\ subscription[s].at <= CreatedAt(subscription[s].version)

\* What has been told is shown, or what came after it.
RecordedIsShown ==
  \A e \in recorded : /\ Known(e) /\ subscription[Sub(e)] # None
                      /\ Of(e) <= subscription[Sub(e)].version

\* A session is opened for the customer the organization is linked to.
Linking(h) ==
  /\ Doing(h, "checkout", "link") => handling[h].customer # None
  /\ Doing(h, "checkout", "open") => customer # None /\ handling[h].customer = customer
CustomersLinked == \A h \in Handler : Linking(h)

BillingInv ==
  /\ BillingTypes /\ EventsHandled /\ RowsAreKnown /\ RecordedIsShown
  /\ CustomersLinked /\ PaysAsOneCustomer

LEMMA BillingInvInit ==
  ASSUME SubscriptionsAssumption, BillingInit
  PROVE  BillingInv
  BY DEF SubscriptionsAssumption, BillingInit, BillingInv, BillingTypes, EventsHandled, Handled,
         RowsAreKnown, RecordedIsShown, CustomersLinked, Linking, Doing, PaysAsOneCustomer

\* Later states have no earlier timestamps.
LEMMA TimeOrder ==
  ASSUME SubscriptionsAssumption, NEW v \in Version, NEW w \in Version
  PROVE  CreatedAt(v) \in Nat /\ (v <= w => CreatedAt(v) <= CreatedAt(w))
<1> DEFINE q == v \div PerSecond
           r == v % PerSecond
           x == w \div PerSecond
           y == w % PerSecond
<1>1. v = PerSecond * q + r /\ r \in 0 .. PerSecond - 1 /\ q \in Nat
  BY DEF SubscriptionsAssumption, Version
<1>2. w = PerSecond * x + y /\ y \in 0 .. PerSecond - 1 /\ x \in Nat
  BY DEF SubscriptionsAssumption, Version
<1> HIDE DEF q, r, x, y
<1>3. ASSUME x < q PROVE w < v
  <2>1. PerSecond * (x + 1) <= PerSecond * q
    BY <1>1, <1>2, <1>3 DEF SubscriptionsAssumption
  <2> QED BY <1>1, <1>2, <2>1 DEF SubscriptionsAssumption, Version
<1>4. v <= w => q <= x
  BY <1>1, <1>2, <1>3 DEF Version
<1> QED BY <1>1, <1>4 DEF q, x, CreatedAt

LEMMA EventParts ==
  ASSUME SubscriptionsAssumption, NEW e \in EventId
  PROVE  Sub(e) \in Subscription /\ Of(e) \in Version /\ e[3] \in 0 .. MaxReplays
  BY DEF EventId, Sub, Of

\* A handler's step that changes nothing but what it does.
LEMMA HandlerStep ==
  ASSUME SubscriptionsAssumption, BillingInv, NEW h \in Handler, NEW f \in Handling \cup {None},
         HandlerGoes(h, f), NEW n \in 0 .. MaxTries, tries' = n, NEW m \in 0 .. MaxReplays, replays' = m,
         UNCHANGED <<remote, subscription, customer, recorded, advisory, session>>,
         Handled(h)', Linking(h)'
  PROVE  BillingInv'
<1> USE DEF BillingInv
<1>1. /\ handling' = [handling EXCEPT ![h] = f]
      /\ \A g \in Handler \ {h} : handling'[g] = handling[g]
  BY DEF HandlerGoes, BillingTypes
<1>2. BillingTypes'
  BY <1>1 DEF BillingTypes
<1>3. EventsHandled'
  BY <1>1 DEF EventsHandled, Handled, Known
<1>4. RowsAreKnown' /\ RecordedIsShown' /\ PaysAsOneCustomer'
  BY DEF RowsAreKnown, RecordedIsShown, PaysAsOneCustomer, Known
<1>5. CustomersLinked'
  BY <1>1 DEF CustomersLinked, Linking, Doing
<1> QED BY <1>2, <1>3, <1>4, <1>5

LEMMA BeginsStep ==
  ASSUME SubscriptionsAssumption, BillingInv, NEW h \in Handler,
         DeliverEvent(h) \/ ReplayEvent(h)
  PROVE  BillingInv'
<1> USE DEF SubscriptionsAssumption, BillingInv, BillingTypes
<1>1. PICK e \in EventId : Known(e) /\ HandleEvent(h, e)
  <2>1. CASE DeliverEvent(h)
    BY <2>1 DEF DeliverEvent, Happened, Sent, Known
  <2>2. CASE ReplayEvent(h)
    <3>1. PICK d \in recorded : HandleEvent(h, <<Sub(d), Of(d), replays + 1>>)
      BY <2>2 DEF ReplayEvent
    <3>2. /\ Known(d) /\ Sub(d) \in Subscription /\ Of(d) \in Version
          /\ replays + 1 \in 0 .. MaxReplays
      BY <2>2, <3>1, EventParts DEF RecordedIsShown, ReplayEvent
    <3>3. <<Sub(d), Of(d), replays + 1>> \in EventId
      BY <3>2 DEF EventId
    <3>4. Known(<<Sub(d), Of(d), replays + 1>>)
      BY <3>2 DEF Known, Sub, Of
    <3> QED BY <3>1, <3>3, <3>4
  <2> QED BY <2>1, <2>2
<1> DEFINE f == [does |-> "event", event |-> e, begun |-> tries + 1, step |-> "wait",
                 version |-> None]
<1>2. f \in Handling /\ HandlerGoes(h, f) /\ tries' \in 0 .. MaxTries
  BY <1>1 DEF HandleEvent, Handling
<1>3. /\ UNCHANGED <<remote, subscription, customer, recorded, advisory, session>>
      /\ replays' \in 0 .. MaxReplays
  BY DEF DeliverEvent, ReplayEvent
<1>4. handling'[h] = f
  BY <1>2 DEF HandlerGoes
<1>5. Handled(h)' /\ Linking(h)'
  BY <1>1, <1>3, <1>4 DEF Handled, Known, Linking, Doing
<1> HIDE DEF f, BillingInv
<1> QED BY <1>2, <1>3, <1>5, HandlerStep

LEMMA LockStep ==
  ASSUME SubscriptionsAssumption, BillingInv, NEW h \in Handler, LockSubscription(h)
  PROVE  BillingInv'
<1> USE DEF SubscriptionsAssumption, BillingInv, BillingTypes
<1> DEFINE e == handling[h].event
           f == [handling[h] EXCEPT !.step = "read"]
<1>1. /\ handling[h] # None /\ handling[h].does = "event" /\ handling[h].step = "wait"
      /\ e \in EventId /\ Sub(e) \in Subscription /\ Known(e) /\ advisory[Sub(e)] = None
  BY EventParts DEF LockSubscription, Doing, Handling, EventsHandled, Handled, NobodyHandles
<1>2. CASE e \in recorded
  <2>1. HandlerGoes(h, None) /\ UNCHANGED <<remote, subscription, customer, recorded, advisory, session,
                                            replays, tries>>
    BY <1>2 DEF LockSubscription
  <2>2. handling'[h] = None
    BY <2>1 DEF HandlerGoes
  <2>3. Handled(h)' /\ Linking(h)'
    BY <2>2 DEF Handled, Linking, Doing
  <2>4. tries' \in 0 .. MaxTries /\ replays' \in 0 .. MaxReplays
    BY <2>1
  <2> HIDE DEF e, BillingInv
  <2> QED BY <2>1, <2>3, <2>4, HandlerStep
<1>3. CASE e \notin recorded
  <2>1. /\ HandlerGoes(h, f) /\ advisory' = [advisory EXCEPT ![Sub(e)] = h]
        /\ UNCHANGED <<remote, subscription, customer, recorded, session, replays, tries>>
    BY <1>3 DEF LockSubscription
  <2>2. f \in Handling /\ f.does = "event" /\ f.event = e /\ f.step = "read"
    BY <1>1 DEF Handling
  <2>3. handling'[h] = f /\ \A g \in Handler \ {h} : handling'[g] = handling[g]
    BY <2>1 DEF HandlerGoes
  <2>4. BillingTypes'
    BY <1>1, <2>1, <2>2 DEF HandlerGoes
  <2> HIDE DEF f
  <2>5. Handled(h)'
    BY <1>1, <2>1, <2>2, <2>3 DEF Handled, Known
  <2>6. ASSUME NEW g \in Handler \ {h} PROVE Handled(g)'
    BY <1>1, <2>1, <2>3 DEF EventsHandled, Handled, Known
  <2>7. RowsAreKnown' /\ RecordedIsShown' /\ PaysAsOneCustomer'
    BY <2>1 DEF RowsAreKnown, RecordedIsShown, PaysAsOneCustomer, Known
  <2>8. CustomersLinked'
    BY <2>1, <2>2, <2>3 DEF CustomersLinked, Linking, Doing
  <2> QED BY <2>4, <2>5, <2>6, <2>7, <2>8 DEF EventsHandled
<1> QED BY <1>2, <1>3

LEMMA ReadStep ==
  ASSUME SubscriptionsAssumption, BillingInv, NEW h \in Handler, ReadRemote(h)
  PROVE  BillingInv'
<1> USE DEF SubscriptionsAssumption, BillingInv, BillingTypes
<1> DEFINE e == handling[h].event
           r == remote[Sub(e)]
           f == [handling[h] EXCEPT !.step = "write", !.version = r.version]
<1>1. /\ handling[h] # None /\ handling[h].does = "event" /\ handling[h].step = "read"
      /\ e \in EventId /\ Sub(e) \in Subscription /\ Known(e) /\ advisory[Sub(e)] = h
  BY EventParts DEF ReadRemote, Doing, Handling, EventsHandled, Handled
<1>2. r \in Remote /\ r.version \in Version
  BY <1>1 DEF Known, Remote
<1>3. /\ f \in Handling /\ f.does = "event" /\ f.event = e /\ f.step = "write"
      /\ f.version = r.version
  BY <1>1, <1>2, ZenonT(40) DEF Handling
<1>4. HandlerGoes(h, f) /\ UNCHANGED <<remote, subscription, customer, recorded, advisory, session,
                                       replays, tries>>
  BY DEF ReadRemote
<1>5. handling'[h] = f
  BY <1>4 DEF HandlerGoes
<1> HIDE DEF f
<1>6. Linking(h)'
  BY <1>3, <1>5 DEF Linking, Doing
<1>7. /\ Of(e) <= r.version
      /\ subscription[Sub(e)] # None => subscription[Sub(e)].version <= r.version
  BY <1>1 DEF Known, RowsAreKnown
<1>8. Handled(h)'
  BY <1>1, <1>2, <1>3, <1>4, <1>5, <1>7 DEF Handled, Known, Version
<1>9. tries' \in 0 .. MaxTries /\ replays' \in 0 .. MaxReplays
  BY <1>4
<1> HIDE DEF e, r, BillingInv
<1> QED BY <1>3, <1>4, <1>6, <1>8, <1>9, HandlerStep

\* A handler that ends gives up its locks; whatever it wrote.
LEMMA EndsStep ==
  ASSUME SubscriptionsAssumption, BillingInv, NEW h \in Handler,
         advisory' = Unlocked(h), HandlerGoes(h, None)
  PROVE  /\ advisory' \in [Subscription -> Handler \cup {None}]
         /\ handling' \in [Handler -> Handling \cup {None}] /\ handling'[h] = None
         /\ \A g \in Handler \ {h} : handling'[g] = handling[g]
         /\ \A s \in Subscription : advisory[s] # h => advisory'[s] = advisory[s]
  BY DEF BillingInv, BillingTypes, Unlocked, HandlerGoes

\* An event that the row's overtook is about a state the row has passed.
LEMMA WriteStep ==
  ASSUME SubscriptionsAssumption, BillingInv, NEW h \in Handler, WriteSubscription(h)
  PROVE  BillingInv' /\ GoesForward
<1> USE DEF SubscriptionsAssumption, BillingInv, BillingTypes
<1> DEFINE e == handling[h].event
           s == Sub(e)
           v == handling[h].version
           new == [version |-> v, at |-> CreatedAt(Of(e)), updated |-> handling[h].begun]
<1>1. /\ handling[h] # None /\ handling[h].does = "event" /\ handling[h].step = "write"
      /\ handling[h] \in Handling
  BY DEF WriteSubscription, Doing
<1>2. /\ e \in EventId /\ handling[h].begun \in 1 .. MaxTries
      /\ s \in Subscription /\ Of(e) \in Version
  BY <1>1, EventParts DEF Handling
<1>3. /\ Known(e) /\ advisory[s] = h /\ v \in Version /\ Of(e) <= v /\ v <= remote[s].version
      /\ subscription[s] # None => subscription[s].version <= v
  BY <1>1 DEF EventsHandled, Handled
<1>4. /\ advisory' = Unlocked(h) /\ HandlerGoes(h, None) /\ recorded' = recorded \cup {e}
      /\ UNCHANGED <<remote, customer, session, replays, tries>>
      /\ subscription' = IF NotOlder(subscription[s], e)
                         THEN [subscription EXCEPT ![s] = new] ELSE subscription
  BY DEF WriteSubscription
<1>5. /\ advisory' \in [Subscription -> Handler \cup {None}]
      /\ handling' \in [Handler -> Handling \cup {None}] /\ handling'[h] = None
      /\ \A g \in Handler \ {h} : handling'[g] = handling[g]
      /\ \A t \in Subscription : advisory[t] # h => advisory'[t] = advisory[t]
  BY <1>4, EndsStep
<1>6. new \in Row /\ CreatedAt(Of(e)) <= CreatedAt(v)
  BY <1>2, <1>3, TimeOrder DEF Row
<1>7. new.version = v /\ new.at = CreatedAt(Of(e))
  OBVIOUS
<1> HIDE DEF new, e, s, v
<1>8. \A t \in Subscription \ {s} : subscription'[t] = subscription[t]
  BY <1>2, <1>4
<1>9. /\ subscription'[s] \in Row /\ Of(e) <= subscription'[s].version
      /\ subscription'[s].version <= remote[s].version
      /\ subscription'[s].at <= CreatedAt(subscription'[s].version)
      /\ subscription[s] # None => subscription[s].version <= subscription'[s].version
  <2>1. CASE NotOlder(subscription[s], e)
    BY <1>2, <1>3, <1>4, <1>6, <1>7, <2>1
  <2>2. CASE ~NotOlder(subscription[s], e)
    <3>1. /\ subscription'[s] = subscription[s] /\ subscription[s] \in Row
          /\ ~(subscription[s].at <= CreatedAt(Of(e)))
      BY <1>2, <1>4, <2>2 DEF NotOlder
    <3>2. /\ subscription[s].version <= remote[s].version
          /\ subscription[s].at <= CreatedAt(subscription[s].version)
          /\ subscription[s].version \in Version /\ subscription[s].at \in Nat
      BY <1>2, <3>1 DEF RowsAreKnown, Row
    <3>3. CreatedAt(Of(e)) \in Nat /\ CreatedAt(subscription[s].version) \in Nat
      BY <1>2, <3>2, TimeOrder
    <3>4. ~(subscription[s].version <= Of(e))
      BY <1>2, <3>1, <3>2, <3>3, TimeOrder
    <3> QED BY <1>2, <3>1, <3>2, <3>4 DEF Version
  <2> QED BY <2>1, <2>2
<1>10. BillingTypes'
  BY <1>2, <1>4, <1>5, <1>6
<1>11. GoesForward
  BY <1>8, <1>9 DEF GoesForward, Row, Version
<1>12. EventsHandled'
  <2> SUFFICES ASSUME NEW g \in Handler PROVE Handled(g)'
    BY DEF EventsHandled
  <2>1. CASE g = h
    BY <1>5, <2>1 DEF Handled
  <2>2. CASE g # h
    <3> SUFFICES ASSUME handling[g] # None, handling[g].does = "event" PROVE Handled(g)'
      BY <1>5, <2>2 DEF Handled
    <3> DEFINE d == handling[g].event
               t == Sub(d)
    <3>1. Known(d) /\ t \in Subscription
      BY EventParts DEF EventsHandled, Handled, Handling
    <3>2. CASE handling[g].step = "wait"
      BY <1>4, <1>5, <2>2, <3>1, <3>2 DEF Handled, Known
    <3>3. CASE handling[g].step \in {"read", "write"}
      <4>1. advisory[t] = g /\ t # s
        BY <1>3, <2>2, <3>3 DEF EventsHandled, Handled
      <4>2. advisory'[t] = g /\ subscription'[t] = subscription[t]
        BY <1>5, <1>8, <2>2, <3>1, <4>1
      <4> QED BY <1>4, <1>5, <2>2, <3>1, <4>1, <4>2 DEF EventsHandled, Handled, Known
    <3>4. handling[g].step \in {"wait", "read", "write"}
      BY DEF Handling
    <3> QED BY <3>2, <3>3, <3>4
  <2> QED BY <2>1, <2>2
<1>13. RowsAreKnown'
  <2> SUFFICES ASSUME NEW t \in Subscription, subscription'[t] # None
               PROVE  /\ remote'[t] # None /\ subscription'[t].version <= remote'[t].version
                      /\ subscription'[t].at <= CreatedAt(subscription'[t].version)
    BY DEF RowsAreKnown
  <2>1. CASE t = s
    BY <1>3, <1>4, <1>9, <2>1 DEF Known, s
  <2>2. CASE t # s
    BY <1>4, <1>8, <2>2 DEF RowsAreKnown
  <2> QED BY <2>1, <2>2
<1>14. RecordedIsShown'
  <2> SUFFICES ASSUME NEW d \in recorded'
               PROVE  /\ Known(d)' /\ subscription'[Sub(d)] # None
                      /\ Of(d) <= subscription'[Sub(d)].version
    BY DEF RecordedIsShown
  <2>1. CASE d = e
    BY <1>3, <1>4, <1>9, <2>1 DEF Known, s
  <2>2. CASE d # e
    <3>1. d \in recorded /\ Sub(d) \in Subscription /\ Of(d) \in Version
      BY <1>4, <2>2, EventParts
    <3>2. /\ Known(d) /\ subscription[Sub(d)] # None /\ Of(d) <= subscription[Sub(d)].version
      BY <3>1 DEF RecordedIsShown
    <3>3. CASE Sub(d) = s
      <4>1. /\ subscription[s].version <= subscription'[s].version
            /\ subscription[s].version \in Version /\ subscription'[s].version \in Version
        BY <1>2, <1>9, <3>2, <3>3 DEF Row
      <4> QED BY <1>4, <1>9, <3>1, <3>2, <3>3, <4>1 DEF Known, Version
    <3>4. CASE Sub(d) # s
      BY <1>4, <1>8, <3>1, <3>2, <3>4 DEF Known
    <3> QED BY <3>3, <3>4
  <2> QED BY <2>1, <2>2
<1>15. CustomersLinked' /\ PaysAsOneCustomer'
  BY <1>4, <1>5 DEF CustomersLinked, Linking, Doing, PaysAsOneCustomer
<1> QED BY <1>10, <1>11, <1>12, <1>13, <1>14, <1>15

LEMMA GiveUpStep ==
  ASSUME SubscriptionsAssumption, BillingInv, NEW h \in Handler, GiveUp(h)
  PROVE  BillingInv'
<1> USE DEF SubscriptionsAssumption, BillingInv, BillingTypes
<1>1. /\ advisory' = Unlocked(h) /\ HandlerGoes(h, None)
      /\ UNCHANGED <<remote, subscription, customer, recorded, session, replays, tries>>
  BY DEF GiveUp
<1>2. /\ advisory' \in [Subscription -> Handler \cup {None}]
      /\ handling' \in [Handler -> Handling \cup {None}] /\ handling'[h] = None
      /\ \A g \in Handler \ {h} : handling'[g] = handling[g]
      /\ \A s \in Subscription : advisory[s] # h => advisory'[s] = advisory[s]
  BY <1>1, EndsStep
<1>3. BillingTypes'
  BY <1>1, <1>2
<1>4. EventsHandled'
  <2> SUFFICES ASSUME NEW g \in Handler \ {h} PROVE Handled(g)'
    BY <1>2 DEF EventsHandled, Handled
  <2>1. handling[g] # None /\ handling[g].does = "event" => Sub(handling[g].event) \in Subscription
    BY EventParts DEF Handling
  <2> QED BY <1>1, <1>2, <2>1 DEF EventsHandled, Handled, Known
<1>5. RowsAreKnown' /\ RecordedIsShown'
  BY <1>1 DEF RowsAreKnown, RecordedIsShown, Known
<1>6. CustomersLinked' /\ PaysAsOneCustomer'
  BY <1>1, <1>2 DEF CustomersLinked, Linking, Doing, PaysAsOneCustomer
<1> QED BY <1>3, <1>4, <1>5, <1>6

LEMMA CheckoutStep ==
  ASSUME SubscriptionsAssumption, BillingInv, NEW h \in Handler,
         Checkout(h) \/ LookUpCustomer(h) \/ CreateCustomer(h)
  PROVE  BillingInv'
<1> USE DEF SubscriptionsAssumption, BillingInv, BillingTypes
<1>1. PICK to \in {"lookup", "ask", "link", "open"}, c \in Customer \cup {None} :
        /\ HandlerGoes(h, [does |-> "checkout", step |-> to, customer |-> c])
        /\ to = "link" => c # None
        /\ to = "open" => customer # None /\ c = customer
        /\ UNCHANGED <<remote, subscription, customer, recorded, advisory, session, replays>>
        /\ tries' \in 0 .. MaxTries
  <2>1. CASE Checkout(h)
    BY <2>1 DEF Checkout
  <2>2. CASE LookUpCustomer(h)
    BY <2>2 DEF LookUpCustomer, Step
  <2>3. CASE CreateCustomer(h)
    BY <2>3 DEF CreateCustomer, Step
  <2> QED BY <2>1, <2>2, <2>3
<1> DEFINE f == [does |-> "checkout", step |-> to, customer |-> c]
<1>2. f \in Handling /\ f.does = "checkout" /\ f.step = to /\ f.customer = c
  BY DEF Handling
<1>3. handling'[h] = f /\ HandlerGoes(h, f) /\ replays' \in 0 .. MaxReplays
  BY <1>1 DEF HandlerGoes
<1> HIDE DEF f
<1>4. Handled(h)' /\ Linking(h)'
  BY <1>1, <1>2, <1>3 DEF Handled, Linking, Doing
<1> HIDE DEF BillingInv
<1> QED BY <1>1, <1>2, <1>3, <1>4, HandlerStep

LEMMA LinkStep ==
  ASSUME SubscriptionsAssumption, BillingInv, NEW h \in Handler, LinkCustomer(h)
  PROVE  BillingInv'
<1> USE DEF SubscriptionsAssumption, BillingInv, BillingTypes
<1> DEFINE c == LinkedCustomer(h)
           f == [does |-> "checkout", step |-> "open", customer |-> c]
<1>1. /\ Doing(h, "checkout", "link") /\ HandlerGoes(h, f) /\ customer' = c
      /\ UNCHANGED <<remote, subscription, recorded, advisory, session, replays, tries>>
  BY DEF LinkCustomer, Step, LinkedCustomer
<1>2. handling[h].customer \in Customer
  BY <1>1 DEF CustomersLinked, Linking, Doing, Handling
<1>3. c \in Customer /\ (customer # None => c = customer)
  BY <1>2 DEF LinkedCustomer
<1> HIDE DEF c
<1>4. f \in Handling /\ f.does = "checkout" /\ f.step = "open" /\ f.customer = c
  BY <1>3 DEF Handling
<1>5. handling'[h] = f /\ \A g \in Handler \ {h} : handling'[g] = handling[g]
  BY <1>1 DEF HandlerGoes
<1> HIDE DEF f
<1>6. BillingTypes'
  BY <1>1, <1>3, <1>4 DEF HandlerGoes
<1>7. EventsHandled'
  BY <1>1, <1>4, <1>5 DEF EventsHandled, Handled, Known
<1>8. RowsAreKnown' /\ RecordedIsShown'
  BY <1>1 DEF RowsAreKnown, RecordedIsShown, Known
<1>9. CustomersLinked'
  BY <1>1, <1>3, <1>4, <1>5 DEF CustomersLinked, Linking, Doing
<1>10. PaysAsOneCustomer'
  BY <1>1, <1>3 DEF PaysAsOneCustomer, Remote
<1> QED BY <1>6, <1>7, <1>8, <1>9, <1>10

LEMMA OpenStep ==
  ASSUME SubscriptionsAssumption, BillingInv, NEW h \in Handler, OpenSession(h)
  PROVE  BillingInv'
<1> USE DEF SubscriptionsAssumption, BillingInv, BillingTypes
<1>1. /\ session' = session \cup {handling[h].customer} /\ HandlerGoes(h, None)
      /\ UNCHANGED <<remote, subscription, customer, recorded, advisory, replays, tries>>
      /\ customer # None /\ handling[h].customer = customer
  BY DEF OpenSession, CustomersLinked, Linking
<1>2. handling'[h] = None /\ \A g \in Handler \ {h} : handling'[g] = handling[g]
  BY <1>1 DEF HandlerGoes
<1>3. BillingTypes'
  BY <1>1 DEF HandlerGoes
<1>4. EventsHandled' /\ CustomersLinked'
  BY <1>1, <1>2 DEF EventsHandled, Handled, Known, CustomersLinked, Linking, Doing
<1>5. RowsAreKnown' /\ RecordedIsShown' /\ PaysAsOneCustomer'
  BY <1>1 DEF RowsAreKnown, RecordedIsShown, Known, PaysAsOneCustomer
<1> QED BY <1>3, <1>4, <1>5

\* The provider's states only go on.
LEMMA ProviderStep ==
  ASSUME SubscriptionsAssumption, BillingInv, NEW s \in Subscription, Complete(s) \/ Change(s)
  PROVE  BillingInv'
<1> USE DEF SubscriptionsAssumption, BillingInv, BillingTypes
<1>1. /\ remote' \in [Subscription -> Remote \cup {None}]
      /\ \A t \in Subscription : remote[t] # None =>
           /\ remote'[t] # None /\ remote[t].version <= remote'[t].version
           /\ remote'[t].customer = remote[t].customer
      /\ \A t \in Subscription : remote'[t] # None =>
           remote'[t].customer \in session \/ remote[t] # None
      /\ session' \subseteq session
      /\ UNCHANGED <<subscription, customer, recorded, advisory, handling, replays, tries>>
  <2>1. CASE Complete(s)
    <3>1. PICK c \in session : /\ remote' = [remote EXCEPT ![s] = [version |-> 1, customer |-> c]]
                               /\ session' = session \ {c} /\ remote[s] = None
      BY <2>1 DEF Complete
    <3>2. [version |-> 1, customer |-> c] \in Remote
      BY <3>1 DEF Remote, Version
    <3> QED BY <2>1, <3>1, <3>2 DEF Complete, Remote, Version
  <2>2. CASE Change(s)
    <3> DEFINE n == remote[s].version + 1
               new == [remote[s] EXCEPT !.version = n]
    <3>1. /\ remote[s] \in Remote /\ remote[s].version < Last /\ session' = session
          /\ remote' = [remote EXCEPT ![s] = new]
          /\ UNCHANGED <<subscription, customer, recorded, advisory, handling, replays, tries>>
      BY <2>2 DEF Change
    <3>2. n \in Version /\ remote[s].version <= n
      BY <3>1 DEF Remote, Version
    <3> HIDE DEF n
    <3>3. new \in Remote /\ new.version = n /\ new.customer = remote[s].customer
      BY <3>1, <3>2 DEF Remote
    <3> HIDE DEF new
    <3> QED BY <3>1, <3>2, <3>3 DEF Remote, Version
  <2> QED BY <2>1, <2>2
<1>2. \A e \in EventId : Known(e) => Known(e)'
  BY <1>1, EventParts DEF Known, Remote, Version
<1>3. BillingTypes'
  BY <1>1
<1>4. EventsHandled'
  <2> SUFFICES ASSUME NEW h \in Handler, handling[h] # None, handling[h].does = "event"
               PROVE  Handled(h)'
    BY <1>1 DEF EventsHandled, Handled
  <2>1. handling[h].event \in EventId /\ Sub(handling[h].event) \in Subscription
    BY EventParts DEF Handling
  <2>2. Known(handling[h].event)
    BY DEF EventsHandled, Handled
  <2>3. remote[Sub(handling[h].event)].version <= remote'[Sub(handling[h].event)].version
    BY <1>1, <2>1, <2>2 DEF Known
  <2>4. remote[Sub(handling[h].event)] \in Remote /\ remote'[Sub(handling[h].event)] \in Remote
    BY <1>1, <2>1, <2>2 DEF Known
  <2> QED BY <1>1, <1>2, <2>1, <2>2, <2>3, <2>4 DEF EventsHandled, Handled, Remote, Version
<1>5. RowsAreKnown'
  BY <1>1 DEF RowsAreKnown, Remote, Row, Version
<1>6. RecordedIsShown'
  BY <1>1, <1>2 DEF RecordedIsShown
<1>7. CustomersLinked' /\ PaysAsOneCustomer'
  BY <1>1 DEF CustomersLinked, Linking, Doing, PaysAsOneCustomer
<1> QED BY <1>3, <1>4, <1>5, <1>6, <1>7

LEMMA BillingInvNext ==
  ASSUME SubscriptionsAssumption, BillingInv, [BillingNext]_billingVars
  PROVE  BillingInv'
<1>1. CASE UNCHANGED billingVars
  BY <1>1 DEF billingVars, BillingInv, BillingTypes, EventsHandled, Handled, Known, RowsAreKnown,
              RecordedIsShown, CustomersLinked, Linking, Doing, PaysAsOneCustomer
<1>2. CASE BillingNext
  BY <1>2, BeginsStep, LockStep, ReadStep, WriteStep, GiveUpStep, CheckoutStep, LinkStep,
     OpenStep, ProviderStep DEF BillingNext, Handles
<1> QED BY <1>1, <1>2

\* The inductive invariant holds in every reachable state.
THEOREM BillingInvariant ==
  ASSUME SubscriptionsAssumption
  PROVE  BillingSpec => []BillingInv
<1>1. BillingInit => BillingInv
  BY BillingInvInit
<1>2. BillingInv /\ [BillingNext]_billingVars => BillingInv'
  BY BillingInvNext
<1> QED BY <1>1, <1>2, PTL DEF BillingSpec

\* Once every event has been told the rows say what the provider holds, and what
\* it holds is of the one customer that the organization is linked to, whatever
\* came late, twice or out of order.  (reconcile_subscription, create_checkout)
THEOREM ProviderFollowedAlways ==
  ASSUME SubscriptionsAssumption
  PROVE  BillingSpec => []ProviderIsFollowed
<1>1. BillingInv => ProviderIsFollowed
  <2> SUFFICES ASSUME BillingInv, Happened \subseteq recorded,
                      NEW s \in Subscription, remote[s] # None
               PROVE  subscription[s] # None /\ subscription[s].version = remote[s].version
    BY DEF ProviderIsFollowed, RowsCatchUp, BillingInv
  <2> USE DEF BillingInv, BillingTypes
  <2> DEFINE v == remote[s].version
             e == <<s, v, 0>>
  <2>1. v \in Version
    BY DEF Remote
  <2>2. e \in EventId /\ Sub(e) = s /\ Of(e) = v /\ e[3] = 0
    BY <2>1 DEF EventId, Sub, Of, SubscriptionsAssumption
  <2>3. e \in Happened
    BY <2>1, <2>2 DEF Happened, Sent, Version
  <2>4. subscription[s] # None /\ v <= subscription[s].version
    BY <2>2, <2>3 DEF RecordedIsShown
  <2>5. subscription[s].version <= v /\ subscription[s].version \in Version
    BY <2>4 DEF RowsAreKnown, Row
  <2> QED BY <2>1, <2>4, <2>5 DEF Version
<1> QED BY <1>1, BillingInvariant, PTL

\* No event brings an earlier state back.  (reconcile_subscription)
THEOREM AccessNeverReturnsAlways ==
  ASSUME SubscriptionsAssumption
  PROVE  BillingSpec => AccessNeverReturns
<1>1. BillingInv /\ [BillingNext]_billingVars => [GoesForward]_billingVars
  <2> SUFFICES ASSUME BillingInv, BillingNext PROVE GoesForward
    OBVIOUS
  <2>1. CASE UNCHANGED subscription
    BY <2>1 DEF GoesForward, BillingInv, BillingTypes, Row, Version
  <2>2. ASSUME NEW h \in Handler, WriteSubscription(h) PROVE GoesForward
    BY <2>2, WriteStep
  <2>3. ASSUME NEW h \in Handler, Handles(h), ~WriteSubscription(h) PROVE UNCHANGED subscription
    BY <2>3 DEF Handles, DeliverEvent, ReplayEvent, LockSubscription, ReadRemote, GiveUp,
       Checkout, LookUpCustomer, CreateCustomer, LinkCustomer, Step, OpenSession
  <2> QED BY <2>1, <2>2, <2>3 DEF BillingNext, Complete, Change
<1> QED BY <1>1, BillingInvariant, PTL DEF BillingSpec, AccessNeverReturns
-----------------------------------------------------------------------------
(* Sums *)

\* A set of numbers that is not empty has a least one, and a set of finite sets one
\* of which no other is a part: with them a claim about every sum is proved by
\* looking at a smallest set it fails for.
LEMMA LeastNatural ==
  ASSUME NEW W \in SUBSET Nat, W # {}
  PROVE  \E n \in W : \A m \in W : ~(m < n)
<1>1. PICK x \in W : \A y \in W : ~(<<y, x>> \in OpToRel(<, Nat))
  BY NatLessThanWellFounded, WFMin
<1> WITNESS x \in W
<1>2. SUFFICES ASSUME NEW m \in W, m < x PROVE FALSE
  OBVIOUS
<1>3. <<m, x>> \in OpToRel(<, Nat)
  BY <1>2 DEF OpToRel
<1> QED BY <1>1, <1>3

LEMMA LeastSubset ==
  ASSUME NEW S, IsFiniteSet(S), NEW W \in SUBSET SUBSET S, W # {}
  PROVE  \E T \in W : \A U \in W : U \subseteq T => U = T
<1>1. W \subseteq FiniteSubsetsOf(S)
  BY FS_Subset DEF FiniteSubsetsOf
<1>2. PICK x \in W : \A y \in W : ~(<<y, x>> \in StrictSubsetOrdering(S))
  BY <1>1, FS_StrictSubsetOrderingWellFounded, WFMin
<1> WITNESS x \in W
<1>3. SUFFICES ASSUME NEW U \in W, U \subseteq x, U # x PROVE FALSE
  OBVIOUS
<1>4. <<U, x>> \in StrictSubsetOrdering(S)
  BY <1>3 DEF StrictSubsetOrdering
<1> QED BY <1>2, <1>4

Chosen(T) == CHOOSE x \in T : TRUE
\* g computes the sums of f over the subsets of S that belong to D.
Sums(f, g, D) ==
  g = [T \in D |-> IF T = {} THEN 0 ELSE f[Chosen(T)] + g[T \ {Chosen(T)}]]

\* An element is chosen from every set that is not empty.
LEMMA ChosenIn == \A T : T # {} => Chosen(T) \in T
BY DEF Chosen

\* There is a function that computes the sums.
LEMMA SumsExist ==
  ASSUME NEW f, NEW S, IsFiniteSet(S)
  PROVE  \E g : Sums(f, g, SUBSET S)
<1> DEFINE Small(n) == {T \in SUBSET S : Cardinality(T) <= n}
           W == {n \in Nat : ~\E g : Sums(f, g, Small(n))}
<1>1. SUFFICES \A n \in Nat : n \notin W
  <2>1. Cardinality(S) \in Nat /\ Small(Cardinality(S)) = SUBSET S
    BY FS_CardinalityType, FS_Subset
  <2> QED BY <2>1
<1>2. SUFFICES ASSUME W # {} PROVE FALSE
  OBVIOUS
<1>3. PICK n \in W : \A m \in W : ~(m < n)
  BY <1>2, LeastNatural
<1>n. n \in Nat /\ ~\E g : Sums(f, g, Small(n))
  BY <1>3
<1>4. CASE n = 0
  <2>1. \A T \in Small(0) : T = {}
    BY <1>4, FS_EmptySet, FS_Subset, FS_CardinalityType
  <2>2. Sums(f, [T \in Small(0) |-> 0], Small(0))
    BY <2>1 DEF Sums
  <2> HIDE DEF Small
  <2> QED BY <1>4, <1>n, <2>2
<1>5. CASE n # 0
  <2>1. n - 1 \in Nat /\ n - 1 \notin W
    <3>1. n - 1 \in Nat /\ n - 1 < n
      BY <1>n, <1>5
    <3> HIDE DEF W
    <3> QED BY <1>3, <3>1
  <2>2. PICK g : Sums(f, g, Small(n - 1))
    BY <2>1
  <2> DEFINE h == [T \in Small(n) |->
                    IF T = {} THEN 0 ELSE f[Chosen(T)] + g[T \ {Chosen(T)}]]
  <2>3. ASSUME NEW T \in Small(n), T # {}
        PROVE  /\ T \ {Chosen(T)} \in Small(n - 1) /\ T \ {Chosen(T)} \in Small(n)
               /\ h[T \ {Chosen(T)}] = g[T \ {Chosen(T)}]
    <3>1. IsFiniteSet(T) /\ Chosen(T) \in T
      BY <2>3, FS_Subset, ChosenIn
    <3>2. Cardinality(T \ {Chosen(T)}) = Cardinality(T) - 1 /\ Cardinality(T) \in Nat
      BY <3>1, FS_RemoveElement, FS_CardinalityType
    <3>3. T \ {Chosen(T)} \in Small(n - 1) /\ T \ {Chosen(T)} \in Small(n)
      BY <2>3, <3>2, <1>3
    <3> HIDE DEF Small
    <3>4. h[T \ {Chosen(T)}] = g[T \ {Chosen(T)}]
      BY <3>3, <2>2 DEF Sums
    <3> QED BY <3>3, <3>4
  <2> HIDE DEF Small
  <2>4. Sums(f, h, Small(n))
    BY <2>3 DEF Sums
  <2> QED BY <2>4, <1>n
<1> QED BY <1>4, <1>5

\* The sum of a function is the library's fold of it.
LEMMA SumIsFold ==
  ASSUME NEW f, IsFiniteSet(DOMAIN f)
  PROVE  \E g : Sums(f, g, SUBSET DOMAIN f) /\ SumFunction(f) = g[DOMAIN f]
<1> DEFINE Body(g) == [T \in SUBSET DOMAIN f |-> IF T = {} THEN 0 ELSE f[Chosen(T)] + g[T \ {Chosen(T)}]]
           g == CHOOSE g : g = Body(g)
<1>1. \E h : h = Body(h)
  <2>1. PICK h : Sums(f, h, SUBSET DOMAIN f)
    BY SumsExist
  <2>2. h = Body(h)
    BY <2>1 DEF Sums
  <2> HIDE DEF Body
  <2> QED BY <2>2
<1>2. g = Body(g)
  <2> HIDE DEF Body
  <2> QED BY <1>1
<1>3. SumFunction(f) = g[DOMAIN f]
  BY DEF SumFunction, SumFunctionOnSet, FoldFunctionOnSet, MapThenFoldSet, Chosen
<1>4. Sums(f, g, SUBSET DOMAIN f)
  BY <1>2 DEF Sums
<1> HIDE DEF g
<1> QED BY <1>3, <1>4

\* Sums of integers are integers.
LEMMA SumsType ==
  ASSUME NEW S, IsFiniteSet(S), NEW f \in [S -> Int], NEW g, Sums(f, g, SUBSET S)
  PROVE  \A T \in SUBSET S : g[T] \in Int
<1> DEFINE W == {T \in SUBSET S : g[T] \notin Int}
<1>1. SUFFICES ASSUME W # {} PROVE FALSE
  OBVIOUS
<1>2. PICK T \in W : \A U \in W : U \subseteq T => U = T
  <2>1. W \in SUBSET SUBSET S
    OBVIOUS
  <2> HIDE DEF W
  <2> QED BY <1>1, <2>1, LeastSubset
<1>3. CASE T = {}
  BY <1>3, <1>2 DEF Sums
<1>4. CASE T # {}
  <2>1. Chosen(T) \in T
    BY <1>4, ChosenIn
  <2>2. g[T \ {Chosen(T)}] \in Int
    BY <2>1, <1>2
  <2>3. g[T] = f[Chosen(T)] + g[T \ {Chosen(T)}]
    BY <1>4, <1>2 DEF Sums
  <2> QED BY <2>1, <2>2, <2>3, <1>2
<1> QED BY <1>3, <1>4

\* Any element may be taken out first, not only the chosen one.
LEMMA SumsAnyOrder ==
  ASSUME NEW S, IsFiniteSet(S), NEW f \in [S -> Int], NEW g, Sums(f, g, SUBSET S)
  PROVE  \A T \in SUBSET S : \A x \in T : g[T] = f[x] + g[T \ {x}]
<1> DEFINE W == {T \in SUBSET S : \E x \in T : g[T] # f[x] + g[T \ {x}]}
<1>1. SUFFICES ASSUME W # {} PROVE FALSE
  OBVIOUS
<1>2. PICK T \in W : \A U \in W : U \subseteq T => U = T
  <2>1. W \in SUBSET SUBSET S
    OBVIOUS
  <2> HIDE DEF W
  <2> QED BY <1>1, <2>1, LeastSubset
<1>3. PICK x \in T : g[T] # f[x] + g[T \ {x}]
  BY <1>2
<1> DEFINE c == Chosen(T)
<1>4. c \in T /\ g[T] = f[c] + g[T \ {c}]
  BY <1>2, <1>3, ChosenIn DEF Sums
<1> HIDE DEF c
<1>5. x # c
  BY <1>3, <1>4
<1>6. g[T \ {c}] = f[x] + g[(T \ {c}) \ {x}]
  BY <1>2, <1>4, <1>5
<1>7. g[T \ {x}] = f[c] + g[(T \ {x}) \ {c}]
  BY <1>2, <1>4, <1>5
<1>8. (T \ {x}) \ {c} = (T \ {c}) \ {x}
  OBVIOUS
<1>9. f[x] \in Int /\ f[c] \in Int /\ g[(T \ {c}) \ {x}] \in Int
  <2>1. x \in S /\ c \in S /\ (T \ {c}) \ {x} \in SUBSET S
    BY <1>2, <1>4
  <2>2. g[(T \ {c}) \ {x}] \in Int
    BY <2>1, SumsType
  <2> QED BY <2>1, <2>2
<1>10. g[T \ {x}] = f[c] + g[(T \ {c}) \ {x}]
  BY <1>7, <1>8
<1> HIDE DEF W
<1> QED BY <1>3, <1>4, <1>6, <1>9, <1>10

\* Functions that agree on a set have the same sum over it.
LEMMA SumsAgree ==
  ASSUME NEW S, IsFiniteSet(S), NEW f \in [S -> Int], NEW g, Sums(f, g, SUBSET S),
         NEW e \in [S -> Int], NEW h, Sums(e, h, SUBSET S), NEW T \in SUBSET S,
         \A x \in T : e[x] = f[x]
  PROVE  h[T] = g[T]
<1> DEFINE W == {U \in SUBSET T : h[U] # g[U]}
<1>1. SUFFICES ASSUME W # {} PROVE FALSE
  OBVIOUS
<1>2. PICK U \in W : \A V \in W : V \subseteq U => V = U
  <2>1. IsFiniteSet(T)
    BY FS_Subset
  <2>2. W \in SUBSET SUBSET T
    OBVIOUS
  <2> HIDE DEF W
  <2> QED BY <1>1, <2>1, <2>2, LeastSubset
<1>3. U # {}
  BY <1>2 DEF Sums
<1>4. Chosen(U) \in U /\ U \in SUBSET S
  BY <1>2, <1>3, ChosenIn
<1>5. h[U \ {Chosen(U)}] = g[U \ {Chosen(U)}]
  BY <1>2, <1>4
<1>6. h[U] = e[Chosen(U)] + h[U \ {Chosen(U)}] /\ g[U] = f[Chosen(U)] + g[U \ {Chosen(U)}]
  BY <1>3, <1>4 DEF Sums
<1> QED BY <1>2, <1>4, <1>5, <1>6

\* The same of the library's sum.
LEMMA SumType ==
  ASSUME NEW S, IsFiniteSet(S), NEW f \in [S -> Int]
  PROVE  SumFunction(f) \in Int
<1>1. DOMAIN f = S
  OBVIOUS
<1>2. PICK g : Sums(f, g, SUBSET S) /\ SumFunction(f) = g[S]
  BY <1>1, SumIsFold
<1> QED BY <1>2, SumsType

\* When one value changes the sum changes by as much.
LEMMA SumChanges ==
  ASSUME NEW S, IsFiniteSet(S), NEW f \in [S -> Int], NEW e \in [S -> Int], NEW x \in S,
         \A y \in S \ {x} : e[y] = f[y]
  PROVE  SumFunction(e) = SumFunction(f) - f[x] + e[x]
<1>1. DOMAIN f = S /\ DOMAIN e = S
  OBVIOUS
<1>2. PICK g : Sums(f, g, SUBSET S) /\ SumFunction(f) = g[S]
  BY <1>1, SumIsFold
<1>3. PICK h : Sums(e, h, SUBSET S) /\ SumFunction(e) = h[S]
  BY <1>1, SumIsFold
<1>4. g[S] = f[x] + g[S \ {x}] /\ h[S] = e[x] + h[S \ {x}]
  BY <1>2, <1>3, SumsAnyOrder
<1>5. h[S \ {x}] = g[S \ {x}] /\ S \ {x} \in SUBSET S
  BY <1>2, <1>3, SumsAgree
<1>6. g[S \ {x}] \in Int /\ f[x] \in Int /\ e[x] \in Int
  BY <1>2, <1>5, SumsType
<1> QED BY <1>2, <1>3, <1>4, <1>5, <1>6

\* The sum grows with the values.
LEMMA SumBounded ==
  ASSUME NEW S, IsFiniteSet(S), NEW f \in [S -> Int], NEW e \in [S -> Int],
         \A x \in S : e[x] <= f[x]
  PROVE  SumFunction(e) <= SumFunction(f)
<1>1. DOMAIN f = S /\ DOMAIN e = S
  OBVIOUS
<1>2. PICK g : Sums(f, g, SUBSET S) /\ SumFunction(f) = g[S]
  BY <1>1, SumIsFold
<1>3. PICK h : Sums(e, h, SUBSET S) /\ SumFunction(e) = h[S]
  BY <1>1, SumIsFold
<1> DEFINE W == {T \in SUBSET S : ~(h[T] <= g[T])}
<1>4. SUFFICES ASSUME W # {} PROVE FALSE
  BY <1>2, <1>3
<1>5. PICK T \in W : \A U \in W : U \subseteq T => U = T
  <2>1. W \in SUBSET SUBSET S
    OBVIOUS
  <2> HIDE DEF W
  <2> QED BY <1>4, <2>1, LeastSubset
<1>6. CASE T = {}
  BY <1>2, <1>3, <1>5, <1>6 DEF Sums
<1>7. CASE T # {}
  <2> DEFINE c == Chosen(T)
  <2>1. /\ c \in T /\ T \in SUBSET S
        /\ h[T] = e[c] + h[T \ {c}] /\ g[T] = f[c] + g[T \ {c}]
    BY <1>2, <1>3, <1>5, <1>7, ChosenIn DEF Sums
  <2> HIDE DEF c
  <2>2. h[T \ {c}] <= g[T \ {c}]
    BY <2>1, <1>5
  <2>3. e[c] \in Int /\ f[c] \in Int /\ e[c] <= f[c] /\ h[T \ {c}] \in Int /\ g[T \ {c}] \in Int
    BY <1>2, <1>3, <2>1, SumsType
  <2>4. ~(h[T] <= g[T])
    BY <1>5
  <2> QED BY <2>1, <2>2, <2>3, <2>4
<1> QED BY <1>6, <1>7

\* The sum of zeros is zero.
LEMMA SumOfZeros ==
  ASSUME NEW S, IsFiniteSet(S)
  PROVE  SumFunction([x \in S |-> 0]) = 0
<1> DEFINE f == [x \in S |-> 0]
<1>1. DOMAIN f = S /\ f \in [S -> Int] /\ \A x \in S : f[x] = 0
  OBVIOUS
<1> HIDE DEF f
<1>2. PICK g : Sums(f, g, SUBSET S) /\ SumFunction(f) = g[S]
  BY <1>1, SumIsFold
<1> DEFINE W == {T \in SUBSET S : g[T] # 0}
<1>3. SUFFICES ASSUME W # {} PROVE FALSE
  BY <1>2 DEF f
<1>4. PICK T \in W : \A U \in W : U \subseteq T => U = T
  <2>1. W \in SUBSET SUBSET S
    OBVIOUS
  <2> HIDE DEF W
  <2> QED BY <1>3, <2>1, LeastSubset
<1>5. T # {}
  BY <1>2, <1>4 DEF Sums
<1>6. Chosen(T) \in T /\ g[T] = f[Chosen(T)] + g[T \ {Chosen(T)}]
  BY <1>2, <1>4, <1>5, ChosenIn DEF Sums
<1>7. g[T \ {Chosen(T)}] = 0
  BY <1>4, <1>6
<1> QED BY <1>1, <1>4, <1>6, <1>7

\* The empty sum is zero.
LEMMA SumOfNone ==
  ASSUME NEW f, DOMAIN f = {}
  PROVE  SumFunction(f) = 0
<1>1. PICK g : Sums(f, g, SUBSET {}) /\ SumFunction(f) = g[{}]
  BY SumIsFold, FS_EmptySet
<1> QED BY <1>1 DEF Sums

\* The sum over T is that over U with the value of x.
Splits(f, g, T, x, U) == g[T] = f[x] + g[U]

\* Any element of a set may be the one its sum is split at.
LEMMA SumsSplit ==
  ASSUME NEW S, IsFiniteSet(S), NEW f \in [S -> Int], NEW g, Sums(f, g, SUBSET S)
  PROVE  \A T \in SUBSET S : \A x \in T : Splits(f, g, T, x, T \ {x})
<1> SUFFICES ASSUME NEW T \in SUBSET S, NEW x \in T
             PROVE  g[T] = f[x] + g[T \ {x}]
  BY DEF Splits
<1> QED BY SumsAnyOrder

LEMMA SumSplits ==
  ASSUME NEW S, IsFiniteSet(S), NEW f \in [S -> Int]
  PROVE  \E g : /\ SumFunction(f) = g[S] /\ g[{}] = 0
               /\ \A T \in SUBSET S : \A x \in T : Splits(f, g, T, x, T \ {x})
<1>1. DOMAIN f = S
  OBVIOUS
<1>2. PICK g : Sums(f, g, SUBSET S) /\ SumFunction(f) = g[S]
  BY <1>1, SumIsFold
<1>3. g[{}] = 0
  BY <1>2 DEF Sums
<1>4. \A T \in SUBSET S : \A x \in T : Splits(f, g, T, x, T \ {x})
  BY <1>2, SumsSplit
<1> QED BY <1>2, <1>3, <1>4

\* The sums of two values and of one.
LEMMA SumOfTwo ==
  ASSUME NEW S, IsFiniteSet(S), NEW f \in [S -> Int], NEW x \in S, NEW y \in S, x # y,
         S = {x, y}
  PROVE  SumFunction(f) = f[x] + f[y]
<1>1. PICK g : /\ SumFunction(f) = g[S] /\ g[{}] = 0
               /\ \A T \in SUBSET S : \A z \in T : Splits(f, g, T, z, T \ {z})
  BY SumSplits
<1>2. S \ {x} = {y} /\ {y} \ {y} = {} /\ {y} \in SUBSET S /\ S \in SUBSET S /\ y \in {y}
  OBVIOUS
<1>3. Splits(f, g, S, x, {y})
  BY <1>1, <1>2
<1>4. Splits(f, g, {y}, y, {})
  BY <1>1, <1>2
<1>5. f[x] \in Int /\ f[y] \in Int
  OBVIOUS
<1> QED BY <1>1, <1>3, <1>4, <1>5 DEF Splits

LEMMA SumOfOne ==
  ASSUME NEW S, IsFiniteSet(S), NEW f \in [S -> Int], NEW x \in S, S = {x}
  PROVE  SumFunction(f) = f[x]
<1>1. PICK g : /\ SumFunction(f) = g[S] /\ g[{}] = 0
               /\ \A T \in SUBSET S : \A z \in T : Splits(f, g, T, z, T \ {z})
  BY SumSplits
<1>2. S \ {x} = {} /\ S \in SUBSET S
  OBVIOUS
<1>3. Splits(f, g, S, x, {})
  BY <1>1, <1>2
<1>4. f[x] \in Int
  OBVIOUS
<1> QED BY <1>1, <1>3, <1>4 DEF Splits

-----------------------------------------------------------------------------
(* The credit ledger *)

\* An operation key names one thing that was done once.
KeysAreFree ==
  /\ \A o \in Operation :
       /\ reservation[o] = None =>
            <<"spend", o, "monthly">> \notin booked /\ <<"spend", o, "paid">> \notin booked
       /\ reservation[o] = None \/ Outstanding(o) =>
            <<"refund", o, "monthly">> \notin booked /\ <<"refund", o, "paid">> \notin booked
  /\ \A s \in PackSession :
       /\ ~Fulfilled(s) => <<"purchase", s>> \notin booked
       /\ \A n \in 1 .. Units : <<"payment-refund", s, n>> \in booked =>
            purchase[s] # None /\ n <= purchase[s].refunded

\* Nothing expires later than now.
NothingAhead ==
  /\ \A m \in Month : m > month => balance[m] = 0
  /\ \A o \in Operation : reservation[o] # None =>
       reservation[o].expires <= month /\ reservation[o].monthly >= 0

\* What a reservation that is not committed yet has read is still so.
Reserved(a) ==
  LET t == tx[a]
  IN  /\ holder = a /\ t.takes # None /\ ~t.takes.refunded /\ t.takes.expires = t.at
      /\ t.takes.paid <= balance[None]
      /\ t.at \notin crossed => t.takes.monthly <= balance[t.at] + t.grants[t.at]
      /\ \A m \in Month \ {t.at} : t.grants[m] = 0
      /\ grant[t.at] + t.grants[t.at] \in {0, Free, Paid}
ReservationsHold == \A a \in Actor : tx[a] # None /\ tx[a].op # None => Reserved(a)

\* What the provider sends.
EventsAreTrue ==
  /\ \A s \in PackSession : returned[s] # None => purchase[s] # None
  /\ \A e \in sent :
       /\ purchase[e.session] # None
       /\ e.kind = "charge" => e.paid /\ e.captured = Price
       /\ e.kind = "checkout" => e.captured = 0 /\ e.refunded = 0

Applied(s) == {e \in applied : e.session = s}
\* A payment is the largest of what the applied events say.
PaymentsAreLargest ==
  \A s \in PackSession :
    /\ payment[s].captured \in {e.captured : e \in Applied(s)} \cup {0}
    /\ payment[s].refunded \in {e.refunded : e \in Applied(s)} \cup {0}
    /\ \A e \in Applied(s) : e.captured <= payment[s].captured /\ e.refunded <= payment[s].refunded
PurchasesFollow ==
  \A s \in PackSession : purchase[s] # None =>
    /\ purchase[s].fulfilled = \E e \in Applied(s) : e.kind = "checkout" /\ e.paid
    /\ purchase[s].refunded = Deduction(purchase[s], payment[s])
LedgerInv ==
  /\ LedgerTypes /\ KeysAreFree /\ NothingAhead /\ ReservationsHold
  /\ EventsAreTrue /\ PaymentsAreLargest /\ PurchasesFollow
  /\ BalancesAddUp /\ MonthlyNeverOverdrawn /\ PaidNeverOverspent

Added(e, b) == IF e.key \notin booked /\ e.expires = b THEN e.amount ELSE 0
Topped(top, b) == IF b \in Month THEN top[b] ELSE 0

\* What is booked without a row, with one and with two.
LEMMA BookNone ==
  ASSUME LedgerTypes, NEW top \in [Month -> Int], Book({}, top)
  PROVE  /\ balance' \in [Month \cup {None} -> Int]
         /\ \A b \in Month \cup {None} : balance'[b] = balance[b] + Topped(top, b)
         /\ booked' = booked
<1> DEFINE In(b) == [e \in {} |-> IF e.key \notin booked /\ e.expires = b THEN e.amount ELSE 0]
<1>1. \A b : SumFunction(In(b)) = 0
  <2> SUFFICES ASSUME NEW b PROVE SumFunction(In(b)) = 0
    OBVIOUS
  <2>1. DOMAIN In(b) = {}
    OBVIOUS
  <2> HIDE DEF In
  <2> QED BY <2>1, SumOfNone
<1>2. balance' = [b \in Month \cup {None} |-> balance[b] + SumFunction(In(b)) + IF b \in Month THEN top[b] ELSE 0]
  BY DEF Book
<1>3. booked' = booked
  BY DEF Book
<1> HIDE DEF In
<1> QED BY <1>1, <1>2, <1>3 DEF LedgerTypes, Topped

LEMMA BookOne ==
  ASSUME LedgerTypes, NEW top \in [Month -> Int], NEW x, x.amount \in Int, Book({x}, top)
  PROVE  /\ balance' \in [Month \cup {None} -> Int]
         /\ \A b \in Month \cup {None} : balance'[b] = balance[b] + Added(x, b) + Topped(top, b)
         /\ booked' = booked \cup {x.key}
<1> DEFINE In(b) == [e \in {x} |-> IF e.key \notin booked /\ e.expires = b THEN e.amount ELSE 0]
<1>1. \A b : SumFunction(In(b)) = Added(x, b) /\ Added(x, b) \in Int
  <2> SUFFICES ASSUME NEW b PROVE SumFunction(In(b)) = Added(x, b) /\ Added(x, b) \in Int
    OBVIOUS
  <2>1. In(b) \in [{x} -> Int] /\ In(b)[x] = Added(x, b) /\ Added(x, b) \in Int
    BY DEF Added
  <2>2. IsFiniteSet({x})
    BY FS_Singleton
  <2> HIDE DEF In
  <2>3. SumFunction(In(b)) = In(b)[x]
    BY <2>1, <2>2, SumOfOne
  <2> QED BY <2>1, <2>3
<1>2. balance' = [b \in Month \cup {None} |-> balance[b] + SumFunction(In(b)) + IF b \in Month THEN top[b] ELSE 0]
  BY DEF Book
<1>3. booked' = booked \cup {x.key}
  BY DEF Book
<1> HIDE DEF In
<1> QED BY <1>1, <1>2, <1>3 DEF LedgerTypes, Topped

LEMMA BookTwo ==
  ASSUME LedgerTypes, NEW top \in [Month -> Int], NEW x, NEW y, x # y,
         x.amount \in Int, y.amount \in Int, Book({x, y}, top)
  PROVE  /\ balance' \in [Month \cup {None} -> Int]
         /\ \A b \in Month \cup {None} :
              balance'[b] = balance[b] + Added(x, b) + Added(y, b) + Topped(top, b)
         /\ booked' = booked \cup {x.key, y.key}
<1> DEFINE In(b) == [e \in {x, y} |-> IF e.key \notin booked /\ e.expires = b THEN e.amount ELSE 0]
<1>1. \A b : /\ SumFunction(In(b)) = Added(x, b) + Added(y, b)
             /\ Added(x, b) \in Int /\ Added(y, b) \in Int
  <2> SUFFICES ASSUME NEW b
               PROVE  /\ SumFunction(In(b)) = Added(x, b) + Added(y, b)
                      /\ Added(x, b) \in Int /\ Added(y, b) \in Int
    OBVIOUS
  <2>1. /\ In(b) \in [{x, y} -> Int] /\ In(b)[x] = Added(x, b) /\ In(b)[y] = Added(y, b)
        /\ Added(x, b) \in Int /\ Added(y, b) \in Int
    BY DEF Added
  <2>2. IsFiniteSet({x, y})
    <3>1. IsFiniteSet({x} \cup {y}) /\ {x} \cup {y} = {x, y}
      BY FS_Singleton, FS_AddElement
    <3> QED BY <3>1
  <2> HIDE DEF In
  <2>3. SumFunction(In(b)) = In(b)[x] + In(b)[y]
    BY <2>1, <2>2, SumOfTwo
  <2> QED BY <2>1, <2>3
<1>2. balance' = [b \in Month \cup {None} |-> balance[b] + SumFunction(In(b)) + IF b \in Month THEN top[b] ELSE 0]
  BY DEF Book
<1>3. booked' = booked \cup {x.key, y.key}
  BY DEF Book
<1> HIDE DEF In
<1> QED BY <1>1, <1>2, <1>3 DEF LedgerTypes, Topped

\* A grant is raised to the allowance of the plan, and no other month's is.
LEMMA GrantFits ==
  ASSUME LedgerAssumption, LedgerTypes, NEW at \in Month
  PROVE  /\ Grant(at) \in [Month -> Nat] /\ grant[at] + Grant(at)[at] \in {0, Free, Paid}
         /\ \A m \in Month \ {at} : Grant(at)[m] = 0
  BY DEF LedgerAssumption, LedgerTypes, Grant, NoGrant, Greater

\* What is available in the current month is what expires with it.
LEMMA MonthlyNow ==
  ASSUME LedgerAssumption, LedgerTypes, NEW at \in Month
  PROVE  /\ Monthly(at) \in Int
         /\ at = month /\ NothingAhead => Monthly(at) = balance[at]
<1> DEFINE D == at .. MaxMonth
           f == [m \in D |-> balance[m]]
           z == [m \in D |-> 0]
<1>1. D \subseteq Month /\ at \in D
  BY DEF Month, LedgerAssumption
<1>2. IsFiniteSet(D)
  BY <1>1, FS_Interval DEF Month, LedgerAssumption
<1> HIDE DEF D
<1>3. f \in [D -> Int] /\ z \in [D -> Int] /\ f[at] = balance[at] /\ z[at] = 0 /\ balance[at] \in Int
  BY <1>1 DEF LedgerTypes
<1>4. SumFunction(f) \in Int
  BY <1>2, <1>3, SumType
<1>5. SumFunction(z) = 0
  BY <1>2, SumOfZeros
<1>6. ASSUME at = month, NothingAhead PROVE SumFunction(f) = balance[at]
  <2>1. \A m \in D \ {at} : f[m] = z[m]
    BY <1>1, <1>6 DEF NothingAhead, Month, LedgerAssumption, D
  <2> HIDE DEF f, z
  <2>2. SumFunction(f) = SumFunction(z) - z[at] + f[at]
    BY <1>1, <1>2, <1>3, <2>1, SumChanges
  <2> QED BY <1>3, <1>5, <2>2
<1> QED BY <1>4, <1>6 DEF Monthly, D

\* The part of a pack that goes with a part of the money is at most the pack.
LEMMA Share ==
  ASSUME LedgerAssumption, NEW r \in 0 .. Price
  PROVE  /\ (Units * r) \div Price \in 0 .. Units
         /\ \A q \in 0 .. r : (Units * q) \div Price <= (Units * r) \div Price
<1>1. Units \in Nat /\ Price \in Nat /\ Price > 0 /\ r \in Nat /\ r <= Price
  BY DEF LedgerAssumption
<1>2. Units * r >= 0 /\ Units * r <= Units * Price
  BY <1>1
<1>3. (Units * r) \div Price <= Units
  BY <1>1, <1>2
<1>4. ASSUME NEW q \in 0 .. r PROVE (Units * q) \div Price <= (Units * r) \div Price
  <2>1. q \in Nat /\ q <= r
    BY <1>1
  <2>2. Units * q <= Units * r
    BY <1>1, <2>1
  <2> QED BY <1>1, <2>1, <2>2
<1> QED BY <1>1, <1>2, <1>3, <1>4

\* What a payment may be.
Possible(c) == c \in Payment /\ c.captured \in {0, Price} /\ (c.captured = 0 => c.refunded = 0)

\* The deduction grows with the payment.
LEMMA DeductionGrows ==
  ASSUME LedgerAssumption, NEW p, NEW q, p.fulfilled \in BOOLEAN, q.fulfilled \in BOOLEAN,
         p.fulfilled => q.fulfilled, NEW c, NEW d, Possible(c), Possible(d),
         c.captured <= d.captured, c.refunded <= d.refunded
  PROVE  /\ Deduction(p, c) \in 0 .. Units /\ Deduction(q, d) \in 0 .. Units
         /\ Deduction(p, c) <= Deduction(q, d)
<1>1. /\ Units \in Nat /\ Price \in Nat /\ Price > 0
      /\ c.refunded \in 0 .. Price /\ d.refunded \in 0 .. Price
      /\ c.captured \in {0, Price} /\ d.captured \in {0, Price}
  BY DEF LedgerAssumption, Possible, Payment
<1>2. \A x \in {p, q}, y \in {c, d} :
        Deduction(x, y) = IF x.fulfilled /\ y.captured # 0 THEN (Units * y.refunded) \div Price ELSE 0
  BY <1>1 DEF Deduction, Lesser
<1>3. /\ (Units * c.refunded) \div Price \in 0 .. Units /\ (Units * d.refunded) \div Price \in 0 .. Units
      /\ (Units * c.refunded) \div Price <= (Units * d.refunded) \div Price
  <2>1. c.refunded \in 0 .. d.refunded
    BY <1>1
  <2> QED BY <1>1, <2>1, Share
<1> QED BY <1>1, <1>2, <1>3

\* What is spent changes with the one reservation that changes.
LEMMA SpendingChanges ==
  ASSUME LedgerAssumption, LedgerTypes, LedgerTypes', NEW o \in Operation,
         \A p \in Operation \ {o} : reservation'[p] = reservation[p]
  PROVE  /\ \A m \in Month :
              /\ SumFunction(MonthlySpent(m)) \in Int
              /\ SumFunction(MonthlySpent(m))' =
                   SumFunction(MonthlySpent(m)) - MonthlySpent(m)[o] + MonthlySpent(m)'[o]
         /\ SumFunction(PaidSpent) \in Int
         /\ SumFunction(PaidSpent)' = SumFunction(PaidSpent) - PaidSpent[o] + PaidSpent'[o]
<1>1. IsFiniteSet(Operation)
  BY DEF LedgerAssumption
<1>2. ASSUME NEW m \in Month
      PROVE  /\ SumFunction(MonthlySpent(m)) \in Int
             /\ SumFunction(MonthlySpent(m))' =
                  SumFunction(MonthlySpent(m)) - MonthlySpent(m)[o] + MonthlySpent(m)'[o]
  <2>1. MonthlySpent(m) \in [Operation -> Int] /\ MonthlySpent(m)' \in [Operation -> Int]
    BY DEF LedgerTypes, MonthlySpent, Outstanding, Reservation
  <2>2. \A p \in Operation \ {o} : MonthlySpent(m)'[p] = MonthlySpent(m)[p]
    BY DEF MonthlySpent, Outstanding
  <2> QED BY <1>1, <2>1, <2>2, SumChanges, SumType
<1>3. /\ SumFunction(PaidSpent) \in Int
      /\ SumFunction(PaidSpent)' = SumFunction(PaidSpent) - PaidSpent[o] + PaidSpent'[o]
  <2>1. PaidSpent \in [Operation -> Int] /\ PaidSpent' \in [Operation -> Int]
    BY DEF LedgerTypes, PaidSpent, Outstanding, Reservation
  <2>2. \A p \in Operation \ {o} : PaidSpent'[p] = PaidSpent[p]
    BY DEF PaidSpent, Outstanding
  <2> QED BY <1>1, <2>1, <2>2, SumChanges, SumType
<1> QED BY <1>2, <1>3

\* What is bought and left changes with the one pack that changes.
LEMMA PacksChange ==
  ASSUME LedgerAssumption, LedgerTypes, LedgerTypes', NEW s \in PackSession,
         \A r \in PackSession \ {s} : purchase'[r] = purchase[r]
  PROVE  /\ SumFunction(PaidLeft) \in Int /\ SumFunction(PaidBought) \in Int
         /\ SumFunction(PaidLeft)' = SumFunction(PaidLeft) - PaidLeft[s] + PaidLeft'[s]
         /\ SumFunction(PaidBought)' = SumFunction(PaidBought) - PaidBought[s] + PaidBought'[s]
<1>1. IsFiniteSet(PackSession)
  BY DEF LedgerAssumption
<1>2. /\ PaidLeft \in [PackSession -> Int] /\ PaidLeft' \in [PackSession -> Int]
      /\ PaidBought \in [PackSession -> Int] /\ PaidBought' \in [PackSession -> Int]
  BY DEF LedgerAssumption, LedgerTypes, PaidLeft, PaidBought, Fulfilled, Purchase
<1>3. \A r \in PackSession \ {s} : PaidLeft'[r] = PaidLeft[r] /\ PaidBought'[r] = PaidBought[r]
  BY DEF PaidLeft, PaidBought, Fulfilled
<1> QED BY <1>1, <1>2, <1>3, SumChanges, SumType

\* No more is left of a pack than was bought.
LEMMA LeftOfBought ==
  ASSUME LedgerAssumption, LedgerTypes
  PROVE  SumFunction(PaidLeft) <= SumFunction(PaidBought)
<1>1. IsFiniteSet(PackSession)
  BY DEF LedgerAssumption
<1>2. /\ PaidLeft \in [PackSession -> Int] /\ PaidBought \in [PackSession -> Int]
      /\ \A s \in PackSession : PaidLeft[s] <= PaidBought[s]
  BY DEF LedgerAssumption, LedgerTypes, PaidLeft, PaidBought, Fulfilled, Purchase
<1> QED BY <1>1, <1>2, SumBounded

LEMMA LedgerInvInit ==
  ASSUME LedgerAssumption, LedgerInit
  PROVE  LedgerInv
<1>1. LedgerTypes
  <2>1. month \in Month /\ balance \in [Month \cup {None} -> Int] /\ grant \in [Month -> {0, Free, Paid}]
    BY DEF LedgerAssumption, LedgerInit, Month
  <2>2. payment \in [PackSession -> Payment]
    BY DEF LedgerAssumption, LedgerInit, Payment
  <2> QED BY <2>1, <2>2 DEF LedgerInit, LedgerTypes
<1>2. KeysAreFree /\ NothingAhead /\ ReservationsHold /\ EventsAreTrue /\ MonthlyNeverOverdrawn
  BY DEF LedgerInit, KeysAreFree, NothingAhead, ReservationsHold, EventsAreTrue,
         MonthlyNeverOverdrawn, Fulfilled, Outstanding
<1>3. PaymentsAreLargest /\ PurchasesFollow
  BY DEF LedgerInit, PaymentsAreLargest, PurchasesFollow, Applied
<1>4. /\ \A m \in Month : MonthlySpent(m) = [o \in Operation |-> 0]
      /\ PaidSpent = [o \in Operation |-> 0] /\ PaidLeft = [s \in PackSession |-> 0]
      /\ PaidBought = [s \in PackSession |-> 0]
  BY DEF LedgerInit, MonthlySpent, PaidSpent, PaidLeft, PaidBought, Outstanding, Fulfilled
<1>5. /\ SumFunction([o \in Operation |-> 0]) = 0
      /\ SumFunction([s \in PackSession |-> 0]) = 0
  BY SumOfZeros DEF LedgerAssumption
<1>6. BalancesAddUp /\ PaidNeverOverspent
  BY <1>4, <1>5 DEF LedgerInit, BalancesAddUp, PaidNeverOverspent
<1> QED BY <1>1, <1>2, <1>3, <1>6 DEF LedgerInv

\* What only depends on the rows.
LEMMA RowsSame ==
  ASSUME LedgerInv, UNCHANGED rows, crossed \subseteq crossed'
  PROVE  /\ KeysAreFree' /\ PaymentsAreLargest' /\ PurchasesFollow'
         /\ BalancesAddUp' /\ MonthlyNeverOverdrawn' /\ PaidNeverOverspent'
<1>1. /\ balance' = balance /\ booked' = booked /\ grant' = grant /\ reservation' = reservation
      /\ purchase' = purchase /\ payment' = payment /\ applied' = applied
  BY DEF rows
<1>2. KeysAreFree'
  BY <1>1 DEF LedgerInv, KeysAreFree, Outstanding, Fulfilled
<1>3. PaymentsAreLargest' /\ PurchasesFollow'
  BY <1>1 DEF LedgerInv, PaymentsAreLargest, PurchasesFollow, Applied
<1>4. BalancesAddUp' /\ PaidNeverOverspent'
  <2>1. /\ \A m \in Month : MonthlySpent(m)' = MonthlySpent(m)
        /\ PaidSpent' = PaidSpent /\ PaidLeft' = PaidLeft /\ PaidBought' = PaidBought
    BY <1>1 DEF MonthlySpent, PaidSpent, PaidLeft, PaidBought, Outstanding, Fulfilled
  <2> QED BY <1>1, <2>1 DEF LedgerInv, BalancesAddUp, PaidNeverOverspent
<1>5. MonthlyNeverOverdrawn'
  BY <1>1 DEF LedgerInv, MonthlyNeverOverdrawn
<1> QED BY <1>2, <1>3, <1>4, <1>5

\* A reservation that is not committed is not disturbed.
LEMMA HoldKept ==
  ASSUME ReservationsHold, UNCHANGED <<balance, grant>>, crossed \subseteq crossed',
         \A b \in Actor : tx'[b] # None /\ tx'[b].op # None =>
           tx'[b] = tx[b] /\ (holder = b => holder' = b)
  PROVE  ReservationsHold'
  BY DEF ReservationsHold, Reserved

\* Nobody holds a reservation while the lock is free.
LEMMA LockFree ==
  ASSUME LedgerAssumption, LedgerInv, MayLock
  PROVE  \A b \in Actor : tx[b] # None => tx[b].op = None
  BY DEF LedgerAssumption, LedgerInv, MayLock, ReservationsHold, Reserved

\* A step that leaves the rows alone.
LEMMA Quiet ==
  ASSUME LedgerAssumption, LedgerInv, LedgerTypes', UNCHANGED rows, crossed \subseteq crossed',
         month <= month', EventsAreTrue', ReservationsHold'
  PROVE  LedgerInv'
<1>1. NothingAhead'
  <2>1. month \in Int /\ month' \in Int /\ \A m \in Month : m \in Int
    BY DEF LedgerInv, LedgerTypes, Month
  <2>2. ASSUME NEW m \in Month, m > month' PROVE balance'[m] = 0
    BY <2>1, <2>2 DEF LedgerInv, NothingAhead, rows
  <2>3. ASSUME NEW o \in Operation, reservation'[o] # None
        PROVE  reservation'[o].expires <= month' /\ reservation'[o].monthly >= 0
    <3>1. reservation' = reservation
      BY DEF rows
    <3>2. reservation[o].expires <= month /\ reservation[o].monthly >= 0
      BY <2>3, <3>1 DEF LedgerInv, NothingAhead
    <3>3. reservation[o].expires \in Month
      BY <2>3, <3>1 DEF LedgerInv, LedgerTypes, Reservation
    <3> QED BY <2>1, <3>1, <3>2, <3>3
  <2> QED BY <2>2, <2>3 DEF NothingAhead
<1> QED BY <1>1, RowsSame DEF LedgerInv

\* The invariant is kept by every step.
LEMMA BeginKeeps ==
  ASSUME LedgerAssumption, LedgerInv, NEW a \in Actor, Begin(a)
  PROVE  LedgerInv'
<1> DEFINE t == [at |-> month, grants |-> NoGrant, op |-> None, takes |-> None]
<1>1. tx' = [tx EXCEPT ![a] = t] /\ UNCHANGED <<month, subscribed, rows, holder, provider, crossed>>
  BY DEF Begin
<1>2. t \in Transaction /\ t.at = month /\ t.op = None
  BY DEF LedgerInv, LedgerTypes, Transaction, NoGrant
<1> HIDE DEF t
<1>3. LedgerTypes /\ LedgerTypes'
  BY <1>1, <1>2 DEF LedgerInv, LedgerTypes, rows, provider, Month
<1>4. ReservationsHold'
  BY <1>1, <1>2, <1>3, HoldKept DEF LedgerInv, LedgerTypes, rows
<1>5. EventsAreTrue'
  BY <1>1 DEF LedgerInv, EventsAreTrue, rows, provider
<1> QED BY <1>1, <1>3, <1>4, <1>5, Quiet DEF LedgerTypes, Month

LEMMA RollbackKeeps ==
  ASSUME LedgerAssumption, LedgerInv, NEW a \in Actor, Rollback(a)
  PROVE  LedgerInv'
<1>1. /\ tx' = [tx EXCEPT ![a] = None] /\ UNCHANGED <<month, subscribed, rows, provider, crossed>>
      /\ holder' = (IF holder = a THEN None ELSE holder)
  BY DEF Rollback
<1>3. LedgerTypes /\ LedgerTypes'
  BY <1>1 DEF LedgerInv, LedgerTypes, rows, provider
<1>4. ReservationsHold'
  BY <1>1, <1>3, HoldKept DEF LedgerInv, LedgerTypes, rows
<1>5. EventsAreTrue'
  BY <1>1 DEF LedgerInv, EventsAreTrue, rows, provider
<1> QED BY <1>1, <1>3, <1>4, <1>5, Quiet DEF LedgerTypes, Month

LEMMA PayLaterKeeps ==
  ASSUME LedgerAssumption, LedgerInv, NEW s \in PackSession, PayLater(s)
  PROVE  LedgerInv'
<1> DEFINE e == CheckoutEvent(s, FALSE)
<1>1. /\ sent' = sent \cup {e} /\ purchase[s] # None
      /\ UNCHANGED <<month, subscribed, rows, tx, holder, returned, crossed>>
  BY DEF PayLater
<1>2. /\ e \in PaymentEvent /\ e.session = s /\ e.kind = "checkout"
      /\ e.captured = 0 /\ e.refunded = 0
  BY DEF LedgerAssumption, CheckoutEvent, PaymentEvent
<1> HIDE DEF e
<1>3. LedgerTypes /\ LedgerTypes' /\ month <= month'
  BY <1>1, <1>2 DEF LedgerInv, LedgerTypes, rows, Month
<1>4. ReservationsHold'
  BY <1>1, HoldKept DEF LedgerInv, rows
<1>5. EventsAreTrue'
  BY <1>1, <1>2 DEF LedgerInv, EventsAreTrue, rows
<1> QED BY <1>1, <1>3, <1>4, <1>5, Quiet

LEMMA PayKeeps ==
  ASSUME LedgerAssumption, LedgerInv, NEW s \in PackSession, Pay(s)
  PROVE  LedgerInv'
<1> DEFINE e == CheckoutEvent(s, TRUE)
           c == ChargeEvent(s, Price, 0)
<1>1. /\ sent' = sent \cup {e, c} /\ purchase[s] # None
      /\ returned' = [returned EXCEPT ![s] = 0]
      /\ UNCHANGED <<month, subscribed, rows, tx, holder, crossed>>
  BY DEF Pay
<1>2. /\ e \in PaymentEvent /\ e.session = s /\ e.kind = "checkout"
      /\ e.captured = 0 /\ e.refunded = 0
  BY DEF LedgerAssumption, CheckoutEvent, PaymentEvent
<1>3. /\ c \in PaymentEvent /\ c.session = s /\ c.kind = "charge" /\ c.paid
      /\ c.captured = Price /\ 0 \in 0 .. Price
  BY DEF LedgerAssumption, ChargeEvent, PaymentEvent
<1> HIDE DEF e, c
<1>4. LedgerTypes /\ LedgerTypes' /\ month <= month'
  BY <1>1, <1>2, <1>3 DEF LedgerInv, LedgerTypes, rows, Month
<1>5. ReservationsHold'
  BY <1>1, HoldKept DEF LedgerInv, rows
<1>6. EventsAreTrue'
  <2>1. purchase' = purchase
    BY <1>1 DEF rows
  <2>2. \A r \in PackSession : returned'[r] # None => purchase'[r] # None
    BY <1>1, <2>1 DEF LedgerInv, EventsAreTrue, LedgerTypes
  <2> QED BY <1>1, <1>2, <1>3, <2>1, <2>2 DEF LedgerInv, EventsAreTrue
<1> QED BY <1>1, <1>4, <1>5, <1>6, Quiet

LEMMA GiveBackKeeps ==
  ASSUME LedgerAssumption, LedgerInv, NEW s \in PackSession, NEW x \in 1 .. Price, GiveBack(s, x)
  PROVE  LedgerInv'
<1> DEFINE c == ChargeEvent(s, Price, returned[s] + x)
<1>1. /\ sent' = sent \cup {c} /\ returned[s] # None /\ returned[s] + x <= Price
      /\ returned' = [returned EXCEPT ![s] = returned[s] + x]
      /\ UNCHANGED <<month, subscribed, rows, tx, holder, crossed>>
  BY DEF GiveBack
<1>2. returned[s] + x \in 0 .. Price
  BY <1>1 DEF LedgerInv, LedgerTypes, LedgerAssumption
<1>3. c \in PaymentEvent /\ c.session = s /\ c.kind = "charge" /\ c.paid /\ c.captured = Price
  BY <1>2 DEF LedgerAssumption, ChargeEvent, PaymentEvent
<1> HIDE DEF c
<1>4. LedgerTypes /\ LedgerTypes' /\ month <= month'
  BY <1>1, <1>2, <1>3 DEF LedgerInv, LedgerTypes, rows, Month
<1>5. ReservationsHold'
  BY <1>1, HoldKept DEF LedgerInv, rows
<1>6. EventsAreTrue'
  <2>1. purchase' = purchase
    BY <1>1 DEF rows
  <2>2. purchase[s] # None
    BY <1>1 DEF LedgerInv, EventsAreTrue
  <2>3. \A r \in PackSession : returned'[r] # None => purchase'[r] # None
    BY <1>1, <2>1, <2>2 DEF LedgerInv, EventsAreTrue, LedgerTypes
  <2> QED BY <1>1, <1>3, <2>1, <2>2, <2>3 DEF LedgerInv, EventsAreTrue
<1> QED BY <1>1, <1>4, <1>5, <1>6, Quiet

LEMMA SubscribeKeeps ==
  ASSUME LedgerAssumption, LedgerInv, Subscribe
  PROVE  LedgerInv'
<1>1. subscribed' = ~subscribed /\ UNCHANGED <<month, rows, tx, holder, provider, crossed>>
  BY DEF Subscribe
<1>2. LedgerTypes /\ LedgerTypes'
  BY <1>1 DEF LedgerInv, LedgerTypes, rows, provider
<1>3. ReservationsHold'
  BY <1>1, HoldKept DEF LedgerInv, rows
<1>4. EventsAreTrue'
  BY <1>1 DEF LedgerInv, EventsAreTrue, rows, provider
<1> QED BY <1>1, <1>2, <1>3, <1>4, Quiet DEF LedgerTypes, Month

LEMMA MonthEndsKeeps ==
  ASSUME LedgerAssumption, LedgerInv, MonthEnds
  PROVE  LedgerInv'
<1>1. /\ month < MaxMonth /\ month' = month + 1
      /\ UNCHANGED <<subscribed, rows, tx, holder, provider, crossed>>
  BY DEF MonthEnds
<1>2. month \in Month /\ month' \in Month /\ month <= month'
  BY <1>1 DEF LedgerInv, LedgerTypes, LedgerAssumption, Month
<1>3. \A a \in Actor : tx[a] # None => tx[a].at <= month'
  BY <1>2 DEF LedgerInv, LedgerTypes, Transaction, Month
<1>4. LedgerTypes /\ LedgerTypes'
  BY <1>1, <1>2, <1>3 DEF LedgerInv, LedgerTypes, rows, provider
<1>5. ReservationsHold'
  BY <1>1, HoldKept DEF LedgerInv, rows
<1>6. EventsAreTrue'
  BY <1>1 DEF LedgerInv, EventsAreTrue, rows, provider
<1> QED BY <1>1, <1>2, <1>4, <1>5, <1>6, Quiet

LEMMA LedgerStutter ==
  ASSUME LedgerAssumption, LedgerInv, UNCHANGED creditVars
  PROVE  LedgerInv'
<1>1. UNCHANGED <<month, subscribed, rows, tx, holder, provider, crossed>>
  BY DEF creditVars
<1>2. LedgerTypes /\ LedgerTypes'
  BY <1>1 DEF LedgerInv, LedgerTypes, rows, provider
<1>3. ReservationsHold'
  BY <1>1, HoldKept DEF LedgerInv, rows
<1>4. EventsAreTrue'
  BY <1>1 DEF LedgerInv, EventsAreTrue, rows, provider
<1> QED BY <1>1, <1>2, <1>3, <1>4, Quiet DEF LedgerTypes, Month

\* A booking raises the grants by what is on top.
LEMMA GrantsBooked ==
  ASSUME LedgerTypes, NEW entries, NEW top \in [Month -> Nat], Book(entries, top),
         NEW at \in Month, grant[at] + top[at] \in {0, Free, Paid},
         \A m \in Month \ {at} : top[m] = 0, Free \in Nat, Paid \in Nat
  PROVE  grant' \in [Month -> {0, Free, Paid}] /\ \A m \in Month : grant'[m] = grant[m] + top[m]
<1>1. grant' = [m \in Month |-> grant[m] + top[m]]
  BY DEF Book
<1>2. \A m \in Month \ {at} : grant[m] + top[m] = grant[m]
  BY DEF LedgerTypes
<1> QED BY <1>1, <1>2 DEF LedgerTypes

LEMMA NothingGranted ==
  ASSUME LedgerAssumption, LedgerTypes, NEW entries, Book(entries, NoGrant)
  PROVE  grant' = grant /\ NoGrant \in [Month -> Int] /\ \A b : Topped(NoGrant, b) = 0
<1>1. grant' = [m \in Month |-> grant[m] + 0]
  BY DEF Book, NoGrant
<1>2. \A m \in Month : grant[m] + 0 = grant[m]
  BY DEF LedgerTypes, LedgerAssumption
<1> QED BY <1>1, <1>2 DEF LedgerTypes, NoGrant, Topped

LEMMA OverviewKeeps ==
  ASSUME LedgerAssumption, LedgerInv, NEW a \in Actor, Overview(a)
  PROVE  LedgerInv'
<1> DEFINE at == tx[a].at
           top == Grant(at)
<1>1. /\ tx[a] # None /\ tx' = [tx EXCEPT ![a] = None] /\ MayLock
      /\ Book({}, top)
      /\ UNCHANGED <<month, subscribed, reservation, purchase, payment, applied, holder,
                     provider, crossed>>
  BY DEF Overview
<1>2. LedgerTypes /\ at \in Month /\ at <= month
  BY <1>1 DEF LedgerInv, LedgerTypes, Transaction
<1> HIDE DEF at
<1>3. /\ top \in [Month -> Nat] /\ grant[at] + top[at] \in {0, Free, Paid}
      /\ top \in [Month -> Int] /\ \A m \in Month \ {at} : top[m] = 0
  BY <1>2, GrantFits
<1> HIDE DEF top
<1>4. /\ grant' \in [Month -> {0, Free, Paid}] /\ \A m \in Month : grant'[m] = grant[m] + top[m]
  BY <1>1, <1>2, <1>3, GrantsBooked DEF LedgerAssumption
<1>5. /\ balance' \in [Month \cup {None} -> Int] /\ booked' = booked
      /\ \A b \in Month \cup {None} : balance'[b] = balance[b] + Topped(top, b)
  BY <1>1, <1>2, <1>3, BookNone
<1>6. /\ balance'[None] = balance[None]
      /\ \A m \in Month : balance'[m] = balance[m] + top[m] /\ balance'[m] >= balance[m]
  <2>1. None \notin Month
    BY DEF LedgerAssumption
  <2> QED BY <1>2, <1>3, <1>5, <2>1 DEF Topped, LedgerTypes
<1>7. LedgerTypes'
  BY <1>1, <1>2, <1>4, <1>5 DEF LedgerTypes, provider
<1>8. KeysAreFree'
  BY <1>1, <1>5 DEF LedgerInv, KeysAreFree, Outstanding, Fulfilled
<1>9. NothingAhead'
  <2>1. \A m \in Month : m > month => m # at
    BY <1>2 DEF LedgerTypes, Month
  <2> QED BY <1>1, <1>2, <1>3, <1>6, <2>1 DEF LedgerInv, NothingAhead, LedgerTypes
<1>10. ReservationsHold'
  BY <1>1, <1>2, LockFree DEF ReservationsHold, LedgerTypes
<1>11. EventsAreTrue' /\ PaymentsAreLargest' /\ PurchasesFollow'
  BY <1>1 DEF LedgerInv, EventsAreTrue, provider, PaymentsAreLargest, PurchasesFollow, Applied
<1>12. BalancesAddUp' /\ PaidNeverOverspent'
  <2>1. /\ \A m \in Month : MonthlySpent(m)' = MonthlySpent(m)
        /\ PaidSpent' = PaidSpent /\ PaidLeft' = PaidLeft /\ PaidBought' = PaidBought
    BY <1>1 DEF MonthlySpent, PaidSpent, PaidLeft, PaidBought, Outstanding, Fulfilled
  <2>2. \A m \in Month : SumFunction(MonthlySpent(m)) \in Int
    <3> SUFFICES ASSUME NEW m \in Month PROVE SumFunction(MonthlySpent(m)) \in Int
      OBVIOUS
    <3>1. MonthlySpent(m) \in [Operation -> Int]
      BY <1>2 DEF LedgerTypes, MonthlySpent, Outstanding, Reservation
    <3> QED BY <3>1, SumType DEF LedgerAssumption
  <2>3. \A m \in Month : balance'[m] = grant'[m] - SumFunction(MonthlySpent(m))
    <3> SUFFICES ASSUME NEW m \in Month PROVE balance'[m] = grant'[m] - SumFunction(MonthlySpent(m))
      OBVIOUS
    <3>1. balance[m] = grant[m] - SumFunction(MonthlySpent(m))
      BY DEF LedgerInv, BalancesAddUp
    <3>2. grant[m] \in Int /\ top[m] \in Int
      BY <1>2, <1>3 DEF LedgerTypes, LedgerAssumption
    <3> QED BY <1>4, <1>6, <2>2, <3>1, <3>2
  <2> QED BY <1>6, <2>1, <2>3 DEF LedgerInv, BalancesAddUp, PaidNeverOverspent
<1>13. MonthlyNeverOverdrawn'
  BY <1>1, <1>2, <1>6, <1>7 DEF LedgerInv, MonthlyNeverOverdrawn, LedgerTypes
<1> QED BY <1>7, <1>8, <1>9, <1>10, <1>11, <1>12, <1>13 DEF LedgerInv

\* What a reservation takes is there.
LEMMA TakesWhatIsThere ==
  ASSUME NEW m \in Int, NEW paid \in Int, NEW cost \in Nat, Enough(m, paid, cost)
  PROVE  /\ Lesser(cost, Greater(m, 0)) \in Nat /\ cost - Lesser(cost, Greater(m, 0)) \in Nat
         /\ cost - Lesser(cost, Greater(m, 0)) <= paid
         /\ m >= 0 => Lesser(cost, Greater(m, 0)) <= m
  BY DEF Enough, Lesser, Greater

LEMMA ReserveKeeps ==
  ASSUME LedgerAssumption, LedgerInv, NEW a \in Actor, NEW o \in Operation, NEW cost \in Cost,
         ReserveCredits(a, o, cost)
  PROVE  LedgerInv'
<1> DEFINE at == tx[a].at
           monthly == Monthly(at) + Grant(at)[at]
           from == Lesser(cost, Greater(monthly, 0))
           t == [tx[a] EXCEPT !.grants = Grant(at), !.op = o,
                              !.takes = [cost |-> cost, monthly |-> from, paid |-> cost - from,
                                         expires |-> at, refunded |-> FALSE]]
<1>1. /\ tx[a] # None /\ MayLock /\ holder' = a /\ Enough(monthly, balance[None], cost)
      /\ crossed' = (IF month > at THEN crossed \cup {at} ELSE crossed)
      /\ UNCHANGED <<month, subscribed, rows, provider>>
  BY DEF ReserveCredits
<1>2. LedgerTypes /\ tx[a] \in Transaction /\ at \in Month /\ at <= month /\ month \in Month
  BY <1>1 DEF LedgerInv, LedgerTypes, Transaction
<1>3. tx' = [tx EXCEPT ![a] = t]
  BY <1>2 DEF ReserveCredits, LedgerTypes, Transaction
<1>4. /\ Grant(at) \in [Month -> Nat] /\ grant[at] + Grant(at)[at] \in {0, Free, Paid}
      /\ \A m \in Month \ {at} : Grant(at)[m] = 0
  BY <1>2, GrantFits
<1>5. /\ Monthly(at) \in Int /\ (at = month => Monthly(at) = balance[at])
  BY <1>2, MonthlyNow DEF LedgerInv
<1>6. /\ from \in Nat /\ cost - from \in Nat /\ cost - from <= balance[None]
      /\ monthly >= 0 => from <= monthly
  <2>1. monthly \in Int /\ balance[None] \in Int /\ cost \in Nat
    BY <1>2, <1>4, <1>5 DEF LedgerTypes, LedgerAssumption
  <2> HIDE DEF monthly
  <2> QED BY <1>1, <2>1, TakesWhatIsThere
<1>7. at \notin crossed' => from <= balance[at] + Grant(at)[at]
  <2>1. SUFFICES ASSUME at \notin crossed' PROVE from <= balance[at] + Grant(at)[at]
    OBVIOUS
  <2>2. at = month /\ at \notin crossed
    <3> HIDE DEF at
    <3> QED BY <1>1, <1>2, <2>1 DEF Month
  <2>3. balance[at] >= 0 /\ balance[at] \in Int /\ Grant(at)[at] \in Nat
    BY <1>2, <1>4, <2>2 DEF LedgerInv, MonthlyNeverOverdrawn, LedgerTypes
  <2>4. monthly = balance[at] + Grant(at)[at] /\ monthly >= 0
    BY <1>5, <2>2, <2>3
  <2> HIDE DEF monthly, from
  <2> QED BY <1>6, <2>4
<1> HIDE DEF from, monthly
<1>8. /\ t.at = at /\ t.op = o /\ t.grants = Grant(at) /\ t.takes.monthly = from
      /\ t.takes.paid = cost - from /\ t.takes.expires = at /\ ~t.takes.refunded
      /\ t \in Transaction /\ t.takes # None
  <2>1. [cost |-> cost, monthly |-> from, paid |-> cost - from, expires |-> at, refunded |-> FALSE] \in Reservation
    BY <1>2, <1>6 DEF Reservation
  <2> QED BY <1>2, <1>4, <2>1 DEF Transaction, LedgerAssumption
<1> HIDE DEF t, at
<1>9. LedgerTypes' /\ crossed \subseteq crossed' /\ month <= month'
  BY <1>1, <1>2, <1>3, <1>8 DEF LedgerTypes, rows, provider, Month
<1>10. ReservationsHold'
  <2>1. \A b \in Actor \ {a} : tx'[b] # None => tx'[b].op = None
    BY <1>1, <1>3, <1>2, LockFree DEF LedgerTypes
  <2>2. tx'[a] = t
    BY <1>3, <1>2 DEF LedgerTypes
  <2>3. Reserved(a)'
    BY <1>1, <1>4, <1>6, <1>7, <1>8, <2>2 DEF Reserved, rows
  <2> QED BY <2>1, <2>3 DEF ReservationsHold
<1>11. EventsAreTrue'
  BY <1>1 DEF LedgerInv, EventsAreTrue, rows, provider
<1> QED BY <1>1, <1>9, <1>10, <1>11, Quiet

\* Different operation keys.
LEMMA KeysDiffer ==
  ASSUME NEW o, NEW p, NEW s, NEW n
  PROVE  /\ <<"spend", o, "monthly">> # <<"spend", p, "paid">>
         /\ <<"refund", o, "monthly">> # <<"refund", p, "paid">>
         /\ \A j, k \in {"monthly", "paid"} :
              /\ <<"spend", o, j>> # <<"refund", p, k>>
              /\ <<"purchase", s>> # <<"spend", o, j>> /\ <<"purchase", s>> # <<"refund", o, j>>
              /\ <<"payment-refund", s, n>> # <<"spend", o, j>>
              /\ <<"payment-refund", s, n>> # <<"refund", o, j>>
              /\ o # p => <<"spend", o, j>> # <<"spend", p, k>> /\ <<"refund", o, j>> # <<"refund", p, k>>
  OBVIOUS

\* The operations and packs that a row is not about.
LEMMA KeysStay ==
  ASSUME KeysAreFree, NEW o \in Operation, NEW kind \in {"spend", "refund"},
         booked' = booked \cup {<<kind, o, "monthly">>, <<kind, o, "paid">>},
         UNCHANGED purchase, \A p \in Operation \ {o} : reservation'[p] = reservation[p],
         reservation'[o] # None, kind = "refund" => reservation'[o].refunded,
         kind = "spend" => reservation[o] = None
  PROVE  KeysAreFree'
<1>1. ASSUME NEW p \in Operation, reservation'[p] = None
      PROVE  <<"spend", p, "monthly">> \notin booked' /\ <<"spend", p, "paid">> \notin booked'
  <2>1. p # o /\ reservation[p] = None
    BY <1>1
  <2> QED BY <2>1, KeysDiffer DEF KeysAreFree
<1>2. ASSUME NEW p \in Operation, reservation'[p] = None \/ Outstanding(p)'
      PROVE  <<"refund", p, "monthly">> \notin booked' /\ <<"refund", p, "paid">> \notin booked'
  <2>1. /\ p # o => reservation[p] = None \/ Outstanding(p)
        /\ p = o => kind = "spend" /\ reservation[p] = None
    BY <1>2 DEF Outstanding
  <2>2. <<"refund", p, "monthly">> \notin booked /\ <<"refund", p, "paid">> \notin booked
    BY <2>1 DEF KeysAreFree
  <2> QED BY <2>1, <2>2, KeysDiffer
<1>3. ASSUME NEW s \in PackSession
      PROVE  /\ ~Fulfilled(s)' => <<"purchase", s>> \notin booked'
             /\ \A n \in 1 .. Units : <<"payment-refund", s, n>> \in booked' =>
                  purchase'[s] # None /\ n <= purchase'[s].refunded
  <2>1. Fulfilled(s)' = Fulfilled(s)
    BY DEF Fulfilled
  <2>2. \A n : <<"payment-refund", s, n>> \in booked' => <<"payment-refund", s, n>> \in booked
    BY KeysDiffer
  <2>3. <<"purchase", s>> \in booked' => <<"purchase", s>> \in booked
    BY KeysDiffer
  <2> QED BY <2>1, <2>2, <2>3 DEF KeysAreFree
<1> QED BY <1>1, <1>2, <1>3 DEF KeysAreFree

\* Two rows of an operation, whose keys were free.
LEMMA TwoRows ==
  ASSUME LedgerAssumption, LedgerTypes, NEW top \in [Month -> Int], NEW o, NEW kind \in {"spend", "refund"},
         NEW x \in Int, NEW y \in Int, NEW m \in Month,
         <<kind, o, "monthly">> \notin booked, <<kind, o, "paid">> \notin booked,
         Book({LedgerRow(<<kind, o, "monthly">>, x, m), LedgerRow(<<kind, o, "paid">>, y, None)}, top)
  PROVE  /\ balance' \in [Month \cup {None} -> Int]
         /\ balance'[m] = balance[m] + x + top[m]
         /\ \A n \in Month \ {m} : balance'[n] = balance[n] + top[n]
         /\ balance'[None] = balance[None] + y
         /\ booked' = booked \cup {<<kind, o, "monthly">>, <<kind, o, "paid">>}
<1> DEFINE e == LedgerRow(<<kind, o, "monthly">>, x, m)
           f == LedgerRow(<<kind, o, "paid">>, y, None)
<1>1. /\ e.key = <<kind, o, "monthly">> /\ f.key = <<kind, o, "paid">>
      /\ e.amount = x /\ f.amount = y /\ e.expires = m /\ f.expires = None
  BY DEF LedgerRow
<1>2. e # f
  <2>1. e.key # f.key
    BY <1>1
  <2> HIDE DEF e, f
  <2> QED BY <2>1
<1>3. Book({e, f}, top)
  OBVIOUS
<1> HIDE DEF e, f
<1>4. /\ balance' \in [Month \cup {None} -> Int]
      /\ \A b \in Month \cup {None} : balance'[b] = balance[b] + Added(e, b) + Added(f, b) + Topped(top, b)
      /\ booked' = booked \cup {e.key, f.key}
  BY <1>1, <1>2, <1>3, BookTwo
<1>5. None \notin Month
  BY DEF LedgerAssumption
<1>6. /\ \A b : Added(e, b) = IF b = m THEN x ELSE 0
      /\ \A b : Added(f, b) = IF b = None THEN y ELSE 0
  BY <1>1 DEF Added
<1>7. \A b \in Month \cup {None} : balance[b] \in Int
  BY DEF LedgerTypes
<1>8. \A n \in Month : top[n] \in Int /\ Topped(top, n) = top[n]
  BY DEF Topped
<1>9. Topped(top, None) = 0
  BY <1>5 DEF Topped
<1>10. balance'[None] = balance[None] + y
  BY <1>4, <1>5, <1>6, <1>7, <1>9
<1>11. balance'[m] = balance[m] + x + top[m]
  BY <1>4, <1>5, <1>6, <1>7, <1>8
<1>12. \A n \in Month \ {m} : balance'[n] = balance[n] + top[n]
  BY <1>4, <1>5, <1>6, <1>7, <1>8
<1> QED BY <1>1, <1>4, <1>10, <1>11, <1>12

LEMMA CommitKeeps ==
  ASSUME LedgerAssumption, LedgerInv, NEW a \in Actor, Commit(a)
  PROVE  LedgerInv'
<1> DEFINE t == tx[a]
           o == t.op
           at == t.at
           r == t.takes
<1>1. /\ t # None /\ o # None /\ reservation[o] = None
      /\ reservation' = [reservation EXCEPT ![o] = r]
      /\ tx' = [tx EXCEPT ![a] = None]
      /\ holder' = (IF holder = a THEN None ELSE holder)
      /\ UNCHANGED <<month, subscribed, purchase, payment, applied, provider, crossed>>
  BY DEF Commit
<1>2. /\ LedgerTypes /\ t \in Transaction /\ at \in Month /\ at <= month /\ month \in Month
      /\ o \in Operation
  BY <1>1 DEF LedgerInv, LedgerTypes, Transaction
<1>3. Reserved(a)
  BY <1>1 DEF LedgerInv, ReservationsHold
<1>4. /\ holder = a /\ r # None /\ ~r.refunded /\ r.expires = at
      /\ r.paid <= balance[None]
      /\ at \notin crossed => r.monthly <= balance[at] + t.grants[at]
      /\ \A m \in Month \ {at} : t.grants[m] = 0
      /\ grant[at] + t.grants[at] \in {0, Free, Paid}
  BY <1>3 DEF Reserved
<1>5. /\ r \in Reservation /\ r.monthly \in Nat /\ r.paid \in Nat
      /\ t.grants \in [Month -> Nat] /\ t.grants \in [Month -> Int]
  BY <1>2, <1>4 DEF Transaction, Reservation
<1>6. Book({LedgerRow(<<"spend", o, "monthly">>, -r.monthly, at),
            LedgerRow(<<"spend", o, "paid">>, -r.paid, None)}, t.grants)
  BY <1>4 DEF Commit
<1> HIDE DEF r, at, o, t
<1>7. /\ grant' \in [Month -> {0, Free, Paid}] /\ \A m \in Month : grant'[m] = grant[m] + t.grants[m]
  BY <1>2, <1>4, <1>5, <1>6, GrantsBooked DEF LedgerAssumption
<1>8. /\ balance' \in [Month \cup {None} -> Int]
      /\ balance'[at] = balance[at] - r.monthly + t.grants[at]
      /\ \A m \in Month \ {at} : balance'[m] = balance[m] + t.grants[m]
      /\ balance'[None] = balance[None] - r.paid
      /\ booked' = booked \cup {<<"spend", o, "monthly">>, <<"spend", o, "paid">>}
  <2> DEFINE x == -r.monthly
             y == -r.paid
  <2>1. <<"spend", o, "monthly">> \notin booked /\ <<"spend", o, "paid">> \notin booked
    BY <1>1, <1>2 DEF LedgerInv, KeysAreFree
  <2>2. x \in Int /\ y \in Int /\ "spend" \in {"spend", "refund"}
    BY <1>5
  <2>3. Book({LedgerRow(<<"spend", o, "monthly">>, x, at), LedgerRow(<<"spend", o, "paid">>, y, None)},
             t.grants)
    BY <1>6
  <2> HIDE DEF x, y
  <2>4. /\ balance' \in [Month \cup {None} -> Int]
        /\ balance'[at] = balance[at] + x + t.grants[at]
        /\ \A m \in Month \ {at} : balance'[m] = balance[m] + t.grants[m]
        /\ balance'[None] = balance[None] + y
        /\ booked' = booked \cup {<<"spend", o, "monthly">>, <<"spend", o, "paid">>}
    BY <1>2, <1>5, <2>1, <2>2, <2>3, TwoRows
  <2>5. balance[at] \in Int /\ balance[None] \in Int /\ t.grants[at] \in Int
    BY <1>2, <1>5 DEF LedgerTypes
  <2>6. /\ balance'[at] = balance[at] - r.monthly + t.grants[at]
        /\ balance'[None] = balance[None] - r.paid
    BY <1>5, <2>4, <2>5 DEF x, y
  <2> QED BY <2>4, <2>6
<1>9. LedgerTypes'
  BY <1>1, <1>2, <1>5, <1>7, <1>8 DEF LedgerTypes, provider
<1>10. reservation'[o] = r /\ \A p \in Operation \ {o} : reservation'[p] = reservation[p]
  BY <1>1, <1>2 DEF LedgerTypes
<1>11. KeysAreFree'
  BY <1>1, <1>2, <1>4, <1>8, <1>10, KeysStay DEF LedgerInv
<1>12. NothingAhead'
  <2>1. \A m \in Month : m > month => m # at
    BY <1>2 DEF Month
  <2>2. \A m \in Month : m > month => balance'[m] = 0
    BY <1>4, <1>8, <2>1 DEF LedgerInv, NothingAhead
  <2>3. \A p \in Operation : reservation'[p] # None =>
          reservation'[p].expires <= month /\ reservation'[p].monthly >= 0
    BY <1>2, <1>4, <1>5, <1>10 DEF LedgerInv, NothingAhead
  <2> QED BY <1>1, <2>2, <2>3 DEF NothingAhead
<1>13. ReservationsHold'
  <2>1. \A b \in Actor \ {a} : tx'[b] # None => tx'[b].op = None
    BY <1>1, <1>2, <1>4 DEF LedgerInv, ReservationsHold, Reserved, LedgerTypes
  <2>2. tx'[a] = None
    BY <1>1, <1>2 DEF LedgerTypes
  <2> QED BY <2>1, <2>2 DEF ReservationsHold
<1>14. EventsAreTrue' /\ PaymentsAreLargest' /\ PurchasesFollow'
  BY <1>1 DEF LedgerInv, EventsAreTrue, provider, PaymentsAreLargest, PurchasesFollow, Applied
<1>15. /\ \A m \in Month :
            /\ SumFunction(MonthlySpent(m)) \in Int
            /\ SumFunction(MonthlySpent(m))' =
                 SumFunction(MonthlySpent(m)) + (IF m = at THEN r.monthly ELSE 0)
       /\ SumFunction(PaidSpent) \in Int
       /\ SumFunction(PaidSpent)' = SumFunction(PaidSpent) + r.paid
  <2>1. \A m \in Month : MonthlySpent(m)[o] = 0 /\ MonthlySpent(m)'[o] = IF m = at THEN r.monthly ELSE 0
    BY <1>1, <1>2, <1>4, <1>10 DEF MonthlySpent, Outstanding
  <2>2. PaidSpent[o] = 0 /\ PaidSpent'[o] = r.paid
    BY <1>1, <1>2, <1>4, <1>10 DEF PaidSpent, Outstanding
  <2>3. /\ \A m \in Month :
             /\ SumFunction(MonthlySpent(m)) \in Int
             /\ SumFunction(MonthlySpent(m))' =
                  SumFunction(MonthlySpent(m)) - MonthlySpent(m)[o] + MonthlySpent(m)'[o]
        /\ SumFunction(PaidSpent) \in Int
        /\ SumFunction(PaidSpent)' = SumFunction(PaidSpent) - PaidSpent[o] + PaidSpent'[o]
    BY <1>2, <1>9, <1>10, SpendingChanges
  <2>4. SumFunction(PaidSpent)' = SumFunction(PaidSpent) + r.paid
    <3>1. r.paid \in Int
      BY <1>5
    <3>2. /\ SumFunction(PaidSpent) \in Int
          /\ SumFunction(PaidSpent)' = SumFunction(PaidSpent) - PaidSpent[o] + PaidSpent'[o]
      BY <2>3
    <3> QED BY <2>2, <3>1, <3>2
  <2>5. ASSUME NEW m \in Month
        PROVE  /\ SumFunction(MonthlySpent(m)) \in Int
               /\ SumFunction(MonthlySpent(m))' =
                    SumFunction(MonthlySpent(m)) + (IF m = at THEN r.monthly ELSE 0)
    <3> DEFINE x == IF m = at THEN r.monthly ELSE 0
    <3>1. x \in Int
      BY <1>5
    <3>2. MonthlySpent(m)[o] = 0 /\ MonthlySpent(m)'[o] = x
      BY <2>1
    <3> HIDE DEF x
    <3>3. /\ SumFunction(MonthlySpent(m)) \in Int
          /\ SumFunction(MonthlySpent(m))' =
               SumFunction(MonthlySpent(m)) - MonthlySpent(m)[o] + MonthlySpent(m)'[o]
      BY <2>3
    <3>4. SumFunction(MonthlySpent(m))' = SumFunction(MonthlySpent(m)) + x
      BY <3>1, <3>2, <3>3
    <3> QED BY <3>3, <3>4 DEF x
  <2> QED BY <2>3, <2>4, <2>5
<1>16. PaidLeft' = PaidLeft /\ PaidBought' = PaidBought /\ SumFunction(PaidLeft) \in Int
  <2>1. PaidLeft' = PaidLeft /\ PaidBought' = PaidBought
    BY <1>1 DEF PaidLeft, PaidBought, Fulfilled
  <2>2. PaidLeft \in [PackSession -> Int]
    BY <1>2 DEF LedgerAssumption, LedgerTypes, PaidLeft, Fulfilled, Purchase
  <2> QED BY <2>1, <2>2, SumType DEF LedgerAssumption
<1>17. BalancesAddUp'
  <2>1. ASSUME NEW m \in Month PROVE balance'[m] = grant'[m] - SumFunction(MonthlySpent(m))'
    <3>1. balance[m] = grant[m] - SumFunction(MonthlySpent(m))
      BY DEF LedgerInv, BalancesAddUp
    <3>2. grant[m] \in Int /\ t.grants[m] \in Int /\ r.monthly \in Int
      BY <1>2, <1>5 DEF LedgerTypes, LedgerAssumption
    <3>3. m # at => t.grants[m] = 0
      BY <1>4
    <3> QED BY <1>7, <1>8, <1>15, <3>1, <3>2, <3>3
  <2>2. balance'[None] = SumFunction(PaidLeft)' - SumFunction(PaidSpent)'
    <3>1. balance[None] = SumFunction(PaidLeft) - SumFunction(PaidSpent)
      BY DEF LedgerInv, BalancesAddUp
    <3>2. SumFunction(PaidLeft)' = SumFunction(PaidLeft)
      BY <1>16
    <3> QED BY <1>5, <1>8, <1>15, <1>16, <3>1, <3>2
  <2> QED BY <2>1, <2>2 DEF BalancesAddUp
<1>18. MonthlyNeverOverdrawn'
  <2>1. ASSUME NEW m \in Month \ crossed PROVE balance'[m] >= 0
    <3>1. balance[m] >= 0 /\ balance[m] \in Int /\ t.grants[m] \in Int /\ r.monthly \in Int
      BY <1>2, <1>5 DEF LedgerInv, MonthlyNeverOverdrawn, LedgerTypes
    <3> QED BY <1>4, <1>8, <3>1
  <2> QED BY <1>1, <2>1 DEF MonthlyNeverOverdrawn
<1>19. PaidNeverOverspent'
  <2>1. SumFunction(PaidLeft) <= SumFunction(PaidBought)
    BY <1>2, LeftOfBought
  <2>2. balance'[None] >= 0
    <3>1. balance[None] \in Int
      BY <1>2 DEF LedgerTypes
    <3> QED BY <1>4, <1>5, <1>8, <3>1
  <2>3. balance'[None] = SumFunction(PaidLeft)' - SumFunction(PaidSpent)'
    BY <1>17 DEF BalancesAddUp
  <2>4. SumFunction(PaidLeft)' = SumFunction(PaidLeft) /\ SumFunction(PaidBought)' = SumFunction(PaidBought)
    BY <1>16
  <2>5. SumFunction(PaidBought) \in Int
    <3>1. PaidBought \in [PackSession -> Int]
      BY DEF LedgerAssumption, PaidBought
    <3> QED BY <3>1, SumType DEF LedgerAssumption
  <2> QED BY <1>5, <1>15, <1>16, <2>1, <2>2, <2>3, <2>4, <2>5 DEF PaidNeverOverspent
<1> QED BY <1>9, <1>11, <1>12, <1>13, <1>14, <1>17, <1>18, <1>19 DEF LedgerInv

LEMMA RefundKeeps ==
  ASSUME LedgerAssumption, LedgerInv, NEW o \in Operation, RefundCredits(o)
  PROVE  LedgerInv'
<1> DEFINE r == reservation[o]
           m0 == r.expires
<1>1. /\ r # None /\ ~r.refunded /\ MayLock
      /\ reservation' = [reservation EXCEPT ![o] = [r EXCEPT !.refunded = TRUE]]
      /\ UNCHANGED <<month, subscribed, purchase, payment, applied, tx, holder, provider, crossed>>
  BY DEF RefundCredits
<1>2. /\ LedgerTypes /\ r \in Reservation /\ m0 \in Month /\ month \in Month /\ m0 <= month
      /\ r.monthly \in Nat /\ r.paid \in Nat
  BY <1>1 DEF LedgerInv, LedgerTypes, NothingAhead, Reservation
<1>3. Book({LedgerRow(<<"refund", o, "monthly">>, r.monthly, m0),
            LedgerRow(<<"refund", o, "paid">>, r.paid, None)}, NoGrant)
  BY DEF RefundCredits, RefundExpires
<1>4. reservation'[o] = [r EXCEPT !.refunded = TRUE] /\ \A p \in Operation \ {o} : reservation'[p] = reservation[p]
  BY <1>1, <1>2 DEF LedgerTypes
<1> DEFINE q == reservation'[o]
<1>5. /\ q # None /\ q \in Reservation /\ q.refunded /\ q.expires = m0 /\ q.monthly = r.monthly /\ q.paid = r.paid
      /\ ~Outstanding(o)' /\ Outstanding(o)
  <2>1. [r EXCEPT !.refunded = TRUE] \in Reservation
    BY <1>2 DEF Reservation
  <2> QED BY <1>1, <1>2, <1>4, <2>1 DEF Reservation, LedgerAssumption, Outstanding
<1>6. grant' = grant /\ NoGrant \in [Month -> Int]
  BY <1>2, <1>3, NothingGranted
<1>7. \A m \in Month : NoGrant[m] = 0
  BY DEF NoGrant
<1>8. /\ balance' \in [Month \cup {None} -> Int]
      /\ balance'[m0] = balance[m0] + r.monthly
      /\ \A m \in Month \ {m0} : balance'[m] = balance[m]
      /\ balance'[None] = balance[None] + r.paid
      /\ booked' = booked \cup {<<"refund", o, "monthly">>, <<"refund", o, "paid">>}
  <2> HIDE DEF r, m0
  <2>1. <<"refund", o, "monthly">> \notin booked /\ <<"refund", o, "paid">> \notin booked
    BY <1>5 DEF LedgerInv, KeysAreFree
  <2>2. /\ balance' \in [Month \cup {None} -> Int]
        /\ balance'[m0] = balance[m0] + r.monthly + NoGrant[m0]
        /\ \A m \in Month \ {m0} : balance'[m] = balance[m] + NoGrant[m]
        /\ balance'[None] = balance[None] + r.paid
        /\ booked' = booked \cup {<<"refund", o, "monthly">>, <<"refund", o, "paid">>}
    <3>1. "refund" \in {"spend", "refund"} /\ r.monthly \in Int /\ r.paid \in Int
      BY <1>2
    <3> QED BY <1>2, <1>3, <1>6, <2>1, <3>1, TwoRows
  <2>3. \A m \in Month : balance[m] \in Int
    BY <1>2 DEF LedgerTypes
  <2> QED BY <1>2, <1>7, <2>2, <2>3
<1>9. LedgerTypes'
  <2>1. reservation' \in [Operation -> Reservation \cup {None}]
    BY <1>1, <1>2, <1>5, <1>4 DEF LedgerTypes
  <2> QED BY <1>1, <1>2, <1>6, <1>8, <2>1 DEF LedgerTypes, provider
<1> HIDE DEF q, r, m0
<1>10. KeysAreFree'
  BY <1>1, <1>4, <1>5, <1>8, KeysStay DEF LedgerInv, q
<1>11. NothingAhead'
  <2>1. \A m \in Month : m > month => m # m0
    BY <1>2 DEF Month
  <2>2. \A m \in Month : m > month => balance'[m] = 0
    BY <1>8, <2>1 DEF LedgerInv, NothingAhead
  <2>3. \A p \in Operation : reservation'[p] # None =>
          reservation'[p].expires <= month /\ reservation'[p].monthly >= 0
    <3>1. q.expires <= month /\ q.monthly >= 0
      BY <1>2, <1>5
    <3>2. \A p \in Operation \ {o} : reservation'[p] # None =>
            reservation'[p].expires <= month /\ reservation'[p].monthly >= 0
      BY <1>4 DEF LedgerInv, NothingAhead
    <3> QED BY <3>1, <3>2 DEF q
  <2> QED BY <1>1, <2>2, <2>3 DEF NothingAhead
<1>12. ReservationsHold'
  BY <1>1, LockFree DEF ReservationsHold
<1>13. EventsAreTrue' /\ PaymentsAreLargest' /\ PurchasesFollow'
  BY <1>1 DEF LedgerInv, EventsAreTrue, provider, PaymentsAreLargest, PurchasesFollow, Applied
<1>14. /\ \A m \in Month :
            /\ SumFunction(MonthlySpent(m)) \in Int
            /\ SumFunction(MonthlySpent(m))' =
                 SumFunction(MonthlySpent(m)) - (IF m = m0 THEN r.monthly ELSE 0)
       /\ SumFunction(PaidSpent) \in Int
       /\ SumFunction(PaidSpent)' = SumFunction(PaidSpent) - r.paid
  <2>1. \A m \in Month : MonthlySpent(m)'[o] = 0 /\ MonthlySpent(m)[o] = IF m = m0 THEN r.monthly ELSE 0
    BY <1>5 DEF MonthlySpent, r, m0
  <2>2. PaidSpent'[o] = 0 /\ PaidSpent[o] = r.paid
    BY <1>5 DEF PaidSpent, r
  <2>3. /\ \A m \in Month :
             /\ SumFunction(MonthlySpent(m)) \in Int
             /\ SumFunction(MonthlySpent(m))' =
                  SumFunction(MonthlySpent(m)) - MonthlySpent(m)[o] + MonthlySpent(m)'[o]
        /\ SumFunction(PaidSpent) \in Int
        /\ SumFunction(PaidSpent)' = SumFunction(PaidSpent) - PaidSpent[o] + PaidSpent'[o]
    BY <1>2, <1>9, <1>4, SpendingChanges
  <2>4. SumFunction(PaidSpent)' = SumFunction(PaidSpent) - r.paid
    BY <1>2, <2>2, <2>3
  <2>5. ASSUME NEW m \in Month
        PROVE  /\ SumFunction(MonthlySpent(m)) \in Int
               /\ SumFunction(MonthlySpent(m))' =
                    SumFunction(MonthlySpent(m)) - (IF m = m0 THEN r.monthly ELSE 0)
    <3> DEFINE x == IF m = m0 THEN r.monthly ELSE 0
    <3>1. x \in Int
      BY <1>2
    <3>2. MonthlySpent(m)[o] = x /\ MonthlySpent(m)'[o] = 0
      BY <2>1
    <3> HIDE DEF x
    <3>3. /\ SumFunction(MonthlySpent(m)) \in Int
          /\ SumFunction(MonthlySpent(m))' =
               SumFunction(MonthlySpent(m)) - MonthlySpent(m)[o] + MonthlySpent(m)'[o]
      BY <2>3
    <3>4. SumFunction(MonthlySpent(m))' = SumFunction(MonthlySpent(m)) - x
      BY <3>1, <3>2, <3>3
    <3> QED BY <3>3, <3>4 DEF x
  <2> QED BY <2>3, <2>4, <2>5
<1>15. PaidLeft' = PaidLeft /\ PaidBought' = PaidBought /\ SumFunction(PaidLeft) \in Int
  <2>1. PaidLeft' = PaidLeft /\ PaidBought' = PaidBought
    BY <1>1 DEF PaidLeft, PaidBought, Fulfilled
  <2>2. PaidLeft \in [PackSession -> Int]
    BY <1>2 DEF LedgerAssumption, LedgerTypes, PaidLeft, Fulfilled, Purchase
  <2> QED BY <2>1, <2>2, SumType DEF LedgerAssumption
<1>16. BalancesAddUp'
  <2>1. ASSUME NEW m \in Month PROVE balance'[m] = grant'[m] - SumFunction(MonthlySpent(m))'
    <3>1. balance[m] = grant[m] - SumFunction(MonthlySpent(m))
      BY DEF LedgerInv, BalancesAddUp
    <3>2. grant[m] \in Int
      BY <1>2 DEF LedgerTypes, LedgerAssumption
    <3>3. SumFunction(MonthlySpent(m)) \in Int /\ balance[m] \in Int /\ r.monthly \in Int
      BY <1>2, <1>14 DEF LedgerTypes
    <3>4. CASE m = m0
      <4>1. SumFunction(MonthlySpent(m))' = SumFunction(MonthlySpent(m)) - r.monthly
        BY <1>14, <3>4
      <4>2. balance'[m] = balance[m] + r.monthly
        BY <1>8, <3>4
      <4> QED BY <1>6, <3>1, <3>2, <3>3, <4>1, <4>2
    <3>5. CASE m # m0
      <4>1. SumFunction(MonthlySpent(m))' = SumFunction(MonthlySpent(m)) - 0
        BY <1>14, <3>5
      <4>2. balance'[m] = balance[m]
        BY <1>8, <3>5
      <4> QED BY <1>6, <3>1, <3>2, <3>3, <4>1, <4>2
    <3> QED BY <3>4, <3>5
  <2>2. balance'[None] = SumFunction(PaidLeft)' - SumFunction(PaidSpent)'
    <3>1. balance[None] = SumFunction(PaidLeft) - SumFunction(PaidSpent)
      BY DEF LedgerInv, BalancesAddUp
    <3>2. SumFunction(PaidLeft)' = SumFunction(PaidLeft)
      BY <1>15
    <3> QED BY <1>2, <1>8, <1>14, <1>15, <3>1, <3>2
  <2> QED BY <2>1, <2>2 DEF BalancesAddUp
<1>17. MonthlyNeverOverdrawn'
  <2>1. ASSUME NEW m \in Month \ crossed PROVE balance'[m] >= 0
    <3>1. balance[m] >= 0 /\ balance[m] \in Int
      BY <1>2 DEF LedgerInv, MonthlyNeverOverdrawn, LedgerTypes
    <3> QED BY <1>2, <1>8, <3>1
  <2> QED BY <1>1, <2>1 DEF MonthlyNeverOverdrawn
<1>18. PaidNeverOverspent'
  <2>1. SumFunction(PaidBought)' = SumFunction(PaidBought) /\ SumFunction(PaidBought) \in Int
    <3>1. PaidBought \in [PackSession -> Int]
      BY DEF LedgerAssumption, PaidBought
    <3> QED BY <3>1, <1>15, SumType DEF LedgerAssumption
  <2> QED BY <1>2, <1>14, <2>1 DEF LedgerInv, PaidNeverOverspent
<1> QED BY <1>9, <1>10, <1>11, <1>12, <1>13, <1>16, <1>17, <1>18 DEF LedgerInv

LEMMA CheckoutKeeps ==
  ASSUME LedgerAssumption, LedgerInv, NEW s \in PackSession, CreditCheckout(s)
  PROVE  LedgerInv'
<1> DEFINE p == [fulfilled |-> FALSE, refunded |-> 0]
<1>1. /\ purchase[s] = None /\ purchase' = [purchase EXCEPT ![s] = p]
      /\ UNCHANGED <<month, subscribed, balance, booked, grant, reservation, payment, applied,
                     tx, holder, provider, crossed>>
  BY DEF CreditCheckout
<1>2. LedgerTypes /\ p \in Purchase /\ p # None /\ p.fulfilled = FALSE /\ p.refunded = 0
  <2>1. p \in Purchase
    BY DEF Purchase, LedgerAssumption
  <2> QED BY <2>1 DEF LedgerInv, LedgerAssumption
<1> HIDE DEF p
<1>3. purchase'[s] = p /\ \A r \in PackSession \ {s} : purchase'[r] = purchase[r]
  BY <1>1, <1>2 DEF LedgerTypes
<1>4. LedgerTypes'
  BY <1>1, <1>2 DEF LedgerTypes, provider
<1>5. \A r \in PackSession : Fulfilled(r)' = Fulfilled(r) /\ (purchase[r] # None => purchase'[r] = purchase[r])
  BY <1>1, <1>2, <1>3 DEF Fulfilled
<1>6. KeysAreFree'
  <2>1. \A r \in PackSession : \A n \in 1 .. Units : <<"payment-refund", r, n>> \in booked' =>
          purchase'[r] # None /\ n <= purchase'[r].refunded
    BY <1>1, <1>5 DEF LedgerInv, KeysAreFree
  <2> QED BY <1>1, <1>5, <2>1 DEF LedgerInv, KeysAreFree, Outstanding
<1>7. NothingAhead' /\ MonthlyNeverOverdrawn'
  BY <1>1 DEF LedgerInv, NothingAhead, MonthlyNeverOverdrawn
<1>8. ReservationsHold'
  BY <1>1, HoldKept DEF LedgerInv
<1>9. EventsAreTrue'
  BY <1>1, <1>2, <1>5 DEF LedgerInv, EventsAreTrue, provider, LedgerTypes, PaymentEvent
<1>10. PaymentsAreLargest'
  BY <1>1 DEF LedgerInv, PaymentsAreLargest, Applied
<1>11. PurchasesFollow'
  <2>1. Applied(s) = {}
    BY <1>1, <1>2 DEF LedgerInv, EventsAreTrue, LedgerTypes, Applied
  <2>2. Deduction(p, payment[s]) = 0
    BY <1>2 DEF Deduction
  <2>3. \A r \in PackSession \ {s} : purchase'[r] # None =>
          /\ purchase'[r].fulfilled = \E e \in Applied(r) : e.kind = "checkout" /\ e.paid
          /\ purchase'[r].refunded = Deduction(purchase'[r], payment[r])
    BY <1>3 DEF LedgerInv, PurchasesFollow
  <2>4. \A r \in PackSession : Applied(r)' = Applied(r)
    BY <1>1 DEF Applied
  <2>5. payment' = payment
    BY <1>1
  <2> SUFFICES ASSUME NEW r \in PackSession, purchase'[r] # None
               PROVE  /\ purchase'[r].fulfilled = \E e \in Applied(r)' : e.kind = "checkout" /\ e.paid
                      /\ purchase'[r].refunded = Deduction(purchase'[r], payment'[r])
    BY DEF PurchasesFollow, Deduction
  <2>6. CASE r = s
    BY <1>2, <1>3, <2>1, <2>2, <2>4, <2>5, <2>6
  <2>7. CASE r # s
    BY <2>3, <2>4, <2>5, <2>7
  <2> QED BY <2>6, <2>7
<1>12. BalancesAddUp' /\ PaidNeverOverspent'
  <2>1. /\ \A m \in Month : MonthlySpent(m)' = MonthlySpent(m)
        /\ PaidSpent' = PaidSpent
    BY <1>1 DEF MonthlySpent, PaidSpent, Outstanding
  <2>2. PaidLeft' = PaidLeft
    <3>1. \A r \in PackSession : (IF Fulfilled(r)' THEN Units - purchase'[r].refunded ELSE 0)
                                   = IF Fulfilled(r) THEN Units - purchase[r].refunded ELSE 0
      BY <1>5 DEF Fulfilled
    <3> QED BY <3>1 DEF PaidLeft
  <2>3. PaidBought' = PaidBought
    BY <1>5 DEF PaidBought
  <2> QED BY <1>1, <2>1, <2>2, <2>3 DEF LedgerInv, BalancesAddUp, PaidNeverOverspent
<1> QED BY <1>4, <1>6, <1>7, <1>8, <1>9, <1>10, <1>11, <1>12 DEF LedgerInv

\* Up to two rows that do not expire, whose keys were free.
LEMMA BookMaybe ==
  ASSUME LedgerAssumption, LedgerTypes, NEW x, NEW y, x # y, x.amount \in Int, y.amount \in Int,
         x.expires = None, y.expires = None, NEW p \in BOOLEAN, NEW q \in BOOLEAN,
         p => x.key \notin booked, q => y.key \notin booked,
         Book((IF p THEN {x} ELSE {}) \cup (IF q THEN {y} ELSE {}), NoGrant)
  PROVE  /\ balance' \in [Month \cup {None} -> Int]
         /\ balance'[None] = balance[None] + (IF p THEN x.amount ELSE 0) + (IF q THEN y.amount ELSE 0)
         /\ \A m \in Month : balance'[m] = balance[m]
         /\ booked' = booked \cup (IF p THEN {x.key} ELSE {}) \cup (IF q THEN {y.key} ELSE {})
         /\ grant' = grant
<1>1. grant' = grant /\ NoGrant \in [Month -> Int] /\ \A b : Topped(NoGrant, b) = 0
  BY NothingGranted
<1>2. None \notin Month /\ \A b \in Month \cup {None} : balance[b] \in Int
  BY DEF LedgerAssumption, LedgerTypes
<1>3. CASE p /\ q
  <2>1. Book({x, y}, NoGrant)
    <3>1. (IF p THEN {x} ELSE {}) \cup (IF q THEN {y} ELSE {}) = {x, y}
      BY <1>3
    <3> QED BY <3>1
  <2>2. /\ balance' \in [Month \cup {None} -> Int]
        /\ \A b \in Month \cup {None} :
             balance'[b] = balance[b] + Added(x, b) + Added(y, b) + Topped(NoGrant, b)
        /\ booked' = booked \cup {x.key, y.key}
    BY <1>1, <2>1, BookTwo
  <2>3. \A b : /\ Added(x, b) = IF b = None THEN x.amount ELSE 0
               /\ Added(y, b) = IF b = None THEN y.amount ELSE 0
    BY <1>3 DEF Added
  <2> QED BY <1>1, <1>2, <1>3, <2>2, <2>3
<1>4. CASE p /\ ~q
  <2>1. Book({x}, NoGrant)
    <3>1. (IF p THEN {x} ELSE {}) \cup (IF q THEN {y} ELSE {}) = {x}
      BY <1>4
    <3> QED BY <3>1
  <2>2. /\ balance' \in [Month \cup {None} -> Int]
        /\ \A b \in Month \cup {None} : balance'[b] = balance[b] + Added(x, b) + Topped(NoGrant, b)
        /\ booked' = booked \cup {x.key}
    BY <1>1, <2>1, BookOne
  <2>3. \A b : Added(x, b) = IF b = None THEN x.amount ELSE 0
    BY <1>4 DEF Added
  <2> QED BY <1>1, <1>2, <1>4, <2>2, <2>3
<1>5. CASE ~p /\ q
  <2>1. Book({y}, NoGrant)
    <3>1. (IF p THEN {x} ELSE {}) \cup (IF q THEN {y} ELSE {}) = {y}
      BY <1>5
    <3> QED BY <3>1
  <2>2. /\ balance' \in [Month \cup {None} -> Int]
        /\ \A b \in Month \cup {None} : balance'[b] = balance[b] + Added(y, b) + Topped(NoGrant, b)
        /\ booked' = booked \cup {y.key}
    BY <1>1, <2>1, BookOne
  <2>3. \A b : Added(y, b) = IF b = None THEN y.amount ELSE 0
    BY <1>5 DEF Added
  <2> QED BY <1>1, <1>2, <1>5, <2>2, <2>3
<1>6. CASE ~p /\ ~q
  <2>1. Book({}, NoGrant)
    <3>1. (IF p THEN {x} ELSE {}) \cup (IF q THEN {y} ELSE {}) = {}
      BY <1>6
    <3> QED BY <3>1
  <2>2. /\ balance' \in [Month \cup {None} -> Int]
        /\ \A b \in Month \cup {None} : balance'[b] = balance[b] + Topped(NoGrant, b)
        /\ booked' = booked
    BY <1>1, <2>1, BookNone
  <2> QED BY <1>1, <1>2, <1>6, <2>2
<1> QED BY <1>3, <1>4, <1>5, <1>6

\* A payment is captured whole, and nothing is given back of what is not.
LEMMA PaymentPossible ==
  ASSUME LedgerAssumption, LedgerInv, NEW s \in PackSession
  PROVE  Possible(payment[s])
<1>1. payment[s] \in Payment
  BY DEF LedgerInv, LedgerTypes
<1>2. \A e \in Applied(s) :
        /\ e.captured \in {0, Price}
        /\ e.captured <= payment[s].captured /\ e.refunded <= payment[s].refunded
        /\ e.refunded # 0 => e.captured = Price
  <2>1. \A e \in Applied(s) : e \in sent /\ e.kind \in {"checkout", "charge"}
    BY DEF LedgerInv, LedgerTypes, PaymentEvent, Applied
  <2> QED BY <2>1 DEF LedgerInv, EventsAreTrue, PaymentsAreLargest
<1>3. /\ payment[s].captured \in {e.captured : e \in Applied(s)} \cup {0}
      /\ payment[s].refunded \in {e.refunded : e \in Applied(s)} \cup {0}
  BY DEF LedgerInv, PaymentsAreLargest
<1>4. payment[s].captured \in {0, Price}
  BY <1>2, <1>3
<1>5. ASSUME payment[s].refunded # 0 PROVE payment[s].captured # 0
  <2>1. PICK e \in Applied(s) : e.refunded = payment[s].refunded
    BY <1>3, <1>5
  <2>2. Price <= payment[s].captured /\ Price \in Nat \ {0}
    BY <1>2, <1>5, <2>1 DEF LedgerAssumption
  <2> QED BY <2>2
<1> QED BY <1>1, <1>4, <1>5 DEF Possible

\* What an event makes of a payment and of its purchase.
MergedAs(c, e) == IF e.kind = "charge" THEN MergedCharge(c, e) ELSE c
Fulfils(e) == e.kind = "checkout" /\ e.paid
Bought(p, e) == [p EXCEPT !.fulfilled = p.fulfilled \/ Fulfils(e)]
RefundRow(s, old, new) == LedgerRow(<<"payment-refund", s, new>>, old - new, None)
PackRow(s) == LedgerRow(<<"purchase", s>>, Units, None)

\* What an event makes of a payment is the larger of both.
LEMMA MergedGrows ==
  ASSUME LedgerAssumption, NEW c, Possible(c), NEW e \in PaymentEvent,
         e.kind = "charge" => e.captured = Price
  PROVE  /\ Possible(MergedAs(c, e)) /\ MergedAs(c, e) \in Payment
         /\ c.captured <= MergedAs(c, e).captured /\ c.refunded <= MergedAs(c, e).refunded
         /\ e.kind = "charge" => e.captured <= MergedAs(c, e).captured /\ e.refunded <= MergedAs(c, e).refunded
         /\ MergedAs(c, e).captured \in {c.captured, e.captured}
         /\ MergedAs(c, e).refunded \in {c.refunded, e.refunded}
<1>1. /\ Price \in Nat /\ Price > 0 /\ c.captured \in {0, Price} /\ c.refunded \in 0 .. Price
      /\ (c.captured = 0 => c.refunded = 0) /\ c \in Payment
      /\ e.captured \in 0 .. Price /\ e.refunded \in 0 .. Price /\ e.kind \in {"checkout", "charge"}
  BY DEF LedgerAssumption, Possible, Payment, PaymentEvent
<1>2. CASE e.kind = "charge"
  <2>1. /\ MergedAs(c, e).captured = Price
        /\ MergedAs(c, e).refunded = Greater(c.refunded, e.refunded)
        /\ MergedAs(c, e) = [captured |-> Price, refunded |-> Greater(c.refunded, e.refunded)]
    BY <1>1, <1>2 DEF MergedAs, MergedCharge, Greater
  <2>2. /\ Greater(c.refunded, e.refunded) \in 0 .. Price
        /\ Greater(c.refunded, e.refunded) \in {c.refunded, e.refunded}
        /\ c.refunded <= Greater(c.refunded, e.refunded) /\ e.refunded <= Greater(c.refunded, e.refunded)
    BY <1>1 DEF Greater
  <2>3. MergedAs(c, e) \in Payment
    BY <1>1, <2>1, <2>2 DEF Payment
  <2> QED BY <1>1, <1>2, <2>1, <2>2, <2>3 DEF Possible
<1>3. CASE e.kind # "charge"
  <2>1. MergedAs(c, e) = c
    BY <1>3 DEF MergedAs
  <2> QED BY <1>1, <1>3, <2>1
<1> QED BY <1>2, <1>3

\* The amount refunded is what the payment then says, whichever the event.
LEMMA ApplyDoes ==
  ASSUME LedgerAssumption, LedgerInv, NEW e \in sent, Apply(e)
  PROVE  LET s == e.session
             p == purchase[s]
             c == MergedAs(payment[s], e)
             d == Deduction(Bought(p, e), c)
         IN  /\ e.paid => MayLock
             /\ e \in PaymentEvent /\ s \in PackSession /\ p \in Purchase
             /\ d \in 0 .. Units /\ p.refunded <= d
             /\ ~(p.fulfilled \/ Fulfils(e)) => d = 0
             /\ ~p.fulfilled => p.refunded = 0
             /\ ~e.paid => d = p.refunded
             /\ purchase' = [purchase EXCEPT ![s] = [fulfilled |-> p.fulfilled \/ Fulfils(e), refunded |-> d]]
             /\ payment' = [payment EXCEPT ![s] = c]
             /\ Book((IF Fulfils(e) /\ ~p.fulfilled THEN {PackRow(s)} ELSE {})
                     \cup (IF d > p.refunded THEN {RefundRow(s, p.refunded, d)} ELSE {}), NoGrant)
             /\ applied' = applied \cup {e}
             /\ UNCHANGED <<month, subscribed, reservation, tx, holder, provider, crossed>>
<1> DEFINE s == e.session
           p == purchase[s]
           b == Bought(p, e)
           c == MergedAs(payment[s], e)
           d == Deduction(b, c)
           total == IF e.paid THEN Greater(b.refunded, d) ELSE b.refunded
<1>1. /\ e.paid => MayLock
      /\ purchase' = [purchase EXCEPT ![s] = [b EXCEPT !.refunded = total]]
      /\ payment' = [payment EXCEPT ![s] = c]
      /\ Book((IF Fulfils(e) /\ ~p.fulfilled THEN {PackRow(s)} ELSE {})
              \cup (IF total > b.refunded THEN {RefundRow(s, b.refunded, total)} ELSE {}), NoGrant)
      /\ applied' = applied \cup {e}
      /\ UNCHANGED <<month, subscribed, reservation, tx, holder, provider, crossed>>
  BY DEF Apply, Bought, MergedAs, Fulfils, RefundRow, PackRow, Pack
<1>2. /\ e \in PaymentEvent /\ s \in PackSession /\ p # None /\ p \in Purchase
      /\ e.kind = "charge" => e.paid /\ e.captured = Price
  BY DEF LedgerInv, LedgerTypes, EventsAreTrue, PaymentEvent
<1>3. /\ p.fulfilled \in BOOLEAN /\ p.refunded \in 0 .. Units /\ b.refunded = p.refunded
      /\ b = [fulfilled |-> p.fulfilled \/ Fulfils(e), refunded |-> p.refunded]
      /\ b.fulfilled = (p.fulfilled \/ Fulfils(e)) /\ b.fulfilled \in BOOLEAN
  BY <1>2 DEF Purchase, Bought, Fulfils
<1>4. Possible(payment[s])
  BY <1>2, PaymentPossible
<1>5. Possible(c) /\ payment[s].captured <= c.captured /\ payment[s].refunded <= c.refunded
  BY <1>2, <1>4, MergedGrows
<1>6. p.refunded = Deduction(p, payment[s])
  BY <1>2 DEF LedgerInv, PurchasesFollow
<1> HIDE DEF c
<1>7. d \in 0 .. Units /\ p.refunded <= d
  <2> DEFINE q == payment[s]
  <2> HIDE DEF b, p, s
  <2>1. /\ p.fulfilled => b.fulfilled
        /\ p.fulfilled \in BOOLEAN /\ b.fulfilled \in BOOLEAN
    BY <1>3
  <2>2. Possible(q) /\ Possible(c) /\ q.captured <= c.captured /\ q.refunded <= c.refunded
    BY <1>4, <1>5
  <2>3. p.refunded = Deduction(p, q)
    BY <1>6
  <2> HIDE DEF q
  <2>4. Deduction(b, c) \in 0 .. Units /\ Deduction(p, q) <= Deduction(b, c)
    BY <2>1, <2>2, DeductionGrows
  <2> QED BY <2>3, <2>4
<1>8. ~(p.fulfilled \/ Fulfils(e)) => d = 0
  BY <1>3 DEF Deduction
<1>9. ~p.fulfilled => p.refunded = 0
  BY <1>6 DEF Deduction
<1>10. ~e.paid => d = p.refunded
  <2> SUFFICES ASSUME ~e.paid PROVE d = p.refunded
    OBVIOUS
  <2>1. e.kind # "charge" /\ ~Fulfils(e)
    BY <1>2 DEF Fulfils
  <2>2. c = payment[s] /\ b.fulfilled = p.fulfilled
    BY <1>3, <2>1 DEF c, MergedAs
  <2> QED BY <1>6, <2>2 DEF Deduction
<1>11. total = d
  <2> HIDE DEF d, b, p
  <2> QED BY <1>3, <1>7, <1>10 DEF Greater
<1>12. [b EXCEPT !.refunded = total] = [fulfilled |-> p.fulfilled \/ Fulfils(e), refunded |-> d]
  <2> HIDE DEF total, d, b, p
  <2> QED BY <1>3, <1>11
<1> HIDE DEF total, d, b, p, s
<1>13. /\ purchase' = [purchase EXCEPT ![s] = [fulfilled |-> p.fulfilled \/ Fulfils(e), refunded |-> d]]
       /\ Book((IF Fulfils(e) /\ ~p.fulfilled THEN {PackRow(s)} ELSE {})
               \cup (IF d > p.refunded THEN {RefundRow(s, p.refunded, d)} ELSE {}), NoGrant)
  BY <1>1, <1>3, <1>11, <1>12
<1> QED BY <1>1, <1>2, <1>7, <1>8, <1>9, <1>10, <1>13 DEF d, b, p, s, c

LEMMA ApplyKeeps ==
  ASSUME LedgerAssumption, LedgerInv, NEW e \in sent, Apply(e)
  PROVE  LedgerInv'
<1> DEFINE s == e.session
           p == purchase[s]
           c == MergedAs(payment[s], e)
           d == Deduction(Bought(p, e), c)
           f == p.fulfilled \/ Fulfils(e)
           q == [fulfilled |-> f, refunded |-> d]
           new == Fulfils(e) /\ ~p.fulfilled
           more == d > p.refunded
<1>1. /\ e.paid => MayLock
      /\ e \in PaymentEvent /\ s \in PackSession /\ p \in Purchase
      /\ d \in 0 .. Units /\ p.refunded <= d
      /\ ~(p.fulfilled \/ Fulfils(e)) => d = 0
      /\ ~p.fulfilled => p.refunded = 0
      /\ ~e.paid => d = p.refunded
      /\ purchase' = [purchase EXCEPT ![s] = q]
      /\ payment' = [payment EXCEPT ![s] = c]
      /\ Book((IF new THEN {PackRow(s)} ELSE {})
              \cup (IF more THEN {RefundRow(s, p.refunded, d)} ELSE {}), NoGrant)
      /\ applied' = applied \cup {e}
      /\ UNCHANGED <<month, subscribed, reservation, tx, holder, provider, crossed>>
  BY ApplyDoes
<1>2. /\ LedgerTypes /\ p # None /\ Fulfilled(s) = p.fulfilled /\ p.fulfilled \in BOOLEAN
      /\ p.refunded \in 0 .. Units /\ Units \in Nat /\ Units > 0
      /\ e.kind = "charge" => e.captured = Price
      /\ e.kind = "checkout" => e.captured = 0 /\ e.refunded = 0
      /\ e.kind \in {"checkout", "charge"}
  BY <1>1 DEF LedgerInv, LedgerAssumption, Purchase, Fulfilled, EventsAreTrue, PaymentEvent
<1>3. /\ Possible(c) /\ c \in Payment
      /\ payment[s].captured <= c.captured /\ payment[s].refunded <= c.refunded
      /\ e.kind = "charge" => e.captured <= c.captured /\ e.refunded <= c.refunded
      /\ c.captured \in {payment[s].captured, e.captured}
      /\ c.refunded \in {payment[s].refunded, e.refunded}
  <2>1. Possible(payment[s])
    BY <1>1, PaymentPossible
  <2> QED BY <1>1, <1>2, <2>1, MergedGrows
<1>4. d = Deduction(q, c)
  BY <1>2 DEF Deduction, Bought
<1>5. q \in Purchase /\ q # None /\ q.fulfilled = f /\ q.refunded = d /\ f \in BOOLEAN
  <2>1. f \in BOOLEAN
    BY <1>2 DEF Fulfils
  <2>2. q \in Purchase
    BY <1>1, <2>1 DEF Purchase
  <2> QED BY <2>1, <2>2 DEF LedgerAssumption
<1>6. new \in BOOLEAN /\ more \in BOOLEAN
  BY <1>1, <1>2 DEF Fulfils
<1> HIDE DEF q, d, c, p, s
<1> DEFINE x == PackRow(s)
           y == RefundRow(s, p.refunded, d)
<1>7. /\ x.key = <<"purchase", s>> /\ x.amount = Units /\ x.expires = None
      /\ y.key = <<"payment-refund", s, d>> /\ y.amount = p.refunded - d /\ y.expires = None
      /\ x.amount \in Int /\ y.amount \in Int
  BY <1>1, <1>2 DEF PackRow, RefundRow, LedgerRow
<1>8. x # y
  <2>1. x.key # y.key
    BY <1>7
  <2> HIDE DEF x, y
  <2> QED BY <2>1
<1>9. /\ new => x.key \notin booked
      /\ more => y.key \notin booked
  <2>1. new => <<"purchase", s>> \notin booked
    BY <1>1, <1>2 DEF LedgerInv, KeysAreFree
  <2>2. more => d \in 1 .. Units /\ ~(d <= p.refunded)
    BY <1>1, <1>2
  <2>3. \A n \in 1 .. Units : <<"payment-refund", s, n>> \in booked => n <= p.refunded
    BY <1>1 DEF LedgerInv, KeysAreFree, p
  <2> QED BY <1>7, <2>1, <2>2, <2>3
<1>10. Book((IF new THEN {x} ELSE {}) \cup (IF more THEN {y} ELSE {}), NoGrant)
  BY <1>1
<1> HIDE DEF x, y, new, more
<1>11. /\ balance' \in [Month \cup {None} -> Int]
       /\ balance'[None] = balance[None] + (IF new THEN x.amount ELSE 0) + (IF more THEN y.amount ELSE 0)
       /\ \A m \in Month : balance'[m] = balance[m]
       /\ booked' = booked \cup (IF new THEN {x.key} ELSE {}) \cup (IF more THEN {y.key} ELSE {})
       /\ grant' = grant
  BY <1>2, <1>6, <1>7, <1>8, <1>9, <1>10, BookMaybe
<1>12. balance'[None] = balance[None] + (IF new THEN Units ELSE 0) + (p.refunded - d)
  <2>1. (IF more THEN y.amount ELSE 0) = p.refunded - d
    BY <1>1, <1>2, <1>7 DEF more
  <2>2. (IF new THEN x.amount ELSE 0) = IF new THEN Units ELSE 0
    BY <1>7
  <2> QED BY <1>11, <2>1, <2>2
<1>13. purchase'[s] = q /\ \A r \in PackSession \ {s} : purchase'[r] = purchase[r]
  BY <1>1, <1>2 DEF LedgerTypes
<1>14. payment'[s] = c /\ \A r \in PackSession \ {s} : payment'[r] = payment[r]
  BY <1>1, <1>2 DEF LedgerTypes
<1>15. LedgerTypes'
  BY <1>1, <1>2, <1>3, <1>5, <1>11 DEF LedgerTypes, provider
<1>16. KeysAreFree'
  <2>1. ASSUME NEW r \in PackSession, ~Fulfilled(r)' PROVE <<"purchase", r>> \notin booked'
    <3>1. ~Fulfilled(r) /\ (r = s => ~new)
      BY <1>2, <1>5, <1>13, <2>1 DEF Fulfilled, new
    <3>2. <<"purchase", r>> \notin booked
      BY <3>1 DEF LedgerInv, KeysAreFree
    <3>3. r # s => <<"purchase", r>> # x.key
      BY <1>7
    <3>4. <<"purchase", r>> # y.key
      BY <1>7
    <3> QED BY <1>11, <3>1, <3>2, <3>3, <3>4
  <2>2. ASSUME NEW r \in PackSession, NEW n \in 1 .. Units, <<"payment-refund", r, n>> \in booked'
        PROVE  purchase'[r] # None /\ n <= purchase'[r].refunded
    <3>1. <<"payment-refund", r, n>> # x.key /\ (<<"payment-refund", r, n>> = y.key => r = s /\ n = d)
      BY <1>7
    <3>2. <<"payment-refund", r, n>> \in booked => purchase[r] # None /\ n <= purchase[r].refunded
      BY DEF LedgerInv, KeysAreFree
    <3>3. CASE r # s
      BY <1>11, <1>13, <2>2, <3>1, <3>2, <3>3
    <3>4. CASE r = s
      <4>1. n = d \/ n <= p.refunded
        BY <1>11, <2>2, <3>1, <3>2, <3>4 DEF p
      <4> QED BY <1>1, <1>2, <1>5, <1>13, <3>4, <4>1
    <3> QED BY <3>3, <3>4
  <2>3. ASSUME NEW o \in Operation, NEW kind \in {"spend", "refund"}, NEW j \in {"monthly", "paid"}
        PROVE  <<kind, o, j>> \in booked' => <<kind, o, j>> \in booked
    <3>1. <<kind, o, j>> # x.key /\ <<kind, o, j>> # y.key
      BY <1>7
    <3> QED BY <1>11, <3>1
  <2>4. \A o \in Operation :
          /\ reservation'[o] = None =>
               <<"spend", o, "monthly">> \notin booked' /\ <<"spend", o, "paid">> \notin booked'
          /\ reservation'[o] = None \/ Outstanding(o)' =>
               <<"refund", o, "monthly">> \notin booked' /\ <<"refund", o, "paid">> \notin booked'
    BY <1>1, <2>3 DEF LedgerInv, KeysAreFree, Outstanding
  <2> QED BY <2>1, <2>2, <2>4 DEF KeysAreFree
<1>17. NothingAhead' /\ MonthlyNeverOverdrawn'
  BY <1>1, <1>11 DEF LedgerInv, NothingAhead, MonthlyNeverOverdrawn
<1>18. ReservationsHold'
  <2>1. CASE e.paid
    BY <1>1, <2>1, LockFree DEF ReservationsHold
  <2>2. CASE ~e.paid
    <3>1. ~new /\ balance[None] \in Int /\ d \in Int /\ p.refunded \in Int
      BY <1>1, <1>2, <2>2 DEF new, Fulfils, LedgerTypes
    <3>2. balance'[None] = balance[None]
      BY <1>1, <1>12, <2>2, <3>1
    <3>3. balance' = balance
      BY <1>2, <1>11, <3>2 DEF LedgerTypes
    <3> QED BY <1>1, <1>11, <3>3, HoldKept DEF LedgerInv
  <2> QED BY <2>1, <2>2
<1>19. EventsAreTrue'
  <2>1. \A r \in PackSession : purchase[r] # None => purchase'[r] # None
    BY <1>5, <1>13
  <2> QED BY <1>1, <1>2, <2>1 DEF LedgerInv, EventsAreTrue, provider, LedgerTypes, PaymentEvent
<1>20. Applied(s)' = Applied(s) \cup {e} /\ \A r \in PackSession \ {s} : Applied(r)' = Applied(r)
  BY <1>1 DEF Applied, s
<1>21. PaymentsAreLargest'
  <2> SUFFICES ASSUME NEW r \in PackSession
               PROVE  /\ payment'[r].captured \in {g.captured : g \in Applied(r)'} \cup {0}
                      /\ payment'[r].refunded \in {g.refunded : g \in Applied(r)'} \cup {0}
                      /\ \A g \in Applied(r)' : g.captured <= payment'[r].captured /\ g.refunded <= payment'[r].refunded
    BY DEF PaymentsAreLargest
  <2>1. /\ payment[r].captured \in {g.captured : g \in Applied(r)} \cup {0}
        /\ payment[r].refunded \in {g.refunded : g \in Applied(r)} \cup {0}
        /\ \A g \in Applied(r) : g.captured <= payment[r].captured /\ g.refunded <= payment[r].refunded
    BY DEF LedgerInv, PaymentsAreLargest
  <2>2. CASE r # s
    BY <1>14, <1>20, <2>1, <2>2
  <2>3. CASE r = s
    <3>1. c.captured \in {g.captured : g \in Applied(r)'} \cup {0}
      BY <1>3, <1>20, <2>1, <2>3
    <3>2. c.refunded \in {g.refunded : g \in Applied(r)'} \cup {0}
      BY <1>3, <1>20, <2>1, <2>3
    <3>3. e.captured <= c.captured /\ e.refunded <= c.refunded
      BY <1>2, <1>3 DEF Payment
    <3>4. ASSUME NEW g \in Applied(r) PROVE g.captured <= c.captured /\ g.refunded <= c.refunded
      <4>1. g \in PaymentEvent
        BY DEF Applied, LedgerInv, LedgerTypes
      <4>2. /\ g.captured \in Int /\ g.refunded \in Int /\ c.captured \in Int /\ c.refunded \in Int
            /\ payment[s].captured \in Int /\ payment[s].refunded \in Int
        BY <1>1, <1>2, <1>3, <4>1 DEF PaymentEvent, Payment, LedgerTypes
      <4> QED BY <1>3, <2>1, <2>3, <4>2
    <3> QED BY <1>14, <1>20, <2>3, <3>1, <3>2, <3>3, <3>4
  <2> QED BY <2>2, <2>3
<1>22. PurchasesFollow'
  <2> SUFFICES ASSUME NEW r \in PackSession, purchase'[r] # None
               PROVE  /\ purchase'[r].fulfilled = \E g \in Applied(r)' : g.kind = "checkout" /\ g.paid
                      /\ purchase'[r].refunded = Deduction(purchase'[r], payment'[r])
    BY DEF PurchasesFollow, Deduction
  <2>1. purchase[r] # None =>
          /\ purchase[r].fulfilled = \E g \in Applied(r) : g.kind = "checkout" /\ g.paid
          /\ purchase[r].refunded = Deduction(purchase[r], payment[r])
    BY DEF LedgerInv, PurchasesFollow
  <2>2. CASE r # s
    BY <1>13, <1>14, <1>20, <2>1, <2>2
  <2>3. CASE r = s
    <3>1. p.fulfilled = \E g \in Applied(s) : g.kind = "checkout" /\ g.paid
      BY <1>2, <2>1, <2>3 DEF p
    <3>2. f = \E g \in Applied(s)' : g.kind = "checkout" /\ g.paid
      BY <1>20, <3>1 DEF Fulfils
    <3> QED BY <1>4, <1>5, <1>13, <1>14, <2>3, <3>2
  <2> QED BY <2>2, <2>3
<1>23. /\ SumFunction(PaidLeft) \in Int /\ SumFunction(PaidBought) \in Int
       /\ SumFunction(PaidLeft)' = SumFunction(PaidLeft) - PaidLeft[s] + PaidLeft'[s]
       /\ SumFunction(PaidBought)' = SumFunction(PaidBought) - PaidBought[s] + PaidBought'[s]
  BY <1>1, <1>2, <1>13, <1>15, PacksChange
<1>24. /\ PaidLeft[s] = (IF p.fulfilled THEN Units - p.refunded ELSE 0)
       /\ PaidLeft'[s] = (IF f THEN Units - d ELSE 0)
       /\ PaidBought[s] = (IF p.fulfilled THEN Units ELSE 0)
       /\ PaidBought'[s] = (IF f THEN Units ELSE 0)
  <2>1. Fulfilled(s)' = f /\ purchase'[s].refunded = d
    <3> HIDE DEF f
    <3> QED BY <1>5, <1>13 DEF Fulfilled
  <2>2. PaidLeft[s] = (IF p.fulfilled THEN Units - p.refunded ELSE 0) /\ PaidBought[s] = IF p.fulfilled THEN Units ELSE 0
    BY <1>1, <1>2 DEF PaidLeft, PaidBought, p
  <2>3. PaidLeft'[s] = (IF Fulfilled(s)' THEN Units - purchase'[s].refunded ELSE 0)
    BY <1>1 DEF PaidLeft
  <2>4. PaidBought'[s] = (IF Fulfilled(s)' THEN Units ELSE 0)
    BY <1>1 DEF PaidBought
  <2> HIDE DEF f
  <2> QED BY <2>1, <2>2, <2>3, <2>4
<1>25. /\ \A m \in Month : MonthlySpent(m)' = MonthlySpent(m)
       /\ PaidSpent' = PaidSpent
  BY <1>1 DEF MonthlySpent, PaidSpent, Outstanding
<1>26. SumFunction(PaidSpent) \in Int
  <2>1. PaidSpent \in [Operation -> Int]
    BY <1>2 DEF LedgerTypes, PaidSpent, Outstanding, Reservation
  <2> QED BY <2>1, SumType DEF LedgerAssumption
<1>27. BalancesAddUp'
  <2>1. balance'[None] = SumFunction(PaidLeft)' - SumFunction(PaidSpent)
    <3>1. balance[None] = SumFunction(PaidLeft) - SumFunction(PaidSpent)
      BY DEF LedgerInv, BalancesAddUp
    <3>2. PaidLeft'[s] - PaidLeft[s] = (IF new THEN Units ELSE 0) + (p.refunded - d)
      BY <1>1, <1>2, <1>24 DEF new
    <3>3. PaidLeft'[s] \in Int /\ PaidLeft[s] \in Int /\ (IF new THEN Units ELSE 0) + (p.refunded - d) \in Int
      BY <1>1, <1>2, <1>24
    <3>4. balance'[None] = balance[None] + ((IF new THEN Units ELSE 0) + (p.refunded - d))
      <4>1. balance[None] \in Int /\ p.refunded - d \in Int /\ (IF new THEN Units ELSE 0) \in Int
        BY <1>1, <1>2 DEF LedgerTypes
      <4> QED BY <1>12, <4>1
    <3> QED BY <1>23, <1>26, <3>1, <3>2, <3>3, <3>4
  <2> QED BY <1>11, <1>25, <2>1 DEF LedgerInv, BalancesAddUp
<1>28. PaidNeverOverspent'
  <2>1. PaidBought[s] <= PaidBought'[s] /\ PaidBought[s] \in Int /\ PaidBought'[s] \in Int
    BY <1>2, <1>24
  <2>2. SumFunction(PaidSpent) <= SumFunction(PaidBought)
    BY DEF LedgerInv, PaidNeverOverspent
  <2>3. SumFunction(PaidSpent)' = SumFunction(PaidSpent)
    BY <1>25
  <2> QED BY <1>23, <1>26, <2>1, <2>2, <2>3 DEF PaidNeverOverspent
<1> QED BY <1>15, <1>16, <1>17, <1>18, <1>19, <1>21, <1>22, <1>27, <1>28 DEF LedgerInv

LEMMA LedgerInvNext ==
  ASSUME LedgerAssumption, LedgerInv, [LedgerNext]_creditVars
  PROVE  LedgerInv'
<1>1. CASE Requests
  BY <1>1, BeginKeeps, RollbackKeeps, CommitKeeps, OverviewKeeps, ReserveKeeps, RefundKeeps,
     CheckoutKeeps DEF Requests
<1>2. CASE Events
  BY <1>2, ApplyKeeps DEF Events, Deliver, Replay
<1>3. CASE Outside
  BY <1>3, PayLaterKeeps, PayKeeps, GiveBackKeeps, SubscribeKeeps, MonthEndsKeeps DEF Outside
<1>4. CASE UNCHANGED creditVars
  BY <1>4, LedgerStutter
<1> QED BY <1>1, <1>2, <1>3, <1>4 DEF LedgerNext

\* The inductive invariant of the ledger holds in every reachable state.
THEOREM LedgerInvariant ==
  ASSUME LedgerAssumption
  PROVE  LedgerSpec => []LedgerInv
<1>1. LedgerInit => LedgerInv
  BY LedgerInvInit
<1>2. LedgerInv /\ [LedgerNext]_creditVars => LedgerInv'
  BY LedgerInvNext
<1> QED BY <1>1, <1>2, PTL DEF LedgerSpec

\* The largest of some amounts is the one that none exceeds.
LEMMA LargestIs ==
  ASSUME NEW amounts \in SUBSET Int, NEW x \in amounts, \A y \in amounts : y <= x
  PROVE  (CHOOSE z \in amounts : \A y \in amounts : y <= z) = x
<1> DEFINE w == CHOOSE z \in amounts : \A y \in amounts : y <= z
<1>1. w \in amounts /\ \A y \in amounts : y <= w
  OBVIOUS
<1> HIDE DEF w
<1>2. w <= x /\ x <= w /\ w \in Int /\ x \in Int
  BY <1>1
<1> QED BY <1>2 DEF w

\* What was applied decides a purchase.
LEMMA OrderIs ==
  ASSUME LedgerAssumption, LedgerInv
  PROVE  OrderDoesNotMatter
<1> DEFINE Largest(amounts) == CHOOSE x \in amounts : \A y \in amounts : y <= x
           C(s) == {e.captured : e \in Applied(s)} \cup {0}
           R(s) == {e.refunded : e \in Applied(s)} \cup {0}
           paid(s) == \E e \in Applied(s) : e.kind = "checkout" /\ e.paid
<1>1. ASSUME NEW s \in PackSession
      PROVE  payment[s].captured = Largest(C(s)) /\ payment[s].refunded = Largest(R(s))
  <2>1. Applied(s) \subseteq PaymentEvent /\ payment[s] \in Payment
    BY DEF LedgerInv, LedgerTypes, Applied
  <2>2. C(s) \in SUBSET Int /\ R(s) \in SUBSET Int
    BY <2>1 DEF PaymentEvent, LedgerAssumption
  <2>3. /\ payment[s].captured \in C(s) /\ \A y \in C(s) : y <= payment[s].captured
        /\ payment[s].refunded \in R(s) /\ \A y \in R(s) : y <= payment[s].refunded
    BY <2>1 DEF LedgerInv, PaymentsAreLargest, Payment, LedgerAssumption
  <2> HIDE DEF C, R
  <2> QED BY <2>2, <2>3, LargestIs
<1>2. ASSUME NEW s \in PackSession, purchase[s] # None
      PROVE  /\ purchase[s].fulfilled = paid(s)
             /\ purchase[s].refunded =
                  Deduction([fulfilled |-> paid(s)],
                            [captured |-> Largest(C(s)), refunded |-> Largest(R(s))])
  <2>1. /\ purchase[s].fulfilled = paid(s)
        /\ purchase[s].refunded = Deduction(purchase[s], payment[s])
    BY <1>2 DEF LedgerInv, PurchasesFollow
  <2>2. payment[s].captured = Largest(C(s)) /\ payment[s].refunded = Largest(R(s))
    BY <1>1
  <2> HIDE DEF Largest, C, R, paid
  <2> QED BY <2>1, <2>2 DEF Deduction
<1> QED BY <1>2 DEF OrderDoesNotMatter, Applied

\* The ledger agrees with the tables, no month and no pack is overdrawn by
\* reservations, refunds, changes of plan and payments, in whatever order the
\* events come.  (monthly, reserve_credits, refund_credits, apply_billing_event)
THEOREM CreditsAddUpAlways ==
  ASSUME LedgerAssumption
  PROVE  LedgerSpec => []CreditsAddUp
<1>1. LedgerInv => CreditsAddUp
  BY OrderIs DEF LedgerInv, CreditsAddUp
<1> QED BY <1>1, LedgerInvariant, PTL

\* Only a commit and a refund change reservations.
LEMMA WhatReserves ==
  ASSUME [LedgerNext]_creditVars
  PROVE  \/ reservation' = reservation
         \/ \E a \in Actor : Commit(a)
         \/ \E o \in Operation : RefundCredits(o)
<1>1. ASSUME NEW a \in Actor, Begin(a) \/ Rollback(a) PROVE reservation' = reservation
  BY <1>1 DEF Begin, Rollback, rows
<1>2. ASSUME NEW a \in Actor, Overview(a) PROVE reservation' = reservation
  BY <1>2 DEF Overview
<1>3. ASSUME NEW a \in Actor, NEW o \in Operation, NEW c \in Cost, ReserveCredits(a, o, c)
      PROVE  reservation' = reservation
  BY <1>3 DEF ReserveCredits, rows
<1>4. ASSUME NEW s \in PackSession, CreditCheckout(s) PROVE reservation' = reservation
  BY <1>4 DEF CreditCheckout
<1>5. CASE Requests
  BY <1>1, <1>2, <1>3, <1>4, <1>5 DEF Requests
<1>6. CASE Events
  BY <1>6 DEF Events, Deliver, Replay, Apply
<1>7. CASE Outside
  BY <1>7 DEF Outside, PayLater, Pay, GiveBack, Subscribe, MonthEnds, rows
<1>8. CASE UNCHANGED creditVars
  BY <1>8 DEF creditVars, rows
<1> QED BY <1>5, <1>6, <1>7, <1>8 DEF LedgerNext

\* Nothing is committed that is not there.
LEMMA SpendsNoDebtStep ==
  ASSUME LedgerAssumption, LedgerInv, [LedgerNext]_creditVars
  PROVE  SpendsNoDebt
<1> SUFFICES ASSUME NEW o \in Operation, reservation[o] = None, reservation'[o] # None
             PROVE  balance[None] >= reservation'[o].paid
  BY DEF SpendsNoDebt
<1>0. LedgerTypes
  BY DEF LedgerInv
<1>1. ASSUME NEW a \in Actor, Commit(a) PROVE balance[None] >= reservation'[o].paid
  <2>1. /\ tx[a] # None /\ tx[a].op # None
        /\ reservation' = [reservation EXCEPT ![tx[a].op] = tx[a].takes]
    BY <1>1 DEF Commit
  <2>2. o = tx[a].op /\ reservation'[o] = tx[a].takes
    BY <1>0, <2>1 DEF LedgerTypes
  <2>3. tx[a].takes.paid <= balance[None] /\ tx[a].takes # None
    BY <2>1 DEF LedgerInv, ReservationsHold, Reserved
  <2>4. tx[a].takes.paid \in Int /\ balance[None] \in Int
    BY <1>0, <2>1, <2>3 DEF LedgerTypes, Transaction, Reservation
  <2> QED BY <2>2, <2>3, <2>4
<1>2. ASSUME NEW p \in Operation, RefundCredits(p) PROVE FALSE
  BY <1>0, <1>2 DEF RefundCredits, LedgerTypes
<1>3. reservation' # reservation
  OBVIOUS
<1> QED BY <1>1, <1>2, <1>3, WhatReserves

\* A reservation changes only when it is refunded.
LEMMA ReservationsStay ==
  ASSUME LedgerInv, [LedgerNext]_creditVars
  PROVE  \A o \in Operation : reservation[o] # None =>
           reservation'[o] = reservation[o] \/ reservation'[o] = [reservation[o] EXCEPT !.refunded = TRUE]
<1> SUFFICES ASSUME NEW o \in Operation, reservation[o] # None
             PROVE  \/ reservation'[o] = reservation[o]
                    \/ reservation'[o] = [reservation[o] EXCEPT !.refunded = TRUE]
  OBVIOUS
<1>0. reservation \in [Operation -> Reservation \cup {None}]
  BY DEF LedgerInv, LedgerTypes
<1>1. ASSUME NEW a \in Actor, Commit(a) PROVE reservation'[o] = reservation[o]
  <2>1. reservation' = [reservation EXCEPT ![tx[a].op] = tx[a].takes] /\ reservation[tx[a].op] = None
    BY <1>1 DEF Commit
  <2>2. o # tx[a].op
    BY <2>1
  <2> QED BY <1>0, <2>1, <2>2
<1>2. ASSUME NEW p \in Operation, RefundCredits(p)
      PROVE  \/ reservation'[o] = reservation[o]
             \/ reservation'[o] = [reservation[o] EXCEPT !.refunded = TRUE]
  <2>1. reservation' = [reservation EXCEPT ![p].refunded = TRUE]
    BY <1>2 DEF RefundCredits
  <2> QED BY <1>0, <2>1
<1> QED BY <1>1, <1>2, WhatReserves

\* A balance that grows without a grant grows by a refund of its month.
LEMMA RevivesNothingStep ==
  ASSUME LedgerAssumption, LedgerInv, LedgerInv', [LedgerNext]_creditVars
  PROVE  RevivesNothing
<1>1. SUFFICES ASSUME ~(grant'[month] > grant[month]),
                      ~\E o \in Operation : /\ Outstanding(o) /\ reservation[o].expires = month
                                            /\ reservation'[o].refunded
               PROVE  ~(balance'[month] > balance[month])
  BY DEF RevivesNothing
<1> DEFINE now == month
           f == MonthlySpent(now)
           e == [o \in Operation |-> IF Outstanding(o)' /\ reservation'[o].expires = now
                                      THEN reservation'[o].monthly ELSE 0]
<1>2. now \in Month /\ LedgerTypes /\ LedgerTypes'
  BY DEF LedgerInv, LedgerTypes
<1>3. f \in [Operation -> Int] /\ e \in [Operation -> Int]
  <2>1. \A o \in Operation : Outstanding(o) => reservation[o].monthly \in Nat
    BY <1>2 DEF Outstanding, LedgerTypes, Reservation
  <2>2. \A o \in Operation : Outstanding(o)' => reservation'[o].monthly \in Nat
    BY <1>2 DEF Outstanding, LedgerTypes, Reservation
  <2> QED BY <2>1, <2>2 DEF MonthlySpent
<1>4. \A o \in Operation : f[o] <= e[o]
  <2> SUFFICES ASSUME NEW o \in Operation PROVE f[o] <= e[o]
    OBVIOUS
  <2>1. CASE Outstanding(o) /\ reservation[o].expires = now
    <3>1. reservation[o] # None /\ reservation[o] \in Reservation /\ ~reservation'[o].refunded
      BY <1>1, <1>2, <2>1 DEF Outstanding, LedgerTypes
    <3>2. reservation'[o] = reservation[o]
      <4>1. [reservation[o] EXCEPT !.refunded = TRUE].refunded
        BY <3>1 DEF Reservation
      <4> QED BY <3>1, <4>1, ReservationsStay
    <3>3. e[o] = f[o]
      BY <2>1, <3>2 DEF MonthlySpent, Outstanding
    <3> QED BY <1>3, <3>3
  <2>2. CASE ~(Outstanding(o) /\ reservation[o].expires = now)
    <3>1. f[o] = 0
      BY <2>2 DEF MonthlySpent
    <3>2. e[o] \in Nat
      BY <1>2 DEF Outstanding, LedgerTypes, Reservation
    <3> QED BY <3>1, <3>2
  <2> QED BY <2>1, <2>2
<1>5. balance[now] = grant[now] - SumFunction(f)
  BY <1>2 DEF LedgerInv, BalancesAddUp
<1>6. balance'[now] = grant'[now] - SumFunction(e)
  <2>1. \A m \in Month : balance'[m] = grant'[m] - SumFunction(MonthlySpent(m))'
    BY DEF LedgerInv, BalancesAddUp
  <2>2. \A m \in Month : MonthlySpent(m)' = [o \in Operation |-> IF Outstanding(o)' /\ reservation'[o].expires = m
                                      THEN reservation'[o].monthly ELSE 0]
    BY DEF MonthlySpent
  <2> QED BY <1>2, <2>1, <2>2
<1>7. SumFunction(f) \in Int /\ SumFunction(e) \in Int /\ SumFunction(f) <= SumFunction(e)
  <2> HIDE DEF f, e
  <2> QED BY <1>3, <1>4, SumBounded, SumType DEF LedgerAssumption
<1>8. grant[now] \in Int /\ grant'[now] \in Int
  BY <1>2 DEF LedgerTypes, LedgerAssumption
<1> HIDE DEF f, e
<1> QED BY <1>1, <1>5, <1>6, <1>7, <1>8

\* A reservation is committed with nothing owed and no refund brings back what
\* has expired.  (reserve_credits, refund_credits)
THEOREM CreditsStayWithinBoundsAlways ==
  ASSUME LedgerAssumption
  PROVE  LedgerSpec => CreditsStayWithinBounds
<1>1. LedgerInv /\ LedgerInv' /\ [LedgerNext]_creditVars => [SpendsNoDebt /\ RevivesNothing]_creditVars
  BY SpendsNoDebtStep, RevivesNothingStep
<1> QED BY <1>1, LedgerInvariant, PTL DEF LedgerSpec, CreditsStayWithinBounds
=============================================================================
