---------------------------- MODULE ServiceProofs ----------------------------
(***************************************************************************)
(* Proofs about what runs beside the requests: edit leases, for any number *)
(* of tabs and leases and whatever is lost; webhook deliveries, for any    *)
(* number of lanes, rows and faults; the services of a process, for every  *)
(* plan of modules; and schedules, for any releases side by side.          *)
(***************************************************************************)
EXTENDS EditLeases, WebhookDeliveries, ModuleLifecycle, Schedules, SequenceTheorems, TLAPS

Token == 1 .. MaxTokens

\* A tab has, asks with or is being told of a token.
Names(t, k) ==
  \/ held[t] # None /\ held[t].token = k
  \/ asking[t] # None /\ asking[t].token = k
  \/ asking[t] # None /\ asking[t].result # None /\ asking[t].result.token = k

TokensAreDrawn ==
  /\ editLease # None => editLease.token <= tokens
  /\ \A t \in Tab : \A k \in Token : Names(t, k) => k <= tokens

TokensAreApart == \A t, u \in Tab : \A k \in Token : Names(t, k) /\ Names(u, k) => t = u

\* What a tab was told of a lease that has not run out is true.
IsLease(v) ==
  v.expires > second =>
    editLease # None /\ editLease.token = v.token /\ v.expires <= editLease.expires

ViewsAreTrue ==
  \A t \in Tab :
    /\ held[t] # None => IsLease(held[t])
    /\ asking[t] # None /\ asking[t].result # None => IsLease(asking[t].result)

\* The tab itself no longer counts on what it asks to release.
GivenUp == \A t \in Tab : asking[t] # None /\ asking[t].does = "release" => held[t] = None

Unanswered ==
  \A t \in Tab : asking[t] # None /\ asking[t].does # "answer" => asking[t].result = None

\* A tab's lease ends when the time it asks for has passed, or sooner.
NotTooLong ==
  editLease # None =>
    \A t \in Tab : Names(t, editLease.token) => editLease.expires <= second + TtlOf[t]

LeaseInv ==
  /\ LeaseTypes /\ NotTooLong /\ TokensAreDrawn /\ TokensAreApart
  /\ ViewsAreTrue /\ GivenUp /\ Unanswered

LEMMA LeaseInvInit ==
  ASSUME LeasesAssumption, LeasesInit
  PROVE  LeaseInv
  BY DEF LeasesAssumption, LeasesInit, LeaseInv, LeaseTypes, TokensAreDrawn, TokensAreApart,
         ViewsAreTrue, GivenUp, Unanswered, NotTooLong, Names, Time
-----------------------------------------------------------------------------
LEMMA PassSecondStep ==
  ASSUME LeasesAssumption, LeaseInv, PassSecond
  PROVE  LeaseInv'
<1> USE DEF LeasesAssumption, LeaseInv, PassSecond
<1>1. LeaseTypes' /\ second' > second
  BY DEF LeaseTypes, Time
<1>2. ViewsAreTrue'
  <2> SUFFICES ASSUME NEW t \in Tab
               PROVE  /\ held[t] # None => IsLease(held[t])'
                      /\ asking[t] # None /\ asking[t].result # None => IsLease(asking[t].result)'
    BY DEF ViewsAreTrue
  <2>1. /\ held[t] # None => held[t].expires \in Nat
        /\ asking[t] # None /\ asking[t].result # None => asking[t].result.expires \in Nat
        /\ second \in Nat /\ second' \in Nat
    BY DEF LeaseTypes, Held, Request, Expiry, Time
  <2> QED BY <1>1, <2>1 DEF ViewsAreTrue, IsLease
<1>3. TokensAreDrawn' /\ TokensAreApart' /\ GivenUp' /\ Unanswered'
  BY DEF TokensAreDrawn, TokensAreApart, GivenUp, Unanswered, Names
<1>4. NotTooLong'
  BY <1>1 DEF NotTooLong, Names, LeaseTypes, GrantedLease, Expiry, Time
<1> QED BY <1>1, <1>2, <1>3, <1>4

\* A tab that sends a request or gets an answer names nothing new.
LEMMA TabStep ==
  ASSUME LeasesAssumption, LeaseInv, NEW t \in Tab,
         AskForLease(t) \/ AskToRenew(t) \/ AskToRelease(t) \/ Receive(t) \/ Lose(t)
  PROVE  LeaseInv'
<1> USE DEF LeasesAssumption, LeaseInv
<1>1. LeaseTypes'
  BY DEF LeaseTypes, AskForLease, AskToRenew, AskToRelease, Receive, Lose, Send, Asked,
         Requested, Request, Held
<1>2. /\ UNCHANGED <<second, editLease, tokens>>
      /\ \A u \in Tab \ {t} : asking'[u] = asking[u] /\ held'[u] = held[u]
  BY DEF LeaseTypes, AskForLease, AskToRenew, AskToRelease, Receive, Lose, Send
<1>3. /\ \A k \in Token : Names(t, k)' => Names(t, k)
      /\ held'[t] # None => held[t] = held'[t] \/ (asking[t] # None /\ asking[t].result = held'[t])
      /\ asking'[t] # None => asking'[t].result = None
      /\ asking'[t] # None /\ asking'[t].does = "release" => held'[t] = None
  BY DEF LeaseTypes, AskForLease, AskToRenew, AskToRelease, Receive, Lose, Send, Asked,
         Requested, Request, Held, Names, Token
<1>4. \A u \in Tab : \A k \in Token : Names(u, k)' => Names(u, k)
  BY <1>2, <1>3 DEF Names
<1>5. TokensAreDrawn' /\ TokensAreApart' /\ NotTooLong'
  BY <1>2, <1>4 DEF TokensAreDrawn, TokensAreApart, NotTooLong, LeaseTypes, GrantedLease, Token
<1>6. ViewsAreTrue' /\ GivenUp' /\ Unanswered'
  BY <1>2, <1>3 DEF ViewsAreTrue, IsLease, GivenUp, Unanswered
<1> QED BY <1>1, <1>5, <1>6
-----------------------------------------------------------------------------
\* What a statement answers leaves the other tabs alone.
LEMMA OthersStay ==
  ASSUME LeaseInv, NEW t \in Tab, NEW result, Answer(t, result), UNCHANGED held
  PROVE  /\ asking' = [asking EXCEPT ![t] = Asked("answer", 0, result)]
         /\ asking'[t] = Asked("answer", 0, result)
         /\ \A u \in Tab \ {t} : asking'[u] = asking[u]
         /\ \A u \in Tab \ {t} : \A k \in Token : Names(u, k)' <=> Names(u, k)
  BY DEF LeaseInv, LeaseTypes, Answer, Names

LEMMA TellNothing ==
  ASSUME LeasesAssumption, LeaseInv, NEW t \in Tab, Answer(t, None),
         UNCHANGED <<second, editLease, tokens, held, losses>>
  PROVE  LeaseInv'
<1> USE DEF LeasesAssumption, LeaseInv
<1>1. LeaseTypes' /\ asking'[t] = Asked("answer", 0, None)
      /\ \A u \in Tab \ {t} : asking'[u] = asking[u]
  BY DEF LeaseTypes, Answer, Asked, Request
<1>2. \A u \in Tab : \A k \in Token : Names(u, k)' => Names(u, k)
  BY <1>1 DEF Names, Asked, Token
<1>3. TokensAreDrawn' /\ TokensAreApart' /\ NotTooLong'
  BY <1>2 DEF TokensAreDrawn, TokensAreApart, NotTooLong, LeaseTypes, GrantedLease, Token
<1>4. ViewsAreTrue' /\ GivenUp' /\ Unanswered'
  BY <1>1 DEF ViewsAreTrue, IsLease, GivenUp, Unanswered, Asked
<1> QED BY <1>1, <1>3, <1>4

\* The lease is free, so that nobody counts on it, or it is somebody's.
LEMMA AcquireStep ==
  ASSUME LeasesAssumption, LeaseInv, NEW t \in Tab, AcquireLease(t)
  PROVE  LeaseInv'
<1> USE DEF LeasesAssumption, LeaseInv
<1> DEFINE granted == [token |-> tokens + 1, actor |-> ActorOf[t], expires |-> second + TtlOf[t]]
           view == [token |-> tokens + 1, expires |-> second + TtlOf[t]]
<1>1. CASE Expired
  <2>1. /\ tokens < MaxTokens /\ tokens' = tokens + 1 /\ editLease' = granted
        /\ granted \in GrantedLease /\ view \in Held /\ granted # None /\ view # None
        /\ Answer(t, view) /\ UNCHANGED <<second, held, losses>>
    BY <1>1 DEF AcquireLease, View, LeaseTypes, GrantedLease, Held, Expiry, Time
  <2>2. LeaseTypes'
    BY <2>1 DEF LeaseTypes, Answer, Asked, Request, Held
  <2>3. /\ asking'[t] = Asked("answer", 0, view) /\ asking'[t] # None
        /\ \A u \in Tab \ {t} : asking'[u] = asking[u]
        /\ \A u \in Tab \ {t} : \A k \in Token : Names(u, k)' <=> Names(u, k)
    BY <2>1, <2>2, OthersStay DEF LeaseTypes, Asked, Request
  <2>4. \A k \in Token : Names(t, k)' => Names(t, k) \/ k = tokens + 1
    BY <2>1, <2>3 DEF Names, Asked, Token
  <2>5. \A u \in Tab : \A k \in Token : Names(u, k) => k <= tokens /\ k # tokens + 1
    BY DEF TokensAreDrawn, LeaseTypes, Token
  <2>6. TokensAreDrawn' /\ TokensAreApart'
    BY <2>1, <2>3, <2>4, <2>5 DEF TokensAreDrawn, TokensAreApart, LeaseTypes, Token
  <2>7. \A u \in Tab : /\ held[u] # None => ~(held[u].expires > second)
                       /\ asking[u] # None /\ asking[u].result # None
                            => ~(asking[u].result.expires > second)
    BY <1>1
    DEF Expired, ViewsAreTrue, IsLease, LeaseTypes, GrantedLease, Held, Request, Expiry, Time
  <2>8. ViewsAreTrue'
    BY <2>1, <2>3, <2>7 DEF ViewsAreTrue, IsLease, Asked, LeaseTypes, Time
  <2>9. GivenUp' /\ Unanswered' /\ NotTooLong'
    BY <2>1, <2>3, <2>5 DEF GivenUp, Unanswered, Asked, NotTooLong, LeaseTypes, Time, Token
  <2> QED BY <2>2, <2>6, <2>8, <2>9
<1>2. CASE ~Expired
  BY <1>2, TellNothing DEF AcquireLease
<1> QED BY <1>1, <1>2

\* The lease goes on with the token the tab asked with.
LEMMA RenewStep ==
  ASSUME LeasesAssumption, LeaseInv, NEW t \in Tab, RenewLease(t)
  PROVE  LeaseInv'
<1> USE DEF LeasesAssumption, LeaseInv
<1> DEFINE later == [editLease EXCEPT !.expires = second + TtlOf[t]]
           view == [token |-> editLease.token, expires |-> second + TtlOf[t]]
<1>1. CASE Owns(t) /\ ~Expired
  <2>1. /\ editLease \in GrantedLease /\ editLease # None /\ editLease.token = asking[t].token
        /\ editLease.expires > second /\ asking[t] # None
        /\ editLease' = later /\ later \in GrantedLease /\ later # None
        /\ view \in Held /\ view # None
        /\ Answer(t, view) /\ UNCHANGED <<second, tokens, held, losses>>
    BY <1>1
    DEF RenewLease, Requested, Owns, Expired, View, LeaseTypes, GrantedLease, Held, Expiry, Time
  <2>2. /\ editLease.token \in Token /\ editLease.expires \in Nat /\ Names(t, editLease.token)
        /\ editLease.expires <= second + TtlOf[t] /\ second + TtlOf[t] \in Nat
        /\ later.token = editLease.token /\ later.expires = second + TtlOf[t]
    BY <2>1 DEF LeaseTypes, GrantedLease, Expiry, Time, Token, NotTooLong, Names
  <2>3. LeaseTypes'
    BY <2>1 DEF LeaseTypes, Answer, Asked, Request
  <2>4. /\ asking'[t] = Asked("answer", 0, view) /\ asking'[t] # None
        /\ \A u \in Tab \ {t} : asking'[u] = asking[u]
        /\ \A u \in Tab \ {t} : \A k \in Token : Names(u, k)' <=> Names(u, k)
    BY <2>1, <2>3, OthersStay DEF LeaseTypes, Asked, Request
  <2>5. \A u \in Tab : \A k \in Token : Names(u, k)' => Names(u, k)
    BY <2>1, <2>2, <2>4 DEF Names, Asked, Token
  <2>6. TokensAreDrawn' /\ TokensAreApart'
    BY <2>1, <2>2, <2>5 DEF TokensAreDrawn, TokensAreApart
  <2>7. NotTooLong'
    BY <2>1, <2>2, <2>5 DEF NotTooLong, TokensAreApart
  <2>8. ViewsAreTrue'
    BY <2>1, <2>2, <2>4 DEF ViewsAreTrue, IsLease, Asked, LeaseTypes, Held, Request, Expiry, Time
  <2>9. GivenUp' /\ Unanswered'
    BY <2>1, <2>4 DEF GivenUp, Unanswered, Asked
  <2> QED BY <2>3, <2>6, <2>7, <2>8, <2>9
<1>2. CASE ~(Owns(t) /\ ~Expired)
  BY <1>2, TellNothing DEF RenewLease
<1> QED BY <1>1, <1>2

\* Nobody counts on the lease that is removed: its token is the releasing tab's.
LEMMA ReleaseStep ==
  ASSUME LeasesAssumption, LeaseInv, NEW t \in Tab, ReleaseLease(t)
  PROVE  LeaseInv'
<1> USE DEF LeasesAssumption, LeaseInv
<1>1. CASE Owns(t)
  <2>1. /\ editLease \in GrantedLease /\ editLease.token = asking[t].token /\ asking[t] # None
        /\ asking[t].does = "release" /\ held[t] = None /\ asking[t].result = None
        /\ editLease' = None /\ Answer(t, None) /\ UNCHANGED <<second, tokens, held, losses>>
    BY <1>1 DEF ReleaseLease, Requested, Owns, LeaseTypes, GivenUp, Unanswered
  <2>2. /\ LeaseTypes' /\ asking'[t] = Asked("answer", 0, None)
        /\ \A u \in Tab \ {t} : asking'[u] = asking[u]
    BY <2>1 DEF LeaseTypes, Answer, Asked, Request
  <2>3. \A u \in Tab : \A k \in Token : Names(u, k)' => Names(u, k)
    BY <2>1, <2>2 DEF Names, Asked, Token
  <2>4. TokensAreDrawn' /\ TokensAreApart' /\ NotTooLong'
    BY <2>1, <2>3 DEF TokensAreDrawn, TokensAreApart, NotTooLong
  <2>5. editLease.token \in Token /\ \A u \in Tab \ {t} : ~Names(u, editLease.token)
    BY <2>1 DEF TokensAreApart, Names, GrantedLease, Token
  <2>6. ViewsAreTrue'
    BY <2>1, <2>2, <2>5 DEF ViewsAreTrue, IsLease, Names, Asked
  <2>7. GivenUp' /\ Unanswered'
    BY <2>1, <2>2 DEF GivenUp, Unanswered, Asked
  <2> QED BY <2>2, <2>4, <2>6, <2>7
<1>2. CASE ~Owns(t)
  BY <1>2, TellNothing DEF ReleaseLease
<1> QED BY <1>1, <1>2

LEMMA LeaseInvNext ==
  ASSUME LeasesAssumption, LeaseInv, [LeasesNext]_leaseVars
  PROVE  LeaseInv'
<1>1. ASSUME NEW t \in Tab, TabNext(t)
      PROVE  LeaseInv'
  BY <1>1, TabStep, AcquireStep, RenewStep, ReleaseStep DEF TabNext
<1>2. CASE UNCHANGED leaseVars
  BY <1>2 DEF leaseVars, LeaseInv, LeaseTypes, TokensAreDrawn, TokensAreApart, ViewsAreTrue,
              IsLease, GivenUp, Unanswered, NotTooLong, Names
<1> QED BY <1>1, <1>2, PassSecondStep DEF LeasesNext

\* In every reachable state: what tabs believe of a lease, and with which token
\* they ask, is so, or it has expired (acquire_lock, renew_lock, release_lock).
THEOREM LeaseInvariant == ASSUME LeasesAssumption PROVE LeasesSpec => []LeaseInv
<1>1. LeasesInit => LeaseInv
  BY LeaseInvInit
<1>2. LeaseInv /\ [LeasesNext]_leaseVars => LeaseInv'
  BY LeaseInvNext
<1> QED BY <1>1, <1>2, PTL DEF LeasesSpec

\* Two tabs never count on the lease of a record at the same time, whatever is
\* late or lost (acquire_lock, renew_lock, release_lock).
THEOREM OneEditorAlways == ASSUME LeasesAssumption PROVE LeasesSpec => []OneEditor
<1>1. LeaseInv => OneEditor
  <2> SUFFICES ASSUME LeaseInv, NEW t \in Tab, NEW u \in Tab, Has(t), Has(u)
               PROVE  t = u
    BY DEF OneEditor, LeaseInv
  <2>1. editLease # None /\ editLease.token = held[t].token /\ editLease.token = held[u].token
    BY DEF Has, LeaseInv, ViewsAreTrue, IsLease
  <2>2. editLease.token \in Token
    BY <2>1 DEF LeaseInv, LeaseTypes, GrantedLease, Token
  <2> QED BY <2>1, <2>2 DEF LeaseInv, TokensAreApart, Names, Has
<1> QED BY <1>1, LeaseInvariant, PTL
-----------------------------------------------------------------------------
(* Webhook deliveries *)


\* What a lane sends is a row; while nothing failed the row is its own and its
\* claim goes on.
ClaimsAreHeld ==
  /\ \A w \in Lane : sending[w] # None => delivery[sending[w].id] # None
  /\ deliveryFaults = 0 => \A w \in Lane : sending[w] # None =>
       OwnsDelivery(sending[w].id, w) /\ delivery[sending[w].id].lease > 0

SuccessIsAccepted ==
  /\ \A w \in Lane :
       sending[w] # None /\ sending[w].answer = "success" => sending[w].id \in accepted
  /\ \A d \in Present : delivery[d].status = "succeeded" => d \in accepted

WebhookInv == DeliveryTypes /\ ClaimsAreHeld /\ SuccessIsAccepted

LEMMA WebhookInvInit ==
  ASSUME DeliveriesAssumption, DeliveriesInit
  PROVE  WebhookInv
  BY DEF DeliveriesAssumption, DeliveriesInit, WebhookInv,
         DeliveryTypes, ClaimsAreHeld, SuccessIsAccepted, Present

\* New rows are nobody's.
LEMMA PublishStep ==
  ASSUME DeliveriesAssumption, WebhookInv,
         NEW key \in Event \cup {None}, Publish(key)
  PROVE  WebhookInv'
<1> USE DEF DeliveriesAssumption, WebhookInv
<1>1. PICK id \in [Lacking(key) -> Unused] :
        delivery' = [d \in Delivery |->
          IF \E e \in Lacking(key) : id[e] = d
          THEN New(CHOOSE e \in Lacking(key) : id[e] = d, key)
          ELSE delivery[d]]
  BY DEF Publish
<1>2. UNCHANGED <<sending, lanesStarted, alive, accepted, deliveryFaults, deliveryOps>>
  BY DEF Publish
<1>3. \A d \in Delivery :
        \/ delivery'[d] = delivery[d]
        \/ /\ delivery[d] = None /\ delivery'[d] \in Row
           /\ delivery'[d].status = "pending"
  <2> SUFFICES ASSUME NEW d \in Delivery, NEW e \in Lacking(key), id[e] = d
               PROVE  /\ delivery[d] = None /\ delivery'[d] \in Row
                      /\ delivery'[d].status = "pending"
    BY <1>1
  <2> DEFINE f == CHOOSE g \in Lacking(key) : id[g] = d
  <2>1. f \in Endpoint
    BY DEF Lacking
  <2>2. delivery'[d] = New(f, key)
    BY <1>1
  <2> QED BY <2>1, <2>2
          DEF New, Row, Status, Unused, Present
<1>4. DeliveryTypes'
  <2>1. delivery' \in [Delivery -> Row \cup {None}]
    BY <1>1, <1>3 DEF DeliveryTypes
  <2> QED BY <2>1, <1>2 DEF DeliveryTypes
<1>5. ClaimsAreHeld'
  BY <1>2, <1>3 DEF ClaimsAreHeld, OwnsDelivery, DeliveryTypes, Claimed
<1>6. SuccessIsAccepted'
  BY <1>2, <1>3 DEF SuccessIsAccepted, Present
<1> QED BY <1>4, <1>5, <1>6

LEMMA ClaimStep ==
  ASSUME DeliveriesAssumption, WebhookInv, NEW w \in Lane, ClaimDelivery(w)
  PROVE  WebhookInv'
<1> USE DEF DeliveriesAssumption, WebhookInv, DeliveryTypes, Row,
            Claimed, Status
<1>1. PICK d \in Delivery :
        /\ Claimable(d)
        /\ delivery' = [delivery EXCEPT ![d].status = "delivering", ![d].attempts = @ + 1,
                                        ![d].by = w, ![d].lease = DeliveryLease]
        /\ sending' = [sending EXCEPT ![w] =
             [id |-> d, attempts |-> delivery[d].attempts + 1, answer |-> "none"]]
  BY DEF ClaimDelivery
<1>2. /\ w \in alive /\ sending[w] = None
      /\ UNCHANGED <<lanesStarted, alive, accepted, deliveryFaults, deliveryOps>>
  BY DEF ClaimDelivery
<1>3. DeliveryTypes'
  BY <1>1, <1>2 DEF Claimable
<1>4. ClaimsAreHeld'
  BY <1>1, <1>2, SMTT(40) DEF Claimable, ClaimsAreHeld, OwnsDelivery
<1>5. SuccessIsAccepted'
  BY <1>1, <1>2 DEF Claimable, SuccessIsAccepted, Present
<1> QED BY <1>3, <1>4, <1>5

LEMMA DeliverStep ==
  ASSUME DeliveriesAssumption, WebhookInv, NEW w \in Lane,
         Deliver(w) \/ LoseDatabase(w) \/ CrashLane(w)
           \/ StartLane(w)
  PROVE  WebhookInv'
<1> USE DEF DeliveriesAssumption, WebhookInv, Deliver, LoseDatabase,
            CrashLane, StartLane
<1>1. DeliveryTypes' /\ accepted \subseteq accepted'
  BY DEF DeliveryTypes, Claimed
<1>2. ClaimsAreHeld'
  BY DEF DeliveryTypes, Claimed, ClaimsAreHeld, OwnsDelivery
<1>3. SuccessIsAccepted'
  BY <1>1 DEF DeliveryTypes, Claimed, SuccessIsAccepted, Present
<1> QED BY <1>1, <1>2, <1>3

\* A lane settles its own row and no other lane's.
LEMMA SettleStep ==
  ASSUME DeliveriesAssumption, WebhookInv, NEW w \in Lane, NEW row \in Row,
         sending[w] # None, row.status = "succeeded" => sending[w].id \in accepted,
         Settle(w, row)
  PROVE  WebhookInv'
<1> USE DEF DeliveriesAssumption, WebhookInv, Settle
<1>1. DeliveryTypes' /\ sending[w].id \in Delivery
  BY DEF DeliveryTypes, Claimed
<1>2. ClaimsAreHeld'
  BY <1>1 DEF DeliveryTypes, ClaimsAreHeld, OwnsDelivery, Claimed, Row
<1>3. SuccessIsAccepted'
  BY <1>1 DEF DeliveryTypes, SuccessIsAccepted, Present
<1> QED BY <1>1, <1>2, <1>3

\* The delay of a retry never exceeds its cap.
LEMMA DelayType ==
  ASSUME DeliveriesAssumption, NEW n \in Nat
  PROVE  DeliveryDelay(n) \in 0 .. MaxDeliveryDelay
  BY DEF DeliveryDelay, DeliveriesAssumption

\* What settling writes is a row.
LEMMA RowTypes ==
  ASSUME DeliveriesAssumption, NEW row \in Row,
         NEW status \in Status, NEW due \in 0 .. MaxDeliveryDelay
  PROVE  /\ [row EXCEPT !.status = status, !.by = None, !.lease = 0] \in Row
         /\ [[row EXCEPT !.by = None, !.lease = 0] EXCEPT !.status = status] \in Row
         /\ [[row EXCEPT !.by = None, !.lease = 0] EXCEPT !.status = status, !.due = due]
              \in Row
<1> USE DEF Row
<1>1. DeliveryLease \in Nat /\ MaxDeliveryDelay \in Nat
  BY DEF DeliveriesAssumption
<1>2. [row EXCEPT !.by = None, !.lease = 0] \in Row
  <2> DEFINE nobodys == [row EXCEPT !.by = None]
  <2>1. nobodys \in Row
    OBVIOUS
  <2>2. [nobodys EXCEPT !.lease = 0] \in Row
    <3> HIDE DEF nobodys
    <3> QED BY <1>1, <2>1
  <2> QED BY <2>2
<1>3. \A r \in Row : /\ [r EXCEPT !.status = status] \in Row
                     /\ [r EXCEPT !.status = status, !.due = due] \in Row
  BY <1>1
<1>4. [row EXCEPT !.status = status, !.by = None, !.lease = 0]
        = [[row EXCEPT !.status = status] EXCEPT !.by = None, !.lease = 0]
  OBVIOUS
<1> QED BY <1>2, <1>3, <1>4

LEMMA AnswerStep ==
  ASSUME DeliveriesAssumption, WebhookInv, NEW w \in Lane,
         CompleteDelivery(w) \/ FailDelivery(w)
  PROVE  WebhookInv'
<1> DEFINE row == delivery[sending[w].id]
           freed == [row EXCEPT !.by = None, !.lease = 0]
<1>1. sending[w] \in Claimed /\ row \in Row
  BY DEF CompleteDelivery, FailDelivery, WebhookInv, DeliveryTypes, ClaimsAreHeld,
         Claimed
<1>2. CASE CompleteDelivery(w)
  <2> DEFINE new == [row EXCEPT !.status = "succeeded", !.by = None, !.lease = 0]
  <2>1. new \in Row
    <3>1. "succeeded" \in Status /\ 0 \in 0 .. DeliveryLease /\ 0 \in 0 .. MaxDeliveryDelay
      BY DEF Status, DeliveriesAssumption
    <3> QED BY <1>1, <3>1, RowTypes
  <2>2. sending[w] # None /\ sending[w].id \in accepted /\ Settle(w, new)
    BY <1>2 DEF CompleteDelivery, WebhookInv, SuccessIsAccepted
  <2> QED BY <2>1, <2>2, SettleStep
<1>3. CASE FailDelivery(w)
  <2> DEFINE new == IF IsLastAttempt(sending[w].attempts) THEN [freed EXCEPT !.status = "dead"]
                    ELSE [freed EXCEPT !.status = "pending",
                                       !.due = DeliveryDelay(sending[w].attempts)]
  <2>1. DeliveryDelay(sending[w].attempts) \in 0 .. MaxDeliveryDelay
    BY <1>1, DelayType DEF Claimed
  <2>2. new \in Row
    <3>1. {"pending", "dead"} \subseteq Status /\ 0 \in 0 .. DeliveryLease
      BY DEF Status, DeliveriesAssumption
    <3> QED BY <1>1, <2>1, <3>1, RowTypes
  <2>4. new.status # "succeeded"
    BY <1>1 DEF Row
  <2>3. sending[w] # None /\ Settle(w, new)
    BY <1>3 DEF FailDelivery
  <2> QED BY <2>2, <2>3, <2>4, SettleStep
<1> QED BY <1>2, <1>3

\* Administrators touch rows that no lane has while nothing failed.
LEMMA AdministratorStep ==
  ASSUME DeliveriesAssumption, WebhookInv, NEW d \in Delivery,
         RetryDelivery(d) \/ ReplayDelivery(d)
  PROVE  WebhookInv'
<1> USE DEF DeliveriesAssumption, WebhookInv, DeliveryTypes
<1>1. PICK e \in Delivery, key \in Event \cup {None} :
        /\ delivery' = [delivery EXCEPT ![e] = New(delivery[d].endpoint, key)]
        /\ delivery[e] = None \/ delivery[e].status = "dead"
  <2>1. CASE RetryDelivery(d)
    BY <2>1 DEF RetryDelivery, Row
  <2>2. CASE ReplayDelivery(d)
    BY <2>2 DEF ReplayDelivery, Unused, Present
  <2> QED BY <2>1, <2>2
<1>2. /\ delivery[d] \in Row /\ deliveryOps < MaxDeliveryOps /\ deliveryOps' = deliveryOps + 1
      /\ UNCHANGED <<sending, lanesStarted, alive, accepted, deliveryFaults>>
  BY DEF RetryDelivery, ReplayDelivery
<1>3. New(delivery[d].endpoint, key) \in Row
  BY <1>2 DEF New, Row, Status
<1>4. DeliveryTypes'
  BY <1>1, <1>2, <1>3
<1>5. ClaimsAreHeld'
  <2>1. delivery'[e] # None
    BY <1>1, <1>3
  <2>2. \A g \in Delivery : g # e => delivery'[g] = delivery[g]
    BY <1>1
  <2>3. \A w \in Lane : sending[w] # None =>
          sending[w].id \in Delivery /\ (deliveryFaults = 0 => sending[w].id # e)
    BY <1>1 DEF ClaimsAreHeld, OwnsDelivery, Claimed
  <2> QED BY <1>2, <2>1, <2>2, <2>3 DEF ClaimsAreHeld, OwnsDelivery
<1>6. SuccessIsAccepted'
  BY <1>1, <1>2 DEF SuccessIsAccepted, Present, New
<1> QED BY <1>4, <1>5, <1>6

\* Time takes no claim from a lane that is still within its timeout.
LEMMA TimeStep ==
  ASSUME DeliveriesAssumption, WebhookInv, DeliveryTick \/ StallLanes
  PROVE  WebhookInv'
<1> USE DEF DeliveriesAssumption, WebhookInv, DeliveryTypes
<1>1. /\ TimePasses /\ UNCHANGED <<sending, lanesStarted, alive, accepted, deliveryOps>>
      /\ deliveryFaults' \in 0 .. MaxDeliveryFaults
      /\ deliveryFaults' = 0 => deliveryFaults = 0 /\ RequestsEndInTime
  BY DEF DeliveryTick, StallLanes
<1>2. \A d \in Delivery :
        IF delivery[d] = None THEN delivery'[d] = None
        ELSE /\ delivery'[d] \in Row
             /\ delivery'[d].status = delivery[d].status /\ delivery'[d].by = delivery[d].by
             /\ delivery[d].lease > 1 => delivery'[d].lease > 0
  <2> SUFFICES ASSUME NEW d \in Delivery, delivery[d] # None
               PROVE  /\ delivery'[d] \in Row
                      /\ delivery'[d].status = delivery[d].status
                      /\ delivery'[d].by = delivery[d].by
                      /\ delivery[d].lease > 1 => delivery'[d].lease > 0
    BY <1>1 DEF TimePasses
  <2> DEFINE row == delivery[d]
             due == IF row.due = 0 THEN 0 ELSE row.due - 1
             lasts == IF row.lease = 0 THEN 0 ELSE row.lease - 1
  <2>1. row \in Row /\ delivery'[d] = [row EXCEPT !.due = due, !.lease = lasts]
    BY <1>1 DEF TimePasses, Passed
  <2>2. due \in 0 .. MaxDeliveryDelay /\ lasts \in 0 .. DeliveryLease
    BY <2>1 DEF Row
  <2>3. delivery'[d] \in Row
    <3> HIDE DEF row, due, lasts
    <3> QED BY <2>1, <2>2 DEF Row
  <2>4. row.lease > 1 => lasts > 0
    BY <2>1 DEF Row
  <2> QED BY <2>1, <2>3, <2>4 DEF Row
<1>3. DeliveryTypes'
  <2>1. delivery' \in [Delivery -> Row \cup {None}]
    BY <1>1, <1>2 DEF TimePasses
  <2> QED BY <2>1, <1>1
<1>4. ClaimsAreHeld'
  BY <1>1, <1>2 DEF ClaimsAreHeld, OwnsDelivery, Claimed, RequestsEndInTime
<1>5. SuccessIsAccepted'
  BY <1>1, <1>2 DEF SuccessIsAccepted, Present
<1> QED BY <1>3, <1>4, <1>5

LEMMA WebhookInvNext ==
  ASSUME DeliveriesAssumption
  PROVE  WebhookInv /\ [DeliveriesNext]_webhookVars => WebhookInv'
<1> SUFFICES ASSUME WebhookInv, [DeliveriesNext]_webhookVars
             PROVE  WebhookInv'
  OBVIOUS
<1>1. CASE UNCHANGED webhookVars
  BY <1>1 DEF webhookVars, WebhookInv, DeliveryTypes, ClaimsAreHeld,
              SuccessIsAccepted, OwnsDelivery, Present
<1>2. CASE \E key \in Event \cup {None} : Publish(key)
  BY <1>2, PublishStep
<1>3. CASE \E w \in Lane : LaneGoes(w) \/ LoseDatabase(w) \/ CrashLane(w)
  <2>1. PICK w \in Lane : LaneGoes(w) \/ LoseDatabase(w) \/ CrashLane(w)
    BY <1>3
  <2>2. CASE ClaimDelivery(w)
    BY <2>2, ClaimStep
  <2>3. CASE CompleteDelivery(w) \/ FailDelivery(w)
    BY <2>3, AnswerStep
  <2>4. CASE \/ Deliver(w) \/ LoseDatabase(w)
             \/ CrashLane(w) \/ StartLane(w)
    BY <2>4, DeliverStep
  <2> QED BY <2>1, <2>2, <2>3, <2>4 DEF LaneGoes
<1>4. CASE \E d \in Delivery : RetryDelivery(d) \/ ReplayDelivery(d)
  BY <1>4, AdministratorStep
<1>5. CASE DeliveryTick \/ StallLanes
  BY <1>5, TimeStep
<1> QED BY <1>1, <1>2, <1>3, <1>4, <1>5 DEF DeliveriesNext

\* In the outbox every lane's request is a row of its own whose claim goes on
\* while nothing failed, and successes have been accepted.  (WebhookWorker)
THEOREM WebhookInvariant ==
  ASSUME DeliveriesAssumption
  PROVE  DeliveriesSpec => []WebhookInv
<1>1. DeliveriesInit => WebhookInv
  BY WebhookInvInit
<1>2. WebhookInv /\ [DeliveriesNext]_webhookVars => WebhookInv'
  BY WebhookInvNext
<1> QED BY <1>1, <1>2, PTL DEF DeliveriesSpec

\* While nothing failed no delivery is in two lanes' hands, without a heartbeat;
\* what counts as delivered has been accepted.  (WebhookWorker::run_once, claim)
THEOREM DeliveriesApartAlways ==
  ASSUME DeliveriesAssumption
  PROVE  DeliveriesSpec => []DeliveriesAreApart
<1>1. WebhookInv => DeliveriesAreApart
  BY DEF WebhookInv, ClaimsAreHeld, SuccessIsAccepted, DeliveriesAreApart,
         DeliveryTypes, OwnsDelivery
<1> QED BY <1>1, WebhookInvariant, PTL
-----------------------------------------------------------------------------
(* The services of a process *)


Told(s) == s \in Service /\ task[s] # None /\ task[s].told
Handled(s) == \E k \in 1 .. Len(handles) : handles[k] = s

\* A module is started once, after its dependencies.
StartedInOrder ==
  /\ \A i, j \in 1 .. Len(started) : started[i] = started[j] => i = j
  /\ \A i \in 1 .. Len(started) :
       \E k \in DOMAIN plan : /\ plan[k].name = started[i]
                              /\ plan[k].dependencies \subseteq Prefix(started, i - 1)

\* Handles are kept in the order the modules were started, of services that run
\* and have not been told to stop.
HandlesInOrder ==
  /\ \A k \in 1 .. Len(handles) : \E i \in 1 .. Len(started) : started[i] = handles[k]
  /\ \A k, l \in 1 .. Len(handles), i, j \in 1 .. Len(started) :
       started[i] = handles[k] /\ started[j] = handles[l] /\ k < l => i < j
  /\ \A s \in Service : task[s] # None => (Handled(s) <=> ~task[s].told)
  /\ \A k \in 1 .. Len(handles) : task[handles[k]] # None

\* Whatever was started before a service that was told to stop is still to be
\* told, or is the one waited for.
ToldInReverse ==
  \A i, j \in 1 .. Len(started) : Told(started[i]) =>
    /\ Handled(started[j]) => j < i
    /\ waiting = started[j] => j <= i

WaitedFor ==
  /\ waiting # None => task[waiting] # None /\ task[waiting].told
  /\ \A s \in Service : Told(s) /\ s # waiting =>
       \/ task[s].joined /\ (task[s].ended = "failed" => <<s, "error">> \in failures)
       \/ Overran(s)

PhaseBound ==
  /\ phase \in {"starting", "serving", "draining"} =>
       waiting = None /\ \A s \in Service : ~Told(s)
  /\ phase = "done" => waiting = None /\ handles = <<>>
  /\ phase # "done" => \A s \in Service : task[s] # None =>
       \E i \in 1 .. Len(started) : started[i] = s

\* What a supervisor says of its task is so.
Supervised ==
  \A s \in Service : task[s] # None =>
    /\ task[s].joined => task[s].ended # "no"
    /\ task[s].noticed = IF task[s].state = "exited" THEN 1 ELSE 0
    /\ task[s].ended # "no" /\ task[s].state = "running" => task[s].early
    /\ task[s].state = "exited" => task[s].early /\ task[s].ended # "no"

\* The application learns of an exit of the watched service, or is draining.
HealthKnows ==
  /\ health = "ready" => phase = "serving"
  /\ health = "draining" => phase # "starting" /\ phase # "serving"
  /\ marking # "no" => task[Watched] # None /\ task[Watched].state = "exited"
  /\ marking = "store" => failure
  /\ task[Watched] # None /\ task[Watched].state = "exited" =>
       marking = "write" \/ failure \/ health = "draining"

LifecycleInv ==
  /\ LifecycleTypes /\ StartedInOrder /\ HandlesInOrder /\ ToldInReverse /\ WaitedFor
  /\ PhaseBound /\ Supervised /\ HealthKnows

LEMMA LifecycleSequences ==
  ASSUME LifecycleAssumption, LifecycleTypes
  PROVE  /\ Len(plan) \in Nat /\ Len(started) \in Nat /\ Len(handles) \in Nat
         /\ DOMAIN started = 1 .. Len(started) /\ DOMAIN plan = 1 .. Len(plan)
         /\ \A i \in 1 .. Len(started) : started[i] \in Module
         /\ \A k \in 1 .. Len(handles) : handles[k] \in Service
         /\ \A i \in 1 .. Len(plan) : plan[i] \in Descriptor
<1>1. plan \in Seq(Descriptor) /\ started \in Seq(Module) /\ handles \in Seq(Service)
  BY DEF LifecycleAssumption, LifecycleTypes
<1> QED BY <1>1, LenProperties, ElementOfSeq

LEMMA StartedStays ==
  ASSUME LifecycleInv, started' = started, plan' = plan
  PROVE  StartedInOrder'
BY DEF LifecycleInv, StartedInOrder

LEMMA HandlesStay ==
  ASSUME LifecycleAssumption, LifecycleInv, handles' = handles, started' = started,
         task' = task
  PROVE  HandlesInOrder'
<1>1. /\ handles' = handles /\ started' = started /\ task' = task
      /\ \A k \in 1 .. Len(handles) : handles[k] \in Service
  BY LifecycleSequences DEF LifecycleInv
<1>2. \A s \in Service : task'[s] # None => (Handled(s)' <=> ~task'[s].told)
  BY <1>1 DEF LifecycleInv, HandlesInOrder, Handled
<1>3. \A k \in 1 .. Len(handles') : task'[handles'[k]] # None
  BY <1>1 DEF LifecycleInv, HandlesInOrder
<1>4. /\ \A k \in 1 .. Len(handles) : \E i \in 1 .. Len(started) : started[i] = handles[k]
      /\ \A k, l \in 1 .. Len(handles), i, j \in 1 .. Len(started) :
           started[i] = handles[k] /\ started[j] = handles[l] /\ k < l => i < j
  BY DEF LifecycleInv, HandlesInOrder
<1>5. /\ \A k \in 1 .. Len(handles') : \E i \in 1 .. Len(started') : started'[i] = handles'[k]
      /\ \A k, l \in 1 .. Len(handles'), i, j \in 1 .. Len(started') :
           started'[i] = handles'[k] /\ started'[j] = handles'[l] /\ k < l => i < j
  BY <1>1, <1>4
<1> QED BY <1>2, <1>3, <1>5 DEF HandlesInOrder

LEMMA LifecycleInvInit ==
  ASSUME LifecycleAssumption, LifecycleInit
  PROVE  LifecycleInv
<1>1. plan \in Seq(Descriptor) /\ Len(plan) \in Nat
  BY LenProperties DEF LifecycleAssumption, LifecycleInit
<1>2. /\ started = <<>> /\ handles = <<>> /\ waiting = None /\ next = 1 /\ phase = "starting"
      /\ task = [s \in Service |-> None] /\ failures = {}
      /\ health = "starting" /\ ~failure /\ failure \in BOOLEAN /\ marking = "no" /\ plan \in Plans
  BY DEF LifecycleInit
<1>3. /\ <<>> \in Seq(Module) /\ <<>> \in Seq(Service) /\ Len(<<>>) = 0
  BY EmptySeq
<1>4. LifecycleTypes
  BY <1>1, <1>2, <1>3 DEF LifecycleTypes
<1>5. StartedInOrder /\ HandlesInOrder /\ ToldInReverse
  BY <1>2, <1>3 DEF StartedInOrder, HandlesInOrder, ToldInReverse
<1>6. WaitedFor /\ PhaseBound
  BY <1>2 DEF WaitedFor, PhaseBound, Told
<1>7. Supervised /\ HealthKnows
  BY <1>2 DEF Supervised, HealthKnows, LifecycleAssumption
<1> QED BY <1>4, <1>5, <1>6, <1>7 DEF LifecycleInv

\* A task goes on: what it was told and how it ended stay.
LEMMA TaskChanges ==
  ASSUME LifecycleAssumption, LifecycleInv, NEW s \in Service, task[s] # None,
         NEW t \in Task,
         task' = [task EXCEPT ![s] = t], t.told = task[s].told,
         task[s].joined => t.joined /\ t.ended = task[s].ended,
         UNCHANGED <<plan, next, phase, started, handles, waiting, failures>>,
         health' \in {"starting", "ready", "draining", "failed"}, failure' \in BOOLEAN,
         marking' \in {"no", "write", "store"}
  PROVE  /\ LifecycleTypes' /\ StartedInOrder' /\ HandlesInOrder' /\ ToldInReverse'
         /\ WaitedFor' /\ PhaseBound'
<1>1. /\ task \in [Service -> Task \cup {None}] /\ None \notin Task
      /\ \A r \in Service \ {s} : task'[r] = task[r]
      /\ task'[s] = t /\ t # None
  BY DEF LifecycleInv, LifecycleTypes, LifecycleAssumption
<1>2. /\ \A r \in Service : task'[r] # None <=> task[r] # None
      /\ \A r \in Service : task[r] # None => task'[r].told = task[r].told
  BY <1>1
<1>3. /\ \A r : Told(r)' <=> Told(r)
      /\ \A r : Handled(r)' <=> Handled(r)
      /\ \A r : Overran(r)' <=> Overran(r)
  BY <1>2 DEF Told, Handled, Overran
<1>4. LifecycleTypes'
  BY <1>1 DEF LifecycleInv, LifecycleTypes
<1>5. StartedInOrder'
  BY StartedStays
<1>6. HandlesInOrder'
  <2>1. \A k \in 1 .. Len(handles) : handles[k] \in Service
    BY LifecycleSequences DEF LifecycleInv
  <2> QED BY <1>2, <1>3, <2>1, SMTT(40) DEF LifecycleInv, HandlesInOrder
<1>7. ToldInReverse'
  BY <1>3 DEF LifecycleInv, ToldInReverse
<1>8. WaitedFor'
  <2>1. waiting # None => waiting \in Service
    BY DEF LifecycleInv, LifecycleTypes
  <2>2. waiting # None => task'[waiting] # None /\ task'[waiting].told
    BY <1>2, <2>1 DEF LifecycleInv, WaitedFor
  <2>3. ASSUME NEW r \in Service, Told(r), r # waiting
        PROVE  \/ task'[r].joined /\ (task'[r].ended = "failed" => <<r, "error">> \in failures)
               \/ Overran(r)
    BY <1>1, <2>3 DEF LifecycleInv, WaitedFor
  <2> QED BY <1>3, <2>2, <2>3 DEF WaitedFor
<1>9. PhaseBound'
  BY <1>2, <1>3 DEF LifecycleInv, PhaseBound
<1> QED BY <1>4, <1>5, <1>6, <1>7, <1>8, <1>9

LEMMA EndStep ==
  ASSUME LifecycleAssumption, LifecycleInv, NEW s \in Service, FutureEnds(s)
  PROVE  LifecycleInv'
<1>1. PICK how \in {"ok", "failed"} :
        task' = [task EXCEPT ![s].ended = how, ![s].early = task[s].state = "running"]
  BY DEF FutureEnds
<1> DEFINE early == task[s].state = "running"
           t == [task[s] EXCEPT !.ended = how, !.early = early]
<1>2. /\ task[s] \in Task /\ task[s] # None /\ task[s].ended = "no" /\ ~task[s].joined
  BY DEF FutureEnds, Running, LifecycleInv, LifecycleTypes, Supervised
<1>3. task' = [task EXCEPT ![s] = t]
  BY <1>1 DEF LifecycleInv, LifecycleTypes
<1>4. early \in BOOLEAN
  OBVIOUS
<1> HIDE DEF early
<1>5. /\ t \in Task /\ t.told = task[s].told /\ t.ended = how /\ t.joined = task[s].joined
      /\ t.early = early /\ t.state = task[s].state /\ t.noticed = task[s].noticed
  BY <1>2, <1>4 DEF Task
<1> HIDE DEF t
<1>6. UNCHANGED <<plan, next, phase, started, handles, waiting, failures, health, failure, marking>>
  BY DEF FutureEnds
<1>7. /\ task'[s] = t /\ \A r \in Service \ {s} : task'[r] = task[r]
  BY <1>3 DEF LifecycleInv, LifecycleTypes
<1>8. Supervised'
  BY <1>2, <1>5, <1>7, ZenonT(40) DEF LifecycleInv, Supervised, early
<1>9. HealthKnows'
  BY <1>2, <1>5, <1>6, <1>7 DEF LifecycleInv, HealthKnows, LifecycleAssumption
<1>10. /\ health' \in {"starting", "ready", "draining", "failed"} /\ failure' \in BOOLEAN
       /\ marking' \in {"no", "write", "store"}
  BY <1>6 DEF LifecycleInv, LifecycleTypes
<1> QED BY <1>2, <1>3, <1>5, <1>6, <1>8, <1>9, <1>10, TaskChanges DEF LifecycleInv

LEMMA FutureSettlesStep ==
  ASSUME LifecycleAssumption, LifecycleInv, NEW s \in Service, FutureSettles(s)
  PROVE  LifecycleInv'
<1>1. /\ task[s] # None /\ task[s].ended # "no" /\ ~task[s].joined /\ task[s].state # "exited"
      /\ task[s] \in Task /\ task[s].noticed = 0
      /\ UNCHANGED <<plan, next, phase, started, handles, waiting, failures, health, failure>>
      /\ health \in {"starting", "ready", "draining", "failed"} /\ failure \in BOOLEAN
      /\ marking \in {"no", "write", "store"} /\ task \in [Service -> Task \cup {None}]
      /\ None \notin Task
  BY DEF FutureSettles, LifecycleInv, LifecycleTypes, Supervised, LifecycleAssumption
<1>2. CASE IsExit(s)
  <2> DEFINE joined == s # Watched \/ health = "draining"
             t == [task[s] EXCEPT !.state = "exited", !.noticed = 1, !.joined = joined]
  <2>1. /\ task' = [task EXCEPT ![s].state = "exited", ![s].noticed = @ + 1,
                                ![s].joined = s # Watched \/ health = "draining"]
        /\ marking' = IF s = Watched /\ health # "draining" THEN "write" ELSE marking
    BY <1>2 DEF FutureSettles
  <2>2. task' = [task EXCEPT ![s] = [task[s] EXCEPT !.state = "exited",
                                                    !.noticed = task[s].noticed + 1,
                                                    !.joined = joined]]
    BY <1>1, <2>1
  <2>3. task' = [task EXCEPT ![s] = t] /\ joined \in BOOLEAN
    BY <1>1, <2>2
  <2> HIDE DEF joined
  <2>a. /\ t.told = task[s].told /\ t.ended = task[s].ended /\ t.state = "exited"
        /\ t.noticed = 1 /\ t.early = task[s].early /\ t.joined = joined
    BY <1>1 DEF Task
  <2>c. t \in Task
    <3> DEFINE u == [task[s] EXCEPT !.state = "exited"]
               v == [u EXCEPT !.noticed = 1]
               w == [v EXCEPT !.joined = joined]
    <3>1. u \in Task
      BY <1>1 DEF Task
    <3>2. t = w
      BY <1>1 DEF Task
    <3> HIDE DEF u, t
    <3>3. v \in Task
      <4>1. 1 \in 0 .. 2
        OBVIOUS
      <4> DEFINE N == 0 .. 2
      <4> HIDE DEF N
      <4>2. Task = [ended : {"no", "ok", "failed"}, early : BOOLEAN,
                    state : {"running", "shutting down", "exited"},
                    joined : BOOLEAN, told : BOOLEAN, noticed : N]
        BY DEF Task, N
      <4>3. 1 \in N
        BY <4>1 DEF N
      <4> QED BY <3>1, <4>2, <4>3
    <3> HIDE DEF v
    <3>4. w \in Task
      BY <2>3, <3>3 DEF Task
    <3> QED BY <3>2, <3>4
  <2>4. /\ t \in Task /\ t.told = task[s].told /\ t.ended = task[s].ended /\ t.state = "exited"
        /\ t.noticed = 1 /\ t.early = task[s].early
    BY <2>a, <2>c
  <2> HIDE DEF t
  <2>5. /\ task'[s] = t /\ t # None /\ \A r \in Service \ {s} : task'[r] = task[r]
    BY <1>1, <2>3, <2>4
  <2>6. task[s].early
    BY <1>1, <1>2 DEF LifecycleInv, Supervised, IsExit
  <2>7. Supervised'
    BY <1>1, <2>4, <2>5, <2>6, ZenonT(40) DEF LifecycleInv, Supervised
  <2>8. HealthKnows'
    BY <1>1, <2>1, <2>4, <2>5 DEF LifecycleInv, HealthKnows, LifecycleAssumption
  <2>9. marking' \in {"no", "write", "store"}
    BY <1>1, <2>1
  <2> QED BY <1>1, <2>3, <2>4, <2>7, <2>8, <2>9, TaskChanges DEF LifecycleInv
<1>3. CASE ~IsExit(s)
  <2> DEFINE t == [task[s] EXCEPT !.joined = TRUE]
  <2>1. task' = [task EXCEPT ![s] = t] /\ UNCHANGED marking
    BY <1>1, <1>3 DEF FutureSettles
  <2>2. /\ t \in Task /\ t.told = task[s].told /\ t.ended = task[s].ended
        /\ t.state = task[s].state /\ t.noticed = task[s].noticed /\ t.early = task[s].early
    BY <1>1 DEF Task
  <2> HIDE DEF t
  <2>3. /\ task'[s] = t /\ t # None /\ \A r \in Service \ {s} : task'[r] = task[r]
    BY <1>1, <2>1, <2>2
  <2>4. Supervised'
    BY <1>1, <1>3, <2>2, <2>3 DEF LifecycleInv, Supervised, IsExit
  <2>5. HealthKnows'
    BY <1>1, <2>1, <2>2, <2>3 DEF LifecycleInv, HealthKnows, LifecycleAssumption
  <2> QED BY <1>1, <2>1, <2>2, <2>4, <2>5, TaskChanges DEF LifecycleInv
<1> QED BY <1>2, <1>3

\* Nothing but the phase and the health changes.
LEMMA PhaseChanges ==
  ASSUME LifecycleAssumption, LifecycleInv, HealthKnows',
         UNCHANGED <<plan, next, started, handles, waiting, task, failures, failure, marking>>,
         phase \in {"starting", "serving", "draining"},
         phase' \in {"serving", "draining", "stopping", "rolling back"},
         health' \in {"starting", "ready", "draining", "failed"}
  PROVE  LifecycleInv'
<1>1. /\ \A r : Told(r)' <=> Told(r)
      /\ \A r : Handled(r)' <=> Handled(r)
      /\ \A r : Overran(r)' <=> Overran(r)
  BY DEF Told, Handled, Overran
<1>2. LifecycleTypes'
  BY DEF LifecycleInv, LifecycleTypes
<1>3. StartedInOrder'
  BY StartedStays
<1>4. HandlesInOrder' /\ ToldInReverse' /\ WaitedFor'
  <2>1. HandlesInOrder'
    BY HandlesStay
  <2>2. ToldInReverse'
    BY <1>1 DEF LifecycleInv, ToldInReverse
  <2>3. WaitedFor'
    BY <1>1 DEF LifecycleInv, WaitedFor
  <2> QED BY <2>1, <2>2, <2>3
<1>5. PhaseBound'
  BY <1>1 DEF LifecycleInv, PhaseBound
<1>6. Supervised'
  BY DEF LifecycleInv, Supervised
<1> QED BY <1>2, <1>3, <1>4, <1>5, <1>6 DEF LifecycleInv

LEMMA PhaseStep ==
  ASSUME LifecycleAssumption, LifecycleInv,
         StartFails \/ AllStarted \/ SignalArrives \/ ServerEnds
  PROVE  LifecycleInv'
<1>1. /\ UNCHANGED <<plan, next, started, handles, waiting, task, failures, failure, marking>>
      /\ phase \in {"starting", "serving", "draining"}
      /\ phase' \in {"serving", "draining", "stopping", "rolling back"}
      /\ health' \in {"starting", "ready", "draining", "failed"}
  BY DEF StartFails, AllStarted, SignalArrives, ServerEnds, LifecycleInv,
    LifecycleTypes
<1>2. HealthKnows'
  BY <1>1 DEF StartFails, AllStarted, SignalArrives, ServerEnds, LifecycleInv,
    HealthKnows
<1> QED BY <1>1, <1>2, PhaseChanges

LEMMA MarkStep ==
  ASSUME LifecycleAssumption, LifecycleInv, WriteFailure \/ StoreFailed
  PROVE  LifecycleInv'
<1>1. CASE WriteFailure
  <2>1. /\ failure' = TRUE /\ marking = "write" /\ marking' = "store"
        /\ UNCHANGED <<plan, next, phase, started, handles, waiting, task, failures, health>>
    BY <1>1 DEF WriteFailure
  <2>2. /\ \A r : Told(r)' <=> Told(r)
        /\ \A r : Handled(r)' <=> Handled(r)
        /\ \A r : Overran(r)' <=> Overran(r)
    BY <2>1 DEF Told, Handled, Overran
  <2>3. LifecycleTypes'
    BY <2>1 DEF LifecycleInv, LifecycleTypes
  <2>4. StartedInOrder'
    BY <2>1, StartedStays
  <2>5. /\ HandlesInOrder'
        /\ ToldInReverse'
        /\ WaitedFor'
        /\ PhaseBound'
    <3>1. HandlesInOrder'
      <4>1. started' = started /\ handles' = handles /\ task' = task
        BY <2>1
      <4>2. HandlesInOrder
        BY DEF LifecycleInv
      <4>3. \A r \in Service : task'[r] # None => (Handled(r)' <=> ~task'[r].told)
        BY <2>2, <4>1, <4>2 DEF HandlesInOrder
      <4>4. \A k, l \in 1 .. Len(handles'), i, j \in 1 .. Len(started') :
              started'[i] = handles'[k] /\ started'[j] = handles'[l] /\ k < l => i < j
        BY <4>1, <4>2 DEF HandlesInOrder
      <4>5. /\ \A k \in 1 .. Len(handles') : \E i \in 1 .. Len(started') : started'[i] = handles'[k]
            /\ \A k \in 1 .. Len(handles') : task'[handles'[k]] # None
        BY <4>1, <4>2 DEF HandlesInOrder
      <4> QED BY <4>3, <4>4, <4>5 DEF HandlesInOrder
    <3>2. ToldInReverse' /\ PhaseBound'
      BY <2>1, <2>2 DEF LifecycleInv, ToldInReverse, PhaseBound
    <3>3. WaitedFor'
      BY <2>1, <2>2 DEF LifecycleInv, WaitedFor
    <3> QED BY <3>1, <3>2, <3>3
  <2>6. Supervised' /\ HealthKnows'
    BY <2>1 DEF LifecycleInv, Supervised, HealthKnows
  <2> QED BY <2>3, <2>4, <2>5, <2>6 DEF LifecycleInv
<1>2. CASE StoreFailed
  <2> DEFINE t == [task[Watched] EXCEPT !.joined = TRUE]
  <2>1. /\ marking = "store" /\ marking' = "no" /\ health' = "failed"
        /\ task' = [task EXCEPT ![Watched] = t] /\ Watched \in Service
        /\ UNCHANGED <<plan, next, phase, started, handles, waiting, failures, failure>>
        /\ task \in [Service -> Task \cup {None}] /\ None \notin Task
    BY <1>2 DEF StoreFailed, LifecycleAssumption, LifecycleInv, LifecycleTypes
  <2>2. /\ task[Watched] # None /\ task[Watched] \in Task /\ task[Watched].state = "exited"
        /\ task[Watched].ended # "no" /\ failure
    BY <2>1 DEF LifecycleInv, HealthKnows, Supervised
  <2>3. /\ t \in Task /\ t.told = task[Watched].told /\ t.ended = task[Watched].ended
        /\ t.state = "exited" /\ t.noticed = task[Watched].noticed
        /\ t.early = task[Watched].early /\ t.joined
    BY <2>2 DEF Task
  <2> HIDE DEF t
  <2>4. task'[Watched] = t /\ \A r \in Service \ {Watched} : task'[r] = task[r]
    BY <2>1
  <2>5. Supervised'
    BY <2>2, <2>3, <2>4 DEF LifecycleInv, Supervised
  <2>6. HealthKnows'
    BY <2>1, <2>2 DEF LifecycleInv, HealthKnows
  <2>7. failure' \in BOOLEAN
    BY <2>1 DEF LifecycleInv, LifecycleTypes
  <2> QED BY <2>1, <2>2, <2>3, <2>5, <2>6, <2>7, TaskChanges DEF LifecycleInv
<1> QED BY <1>1, <1>2

LEMMA StoppedStep ==
  ASSUME LifecycleAssumption, LifecycleInv, AllStopped
  PROVE  LifecycleInv'
<1>1. /\ phase \in {"stopping", "rolling back"} /\ waiting = None /\ handles = <<>>
      /\ phase' = "done" /\ started' = <<>>
      /\ UNCHANGED <<plan, next, handles, waiting, task, failures, health, failure, marking>>
  BY DEF AllStopped
<1>2. <<>> \in Seq(Module) /\ Len(<<>>) = 0
  BY EmptySeq
<1>3. /\ \A r : Told(r)' <=> Told(r)
      /\ \A r : Handled(r)' <=> Handled(r)
      /\ \A r : Overran(r)' <=> Overran(r)
  BY <1>1 DEF Told, Handled, Overran
<1>4. LifecycleTypes'
  BY <1>1, <1>2 DEF LifecycleInv, LifecycleTypes
<1>5. StartedInOrder' /\ ToldInReverse'
  <2>1. Len(started') = 0
    BY <1>1, <1>2
  <2> QED BY <2>1 DEF StartedInOrder, ToldInReverse
<1>6. HandlesInOrder'
  <2>1. Len(handles') = 0 /\ Len(started') = 0
    BY <1>1, <1>2
  <2>2. \A s \in Service : task'[s] # None => (Handled(s)' <=> ~task'[s].told)
    BY <1>1, <1>3 DEF LifecycleInv, HandlesInOrder
  <2> QED BY <2>1, <2>2 DEF HandlesInOrder
<1>7. WaitedFor' /\ PhaseBound'
  BY <1>1, <1>3 DEF LifecycleInv, WaitedFor, PhaseBound
<1>8. Supervised' /\ HealthKnows'
  BY <1>1 DEF LifecycleInv, Supervised, HealthKnows
<1> QED BY <1>4, <1>5, <1>6, <1>7, <1>8 DEF LifecycleInv

LEMMA ReturnStep ==
  ASSUME LifecycleAssumption, LifecycleInv, ShutdownReturns \/ ShutdownTimesOut
  PROVE  LifecycleInv'
<1>1. /\ waiting \in Service /\ waiting' = None /\ waiting # None
      /\ UNCHANGED <<plan, next, phase, started, handles, task, health, failure, marking>>
  BY DEF ShutdownReturns, ShutdownTimesOut, MayTimeOut, LifecycleInv, LifecycleTypes
<1>2. /\ failures \subseteq failures' /\ failures' \subseteq Service \X {"error", "timeout"}
      /\ \/ /\ task[waiting].joined
            /\ task[waiting].ended = "failed" => <<waiting, "error">> \in failures'
         \/ <<waiting, "timeout">> \in failures'
  <2>1. failures \subseteq Service \X {"error", "timeout"}
    BY DEF LifecycleInv, LifecycleTypes
  <2>2. CASE ShutdownReturns
    BY <1>1, <2>1, <2>2 DEF ShutdownReturns
  <2>3. CASE ShutdownTimesOut
    BY <1>1, <2>1, <2>3 DEF ShutdownTimesOut
  <2> QED BY <2>2, <2>3
<1>3. /\ \A r : Told(r)' <=> Told(r)
      /\ \A r : Handled(r)' <=> Handled(r)
      /\ \A r : Overran(r) => Overran(r)'
  BY <1>1, <1>2 DEF Told, Handled, Overran
<1>4. LifecycleTypes'
  BY <1>1, <1>2 DEF LifecycleInv, LifecycleTypes
<1>5. StartedInOrder'
  BY <1>1, StartedStays
<1>6. HandlesInOrder'
  BY <1>1, HandlesStay
<1>7. ToldInReverse'
  <2> SUFFICES ASSUME NEW i \in 1 .. Len(started), NEW j \in 1 .. Len(started), Told(started[i])
               PROVE  /\ Handled(started[j]) => j < i
                      /\ started[j] # None
    BY <1>1, <1>3 DEF ToldInReverse
  <2>1. started[j] \in Module /\ None \notin Module
    BY LifecycleSequences DEF LifecycleInv, LifecycleAssumption
  <2> QED BY <2>1 DEF LifecycleInv, ToldInReverse
<1>8. WaitedFor'
  <2> SUFFICES ASSUME NEW r \in Service, Told(r)
               PROVE  \/ /\ task[r].joined
                         /\ task[r].ended = "failed" => <<r, "error">> \in failures'
                      \/ Overran(r)'
    BY <1>1, <1>3 DEF WaitedFor
  <2>1. CASE r = waiting
    BY <1>2, <2>1 DEF Overran
  <2>2. CASE r # waiting
    BY <1>2, <1>3, <2>2 DEF LifecycleInv, WaitedFor
  <2> QED BY <2>1, <2>2
<1>9. PhaseBound'
  BY <1>1, <1>3 DEF LifecycleInv, PhaseBound
<1>10. Supervised' /\ HealthKnows'
  BY <1>1 DEF LifecycleInv, Supervised, HealthKnows
<1> QED BY <1>4, <1>5, <1>6, <1>7, <1>8, <1>9, <1>10 DEF LifecycleInv

\* The last handle is popped.
LEMMA PopHandle ==
  ASSUME NEW S, NEW h \in Seq(S), h # <<>>
  PROVE  /\ Len(h) \in Nat \ {0} /\ Without(h, Len(h)) \in Seq(S)
         /\ Len(Without(h, Len(h))) = Len(h) - 1
         /\ \A k \in 1 .. Len(h) - 1 : Without(h, Len(h))[k] = h[k]
<1> DEFINE n == Len(h) - 1
           w == Without(h, Len(h))
<1>1. Len(h) \in Nat \ {0} /\ \A k \in 1 .. Len(h) : h[k] \in S
  BY EmptySeq, ElementOfSeq
<1>2. w = [k \in 1 .. n |-> h[k]]
  BY <1>1 DEF Without
<1>3. w \in [1 .. n -> S] /\ n \in Nat
  BY <1>1, <1>2
<1> HIDE DEF n, w
<1>4. w \in Seq(S)
  BY <1>3, SeqDef
<1>5. DOMAIN w = 1 .. n /\ DOMAIN w = 1 .. Len(w) /\ Len(w) \in Nat
  BY <1>3, <1>4, LenProperties
<1>6. Len(w) = n
  BY <1>3, <1>5
<1> QED BY <1>1, <1>2, <1>4, <1>6 DEF n, w

LEMMA AskStep ==
  ASSUME LifecycleAssumption, LifecycleInv, AskToStop
  PROVE  LifecycleInv'
<1> DEFINE n == Len(handles)
           h == handles[n]
<1>1. /\ phase \in {"stopping", "rolling back"} /\ waiting = None /\ handles # <<>>
      /\ waiting' = h /\ handles' = Without(handles, n)
      /\ task' = [task EXCEPT ![h].told = TRUE,
                              ![h].state = IF @ = "running" THEN "shutting down" ELSE @]
      /\ UNCHANGED <<plan, next, phase, started, failures, health, failure, marking>>
  BY DEF AskToStop, Popped
<1>2. /\ n \in Nat \ {0} /\ handles' \in Seq(Service) /\ Len(handles') = n - 1
      /\ \A k \in 1 .. n - 1 : handles'[k] = handles[k]
  BY <1>1, PopHandle DEF LifecycleInv, LifecycleTypes
<1>3. /\ \A k \in 1 .. n : handles[k] \in Service
      /\ \A i \in 1 .. Len(started) : started[i] \in Module
      /\ Len(started) \in Nat
  BY LifecycleSequences DEF LifecycleInv
<1>4. h \in Service /\ h # None
  BY <1>2, <1>3 DEF LifecycleAssumption
<1> HIDE DEF h, n
<1>5. /\ task[h] # None /\ task[h] \in Task /\ ~task[h].told
  <2>1. Handled(h)
    BY <1>2 DEF Handled, h, n
  <2>2. task[h] # None
    BY <1>2 DEF LifecycleInv, HandlesInOrder, h, n
  <2> QED BY <1>4, <2>1, <2>2 DEF LifecycleInv, LifecycleTypes, HandlesInOrder
<1> DEFINE now == IF task[h].state = "running" THEN "shutting down" ELSE task[h].state
           t == [task[h] EXCEPT !.told = TRUE, !.state = now]
<1>6. task' = [task EXCEPT ![h] = t]
  BY <1>1, <1>4 DEF LifecycleInv, LifecycleTypes
<1>7. now \in {"running", "shutting down", "exited"}
  BY <1>5 DEF Task
<1> HIDE DEF now
<1>8. /\ t \in Task /\ t.told /\ t.state = now /\ t.ended = task[h].ended
      /\ t.joined = task[h].joined /\ t.early = task[h].early /\ t.noticed = task[h].noticed
  BY <1>5, <1>7 DEF Task
<1> HIDE DEF t
<1>9. /\ task'[h] = t /\ t # None /\ \A r \in Service \ {h} : task'[r] = task[r]
  BY <1>4, <1>6, <1>8 DEF LifecycleInv, LifecycleTypes, LifecycleAssumption
<1>10. \A r : Told(r)' <=> Told(r) \/ r = h
  BY <1>4, <1>8, <1>9 DEF Told
<1>11. \A k, l \in 1 .. n : handles[k] = handles[l] => k = l
  <2> SUFFICES ASSUME NEW k \in 1 .. n, NEW l \in 1 .. n, handles[k] = handles[l], k < l
               PROVE  FALSE
    BY <1>2
  <2>1. PICK i \in 1 .. Len(started) : started[i] = handles[k]
    BY DEF LifecycleInv, HandlesInOrder, n
  <2> QED BY <2>1, <1>3 DEF LifecycleInv, HandlesInOrder, n
<1>12. \A r : Handled(r)' <=> Handled(r) /\ r # h
  <2> SUFFICES ASSUME NEW r PROVE (\E k \in 1 .. n - 1 : handles[k] = r)
                                  <=> (\E k \in 1 .. n : handles[k] = r) /\ r # h
    BY <1>2 DEF Handled, n
  <2>1. ASSUME NEW k \in 1 .. n - 1 PROVE handles[k] # h
    BY <1>2, <1>11, <2>1 DEF h
  <2>2. ASSUME NEW k \in 1 .. n, handles[k] # h PROVE k \in 1 .. n - 1
    BY <1>2, <2>2 DEF h
  <2> QED BY <1>2, <2>1, <2>2
<1>13. LifecycleTypes'
  BY <1>1, <1>2, <1>4, <1>6, <1>8 DEF LifecycleInv, LifecycleTypes
<1>14. StartedInOrder'
  BY <1>1, StartedStays
<1>15. HandlesInOrder'
  <2>1. \A k \in 1 .. n - 1 : k \in 1 .. n /\ handles[k] # h
    BY <1>2, <1>11 DEF h
  <2>2. \A k \in 1 .. n - 1 : \E i \in 1 .. Len(started) : started[i] = handles'[k]
    BY <1>2, <2>1 DEF LifecycleInv, HandlesInOrder, n
  <2>3. \A k, l \in 1 .. n - 1, i, j \in 1 .. Len(started) :
          started[i] = handles'[k] /\ started[j] = handles'[l] /\ k < l => i < j
    BY <1>2, <2>1 DEF LifecycleInv, HandlesInOrder, n
  <2>4. \A s \in Service : task'[s] # None => (Handled(s)' <=> ~task'[s].told)
    BY <1>8, <1>9, <1>12 DEF LifecycleInv, HandlesInOrder
  <2>5. \A k \in 1 .. n - 1 : task'[handles'[k]] # None
    BY <1>2, <1>3, <1>9, <2>1 DEF LifecycleInv, HandlesInOrder, n
  <2>6. started' = started /\ Len(handles') = n - 1
    BY <1>1, <1>2
  <2> QED BY <2>2, <2>3, <2>4, <2>5, <2>6 DEF HandlesInOrder
<1>16. ToldInReverse'
  <2> SUFFICES ASSUME NEW i \in 1 .. Len(started), NEW j \in 1 .. Len(started),
                      Told(started[i]) \/ started[i] = h
               PROVE  /\ Handled(started[j]) /\ started[j] # h => j < i
                      /\ started[j] = h => j <= i
    BY <1>1, <1>10, <1>12 DEF ToldInReverse
  <2>1. CASE Told(started[i])
    <3>1. Handled(started[j]) => j < i
      BY <2>1 DEF LifecycleInv, ToldInReverse
    <3>2. Handled(h)
      BY <1>2 DEF Handled, h, n
    <3> QED BY <3>1, <3>2
  <2>2. CASE started[i] = h
    <3>1. started[j] = h => j = i
      BY <2>2 DEF LifecycleInv, StartedInOrder
    <3>2. ASSUME Handled(started[j]), started[j] # h PROVE j < i
      <4>1. PICK k \in 1 .. n : handles[k] = started[j]
        BY <3>2 DEF Handled, n
      <4>2. k < n
        BY <1>2, <3>2, <4>1 DEF h
      <4>3. n \in 1 .. n /\ handles[n] = started[i]
        BY <1>2, <2>2 DEF h
      <4> QED BY <4>1, <4>2, <4>3 DEF LifecycleInv, HandlesInOrder, n
    <3> QED BY <3>1, <3>2
  <2> QED BY <2>1, <2>2
<1>17. WaitedFor'
  <2>1. task'[h] # None /\ task'[h].told
    BY <1>8, <1>9
  <2>2. ASSUME NEW r \in Service, Told(r), r # h
        PROVE  \/ task'[r].joined /\ (task'[r].ended = "failed" => <<r, "error">> \in failures)
               \/ Overran(r)
    <3>1. r # waiting
      BY <1>1, <2>2 DEF LifecycleAssumption
    <3> QED BY <1>9, <2>2, <3>1 DEF LifecycleInv, WaitedFor
  <2>3. \A r : Overran(r)' <=> Overran(r)
    BY <1>1 DEF Overran
  <2> QED BY <1>1, <1>10, <2>1, <2>2, <2>3 DEF WaitedFor
<1>18. PhaseBound'
  <2>1. \A s \in Service : task'[s] # None => task[s] # None
    BY <1>5, <1>9
  <2> QED BY <1>1, <2>1 DEF LifecycleInv, PhaseBound
<1>19. Supervised'
  BY <1>5, <1>8, <1>9, ZenonT(40) DEF LifecycleInv, Supervised, now
<1>20. HealthKnows'
  <2>1. Watched \in Service /\ (now = "exited" <=> task[h].state = "exited")
    BY DEF LifecycleAssumption, now
  <2>2. task'[Watched] # None <=> task[Watched] # None
    BY <1>5, <1>9, <2>1
  <2>3. task[Watched] # None =>
          (task'[Watched].state = "exited" <=> task[Watched].state = "exited")
    BY <1>8, <1>9, <2>1
  <2> QED BY <1>1, <2>2, <2>3 DEF LifecycleInv, HealthKnows
<1> QED BY <1>13, <1>14, <1>15, <1>16, <1>17, <1>18, <1>19, <1>20 DEF LifecycleInv

LEMMA ModuleStep ==
  ASSUME LifecycleAssumption, LifecycleInv, StartModule
  PROVE  LifecycleInv'
<1> DEFINE m == plan[next]
           n == Len(started)
           c == Len(handles)
<1>1. /\ phase = "starting" /\ next \in 1 .. Len(plan) /\ m \in Descriptor
      /\ ~Duplicate(m) /\ ~Missing(m)
      /\ started' = Append(started, m.name) /\ next' = next + 1
      /\ UNCHANGED <<plan, phase, waiting, failures, health, failure, marking>>
  <2>1. next \in 1 .. (Len(plan) + 1) /\ next <= Len(plan)
    BY DEF StartModule, LifecycleInv, LifecycleTypes
  <2>2. next \in 1 .. Len(plan)
    BY <2>1, LifecycleSequences DEF LifecycleInv
  <2> QED BY <2>2, LifecycleSequences DEF StartModule, LifecycleInv
<1>2. /\ n \in Nat /\ c \in Nat /\ Len(plan) \in Nat
      /\ \A i \in 1 .. n : started[i] \in Module
      /\ \A k \in 1 .. c : handles[k] \in Service
      /\ m.name \in Module /\ next \in DOMAIN plan
  BY <1>1, LifecycleSequences DEF LifecycleInv, Descriptor
<1>3. /\ started' \in Seq(Module) /\ Len(started') = n + 1 /\ started'[n + 1] = m.name
      /\ \A i \in 1 .. n : started'[i] = started[i]
  BY <1>1, <1>2, AppendProperties DEF LifecycleInv, LifecycleTypes
<1>4. \A i \in 1 .. n : started[i] # m.name
  BY <1>1 DEF Duplicate, Elements, Prefix
<1>5. \/ UNCHANGED <<handles, task>>
      \/ /\ m.name \in Service /\ handles' = Append(handles, m.name)
         /\ task' = [task EXCEPT ![m.name] = Spawned]
  BY DEF StartModule
<1>6. waiting = None /\ \A s \in Service : ~Told(s)
  BY <1>1 DEF LifecycleInv, PhaseBound
<1>7. /\ Spawned \in Task /\ ~Spawned.told /\ Spawned.ended = "no"
      /\ ~Spawned.joined
      /\ Spawned.state = "running" /\ Spawned.noticed = 0 /\ Spawned # None
  <2>1. Spawned \in Task
    BY DEF Spawned, Task
  <2>2. Spawned # None
    BY <2>1 DEF LifecycleAssumption
  <2> QED BY <2>1, <2>2 DEF Spawned
<1>8. task \in [Service -> Task \cup {None}]
  BY DEF LifecycleInv, LifecycleTypes
<1> HIDE DEF m, n, c
<1>9. StartedInOrder'
  <2>1. ASSUME NEW i \in 1 .. n + 1, NEW j \in 1 .. n + 1, started'[i] = started'[j]
        PROVE  i = j
    <3>1. CASE i \in 1 .. n /\ j \in 1 .. n
      BY <1>3, <2>1, <3>1 DEF LifecycleInv, StartedInOrder, n
    <3> QED BY <1>2, <1>3, <1>4, <2>1, <3>1
  <2>2. ASSUME NEW i \in 1 .. n + 1
        PROVE  \E k \in DOMAIN plan : /\ plan[k].name = started'[i]
                                      /\ plan[k].dependencies \subseteq Prefix(started', i - 1)
    <3>1. \A k \in 1 .. i - 1 : started'[k] = started[k]
      BY <1>2, <1>3
    <3>2. Prefix(started', i - 1) = Prefix(started, i - 1)
      BY <3>1 DEF Prefix
    <3>3. CASE i = n + 1
      <4>1. m.dependencies \subseteq Prefix(started, n)
        BY <1>1 DEF Missing, Elements, n
      <4> QED BY <1>2, <1>3, <3>2, <3>3, <4>1 DEF m
    <3>4. CASE i \in 1 .. n
      BY <1>3, <3>2, <3>4 DEF LifecycleInv, StartedInOrder, n
    <3> QED BY <1>2, <3>3, <3>4
  <2> QED BY <1>1, <1>3, <2>1, <2>2 DEF StartedInOrder
<1>10. CASE UNCHANGED <<handles, task>>
  <2>1. /\ \A r : Told(r)' <=> Told(r)
        /\ \A r : Handled(r)' <=> Handled(r)
        /\ \A r : Overran(r)' <=> Overran(r)
    BY <1>1, <1>10 DEF Told, Handled, Overran
  <2>2. LifecycleTypes'
    BY <1>1, <1>2, <1>3, <1>10 DEF LifecycleInv, LifecycleTypes
  <2>3. HandlesInOrder'
    <3>1. \A i \in 1 .. n : i \in 1 .. n + 1
      BY <1>2
    <3>2. \A k \in 1 .. c : \E i \in 1 .. n + 1 : started'[i] = handles[k]
      BY <1>3, <3>1 DEF LifecycleInv, HandlesInOrder, c, n
    <3>3. ASSUME NEW k \in 1 .. c, NEW l \in 1 .. c, NEW i \in 1 .. n + 1, NEW j \in 1 .. n + 1,
                 started'[i] = handles[k], started'[j] = handles[l], k < l
          PROVE  i < j
      <4>1. handles[k] # m.name /\ handles[l] # m.name
        BY <1>4 DEF LifecycleInv, HandlesInOrder, c, n
      <4>2. i \in 1 .. n /\ j \in 1 .. n
        BY <1>2, <1>3, <3>3, <4>1
      <4>3. started[i] = handles[k] /\ started[j] = handles[l] /\ k < l
        BY <1>3, <3>3, <4>2
      <4> QED BY <4>2, <4>3 DEF LifecycleInv, HandlesInOrder, c, n
    <3>4. \A s \in Service : task'[s] # None => (Handled(s)' <=> ~task'[s].told)
      BY <1>10, <2>1 DEF LifecycleInv, HandlesInOrder
    <3>5. \A k \in 1 .. c : task'[handles[k]] # None
      BY <1>10 DEF LifecycleInv, HandlesInOrder, c
    <3>6. handles' = handles /\ Len(handles') = c /\ Len(started') = n + 1
      BY <1>3, <1>10 DEF c
    <3>7. /\ \A k \in 1 .. Len(handles') : \E i \in 1 .. Len(started') : started'[i] = handles'[k]
          /\ \A k \in 1 .. Len(handles') : task'[handles'[k]] # None
      BY <3>2, <3>5, <3>6
    <3>8. \A k, l \in 1 .. Len(handles'), i, j \in 1 .. Len(started') :
            started'[i] = handles'[k] /\ started'[j] = handles'[l] /\ k < l => i < j
      BY <3>3, <3>6
    <3> QED BY <3>4, <3>7, <3>8 DEF HandlesInOrder
  <2>4. ToldInReverse'
    BY <1>6, <2>1 DEF ToldInReverse, Told
  <2>5. WaitedFor'
    BY <1>1, <1>6, <1>10, <2>1 DEF WaitedFor
  <2>6. PhaseBound'
    <3>1. ASSUME NEW s \in Service, task[s] # None
          PROVE  \E i \in 1 .. n + 1 : started'[i] = s
      BY <1>1, <1>2, <1>3, <3>1 DEF LifecycleInv, PhaseBound, n
    <3> QED BY <1>1, <1>3, <1>6, <1>10, <2>1, <3>1 DEF PhaseBound
  <2>7. Supervised' /\ HealthKnows'
    BY <1>1, <1>10 DEF LifecycleInv, Supervised, HealthKnows
  <2> QED BY <1>9, <2>2, <2>3, <2>4, <2>5, <2>6, <2>7 DEF LifecycleInv
<1>11. CASE /\ m.name \in Service /\ handles' = Append(handles, m.name)
            /\ task' = [task EXCEPT ![m.name] = Spawned]
  <2>1. /\ handles' \in Seq(Service) /\ Len(handles') = c + 1 /\ handles'[c + 1] = m.name
        /\ \A k \in 1 .. c : handles'[k] = handles[k]
    <3>1. m.name \in Service /\ handles \in Seq(Service) /\ handles' = Append(handles, m.name)
      BY <1>11 DEF LifecycleInv, LifecycleTypes
    <3> QED BY <3>1, AppendProperties DEF c
  <2>2. /\ task'[m.name] = Spawned /\ \A s \in Service \ {m.name} : task'[s] = task[s]
    BY <1>8, <1>11
  <2>3. task[m.name] = None
    BY <1>1, <1>4, <1>11 DEF LifecycleInv, PhaseBound, n
  <2>4. /\ \A r : Told(r)' <=> Told(r)
        /\ \A r : Overran(r)' <=> Overran(r)
    BY <1>1, <1>7, <1>11, <2>2, <2>3 DEF Told, Overran
  <2>5. \A r : Handled(r)' <=> Handled(r) \/ r = m.name
    <3>1. \A k \in 1 .. c + 1 : k \in 1 .. c \/ k = c + 1
      BY <1>2
    <3>2. c + 1 \in 1 .. c + 1 /\ \A k \in 1 .. c : k \in 1 .. c + 1
      BY <1>2
    <3> QED BY <2>1, <3>1, <3>2 DEF Handled, c
  <2>6. LifecycleTypes'
    BY <1>1, <1>2, <1>3, <1>7, <1>11, <2>1 DEF LifecycleInv, LifecycleTypes
  <2>7. HandlesInOrder'
    <3>0. /\ \A i \in 1 .. n : i \in 1 .. n + 1
          /\ \A k \in 1 .. c + 1 : k \in 1 .. c \/ k = c + 1
          /\ n + 1 \in 1 .. n + 1
      BY <1>2
    <3>1. \A k \in 1 .. c : handles[k] # m.name
      BY <1>4 DEF LifecycleInv, HandlesInOrder, c, n
    <3>2. \A k \in 1 .. c + 1 : \E i \in 1 .. n + 1 : started'[i] = handles'[k]
      <4>1. \A k \in 1 .. c : \E i \in 1 .. n : started[i] = handles[k]
        BY DEF LifecycleInv, HandlesInOrder, c, n
      <4> QED BY <1>3, <2>1, <3>0, <4>1
    <3>3. ASSUME NEW k \in 1 .. c + 1, NEW l \in 1 .. c + 1,
                 NEW i \in 1 .. n + 1, NEW j \in 1 .. n + 1,
                 started'[i] = handles'[k], started'[j] = handles'[l], k < l
          PROVE  i < j
      <4>1. k \in 1 .. c /\ i \in 1 .. n
        BY <1>2, <1>3, <2>1, <3>1, <3>3
      <4>2. CASE l = c + 1
        BY <1>2, <1>3, <1>4, <2>1, <3>3, <4>1, <4>2
      <4>3. CASE l \in 1 .. c
        <5>1. j \in 1 .. n
          BY <1>2, <1>3, <2>1, <3>1, <3>3, <4>3
        <5> QED BY <1>3, <2>1, <3>3, <4>1, <4>3, <5>1 DEF LifecycleInv, HandlesInOrder, c, n
      <4> QED BY <3>0, <4>2, <4>3
    <3>4. \A s \in Service : task'[s] # None => (Handled(s)' <=> ~task'[s].told)
      BY <1>7, <2>2, <2>5 DEF LifecycleInv, HandlesInOrder
    <3>5. \A k \in 1 .. c + 1 : task'[handles'[k]] # None
      BY <1>2, <1>7, <2>1, <2>2, <3>0, <3>1 DEF LifecycleInv, HandlesInOrder, c
    <3> QED BY <1>3, <2>1, <3>2, <3>3, <3>4, <3>5, ZenonT(40) DEF HandlesInOrder
  <2>8. ToldInReverse'
    BY <1>6, <2>4 DEF ToldInReverse, Told
  <2>9. WaitedFor'
    BY <1>1, <1>6, <2>4 DEF WaitedFor
  <2>10. PhaseBound'
    <3>1. ASSUME NEW s \in Service, task'[s] # None
          PROVE  \E i \in 1 .. n + 1 : started'[i] = s
      <4>1. CASE s = m.name
        BY <1>2, <1>3, <4>1
      <4>2. CASE s # m.name
        BY <1>1, <1>2, <1>3, <2>2, <3>1, <4>2 DEF LifecycleInv, PhaseBound, n
      <4> QED BY <4>1, <4>2
    <3> QED BY <1>1, <1>3, <1>6, <2>4, <3>1 DEF PhaseBound
  <2>11. Supervised'
    BY <1>7, <2>2 DEF LifecycleInv, Supervised
  <2>12. HealthKnows'
    BY <1>1, <1>7, <2>2, <2>3 DEF LifecycleInv, HealthKnows, LifecycleAssumption
  <2> QED BY <1>9, <2>6, <2>7, <2>8, <2>9, <2>10, <2>11, <2>12 DEF LifecycleInv
<1> QED BY <1>5, <1>10, <1>11

LEMMA LifecycleInvNext ==
  ASSUME LifecycleAssumption, LifecycleInv, [LifecycleNext]_(lifecycleVars)
  PROVE  LifecycleInv'
<1>1. CASE UNCHANGED lifecycleVars
  <2> USE <1>1 DEF lifecycleVars
  <2>1. /\ \A r : Told(r)' <=> Told(r)
        /\ \A r : Handled(r)' <=> Handled(r)
        /\ \A r : Overran(r)' <=> Overran(r)
    BY DEF Told, Handled, Overran
  <2>2. LifecycleTypes' /\ StartedInOrder'
    BY StartedStays DEF LifecycleInv, LifecycleTypes
  <2>3. HandlesInOrder'
    BY HandlesStay
  <2>4. ToldInReverse' /\ WaitedFor'
    BY <2>1 DEF LifecycleInv, ToldInReverse, WaitedFor
  <2>5. PhaseBound' /\ Supervised' /\ HealthKnows'
    BY <2>1 DEF LifecycleInv, PhaseBound, Supervised, HealthKnows
  <2> QED BY <2>2, <2>3, <2>4, <2>5 DEF LifecycleInv
<1>2. CASE LifecycleNext
  BY <1>2, ModuleStep, PhaseStep, AskStep, ReturnStep, StoppedStep, EndStep,
     FutureSettlesStep, MarkStep
  DEF LifecycleNext, LifecycleMoves, Supervises
<1> QED BY <1>1, <1>2

\* Of every process, whatever its plan, its services and their ends
\* (ModulePlan::start, ServiceHandles::shutdown_reverse, SupervisedTaskHandle).
THEOREM LifecycleInvariant ==
  ASSUME LifecycleAssumption
  PROVE  LifecycleSpec => []LifecycleInv
<1>1. LifecycleInit => LifecycleInv
  BY LifecycleInvInit
<1>2. LifecycleInv /\ [LifecycleNext]_(lifecycleVars) => LifecycleInv'
  BY LifecycleInvNext
<1> QED BY <1>1, <1>2, PTL DEF LifecycleSpec

LEMMA NotAfter ==
  ASSUME NEW n \in Nat, NEW i \in 1 .. n, NEW j \in 1 .. n, i < j
  PROVE  ~(j < i) /\ ~(j <= i)
OBVIOUS

\* A service is told to stop only when those started after it are gone, none is
\* left when the process is done, and no exit goes unheard.
THEOREM StopsInOrderAlways ==
  ASSUME LifecycleAssumption
  PROVE  LifecycleSpec => []ServicesStopInOrder
<1>1. LifecycleInv => ServicesStopInReverse
  <2> SUFFICES ASSUME LifecycleInv PROVE ServicesStopInReverse
    OBVIOUS
  <2>0. Len(started) \in Nat
    BY LifecycleSequences DEF LifecycleInv
  <2> USE DEF LifecycleInv, LifecycleTypes
  <2>1. DOMAIN started = 1 .. Len(started)
    BY LifecycleSequences
  <2>2. ASSUME NEW i \in 1 .. Len(started), NEW j \in 1 .. Len(started), i < j,
               started[i] \in Service, started[j] \in Service, Told(started[i])
        PROVE  Gone(started[j])
    <3>2. ~(j < i) /\ ~(j <= i)
      BY ONLY <2>0, <2>2, NotAfter
    <3>3. ~Handled(started[j]) /\ waiting # started[j]
      BY <2>2, <3>2 DEF ToldInReverse
    <3>4. CASE task[started[j]] = None
      BY <3>4 DEF Gone
    <3>5. CASE task[started[j]] # None
      BY <2>2, <3>3, <3>5 DEF HandlesInOrder, WaitedFor, Told, Gone
    <3> QED BY <3>4, <3>5
  <2>3. ASSUME phase = "done", NEW s \in Service PROVE Gone(s)
    <3>1. waiting # s /\ ~Handled(s)
      BY <2>3, EmptySeq DEF PhaseBound, Handled, LifecycleAssumption
    <3> QED BY <2>3, <3>1 DEF HandlesInOrder, WaitedFor, Told, Gone
  <2>4. \A i, j \in DOMAIN started :
          i < j /\ {started[i], started[j]} \subseteq Service /\ task[started[i]] # None
            /\ task[started[i]].told => Gone(started[j])
    BY <2>1, <2>2 DEF Told
  <2>5. \A i \in DOMAIN started :
          \E k \in DOMAIN plan : /\ plan[k].name = started[i]
                                 /\ plan[k].dependencies \subseteq Prefix(started, i - 1)
    BY <2>1 DEF StartedInOrder
  <2> QED BY <2>3, <2>4, <2>5 DEF ServicesStopInReverse
<1>2. LifecycleInv => ExitsAreHeardOf
  <2> SUFFICES ASSUME LifecycleInv PROVE ExitsAreHeardOf
    OBVIOUS
  <2>1. \A s \in Service : task[s] # None =>
          /\ task[s].noticed = IF task[s].state = "exited" THEN 1 ELSE 0
          /\ task[s].noticed = 1 => task[s].early
    BY DEF LifecycleInv, Supervised
  <2>2. ASSUME NEW s \in Service, task[s] # None, phase = "done", task[s].ended = "failed",
               ~Overran(s)
        PROVE  <<s, "error">> \in failures
    <3>1. ~Handled(s) /\ s # waiting
      BY <2>2 DEF LifecycleInv, LifecycleAssumption, LifecycleTypes, PhaseBound, Handled
    <3> QED BY <2>2, <3>1 DEF LifecycleInv, HandlesInOrder, WaitedFor, Told
  <2>3. IsReady => /\ phase = "serving"
                   /\ task[Watched] # None /\ task[Watched].state = "exited" => marking = "write"
    BY DEF LifecycleInv, HealthKnows, IsReady
  <2> QED BY <2>1, <2>2, <2>3 DEF ExitsAreHeardOf
<1> QED BY <1>1, <1>2, LifecycleInvariant, PTL DEF ServicesStopInOrder
-----------------------------------------------------------------------------
(* Schedules: what a claim leaves behind keeps the next one away. *)

\* Keys of jobs are of the past.
KeysArePast == \A k \in jobs : k[2] <= clock \div PerSecond

\* Since a schedule was claimed under its definition, its next run has been a
\* period away, and with a key that no job of it has.
KeysAreBefore(n) == \A k \in jobs : k[1] = n => k[2] < schedule[n].next \div PerSecond
ClaimsAreSpaced ==
  \A n \in Schedule : last[n] # None =>
    /\ schedule[n] # None /\ last[n].at <= clock /\ KeysAreBefore(n)
    /\ IF last[n].every THEN schedule[n].next >= last[n].at + last[n].period
       ELSE schedule[n].next >= (last[n].at \div last[n].period + 1) * last[n].period

ScheduleInv == SchedulesTypes /\ KeysArePast /\ ClaimsAreSpaced

LEMMA ScheduleInvInit ==
  ASSUME SchedulesAssumption, SchedulesInit
  PROVE  ScheduleInv
  BY DEF SchedulesAssumption, SchedulesInit, ScheduleInv, SchedulesTypes, KeysArePast,
         ClaimsAreSpaced

LEMMA Division ==
  ASSUME NEW a \in Nat, NEW b \in Nat, NEW p \in Nat \ {0}
  PROVE  /\ a \div p \in Nat
         /\ a <= b => a \div p <= b \div p
         /\ b >= a + p => b \div p > a \div p
         /\ b >= (a \div p + 1) * p => b \div p > a \div p
         /\ (a \div p + 1) * p \in Nat /\ (a \div p + 1) * p > a
         /\ a < b /\ b % p = 0 => a \div p < b \div p
  OBVIOUS

LEMMA Multiples ==
  ASSUME NEW q \in Nat, NEW d \in Nat, NEW p \in Nat \ {0}, d % p = 0
  PROVE  (q * d) % p = 0
<1>1. d = p * (d \div p) /\ d \div p \in Nat
  OBVIOUS
<1>2. q * d = p * (q * (d \div p)) /\ q * (d \div p) \in Nat
  BY <1>1
<1>3. \A z \in Nat : (p * z) % p = 0
  OBVIOUS
<1> QED BY <1>2, <1>3

\* What a process claims is of its release.
LEMMA ReleaseDeclares ==
  ASSUME SchedulesAssumption, ScheduleInv, NEW p \in Process,
         running[p] # None, running[p].release # <<>>
  PROVE  LET s == running[p].release[running[p].at]
         IN  /\ s \in Declared
             /\ s.every => s.period >= PerSecond
             /\ ~s.every => s.period % PerSecond = 0
<1> DEFINE r == running[p].release
           i == running[p].at
<1>1. r \in Releases /\ i \in 1 .. Len(r)
  <2>1. running[p] \in Loop /\ i <= Len(running[p].release)
    BY DEF ScheduleInv, SchedulesTypes
  <2> QED BY <2>1 DEF Loop, SchedulesAssumption
<1>2. r \in Seq(Declared)
  BY <1>1 DEF SchedulesAssumption
<1>3. r[i] \in Declared
  BY <1>1, <1>2, ElementOfSeq
<1> QED BY <1>1, <1>3 DEF SchedulesAssumption

\* The next run is later, and has a key of its own.
LEMMA NextRunIsLater ==
  ASSUME SchedulesAssumption, clock \in Nat, NEW s \in Declared,
         s.every => s.period >= PerSecond, ~s.every => s.period % PerSecond = 0
  PROVE  /\ NextRun(s) \in Nat /\ NextRun(s) > clock
         /\ NextRun(s) \div PerSecond > clock \div PerSecond
         /\ ~s.every => NextRun(s) = (clock \div s.period + 1) * s.period
         /\ s.every => NextRun(s) = clock + s.period
<1>1. s.period \in Nat \ {0} /\ s.every \in BOOLEAN /\ PerSecond \in Nat \ {0}
  BY DEF Declared, SchedulesAssumption
<1>2. CASE s.every
  <2>1. NextRun(s) = clock + s.period /\ NextRun(s) \in Nat /\ NextRun(s) >= clock + PerSecond
    BY <1>1, <1>2 DEF NextRun
  <2> QED BY <1>1, <1>2, <2>1, Division
<1>3. CASE ~s.every
  <2> DEFINE occurrence == (clock \div s.period + 1) * s.period
  <2>1. NextRun(s) = occurrence
    BY <1>3 DEF NextRun
  <2>2. occurrence \in Nat /\ occurrence > clock /\ clock \div s.period + 1 \in Nat
    BY <1>1, Division
  <2>3. occurrence % PerSecond = 0
    BY <1>1, <1>3, <2>2, Multiples
  <2>4. occurrence \div PerSecond > clock \div PerSecond
    BY <1>1, <2>2, <2>3, Division
  <2> QED BY <1>3, <2>1, <2>2, <2>4
<1> QED BY <1>1, <1>2, <1>3

\* A claim: the row and its history change together, and its key is new.
LEMMA ClaimStepSchedule ==
  ASSUME SchedulesAssumption, ScheduleInv, NEW p \in Process,
         running[p] # None, running[p].release # <<>>,
         NEW s, s = running[p].release[running[p].at], Due(s.name), ClaimSchedule(s),
         UNCHANGED clock
  PROVE  /\ schedule' \in [Schedule -> ScheduleRow \cup {None}]
         /\ last' \in [Schedule -> Firing \cup {None}]
         /\ jobs' \subseteq Schedule \X Nat
         /\ KeysArePast' /\ ClaimsAreSpaced'
<1> DEFINE n == s.name
           key == schedule[n].next \div PerSecond
<1>1. /\ s \in Declared /\ n \in Schedule /\ s.period \in Nat \ {0} /\ s.every \in BOOLEAN
      /\ s.every => s.period >= PerSecond
      /\ ~s.every => s.period % PerSecond = 0
  BY ReleaseDeclares DEF Declared
<1>2. schedule[n] \in ScheduleRow /\ schedule[n].next \in Nat /\ schedule[n].next <= clock
  BY <1>1 DEF Due, ScheduleInv, SchedulesTypes, ScheduleRow
<1>3. clock \in Nat /\ PerSecond \in Nat \ {0}
  BY DEF ScheduleInv, SchedulesTypes, SchedulesAssumption
<1>4. key \in Nat /\ key <= clock \div PerSecond
  BY <1>2, <1>3, Division
<1>5. /\ NextRun(s) \in Nat /\ NextRun(s) \div PerSecond > clock \div PerSecond
      /\ ~s.every => NextRun(s) = (clock \div s.period + 1) * s.period
      /\ s.every => NextRun(s) = clock + s.period
  BY <1>1, <1>3, NextRunIsLater
<1>6. /\ schedule' = [schedule EXCEPT ![n] = [schedule[n] EXCEPT !.next = NextRun(s)]]
      /\ jobs' = jobs \cup {<<n, key>>}
      /\ last' = [last EXCEPT ![n] = [at |-> clock, period |-> s.period, every |-> s.every]]
  BY DEF ClaimSchedule, JobKey
<1> HIDE DEF n, key
<1>7. /\ schedule' \in [Schedule -> ScheduleRow \cup {None}]
      /\ schedule'[n] \in ScheduleRow /\ schedule'[n].next = NextRun(s)
      /\ \A m \in Schedule \ {n} : schedule'[m] = schedule[m]
  BY <1>1, <1>2, <1>5, <1>6 DEF ScheduleInv, SchedulesTypes, ScheduleRow
<1>8. /\ last' \in [Schedule -> Firing \cup {None}]
      /\ last'[n] = [at |-> clock, period |-> s.period, every |-> s.every]
      /\ \A m \in Schedule \ {n} : last'[m] = last[m]
  BY <1>1, <1>3, <1>6 DEF ScheduleInv, SchedulesTypes, Firing
<1>9. jobs' \subseteq Schedule \X Nat
  BY <1>1, <1>4, <1>6 DEF ScheduleInv, SchedulesTypes
<1>10. KeysArePast'
  BY <1>4, <1>6 DEF KeysArePast, ScheduleInv
<1>11. \A k \in jobs' : k[2] <= clock \div PerSecond /\ k[2] \in Nat
  BY <1>9, <1>10 DEF KeysArePast
<1>12. clock \div PerSecond \in Nat /\ NextRun(s) \div PerSecond \in Nat
  BY <1>3, <1>5, Division
<1>13. ASSUME NEW m \in Schedule, last'[m] # None
       PROVE  /\ schedule'[m] # None /\ last'[m].at <= clock' /\ KeysAreBefore(m)'
              /\ IF last'[m].every THEN schedule'[m].next >= last'[m].at + last'[m].period
                 ELSE schedule'[m].next >= (last'[m].at \div last'[m].period + 1) * last'[m].period
  <2>1. CASE m = n
    <3>1. schedule'[m] # None /\ last'[m].at <= clock'
      BY <1>3, <1>7, <1>8, <2>1 DEF SchedulesAssumption
    <3>2. KeysAreBefore(m)'
      BY <1>5, <1>7, <1>11, <1>12, <2>1, SMTT(40) DEF KeysAreBefore
    <3>3. /\ last'[m].at = clock /\ last'[m].period = s.period /\ last'[m].every = s.every
          /\ schedule'[m].next = NextRun(s)
      BY <1>7, <1>8, <2>1, SMTT(40)
    <3>4. s.every => schedule'[m].next >= last'[m].at + last'[m].period
      BY <1>1, <1>3, <1>5, <3>3, SMTT(40)
    <3>5. ~s.every => schedule'[m].next >= (last'[m].at \div last'[m].period + 1) * last'[m].period
      BY <1>5, <3>3, SMTT(40)
    <3> QED BY <3>1, <3>2, <3>3, <3>4, <3>5
  <2>2. CASE m # n
    <3>1. last[m] # None /\ schedule'[m] = schedule[m] /\ last'[m] = last[m]
      BY <1>7, <1>8, <1>13, <2>2
    <3>2. KeysAreBefore(m)'
      BY <1>6, <2>2, <3>1 DEF KeysAreBefore, ScheduleInv, ClaimsAreSpaced
    <3> QED BY <3>1, <3>2 DEF ScheduleInv, ClaimsAreSpaced
  <2> QED BY <2>1, <2>2
<1> QED BY <1>7, <1>8, <1>9, <1>10, <1>13 DEF ClaimsAreSpaced

\* A start: what is left of a row's history has its row and its next run.
LEMMA EnsureStep ==
  ASSUME SchedulesAssumption, ScheduleInv, NEW r \in Releases, EnsureSchedules(r),
         UNCHANGED <<clock, jobs>>
  PROVE  /\ schedule' \in [Schedule -> ScheduleRow \cup {None}]
         /\ last' \in [Schedule -> Firing \cup {None}]
         /\ ClaimsAreSpaced'
         /\ \A n \in Schedule :
              /\ last'[n] = None \/ last'[n] = last[n]
              /\ schedule[n] # None => schedule'[n] # None /\ schedule'[n].paused = schedule[n].paused
<1> DEFINE declared(n) == {i \in DOMAIN r : r[i].name = n}
           s(n) == r[CHOOSE i \in declared(n) : TRUE]
           row(n) == IF schedule[n] = None THEN NewRow(s(n)) ELSE schedule[n]
           same(n) == declared(n) = {} \/ (row(n).enabled /\ row(n).def = Def(s(n)))
<1>1. /\ schedule' = [n \in Schedule |->
           IF declared(n) # {} THEN Registered(row(n), s(n))
           ELSE IF schedule[n] = None THEN None ELSE [schedule[n] EXCEPT !.enabled = FALSE]]
      /\ last' = [n \in Schedule |->
           IF declared(n) # {} /\ (~row(n).enabled \/ row(n).def # Def(s(n)))
           THEN None ELSE last[n]]
  BY DEF EnsureSchedules
<1>2. r \in Seq(Declared) /\ clock \in Nat
  BY DEF SchedulesAssumption, ScheduleInv, SchedulesTypes
<1>3. ASSUME NEW n \in Schedule
      PROVE  /\ schedule'[n] \in ScheduleRow \cup {None} /\ last'[n] \in Firing \cup {None}
             /\ last'[n] = None \/ last'[n] = last[n]
             /\ schedule[n] # None =>
                  schedule'[n] # None /\ schedule'[n].paused = schedule[n].paused
             /\ last'[n] # None =>
                  /\ schedule[n] # None => schedule'[n].next = schedule[n].next
                  /\ last[n] # None
  <2>1. schedule[n] \in ScheduleRow \cup {None} /\ last[n] \in Firing \cup {None}
    BY DEF ScheduleInv, SchedulesTypes
  <2>2. CASE declared(n) = {}
    <3>1. /\ schedule'[n] = IF schedule[n] = None THEN None
                            ELSE [schedule[n] EXCEPT !.enabled = FALSE]
          /\ last'[n] = last[n]
      BY <1>1, <2>2
    <3>2. CASE schedule[n] = None
      BY <2>1, <3>1, <3>2
    <3>3. CASE schedule[n] # None
      <4>1. schedule[n] \in ScheduleRow
        BY <2>1, <3>3
      <4>2. /\ schedule'[n] \in ScheduleRow /\ schedule'[n].paused = schedule[n].paused
            /\ schedule'[n].next = schedule[n].next
        BY <3>1, <3>3, <4>1 DEF ScheduleRow
      <4> QED BY <2>1, <3>1, <3>3, <4>2 DEF SchedulesAssumption
    <3> QED BY <3>2, <3>3
  <2>3. CASE declared(n) # {}
    <3>1. s(n) \in Declared
      BY <1>2, <2>3, ElementOfSeq
    <3>2. /\ schedule'[n] = Registered(row(n), s(n))
          /\ last'[n] = IF ~row(n).enabled \/ row(n).def # Def(s(n)) THEN None ELSE last[n]
      BY <1>1, <2>3
    <3> HIDE DEF declared, s
    <3>3. Def(s(n)) \in Definition /\ s(n).every \in BOOLEAN /\ s(n).period \in Nat \ {0}
      BY <3>1 DEF Def, Declared, Definition
    <3>4. row(n) \in ScheduleRow /\ (schedule[n] = None => ~row(n).enabled)
      BY <2>1, <3>3 DEF NewRow, ScheduleRow
    <3>5. NextRun(s(n)) \in Nat
      <4> HIDE DEF s
      <4>1. s(n).every => NextRun(s(n)) = clock + s(n).period
        BY DEF NextRun
      <4>2. ~s(n).every => NextRun(s(n)) = (clock \div s(n).period + 1) * s(n).period
        BY DEF NextRun
      <4>3. (clock \div s(n).period + 1) * s(n).period \in Nat
        BY <1>2, <3>3, Division
      <4> QED BY <1>2, <3>3, <4>1, <4>2, <4>3
    <3>6. /\ Registered(row(n), s(n)) \in ScheduleRow
          /\ Registered(row(n), s(n)).paused = row(n).paused
          /\ row(n).enabled /\ row(n).def = Def(s(n)) =>
               Registered(row(n), s(n)).next = row(n).next
      BY <1>2, <3>3, <3>4, <3>5 DEF Registered, StartsOver, ScheduleRow
    <3>7. schedule[n] # None => row(n) = schedule[n]
      OBVIOUS
    <3> HIDE DEF row
    <3> QED BY <2>1, <3>2, <3>4, <3>6, <3>7 DEF SchedulesAssumption
  <2> QED BY <2>2, <2>3
<1>4. /\ schedule' \in [Schedule -> ScheduleRow \cup {None}]
      /\ last' \in [Schedule -> Firing \cup {None}]
  <2>1. DOMAIN schedule' = Schedule /\ DOMAIN last' = Schedule
    BY <1>1
  <2>2. /\ schedule' = [n \in Schedule |-> schedule'[n]]
        /\ last' = [n \in Schedule |-> last'[n]]
    BY <1>1
  <2> HIDE DEF declared, s, row
  <2> QED BY <1>3, <2>2
<1> HIDE DEF declared, s, row, same
<1>5. ClaimsAreSpaced'
  <2> SUFFICES ASSUME NEW n \in Schedule, last'[n] # None
               PROVE  /\ schedule'[n] # None /\ last'[n].at <= clock' /\ KeysAreBefore(n)'
                      /\ IF last'[n].every THEN schedule'[n].next >= last'[n].at + last'[n].period
                         ELSE schedule'[n].next
                                >= (last'[n].at \div last'[n].period + 1) * last'[n].period
    BY DEF ClaimsAreSpaced
  <2>1. last[n] # None /\ last'[n] = last[n]
    BY <1>3
  <2>2. schedule[n] # None /\ schedule'[n] # None /\ schedule'[n].next = schedule[n].next
    BY <1>3, <2>1 DEF ScheduleInv, ClaimsAreSpaced
  <2>3. KeysAreBefore(n)'
    BY <2>1, <2>2 DEF KeysAreBefore, ScheduleInv, ClaimsAreSpaced
  <2> QED BY <2>1, <2>2, <2>3 DEF ScheduleInv, ClaimsAreSpaced
<1> QED BY <1>3, <1>4, <1>5

LEMMA StartProcessStep ==
  ASSUME SchedulesAssumption, ScheduleInv, NEW p \in Process, NEW r \in Releases,
         StartProcess(p, r)
  PROVE  ScheduleInv'
<1>1. /\ schedule' \in [Schedule -> ScheduleRow \cup {None}]
      /\ last' \in [Schedule -> Firing \cup {None}]
      /\ ClaimsAreSpaced'
  <2>1. CASE EnsureSchedules(r)
    BY <2>1, EnsureStep DEF StartProcess
  <2>2. CASE UNCHANGED <<schedule, last>>
    BY <2>2 DEF StartProcess, ScheduleInv, SchedulesTypes, ClaimsAreSpaced, KeysAreBefore
  <2> QED BY <2>1, <2>2 DEF StartProcess
<1>2. r \in Seq(Declared)
  BY DEF SchedulesAssumption
<1>3. [release |-> r, at |-> 1] \in Loop /\ (r # <<>> => 1 <= Len(r))
  BY <1>2, EmptySeq, LenProperties DEF Loop
<1>4. /\ running' \in [Process -> Loop \cup {None}]
      /\ \A q \in Process : running'[q] # None =>
           running'[q].release = <<>> \/ running'[q].at <= Len(running'[q].release)
  BY <1>3 DEF StartProcess, ScheduleInv, SchedulesTypes
<1>5. /\ starts' \in 0 .. MaxStarts /\ mishaps' \in 0 .. MaxMishaps
  BY DEF StartProcess, ScheduleInv, SchedulesTypes, SchedulesAssumption
<1> QED BY <1>1, <1>4, <1>5
        DEF StartProcess, ScheduleInv, SchedulesTypes, KeysArePast

LEMMA ScheduleDueStep ==
  ASSUME SchedulesAssumption, ScheduleInv, NEW p \in Process, ScheduleDue(p)
  PROVE  ScheduleInv'
<1> DEFINE s == running[p].release[running[p].at]
<1>1. /\ schedule' \in [Schedule -> ScheduleRow \cup {None}]
      /\ last' \in [Schedule -> Firing \cup {None}]
      /\ jobs' \subseteq Schedule \X Nat
      /\ KeysArePast' /\ ClaimsAreSpaced'
  <2>1. CASE Due(s.name)
    BY <2>1, ClaimStepSchedule DEF ScheduleDue
  <2>2. CASE ~Due(s.name)
    BY <2>2 DEF ScheduleDue, ScheduleInv, SchedulesTypes, KeysArePast, ClaimsAreSpaced,
                KeysAreBefore
  <2> QED BY <2>1, <2>2
<1>2. running[p] \in Loop /\ running[p].release \in Seq(Declared) /\ running[p].release # <<>>
  BY DEF ScheduleDue, ScheduleInv, SchedulesTypes, Loop, SchedulesAssumption
<1>3. Len(running[p].release) \in Nat /\ Len(running[p].release) >= 1
  BY <1>2, EmptySeq, LenProperties
<1>4. \E i \in Nat \ {0} : i <= Len(running[p].release)
                           /\ running' = [running EXCEPT ![p].at = i]
  <2> DEFINE i == GoesOn(p, Due(s.name))
  <2>1. running' = [running EXCEPT ![p].at = i]
    BY DEF ScheduleDue
  <2>2. i \in Nat \ {0} /\ i <= Len(running[p].release)
    <3>1. running[p].at \in Nat \ {0}
      BY <1>2 DEF Loop
    <3> QED BY <1>3, <3>1 DEF GoesOn
  <2> HIDE DEF i
  <2> QED BY <2>1, <2>2
<1>5. /\ running' \in [Process -> Loop \cup {None}]
      /\ \A q \in Process : running'[q] # None =>
           running'[q].release = <<>> \/ running'[q].at <= Len(running'[q].release)
  BY <1>2, <1>4 DEF ScheduleInv, SchedulesTypes, Loop
<1> QED BY <1>1, <1>5 DEF ScheduleDue, ScheduleInv, SchedulesTypes

LEMMA ClockStep ==
  ASSUME SchedulesAssumption, ScheduleInv, ClockTicks
  PROVE  ScheduleInv'
<1>1. /\ clock \in Nat /\ clock' = clock + 1 /\ clock' \in 0 .. MaxClock
      /\ PerSecond \in Nat \ {0}
  BY DEF ScheduleInv, SchedulesTypes, ClockTicks, SchedulesAssumption
<1>2. clock \div PerSecond <= clock' \div PerSecond /\ clock \div PerSecond \in Nat
      /\ clock' \div PerSecond \in Nat
  BY <1>1, Division
<1>3. KeysArePast'
  BY <1>2 DEF KeysArePast, ScheduleInv, SchedulesTypes, ClockTicks
<1>4. SchedulesTypes'
  BY <1>1 DEF ScheduleInv, SchedulesTypes, ClockTicks
<1>5. \A n \in Schedule : last[n] # None => last[n].at \in Nat /\ last[n].at <= clock'
  BY <1>1 DEF ScheduleInv, SchedulesTypes, ClaimsAreSpaced, Firing
<1>6. ClaimsAreSpaced'
  BY <1>5 DEF ScheduleInv, ClaimsAreSpaced, KeysAreBefore, ClockTicks
<1> QED BY <1>3, <1>4, <1>6 DEF ScheduleInv

LEMMA ScheduleInvNext ==
  ASSUME SchedulesAssumption, ScheduleInv, [SchedulesNext]_schedulesVars
  PROVE  ScheduleInv'
<1>1. ASSUME NEW p \in Process, ScheduleError(p) \/ StopProcess(p) PROVE ScheduleInv'
  <2>1. /\ running' \in [Process -> Loop \cup {None}]
        /\ \A q \in Process : running'[q] # None =>
             running'[q].release = <<>> \/ running'[q].at <= Len(running'[q].release)
    <3>1. CASE running' = [running EXCEPT ![p] = None]
      BY <3>1 DEF ScheduleInv, SchedulesTypes
    <3>2. CASE running[p] # None /\ running' = [running EXCEPT ![p].at = 1]
      <4>1. running[p] \in Loop /\ running[p].release \in Seq(Declared)
        BY <3>2 DEF ScheduleInv, SchedulesTypes, Loop, SchedulesAssumption
      <4>2. running[p].release = <<>> \/ 1 <= Len(running[p].release)
        BY <4>1, EmptySeq, LenProperties
      <4> QED BY <3>2, <4>1, <4>2 DEF ScheduleInv, SchedulesTypes, Loop
    <3> QED BY <1>1, <3>1, <3>2 DEF ScheduleError, StopProcess
  <2>2. mishaps' \in 0 .. MaxMishaps
    BY <1>1 DEF ScheduleError, StopProcess, ScheduleInv, SchedulesTypes, SchedulesAssumption
  <2> QED BY <1>1, <2>1, <2>2 DEF ScheduleError, StopProcess, ScheduleInv, SchedulesTypes,
                                  KeysArePast, ClaimsAreSpaced, KeysAreBefore
<1>2. ASSUME NEW n \in Schedule, NEW paused \in BOOLEAN, SetPaused(n, paused) PROVE ScheduleInv'
  <2>1. /\ schedule' \in [Schedule -> ScheduleRow \cup {None}]
        /\ \A m \in Schedule : schedule[m] # None =>
             schedule'[m] # None /\ schedule'[m].next = schedule[m].next
    BY <1>2 DEF SetPaused, ScheduleInv, SchedulesTypes, ScheduleRow, SchedulesAssumption
  <2>2. ClaimsAreSpaced'
    BY <1>2, <2>1 DEF SetPaused, ScheduleInv, ClaimsAreSpaced, KeysAreBefore
  <2> QED BY <1>2, <2>1, <2>2 DEF SetPaused, ScheduleInv, SchedulesTypes, KeysArePast
<1>3. ASSUME NEW n \in Schedule, Trigger(n) PROVE ScheduleInv'
  BY <1>3 DEF Trigger, ScheduleInv, SchedulesTypes, KeysArePast, ClaimsAreSpaced, KeysAreBefore,
              SchedulesAssumption
<1>4. CASE UNCHANGED schedulesVars
  BY <1>4 DEF schedulesVars, ScheduleInv, SchedulesTypes, KeysArePast, ClaimsAreSpaced,
              KeysAreBefore
<1> QED BY <1>1, <1>2, <1>3, <1>4, StartProcessStep, ScheduleDueStep, ClockStep
        DEF SchedulesNext

\* Keys of jobs are past and each claim has left its schedule a next run that is
\* a period later and has a new key, for all releases that run side by side.
THEOREM ScheduleInvariant ==
  ASSUME SchedulesAssumption
  PROVE  SchedulesSpec => []ScheduleInv
<1>1. SchedulesInit => ScheduleInv
  BY ScheduleInvInit
<1>2. ScheduleInv /\ [SchedulesNext]_schedulesVars => ScheduleInv'
  BY ScheduleInvNext
<1> QED BY <1>1, <1>2, PTL DEF SchedulesSpec

LEMMA FiresStep ==
  ASSUME SchedulesAssumption, ScheduleInv, SchedulesNext
  PROVE  FiresAsDefined
<1>1. ASSUME NEW p \in Process, ScheduleDue(p) PROVE FiresAsDefined
  <2> DEFINE s == running[p].release[running[p].at]
  <2>1. s \in Declared
    BY <1>1, ReleaseDeclares DEF ScheduleDue
  <2>2. CASE ~Due(s.name)
    BY <1>1, <2>2 DEF ScheduleDue, FiresAsDefined
  <2>3. CASE Due(s.name)
    <3> DEFINE m == s.name
               key == schedule[m].next \div PerSecond
    <3>1. /\ m \in Schedule /\ schedule[m] \in ScheduleRow /\ schedule[m].next <= clock
          /\ ~schedule[m].paused
      BY <2>1, <2>3 DEF Declared, Due, ScheduleInv, SchedulesTypes
    <3>2. /\ schedule' = [schedule EXCEPT ![m].next = NextRun(s)]
          /\ jobs' = jobs \cup {<<m, key>>}
          /\ last' = [last EXCEPT ![m] = [at |-> clock, period |-> s.period, every |-> s.every]]
      BY <1>1, <2>3 DEF ScheduleDue, ClaimSchedule, JobKey
    <3> HIDE DEF s, m
    <3>3. \A n \in Schedule \ {m} : last'[n] = last[n] /\ schedule'[n] = schedule[n]
      BY <3>2 DEF ScheduleInv, SchedulesTypes
    <3>4. ASSUME last[m] # None
          PROVE  /\ jobs' # jobs
                 /\ last[m].every => clock >= last[m].at + last[m].period
                 /\ ~last[m].every => clock \div last[m].period > last[m].at \div last[m].period
      <4>1. KeysAreBefore(m) /\ last[m].at <= clock /\ last[m] \in Firing
        BY <3>1, <3>4 DEF ScheduleInv, ClaimsAreSpaced, SchedulesTypes
      <4>2. schedule[m].next \in Nat /\ PerSecond \in Nat \ {0} /\ clock \in Nat /\ key \in Nat
        BY <3>1, Division DEF ScheduleRow, SchedulesAssumption, ScheduleInv, SchedulesTypes
      <4>3. <<m, key>> \notin jobs
        BY <4>1, <4>2 DEF KeysAreBefore
      <4>4. CASE last[m].every
        <5>1. schedule[m].next >= last[m].at + last[m].period
          BY <3>1, <3>4, <4>4 DEF ScheduleInv, ClaimsAreSpaced
        <5> QED BY <3>1, <3>2, <4>1, <4>2, <4>3, <4>4, <5>1 DEF Firing
      <4>5. CASE ~last[m].every
        <5> DEFINE a == last[m].at
                   d == last[m].period
        <5>1. schedule[m].next >= (a \div d + 1) * d
          BY <3>1, <3>4, <4>5 DEF ScheduleInv, ClaimsAreSpaced
        <5>2. a \in Nat /\ d \in Nat \ {0}
          BY <4>1 DEF Firing
        <5> HIDE DEF a, d
        <5>3. (a \div d + 1) * d \in Nat
          BY <5>2, Division
        <5>4. clock >= (a \div d + 1) * d
          BY <3>1, <4>2, <5>1, <5>3
        <5>5. clock \div d > a \div d
          BY <4>2, <5>2, <5>4, Division
        <5> QED BY <3>2, <4>3, <4>5, <5>5 DEF a, d
      <4> QED BY <4>4, <4>5 
    <3> QED BY <3>1, <3>3, <3>4 DEF FiresAsDefined
  <2> QED BY <2>2, <2>3
<1>2. ASSUME NEW p \in Process, NEW r \in Releases, StartProcess(p, r) PROVE FiresAsDefined
  <2>1. \A n \in Schedule :
          /\ last'[n] = None \/ last'[n] = last[n]
          /\ schedule[n] # None => schedule'[n] # None /\ schedule'[n].paused = schedule[n].paused
    <3>1. CASE EnsureSchedules(r)
      BY <1>2, <3>1, EnsureStep DEF StartProcess
    <3>2. CASE UNCHANGED <<schedule, last>>
      BY <3>2
    <3> QED BY <1>2, <3>1, <3>2 DEF StartProcess
  <2> QED BY <2>1 DEF FiresAsDefined
<1>3. ASSUME NEW p \in Process, ScheduleError(p) \/ StopProcess(p) PROVE FiresAsDefined
  BY <1>3 DEF ScheduleError, StopProcess, FiresAsDefined
<1>4. ASSUME NEW n \in Schedule, Trigger(n) \/ \E paused \in BOOLEAN : SetPaused(n, paused)
      PROVE  FiresAsDefined
  BY <1>4 DEF Trigger, SetPaused, FiresAsDefined
<1>5. CASE ClockTicks
  BY <1>5 DEF ClockTicks, FiresAsDefined
<1> QED BY <1>1, <1>2, <1>3, <1>4, <1>5 DEF SchedulesNext

\* Claims of a schedule are a period apart and each enqueues a job, through
\* restarts and releases side by side; what is paused is neither claimed nor
\* resumed by a start.  (ensure_schedules, schedule_due)
THEOREM SchedulesFireAlways ==
  ASSUME SchedulesAssumption
  PROVE  SchedulesSpec => SchedulesFireAsDefined
<1>1. ScheduleInv /\ [SchedulesNext]_schedulesVars => [FiresAsDefined]_schedulesVars
  BY FiresStep
<1> QED BY <1>1, ScheduleInvariant, PTL DEF SchedulesSpec, SchedulesFireAsDefined
=============================================================================
