---------------------------- MODULE CreditLedger ----------------------------
(***************************************************************************)
(* The credits of one organization: the monthly grant, the reservations    *)
(* business transactions make and refund, the packs it buys, and what the  *)
(* payment provider's events, which arrive in any order and any number of  *)
(* times, make of them.                                                    *)
(*                                                                         *)
(* Rows of the ledger are summed by when they expire: balance[m] is the    *)
(* sum of those that expire with month m, balance[None] of those that do   *)
(* not; booked holds the operation keys of the rows.  Every writer takes   *)
(* the row lock of the organization; between a reservation's reads and its *)
(* COMMIT that lock is held.  CURRENT_TIMESTAMP is when the transaction    *)
(* began, which may be long before it gets the lock.                       *)
(***************************************************************************)
EXTENDS Null, Integers, FiniteSets, Functions

CONSTANTS
  Actor,      \* members whose requests run in transactions of their own
  Operation,  \* operation ids of business requests
  Cost,       \* what a request may cost
  PackSession, \* checkout sessions for credit packs
  MaxMonth,   \* bound: months that pass
  Free,       \* APPSTRUCT_MONTHLY_FREE_CREDITS
  Paid,       \* APPSTRUCT_MONTHLY_PAID_CREDITS
  Units,      \* APPSTRUCT_CREDIT_PACK_UNITS
  Price       \* what the provider captures for a pack

Month == 1 .. MaxMonth
Reservation == [cost : Cost, monthly : Nat, paid : Nat, expires : Month,
                refunded : BOOLEAN]
\* The fields of a provider's event the code reads.
PaymentEvent ==
  [kind : {"checkout", "charge"}, session : PackSession, paid : BOOLEAN,
   captured : 0 .. Price, refunded : 0 .. Price]
CheckoutEvent(s, paid) ==
  [kind |-> "checkout", session |-> s, paid |-> paid, captured |-> 0, refunded |-> 0]
ChargeEvent(s, captured, refunded) ==
  [kind |-> "charge", session |-> s, paid |-> TRUE, captured |-> captured,
   refunded |-> refunded]

Purchase == [fulfilled : BOOLEAN, refunded : 0 .. Units]
Payment == [captured : 0 .. Price, refunded : 0 .. Price]
Transaction ==
  [at : Month, grants : [Month -> Nat], op : Operation \cup {None},
   takes : Reservation \cup {None}]

LedgerAssumption ==
  /\ MaxMonth \in Nat \ {0} /\ Free \in Nat /\ Paid \in Nat
  /\ Units \in Nat \ {0} /\ Price \in Nat \ {0} /\ Cost \subseteq Nat \ {0}
  /\ IsFiniteSet(Operation) /\ IsFiniteSet(PackSession)
  /\ None \notin Actor \cup Operation \cup Month
  /\ None \notin Reservation /\ None \notin Purchase /\ None \notin Transaction

VARIABLES
  month,        \* the database's clock
  subscribed,   \* the current subscription grants the paid allowance
  balance,      \* sums of credit_ledger.amount by expires_at
  booked,       \* credit_ledger.operation_key, but for the grants
  grant,        \* amount of the row month:<tenant>:<start>
  reservation,  \* credit_reservations, None before the INSERT
  purchase,     \* credit_purchases, None before the INSERT
  payment,      \* payments, one charge for each session
  applied,      \* billing_events
  tx,           \* the open transaction of each actor
  holder,       \* who holds the organization's row FOR NO KEY UPDATE
  returned,     \* external: money the provider gave back, None before payment
  sent,         \* external: events the provider delivers
  crossed       \* history: months a reservation that began in them outlived

rows == <<balance, booked, grant, reservation, purchase, payment, applied>>
provider == <<returned, sent>>
creditVars == <<month, subscribed, rows, tx, holder, provider, crossed>>

LedgerTypes ==
  /\ month \in Month /\ subscribed \in BOOLEAN
  /\ balance \in [Month \cup {None} -> Int]
  /\ grant \in [Month -> {0, Free, Paid}]
  /\ reservation \in [Operation -> Reservation \cup {None}]
  /\ purchase \in [PackSession -> Purchase \cup {None}]
  /\ payment \in [PackSession -> Payment]
  /\ returned \in [PackSession -> 0 .. Price \cup {None}]
  /\ applied \subseteq sent /\ sent \subseteq PaymentEvent
  /\ holder \in Actor \cup {None} /\ crossed \subseteq Month
  /\ tx \in [Actor -> Transaction \cup {None}]
  /\ \A a \in Actor : tx[a] # None => tx[a].at <= month

LedgerInit ==
  /\ month = 1 /\ subscribed = FALSE
  /\ balance = [b \in Month \cup {None} |-> 0] /\ booked = {}
  /\ grant = [m \in Month |-> 0]
  /\ reservation = [o \in Operation |-> None]
  /\ purchase = [s \in PackSession |-> None]
  /\ payment = [s \in PackSession |-> [captured |-> 0, refunded |-> 0]]
  /\ applied = {} /\ tx = [a \in Actor |-> None] /\ holder = None
  /\ returned = [s \in PackSession |-> None] /\ sent = {} /\ crossed = {}
-----------------------------------------------------------------------------
(* The ledger *)

Lesser(x, y) == IF x < y THEN x ELSE y
Greater(x, y) == IF x > y THEN x ELSE y
LedgerRow(key, amount, expires) == [key |-> key, amount |-> amount, expires |-> expires]

\* ON CONFLICT (operation_key) DO NOTHING, after the grants in top.
Book(entries, top) ==
  LET Inserted(b) == [e \in entries |-> IF e.key \notin booked /\ e.expires = b
                                         THEN e.amount ELSE 0]
  IN  /\ balance' = [b \in Month \cup {None} |->
                       balance[b] + SumFunction(Inserted(b)) + IF b \in Month THEN top[b] ELSE 0]
      /\ booked' = booked \cup {e.key : e \in entries}
      /\ grant' = [m \in Month |-> grant[m] + top[m]]

NoGrant == [m \in Month |-> 0]

\* The grant of a month is inserted, or raised to the allowance of the plan.
Grant(at) ==
  [NoGrant EXCEPT ![at] = Greater(0, (IF subscribed THEN Paid ELSE Free) - grant[at])]

\* expires_at > CURRENT_TIMESTAMP
Monthly(at) == SumFunction([m \in at .. MaxMonth |-> balance[m]])

MayLock == holder = None
-----------------------------------------------------------------------------
(* Requests *)

Begin(a) ==
  /\ tx[a] = None
  /\ tx' = [tx EXCEPT ![a] = [at |-> month, grants |-> NoGrant, op |-> None, takes |-> None]]
  /\ UNCHANGED <<month, subscribed, rows, holder, provider, crossed>>

\* The transaction ends without effect: the reservation was refused (too few
\* credits, debt, an id used by another actor, for another cost or refunded), had been made before, or
\* the business change it belongs to failed.
Rollback(a) ==
  /\ tx[a] # None
  /\ tx' = [tx EXCEPT ![a] = None]
  /\ holder' = IF holder = a THEN None ELSE holder
  /\ UNCHANGED <<month, subscribed, rows, provider, crossed>>

Enough(monthly, paid, cost) == paid >= 0 /\ monthly + paid >= cost

\* reserve_credits up to its last statement; what it writes, the grant
\* included, is seen by others after COMMIT, and the lock stays until then.
ReserveCredits(a, o, cost) ==
  LET at == tx[a].at
      monthly == Monthly(at) + Grant(at)[at]
      fromMonthly == Lesser(cost, Greater(monthly, 0))
  IN  /\ tx[a] # None /\ tx[a].op = None
      /\ MayLock /\ holder' = a
      /\ reservation[o] = None
      /\ Enough(monthly, balance[None], cost)
      /\ tx' = [tx EXCEPT
                 ![a].grants = Grant(at), ![a].op = o,
                 ![a].takes = [cost |-> cost, monthly |-> fromMonthly,
                               paid |-> cost - fromMonthly, expires |-> at,
                               refunded |-> FALSE]]
      /\ crossed' = IF month > at THEN crossed \cup {at} ELSE crossed
      /\ UNCHANGED <<month, subscribed, rows, provider>>

Commit(a) ==
  LET t == tx[a]
      o == t.op
  IN  /\ t # None /\ t.op # None /\ reservation[o] = None
      /\ reservation' = [reservation EXCEPT ![o] = t.takes]
      /\ Book({LedgerRow(<<"spend", o, "monthly">>, -t.takes.monthly, t.takes.expires),
               LedgerRow(<<"spend", o, "paid">>, -t.takes.paid, None)}, t.grants)
      /\ tx' = [tx EXCEPT ![a] = None]
      /\ holder' = IF holder = a THEN None ELSE holder
      /\ UNCHANGED <<month, subscribed, purchase, payment, applied, provider, crossed>>

Overview(a) ==
  /\ tx[a] # None /\ tx[a].op = None /\ MayLock
  /\ Book({}, Grant(tx[a].at))
  /\ tx' = [tx EXCEPT ![a] = None]
  /\ UNCHANGED <<month, subscribed, reservation, purchase, payment, applied, holder,
                 provider, crossed>>

\* Mutant: monthly credits come back in the month of the refund.
RefundExpiresLater(r) == month

RefundExpires(r) == r.expires

\* The business request failed or was cancelled: WHERE NOT refunded.
RefundCredits(o) ==
  LET r == reservation[o]
  IN  /\ r # None /\ ~r.refunded /\ MayLock
      /\ reservation' = [reservation EXCEPT ![o].refunded = TRUE]
      /\ Book({LedgerRow(<<"refund", o, "monthly">>, r.monthly, RefundExpires(r)),
               LedgerRow(<<"refund", o, "paid">>, r.paid, None)}, NoGrant)
      /\ UNCHANGED <<month, subscribed, purchase, payment, applied, tx, holder,
                     provider, crossed>>

\* credit_checkout: the session is created at the provider, then stored.
CreditCheckout(s) ==
  /\ purchase[s] = None
  /\ purchase' = [purchase EXCEPT ![s] = [fulfilled |-> FALSE, refunded |-> 0]]
  /\ UNCHANGED <<month, subscribed, balance, booked, grant, reservation, payment, applied,
                 tx, holder, provider, crossed>>
-----------------------------------------------------------------------------
(* Events *)

\* Credits of a purchase that go with the money given back.
Deduction(p, c) ==
  IF p.fulfilled /\ c.captured > 0
    THEN (Units * Lesser(c.refunded, c.captured)) \div c.captured ELSE 0

\* Mutant: the last event wins.
LatestCharge(c, e) == [captured |-> e.captured, refunded |-> e.refunded]

\* GREATEST of what is stored and what the event says.
MergedCharge(c, e) == [captured |-> Greater(c.captured, e.captured),
                       refunded |-> Greater(c.refunded, e.refunded)]

Pack(s) == {LedgerRow(<<"purchase", s>>, Units, None)}

\* apply_billing_event; refund_purchase runs for both kinds of event.
Apply(e) ==
  LET s == e.session
      fulfils == e.kind = "checkout" /\ e.paid
      bought == [purchase[s] EXCEPT !.fulfilled = @ \/ fulfils]
      charge == IF e.kind = "charge" THEN MergedCharge(payment[s], e) ELSE payment[s]
      total == IF e.paid THEN Greater(bought.refunded, Deduction(bought, charge))
                         ELSE bought.refunded
  IN  /\ e.paid => MayLock
      /\ purchase' = [purchase EXCEPT ![s] = [bought EXCEPT !.refunded = total]]
      /\ payment' = [payment EXCEPT ![s] = charge]
      /\ Book((IF fulfils /\ ~purchase[s].fulfilled THEN Pack(s) ELSE {})
              \cup (IF total > bought.refunded
                      THEN {LedgerRow(<<"payment-refund", s, total>>, bought.refunded - total, None)}
                      ELSE {}), NoGrant)
      /\ applied' = applied \cup {e}
      /\ UNCHANGED <<month, subscribed, reservation, tx, holder, provider, crossed>>

\* The webhook: an event whose id is in billing_events changes nothing.
Deliver(e) == e \in sent \ applied /\ Apply(e)

\* An administrator replays a stored event under a new id.
Replay(e) == e \in applied /\ Apply(e)
-----------------------------------------------------------------------------
(* External: the customer, the provider, the subscription and the clock *)

\* The checkout ends before the money is there.
PayLater(s) ==
  /\ purchase[s] # None /\ returned[s] = None
  /\ sent' = sent \cup {CheckoutEvent(s, FALSE)}
  /\ UNCHANGED <<month, subscribed, rows, tx, holder, returned, crossed>>

Pay(s) ==
  /\ purchase[s] # None /\ returned[s] = None
  /\ returned' = [returned EXCEPT ![s] = 0]
  /\ sent' = sent \cup {CheckoutEvent(s, TRUE), ChargeEvent(s, Price, 0)}
  /\ UNCHANGED <<month, subscribed, rows, tx, holder, crossed>>

GiveBack(s, amount) ==
  /\ returned[s] # None /\ returned[s] + amount <= Price
  /\ returned' = [returned EXCEPT ![s] = @ + amount]
  /\ sent' = sent \cup {ChargeEvent(s, Price, returned[s] + amount)}
  /\ UNCHANGED <<month, subscribed, rows, tx, holder, crossed>>

Subscribe ==
  /\ subscribed' = ~subscribed
  /\ UNCHANGED <<month, rows, tx, holder, provider, crossed>>

MonthEnds ==
  /\ month < MaxMonth /\ month' = month + 1
  /\ UNCHANGED <<subscribed, rows, tx, holder, provider, crossed>>
-----------------------------------------------------------------------------
Requests ==
  \/ \E a \in Actor : \/ Begin(a) \/ Rollback(a) \/ Commit(a) \/ Overview(a)
                      \/ \E o \in Operation, c \in Cost : ReserveCredits(a, o, c)
  \/ \E o \in Operation : RefundCredits(o)
  \/ \E s \in PackSession : CreditCheckout(s)
Events == \E e \in sent : Deliver(e) \/ Replay(e)
Outside ==
  \/ \E s \in PackSession : PayLater(s) \/ Pay(s) \/ \E x \in 1 .. Price : GiveBack(s, x)
  \/ Subscribe \/ MonthEnds

LedgerNext == Requests \/ Events \/ Outside

LedgerSpec == LedgerInit /\ [][LedgerNext]_creditVars
-----------------------------------------------------------------------------
(* Properties *)

Outstanding(o) == reservation[o] # None /\ ~reservation[o].refunded
Fulfilled(s) == purchase[s] # None /\ purchase[s].fulfilled

MonthlySpent(m) ==
  [o \in Operation |-> IF Outstanding(o) /\ reservation[o].expires = m
                        THEN reservation[o].monthly ELSE 0]
PaidSpent == [o \in Operation |-> IF Outstanding(o) THEN reservation[o].paid ELSE 0]
PaidLeft == [s \in PackSession |-> IF Fulfilled(s) THEN Units - purchase[s].refunded ELSE 0]
PaidBought == [s \in PackSession |-> IF Fulfilled(s) THEN Units ELSE 0]

\* The ledger and the tables it mirrors agree: a month holds its grant less the
\* reservations charged to it, the paid credits are the packs less the money
\* given back and the reservations, however often each call and event came.
BalancesAddUp ==
  /\ \A m \in Month : balance[m] = grant[m] - SumFunction(MonthlySpent(m))
  /\ balance[None] = SumFunction(PaidLeft) - SumFunction(PaidSpent)

\* No month is spent beyond its grant, through concurrent reservations,
\* refunds, changes of plan and the end of the month; only a reservation that
\* began in a month and got the lock in a later one can overdraw its month.
MonthlyNeverOverdrawn == \A m \in Month \ crossed : balance[m] >= 0

\* Never more paid credits are spent than were bought: the paid balance falls
\* below zero only through money given back.
PaidNeverOverspent == SumFunction(PaidSpent) <= SumFunction(PaidBought)

\* What was applied, not in which order or how often, decides a purchase.
OrderDoesNotMatter ==
  \A s \in PackSession :
    LET of == {e \in applied : e.session = s}
        Largest(amounts) == CHOOSE x \in amounts : \A y \in amounts : y <= x
        charge == [captured |-> Largest({e.captured : e \in of} \cup {0}),
                   refunded |-> Largest({e.refunded : e \in of} \cup {0})]
        paid == \E e \in of : e.kind = "checkout" /\ e.paid
    IN  purchase[s] # None =>
          /\ purchase[s].fulfilled = paid
          /\ purchase[s].refunded = Deduction([fulfilled |-> paid], charge)

\* Credits are neither invented nor lost nor spent twice, and the events of a
\* payment count, not their order.
\* (monthly, reserve_credits, refund_credits, apply_billing_event)
CreditsAddUp ==
  BalancesAddUp /\ MonthlyNeverOverdrawn /\ PaidNeverOverspent /\ OrderDoesNotMatter

\* Debt blocks use: when a reservation is committed the organization owes
\* nothing and the paid credits it takes are there, whatever was spent or given
\* back since its transaction began.
SpendsNoDebt ==
  \A o \in Operation : reservation[o] = None /\ reservation'[o] # None =>
    balance[None] >= reservation'[o].paid

\* The credits of the current month grow only by its grant and by refunds of
\* reservations charged to it: a refund does not revive what has expired.
RevivesNothing ==
  balance'[month] > balance[month] =>
    \/ grant'[month] > grant[month]
    \/ \E o \in Operation : /\ Outstanding(o) /\ reservation[o].expires = month
                            /\ reservation'[o].refunded

\* Nothing is spent in debt and nothing expired comes back.
\* (reserve_credits, refund_credits)
CreditsStayWithinBounds == [][SpendsNoDebt /\ RevivesNothing]_creditVars
=============================================================================
