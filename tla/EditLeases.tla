------------------------------ MODULE EditLeases ------------------------------
(***************************************************************************)
(* The edit lease of one record.  A tab holds the lease as long as the     *)
(* answers it got say so; its requests may be delayed or lost, and reach   *)
(* the database when the lease has passed to somebody else.  Every         *)
(* statement is one transaction on the row and its time is the database's. *)
(***************************************************************************)
EXTENDS Null, Naturals

CONSTANTS
  Tab,
  ActorOf,   \* the user a tab is signed in as
  TtlOf,     \* seconds a tab always asks for
  MaxTime,   \* bound
  MaxTokens, \* bound: leases granted
  MaxLost    \* bound: requests or answers that do not arrive

VARIABLES
  second,    \* CURRENT_TIMESTAMP
  editLease, \* realtime_locks: token, actor and expiry, or None
  tokens,    \* lease tokens drawn
  asking,    \* the request of each tab and its answer
  held,      \* what a tab knows of its lease
  losses

leaseVars == <<second, editLease, tokens, asking, held, losses>>

Time == 0 .. MaxTime
Expiry == Nat \ {0}
GrantedLease == [token : 1 .. MaxTokens, actor : {ActorOf[t] : t \in Tab}, expires : Expiry]
Held == [token : 1 .. MaxTokens, expires : Expiry]
Request == [does : {"acquire", "renew", "release", "answer"}, token : 0 .. MaxTokens,
            result : Held \cup {None}]

LeasesAssumption ==
  /\ TtlOf \in [Tab -> Nat \ {0}]
  /\ MaxTime \in Nat /\ MaxTokens \in Nat /\ MaxLost \in Nat
  /\ None \notin GrantedLease /\ None \notin Held /\ None \notin Request

LeaseTypes ==
  /\ second \in Time /\ editLease \in GrantedLease \cup {None} /\ tokens \in 0 .. MaxTokens
  /\ asking \in [Tab -> Request \cup {None}] /\ held \in [Tab -> Held \cup {None}]
  /\ losses \in 0 .. MaxLost

LeasesInit ==
  /\ second = 0 /\ editLease = None /\ tokens = 0 /\ losses = 0
  /\ asking = [t \in Tab |-> None] /\ held = [t \in Tab |-> None]
-----------------------------------------------------------------------------
(* The requests of a tab and their statements *)

Asked(does, token, result) == [does |-> does, token |-> token, result |-> result]
Has(t) == held[t] # None /\ held[t].expires > second

Send(t, does, token) ==
  /\ asking[t] = None
  /\ asking' = [asking EXCEPT ![t] = Asked(does, token, None)]
  /\ UNCHANGED <<second, editLease, tokens, losses>>

AskForLease(t) == ~Has(t) /\ Send(t, "acquire", 0) /\ UNCHANGED held
AskToRenew(t) == held[t] # None /\ Send(t, "renew", held[t].token) /\ UNCHANGED held

\* A tab that gives up its lease stops counting on it at once.
AskToRelease(t) ==
  /\ held[t] # None /\ Send(t, "release", held[t].token)
  /\ held' = [held EXCEPT ![t] = None]

Requested(t, does) == asking[t] # None /\ asking[t].does = does
Answer(t, result) == asking' = [asking EXCEPT ![t] = Asked("answer", 0, result)]
View(l) == IF l = None THEN None ELSE [token |-> l.token, expires |-> l.expires]

\* Mutant: the lease of an actor is renewed from any of their tabs.
OfActor(t) == editLease # None /\ editLease.actor = ActorOf[t]

Expired == editLease = None \/ editLease.expires <= second

Owns(t) == editLease # None /\ editLease.token = asking[t].token /\ editLease.actor = ActorOf[t]

AcquireLease(t) ==
  /\ Requested(t, "acquire")
  /\ IF Expired
     THEN /\ tokens < MaxTokens
          /\ LET l == [token |-> tokens + 1, actor |-> ActorOf[t], expires |-> second + TtlOf[t]]
             IN  editLease' = l /\ tokens' = tokens + 1 /\ Answer(t, View(l))
     ELSE Answer(t, None) /\ UNCHANGED <<editLease, tokens>>
  /\ UNCHANGED <<second, held, losses>>

RenewLease(t) ==
  /\ Requested(t, "renew")
  /\ IF Owns(t) /\ ~Expired
     THEN LET l == [editLease EXCEPT !.expires = second + TtlOf[t]]
          IN  editLease' = l /\ Answer(t, View(l))
     ELSE Answer(t, None) /\ UNCHANGED editLease
  /\ UNCHANGED <<second, tokens, held, losses>>

ReleaseLease(t) ==
  /\ Requested(t, "release")
  /\ editLease' = IF Owns(t) THEN None ELSE editLease
  /\ Answer(t, None)
  /\ UNCHANGED <<second, tokens, held, losses>>

Receive(t) ==
  /\ Requested(t, "answer")
  /\ held' = [held EXCEPT ![t] = asking[t].result]
  /\ asking' = [asking EXCEPT ![t] = None]
  /\ UNCHANGED <<second, editLease, tokens, losses>>

\* The request or its answer does not arrive; what was done is done.
Lose(t) ==
  /\ asking[t] # None /\ losses < MaxLost
  /\ losses' = losses + 1
  /\ asking' = [asking EXCEPT ![t] = None]
  /\ UNCHANGED <<second, editLease, tokens, held>>
PassSecond ==
  /\ second < MaxTime /\ second' = second + 1
  /\ UNCHANGED <<editLease, tokens, asking, held, losses>>

TabNext(t) ==
  \/ AskForLease(t) \/ AskToRenew(t) \/ AskToRelease(t) \/ AcquireLease(t) \/ RenewLease(t)
  \/ ReleaseLease(t) \/ Receive(t) \/ Lose(t)

LeasesNext == PassSecond \/ \E t \in Tab : TabNext(t)

LeasesSpec == LeasesInit /\ [][LeasesNext]_leaseVars
-----------------------------------------------------------------------------
(* Properties *)

\* However requests and answers are delayed or lost, two tabs never count on
\* the lease of a record at the same time (acquire_lock, renew_lock,
\* release_lock).
OneEditor == LeaseTypes /\ \A t, u \in Tab : Has(t) /\ Has(u) => t = u
=============================================================================
