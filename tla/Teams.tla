-------------------------------- MODULE Teams --------------------------------
(***************************************************************************)
(* The members, the owner, the seats and the invitations of one            *)
(* organization.  A request is checked before its transaction begins, then *)
(* waits for the row lock of the organization (SELECT ... FOR NO KEY       *)
(* UPDATE), checks again what it may under the lock, writes and commits.   *)
(* CURRENT_TIMESTAMP does not move during a transaction.                   *)
(* A connection may be lost at any point: the transaction leaves nothing   *)
(* and its lock is gone.                                                   *)
(***************************************************************************)
EXTENDS Null, Integers, FiniteSets

CONSTANTS
  Worker,      \* connections that serve requests
  User,
  Invite,      \* ids of invitations
  Seats,       \* APPSTRUCT_TEAM_SEAT_LIMIT, 0 for no limit
  PaidSeats    \* APPSTRUCT_TEAM_PAID_SEAT_LIMIT

ASSUME SeatsAssumption == Seats \in Nat /\ PaidSeats \in Nat
ASSUME UsersAssumption == IsFiniteSet(User)
ASSUME NobodyAssumption == None \notin Worker /\ None \notin User /\ None \notin Invite

VARIABLES
  role,        \* tenant_memberships: none, member or owner
  invitation,  \* tenant_invitations, None before the INSERT
  named,       \* who gave the organization its name
  upgraded,    \* the current subscription is of a plan with paid seats
  request,     \* what each worker is doing
  lockedBy     \* the holder of the organization's row

teamVars == <<role, invitation, named, upgraded, request, lockedBy>>

Kind == {"invite", "revoke", "accept", "rename", "transfer", "remove"}
\* user is whom the request is about, seats the limit an acceptance was counted
\* against, inTime whether its invitation's expires_at is later than the time
\* its transaction began.
Request == [kind : Kind, actor : User, user : User, invite : Invite \cup {None},
            inTime : BOOLEAN, checked : BOOLEAN, seats : {Seats, PaidSeats}]
Invitation == [user : User, state : {"pending", "accepted", "deleted"}, expired : BOOLEAN]
ASSUME RowsAssumption == None \notin Invitation

Members == {u \in User : role[u] # "none"}
Owners == {u \in User : role[u] = "owner"}
Created == Owners # {}

TeamTypes ==
  /\ role \in [User -> {"none", "member", "owner"}]
  /\ invitation \in [Invite -> Invitation \cup {None}]
  /\ named \in User \cup {None} /\ upgraded \in BOOLEAN
  /\ request \in [Worker -> Request \cup {None}]
  /\ lockedBy \in Worker \cup {None}

TeamInit ==
  /\ role = [u \in User |-> "none"] /\ invitation = [i \in Invite |-> None]
  /\ named = None /\ upgraded = FALSE
  /\ request = [w \in Worker |-> None] /\ lockedBy = None

\* The organization and its owner are inserted in one transaction.
CreateOrganization(u) ==
  /\ named = None
  /\ role' = [role EXCEPT ![u] = "owner"] /\ named' = u
  /\ UNCHANGED <<invitation, upgraded, request, lockedBy>>
-----------------------------------------------------------------------------
(* Before the transaction *)

Asks(w, kind, actor, user, i) ==
  /\ request[w] = None
  /\ request' = [request EXCEPT ![w] =
       [kind |-> kind, actor |-> actor, user |-> user, invite |-> i,
        inTime |-> kind = "accept" /\ ~invitation[i].expired,
        checked |-> FALSE, seats |-> Seats]]
  /\ UNCHANGED <<role, invitation, named, upgraded, lockedBy>>

Pending(i) == invitation[i] # None /\ invitation[i].state = "pending"
MayAccept(i) == Pending(i) /\ ~invitation[i].expired

AskToInvite(w, a, u) == a \in Owners /\ Asks(w, "invite", a, u, None)
AskToRevoke(w, a, i) ==
  a \in Owners /\ invitation[i] # None /\ Asks(w, "revoke", a, a, i)

\* The transaction begins with a look at the invitation that takes no lock;
\* anybody may have the link.
AskToAccept(w, a, i) == MayAccept(i) /\ Asks(w, "accept", a, a, i)

\* The tenant of a request is one its actor is a member of.
AskToRename(w, a) == a \in Members /\ Asks(w, "rename", a, a, None)
AskToTransfer(w, a, u) == a \in Members /\ u # a /\ Asks(w, "transfer", a, u, None)
AskToRemove(w, a, u) == a \in Members /\ Asks(w, "remove", a, u, None)
-----------------------------------------------------------------------------
(* Under the lock *)

SeatLimit == IF upgraded THEN PaidSeats ELSE Seats
SeatLeft == SeatLimit = 0 \/ Cardinality(Members) < SeatLimit

\* Mutants: requests do not wait for each other; the owner was looked up before
\* the lock; the first look at an invitation is enough.
Unlocked == TRUE
OwnedBefore(r) == TRUE
WasPending(r) == invitation[r.invite] # None /\ invitation[r.invite].user = r.actor

MayLockTeam == lockedBy = None

OwnedBy(r) == r.actor \in Owners

\* The second look compares expires_at with the same time as the first: what
\* expires while the request waits for the lock is accepted.
MayJoin(r) == Pending(r.invite) /\ r.inTime /\ invitation[r.invite].user = r.actor

MayLeave(r) == role[r.user] = "member" /\ (r.actor = r.user \/ OwnedBy(r))

Allowed(r) ==
  CASE r.kind = "invite"   -> SeatLeft /\ OwnedBy(r)
    [] r.kind = "accept"   -> MayJoin(r) /\ (r.actor \in Members \/ SeatLeft)
    [] r.kind = "transfer" -> OwnedBy(r) /\ r.user \in Members
    [] r.kind = "remove"   -> MayLeave(r)
    [] OTHER               -> OwnedBy(r)

Enter(w) ==
  /\ request[w] # None /\ ~request[w].checked /\ MayLockTeam /\ Allowed(request[w])
  /\ lockedBy' = w
  /\ request' = [request EXCEPT ![w].checked = TRUE,
                                 ![w].seats = IF request[w].kind = "accept" THEN SeatLimit ELSE @]
  /\ UNCHANGED <<role, invitation, named, upgraded>>

Deleted(i) == [invitation[i] EXCEPT !.state = "deleted"]
PendingOf(u) == {i \in Invite : Pending(i) /\ invitation[i].user = u}

Writes(r) ==
  CASE r.kind = "invite" ->
         /\ \E i \in Invite :
              /\ invitation[i] = None
              /\ invitation' = [j \in Invite |->
                   IF j = i THEN [user |-> r.user, state |-> "pending", expired |-> FALSE]
                   ELSE IF j \in PendingOf(r.user) THEN Deleted(j) ELSE invitation[j]]
         /\ UNCHANGED <<role, named>>
    [] r.kind = "revoke" ->
         /\ invitation' = IF invitation[r.invite].state = "pending"
                          THEN [invitation EXCEPT ![r.invite] = Deleted(r.invite)]
                          ELSE invitation
         /\ UNCHANGED <<role, named>>
    [] r.kind = "accept" ->
         /\ role' = IF r.actor \in Members THEN role ELSE [role EXCEPT ![r.actor] = "member"]
         /\ invitation' = [invitation EXCEPT ![r.invite].state = "accepted"]
         /\ UNCHANGED named
    [] r.kind = "rename" -> named' = r.actor /\ UNCHANGED <<role, invitation>>
    [] r.kind = "transfer" ->
         /\ role' = [role EXCEPT ![r.user] = "owner", ![r.actor] = "member"]
         /\ UNCHANGED <<invitation, named>>
    [] r.kind = "remove" ->
         /\ role' = [role EXCEPT ![r.user] = "none"]
         /\ UNCHANGED <<invitation, named>>

CommitRequest(w) ==
  /\ request[w] # None /\ request[w].checked
  /\ Writes(request[w])
  /\ request' = [request EXCEPT ![w] = None]
  /\ lockedBy' = IF lockedBy = w THEN None ELSE lockedBy
  /\ UNCHANGED upgraded

\* The request is refused, or its connection is lost.
RollbackRequest(w) ==
  /\ request[w] # None
  /\ request' = [request EXCEPT ![w] = None]
  /\ lockedBy' = IF lockedBy = w THEN None ELSE lockedBy
  /\ UNCHANGED <<role, invitation, named, upgraded>>
-----------------------------------------------------------------------------
(* The world *)

ChangePlan == upgraded' = ~upgraded /\ UNCHANGED <<role, invitation, named, request, lockedBy>>

Expire(i) ==
  /\ MayAccept(i)
  /\ invitation' = [invitation EXCEPT ![i].expired = TRUE]
  /\ UNCHANGED <<role, named, upgraded, request, lockedBy>>

AskSomething(w) == \E a \in User :
  \/ AskToRename(w, a)
  \/ \E u \in User : AskToInvite(w, a, u) \/ AskToTransfer(w, a, u) \/ AskToRemove(w, a, u)
  \/ \E i \in Invite : AskToRevoke(w, a, i) \/ AskToAccept(w, a, i)

TeamNext ==
  \/ \E u \in User : CreateOrganization(u)
  \/ \E w \in Worker : AskSomething(w) \/ Enter(w) \/ CommitRequest(w) \/ RollbackRequest(w)
  \/ ChangePlan \/ \E i \in Invite : Expire(i)

TeamSpec == TeamInit /\ [][TeamNext]_teamVars
-----------------------------------------------------------------------------
(* Properties *)

\* From its creation on an organization has exactly one owner, whatever
\* transfers and departures race (lock_owner and owner under the row lock).
OneOwner == named # None => \E u \in User : Owners = {u}

\* A user becomes a member by a link of theirs that at the commit is neither
\* used, replaced nor revoked, that had not expired when the transaction of the
\* acceptance began (it may expire while that waits for the lock), and that the
\* same commit uses up; a seat was free under the limit the commit relied on
\* (accept_invitation, check_capacity).
JoinsByInvitation ==
  [][\A u \in User : named # None /\ role[u] = "none" /\ role'[u] # "none" =>
       \E w \in Worker, i \in Invite :
         /\ request[w] # None /\ request[w].invite = i /\ request[w].actor = u
         /\ invitation[i].user = u /\ Pending(i) /\ request[w].inTime
         /\ invitation'[i].state = "accepted"
         /\ request[w].seats = 0 \/ Cardinality(Members)' <= request[w].seats]_teamVars

\* What only an owner may decide is decided by who owns the organization at the
\* commit, not when the request was made: invitations, the name, the owner, and
\* the departure of somebody else (transfer, rename, remove, lock_owner).
OwnersDecide ==
  [][\A w \in Worker :
       request[w] # None /\ request[w].checked /\ request'[w] = None
       /\ (\/ named' # named \/ Owners' # Owners
           \/ \E i \in Invite : invitation[i] = None /\ invitation'[i] # None
           \/ \E u \in User \ {request[w].actor} : role[u] # "none" /\ role'[u] = "none")
       => request[w].actor \in Owners]_teamVars
=============================================================================
