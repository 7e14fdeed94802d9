---------------------------- MODULE RequestProofs ----------------------------
(***************************************************************************)
(* Proofs about requests of the generated API, for any number of clients:  *)
(* those of the members of an organization (Teams), with any limits, the   *)
(* writes of entities (EntityWrites), and signing in (Accounts), for       *)
(* requests of every kind and any number of letters and secrets.           *)
(***************************************************************************)
EXTENDS Teams, EntityWrites, Accounts, FiniteSetTheorems, SequenceTheorems, TLAPS

\* What a request names exists, and nobody hands the organization to himself.
WellFormed(r) ==
  /\ r.kind = "transfer" => r.user # r.actor
  /\ r.kind \in {"revoke", "accept"} => r.invite \in Invite /\ invitation[r.invite] # None

\* What was checked under the lock still holds at the commit.
Sound(r) ==
  /\ r.kind \in {"invite", "revoke", "rename", "transfer"} => r.actor \in Owners
  /\ r.kind = "transfer" => r.user \in Members
  /\ r.kind = "remove" => role[r.user] = "member" /\ (r.actor = r.user \/ r.actor \in Owners)
  /\ r.kind = "accept" =>
       /\ invitation[r.invite].user = r.actor /\ Pending(r.invite) /\ r.inTime
       /\ r.actor \in Members \/ r.seats = 0 \/ Cardinality(Members) < r.seats

RequestsAreSound ==
  \A w \in Worker :
    request[w] # None =>
      /\ WellFormed(request[w])
      /\ request[w].checked => lockedBy = w /\ Sound(request[w])

\* Before there is an organization there is nothing.
NothingBefore ==
  named = None =>
    /\ \A u \in User : role[u] = "none"
    /\ \A i \in Invite : invitation[i] = None
    /\ \A w \in Worker : request[w] = None

\* OneOwner needs that a checked transfer is still the owner's, hence the lock.
TeamInv == TeamTypes /\ NothingBefore /\ RequestsAreSound /\ OneOwner

LEMMA TeamInvInit == TeamInit => TeamInv
  BY NobodyAssumption
     DEF TeamInit, TeamInv, TeamTypes, NothingBefore, RequestsAreSound, OneOwner
-----------------------------------------------------------------------------
(* Steps that write no row *)

LEMMA AskedStep ==
  ASSUME TeamInv, named # None,
         NEW w \in Worker, NEW kind \in Kind, NEW a \in User, NEW u \in User,
         NEW i \in Invite \cup {None}, kind = "transfer" => u # a,
         kind \in {"revoke", "accept"} => i \in Invite /\ invitation[i] # None,
         Asks(w, kind, a, u, i)
  PROVE  TeamInv'
<1> DEFINE r == [kind |-> kind, actor |-> a, user |-> u, invite |-> i,
                 inTime |-> kind = "accept" /\ ~invitation[i].expired,
                 checked |-> FALSE, seats |-> Seats]
<1>1. /\ UNCHANGED <<role, invitation, named, upgraded, lockedBy>>
      /\ request' = [request EXCEPT ![w] = r] /\ r \in Request
  BY DEF Asks, Request
<1>2. TeamTypes' /\ NothingBefore' /\ OneOwner'
  BY <1>1 DEF TeamInv, TeamTypes, NothingBefore, OneOwner, Owners
<1>3. RequestsAreSound'
  <2> SUFFICES ASSUME NEW v \in Worker, (request[v] # None)'
               PROVE  /\ WellFormed(request[v])'
                      /\ (request[v].checked => lockedBy = v /\ Sound(request[v]))'
    BY DEF RequestsAreSound
  <2>1. CASE v = w
    <3>1. request'[v] = r
      BY <2>1, <1>1 DEF TeamInv, TeamTypes
    <3>2. WellFormed(request[v])' /\ ~(request[v].checked)'
      BY <3>1, <1>1 DEF WellFormed
    <3> QED BY <3>2
  <2>2. CASE v # w
    <3>1. request'[v] = request[v]
      BY <2>2, <1>1 DEF TeamInv, TeamTypes
    <3> QED BY <3>1, <1>1 DEF TeamInv, RequestsAreSound, WellFormed, Sound, Pending, Owners, Members
  <2> QED BY <2>1, <2>2
<1> QED BY <1>2, <1>3 DEF TeamInv

LEMMA AskStep ==
  ASSUME TeamInv, NEW w \in Worker, AskSomething(w)
  PROVE  TeamInv'
<1> USE AskedStep DEF Kind
<1> PICK a \in User :
      \/ AskToRename(w, a)
      \/ \E u \in User : AskToInvite(w, a, u) \/ AskToTransfer(w, a, u) \/ AskToRemove(w, a, u)
      \/ \E i \in Invite : AskToRevoke(w, a, i) \/ AskToAccept(w, a, i)
  BY DEF AskSomething
<1>1. CASE AskToRename(w, a)
  BY <1>1 DEF AskToRename, TeamInv, NothingBefore, Members
<1>2. ASSUME NEW u \in User, AskToInvite(w, a, u) \/ AskToTransfer(w, a, u) \/ AskToRemove(w, a, u)
      PROVE  TeamInv'
  <2>1. named # None
    BY <1>2 DEF AskToInvite, AskToTransfer, AskToRemove, TeamInv, NothingBefore, Members, Owners
  <2>2. CASE AskToInvite(w, a, u)
    BY <2>1, <2>2 DEF AskToInvite
  <2>3. CASE AskToTransfer(w, a, u)
    BY <2>1, <2>3 DEF AskToTransfer
  <2>4. CASE AskToRemove(w, a, u)
    BY <2>1, <2>4 DEF AskToRemove
  <2> QED BY <1>2, <2>2, <2>3, <2>4
<1>3. ASSUME NEW i \in Invite, AskToRevoke(w, a, i) \/ AskToAccept(w, a, i)
      PROVE  TeamInv'
  <2>1. named # None /\ invitation[i] # None
    BY <1>3 DEF AskToRevoke, AskToAccept, MayAccept, Pending, TeamInv, NothingBefore
  <2>2. CASE AskToRevoke(w, a, i)
    BY <2>1, <2>2 DEF AskToRevoke
  <2>3. CASE AskToAccept(w, a, i)
    BY <2>1, <2>3 DEF AskToAccept
  <2> QED BY <1>3, <2>2, <2>3
<1> QED BY <1>1, <1>2, <1>3

LEMMA EnterStep ==
  ASSUME TeamInv, NEW w \in Worker, Enter(w)
  PROVE  TeamInv'
<1> DEFINE r == request[w]
           new == [r EXCEPT !.checked = TRUE,
                            !.seats = IF r.kind = "accept" THEN SeatLimit ELSE @]
<1>1. /\ r \in Request /\ Allowed(r) /\ lockedBy = None /\ lockedBy' = w
      /\ UNCHANGED <<role, invitation, named, upgraded>> /\ WellFormed(r)
  BY DEF Enter, MayLockTeam, TeamInv, TeamTypes, RequestsAreSound
<1>2. /\ request' = [request EXCEPT ![w] = new] /\ new \in Request /\ new.checked
      /\ new.kind = r.kind /\ new.actor = r.actor /\ new.user = r.user
      /\ new.invite = r.invite /\ new.inTime = r.inTime
      /\ (r.kind = "accept" => new.seats = SeatLimit)
  BY <1>1 DEF Enter, TeamInv, TeamTypes, Request, SeatLimit
<1> HIDE DEF new
<1>3. TeamTypes' /\ NothingBefore' /\ OneOwner'
  <2>1. TeamTypes'
    BY <1>1, <1>2 DEF TeamInv, TeamTypes
  <2>2. NothingBefore'
    <3>1. named # None
      BY DEF Enter, TeamInv, NothingBefore
    <3> QED BY <3>1, <1>1 DEF NothingBefore
  <2>3. OneOwner'
    BY <1>1 DEF TeamInv, OneOwner, Owners
  <2> QED BY <2>1, <2>2, <2>3
<1>4. RequestsAreSound'
  <2> SUFFICES ASSUME NEW v \in Worker, (request[v] # None)'
               PROVE  /\ WellFormed(request[v])'
                      /\ (request[v].checked => lockedBy = v /\ Sound(request[v]))'
    BY DEF RequestsAreSound
  <2>1. CASE v = w
    <3>1. request'[v] = new
      BY <2>1, <1>2 DEF TeamInv, TeamTypes
    <3>2. WellFormed(request[v])'
      BY <3>1, <1>1, <1>2 DEF WellFormed
    <3>3. Sound(request[v])'
      <4>1. Sound(new)
        BY <1>1, <1>2 DEF Sound, Allowed, OwnedBy, MayJoin, Pending, MayLeave, SeatLeft,
                          Request, Kind
      <4> QED BY <4>1, <3>1, <1>1 DEF Sound, Pending, Owners, Members
    <3> QED BY <2>1, <3>2, <3>3, <1>1
  <2>2. CASE v # w
    <3>1. request'[v] = request[v] /\ ~request[v].checked
      BY <2>2, <1>1, <1>2, NobodyAssumption DEF TeamInv, TeamTypes, RequestsAreSound
    <3> QED BY <3>1, <1>1 DEF TeamInv, RequestsAreSound, WellFormed
  <2> QED BY <2>1, <2>2
<1> QED BY <1>3, <1>4 DEF TeamInv
-----------------------------------------------------------------------------
(* Steps that write rows: the others wait *)

\* A step by which w goes and releases the lock it has; nobody else has one.
Leaves(w) ==
  /\ request[w] # None /\ request' = [request EXCEPT ![w] = None]
  /\ lockedBy' = IF lockedBy = w THEN None ELSE lockedBy

\* Whoever waits was not checked, and needs only that rows do not disappear.
LEMMA OthersAreSound ==
  ASSUME TeamInv, NEW w \in Worker, Leaves(w),
         \A i \in Invite : invitation[i] # None => invitation'[i] # None,
         request[w].checked \/ UNCHANGED <<role, invitation>>
  PROVE  RequestsAreSound'
<1> SUFFICES ASSUME NEW v \in Worker, (request[v] # None)'
             PROVE  /\ WellFormed(request[v])'
                    /\ (request[v].checked => lockedBy = v /\ Sound(request[v]))'
  BY DEF RequestsAreSound
<1>1. v # w /\ request'[v] = request[v] /\ request[v] # None
  BY DEF Leaves, TeamInv, TeamTypes
<1>2. WellFormed(request[v])'
  BY <1>1 DEF TeamInv, RequestsAreSound, WellFormed
<1>3. CASE request[w].checked
  <2>1. ~request[v].checked
    BY <1>1, <1>3 DEF Leaves, TeamInv, RequestsAreSound
  <2> QED BY <1>1, <1>2, <2>1
<1>4. CASE UNCHANGED <<role, invitation>>
  BY <1>1, <1>2, <1>4, NobodyAssumption
     DEF Leaves, TeamInv, RequestsAreSound, Sound, Pending, Owners, Members
<1> QED BY <1>3, <1>4

LEMMA LeavesTypes ==
  ASSUME TeamInv, NEW w \in Worker, Leaves(w)
  PROVE  /\ request' \in [Worker -> Request \cup {None}]
         /\ lockedBy' \in Worker \cup {None} /\ named # None
  BY DEF TeamInv, TeamTypes, Leaves, NothingBefore

LEMMA RollbackStep ==
  ASSUME TeamInv, NEW w \in Worker, RollbackRequest(w)
  PROVE  TeamInv'
<1>1. Leaves(w) /\ UNCHANGED <<role, invitation, named, upgraded>>
  BY DEF RollbackRequest, Leaves
<1>2. RequestsAreSound'
  BY <1>1, OthersAreSound
<1>3. TeamTypes' /\ NothingBefore' /\ OneOwner'
  BY <1>1, LeavesTypes DEF TeamInv, TeamTypes, NothingBefore, OneOwner, Owners
<1> QED BY <1>2, <1>3 DEF TeamInv

\* What a request writes keeps the types, the rows and the one owner.
LEMMA WritesAreSafe ==
  ASSUME TeamInv, NEW w \in Worker, request[w] # None, request[w].checked, Writes(request[w])
  PROVE  /\ role' \in [User -> {"none", "member", "owner"}]
         /\ invitation' \in [Invite -> Invitation \cup {None}]
         /\ named' \in User
         /\ \A i \in Invite : invitation[i] # None => invitation'[i] # None
         /\ \E u \in User : Owners' = {u}
<1> DEFINE r == request[w]
<1>1. /\ r \in Request /\ WellFormed(r) /\ Sound(r) /\ named \in User
      /\ role \in [User -> {"none", "member", "owner"}]
      /\ invitation \in [Invite -> Invitation \cup {None}]
      /\ None \notin Invitation
  BY RowsAssumption DEF TeamInv, TeamTypes, RequestsAreSound, NothingBefore
<1>2. PICK o \in User : Owners = {o}
  BY <1>1, NobodyAssumption DEF TeamInv, OneOwner
<1>3. r.actor \in User /\ r.user \in User /\ r.kind \in Kind
  BY <1>1 DEF Request
<1>4. CASE r.kind = "invite"
  <2>1. PICK i \in Invite :
          invitation' = [j \in Invite |->
            IF j = i THEN [user |-> r.user, state |-> "pending", expired |-> FALSE]
            ELSE IF j \in PendingOf(r.user) THEN Deleted(j) ELSE invitation[j]]
    BY <1>4 DEF Writes
  <2>2. [user |-> r.user, state |-> "pending", expired |-> FALSE] \in Invitation
    BY <1>3 DEF Invitation
  <2>3. \A j \in PendingOf(r.user) : Deleted(j) \in Invitation
    BY <1>1 DEF PendingOf, Pending, Deleted, Invitation
  <2>4. invitation' \in [Invite -> Invitation \cup {None}]
    BY <1>1, <2>1, <2>2, <2>3
  <2>5. \A j \in Invite : invitation[j] # None => invitation'[j] # None
    BY <1>1, <2>1, <2>2, <2>3
  <2> QED BY <1>1, <1>2, <1>4, <2>4, <2>5 DEF Writes, Owners
<1>5. CASE r.kind = "revoke"
  <2>1. r.invite \in Invite /\ invitation[r.invite] \in Invitation
    BY <1>1, <1>5 DEF WellFormed
  <2>2. Deleted(r.invite) \in Invitation
    BY <2>1 DEF Deleted, Invitation
  <2>3. /\ invitation' = invitation \/ invitation' = [invitation EXCEPT ![r.invite] = Deleted(r.invite)]
        /\ UNCHANGED <<role, named>>
    BY <1>5 DEF Writes
  <2> QED BY <1>1, <1>2, <2>1, <2>2, <2>3 DEF Owners
<1>6. CASE r.kind = "accept"
  <2>1. r.invite \in Invite /\ invitation[r.invite] \in Invitation
    BY <1>1, <1>6 DEF WellFormed
  <2>2. [invitation[r.invite] EXCEPT !.state = "accepted"] \in Invitation
    BY <2>1 DEF Invitation
  <2>3. /\ invitation' = [invitation EXCEPT ![r.invite] = [invitation[r.invite] EXCEPT !.state = "accepted"]]
        /\ role' = IF r.actor \in Members THEN role ELSE [role EXCEPT ![r.actor] = "member"]
        /\ UNCHANGED named
    BY <1>6 DEF Writes
  <2>4. Owners' = {o} /\ role' \in [User -> {"none", "member", "owner"}]
    BY <1>1, <1>2, <1>3, <2>3 DEF Owners, Members
  <2> QED BY <1>1, <2>1, <2>2, <2>3, <2>4
<1>7. CASE r.kind = "rename"
  BY <1>1, <1>2, <1>3, <1>7 DEF Writes, Owners
<1>8. CASE r.kind = "transfer"
  <2>1. r.actor = o /\ r.user # o
    BY <1>1, <1>2, <1>8 DEF Sound, WellFormed
  <2>2. /\ role' = [role EXCEPT ![r.user] = "owner", ![r.actor] = "member"]
        /\ UNCHANGED <<invitation, named>>
    BY <1>8 DEF Writes
  <2>3. Owners' = {r.user}
    BY <1>1, <1>2, <1>3, <2>1, <2>2 DEF Owners
  <2> QED BY <1>1, <1>3, <2>2, <2>3
<1>9. CASE r.kind = "remove"
  <2>1. role[r.user] = "member"
    BY <1>1, <1>9 DEF Sound
  <2>2. role' = [role EXCEPT ![r.user] = "none"] /\ UNCHANGED <<invitation, named>>
    BY <1>9 DEF Writes
  <2> QED BY <1>1, <1>2, <1>3, <2>1, <2>2 DEF Owners
<1> QED BY <1>3, <1>4, <1>5, <1>6, <1>7, <1>8, <1>9 DEF Kind

LEMMA CommitStep ==
  ASSUME TeamInv, NEW w \in Worker, CommitRequest(w)
  PROVE  TeamInv'
<1>1. Leaves(w) /\ request[w].checked /\ Writes(request[w]) /\ UNCHANGED upgraded
  BY DEF CommitRequest, Leaves
<1>2. request[w] # None
  BY <1>1 DEF Leaves
<1>3. RequestsAreSound'
  BY <1>1, <1>2, WritesAreSafe, OthersAreSound
<1>4. TeamTypes' /\ NothingBefore' /\ OneOwner'
  BY <1>1, <1>2, WritesAreSafe, LeavesTypes, NobodyAssumption
     DEF TeamInv, TeamTypes, NothingBefore, OneOwner
<1> QED BY <1>3, <1>4 DEF TeamInv
-----------------------------------------------------------------------------
LEMMA CreateStep ==
  ASSUME TeamInv, NEW u \in User, CreateOrganization(u)
  PROVE  TeamInv'
<1>1. \A w \in Worker : request'[w] = None
  BY DEF CreateOrganization, TeamInv, NothingBefore
<1>2. Owners' = {u}
  BY DEF CreateOrganization, TeamInv, TeamTypes, NothingBefore, Owners
<1> QED BY <1>1, <1>2, NobodyAssumption
        DEF CreateOrganization, TeamInv, TeamTypes, NothingBefore, RequestsAreSound, OneOwner

LEMMA ExpireStep ==
  ASSUME TeamInv, NEW i \in Invite, Expire(i)
  PROVE  TeamInv'
<1> DEFINE expired == [invitation[i] EXCEPT !.expired = TRUE]
<1>1. /\ invitation[i] \in Invitation /\ expired \in Invitation
      /\ expired.user = invitation[i].user /\ expired.state = invitation[i].state
  BY DEF Expire, MayAccept, Pending, TeamInv, TeamTypes, Invitation
<1>2. /\ invitation' = [invitation EXCEPT ![i] = expired]
      /\ UNCHANGED <<role, named, upgraded, request, lockedBy>> /\ named # None
  BY <1>1, NobodyAssumption DEF Expire, MayAccept, Pending, TeamInv, NothingBefore
<1> HIDE DEF expired
<1>3. TeamTypes' /\ NothingBefore' /\ OneOwner'
  BY <1>1, <1>2 DEF TeamInv, TeamTypes, NothingBefore, OneOwner, Owners
<1>4. RequestsAreSound'
  BY <1>1, <1>2, RowsAssumption
     DEF TeamInv, TeamTypes, RequestsAreSound, WellFormed, Sound, Pending, Owners, Members
<1> QED BY <1>3, <1>4 DEF TeamInv

LEMMA StillStep ==
  ASSUME TeamInv, ChangePlan \/ UNCHANGED teamVars
  PROVE  TeamInv'
<1>1. UNCHANGED <<role, invitation, named, request, lockedBy>> /\ upgraded' \in BOOLEAN
  BY DEF ChangePlan, teamVars, TeamInv, TeamTypes
<1>2. TeamTypes' /\ NothingBefore' /\ OneOwner'
  BY <1>1 DEF TeamInv, TeamTypes, NothingBefore, OneOwner, Owners
<1>3. RequestsAreSound'
  BY <1>1 DEF TeamInv, RequestsAreSound, WellFormed, Sound, Pending, Owners, Members
<1> QED BY <1>2, <1>3 DEF TeamInv

LEMMA TeamInvStep == TeamInv /\ [TeamNext]_teamVars => TeamInv'
<1> SUFFICES ASSUME TeamInv, [TeamNext]_teamVars PROVE TeamInv'
  OBVIOUS
<1>1. ASSUME NEW u \in User, CreateOrganization(u) PROVE TeamInv'
  BY <1>1, CreateStep
<1>2. ASSUME NEW w \in Worker,
             AskSomething(w) \/ Enter(w) \/ CommitRequest(w) \/ RollbackRequest(w)
      PROVE  TeamInv'
  BY <1>2, AskStep, EnterStep, CommitStep, RollbackStep
<1>3. ASSUME NEW i \in Invite, Expire(i) PROVE TeamInv'
  BY <1>3, ExpireStep
<1>4. CASE ChangePlan \/ UNCHANGED teamVars
  BY <1>4, StillStep
<1> QED BY <1>1, <1>2, <1>3, <1>4 DEF TeamNext

\* In every reachable state of an organization's members and invitations.
THEOREM TeamInvariant == TeamSpec => []TeamInv
  BY TeamInvInit, TeamInvStep, PTL DEF TeamSpec

\* An organization has exactly one owner, for any number of requests at once.
THEOREM OneOwnerAlways == TeamSpec => []OneOwner
<1>1. TeamInv => OneOwner
  BY DEF TeamInv
<1> QED BY <1>1, TeamInvariant, PTL
-----------------------------------------------------------------------------
(* Who decides, and who joins *)

LEMMA WhoEndsRequests ==
  ASSUME TeamInv, [TeamNext]_teamVars, NEW w \in Worker, request[w] # None, request[w].checked,
         request'[w] = None
  PROVE  RollbackRequest(w) \/ CommitRequest(w)
<1>1. ASSUME NEW v \in Worker, AskSomething(v) PROVE FALSE
  <2>1. /\ request[v] = None /\ \E r : request' = [request EXCEPT ![v] = r]
    BY <1>1 DEF AskSomething, AskToInvite, AskToRevoke, AskToAccept, AskToRename,
                AskToTransfer, AskToRemove, Asks
  <2> QED BY <2>1 DEF TeamInv, TeamTypes
<1>2. ASSUME NEW v \in Worker, Enter(v) PROVE FALSE
  <2>1. v # w
    BY <1>2 DEF Enter
  <2> QED BY <1>2, <2>1 DEF Enter, TeamInv, TeamTypes
<1>3. ASSUME NEW v \in Worker, CommitRequest(v) \/ RollbackRequest(v) PROVE v = w
  BY <1>3 DEF CommitRequest, RollbackRequest, TeamInv, TeamTypes
<1>4. CASE UNCHANGED request
  BY <1>4
<1>5. ASSUME NEW i \in Invite, Expire(i) PROVE FALSE
  BY <1>5 DEF Expire
<1>6. ASSUME NEW u \in User, CreateOrganization(u) PROVE FALSE
  BY <1>6 DEF CreateOrganization
<1>7. ChangePlan \/ UNCHANGED teamVars => UNCHANGED request
  BY DEF ChangePlan, teamVars
<1> QED BY <1>1, <1>2, <1>3, <1>4, <1>5, <1>6, <1>7 DEF TeamNext

LEMMA DecisionStep ==
  ASSUME TeamInv, [TeamNext]_teamVars, NEW w \in Worker, request[w] # None, request[w].checked,
         request'[w] = None,
         \/ named' # named \/ Owners' # Owners
         \/ \E i \in Invite : invitation[i] = None /\ invitation'[i] # None
         \/ \E u \in User \ {request[w].actor} : role[u] # "none" /\ role'[u] = "none"
  PROVE  request[w].actor \in Owners
<1> DEFINE r == request[w]
<1>1. r \in Request /\ WellFormed(r) /\ Sound(r)
  BY DEF TeamInv, TeamTypes, RequestsAreSound
<1>2. CASE RollbackRequest(w)
  BY <1>2 DEF RollbackRequest, Owners
<1>3. CASE CommitRequest(w)
  <2>1. Writes(r)
    BY <1>3 DEF CommitRequest
  <2>2. CASE r.kind \in {"invite", "revoke", "rename", "transfer"}
    BY <1>1, <2>2 DEF Sound
  <2>3. CASE r.kind = "accept"
    <3>1. /\ role' = IF r.actor \in Members THEN role ELSE [role EXCEPT ![r.actor] = "member"]
          /\ invitation' = [invitation EXCEPT ![r.invite].state = "accepted"]
          /\ UNCHANGED named
      BY <2>1, <2>3 DEF Writes
    <3>2. r.actor \in User /\ r.invite \in Invite /\ invitation[r.invite] # None
      BY <1>1, <2>3 DEF Request, WellFormed
    <3>3. Owners' = Owners /\ \A u \in User : role'[u] = "none" => role[u] = "none"
      BY <3>1, <3>2 DEF TeamInv, TeamTypes, Owners, Members
    <3>4. \A i \in Invite : invitation[i] = None => invitation'[i] = None
      BY <3>1, <3>2 DEF TeamInv, TeamTypes
    <3> QED BY <3>1, <3>3, <3>4
  <2>4. CASE r.kind = "remove"
    <3>1. role' = [role EXCEPT ![r.user] = "none"] /\ UNCHANGED <<invitation, named>>
      BY <2>1, <2>4 DEF Writes
    <3>2. role[r.user] = "member" /\ (r.actor = r.user \/ r.actor \in Owners)
      BY <1>1, <2>4 DEF Sound
    <3>3. Owners' = Owners
      BY <3>1, <3>2 DEF TeamInv, TeamTypes, Owners
    <3>4. \A u \in User : role[u] # "none" /\ role'[u] = "none" => u = r.user
      BY <3>1 DEF TeamInv, TeamTypes
    <3> QED BY <3>1, <3>2, <3>3, <3>4
  <2> QED BY <1>1, <2>2, <2>3, <2>4 DEF Request, Kind
<1> QED BY <1>2, <1>3, WhoEndsRequests

\* What only an owner may decide is decided by who owns the organization at the
\* commit, however late that is.
THEOREM OwnersDecideAlways == TeamSpec => OwnersDecide
<1> DEFINE A == \A w \in Worker :
       request[w] # None /\ request[w].checked /\ request'[w] = None
       /\ (\/ named' # named \/ Owners' # Owners
           \/ \E i \in Invite : invitation[i] = None /\ invitation'[i] # None
           \/ \E u \in User \ {request[w].actor} : role[u] # "none" /\ role'[u] = "none")
       => request[w].actor \in Owners
<1>1. TeamInv /\ [TeamNext]_teamVars => [A]_teamVars
  BY DecisionStep
<1> QED BY <1>1, TeamInvariant, PTL DEF TeamSpec, OwnersDecide

\* A role is given by the creation of the organization or by a commit.
LEMMA WhoGivesRoles ==
  ASSUME [TeamNext]_teamVars, named # None, role' # role
  PROVE  \E w \in Worker : CommitRequest(w)
<1>1. ASSUME NEW w \in Worker, AskSomething(w) PROVE FALSE
  BY <1>1 DEF AskSomething, AskToInvite, AskToRevoke, AskToAccept, AskToRename, AskToTransfer,
              AskToRemove, Asks
<1> QED BY <1>1 DEF TeamNext, CreateOrganization, Enter, RollbackRequest, ChangePlan, Expire,
                    teamVars

LEMMA JoinStep ==
  ASSUME TeamInv, [TeamNext]_teamVars, NEW u \in User, named # None, role[u] = "none",
         role'[u] # "none"
  PROVE  \E w \in Worker, i \in Invite :
           /\ request[w] # None /\ request[w].invite = i /\ request[w].actor = u
           /\ invitation[i].user = u /\ Pending(i) /\ request[w].inTime
           /\ invitation'[i].state = "accepted"
           /\ request[w].seats = 0 \/ Cardinality(Members)' <= request[w].seats
<1>1. PICK w \in Worker : CommitRequest(w)
  BY WhoGivesRoles
<1> DEFINE r == request[w]
<1>2. /\ r # None /\ r.checked /\ r \in Request /\ WellFormed(r) /\ Sound(r) /\ Writes(r)
      /\ r.actor \in User /\ r.user \in User /\ r.seats \in Nat /\ r.kind \in Kind
  BY <1>1, SeatsAssumption DEF CommitRequest, TeamInv, TeamTypes, RequestsAreSound, Request
<1>3. role \in [User -> {"none", "member", "owner"}] /\ u \notin Members
  BY DEF TeamInv, TeamTypes, Members
<1>4. r.kind = "accept"
  <2>1. CASE r.kind \in {"invite", "revoke", "rename"}
    BY <1>2, <2>1 DEF Writes
  <2>2. CASE r.kind = "transfer"
    <3>1. role' = [role EXCEPT ![r.user] = "owner", ![r.actor] = "member"]
      BY <1>2, <2>2 DEF Writes
    <3>2. r.user # u /\ r.actor # u
      BY <1>2, <1>3, <2>2 DEF Sound, Members, Owners
    <3> QED BY <1>2, <1>3, <3>1, <3>2
  <2>3. CASE r.kind = "remove"
    <3>1. role' = [role EXCEPT ![r.user] = "none"]
      BY <1>2, <2>3 DEF Writes
    <3> QED BY <1>2, <1>3, <3>1
  <2> QED BY <1>2, <2>1, <2>2, <2>3 DEF Kind
<1>5. /\ role' = IF r.actor \in Members THEN role ELSE [role EXCEPT ![r.actor] = "member"]
      /\ invitation' = [invitation EXCEPT ![r.invite].state = "accepted"]
      /\ r.invite \in Invite /\ invitation[r.invite] \in Invitation
  BY <1>2, <1>4, RowsAssumption DEF Writes, WellFormed, TeamInv, TeamTypes
<1>6. r.actor = u
  BY <1>2, <1>3, <1>5
<1>7. invitation'[r.invite].state = "accepted"
  BY <1>5 DEF TeamInv, TeamTypes, Invitation
<1>8. r.seats = 0 \/ Cardinality(Members)' <= r.seats
  <2>1. Members' = Members \cup {u}
    BY <1>3, <1>5, <1>6 DEF Members
  <2>2. IsFiniteSet(Members)
    BY UsersAssumption, FS_Subset DEF Members
  <2>3. Cardinality(Members') = Cardinality(Members) + 1 /\ Cardinality(Members) \in Nat
    BY <1>3, <2>1, <2>2, FS_AddElement, FS_CardinalityType
  <2>4. r.seats = 0 \/ Cardinality(Members) < r.seats
    BY <1>2, <1>3, <1>4, <1>6 DEF Sound
  <2> QED BY <1>2, <2>3, <2>4
<1>9. invitation[r.invite].user = u /\ Pending(r.invite) /\ r.inTime
  BY <1>2, <1>4, <1>6 DEF Sound
<1> QED BY <1>2, <1>5, <1>6, <1>7, <1>8, <1>9

\* Members join by an invitation of theirs that is still pending, that had not
\* expired when the transaction began and that the same commit uses up, and
\* there are never more of them than the limit it relied on.
THEOREM JoinsByInvitationAlways == TeamSpec => JoinsByInvitation
<1> DEFINE A == \A u \in User : named # None /\ role[u] = "none" /\ role'[u] # "none" =>
       \E w \in Worker, i \in Invite :
         /\ request[w] # None /\ request[w].invite = i /\ request[w].actor = u
         /\ invitation[i].user = u /\ Pending(i) /\ request[w].inTime
         /\ invitation'[i].state = "accepted"
         /\ request[w].seats = 0 \/ Cardinality(Members)' <= request[w].seats
<1>1. TeamInv /\ [TeamNext]_teamVars => [A]_teamVars
  BY JoinStep
<1> QED BY <1>1, TeamInvariant, PTL DEF TeamSpec, JoinsByInvitation
-----------------------------------------------------------------------------
(* EntityWrites *)

\* What a client was shown is there, and is the record while the revision is.
SeenIsKnown ==
  \A c \in Client, r \in EntityRecord : seen[c][r] # None =>
    /\ record[r] # None /\ seen[c][r].revision <= record[r].revision
    /\ seen[c][r].revision = record[r].revision
         => seen[c][r] = record[r] \/ record[r].state = "gone"

AsksAboutSeen ==
  \A c \in Client : writing[c] # None =>
    \A i \in 1 .. Len(writing[c].items) : seen[c][writing[c].items[i]] # None

\* What a transaction has written it has locked; it replaces the row its client
\* was shown by a later revision or by none.
WritesAreOwn ==
  \A c \in Client, r \in EntityRecord :
    writing[c] # None /\ writing[c].wrote[r] # None =>
      /\ rowLock[r] = c /\ record[r] # None /\ record[r] = seen[c][r]
      /\ writing[c].wrote[r].revision >= record[r].revision
      /\ writing[c].wrote[r].revision = record[r].revision => writing[c].wrote[r].state = "gone"

WritesInv == WriteTypes /\ SeenIsKnown /\ AsksAboutSeen /\ WritesAreOwn

LEMMA WritesInvInit ==
  ASSUME WritesAssumption, WritesInit
  PROVE  WritesInv
  BY DEF WritesAssumption, WritesInit, WritesInv, WriteTypes, SeenIsKnown, AsksAboutSeen,
         WritesAreOwn, Nothing

\* Requests name records.
LEMMA ItemsAreRecords ==
  ASSUME WritesInv, NEW c \in Client, writing[c] # None, NEW i \in 1 .. Len(writing[c].items)
  PROVE  writing[c].items[i] \in EntityRecord
  BY ElementOfSeq DEF WritesInv, WriteTypes, WriteRequest

LEMMA CreateRecordStep ==
  ASSUME WritesAssumption, WritesInv, NEW c \in Client, NEW r \in EntityRecord, Create(c, r)
  PROVE  WritesInv'
<1> DEFINE new == [revision |-> 1, text |-> 0, state |-> "live"]
<1> USE DEF WritesAssumption, WritesInv, WriteTypes
<1>1. new \in RowOf
  BY DEF RowOf, Revision
<1>2. /\ record[r] = None /\ record' = [record EXCEPT ![r] = new]
      /\ seen' = [seen EXCEPT ![c][r] = new] /\ UNCHANGED <<rowLock, writing>>
  BY DEF Create
<1> HIDE DEF new
<1>3. WriteTypes'
  BY <1>1, <1>2
<1>4. SeenIsKnown'
  BY <1>1, <1>2 DEF SeenIsKnown, RowOf, Revision
<1>5. AsksAboutSeen'
  <2>1. None # new
    BY <1>1
  <2>2. \A d \in Client, q \in EntityRecord : seen[d][q] # None => seen'[d][q] # None
    BY <1>2, <2>1
  <2>3. \A d \in Client : writing[d] # None =>
          \A i \in 1 .. Len(writing[d].items) : writing[d].items[i] \in EntityRecord
    BY ItemsAreRecords
  <2> QED BY <1>2, <2>2, <2>3 DEF AsksAboutSeen
<1>6. WritesAreOwn'
  BY <1>1, <1>2 DEF WritesAreOwn
<1> QED BY <1>3, <1>4, <1>5, <1>6

LEMMA ReadStep ==
  ASSUME WritesAssumption, WritesInv, NEW c \in Client, NEW r \in EntityRecord, Read(c, r)
  PROVE  WritesInv'
<1> USE DEF WritesAssumption, WritesInv, WriteTypes
<1>2. /\ record[r] # None /\ writing[c] = None
      /\ seen' = [seen EXCEPT ![c][r] = record[r]] /\ UNCHANGED <<record, rowLock, writing>>
  BY DEF Read
<1>3. WriteTypes'
  BY <1>2
<1>4. SeenIsKnown'
  BY <1>2 DEF SeenIsKnown, RowOf, Revision
<1>5. AsksAboutSeen'
  BY <1>2 DEF AsksAboutSeen
<1>6. WritesAreOwn'
  BY <1>2 DEF WritesAreOwn
<1> QED BY <1>3, <1>4, <1>5, <1>6

LEMMA AskWriteStep ==
  ASSUME WritesAssumption, WritesInv, NEW c \in Client, Ask(c)
  PROVE  WritesInv'
<1> USE DEF WritesAssumption, WritesInv, WriteTypes
<1>1. PICK kind \in WriteKind, bulk \in BOOLEAN :
        \E items \in [1 .. IF bulk THEN BulkItems ELSE 1 -> EntityRecord] :
          /\ \A i \in DOMAIN items : seen[c][items[i]] # None
          /\ writing' = [writing EXCEPT ![c] =
               [kind |-> kind, bulk |-> bulk, items |-> items, next |-> 1, wrote |-> Nothing]]
  BY DEF Ask
<1> DEFINE n == IF bulk THEN BulkItems ELSE 1
<1>2. n \in Nat
  OBVIOUS
<1>9. PICK items \in [1 .. n -> EntityRecord] :
        /\ \A i \in DOMAIN items : seen[c][items[i]] # None
        /\ writing' = [writing EXCEPT ![c] =
             [kind |-> kind, bulk |-> bulk, items |-> items, next |-> 1, wrote |-> Nothing]]
  BY <1>1
<1> HIDE DEF n
<1>3. items \in Seq(EntityRecord) /\ Len(items) = n
  BY <1>2, SeqDef
<1> DEFINE new == [kind |-> kind, bulk |-> bulk, items |-> items, next |-> 1, wrote |-> Nothing]
<1>4. new \in WriteRequest /\ UNCHANGED <<record, rowLock, seen>>
  BY <1>3 DEF Ask, WriteRequest, Nothing
<1>5. WriteTypes'
  BY <1>9, <1>3, <1>4
<1>6. SeenIsKnown'
  BY <1>4 DEF SeenIsKnown
<1>7. AsksAboutSeen'
  BY <1>9, <1>3, <1>4 DEF AsksAboutSeen
<1>8. WritesAreOwn'
  BY <1>9, <1>4 DEF WritesAreOwn, Nothing
<1> QED BY <1>5, <1>6, <1>7, <1>8

\* What an open request is about.
LEMMA ItemFacts ==
  ASSUME WritesAssumption, WritesInv, NEW c \in Client, Open(c)
  PROVE  /\ writing[c] \in WriteRequest /\ Item(c) \in EntityRecord
         /\ seen[c][Item(c)] \in RowOf /\ record[Item(c)] \in RowOf
         /\ Before(c, Item(c)) \in RowOf
         /\ writing[c].next + 1 <= Len(writing[c].items) + 1
<1> USE DEF WritesInv, WriteTypes, Open, Item
<1>1. writing[c] \in WriteRequest /\ Len(writing[c].items) \in Nat
  BY LenProperties DEF WriteRequest
<1>2. writing[c].next \in 1 .. Len(writing[c].items)
  BY <1>1 DEF WriteRequest
<1>3. Item(c) \in EntityRecord
  BY <1>1, <1>2, ElementOfSeq DEF WriteRequest
<1>4. seen[c][Item(c)] # None
  BY <1>1, <1>2 DEF AsksAboutSeen
<1>5. seen[c][Item(c)] \in RowOf /\ record[Item(c)] \in RowOf
  BY <1>3, <1>4 DEF SeenIsKnown
<1>6. Before(c, Item(c)) \in RowOf
  BY <1>1, <1>3, <1>5 DEF Before, WriteRequest
<1> QED BY <1>1, <1>2, <1>3, <1>5, <1>6

LEMMA AfterType ==
  ASSUME NEW c \in Client, NEW r \in EntityRecord, NEW b \in RowOf, writing[c] \in WriteRequest
  PROVE  /\ After(c, r, b) \in RowOf
         /\ After(c, r, b).revision >= b.revision
         /\ After(c, r, b).revision = b.revision => After(c, r, b).state = "gone"
<1> DEFINE kind == writing[c].kind
           new == [b EXCEPT !.revision = NextRevision(kind, b)]
<1>1. kind \in {"update", "delete", "restore"}
  BY DEF WriteRequest, WriteKind
<1>2. new \in RowOf /\ new.revision = b.revision + 1 /\ b.revision \in Nat
  BY DEF RowOf, Revision, NextRevision
<1>3. CASE kind = "update"
  <2>1. After(c, r, b) = [new EXCEPT !.text = 1 - @]
    BY <1>3 DEF After
  <2> HIDE DEF new
  <2>2. 1 - new.text \in {0, 1}
    BY <1>2 DEF RowOf
  <2> QED BY <1>2, <2>1, <2>2 DEF RowOf, Revision
<1>4. CASE kind = "restore"
  <2>1. After(c, r, b) = [new EXCEPT !.state = "live"]
    BY <1>4 DEF After
  <2> HIDE DEF new
  <2> QED BY <1>2, <2>1 DEF RowOf, Revision
<1>5. CASE kind = "delete"
  <2>1. After(c, r, b) = IF r \in Soft THEN [new EXCEPT !.state = "deleted"]
                                       ELSE [b EXCEPT !.state = "gone"]
    BY <1>5 DEF After
  <2> HIDE DEF new
  <2> QED BY <1>2, <2>1 DEF RowOf, Revision
<1> QED BY <1>1, <1>3, <1>4, <1>5

\* What an item leaves of its request.
LEMMA AdvanceTypes ==
  ASSUME NEW q \in WriteRequest, NEW w \in [EntityRecord -> RowOf \cup {None}]
  PROVE  /\ [q EXCEPT !.next = @ + 1] \in WriteRequest
         /\ [q EXCEPT !.next = @ + 1, !.wrote = w] \in WriteRequest
<1> USE DEF WriteRequest
<1>1. \A n \in Nat \ {0} : [q EXCEPT !.next = n] \in WriteRequest
  OBVIOUS
<1>2. ASSUME NEW x, x = [q EXCEPT !.next = @ + 1, !.wrote = w]
      PROVE  x \in WriteRequest
  <2>1. /\ x.kind = q.kind /\ x.bulk = q.bulk /\ x.items = q.items /\ x.next = q.next + 1
        /\ x.wrote = w
    BY <1>2
  <2>2. x = [kind |-> x.kind, bulk |-> x.bulk, items |-> x.items, next |-> x.next, wrote |-> x.wrote]
    BY <1>2
  <2> QED BY <2>1, <2>2
<1> QED BY <1>1, <1>2, SMTT(40)

LEMMA WriteStep ==
  ASSUME WritesAssumption, WritesInv, NEW c \in Client, WriteItem(c)
  PROVE  WritesInv'
<1> DEFINE r == Item(c)
           b == Before(c, r)
           a == After(c, r, b)
<1> USE DEF WritesAssumption, WritesInv, WriteTypes
<1>1. /\ writing[c] \in WriteRequest /\ writing[c] # None
      /\ r \in EntityRecord /\ seen[c][r] \in RowOf /\ record[r] \in RowOf
      /\ b \in RowOf /\ writing[c].next + 1 <= Len(writing[c].items) + 1
  BY ItemFacts DEF WriteItem, Open
<1>2. a \in RowOf /\ a.revision >= b.revision /\ (a.revision = b.revision => a.state = "gone")
  BY <1>1, AfterType
<1>3. /\ rowLock[r] \in {None, c} /\ UNCHANGED <<record, seen>>
      /\ rowLock' = [rowLock EXCEPT ![r] = c]
      /\ writing' = [writing EXCEPT ![c].next = @ + 1, ![c].wrote[r] = a]
      /\ b.revision = seen[c][r].revision /\ b.state \in {"live", "deleted"}
  BY DEF WriteItem, Free, Admitted, IsExpected, Found
\* A row is written once: what was written no longer has the revision named.
<1>4. b = record[r] /\ record[r] = seen[c][r]
  <2>1. /\ seen[c][r] # None /\ seen[c][r].revision <= record[r].revision
        /\ seen[c][r].revision = record[r].revision
             => seen[c][r] = record[r] \/ record[r].state = "gone"
    BY <1>1 DEF SeenIsKnown
  <2>2. CASE writing[c].wrote[r] = None
    BY <1>3, <2>1, <2>2 DEF Before
  <2>3. CASE writing[c].wrote[r] # None
    <3>1. b = writing[c].wrote[r] /\ record[r] = seen[c][r] /\ b.revision >= record[r].revision
          /\ (b.revision = record[r].revision => b.state = "gone")
      BY <1>1, <2>3 DEF Before, WritesAreOwn
    <3> QED BY <1>3, <3>1
  <2> QED BY <2>2, <2>3
<1>5. /\ \A d \in Client \ {c} : writing'[d] = writing[d]
      /\ writing'[c] \in WriteRequest /\ writing'[c].items = writing[c].items
      /\ writing'[c].next = writing[c].next + 1
      /\ writing'[c].wrote = [writing[c].wrote EXCEPT ![r] = a]
  <2> HIDE DEF r, a, b
  <2>1. writing'[c] = [writing[c] EXCEPT !.next = @ + 1, !.wrote[r] = a]
    BY <1>3
  <2> DEFINE q == writing[c]
             wrote == [q.wrote EXCEPT ![r] = a]
  <2>2. q \in WriteRequest /\ wrote \in [EntityRecord -> RowOf \cup {None}]
    BY <1>1, <1>2 DEF WriteRequest
  <2>3. writing'[c] = [q EXCEPT !.next = @ + 1, !.wrote = wrote]
    BY <2>1
  <2> HIDE DEF q, wrote
  <2>4. writing'[c] \in WriteRequest
    <3>1. [q EXCEPT !.next = @ + 1, !.wrote = wrote] \in WriteRequest
      BY <2>2, AdvanceTypes
    <3> QED BY <2>3, <3>1
  <2>5. /\ writing'[c].items = q.items /\ writing'[c].next = q.next + 1 /\ writing'[c].wrote = wrote
    BY <2>2, <2>3 DEF WriteRequest
  <2>6. /\ writing'[c].items = writing[c].items /\ writing'[c].next = writing[c].next + 1
        /\ writing'[c].wrote = [writing[c].wrote EXCEPT ![r] = a]
    BY <2>5 DEF q, wrote
  <2> QED BY <1>3, <2>4, <2>6
<1> HIDE DEF r, a, b
<1>6. WriteTypes'
  BY <1>1, <1>3, <1>5
<1>7. SeenIsKnown' /\ AsksAboutSeen'
  <2>1. UNCHANGED <<record, seen>>
    BY <1>3
  <2>2. \A d \in Client : writing'[d] # None =>
          writing[d] # None /\ writing'[d].items = writing[d].items
    BY <1>1, <1>5
  <2>3. AsksAboutSeen'
    <3> SUFFICES ASSUME NEW d \in Client, (writing[d] # None)',
                        NEW i \in (1 .. Len(writing[d].items))'
                 PROVE  (seen[d][writing[d].items[i]] # None)'
      BY DEF AsksAboutSeen
    <3>1. seen[d][writing[d].items[i]] # None
      BY <2>2 DEF AsksAboutSeen
    <3> QED BY <2>1, <2>2, <3>1
  <2> QED BY <1>1, <2>1, <2>3 DEF SeenIsKnown
<1>8. WritesAreOwn'
  BY <1>1, <1>2, <1>3, <1>4, <1>5, SMTT(40) DEF WritesAreOwn, WriteRequest, RowOf, Revision
<1> QED BY <1>6, <1>7, <1>8

LEMMA EndStep ==
  ASSUME WritesAssumption, WritesInv, NEW c \in Client, EndRequest(c), UNCHANGED <<record, seen>>
  PROVE  WritesInv'
  BY DEF WritesAssumption, WritesInv, WriteTypes, EndRequest, Unlock, SeenIsKnown, AsksAboutSeen,
         WritesAreOwn

LEMMA FailStep ==
  ASSUME WritesAssumption, WritesInv, NEW c \in Client, Open(c), FailItem(c)
  PROVE  WritesInv'
<1>1. CASE writing[c].bulk
  <2> USE DEF WritesAssumption, WritesInv, WriteTypes
  <2>1. /\ writing[c] \in WriteRequest /\ writing[c] # None
        /\ writing[c].next + 1 <= Len(writing[c].items) + 1
    BY ItemFacts DEF Open
  <2>2. /\ writing' = [writing EXCEPT ![c].next = @ + 1]
        /\ UNCHANGED <<record, seen, rowLock>>
    BY <1>1 DEF FailItem
  <2>3. /\ \A d \in Client \ {c} : writing'[d] = writing[d]
        /\ writing'[c] \in WriteRequest /\ writing'[c].items = writing[c].items
        /\ writing'[c].next = writing[c].next + 1 /\ writing'[c].wrote = writing[c].wrote
    <3>1. writing'[c] = [writing[c] EXCEPT !.next = @ + 1]
      BY <2>2
    <3>2. /\ writing'[c] \in WriteRequest /\ writing'[c].items = writing[c].items
          /\ writing'[c].next = writing[c].next + 1 /\ writing'[c].wrote = writing[c].wrote
      <4>1. writing[c].wrote \in [EntityRecord -> RowOf \cup {None}]
        BY <2>1 DEF WriteRequest
      <4>2. writing'[c] \in WriteRequest
        BY <2>1, <3>1, <4>1, AdvanceTypes
      <4> QED BY <2>1, <3>1, <4>2 DEF WriteRequest
    <3> QED BY <2>2, <3>2
  <2> QED BY <2>1, <2>2, <2>3 DEF SeenIsKnown, AsksAboutSeen, WritesAreOwn
<1>2. CASE ~writing[c].bulk
  BY <1>2, EndStep DEF FailItem
<1> QED BY <1>1, <1>2

LEMMA CommitWritesStep ==
  ASSUME WritesAssumption, WritesInv, NEW c \in Client, CommitWrites(c)
  PROVE  WritesInv'
<1> USE DEF WritesAssumption, WritesInv, WriteTypes
<1>1. /\ writing[c] \in WriteRequest /\ writing[c] # None
      /\ writing' = [writing EXCEPT ![c] = None] /\ rowLock' = Unlock(c)
      /\ record' = [r \in EntityRecord |-> Before(c, r)]
  BY DEF CommitWrites, EndRequest
<1>2. \A r \in EntityRecord : record'[r] # record[r] => writing[c].wrote[r] # None
  BY <1>1 DEF Before
<1>3. \A r \in EntityRecord : writing[c].wrote[r] # None =>
        /\ record'[r] = writing[c].wrote[r] /\ record'[r] \in RowOf
        /\ record[r] \in RowOf /\ record'[r].revision >= record[r].revision
        /\ record'[r].revision = record[r].revision => record'[r].state = "gone"
  BY <1>1 DEF Before, WritesAreOwn, WriteRequest
<1>4. \A d \in Client, r \in EntityRecord :
        seen'[d][r] = seen[d][r] \/ (d = c /\ writing[c].wrote[r] # None /\ seen'[d][r] = record'[r])
  BY <1>1 DEF CommitWrites, Wrote
<1>5. WriteTypes'
  <2>1. record' \in [EntityRecord -> RowOf \cup {None}]
    BY <1>1, <1>2, <1>3
  <2>2. seen' \in [Client -> [EntityRecord -> RowOf \cup {None}]]
    BY <1>1, <1>2, <1>3 DEF CommitWrites
  <2> QED BY <1>1, <2>1, <2>2 DEF Unlock
<1>6. SeenIsKnown'
  BY <1>2, <1>3, <1>4, <1>5 DEF SeenIsKnown, RowOf, Revision
<1>7. AsksAboutSeen'
  <2>1. \A d \in Client, r \in EntityRecord : seen[d][r] # None => seen'[d][r] # None
    BY <1>3, <1>4
  <2>2. \A d \in Client : writing[d] # None =>
          \A i \in 1 .. Len(writing[d].items) : writing[d].items[i] \in EntityRecord
    BY ItemsAreRecords
  <2> QED BY <1>1, <2>1, <2>2 DEF AsksAboutSeen
<1>8. WritesAreOwn'
  BY <1>1, <1>2, <1>4 DEF WritesAreOwn, Unlock
<1> QED BY <1>5, <1>6, <1>7, <1>8

LEMMA WritesInvNext ==
  ASSUME WritesAssumption
  PROVE  WritesInv /\ [WritesNext]_writeVars => WritesInv'
<1> SUFFICES ASSUME WritesInv, [WritesNext]_writeVars
             PROVE  WritesInv'
  OBVIOUS
<1>1. CASE UNCHANGED writeVars
  BY <1>1 DEF writeVars, WritesInv, WriteTypes, SeenIsKnown, AsksAboutSeen, WritesAreOwn
<1>2. CASE WritesNext
  <2>1. PICK c \in Client :
          \/ \E r \in EntityRecord : Create(c, r) \/ Read(c, r)
          \/ Ask(c) \/ WriteItem(c) \/ RefuseItem(c) \/ DeadlockDetected(c)
          \/ CommitWrites(c) \/ LoseConnection(c)
    BY <1>2 DEF WritesNext
  <2>2. CASE RefuseItem(c) \/ DeadlockDetected(c)
    BY <2>2, FailStep DEF RefuseItem, DeadlockDetected, WaitsFor
  <2>3. CASE LoseConnection(c)
    BY <2>3, EndStep DEF LoseConnection
  <2> QED BY <2>1, <2>2, <2>3, CreateRecordStep, ReadStep, AskWriteStep, WriteStep, CommitWritesStep
<1> QED BY <1>1, <1>2

\* What clients were shown is known, and what requests have written is locked
\* and replaces it.  (the generated handlers: read, update, delete, bulk)
THEOREM WritesInvariant ==
  ASSUME WritesAssumption
  PROVE  WritesSpec => []WritesInv
<1>1. WritesInit => WritesInv
  BY WritesInvInit
<1>2. WritesInv /\ [WritesNext]_writeVars => WritesInv'
  BY WritesInvNext
<1> QED BY <1>1, <1>2, PTL DEF WritesSpec

\* No operation changes a record and keeps its revision: who is shown a revision
\* is shown the record it stands for.
THEOREM RevisionsTellAlways ==
  ASSUME WritesAssumption
  PROVE  WritesSpec => []RevisionsTellContents
<1>1. WritesInv => RevisionsTellContents
  BY DEF WritesInv, SeenIsKnown, RevisionsTellContents
<1> QED BY <1>1, WritesInvariant, PTL

\* What a commit replaces is what its client was shown, whatever other requests
\* do between its checks and its COMMIT.
THEOREM NothingOverwrittenAlways ==
  ASSUME WritesAssumption
  PROVE  WritesSpec => NothingOverwritten
<1>1. WritesInv /\ [WritesNext]_writeVars => [OverwritesWhatWasSeen]_writeVars
  <2> SUFFICES ASSUME WritesInv, WritesNext, NEW d \in Client, NEW r \in EntityRecord,
                      writing[d] # None, writing'[d] = None, record'[r] # record[r]
               PROVE  record[r] = seen[d][r]
    BY DEF OverwritesWhatWasSeen
  <2>1. PICK c \in Client :
          \/ \E q \in EntityRecord : Create(c, q) \/ Read(c, q)
          \/ Ask(c) \/ WriteItem(c) \/ RefuseItem(c) \/ DeadlockDetected(c)
          \/ CommitWrites(c) \/ LoseConnection(c)
    BY DEF WritesNext
  <2>2. CommitWrites(c)
    BY <2>1 DEF Create, Read, Ask, WriteItem, RefuseItem, DeadlockDetected, FailItem, EndRequest,
                LoseConnection
  <2>3. c = d
    BY <2>2 DEF CommitWrites, EndRequest, WritesInv, WriteTypes
  <2>4. writing[c].wrote[r] # None
    BY <2>2 DEF CommitWrites, Before
  <2> QED BY <2>3, <2>4 DEF WritesInv, WritesAreOwn
<1> QED BY <1>1, WritesInvariant, PTL DEF WritesSpec, NothingOverwritten

-----------------------------------------------------------------------------
(* Accounts: how one user signs in.                                          *)

\* The kinds of requests that lock the profile, and those that ask for a code.
Locking == {"login", "setup", "email", "revoke", "enable", "disable", "password", "confirm"}
Coded == {"login", "email", "disable", "revoke", "password", "enable"}

\* How far a request is.
HoldsLetter(r) == r.kind \in {"reset", "verify"} /\ r.at > 1
HasVoided(r) ==
  \/ r.kind \in {"password", "confirm", "reset"} /\ r.at > 3
  \/ r.kind = "forgot" /\ r.at > 1
HasRevoked(r) ==
  \/ r.kind \in {"revoke", "enable"} /\ r.at = 3
  \/ r.kind = "disable" /\ r.at = 4
  \/ r.kind \in {"password", "confirm", "reset"} /\ r.at = 5
HasChecked(r) ==
  \/ r.kind = "login" /\ r.at = 2
  \/ r.kind = "oauth" /\ r.at = 3
  \/ r.kind = "token"

\* What goes with what in a request: a code was found under the lock of the
\* profile, and so was what enabling and confirming are about.
Formed(r) ==
  /\ r.at \in DOMAIN Path(r.kind)
  /\ r.letter # None <=> r.kind \in {"reset", "verify", "confirm"}
  /\ r.kind = "oauth" => r.identity \in Identity
  /\ r.code # None => r.at > 1 /\ r.kind \in Coded /\ r.row
  /\ r.kind = "setup" /\ r.at > 1 => r.row
  /\ r.row => profile # None \/ r.kind = "setup"
  /\ r.kind = "enable" /\ r.at > 1 =>
       /\ r.row /\ r.code # None /\ r.code.of >= 0 /\ r.code.secret = r.secret
       /\ profile # None /\ profile.secret = 0
  /\ r.kind = "confirm" /\ r.at > 1 => r.row /\ profile # None /\ profile.letter = r.letter

\* A request that may add a credential has proved the second factor, and one
\* that enables it ends all that have not.
Proves(r) ==
  /\ HasChecked(r) /\ Protected => r.secret = profile.secret \/ r.late
  /\ r.kind = "enable" /\ r.at = 3 => \A c \in Live : c \in r.ends \/ credential[c].late

\* The code is as good as it was when it was accepted.
StaysGood(r) ==
  r.code # None /\ r.kind # "enable" =>
    /\ Protected /\ r.code.secret = profile.secret
    /\ IF r.code.of = Recovery THEN profile.recovery ELSE r.code.of > profile.last

\* A letter that is held is unused, and what was voided was for a reset.
KeepsLetters(r) ==
  /\ HoldsLetter(r) => letter[r.letter] = r.kind
  /\ \A l \in r.voids : HasVoided(r) /\ letter[l] \in {None, "reset"}

EndsAll(r) ==
  HasRevoked(r) =>
    \A c \in r.before :
      \/ credential[c] = None
      \/ c \in r.ends
      \/ r.kind = "reset" /\ credential[c].kind = "token"

Fits(r) == Formed(r) /\ Proves(r) /\ StaysGood(r) /\ KeepsLetters(r) /\ EndsAll(r)

\* What two transactions cannot both have.
LettersApart(r, s) ==
  /\ HoldsLetter(r) => r.letter \notin s.voids /\ (HoldsLetter(s) => r.letter # s.letter)
  /\ HoldsLetter(s) => s.letter \notin r.voids
Apart(r, s) == ~(r.row /\ s.row) /\ LettersApart(r, s)

RequestsFit ==
  \A w \in Connection : doing[w] # None =>
    /\ Fits(doing[w])
    /\ \A v \in Connection \ {w} : doing[v] # None => Apart(doing[w], doing[v])

Early(r) == r.kind \in {"reset", "verify", "oauth"} /\ (r.kind = "oauth" => r.at = 1)

\* Without an account there is nothing.
NobodyYet ==
  ~HasAccount =>
    /\ Live = {} /\ profile = None /\ Linked = {}
    /\ \A w \in Connection : doing[w] # None => Early(doing[w])

\* A code that was accepted is not accepted again.
AcceptedIsSpent ==
  /\ ~Protected => accepted = {}
  /\ Protected => \A code \in accepted :
       /\ code.secret = profile.secret
       /\ IF code.of = Recovery THEN ~profile.recovery ELSE code.of <= profile.last

LatestIsUnused == profile # None /\ profile.letter # None => letter[profile.letter] = "email"

AccountsInv ==
  /\ SignedInWithSecondFactor /\ NobodyYet /\ AcceptedIsSpent /\ LatestIsUnused /\ RequestsFit

LEMMA AccountsInvInit == ASSUME AccountsAssumption, AccountsInit PROVE AccountsInv
<1>1. AccountTypes
  <2>1. 0 \in 0..MaxSecrets /\ 0 \in 0..MaxTime
    BY DEF AccountsAssumption
  <2> QED BY <2>1 DEF AccountsInit, AccountTypes
<1>2. ~Protected /\ Live = {}
  BY DEF AccountsInit, Protected, Live
<1>3. Linked = {}
  BY DEF AccountsInit, Linked, AccountsAssumption
<1> QED
  BY <1>1, <1>2, <1>3 DEF AccountsInit, AccountsInv, SignedInWithSecondFactor, NobodyYet,
     AcceptedIsSpent, LatestIsUnused, RequestsFit
-----------------------------------------------------------------------------
(* Where a transaction is *)

SignInKind == {"login", "setup", "email", "disable", "revoke", "enable", "password", "confirm",
               "reset", "verify", "forgot", "resend", "unlink", "oauth", "connect", "token"}

LEMMA Paths ==
  ASSUME NEW kind
  PROVE  /\ kind \in {"login", "setup", "email"} =>
                /\ Path(kind) = <<"profile", "commit">>
                /\ DOMAIN Path(kind) = 1..2
         /\ kind \in {"revoke", "enable"} =>
                /\ Path(kind) = <<"profile", "revoke", "commit">>
                /\ DOMAIN Path(kind) = 1..3
         /\ kind = "disable" =>
                /\ Path(kind) = <<"profile", "clear", "revoke", "commit">>
                /\ DOMAIN Path(kind) = 1..4
         /\ kind \in {"password", "confirm"} =>
                /\ Path(kind) = <<"profile", "account", "void", "revoke", "commit">>
                /\ DOMAIN Path(kind) = 1..5
         /\ kind = "reset" =>
                /\ Path(kind) = <<"letter", "account", "void", "revoke", "commit">>
                /\ DOMAIN Path(kind) = 1..5
         /\ kind = "verify" =>
                /\ Path(kind) = <<"letter", "account", "commit">>
                /\ DOMAIN Path(kind) = 1..3
         /\ kind = "forgot" => Path(kind) = <<"void", "commit">> /\ DOMAIN Path(kind) = 1..2
         /\ kind = "resend" => Path(kind) = <<"replace", "commit">> /\ DOMAIN Path(kind) = 1..2
         /\ kind = "unlink" => Path(kind) = <<"count", "commit">> /\ DOMAIN Path(kind) = 1..2
         /\ kind = "oauth" => Path(kind) = <<"link", "look", "commit">> /\ DOMAIN Path(kind) = 1..3
         /\ kind \in {"token", "connect"} => Path(kind) = <<"commit">> /\ DOMAIN Path(kind) = 1..1
<1>1. kind \in {"login", "setup", "email"} =>
          /\ Path(kind) = <<"profile", "commit">>
          /\ DOMAIN Path(kind) = 1..2
  BY DEF Path
<1>2. kind \in {"revoke", "enable"} =>
          /\ Path(kind) = <<"profile", "revoke", "commit">>
          /\ DOMAIN Path(kind) = 1..3
  BY DEF Path
<1>3. kind = "disable" =>
          /\ Path(kind) = <<"profile", "clear", "revoke", "commit">>
          /\ DOMAIN Path(kind) = 1..4
  BY DEF Path
<1>4. kind \in {"password", "confirm"} =>
          /\ Path(kind) = <<"profile", "account", "void", "revoke", "commit">>
          /\ DOMAIN Path(kind) = 1..5
  BY DEF Path
<1>5. kind = "reset" =>
          /\ Path(kind) = <<"letter", "account", "void", "revoke", "commit">>
          /\ DOMAIN Path(kind) = 1..5
  BY DEF Path
<1>6. kind = "verify" => Path(kind) = <<"letter", "account", "commit">> /\ DOMAIN Path(kind) = 1..3
  BY DEF Path
<1>7. kind = "forgot" => Path(kind) = <<"void", "commit">> /\ DOMAIN Path(kind) = 1..2
  BY DEF Path
<1>8. kind = "resend" => Path(kind) = <<"replace", "commit">> /\ DOMAIN Path(kind) = 1..2
  BY DEF Path
<1>9. kind = "unlink" => Path(kind) = <<"count", "commit">> /\ DOMAIN Path(kind) = 1..2
  BY DEF Path
<1>10. kind = "oauth" => Path(kind) = <<"link", "look", "commit">> /\ DOMAIN Path(kind) = 1..3
  BY DEF Path
<1>11. kind \in {"token", "connect"} => Path(kind) = <<"commit">> /\ DOMAIN Path(kind) = 1..1
  BY DEF Path
<1> QED
  BY <1>1, <1>2, <1>3, <1>4, <1>5, <1>6, <1>7, <1>8, <1>9, <1>10, <1>11

LEMMA Positions ==
  ASSUME NEW kind \in SignInKind, NEW at \in DOMAIN Path(kind)
  PROVE  /\ at \in 1..5
         /\ Path(kind)[at] # "commit" => at + 1 \in DOMAIN Path(kind)
         /\ Path(kind)[at] = "profile" => at = 1 /\ kind \in Locking
         /\ Path(kind)[at] = "clear" => at = 2 /\ kind = "disable"
         /\ Path(kind)[at] = "letter" => at = 1 /\ kind \in {"reset", "verify"}
         /\ Path(kind)[at] = "account" =>
              at = 2 /\ kind \in {"password", "confirm", "reset", "verify"}
         /\ Path(kind)[at] = "void" =>
              \/ at = 3 /\ kind \in {"password", "confirm", "reset"}
              \/ at = 1 /\ kind = "forgot"
         /\ Path(kind)[at] = "revoke" =>
              \/ at = 2 /\ kind \in {"revoke", "enable"}
              \/ at = 3 /\ kind = "disable"
              \/ at = 4 /\ kind \in {"password", "confirm", "reset"}
         /\ Path(kind)[at] = "count" => at = 1 /\ kind = "unlink"
         /\ Path(kind)[at] = "replace" => at = 1 /\ kind = "resend"
         /\ Path(kind)[at] = "link" => at = 1 /\ kind = "oauth"
         /\ Path(kind)[at] = "look" => at = 2 /\ kind = "oauth"
         /\ Path(kind)[at] = "commit" =>
              at = IF kind \in {"token", "connect"} THEN 1
                   ELSE IF kind \in {"login", "setup", "email", "forgot", "resend", "unlink"} THEN 2
                   ELSE IF kind \in {"revoke", "enable", "verify", "oauth"} THEN 3
                   ELSE IF kind = "disable" THEN 4 ELSE 5
<1>1. CASE kind \in {"login", "setup", "email"}
  <2>1. Path(kind) = <<"profile", "commit">> /\ (at = 1 \/ at = 2)
    BY <1>1, Paths
  <2> QED BY <1>1, <2>1, SMT DEF Locking
<1>2. CASE kind \in {"revoke", "enable"}
  <2>1. Path(kind) = <<"profile", "revoke", "commit">> /\ (at = 1 \/ at = 2 \/ at = 3)
    BY <1>2, Paths
  <2> QED BY <1>2, <2>1, SMT DEF Locking
<1>3. CASE kind = "disable"
  <2>1. /\ Path(kind) = <<"profile", "clear", "revoke", "commit">>
        /\ at = 1 \/ at = 2 \/ at = 3 \/ at = 4
    BY <1>3, Paths
  <2> QED BY <1>3, <2>1, SMT DEF Locking
<1>4. CASE kind \in {"password", "confirm"}
  <2>1. /\ Path(kind) = <<"profile", "account", "void", "revoke", "commit">>
        /\ at = 1 \/ at = 2 \/ at = 3 \/ at = 4 \/ at = 5
    BY <1>4, Paths
  <2> QED BY <1>4, <2>1, SMT DEF Locking
<1>5. CASE kind = "reset"
  <2>1. /\ Path(kind) = <<"letter", "account", "void", "revoke", "commit">>
        /\ at = 1 \/ at = 2 \/ at = 3 \/ at = 4 \/ at = 5
    BY <1>5, Paths
  <2> QED BY <1>5, <2>1, SMT DEF Locking
<1>6. CASE kind = "verify"
  <2>1. Path(kind) = <<"letter", "account", "commit">> /\ (at = 1 \/ at = 2 \/ at = 3)
    BY <1>6, Paths
  <2> QED BY <1>6, <2>1, SMT DEF Locking
<1>7. CASE kind = "forgot"
  <2>1. Path(kind) = <<"void", "commit">> /\ (at = 1 \/ at = 2)
    BY <1>7, Paths
  <2> QED BY <1>7, <2>1, SMT DEF Locking
<1>8. CASE kind = "resend"
  <2>1. Path(kind) = <<"replace", "commit">> /\ (at = 1 \/ at = 2)
    BY <1>8, Paths
  <2> QED BY <1>8, <2>1, SMT DEF Locking
<1>9. CASE kind = "unlink"
  <2>1. Path(kind) = <<"count", "commit">> /\ (at = 1 \/ at = 2)
    BY <1>9, Paths
  <2> QED BY <1>9, <2>1, SMT DEF Locking
<1>10. CASE kind = "oauth"
  <2>1. Path(kind) = <<"link", "look", "commit">> /\ (at = 1 \/ at = 2 \/ at = 3)
    BY <1>10, Paths
  <2> QED BY <1>10, <2>1, SMT DEF Locking
<1>11. CASE kind \in {"token", "connect"}
  <2>1. Path(kind) = <<"commit">> /\ (at = 1)
    BY <1>11, Paths
  <2> QED BY <1>11, <2>1, SMT DEF Locking
<1> QED
  BY <1>1, <1>2, <1>3, <1>4, <1>5, <1>6, <1>7, <1>8, <1>9, <1>10, <1>11 DEF SignInKind

Passed(kind, at, step) == \E n \in 1..at - 1 : Path(kind)[n] = step

LEMMA Asked ==
  ASSUME AccountsInv, NEW w \in Connection, doing[w] # None
  PROVE  /\ doing[w] \in SignInRequest /\ doing[w].kind \in SignInKind
         /\ Formed(doing[w]) /\ Proves(doing[w]) /\ StaysGood(doing[w])
         /\ KeepsLetters(doing[w]) /\ EndsAll(doing[w])
         /\ \A v \in Connection \ {w} : doing[v] # None => Apart(doing[w], doing[v])
  BY DEF AccountsInv, SignedInWithSecondFactor, AccountTypes, RequestsFit, Fits, SignInRequest,
         SignInKind

LEMMA Where ==
  ASSUME AccountsInv, NEW w \in Connection, doing[w] # None
  PROVE  /\ Held(w, "letter") <=> HoldsLetter(doing[w])
         /\ Held(w, "void") <=> HasVoided(doing[w])
         /\ Held(w, "revoke") <=> HasRevoked(doing[w])
         /\ Checked(w) <=> HasChecked(doing[w])
<1> DEFINE kind == doing[w].kind  at == doing[w].at
<1>1. kind \in SignInKind /\ at \in DOMAIN Path(kind)
  BY Asked DEF Formed
<1>2. at \in 1..5
  BY <1>1, Positions
<1>3. \A n \in 1..at - 1 : n \in DOMAIN Path(kind)
  BY <1>1, Paths DEF SignInKind
<1>4. \A step : Held(w, step) <=> Passed(kind, at, step)
  BY DEF Held, Passed
<1> HIDE DEF kind, at
<1>5. Passed(kind, at, "profile") <=> at > 1 /\ kind \in Locking
  <2>1. at > 1 /\ kind \in Locking => Path(kind)[1] = "profile"
    BY Paths DEF Locking
  <2> QED BY <1>1, <1>2, <1>3, <2>1, Positions DEF Passed
<1>6. Passed(kind, at, "letter") <=> at > 1 /\ kind \in {"reset", "verify"}
  <2>1. kind \in {"reset", "verify"} => Path(kind)[1] = "letter"
    BY Paths
  <2> QED BY <1>1, <1>2, <1>3, <2>1, Positions DEF Passed
<1>7. Passed(kind, at, "void") <=>
        \/ kind \in {"password", "confirm", "reset"} /\ at > 3
        \/ kind = "forgot" /\ at > 1
  <2>1. /\ kind \in {"password", "confirm", "reset"} => Path(kind)[3] = "void"
        /\ kind = "forgot" => Path(kind)[1] = "void" /\ at <= 2
    BY <1>1, Paths
  <2> QED BY <1>1, <1>2, <1>3, <2>1, Positions DEF Passed
<1>8. Passed(kind, at, "revoke") <=>
        \/ kind \in {"revoke", "enable"} /\ at = 3
        \/ kind = "disable" /\ at = 4
        \/ kind \in {"password", "confirm", "reset"} /\ at = 5
  <2>1. /\ kind \in {"revoke", "enable"} => Path(kind)[2] = "revoke" /\ at <= 3
        /\ kind = "disable" => Path(kind)[3] = "revoke" /\ at <= 4
        /\ kind \in {"password", "confirm", "reset"} => Path(kind)[4] = "revoke"
    BY <1>1, Paths
  <2> QED BY <1>1, <1>2, <1>3, <2>1, Positions DEF Passed
<1>9. Passed(kind, at, "look") <=> at = 3 /\ kind = "oauth"
  <2>1. kind = "oauth" => Path(kind)[2] = "look" /\ at <= 3
    BY <1>1, Paths
  <2> QED BY <1>1, <1>2, <1>3, <2>1, Positions DEF Passed
<1>10. HoldsLetter(doing[w]) <=> Passed(kind, at, "letter")
  BY <1>6 DEF HoldsLetter, kind, at
<1>11. HasVoided(doing[w]) <=> Passed(kind, at, "void")
  BY <1>7 DEF HasVoided, kind, at
<1>12. HasRevoked(doing[w]) <=> Passed(kind, at, "revoke")
  BY <1>8 DEF HasRevoked, kind, at
<1>13. Checked(w) <=> HasChecked(doing[w])
  <2>1. kind = "login" => at <= 2
    BY <1>1, Paths
  <2>2. Checked(w) <=>
          \/ kind = "login" /\ Passed(kind, at, "profile")
          \/ kind = "oauth" /\ Passed(kind, at, "look")
          \/ kind = "token"
    BY <1>4 DEF Checked, kind
  <2> QED BY <1>2, <2>1, <2>2, <1>5, <1>9 DEF HasChecked, Locking, kind, at
<1> QED
  BY <1>4, <1>10, <1>11, <1>12, <1>13

LEMMA Stands ==
  ASSUME AccountsInv, NEW w \in Connection, NEW step, At(w, step)
  PROVE  /\ doing[w] # None /\ doing[w].at \in 1..5
         /\ Path(doing[w].kind)[doing[w].at] = step
         /\ doing[w].kind \in SignInKind /\ doing[w].at \in DOMAIN Path(doing[w].kind)
         /\ step # "commit" => doing[w].at + 1 \in DOMAIN Path(doing[w].kind)
  BY Asked, Positions DEF At, Formed

-----------------------------------------------------------------------------
(* Requests before their commit *)

LEMMA RequestStep ==
  ASSUME AccountsInv, NEW w \in Connection, NEW r \in SignInRequest,
         doing' = [doing EXCEPT ![w] = r], UNCHANGED <<rowVars, offered>>,
         Fits(r), ~HasAccount => Early(r),
         \A v \in Connection \ {w} : doing[v] # None => Apart(r, doing[v])
  PROVE  AccountsInv'
<1>1. /\ UNCHANGED <<password, verified, profile, letter, credential, link, accepted, chosen, now>>
      /\ \A v \in Connection : doing'[v] = IF v = w THEN r ELSE doing[v]
  BY DEF rowVars, AccountsInv, SignedInWithSecondFactor, AccountTypes
<1>2. SignedInWithSecondFactor'
  BY <1>1 DEF AccountsInv, SignedInWithSecondFactor, AccountTypes, Protected, Live
<1>3. NobodyYet'
  BY <1>1 DEF AccountsInv, NobodyYet, HasAccount, Live, Linked
<1>4. AcceptedIsSpent' /\ LatestIsUnused'
  BY <1>1 DEF AccountsInv, AcceptedIsSpent, LatestIsUnused, Protected
<1>5. RequestsFit'
  <2> SUFFICES ASSUME NEW v \in Connection, (doing[v] # None)'
               PROVE  /\ Fits(doing[v])'
                      /\ \A u \in Connection \ {v} :
                           (doing[u] # None => Apart(doing[v], doing[u]))'
    BY DEF RequestsFit
  <2>1. Fits(doing'[v])
    BY <1>1 DEF AccountsInv, RequestsFit
  <2>2. Fits(doing[v])'
    BY <2>1, <1>1 DEF Fits, Formed, Proves, StaysGood, KeepsLetters, EndsAll, Protected, Live
  <2>3. ASSUME NEW u \in Connection \ {v}, (doing[u] # None)'
        PROVE  Apart(doing[v], doing[u])'
    <3>1. CASE v = w
      BY <3>1, <2>3, <1>1 DEF Apart, LettersApart
    <3>2. CASE u = w
      BY <3>2, <2>3, <1>1 DEF Apart, LettersApart
    <3>3. CASE v # w /\ u # w
      BY <3>3, <2>3, <1>1 DEF AccountsInv, RequestsFit, Apart, LettersApart
    <3> QED BY <3>1, <3>2, <3>3
  <2> QED BY <2>2, <2>3
<1> QED BY <1>2, <1>3, <1>4, <1>5 DEF AccountsInv

\* An account is there once a request is about what needs one.
LEMMA Known ==
  ASSUME AccountsInv, NEW w \in Connection, doing[w] # None, ~Early(doing[w])
  PROVE  HasAccount
  BY DEF AccountsInv, NobodyYet

LEMMA BeginStep ==
  ASSUME AccountsAssumption, AccountsInv, UNCHANGED offered,
         NEW w \in Connection, NEW kind \in SignInKind, NEW l \in Letter \cup {None},
         NEW i \in Identity \cup {None}, NEW by \in Credential \cup {None},
         Begins(w, kind, l, i, by),
         l # None <=> kind \in {"reset", "verify", "confirm"},
         kind = "oauth" => i \in Identity, kind = "token" => by \in Live,
         HasAccount \/ kind \in {"reset", "verify", "oauth"}
  PROVE  AccountsInv'
<1> DEFINE s == IF kind = "token" THEN credential[by].secret ELSE 0
           late == kind = "token" /\ credential[by].late
           before == IF Revokes(kind) THEN Live ELSE {}
           r == [kind |-> kind, at |-> 1, row |-> FALSE, letter |-> l, identity |-> i,
                 code |-> None, secret |-> s, voids |-> {}, ends |-> {}, before |-> before,
                 late |-> late]
<1>1. doing' = [doing EXCEPT ![w] = r] /\ UNCHANGED rowVars
  BY DEF Begins
<1>2. s \in 0..MaxSecrets /\ late \in BOOLEAN /\ before \subseteq Credential
  BY DEF AccountsAssumption, AccountsInv, SignedInWithSecondFactor, AccountTypes, Live,
     CredentialRow
<1>3. kind = "token" /\ Protected => s = profile.secret \/ late
  BY DEF AccountsInv, SignedInWithSecondFactor
<1>4. 1 \in DOMAIN Path(kind)
  BY Paths DEF SignInKind
<1> HIDE DEF s, late, before
<1>5. r \in SignInRequest
  BY <1>2 DEF SignInRequest, SignInKind
<1>6. Fits(r)
  BY <1>3, <1>4 DEF Fits, Formed, Proves, StaysGood, KeepsLetters, EndsAll, HoldsLetter,
     HasRevoked, HasChecked, SignInKind
<1>7. ~HasAccount => Early(r)
  BY DEF Early
<1>8. \A v \in Connection \ {w} : doing[v] # None => Apart(r, doing[v])
  BY DEF Apart, LettersApart, HoldsLetter
<1> HIDE DEF r
<1> QED BY <1>1, <1>5, <1>6, <1>7, <1>8, RequestStep

\* A statement takes its request one step on, with what it found.
Onward(q, n) ==
  /\ n \in SignInRequest /\ n.at = q.at + 1 /\ n.kind = q.kind
  /\ n.letter = q.letter /\ n.identity = q.identity /\ n.before = q.before /\ n.late = q.late

LEMMA Advance ==
  ASSUME NEW r \in SignInRequest, r.at + 1 \in 1..5
  PROVE  LET n == [r EXCEPT !.at = @ + 1]
         IN  /\ Onward(r, n) /\ n.row = r.row /\ n.code = r.code /\ n.secret = r.secret
             /\ n.voids = r.voids /\ n.ends = r.ends
  BY DEF SignInRequest, Onward

LEMMA GoesOn ==
  ASSUME AccountsInv, UNCHANGED offered, NEW w \in Connection, doing[w] # None,
         NEW n, Onward(doing[w], n), doing' = [doing EXCEPT ![w] = n], UNCHANGED rowVars,
         Fits(n), HasAccount \/ Early(n),
         \A v \in Connection \ {w} : doing[v] # None => Apart(n, doing[v])
  PROVE  AccountsInv'
  BY RequestStep DEF Onward

\* What the profile's lock finds.
LEMMA FoundStep ==
  ASSUME AccountsAssumption, AccountsInv, UNCHANGED <<rowVars, offered>>, NEW w \in Connection,
         At(w, "profile"), NEW n, Onward(doing[w], n), doing' = [doing EXCEPT ![w] = n],
         n.voids = doing[w].voids, n.ends = doing[w].ends,
         n.row = (profile # None \/ n.kind = "setup"), n.row => ProfileFree(w),
         n.code # None =>
           /\ profile # None /\ n.code.secret = n.secret /\ n.kind \in Coded
           /\ n.kind = "enable" => n.code.of >= 0 /\ profile.secret = 0
           /\ n.kind # "enable" => Accepts(n.code) /\ Protected,
         n.code = None /\ n.kind = "login" => ~Protected,
         n.kind = "enable" => n.code # None,
         n.kind = "confirm" => profile # None /\ profile.letter = n.letter
  PROVE  AccountsInv'
<1> DEFINE q == doing[w]
<1>1. q # None /\ q.kind \in SignInKind /\ q.at = 1 /\ q.kind \in Locking
  BY Stands, Positions
<1>2. 2 \in DOMAIN Path(q.kind)
  BY <1>1, Stands
<1>3. /\ q \in SignInRequest /\ Formed(q) /\ KeepsLetters(q)
      /\ \A v \in Connection \ {w} : doing[v] # None => Apart(q, doing[v])
  BY <1>1, Asked
<1>4. /\ n.at = 2 /\ n.kind = q.kind /\ n.letter = q.letter /\ n.identity = q.identity
      /\ n.voids = q.voids
  BY <1>1 DEF Onward
<1> HIDE DEF q
<1>5. HasAccount
  BY <1>1, Known DEF Early, Locking, q
<1>6. n.voids = {}
  BY <1>1, <1>3, <1>4 DEF KeepsLetters, HasVoided, Locking
<1>7. Formed(n)
  <2>1. n.at \in DOMAIN Path(n.kind) /\ n.at > 1
    BY <1>2, <1>4
  <2>2. /\ n.letter # None <=> n.kind \in {"reset", "verify", "confirm"}
        /\ n.kind = "oauth" => n.identity \in Identity
    BY <1>3, <1>4 DEF Formed
  <2>3. profile # None \/ n.kind = "setup" => n.row
    OBVIOUS
  <2> QED BY <2>1, <2>2, <2>3 DEF Formed, Locking, Coded
<1>8. Proves(n)
  BY <1>1, <1>4 DEF Proves, HasChecked, Locking, Accepts
<1>9. StaysGood(n)
  BY DEF StaysGood, Accepts
<1>10. KeepsLetters(n) /\ EndsAll(n)
  BY <1>1, <1>4, <1>6 DEF KeepsLetters, EndsAll, HoldsLetter, HasRevoked, Locking
<1>11. \A v \in Connection \ {w} : doing[v] # None => Apart(n, doing[v])
  BY <1>1, <1>3, <1>4, <1>6 DEF Apart, LettersApart, ProfileFree, HoldsLetter, Locking
<1> QED BY <1>1, <1>5, <1>7, <1>8, <1>9, <1>10, <1>11, GoesOn DEF Fits, q

LEMMA LockProfileStep ==
  ASSUME AccountsAssumption, AccountsInv, UNCHANGED offered, NEW w \in Connection, LockProfile(w)
  PROVE  AccountsInv'
<1> DEFINE q == doing[w]
           row == profile # None \/ q.kind = "setup"
           found == [q EXCEPT !.row = row]
<1>1. /\ At(w, "profile") /\ q # None /\ q.kind \in SignInKind /\ q.at = 1 /\ q.kind \in Locking
      /\ q \in SignInRequest /\ q.code = None /\ (row => ProfileFree(w))
  <2>1. At(w, "profile") /\ (row => ProfileFree(w))
    BY DEF LockProfile
  <2>2. q # None /\ q.kind \in SignInKind /\ q.at = 1 /\ q.kind \in Locking
    BY <2>1, Stands, Positions
  <2>3. q \in SignInRequest /\ Formed(q)
    BY <2>2, Asked
  <2> QED BY <2>1, <2>2, <2>3 DEF Formed
<1>2. profile # None => profile \in ProfileRow
  BY DEF AccountsInv, SignedInWithSecondFactor, AccountTypes
<1>3. ASSUME NEW r \in SignInRequest, Goes(w, r), r.at = q.at, r.kind = q.kind,
             r.letter = q.letter, r.identity = q.identity, r.before = q.before, r.late = q.late,
             r.voids = q.voids, r.ends = q.ends, r.row = row,
             r.code # None =>
               /\ profile # None /\ r.code.secret = r.secret /\ r.kind \in Coded
               /\ r.kind = "enable" => r.code.of >= 0 /\ profile.secret = 0
               /\ r.kind # "enable" => Accepts(r.code) /\ Protected,
             r.code = None /\ r.kind = "login" => ~Protected,
             r.kind = "enable" => r.code # None,
             r.kind = "confirm" => profile # None /\ profile.letter = r.letter
      PROVE  AccountsInv'
  <2> DEFINE n == [r EXCEPT !.at = @ + 1]
  <2>1. /\ Onward(r, n) /\ n.row = r.row /\ n.code = r.code /\ n.secret = r.secret
        /\ n.voids = r.voids /\ n.ends = r.ends
    BY <1>1, <1>3, Advance
  <2>2. doing' = [doing EXCEPT ![w] = n] /\ UNCHANGED rowVars
    BY <1>3 DEF Goes
  <2> HIDE DEF n
  <2>3. Onward(q, n)
    BY <1>3, <2>1 DEF Onward
  <2>4. n.kind = r.kind /\ n.letter = r.letter
    BY <2>1 DEF Onward
  <2> QED BY <1>1, <1>3, <2>1, <2>2, <2>3, <2>4, FoundStep
<1> HIDE DEF row, q
<1>4. /\ found \in SignInRequest /\ found.at = q.at /\ found.kind = q.kind
      /\ found.letter = q.letter /\ found.identity = q.identity /\ found.before = q.before
      /\ found.late = q.late /\ found.voids = q.voids /\ found.ends = q.ends
      /\ found.row = row /\ found.code = None /\ found.secret = q.secret
  <2>1. row \in BOOLEAN
    BY DEF row
  <2> QED BY <1>1, <2>1 DEF SignInRequest
<1> HIDE DEF found
<1>5. ASSUME NEW code \in Code, NEW s \in 0..MaxSecrets
      PROVE  LET r == [found EXCEPT !.code = code, !.secret = s]
             IN  /\ r \in SignInRequest /\ r.at = q.at /\ r.kind = q.kind
                 /\ r.letter = q.letter /\ r.identity = q.identity /\ r.before = q.before
                 /\ r.late = q.late /\ r.voids = q.voids /\ r.ends = q.ends
                 /\ r.row = row /\ r.code = code /\ r.secret = s
  BY <1>4 DEF SignInRequest
<1>6. CASE q.kind \in {"login", "email", "disable", "revoke", "password"}
  <2>1. VerifyMfa(w, found)
    BY <1>6 DEF LockProfile, q, row, found
  <2>2. CASE ~Protected
    <3>1. Goes(w, found)
      BY <2>1, <2>2 DEF VerifyMfa
    <3> QED BY <1>3, <1>4, <1>6, <2>2, <3>1
  <2>3. CASE Protected
    <3>1. PICK code \in Code :
            Accepts(code) /\ Goes(w, [found EXCEPT !.code = code, !.secret = profile.secret])
      BY <2>1, <2>3 DEF VerifyMfa
    <3>2. profile # None /\ profile.secret \in 0..MaxSecrets /\ code.secret = profile.secret
      BY <1>2, <2>3, <3>1 DEF Protected, ProfileRow, Accepts
    <3> DEFINE r == [found EXCEPT !.code = code, !.secret = profile.secret]
    <3>3. /\ r \in SignInRequest /\ r.at = q.at /\ r.kind = q.kind
          /\ r.letter = q.letter /\ r.identity = q.identity /\ r.before = q.before
          /\ r.late = q.late /\ r.voids = q.voids /\ r.ends = q.ends
          /\ r.row = row /\ r.code = code /\ r.secret = profile.secret
      BY <1>5, <3>2
    <3> HIDE DEF r
    <3>4. code # None
      BY DEF AccountsAssumption
    <3>5. Goes(w, r)
      BY <3>1 DEF r
    <3> QED BY <1>3, <1>6, <2>3, <3>1, <3>2, <3>3, <3>4, <3>5 DEF Coded
  <2> QED BY <2>2, <2>3
<1>7. CASE q.kind = "setup"
  <2>1. ~Protected /\ Goes(w, found)
    BY <1>7 DEF LockProfile, q, row, found
  <2> QED BY <1>3, <1>4, <1>7, <2>1
<1>8. CASE q.kind = "enable"
  <2>1. PICK step \in (now - 1..now + 1) \cap 0..MaxTime + 1 :
          Goes(w, [found EXCEPT !.code = [secret |-> profile.pending, of |-> step],
                                !.secret = profile.pending])
    BY <1>8 DEF LockProfile, q, row, found
  <2>2. profile # None /\ profile.secret = 0 /\ profile.pending > 0
    BY <1>8 DEF LockProfile, q, row, found
  <2>3. [secret |-> profile.pending, of |-> step] \in Code /\ profile.pending \in 0..MaxSecrets
    BY <1>2, <2>2 DEF Code, ProfileRow, Recovery, AccountsAssumption
  <2>4. PICK code \in Code, s \in 0..MaxSecrets :
          code = [secret |-> profile.pending, of |-> step] /\ s = profile.pending
    BY <2>3
  <2>5. code # None /\ code.secret = s /\ code.of = step /\ step >= 0
    BY <2>4 DEF AccountsAssumption
  <2> DEFINE r == [found EXCEPT !.code = code, !.secret = s]
  <2>6. Goes(w, r)
    BY <2>1, <2>4
  <2>7. /\ r \in SignInRequest /\ r.at = q.at /\ r.kind = q.kind
        /\ r.letter = q.letter /\ r.identity = q.identity /\ r.before = q.before
        /\ r.late = q.late /\ r.voids = q.voids /\ r.ends = q.ends
        /\ r.row = row /\ r.code = code /\ r.secret = s
    BY <1>5
  <2> HIDE DEF r
  <2> QED BY <1>3, <1>8, <2>2, <2>5, <2>6, <2>7 DEF Coded
<1>9. CASE q.kind = "confirm"
  <2>1. profile # None /\ profile.letter = q.letter /\ Goes(w, found)
    BY <1>9 DEF LockProfile, q, row, found
  <2> QED BY <1>3, <1>4, <1>9, <2>1
<1> QED BY <1>1, <1>6, <1>7, <1>8, <1>9 DEF Locking

LEMMA StepOn ==
  ASSUME AccountsInv, NEW w \in Connection, NEW step, At(w, step), step # "commit",
         NEW r \in SignInRequest, Goes(w, r), r.at = doing[w].at, r.kind = doing[w].kind,
         r.letter = doing[w].letter, r.identity = doing[w].identity,
         r.before = doing[w].before, r.late = doing[w].late
  PROVE  \E n : /\ Onward(doing[w], n) /\ n.at \in DOMAIN Path(n.kind)
                /\ doing' = [doing EXCEPT ![w] = n] /\ UNCHANGED rowVars
                /\ n.row = r.row /\ n.code = r.code /\ n.secret = r.secret
                /\ n.voids = r.voids /\ n.ends = r.ends
<1> DEFINE n == [r EXCEPT !.at = @ + 1]
<1>1. /\ doing[w].at + 1 \in DOMAIN Path(doing[w].kind) /\ doing[w].kind \in SignInKind
  BY Stands
<1>2. doing[w].at + 1 \in 1..5
  BY <1>1, Positions
<1>3. /\ Onward(r, n) /\ n.row = r.row /\ n.code = r.code /\ n.secret = r.secret
      /\ n.voids = r.voids /\ n.ends = r.ends
  BY <1>2, Advance
<1>4. doing' = [doing EXCEPT ![w] = n] /\ UNCHANGED rowVars
  BY DEF Goes
<1> HIDE DEF n
<1>5. Onward(doing[w], n) /\ n.at \in DOMAIN Path(n.kind)
  BY <1>1, <1>3 DEF Onward
<1> QED BY <1>3, <1>4, <1>5

\* A statement that neither locks the profile nor writes.
LEMMA CarryOn ==
  ASSUME AccountsInv, UNCHANGED offered, NEW w \in Connection, NEW step, At(w, step),
         step \notin {"profile", "commit"},
         NEW n, Onward(doing[w], n), n.at \in DOMAIN Path(n.kind),
         doing' = [doing EXCEPT ![w] = n], UNCHANGED rowVars,
         n.kind # "disable" => n.row = doing[w].row,
         n.row => doing[w].row \/ (profile # None /\ ProfileFree(w)),
         n.code = doing[w].code, n.code # None => n.row, n.secret = doing[w].secret,
         Proves(n), KeepsLetters(n), EndsAll(n), HasAccount \/ Early(n),
         \A v \in Connection \ {w} : doing[v] # None => LettersApart(n, doing[v])
  PROVE  AccountsInv'
<1> DEFINE q == doing[w]
<1>1. /\ q # None /\ q.kind \in SignInKind /\ q.at \in 1..5 /\ Path(q.kind)[q.at] = step
      /\ q.at \in DOMAIN Path(q.kind)
  BY Stands
<1>2. q.at = 1 => q.kind \notin Locking
  BY <1>1, Paths DEF Locking
<1>3. /\ Formed(q) /\ StaysGood(q)
      /\ \A v \in Connection \ {w} : doing[v] # None => Apart(q, doing[v])
  BY <1>1, Asked
<1>4. /\ n.at = q.at + 1 /\ n.kind = q.kind /\ n.letter = q.letter /\ n.identity = q.identity
  BY DEF Onward
<1>5. Formed(n)
  <2>1. /\ n.letter # None <=> n.kind \in {"reset", "verify", "confirm"}
        /\ n.kind = "oauth" => n.identity \in Identity
        /\ n.code # None => n.kind \in Coded
        /\ n.row => profile # None \/ n.kind = "setup"
    BY <1>3, <1>4 DEF Formed
  <2>2. n.at > 1 /\ (n.kind \in Locking => q.at > 1)
    BY <1>1, <1>2, <1>4
  <2> QED BY <1>3, <1>4, <2>1, <2>2 DEF Formed, Locking
<1>6. StaysGood(n)
  BY <1>3, <1>4 DEF StaysGood
<1>7. \A v \in Connection \ {w} : doing[v] # None => Apart(n, doing[v])
  BY <1>3 DEF Apart, ProfileFree
<1> QED BY <1>1, <1>5, <1>6, <1>7, GoesOn DEF Fits

LEMMA ClearFactorStep ==
  ASSUME AccountsAssumption, AccountsInv, UNCHANGED offered, NEW w \in Connection, ClearFactor(w)
  PROVE  AccountsInv'
<1> DEFINE q == doing[w]
           r == [q EXCEPT !.row = (profile # None)]
<1>1. At(w, "clear") /\ (profile # None => ProfileFree(w)) /\ Goes(w, r)
  BY DEF ClearFactor
<1>2. q # None /\ q.kind = "disable" /\ q.at = 2
  BY <1>1, Stands, Positions
<1>3. /\ q \in SignInRequest /\ Formed(q) /\ StaysGood(q) /\ KeepsLetters(q)
      /\ \A v \in Connection \ {w} : doing[v] # None => Apart(q, doing[v])
  BY <1>2, Asked
<1>4. /\ r \in SignInRequest /\ r.at = q.at /\ r.kind = q.kind /\ r.letter = q.letter
      /\ r.identity = q.identity /\ r.before = q.before /\ r.late = q.late
      /\ r.voids = q.voids /\ r.ends = q.ends /\ r.code = q.code /\ r.secret = q.secret
      /\ r.row = (profile # None)
  BY <1>3 DEF SignInRequest
<1> HIDE DEF r
<1>5. PICK n : /\ Onward(q, n) /\ n.at \in DOMAIN Path(n.kind)
               /\ doing' = [doing EXCEPT ![w] = n] /\ UNCHANGED rowVars
               /\ n.row = r.row /\ n.code = r.code /\ n.secret = r.secret
               /\ n.voids = r.voids /\ n.ends = r.ends
  BY <1>1, <1>4, StepOn
<1>6. n.kind = "disable" /\ n.at = 3
  BY <1>2, <1>5 DEF Onward
<1>7. q.voids = {}
  BY <1>2, <1>3 DEF KeepsLetters, HasVoided
<1>8. Proves(n) /\ KeepsLetters(n) /\ EndsAll(n)
  BY <1>4, <1>5, <1>6, <1>7
     DEF Proves, KeepsLetters, EndsAll, HasChecked, HasVoided, HasRevoked, HoldsLetter
<1>9. HasAccount
  BY <1>2, Known DEF Early
<1>10. \A v \in Connection \ {w} : doing[v] # None => LettersApart(n, doing[v])
  BY <1>4, <1>5, <1>6, <1>7 DEF LettersApart, HoldsLetter
<1>11. n.code # None => n.row
  BY <1>2, <1>3, <1>4, <1>5 DEF StaysGood, Protected
<1> QED BY <1>1, <1>4, <1>5, <1>6, <1>8, <1>9, <1>10, <1>11, CarryOn

\* The statements that change nothing of their request.
LEMMA GoesAlong ==
  ASSUME AccountsInv, NEW w \in Connection, NEW step, At(w, step), step # "commit",
         Goes(w, doing[w])
  PROVE  \E n : /\ Onward(doing[w], n) /\ n.at \in DOMAIN Path(n.kind)
                /\ doing' = [doing EXCEPT ![w] = n] /\ UNCHANGED rowVars
                /\ n.row = doing[w].row /\ n.code = doing[w].code /\ n.secret = doing[w].secret
                /\ n.voids = doing[w].voids /\ n.ends = doing[w].ends
  BY StepOn, Stands, Asked

LEMMA LockLetterStep ==
  ASSUME AccountsInv, UNCHANGED offered, NEW w \in Connection, LockLetter(w)
  PROVE  AccountsInv'
<1> DEFINE q == doing[w]
<1>1. /\ At(w, "letter") /\ LetterFree(w, q.letter) /\ q.letter \in Unused(q.kind)
      /\ Goes(w, q)
  BY DEF LockLetter
<1>2. q # None /\ q.kind \in {"reset", "verify"} /\ q.at = 1
  BY <1>1, Stands, Positions
<1>3. /\ Formed(q) /\ KeepsLetters(q)
      /\ \A v \in Connection \ {w} : doing[v] # None => Apart(q, doing[v])
  BY <1>2, Asked
<1>4. PICK n : /\ Onward(q, n) /\ n.at \in DOMAIN Path(n.kind)
               /\ doing' = [doing EXCEPT ![w] = n] /\ UNCHANGED rowVars
               /\ n.row = q.row /\ n.code = q.code /\ n.secret = q.secret
               /\ n.voids = q.voids /\ n.ends = q.ends
  BY <1>1, GoesAlong
<1>5. n.kind = q.kind /\ n.at = 2 /\ n.letter = q.letter
  BY <1>2, <1>4 DEF Onward
<1>6. q.voids = {} /\ q.code = None
  BY <1>2, <1>3 DEF KeepsLetters, HasVoided, Formed, Coded
<1>7. Proves(n) /\ KeepsLetters(n) /\ EndsAll(n)
  BY <1>1, <1>2, <1>4, <1>5, <1>6
     DEF Proves, KeepsLetters, EndsAll, HasChecked, HasRevoked, HoldsLetter, Unused
<1>8. Early(n)
  BY <1>2, <1>5 DEF Early
<1>9. ASSUME NEW v \in Connection \ {w}, doing[v] # None
      PROVE  LettersApart(n, doing[v])
  <2>1. KeepsLetters(doing[v])
    BY <1>9, Asked
  <2>2. q.letter \notin doing[v].voids
    BY <1>1, <1>9, <2>1, Where DEF LetterFree, KeepsLetters
  <2>3. HoldsLetter(doing[v]) => q.letter # doing[v].letter
    BY <1>1, <1>9, Where DEF LetterFree
  <2> QED BY <1>4, <1>5, <1>6, <2>2, <2>3 DEF LettersApart
<1> QED BY <1>1, <1>4, <1>5, <1>6, <1>7, <1>8, <1>9, CarryOn

LEMMA LockAccountStep ==
  ASSUME AccountsInv, UNCHANGED offered, NEW w \in Connection, LockAccount(w)
  PROVE  AccountsInv'
<1> DEFINE q == doing[w]
<1>1. At(w, "account") /\ Goes(w, q)
  BY DEF LockAccount
<1>2. q # None /\ q.kind \in {"password", "confirm", "reset", "verify"} /\ q.at = 2
  BY <1>1, Stands, Positions
<1>3. /\ Formed(q) /\ KeepsLetters(q)
      /\ \A v \in Connection \ {w} : doing[v] # None => Apart(q, doing[v])
  BY <1>2, Asked
<1>4. PICK n : /\ Onward(q, n) /\ n.at \in DOMAIN Path(n.kind)
               /\ doing' = [doing EXCEPT ![w] = n] /\ UNCHANGED rowVars
               /\ n.row = q.row /\ n.code = q.code /\ n.secret = q.secret
               /\ n.voids = q.voids /\ n.ends = q.ends
  BY <1>1, GoesAlong
<1>5. n.kind = q.kind /\ n.at = 3 /\ n.letter = q.letter
  BY <1>2, <1>4 DEF Onward
<1>6. q.voids = {}
  BY <1>2, <1>3 DEF KeepsLetters, HasVoided
<1>7. Proves(n) /\ KeepsLetters(n) /\ EndsAll(n)
  BY <1>2, <1>3, <1>4, <1>5, <1>6
     DEF Proves, KeepsLetters, EndsAll, HasChecked, HasRevoked, HoldsLetter
<1>8. HasAccount \/ Early(n)
  BY <1>2, <1>5, Known DEF Early
<1>9. \A v \in Connection \ {w} : doing[v] # None => LettersApart(n, doing[v])
  BY <1>2, <1>3, <1>4, <1>5, <1>6 DEF Apart, LettersApart, HoldsLetter
<1>10. n.code # None => n.row
  BY <1>3, <1>4 DEF Formed
<1> QED BY <1>1, <1>4, <1>5, <1>7, <1>8, <1>9, <1>10, CarryOn

LEMMA VoidLettersStep ==
  ASSUME AccountsInv, UNCHANGED offered, NEW w \in Connection, VoidLetters(w)
  PROVE  AccountsInv'
<1> DEFINE q == doing[w]
           r == [q EXCEPT !.voids = Unused("reset")]
<1>1. /\ At(w, "void") /\ \A l \in Unused("reset") : LetterFree(w, l)
      /\ Goes(w, r)
  BY DEF VoidLetters
<1>2. /\ q # None
      /\ \/ q.kind \in {"password", "confirm", "reset"} /\ q.at = 3
         \/ q.kind = "forgot" /\ q.at = 1
  BY <1>1, Stands, Positions
<1>3. /\ q \in SignInRequest /\ Formed(q) /\ KeepsLetters(q)
      /\ \A v \in Connection \ {w} : doing[v] # None => Apart(q, doing[v])
  BY <1>2, Asked
<1>4. /\ r \in SignInRequest /\ r.at = q.at /\ r.kind = q.kind /\ r.letter = q.letter
      /\ r.identity = q.identity /\ r.before = q.before /\ r.late = q.late
      /\ r.voids = Unused("reset") /\ r.ends = q.ends /\ r.code = q.code
      /\ r.secret = q.secret /\ r.row = q.row
  BY <1>3 DEF SignInRequest, Unused
<1> HIDE DEF r
<1>5. PICK n : /\ Onward(q, n) /\ n.at \in DOMAIN Path(n.kind)
               /\ doing' = [doing EXCEPT ![w] = n] /\ UNCHANGED rowVars
               /\ n.row = r.row /\ n.code = r.code /\ n.secret = r.secret
               /\ n.voids = r.voids /\ n.ends = r.ends
  BY <1>1, <1>4, StepOn
<1>6. /\ n.kind = q.kind /\ n.letter = q.letter /\ HasVoided(n) /\ ~HasRevoked(n)
      /\ ~HasChecked(n) /\ n.kind # "enable" /\ (HoldsLetter(n) <=> HoldsLetter(q))
  BY <1>2, <1>5 DEF Onward, HasVoided, HasRevoked, HasChecked, HoldsLetter
<1>7. Proves(n) /\ KeepsLetters(n) /\ EndsAll(n)
  BY <1>3, <1>4, <1>5, <1>6 DEF Proves, KeepsLetters, EndsAll, Unused
<1>8. HasAccount \/ Early(n)
  BY <1>2, <1>6, Known DEF Early
<1>9. ASSUME NEW v \in Connection \ {w}, doing[v] # None
      PROVE  LettersApart(n, doing[v])
  <2>1. HoldsLetter(doing[v]) => doing[v].letter \notin Unused("reset")
    BY <1>1, <1>9, Where DEF LetterFree
  <2> QED BY <1>3, <1>4, <1>5, <1>6, <1>9, <2>1 DEF Apart, LettersApart
<1>10. n.code # None => n.row
  BY <1>3, <1>4, <1>5 DEF Formed
<1> QED BY <1>1, <1>4, <1>5, <1>6, <1>7, <1>8, <1>9, <1>10, CarryOn

LEMMA RevokeStep ==
  ASSUME AccountsInv, UNCHANGED offered, NEW w \in Connection, Revoke(w)
  PROVE  AccountsInv'
<1> DEFINE q == doing[w]
           r == [q EXCEPT !.ends = Ends(q.kind)]
<1>1. At(w, "revoke") /\ Goes(w, r)
  BY DEF Revoke
<1>2. /\ q # None
      /\ \/ q.kind \in {"revoke", "enable"} /\ q.at = 2
         \/ q.kind = "disable" /\ q.at = 3
         \/ q.kind \in {"password", "confirm", "reset"} /\ q.at = 4
  BY <1>1, Stands, Positions
<1>3. /\ q \in SignInRequest /\ Formed(q) /\ KeepsLetters(q)
      /\ \A v \in Connection \ {w} : doing[v] # None => Apart(q, doing[v])
  BY <1>2, Asked
<1>4. /\ r \in SignInRequest /\ r.at = q.at /\ r.kind = q.kind /\ r.letter = q.letter
      /\ r.identity = q.identity /\ r.before = q.before /\ r.late = q.late
      /\ r.voids = q.voids /\ r.ends = Ends(q.kind) /\ r.code = q.code
      /\ r.secret = q.secret /\ r.row = q.row
  BY <1>3 DEF SignInRequest, Ends, Live
<1> HIDE DEF r
<1>5. PICK n : /\ Onward(q, n) /\ n.at \in DOMAIN Path(n.kind)
               /\ doing' = [doing EXCEPT ![w] = n] /\ UNCHANGED rowVars
               /\ n.row = r.row /\ n.code = r.code /\ n.secret = r.secret
               /\ n.voids = r.voids /\ n.ends = r.ends
  BY <1>1, <1>4, StepOn
<1>6. /\ n.kind = q.kind /\ n.letter = q.letter /\ ~HasChecked(n)
      /\ (HoldsLetter(n) <=> HoldsLetter(q)) /\ (HasVoided(q) => HasVoided(n))
      /\ n.before \subseteq Credential
  BY <1>2, <1>5 DEF Onward, HasVoided, HasChecked, HoldsLetter, SignInRequest
<1>7. Proves(n)
  BY <1>4, <1>5, <1>6 DEF Proves, Ends
<1>8. KeepsLetters(n)
  BY <1>3, <1>4, <1>5, <1>6 DEF KeepsLetters
<1>9. EndsAll(n)
  <2>1. \A c \in Live : credential[c] \in CredentialRow
    BY DEF AccountsInv, SignedInWithSecondFactor, AccountTypes, Live
  <2> QED BY <1>4, <1>5, <1>6, <2>1 DEF EndsAll, Ends, Live, CredentialRow
<1>10. HasAccount \/ Early(n)
  BY <1>2, <1>6, Known DEF Early
<1>11. \A v \in Connection \ {w} : doing[v] # None => LettersApart(n, doing[v])
  BY <1>3, <1>4, <1>5, <1>6 DEF Apart, LettersApart
<1>12. n.code # None => n.row
  BY <1>3, <1>4, <1>5 DEF Formed
<1> QED BY <1>1, <1>4, <1>5, <1>6, <1>7, <1>8, <1>9, <1>10, <1>11, <1>12, CarryOn

LEMMA CountLoginsStep ==
  ASSUME AccountsInv, UNCHANGED offered, NEW w \in Connection, CountLogins(w)
  PROVE  AccountsInv'
<1> DEFINE q == doing[w]
<1>1. At(w, "count") /\ HasAccount /\ Goes(w, q)
  BY DEF CountLogins
<1>2. q # None /\ q.kind = "unlink" /\ q.at = 1
  BY <1>1, Stands, Positions
<1>3. /\ Formed(q) /\ KeepsLetters(q)
      /\ \A v \in Connection \ {w} : doing[v] # None => Apart(q, doing[v])
  BY <1>2, Asked
<1>4. PICK n : /\ Onward(q, n) /\ n.at \in DOMAIN Path(n.kind)
               /\ doing' = [doing EXCEPT ![w] = n] /\ UNCHANGED rowVars
               /\ n.row = q.row /\ n.code = q.code /\ n.secret = q.secret
               /\ n.voids = q.voids /\ n.ends = q.ends
  BY <1>1, GoesAlong
<1>5. n.kind = "unlink" /\ n.letter = q.letter /\ q.voids = {} /\ q.code = None
  BY <1>2, <1>3, <1>4 DEF Onward, KeepsLetters, HasVoided, Formed, Coded
<1>6. Proves(n) /\ KeepsLetters(n) /\ EndsAll(n)
  BY <1>4, <1>5 DEF Proves, KeepsLetters, EndsAll, HasChecked, HasRevoked, HoldsLetter
<1>7. \A v \in Connection \ {w} : doing[v] # None => LettersApart(n, doing[v])
  BY <1>4, <1>5 DEF LettersApart, HoldsLetter
<1> QED BY <1>1, <1>4, <1>5, <1>6, <1>7, CarryOn

LEMMA LookStep ==
  ASSUME AccountsAssumption, AccountsInv, UNCHANGED offered, NEW w \in Connection,
         LookProtected(w) \/ FindIdentity(w)
  PROVE  AccountsInv'
<1> DEFINE q == doing[w]
<1>1. PICK step \in {"look", "link"} :
        /\ At(w, step) /\ Goes(w, q)
        /\ step = "look" => ~Protected
        /\ step = "link" => link[q.identity] = "user"
  BY DEF LookProtected, FindIdentity
<1>2. /\ q # None /\ q.kind = "oauth"
      /\ step = "link" => q.at = 1
      /\ step = "look" => q.at = 2
  BY <1>1, Stands, Positions
<1>3. /\ Formed(q) /\ KeepsLetters(q)
      /\ \A v \in Connection \ {w} : doing[v] # None => Apart(q, doing[v])
  BY <1>2, Asked
<1>4. PICK n : /\ Onward(q, n) /\ n.at \in DOMAIN Path(n.kind)
               /\ doing' = [doing EXCEPT ![w] = n] /\ UNCHANGED rowVars
               /\ n.row = q.row /\ n.code = q.code /\ n.secret = q.secret
               /\ n.voids = q.voids /\ n.ends = q.ends
  BY <1>1, GoesAlong
<1>5. /\ n.kind = "oauth" /\ n.letter = q.letter /\ q.voids = {} /\ q.code = None
      /\ step = "link" => n.at = 2
  BY <1>2, <1>3, <1>4 DEF Onward, KeepsLetters, HasVoided, Formed, Coded
<1>6. Proves(n) /\ KeepsLetters(n) /\ EndsAll(n)
  BY <1>1, <1>4, <1>5 DEF Proves, KeepsLetters, EndsAll, HasChecked, HasRevoked, HoldsLetter
<1>7. \A v \in Connection \ {w} : doing[v] # None => LettersApart(n, doing[v])
  BY <1>4, <1>5 DEF LettersApart, HoldsLetter
<1>8. HasAccount
  <2>1. CASE step = "link"
    <3>1. q.identity \in Linked
      BY <1>1, <1>2, <1>3, <2>1 DEF Linked, Formed
    <3> QED BY <3>1 DEF AccountsInv, NobodyYet
  <2>2. CASE step = "look"
    BY <1>2, <2>2, Known DEF Early
  <2> QED BY <2>1, <2>2
<1> QED BY <1>1, <1>4, <1>5, <1>6, <1>7, <1>8, CarryOn
-----------------------------------------------------------------------------
(* Steps that write rows *)

\* Another's request is what it was, though it may be late by now, and so are
\* the rows it relies on.
Keeps(v) ==
  /\ doing[v] # None
  /\ doing'[v].at = doing[v].at /\ doing'[v].kind = doing[v].kind
  /\ doing'[v].row = doing[v].row /\ doing'[v].letter = doing[v].letter
  /\ doing'[v].identity = doing[v].identity /\ doing'[v].code = doing[v].code
  /\ doing'[v].secret = doing[v].secret /\ doing'[v].voids = doing[v].voids
  /\ doing'[v].ends = doing[v].ends /\ doing'[v].before = doing[v].before
  /\ doing[v].late => doing'[v].late

Undisturbed(v) ==
  /\ doing[v].row => profile' = profile
  /\ HasChecked(doing[v]) /\ Protected' =>
       doing'[v].late \/ (Protected /\ profile'.secret = profile.secret)
  /\ doing[v].kind = "enable" /\ doing[v].at = 3 =>
       \A c \in Credential : credential'[c] # None =>
         credential'[c] = credential[c] \/ credential'[c].late
  /\ \A c \in doing[v].before : credential'[c] = None \/ credential'[c] = credential[c]
  /\ HoldsLetter(doing[v]) => letter'[doing[v].letter] = letter[doing[v].letter]
  /\ \A l \in doing[v].voids : letter'[l] = None \/ letter'[l] = letter[l]

LEMMA StillFits ==
  ASSUME AccountsInv, NEW v \in Connection, Keeps(v), Undisturbed(v)
  PROVE  Fits(doing[v])'
<1>1. /\ Formed(doing[v]) /\ Proves(doing[v]) /\ StaysGood(doing[v])
      /\ KeepsLetters(doing[v]) /\ EndsAll(doing[v])
  BY Asked DEF Keeps
<1>2. Formed(doing[v])'
  BY <1>1 DEF Keeps, Undisturbed, Formed
<1>3. Proves(doing[v])'
  BY <1>1 DEF Keeps, Undisturbed, Proves, HasChecked, Live
<1>4. StaysGood(doing[v])'
  BY <1>1 DEF Keeps, Undisturbed, Formed, StaysGood, Protected
<1>5. KeepsLetters(doing[v])'
  BY <1>1 DEF Keeps, Undisturbed, KeepsLetters, HoldsLetter, HasVoided
<1>6. EndsAll(doing[v])'
  BY <1>1 DEF Keeps, Undisturbed, EndsAll, HasRevoked
<1> QED BY <1>2, <1>3, <1>4, <1>5, <1>6 DEF Fits

\* w is the request that moves, or nobody.
LEMMA RequestsStay ==
  ASSUME AccountsInv, NEW w,
         \A v \in Connection \ {w} : (doing[v] # None)' => Keeps(v) /\ Undisturbed(v),
         w \in Connection /\ (doing[w] # None)' =>
           /\ Fits(doing[w])'
           /\ \A v \in Connection \ {w} : (doing[v] # None => Apart(doing[w], doing[v]))'
  PROVE  RequestsFit'
<1> SUFFICES ASSUME NEW v \in Connection, (doing[v] # None)'
             PROVE  /\ Fits(doing[v])'
                    /\ \A u \in Connection \ {v} :
                         (doing[u] # None => Apart(doing[v], doing[u]))'
  BY DEF RequestsFit
<1>1. CASE v = w
  BY <1>1
<1>2. CASE v # w
  <2>1. Keeps(v) /\ Undisturbed(v)
    BY <1>2
  <2>2. ASSUME NEW u \in Connection \ {v}, (doing[u] # None)'
        PROVE  Apart(doing[v], doing[u])'
    <3>1. CASE u = w
      <4>1. Apart(doing[w], doing[v])'
        BY <1>2, <2>2, <3>1
      <4> QED BY <3>1, <4>1 DEF Apart, LettersApart
    <3>2. CASE u # w
      <4>1. Keeps(u)
        BY <2>2, <3>2
      <4>2. Apart(doing[v], doing[u])
        BY <2>1, <2>2, <4>1, Asked DEF Keeps
      <4> QED BY <2>1, <4>1, <4>2 DEF Apart, LettersApart, HoldsLetter, Keeps
    <3> QED BY <3>1, <3>2
  <2> QED BY <2>1, <2>2, StillFits
<1> QED BY <1>1, <1>2

LEMMA AccountsRollbackStep ==
  ASSUME AccountsInv, UNCHANGED offered, NEW w \in Connection, Rollback(w)
  PROVE  AccountsInv'
<1>1. /\ UNCHANGED <<password, verified, profile, letter, credential, link, accepted, chosen, now>>
      /\ \A v \in Connection : doing'[v] = IF v = w THEN None ELSE doing[v]
      /\ doing' = [doing EXCEPT ![w] = None]
  BY DEF Rollback, rowVars, AccountsInv, SignedInWithSecondFactor, AccountTypes
<1>2. SignedInWithSecondFactor'
  BY <1>1 DEF AccountsInv, SignedInWithSecondFactor, AccountTypes, Protected, Live
<1>3. NobodyYet'
  BY <1>1 DEF AccountsInv, NobodyYet, HasAccount, Live, Linked
<1>4. AcceptedIsSpent' /\ LatestIsUnused'
  BY <1>1 DEF AccountsInv, AcceptedIsSpent, LatestIsUnused, Protected
<1>5. \A v \in Connection \ {w} : (doing[v] # None)' => Keeps(v) /\ Undisturbed(v)
  BY <1>1 DEF Keeps, Undisturbed, Protected
<1>6. RequestsFit'
  BY <1>1, <1>5, RequestsStay
<1> QED BY <1>2, <1>3, <1>4, <1>6 DEF AccountsInv

LEMMA AccountsEndStep ==
  ASSUME AccountsAssumption, AccountsInv, UNCHANGED offered, NEW c \in Credential, End(c)
  PROVE  AccountsInv'
<1>1. /\ UNCHANGED <<password, verified, profile, letter, link, doing, accepted, chosen, now>>
      /\ credential' = [credential EXCEPT ![c] = None]
      /\ \A d \in Credential : credential'[d] = IF d = c THEN None ELSE credential[d]
  BY DEF End, AccountsInv, SignedInWithSecondFactor, AccountTypes
<1>2. SignedInWithSecondFactor'
  BY <1>1 DEF AccountsInv, SignedInWithSecondFactor, AccountTypes, Protected, Live
<1>3. NobodyYet'
  BY <1>1 DEF AccountsInv, NobodyYet, HasAccount, Live, Linked
<1>4. AcceptedIsSpent' /\ LatestIsUnused'
  BY <1>1 DEF AccountsInv, AcceptedIsSpent, LatestIsUnused, Protected
<1>5. ASSUME NEW v \in Connection, (doing[v] # None)'
      PROVE  Keeps(v) /\ Undisturbed(v)
  <2>1. doing[v].before \subseteq Credential
    BY <1>1, <1>5, Asked DEF SignInRequest
  <2> QED BY <1>1, <1>5, <2>1 DEF Keeps, Undisturbed, Protected
<1>6. None \notin Connection
  BY DEF AccountsAssumption
<1>7. RequestsFit'
  BY <1>5, <1>6, RequestsStay
<1> QED BY <1>2, <1>3, <1>4, <1>7 DEF AccountsInv

LEMMA WorldStep ==
  ASSUME AccountsAssumption, AccountsInv, UNCHANGED offered,
         Tick \/ \E i \in Identity : Elsewhere(i)
  PROVE  AccountsInv'
<1>1. /\ UNCHANGED <<password, verified, profile, letter, credential, doing, accepted, chosen>>
      /\ now' \in 0..MaxTime /\ link' \in [Identity -> {None, "user", "other"}]
      /\ \A i \in Identity : link'[i] = "user" => link[i] = "user"
  BY DEF Tick, Elsewhere, AccountsInv, SignedInWithSecondFactor, AccountTypes, AccountsAssumption
<1>2. SignedInWithSecondFactor'
  BY <1>1 DEF AccountsInv, SignedInWithSecondFactor, AccountTypes, Protected, Live
<1>3. NobodyYet'
  BY <1>1 DEF AccountsInv, NobodyYet, HasAccount, Live, Linked
<1>4. AcceptedIsSpent' /\ LatestIsUnused'
  BY <1>1 DEF AccountsInv, AcceptedIsSpent, LatestIsUnused, Protected
<1>5. \A v \in Connection : (doing[v] # None)' => Keeps(v) /\ Undisturbed(v)
  BY <1>1 DEF Keeps, Undisturbed, Protected
<1>6. None \notin Connection
  BY DEF AccountsAssumption
<1>7. RequestsFit'
  BY <1>5, <1>6, RequestsStay
<1> QED BY <1>2, <1>3, <1>4, <1>7 DEF AccountsInv

LEMMA RegisterStep ==
  ASSUME AccountsAssumption, AccountsInv, UNCHANGED offered, NEW w \in Connection, Register(w)
  PROVE  AccountsInv'
<1> DEFINE r == [kind |-> "resend", at |-> 1, row |-> FALSE, letter |-> None,
                 identity |-> None, code |-> None, secret |-> 0, voids |-> {}, ends |-> {},
                 before |-> {}, late |-> FALSE]
           new == [kind |-> "session", secret |-> 0, late |-> FALSE]
<1>1. PICK c \in NewCredentials : credential' = [credential EXCEPT ![c] = new]
  BY DEF Register
<1>2. /\ doing' = [doing EXCEPT ![w] = r] /\ password' = "chosen" /\ ~HasAccount
      /\ UNCHANGED <<verified, profile, letter, link, accepted, chosen, now>>
  BY DEF Register
<1>3. r \in SignInRequest /\ new \in CredentialRow
  BY DEF SignInRequest, CredentialRow, AccountsAssumption
<1>4. 1 \in DOMAIN Path("resend")
  BY Paths
<1>5. ~Protected /\ ~Protected' /\ profile = None
  BY <1>2 DEF AccountsInv, NobodyYet, Protected
<1>6. /\ \A v \in Connection : doing'[v] = IF v = w THEN r ELSE doing[v]
      /\ \A d \in Credential : d # c => credential'[d] = credential[d]
      /\ c \in Credential
  BY <1>1, <1>2 DEF AccountsInv, SignedInWithSecondFactor, AccountTypes, NewCredentials
<1>7. SignedInWithSecondFactor'
  <2>1. AccountTypes'
    BY <1>1, <1>2, <1>3 DEF AccountsInv, SignedInWithSecondFactor, AccountTypes
  <2> QED BY <1>5, <2>1 DEF SignedInWithSecondFactor
<1>8. NobodyYet'
  BY <1>2 DEF NobodyYet, HasAccount
<1>9. AcceptedIsSpent' /\ LatestIsUnused'
  BY <1>2, <1>5 DEF AccountsInv, AcceptedIsSpent, LatestIsUnused
<1>10. ASSUME NEW v \in Connection \ {w}, (doing[v] # None)'
       PROVE  Keeps(v) /\ Undisturbed(v)
  <2>1. doing'[v] = doing[v] /\ doing[v] # None
    BY <1>6, <1>10
  <2>2. Early(doing[v]) /\ doing[v].before \subseteq Credential
    BY <1>2, <2>1, Asked DEF AccountsInv, NobodyYet, SignInRequest
  <2>3. c \notin doing[v].before
    BY <2>1 DEF NewCredentials
  <2> QED BY <1>2, <1>5, <1>6, <2>1, <2>2, <2>3 DEF Keeps, Undisturbed, Early
<1>11. Fits(doing[w])'
  BY <1>3, <1>4, <1>6 DEF Fits, Formed, Proves, StaysGood, KeepsLetters, EndsAll, HoldsLetter,
     HasRevoked, HasChecked
<1>12. \A v \in Connection \ {w} : (doing[v] # None => Apart(doing[w], doing[v]))'
  BY <1>6 DEF Apart, LettersApart, HoldsLetter
<1>13. RequestsFit'
  BY <1>10, <1>11, <1>12, RequestsStay
<1> QED BY <1>7, <1>8, <1>9, <1>13 DEF AccountsInv

LEMMA ReplaceStep ==
  ASSUME AccountsAssumption, AccountsInv, UNCHANGED offered, NEW w \in Connection, Replace(w)
  PROVE  AccountsInv'
<1> DEFINE q == doing[w]
           n == [q EXCEPT !.at = @ + 1]
<1>1. /\ At(w, "replace") /\ \A l \in Unused("verify") : LetterFree(w, l)
      /\ letter' = Voided(Unused("verify")) /\ doing' = [doing EXCEPT ![w] = n]
      /\ UNCHANGED <<password, verified, profile, credential, link, accepted, chosen, now>>
  BY DEF Replace
<1>2. q # None /\ q.kind = "resend" /\ q.at = 1 /\ 2 \in DOMAIN Path(q.kind)
  BY <1>1, Stands, Positions
<1>3. q \in SignInRequest /\ Formed(q) /\ KeepsLetters(q)
  BY <1>2, Asked
<1>4. /\ Onward(q, n) /\ n.row = q.row /\ n.code = q.code /\ n.secret = q.secret
      /\ n.voids = q.voids /\ n.ends = q.ends
  BY <1>2, <1>3, Advance
<1> HIDE DEF n
<1>5. /\ n \in SignInRequest /\ n.kind = "resend" /\ n.at = 2 /\ n.letter = None
      /\ n.voids = {} /\ n.code = None /\ n.row = q.row
  BY <1>2, <1>3, <1>4 DEF Onward, Formed, KeepsLetters, HasVoided, Coded
<1>6. /\ \A v \in Connection : doing'[v] = IF v = w THEN n ELSE doing[v]
      /\ \A l \in Letter : letter'[l] = IF letter[l] = "verify" THEN None ELSE letter[l]
  BY <1>1 DEF AccountsInv, SignedInWithSecondFactor, AccountTypes, Voided, Unused
<1>7. SignedInWithSecondFactor'
  <2>1. letter' \in [Letter -> {None, "reset", "verify", "email"}]
    BY <1>1 DEF AccountsInv, SignedInWithSecondFactor, AccountTypes, Voided
  <2> QED BY <1>1, <1>5, <2>1
          DEF AccountsInv, SignedInWithSecondFactor, AccountTypes, Protected, Live
<1>8. NobodyYet'
  BY <1>1, <1>2, Known DEF NobodyYet, HasAccount, Early
<1>9. AcceptedIsSpent'
  BY <1>1 DEF AccountsInv, AcceptedIsSpent, Protected
<1>10. LatestIsUnused'
  <2>1. profile # None => profile.letter \in Letter \cup {None}
    BY DEF AccountsInv, SignedInWithSecondFactor, AccountTypes, ProfileRow
  <2> QED BY <1>1, <1>6, <2>1 DEF AccountsInv, LatestIsUnused
<1>11. ASSUME NEW v \in Connection \ {w}, (doing[v] # None)'
       PROVE  Keeps(v) /\ Undisturbed(v)
  <2>1. doing'[v] = doing[v] /\ doing[v] # None
    BY <1>6, <1>11
  <2>2. KeepsLetters(doing[v]) /\ doing[v] \in SignInRequest /\ Formed(doing[v])
    BY <2>1, Asked
  <2>3. doing[v].voids \subseteq Letter /\ (HoldsLetter(doing[v]) => doing[v].letter \in Letter)
    BY <2>2 DEF SignInRequest, Formed, HoldsLetter
  <2>4. HoldsLetter(doing[v]) => doing[v].letter \notin Unused("verify")
    BY <1>1, <2>1, Where DEF LetterFree
  <2> QED BY <1>1, <1>6, <2>1, <2>3, <2>4 DEF Keeps, Undisturbed, Protected, Unused
<1>12. Fits(doing[w])'
  BY <1>2, <1>3, <1>1, <1>5, <1>6 DEF Fits, Formed, Proves, StaysGood, KeepsLetters, EndsAll,
     HoldsLetter, HasRevoked, HasChecked, Locking
<1>13. \A v \in Connection \ {w} : (doing[v] # None => Apart(doing[w], doing[v]))'
  BY <1>2, <1>5, <1>6, Asked DEF Apart, LettersApart, HoldsLetter
<1>14. RequestsFit'
  BY <1>11, <1>12, <1>13, RequestsStay
<1> QED BY <1>7, <1>8, <1>9, <1>10, <1>14 DEF AccountsInv

LEMMA CreateIdentityStep ==
  ASSUME AccountsAssumption, AccountsInv, UNCHANGED offered, NEW w \in Connection,
         CreateIdentity(w)
  PROVE  AccountsInv'
<1> DEFINE q == doing[w]
           n == [q EXCEPT !.at = @ + 1]
<1>1. /\ At(w, "link") /\ doing' = [doing EXCEPT ![w] = n]
      /\ link' = [link EXCEPT ![q.identity] = "user"]
      /\ password' = (IF HasAccount THEN password ELSE "empty")
      /\ verified' = (verified \/ ~HasAccount)
      /\ UNCHANGED <<profile, letter, credential, accepted, chosen, now>>
  BY DEF CreateIdentity
<1>2. q # None /\ q.kind = "oauth" /\ q.at = 1 /\ 2 \in DOMAIN Path(q.kind)
  BY <1>1, Stands, Positions
<1>3. q \in SignInRequest /\ Formed(q) /\ KeepsLetters(q)
  BY <1>2, Asked
<1>4. /\ Onward(q, n) /\ n.row = q.row /\ n.code = q.code /\ n.secret = q.secret
      /\ n.voids = q.voids /\ n.ends = q.ends
  BY <1>2, <1>3, Advance
<1> HIDE DEF n
<1>5. /\ n \in SignInRequest /\ n.kind = "oauth" /\ n.at = 2 /\ n.letter = None
      /\ n.voids = {} /\ n.code = None /\ n.row = q.row /\ n.identity \in Identity
  BY <1>2, <1>3, <1>4 DEF Onward, Formed, KeepsLetters, HasVoided, Coded
<1>6. \A v \in Connection : doing'[v] = IF v = w THEN n ELSE doing[v]
  BY <1>1 DEF AccountsInv, SignedInWithSecondFactor, AccountTypes
<1>7. SignedInWithSecondFactor'
  <2>1. /\ link' \in [Identity -> {None, "user", "other"}] /\ verified' \in BOOLEAN
        /\ password' \in {"none", "empty", "chosen"}
    BY <1>1 DEF AccountsInv, SignedInWithSecondFactor, AccountTypes
  <2> QED BY <1>1, <1>5, <2>1
          DEF AccountsInv, SignedInWithSecondFactor, AccountTypes, Protected, Live
<1>8. NobodyYet'
  BY <1>1 DEF NobodyYet, HasAccount
<1>9. AcceptedIsSpent' /\ LatestIsUnused'
  BY <1>1 DEF AccountsInv, AcceptedIsSpent, LatestIsUnused, Protected
<1>10. \A v \in Connection \ {w} : (doing[v] # None)' => Keeps(v) /\ Undisturbed(v)
  BY <1>1, <1>6 DEF Keeps, Undisturbed, Protected
<1>11. Fits(doing[w])'
  BY <1>2, <1>3, <1>1, <1>5, <1>6 DEF Fits, Formed, Proves, StaysGood, KeepsLetters, EndsAll,
     HoldsLetter, HasRevoked, HasChecked, Locking
<1>12. \A v \in Connection \ {w} : (doing[v] # None => Apart(doing[w], doing[v]))'
  BY <1>2, <1>5, <1>6, Asked DEF Apart, LettersApart, HoldsLetter
<1>13. RequestsFit'
  BY <1>10, <1>11, <1>12, RequestsStay
<1> QED BY <1>7, <1>8, <1>9, <1>13 DEF AccountsInv

-----------------------------------------------------------------------------
(* Commits *)

\* A commit ends its request and leaves the others; enabling makes late what
\* has looked at the second factor before.
LEMMA Finished ==
  ASSUME AccountsAssumption, AccountsInv, NEW w \in Connection, NEW kind, Finishes(w, kind)
  PROVE  /\ doing[w] # None /\ doing[w].kind = kind /\ kind \in SignInKind
         /\ doing[w] \in SignInRequest
         /\ doing[w].at = IF kind \in {"token", "connect"} THEN 1
              ELSE IF kind \in {"login", "setup", "email", "forgot", "resend", "unlink"} THEN 2
              ELSE IF kind \in {"revoke", "enable", "verify", "oauth"} THEN 3
              ELSE IF kind = "disable" THEN 4 ELSE 5
         /\ doing' \in [Connection -> SignInRequest \cup {None}] /\ (doing[w] = None)'
         /\ \A v \in Connection \ {w} : (doing[v] # None)' =>
              /\ Keeps(v)
              /\ kind = "enable" /\ HasChecked(doing[v]) => doing'[v].late
<1>1. /\ At(w, "commit") /\ doing[w].kind = kind /\ Done(w)
  BY DEF Finishes
<1>2. /\ doing[w] # None /\ doing[w].kind \in SignInKind
      /\ Path(doing[w].kind)[doing[w].at] = "commit"
      /\ doing[w].at \in DOMAIN Path(doing[w].kind)
  BY <1>1, Stands
<1> DEFINE late(v) == doing[v].late \/ (doing[w].kind = "enable" /\ Checked(v))
<1>3. doing' = [v \in Connection |-> IF v = w \/ doing[v] = None THEN None
                                     ELSE [doing[v] EXCEPT !.late = late(v)]]
  BY <1>1 DEF Done
<1>4. ASSUME NEW v \in Connection, doing[v] # None
      PROVE  LET n == [doing[v] EXCEPT !.late = late(v)]
             IN  /\ n \in SignInRequest /\ n # None
                 /\ n.at = doing[v].at /\ n.kind = doing[v].kind
                 /\ n.row = doing[v].row /\ n.letter = doing[v].letter
                 /\ n.identity = doing[v].identity /\ n.code = doing[v].code
                 /\ n.secret = doing[v].secret /\ n.voids = doing[v].voids
                 /\ n.ends = doing[v].ends /\ n.before = doing[v].before
                 /\ doing[v].late => n.late
                 /\ kind = "enable" /\ HasChecked(doing[v]) => n.late
  <2>1. doing[v] \in SignInRequest /\ (Checked(v) <=> HasChecked(doing[v]))
    BY <1>4, Asked, Where
  <2>2. late(v) \in BOOLEAN
    BY <2>1 DEF SignInRequest, Checked
  <2>3. (doing[v].late => late(v)) /\ (kind = "enable" /\ HasChecked(doing[v]) => late(v))
    BY <1>1, <2>1
  <2> HIDE DEF late
  <2>4. [doing[v] EXCEPT !.late = late(v)] \in SignInRequest
    BY <2>1, <2>2 DEF SignInRequest
  <2> QED BY <2>1, <2>2, <2>3, <2>4 DEF SignInRequest, AccountsAssumption
<1> HIDE DEF late
<1>5. doing' \in [Connection -> SignInRequest \cup {None}] /\ (doing[w] = None)'
  BY <1>3, <1>4
<1>6. \A v \in Connection \ {w} : (doing[v] # None)' =>
        /\ Keeps(v)
        /\ kind = "enable" /\ HasChecked(doing[v]) => doing'[v].late
  BY <1>3, <1>4 DEF Keeps
<1> QED BY <1>1, <1>2, <1>5, <1>6, Positions, Asked

\* A commit keeps the invariant when it keeps that of the rows and disturbs no one.
LEMMA AccountsCommitStep ==
  ASSUME AccountsAssumption, AccountsInv, NEW w \in Connection, NEW kind, Finishes(w, kind),
         SignedInWithSecondFactor', NobodyYet', AcceptedIsSpent', LatestIsUnused',
         \A v \in Connection \ {w} : (doing[v] # None)' => Undisturbed(v)
  PROVE  AccountsInv'
<1>1. RequestsFit'
  BY Finished, RequestsStay
<1> QED BY <1>1 DEF AccountsInv

\* What a code leaves of the profile.
LEMMA SpentRow ==
  ASSUME AccountsAssumption, AccountsInv, NEW w \in Connection, doing[w] # None,
         doing[w].kind # "enable"
  PROVE  /\ doing[w].code # None => Protected /\ doing[w].row
         /\ doing[w].code = None => Spent(w) = profile
         /\ profile # None => /\ Spent(w) \in ProfileRow /\ Spent(w).secret = profile.secret
                              /\ Spent(w).letter = profile.letter
<1>1. /\ doing[w] \in SignInRequest /\ Formed(doing[w]) /\ StaysGood(doing[w])
  BY Asked
<1>2. profile # None => profile \in ProfileRow
  BY DEF AccountsInv, SignedInWithSecondFactor, AccountTypes
<1>3. doing[w].code # None => doing[w].code \in Code
  BY <1>1 DEF SignInRequest
<1>4. doing[w].code # None => doing[w].code.of \in -1..MaxTime + 1
  BY <1>3 DEF Code, Recovery
<1> QED BY <1>1, <1>2, <1>4 DEF Spent, ProfileRow, Formed, StaysGood

LEMMA SpentStep ==
  ASSUME AccountsAssumption, AccountsInv, NEW w \in Connection, doing[w] # None,
         doing[w].kind # "enable", accepted' = accepted \cup ({doing[w].code} \ {None}),
         \/ ~Protected /\ ~Protected'
         \/ /\ Protected /\ Protected' /\ profile'.secret = Spent(w).secret
            /\ profile'.recovery = Spent(w).recovery /\ profile'.last = Spent(w).last
  PROVE  AcceptedIsSpent'
<1>1. /\ doing[w] \in SignInRequest /\ Formed(doing[w]) /\ StaysGood(doing[w])
  BY Asked
<1>2. CASE ~Protected
  <2>1. doing[w].code = None /\ accepted = {}
    BY <1>1, <1>2 DEF StaysGood, AccountsInv, AcceptedIsSpent
  <2> QED BY <1>2, <2>1 DEF AcceptedIsSpent
<1>3. CASE Protected
  <2>1. profile \in ProfileRow /\ accepted \subseteq Code
    BY <1>3 DEF AccountsInv, SignedInWithSecondFactor, AccountTypes, Protected
  <2>2. \A code \in accepted :
          /\ code.secret = profile.secret /\ code.of \in Int
          /\ IF code.of = Recovery THEN ~profile.recovery ELSE code.of <= profile.last
    BY <1>3, <2>1 DEF AccountsInv, AcceptedIsSpent, Code, Recovery, AccountsAssumption
  <2>3. profile.last \in Int
    BY <2>1 DEF ProfileRow
  <2>4. CASE doing[w].code = None
    <3>1. accepted' = accepted /\ Spent(w) = profile
      BY <2>4 DEF Spent
    <3> QED BY <1>3, <2>2, <3>1 DEF AcceptedIsSpent
  <2>5. CASE doing[w].code # None
    <3> DEFINE new == doing[w].code
    <3>1. new.secret = profile.secret
          /\ (IF new.of = Recovery THEN profile.recovery ELSE new.of > profile.last)
      BY <1>1, <2>5 DEF StaysGood
    <3>2. accepted' = accepted \cup {new} /\ new.of \in Int
      BY <1>1, <2>5 DEF SignInRequest, Code, Recovery, AccountsAssumption
    <3>3. Spent(w) = IF new.of = Recovery THEN [profile EXCEPT !.recovery = FALSE]
                     ELSE [profile EXCEPT !.last = new.of]
      BY <2>5 DEF Spent
    <3> HIDE DEF new
    <3>4. /\ Spent(w).secret = profile.secret
          /\ Spent(w).recovery = IF new.of = Recovery THEN FALSE ELSE profile.recovery
          /\ Spent(w).last = IF new.of = Recovery THEN profile.last ELSE new.of
      BY <2>1, <3>3 DEF ProfileRow
    <3>5. Protected' /\ profile'.secret = profile.secret
          /\ profile'.recovery = Spent(w).recovery /\ profile'.last = Spent(w).last
      BY <1>3, <3>4
    <3>6. ASSUME NEW code \in accepted'
          PROVE  /\ code.secret = profile'.secret
                 /\ IF code.of = Recovery THEN ~profile'.recovery ELSE code.of <= profile'.last
      <4>1. CASE code = new
        BY <3>1, <3>4, <3>5, <3>2, <4>1
      <4>2. CASE code \in accepted
        BY <2>2, <2>3, <3>1, <3>2, <3>4, <3>5, <4>2
      <4> QED BY <3>2, <3>6, <4>1, <4>2
    <3> QED BY <3>5, <3>6 DEF AcceptedIsSpent
  <2> QED BY <2>4, <2>5
<1> QED BY <1>2, <1>3

\* What a new credential is, and that it was not there when any request began.
LEMMA NewRow ==
  ASSUME AccountsAssumption, AccountsInv, NEW w \in Connection, doing[w] # None,
         NEW kind \in {"session", "token"}
  PROVE  /\ Row(w, kind) \in CredentialRow /\ Row(w, kind) # None
         /\ Row(w, kind).secret = doing[w].secret
         /\ doing[w].late => Row(w, kind).late
         /\ \A v \in Connection \ {w} :
              doing[v] # None /\ doing[v].kind = "enable" /\ doing[v].at = 3 => Row(w, kind).late
         /\ \A c \in NewCredentials :
              /\ c \in Credential /\ credential[c] = None
              /\ \A v \in Connection : doing[v] # None => c \notin doing[v].before
<1>1. doing[w] \in SignInRequest
  BY Asked
<1>2. \A v \in Connection \ {w} :
        doing[v] # None /\ doing[v].kind = "enable" /\ doing[v].at = 3 => v \in Enabling \ {w}
  BY Where DEF Enabling, HasRevoked
<1>3. Row(w, kind) \in CredentialRow
  BY <1>1 DEF Row, CredentialRow, SignInRequest
<1>4. \A c \in NewCredentials :
        /\ c \in Credential /\ credential[c] = None
        /\ \A v \in Connection : doing[v] # None => c \notin doing[v].before
  BY DEF NewCredentials, Live
<1> QED BY <1>2, <1>3, <1>4 DEF Row, AccountsAssumption

\* A sign-in that commits: what was looked at under Protected still counts.
LEMMA InsertStep ==
  ASSUME AccountsAssumption, AccountsInv, UNCHANGED offered, NEW w \in Connection,
         NEW kind \in {"login", "oauth", "token"}, Finishes(w, kind),
         NEW of \in {"session", "token"}, Inserts(w, of), profile' = Spent(w),
         UNCHANGED <<password, verified, letter, link, chosen>>
  PROVE  AccountsInv'
<1> DEFINE q == doing[w]
<1>1. /\ q # None /\ q.kind = kind /\ q \in SignInRequest /\ HasChecked(q) /\ ~Early(q)
      /\ doing' \in [Connection -> SignInRequest \cup {None}]
      /\ \A v \in Connection \ {w} : (doing[v] # None)' => Keeps(v)
  BY Finished DEF HasChecked, Early
<1>2. PICK c \in NewCredentials : credential' = [credential EXCEPT ![c] = Row(w, of)]
  BY DEF Inserts
<1>3. accepted' = accepted \cup ({q.code} \ {None}) /\ now' = now
  BY <1>1 DEF Finishes
<1>4. /\ Row(w, of) \in CredentialRow /\ Row(w, of).secret = q.secret
      /\ q.late => Row(w, of).late /\ c \in Credential
  BY <1>1, NewRow
<1>5. \A d \in Credential : credential'[d] = IF d = c THEN Row(w, of) ELSE credential[d]
  BY <1>2 DEF AccountsInv, SignedInWithSecondFactor, AccountTypes
<1>6. /\ (Protected' <=> Protected) /\ (profile = None <=> profile' = None)
      /\ profile # None =>
           /\ profile' \in ProfileRow /\ profile'.secret = profile.secret
           /\ profile'.letter = profile.letter
      /\ profile = None => profile' = profile
  BY <1>1, SpentRow DEF Protected, AccountsAssumption, Spent
<1>7. SignedInWithSecondFactor'
  <2>1. AccountTypes'
    <3>1. /\ credential' \in [Credential -> CredentialRow \cup {None}]
          /\ profile' \in ProfileRow \cup {None} /\ accepted' \subseteq Code
      BY <1>1, <1>2, <1>3, <1>4, <1>6
         DEF AccountsInv, SignedInWithSecondFactor, AccountTypes, SignInRequest
    <3> QED BY <1>1, <1>3, <3>1 DEF AccountsInv, SignedInWithSecondFactor, AccountTypes
  <2>2. Protected => q.secret = profile.secret \/ q.late
    BY <1>1, Asked DEF Proves
  <2> QED BY <1>4, <1>5, <1>6, <2>1, <2>2
          DEF AccountsInv, SignedInWithSecondFactor, Live, Protected
<1>8. NobodyYet'
  BY <1>1, Known DEF NobodyYet, HasAccount
<1>9. AcceptedIsSpent'
  BY <1>1, <1>3, <1>6, SpentStep
<1>10. LatestIsUnused'
  BY <1>6 DEF AccountsInv, LatestIsUnused
<1>11. ASSUME NEW v \in Connection \ {w}, (doing[v] # None)'
       PROVE  Undisturbed(v)
  <2>1. /\ doing[v] # None /\ (doing[v].kind = "enable" /\ doing[v].at = 3 => Row(w, of).late)
        /\ c \notin doing[v].before /\ doing[v].before \subseteq Credential
    BY <1>1, <1>11, NewRow, Asked DEF Keeps, SignInRequest
  <2>2. ~(q.row /\ doing[v].row)
    BY <1>1, <2>1, Asked DEF Apart
  <2>3. doing[v].row => profile' = profile
    BY <1>1, <2>2, SpentRow
  <2> QED BY <1>5, <1>6, <2>1, <2>3 DEF Undisturbed, Protected
<1> QED BY <1>7, <1>8, <1>9, <1>10, <1>11, AccountsCommitStep

LEMMA CommitSetupStep ==
  ASSUME AccountsAssumption, AccountsInv, UNCHANGED offered, NEW w \in Connection, CommitSetup(w)
  PROVE  AccountsInv'
<1> DEFINE q == doing[w]
<1>1. /\ Finishes(w, "setup") /\ chosen < MaxSecrets /\ chosen' = chosen + 1
      /\ profile' = [Ensured EXCEPT !.pending = chosen + 1]
      /\ UNCHANGED <<password, verified, letter, credential, link>>
  BY DEF CommitSetup
<1>2. /\ q # None /\ q.kind = "setup" /\ q.at = 2 /\ Formed(q)
      /\ doing' \in [Connection -> SignInRequest \cup {None}]
      /\ \A v \in Connection \ {w} : (doing[v] # None)' => Keeps(v)
  BY <1>1, Finished, Asked
<1>3. q.code = None /\ q.row /\ ~Early(q)
  BY <1>2 DEF Formed, Coded, Early
<1>4. accepted' = accepted /\ now' = now
  BY <1>1, <1>3 DEF Finishes
<1>5. Ensured \in ProfileRow
  BY DEF Ensured, Blank, AccountsInv, SignedInWithSecondFactor, AccountTypes, ProfileRow,
     AccountsAssumption
<1>6. /\ chosen + 1 \in 0..MaxSecrets
      /\ profile' \in ProfileRow /\ profile'.secret = Ensured.secret
      /\ profile'.letter = Ensured.letter /\ profile'.recovery = Ensured.recovery
      /\ profile'.last = Ensured.last
  BY <1>1, <1>5 DEF ProfileRow, AccountsInv, SignedInWithSecondFactor, AccountTypes,
     AccountsAssumption
<1>7. /\ profile' # None /\ (Protected' <=> Protected)
      /\ Protected => profile'.secret = profile.secret /\ profile'.recovery = profile.recovery
                      /\ profile'.last = profile.last
      /\ profile = None => profile'.letter = None
      /\ profile # None => profile'.letter = profile.letter
  <2>1. profile' # None
    BY <1>6 DEF AccountsAssumption
  <2>2. CASE profile = None
    BY <1>6, <2>1, <2>2 DEF Ensured, Blank, Protected
  <2>3. CASE profile # None
    BY <1>6, <2>1, <2>3 DEF Ensured, Protected
  <2> QED BY <2>1, <2>2, <2>3
<1>8. SignedInWithSecondFactor'
  <2>1. AccountTypes'
    BY <1>1, <1>2, <1>4, <1>6 DEF AccountsInv, SignedInWithSecondFactor, AccountTypes
  <2> QED BY <1>1, <1>7, <2>1 DEF AccountsInv, SignedInWithSecondFactor, Live
<1>9. NobodyYet'
  BY <1>1, <1>2, <1>3, Known DEF NobodyYet, HasAccount
<1>10. AcceptedIsSpent' /\ LatestIsUnused'
  BY <1>1, <1>4, <1>7 DEF AccountsInv, AcceptedIsSpent, LatestIsUnused
<1>11. ASSUME NEW v \in Connection \ {w}, (doing[v] # None)'
       PROVE  Undisturbed(v)
  <2>1. doing[v] # None /\ ~doing[v].row
    BY <1>2, <1>3, <1>11, Asked DEF Apart, Keeps
  <2> QED BY <1>1, <1>7, <2>1 DEF Undisturbed
<1> QED BY <1>1, <1>8, <1>9, <1>10, <1>11, AccountsCommitStep

LEMMA CommitEmailStep ==
  ASSUME AccountsAssumption, AccountsInv, UNCHANGED offered, NEW w \in Connection, CommitEmail(w)
  PROVE  AccountsInv'
<1> DEFINE q == doing[w]
           row == IF profile = None THEN Blank ELSE Spent(w)
<1>1. Finishes(w, "email") /\ ProfileFree(w)
      /\ UNCHANGED <<password, verified, credential, link, chosen>>
  BY DEF CommitEmail
<1>2. PICK l \in NewLetters :
        /\ letter' = [Voided(Unused("email")) EXCEPT ![l] = "email"]
        /\ profile' = [row EXCEPT !.letter = l]
  BY DEF CommitEmail
<1>3. /\ q # None /\ q.kind = "email" /\ q \in SignInRequest
      /\ doing' \in [Connection -> SignInRequest \cup {None}]
      /\ \A v \in Connection \ {w} : (doing[v] # None)' => Keeps(v)
  BY <1>1, Finished
<1>4. accepted' = accepted \cup ({q.code} \ {None}) /\ now' = now
  BY <1>1, <1>3 DEF Finishes
<1>5. /\ l \in Letter /\ letter[l] = None
      /\ \A v \in Connection : doing[v] # None => l # doing[v].letter /\ l \notin doing[v].voids
  BY DEF NewLetters
<1>6. row \in ProfileRow
  BY <1>3, SpentRow DEF Blank, ProfileRow, AccountsAssumption
<1>7. /\ profile' \in ProfileRow /\ profile'.letter = l /\ profile'.secret = row.secret
      /\ profile'.recovery = row.recovery /\ profile'.last = row.last
  BY <1>2, <1>5, <1>6 DEF ProfileRow
<1>8. /\ profile' # None /\ (Protected' <=> Protected)
      /\ Protected => /\ profile'.secret = profile.secret /\ profile'.secret = Spent(w).secret
                      /\ profile'.recovery = Spent(w).recovery /\ profile'.last = Spent(w).last
  <2>1. profile' # None
    BY <1>7 DEF AccountsAssumption
  <2>2. CASE profile = None
    BY <1>7, <2>1, <2>2 DEF Blank, Protected
  <2>3. CASE profile # None
    <3>1. Spent(w).secret = profile.secret
      BY <1>3, <2>3, SpentRow
    <3> QED BY <1>7, <2>1, <2>3, <3>1 DEF Protected
  <2> QED BY <2>1, <2>2, <2>3
<1>9. \A k \in Letter : letter'[k] = IF k = l THEN "email"
                                     ELSE IF letter[k] = "email" THEN None ELSE letter[k]
  BY <1>2, <1>5 DEF Voided, Unused
<1>10. SignedInWithSecondFactor'
  <2>1. AccountTypes'
    <3>1. letter' \in [Letter -> {None, "reset", "verify", "email"}] /\ accepted' \subseteq Code
      BY <1>2, <1>3, <1>4 DEF AccountsInv, SignedInWithSecondFactor, AccountTypes, Voided,
         SignInRequest
    <3> QED BY <1>1, <1>3, <1>4, <1>7, <3>1 DEF AccountsInv, SignedInWithSecondFactor, AccountTypes
  <2> QED BY <1>1, <1>8, <2>1 DEF AccountsInv, SignedInWithSecondFactor, Live
<1>11. NobodyYet'
  BY <1>1, <1>3, Known DEF NobodyYet, HasAccount, Early
<1>12. AcceptedIsSpent'
  BY <1>3, <1>4, <1>8, SpentStep
<1>13. LatestIsUnused'
  BY <1>5, <1>7, <1>9 DEF LatestIsUnused
<1>14. ASSUME NEW v \in Connection \ {w}, (doing[v] # None)'
       PROVE  Undisturbed(v)
  <2>1. doing[v] # None /\ ~doing[v].row
    BY <1>1, <1>3, <1>14 DEF ProfileFree, Keeps
  <2>2. doing[v] \in SignInRequest /\ Formed(doing[v]) /\ KeepsLetters(doing[v])
    BY <2>1, Asked
  <2>3. HoldsLetter(doing[v]) =>
          /\ doing[v].letter \in Letter /\ letter[doing[v].letter] # "email"
          /\ doing[v].letter # l
    BY <1>5, <2>1, <2>2 DEF SignInRequest, Formed, HoldsLetter, KeepsLetters
  <2>4. doing[v].voids \subseteq Letter /\ l \notin doing[v].voids
    BY <1>5, <2>1, <2>2 DEF SignInRequest
  <2> QED BY <1>1, <1>8, <1>9, <2>1, <2>3, <2>4 DEF Undisturbed
<1> QED BY <1>1, <1>10, <1>11, <1>12, <1>13, <1>14, AccountsCommitStep

LEMMA CommitEnableStep ==
  ASSUME AccountsAssumption, AccountsInv, UNCHANGED offered, NEW w \in Connection, CommitEnable(w)
  PROVE  AccountsInv'
<1> DEFINE q == doing[w]
<1>1. /\ Finishes(w, "enable")
      /\ profile' = [profile EXCEPT !.secret = q.secret, !.pending = 0,
                                    !.last = q.code.of, !.recovery = TRUE]
      /\ UNCHANGED <<password, verified, letter, link, chosen>>
  BY DEF CommitEnable
<1>2. PICK c \in NewCredentials : credential' = [Revoked(w) EXCEPT ![c] = Row(w, "session")]
  BY DEF CommitEnable
<1>3. /\ q # None /\ q.kind = "enable" /\ q.at = 3 /\ q \in SignInRequest
      /\ doing' \in [Connection -> SignInRequest \cup {None}]
      /\ \A v \in Connection \ {w} : (doing[v] # None)' =>
           Keeps(v) /\ (HasChecked(doing[v]) => doing'[v].late)
  BY <1>1, Finished
<1>4. Formed(q) /\ Proves(q)
  BY <1>3, Asked
<1>5. /\ q.row /\ q.code # None /\ q.code \in Code /\ q.code.of >= 0 /\ q.code.secret = q.secret
      /\ profile # None /\ profile.secret = 0
  BY <1>3, <1>4 DEF Formed, SignInRequest
<1>6. /\ q.secret \in 1..MaxSecrets /\ q.code.of \in -1..MaxTime + 1 /\ q.code.of # Recovery
      /\ profile \in ProfileRow
  BY <1>5 DEF Code, Recovery, AccountsInv, SignedInWithSecondFactor, AccountTypes
<1>7. /\ profile' \in ProfileRow /\ profile' # None /\ profile'.secret = q.secret
      /\ profile'.last = q.code.of /\ profile'.letter = profile.letter
  <2>1. q.secret \in 0..MaxSecrets /\ 0 \in 0..MaxSecrets
    BY <1>6 DEF AccountsAssumption
  <2> QED BY <1>1, <1>6, <2>1 DEF ProfileRow, AccountsAssumption
<1>8. accepted' = {q.code} /\ now' = now
  <2>1. accepted = {}
    BY <1>5 DEF AccountsInv, AcceptedIsSpent, Protected
  <2> QED BY <1>1, <1>3, <1>5, <2>1 DEF Finishes
<1>9. /\ Row(w, "session") \in CredentialRow /\ Row(w, "session").secret = q.secret
      /\ c \in Credential /\ credential[c] = None
      /\ \A d \in Credential :
           credential'[d] = IF d = c THEN Row(w, "session")
                            ELSE IF d \in q.ends THEN None ELSE credential[d]
  BY <1>2, <1>3, NewRow DEF Revoked
<1>10. SignedInWithSecondFactor'
  <2>1. AccountTypes'
    <3>1. credential' \in [Credential -> CredentialRow \cup {None}]
      BY <1>2, <1>9 DEF AccountsInv, SignedInWithSecondFactor, AccountTypes, Revoked
    <3>2. accepted' \subseteq Code
      BY <1>5, <1>8
    <3> QED BY <1>1, <1>3, <1>7, <1>8, <3>1, <3>2
            DEF AccountsInv, SignedInWithSecondFactor, AccountTypes
  <2>2. \A d \in Credential : credential[d] # None => d \in q.ends \/ credential[d].late
    BY <1>3, <1>4 DEF Proves, Live
  <2> QED BY <1>7, <1>9, <2>1, <2>2 DEF SignedInWithSecondFactor, Live
<1>11. NobodyYet'
  BY <1>1, <1>3, Known DEF NobodyYet, HasAccount, Early
<1>12. AcceptedIsSpent'
  BY <1>5, <1>6, <1>7, <1>8 DEF AcceptedIsSpent, Protected
<1>13. LatestIsUnused'
  BY <1>1, <1>5, <1>7 DEF AccountsInv, LatestIsUnused
<1>14. ASSUME NEW v \in Connection \ {w}, (doing[v] # None)'
       PROVE  Undisturbed(v)
  <2>1. /\ doing[v] # None /\ ~doing[v].row /\ (HasChecked(doing[v]) => doing'[v].late)
        /\ doing[v] \in SignInRequest /\ Formed(doing[v])
    BY <1>3, <1>5, <1>14, Asked DEF Apart, Keeps
  <2>2. ~(doing[v].kind = "enable" /\ doing[v].at = 3)
    BY <2>1 DEF Formed
  <2>3. c \notin doing[v].before /\ doing[v].before \subseteq Credential
    BY <1>3, <2>1, NewRow DEF SignInRequest
  <2> QED BY <1>1, <1>9, <2>1, <2>2, <2>3 DEF Undisturbed
<1> QED BY <1>1, <1>10, <1>11, <1>12, <1>13, <1>14, AccountsCommitStep

LEMMA CommitDisableStep ==
  ASSUME AccountsAssumption, AccountsInv, UNCHANGED offered, NEW w \in Connection, CommitDisable(w)
  PROVE  AccountsInv'
<1> DEFINE q == doing[w]
<1>1. /\ Finishes(w, "disable") /\ credential' = Revoked(w)
      /\ profile' = (IF ~q.row THEN profile
                     ELSE [profile EXCEPT !.secret = 0, !.pending = 0,
                                          !.last = -1, !.recovery = FALSE])
      /\ UNCHANGED <<password, verified, letter, link, chosen>>
  BY DEF CommitDisable
<1>2. /\ q # None /\ q.kind = "disable" /\ q \in SignInRequest /\ Formed(q)
      /\ doing' \in [Connection -> SignInRequest \cup {None}]
      /\ \A v \in Connection \ {w} : (doing[v] # None)' => Keeps(v)
  BY <1>1, Finished, Asked
<1>3. \A d \in Credential :
        credential'[d] = IF d \in q.ends THEN None ELSE credential[d]
  BY <1>1 DEF Revoked
<1>4. CASE q.row
  <2>1. profile \in ProfileRow
    BY <1>2, <1>4 DEF Formed, AccountsInv, SignedInWithSecondFactor, AccountTypes
  <2>2. /\ profile' \in ProfileRow /\ ~Protected' /\ profile'.letter = profile.letter
        /\ profile # None
    <3>1. 0 \in 0..MaxSecrets /\ -1 \in -1..MaxTime + 1
      BY DEF AccountsAssumption
    <3>2. profile # None
      BY <2>1 DEF AccountsAssumption
    <3>3. profile' \in ProfileRow /\ profile'.secret = 0 /\ profile'.letter = profile.letter
      BY <1>1, <1>4, <2>1, <3>1 DEF ProfileRow
    <3> QED BY <3>2, <3>3 DEF Protected
  <2>3. accepted' = {} /\ now' = now
    BY <1>1, <1>2, <1>4 DEF Finishes
  <2>4. SignedInWithSecondFactor'
    <3>1. credential' \in [Credential -> CredentialRow \cup {None}]
      BY <1>1 DEF Revoked, AccountsInv, SignedInWithSecondFactor, AccountTypes
    <3>2. AccountTypes'
      BY <1>1, <1>2, <2>2, <2>3, <3>1 DEF AccountsInv, SignedInWithSecondFactor, AccountTypes
    <3> QED BY <2>2, <3>2 DEF SignedInWithSecondFactor
  <2>5. AcceptedIsSpent' /\ LatestIsUnused'
    BY <1>1, <2>2, <2>3 DEF AccountsInv, AcceptedIsSpent, LatestIsUnused
  <2>6. NobodyYet'
    BY <1>1, <1>2, Known DEF NobodyYet, HasAccount, Early
  <2>7. ASSUME NEW v \in Connection \ {w}, (doing[v] # None)'
        PROVE  Undisturbed(v)
    <3>1. /\ doing[v] # None /\ ~doing[v].row /\ doing[v].before \subseteq Credential
      BY <1>2, <1>4, <2>7, Asked DEF Apart, Keeps, SignInRequest
    <3> QED BY <1>1, <1>3, <2>2, <3>1 DEF Undisturbed
  <2> QED BY <1>1, <2>4, <2>5, <2>6, <2>7, AccountsCommitStep
<1>5. CASE ~q.row
  <2>1. profile' = profile /\ q.code = None
    BY <1>1, <1>2, <1>5 DEF Formed
  <2>2. accepted' = accepted /\ now' = now
    BY <1>1, <1>2, <1>5, <2>1 DEF Finishes
  <2>3. SignedInWithSecondFactor'
    <3>1. credential' \in [Credential -> CredentialRow \cup {None}]
      BY <1>1 DEF Revoked, AccountsInv, SignedInWithSecondFactor, AccountTypes
    <3>2. AccountTypes'
      BY <1>1, <1>2, <2>1, <2>2, <3>1 DEF AccountsInv, SignedInWithSecondFactor, AccountTypes
    <3> QED BY <1>3, <2>1, <3>2 DEF AccountsInv, SignedInWithSecondFactor, Protected, Live
  <2>4. AcceptedIsSpent' /\ LatestIsUnused'
    BY <1>1, <2>1, <2>2 DEF AccountsInv, AcceptedIsSpent, LatestIsUnused, Protected
  <2>5. NobodyYet'
    BY <1>1, <1>2, Known DEF NobodyYet, HasAccount, Early
  <2>6. ASSUME NEW v \in Connection \ {w}, (doing[v] # None)'
        PROVE  Undisturbed(v)
    <3>1. /\ doing[v] # None /\ doing[v].before \subseteq Credential
      BY <1>2, <2>6, Asked DEF Keeps, SignInRequest
    <3> QED BY <1>1, <1>3, <2>1, <3>1 DEF Undisturbed, Protected
  <2> QED BY <1>1, <2>3, <2>4, <2>5, <2>6, AccountsCommitStep
<1>6. q.row \in BOOLEAN
  BY <1>2 DEF SignInRequest
<1> QED BY <1>4, <1>5, <1>6

\* What changes how one signs in, and voids the letters it voided.
LEMMA ChangeStep ==
  ASSUME AccountsAssumption, AccountsInv, UNCHANGED offered, NEW w \in Connection,
         NEW kind \in {"revoke", "password", "reset"}, Finishes(w, kind),
         password' = (IF kind = "revoke" THEN password ELSE "chosen"),
         credential' = Revoked(w), profile' = Spent(w),
         letter' = letter \/ letter' = Voided(doing[w].voids),
         UNCHANGED <<verified, link, chosen>>
  PROVE  AccountsInv'
<1> DEFINE q == doing[w]
<1>1. /\ q # None /\ q.kind = kind /\ q \in SignInRequest /\ KeepsLetters(q)
      /\ doing' \in [Connection -> SignInRequest \cup {None}]
      /\ \A v \in Connection \ {w} : (doing[v] # None)' => Keeps(v)
  BY Finished, Asked
<1>2. accepted' = accepted \cup ({q.code} \ {None}) /\ now' = now
  BY <1>1 DEF Finishes
<1>3. \A d \in Credential :
        credential'[d] = IF d \in q.ends THEN None ELSE credential[d]
  BY DEF Revoked
<1>4. \A l \in Letter : letter'[l] = letter[l] \/ (l \in q.voids /\ letter'[l] = None)
  BY DEF Voided
<1>5. /\ (Protected' <=> Protected) /\ (profile = None <=> profile' = None)
      /\ profile # None =>
           /\ profile' \in ProfileRow /\ profile'.secret = profile.secret
           /\ profile'.letter = profile.letter
      /\ profile = None => profile' = profile
  BY <1>1, SpentRow DEF Protected, AccountsAssumption, Spent
<1>6. SignedInWithSecondFactor'
  <2>1. AccountTypes'
    <3>1. /\ credential' \in [Credential -> CredentialRow \cup {None}]
          /\ letter' \in [Letter -> {None, "reset", "verify", "email"}]
      BY DEF AccountsInv, SignedInWithSecondFactor, AccountTypes, Revoked, Voided
    <3>2. /\ profile' \in ProfileRow \cup {None} /\ accepted' \subseteq Code
          /\ password' \in {"none", "empty", "chosen"}
      BY <1>1, <1>2, <1>5 DEF AccountsInv, SignedInWithSecondFactor, AccountTypes, SignInRequest
    <3> QED BY <1>1, <1>2, <3>1, <3>2 DEF AccountsInv, SignedInWithSecondFactor, AccountTypes
  <2> QED BY <1>3, <1>5, <2>1 DEF AccountsInv, SignedInWithSecondFactor, Live, Protected
<1>7. NobodyYet'
  BY <1>1, Known DEF NobodyYet, HasAccount, Early
<1>8. AcceptedIsSpent'
  BY <1>1, <1>2, <1>5, SpentStep
<1>9. LatestIsUnused'
  <2>1. profile # None => profile.letter \in Letter \cup {None}
    BY DEF AccountsInv, SignedInWithSecondFactor, AccountTypes, ProfileRow
  <2> QED BY <1>1, <1>4, <1>5, <2>1
          DEF AccountsInv, LatestIsUnused, KeepsLetters, AccountsAssumption
<1>10. ASSUME NEW v \in Connection \ {w}, (doing[v] # None)'
       PROVE  Undisturbed(v)
  <2>1. /\ doing[v] # None /\ doing[v] \in SignInRequest /\ Apart(q, doing[v])
        /\ Formed(doing[v])
    BY <1>1, <1>10, Asked DEF Keeps
  <2>2. doing[v].row => profile' = profile
    BY <1>1, <2>1, SpentRow DEF Apart
  <2>3. HoldsLetter(doing[v]) => doing[v].letter \in Letter \ q.voids
    BY <2>1 DEF Apart, LettersApart, HoldsLetter, SignInRequest, Formed
  <2>4. doing[v].voids \subseteq Letter /\ doing[v].before \subseteq Credential
    BY <2>1 DEF SignInRequest
  <2> QED BY <1>3, <1>4, <1>5, <2>1, <2>2, <2>3, <2>4 DEF Undisturbed, Protected
<1> QED BY <1>6, <1>7, <1>8, <1>9, <1>10, AccountsCommitStep

LEMMA CommitConfirmStep ==
  ASSUME AccountsAssumption, AccountsInv, UNCHANGED offered, NEW w \in Connection, CommitConfirm(w)
  PROVE  AccountsInv'
<1> DEFINE q == doing[w]
<1>1. /\ Finishes(w, "confirm") /\ verified' = TRUE /\ credential' = Revoked(w)
      /\ letter' = Voided(q.voids \cup {q.letter}) /\ profile' = [profile EXCEPT !.letter = None]
      /\ UNCHANGED <<password, link, chosen>>
  BY DEF CommitConfirm
<1>2. /\ q # None /\ q.kind = "confirm" /\ q.at = 5 /\ q \in SignInRequest
      /\ Formed(q) /\ KeepsLetters(q)
      /\ doing' \in [Connection -> SignInRequest \cup {None}]
      /\ \A v \in Connection \ {w} : (doing[v] # None)' => Keeps(v)
  BY <1>1, Finished, Asked
<1>3. /\ q.code = None /\ q.row /\ profile # None /\ profile.letter = q.letter
      /\ q.letter \in Letter
  BY <1>2 DEF Formed, Coded, SignInRequest
<1>4. accepted' = accepted /\ now' = now
  BY <1>1, <1>2, <1>3 DEF Finishes
<1>5. /\ profile \in ProfileRow /\ letter[q.letter] = "email"
  BY <1>3 DEF AccountsInv, LatestIsUnused, SignedInWithSecondFactor, AccountTypes,
     AccountsAssumption
<1>6. /\ profile' \in ProfileRow /\ profile'.letter = None /\ profile'.secret = profile.secret
      /\ profile'.last = profile.last /\ profile'.recovery = profile.recovery
  BY <1>1, <1>5 DEF ProfileRow
<1>7. profile' # None /\ (Protected' <=> Protected)
  BY <1>3, <1>6 DEF Protected, AccountsAssumption
<1>8. \A d \in Credential :
        credential'[d] = IF d \in q.ends THEN None ELSE credential[d]
  BY <1>1 DEF Revoked
<1>9. \A l \in Letter :
        letter'[l] = IF l \in q.voids \cup {q.letter} THEN None ELSE letter[l]
  BY <1>1 DEF Voided
<1>10. SignedInWithSecondFactor'
  <2>1. AccountTypes'
    <3>1. /\ credential' \in [Credential -> CredentialRow \cup {None}]
          /\ letter' \in [Letter -> {None, "reset", "verify", "email"}]
      BY <1>1 DEF AccountsInv, SignedInWithSecondFactor, AccountTypes, Revoked, Voided
    <3> QED BY <1>1, <1>2, <1>4, <1>6, <3>1 DEF AccountsInv, SignedInWithSecondFactor, AccountTypes
  <2> QED BY <1>6, <1>7, <1>8, <2>1 DEF AccountsInv, SignedInWithSecondFactor, Live
<1>11. NobodyYet'
  BY <1>1, <1>2, Known DEF NobodyYet, HasAccount, Early
<1>12. AcceptedIsSpent' /\ LatestIsUnused'
  BY <1>4, <1>6, <1>7 DEF AccountsInv, AcceptedIsSpent, LatestIsUnused
<1>13. ASSUME NEW v \in Connection \ {w}, (doing[v] # None)'
       PROVE  Undisturbed(v)
  <2>1. /\ doing[v] # None /\ doing[v] \in SignInRequest /\ Apart(q, doing[v])
        /\ Formed(doing[v]) /\ KeepsLetters(doing[v])
    BY <1>2, <1>13, Asked DEF Keeps
  <2>2. ~doing[v].row
    BY <1>3, <2>1 DEF Apart
  <2>3. HoldsLetter(doing[v]) => doing[v].letter \in Letter \ (q.voids \cup {q.letter})
    BY <1>5, <2>1 DEF Apart, LettersApart, HoldsLetter, SignInRequest, Formed, KeepsLetters
  <2>4. doing[v].voids \subseteq Letter /\ doing[v].before \subseteq Credential
    BY <2>1 DEF SignInRequest
  <2> QED BY <1>6, <1>7, <1>8, <1>9, <2>2, <2>3, <2>4 DEF Undisturbed
<1> QED BY <1>1, <1>10, <1>11, <1>12, <1>13, AccountsCommitStep

\* The requests that leave the profile and the credentials alone.
LEMMA QuietStep ==
  ASSUME AccountsAssumption, AccountsInv, UNCHANGED offered, NEW w \in Connection, NEW kind,
         kind \in {"forgot", "verify", "resend", "connect", "unlink"}, Finishes(w, kind),
         verified' \in BOOLEAN, letter' \in [Letter -> {None, "reset", "verify", "email"}],
         link' \in [Identity -> {None, "user", "other"}],
         kind = "verify" => link' = link,
         \A l \in Letter : \/ letter'[l] = letter[l]
                           \/ letter'[l] = None /\ l \in doing[w].voids
                           \/ letter'[l] = None /\ l = doing[w].letter /\ kind = "verify"
                           \/ letter[l] = None /\ l \in NewLetters,
         UNCHANGED <<password, profile, credential, chosen>>
  PROVE  AccountsInv'
<1> DEFINE q == doing[w]
<1>1. /\ q # None /\ q.kind = kind /\ q \in SignInRequest /\ Formed(q) /\ KeepsLetters(q)
      /\ kind = "verify" => q.at = 3
      /\ doing' \in [Connection -> SignInRequest \cup {None}] /\ (doing[w] = None)'
      /\ \A v \in Connection \ {w} : (doing[v] # None)' => Keeps(v)
  BY Finished, Asked
<1>2. q.code = None
  BY <1>1 DEF Formed, Coded
<1>3. accepted' = accepted /\ now' = now
  BY <1>1, <1>2 DEF Finishes
<1>4. SignedInWithSecondFactor'
  BY <1>1, <1>3 DEF AccountsInv, SignedInWithSecondFactor, AccountTypes, Live, Protected
<1>5. NobodyYet'
  <2>1. CASE kind = "verify"
    BY <1>1, <2>1 DEF AccountsInv, NobodyYet, HasAccount, Live, Linked, Early, Keeps
  <2>2. CASE kind # "verify"
    BY <1>1, <2>2, Known DEF NobodyYet, HasAccount, Early
  <2> QED BY <2>1, <2>2
<1>6. AcceptedIsSpent'
  BY <1>3 DEF AccountsInv, AcceptedIsSpent, Protected
<1>7. kind = "verify" => q.letter \in Letter /\ letter[q.letter] = "verify"
  BY <1>1 DEF Formed, SignInRequest, KeepsLetters, HoldsLetter
<1>8. LatestIsUnused'
  <2>1. profile # None => profile.letter \in Letter \cup {None}
    BY DEF AccountsInv, SignedInWithSecondFactor, AccountTypes, ProfileRow
  <2> QED BY <1>1, <1>7, <2>1 DEF AccountsInv, LatestIsUnused, KeepsLetters, AccountsAssumption
<1>9. ASSUME NEW v \in Connection \ {w}, (doing[v] # None)'
      PROVE  Undisturbed(v)
  <2>1. /\ doing[v] # None /\ doing[v] \in SignInRequest /\ Apart(q, doing[v])
        /\ Formed(doing[v]) /\ KeepsLetters(doing[v])
    BY <1>1, <1>9, Asked DEF Keeps
  <2>2. \A l \in NewLetters : l # doing[v].letter /\ l \notin doing[v].voids
    BY <2>1 DEF NewLetters
  <2>3. kind = "verify" => HoldsLetter(q)
    BY <1>1 DEF HoldsLetter
  <2>4. HoldsLetter(doing[v]) =>
          /\ doing[v].letter \in Letter \ q.voids
          /\ kind = "verify" => doing[v].letter # q.letter
    BY <2>1, <2>3 DEF Apart, LettersApart, HoldsLetter, SignInRequest, Formed
  <2>5. doing[v].voids \subseteq Letter /\ doing[v].before \subseteq Credential
    BY <2>1 DEF SignInRequest
  <2> QED BY <2>2, <2>4, <2>5 DEF Undisturbed, Protected
<1> QED BY <1>4, <1>5, <1>6, <1>8, <1>9, AccountsCommitStep

\* Every way to begin.
LEMMA AccountsAskStep ==
  ASSUME AccountsAssumption, AccountsInv, UNCHANGED offered, NEW w \in Connection,
         AskAsAnyone(w) \/ \E c \in Credential : AskAsActor(w, c)
  PROVE  AccountsInv'
<1>1. /\ \A c \in Live : c \in Credential /\ HasAccount
      /\ HasPassword => HasAccount
      /\ \A kind : Unused(kind) \subseteq Letter
      /\ \A l \in Letter : l # None
  BY DEF AccountsInv, NobodyYet, Live, HasPassword, HasAccount, Unused, AccountsAssumption
<1>2. \A kind \in {"login", "forgot", "setup", "email", "disable", "revoke", "password", "enable",
                   "token", "resend", "confirm", "unlink", "connect", "reset", "verify", "oauth"} :
        kind \in SignInKind
  BY DEF SignInKind
<1>3. CASE AskAsAnyone(w)
  <2>1. CASE Register(w)
    BY <2>1, RegisterStep
  <2>2. CASE Login(w)
    BY <1>1, <1>2, <2>2, BeginStep DEF Login
  <2>3. CASE Forgot(w)
    BY <1>1, <1>2, <2>3, BeginStep DEF Forgot
  <2>4. ASSUME NEW kind \in {"reset", "verify"}, NEW l \in Unused(kind), Follow(w, kind, l)
        PROVE  AccountsInv'
    BY <1>1, <1>2, <2>4, BeginStep DEF Follow
  <2>5. ASSUME NEW i \in Identity, OAuth(w, i)
        PROVE  AccountsInv'
    BY <1>1, <1>2, <2>5, BeginStep DEF OAuth
  <2> QED BY <1>3, <2>1, <2>2, <2>3, <2>4, <2>5 DEF AskAsAnyone
<1>4. ASSUME NEW c \in Credential, AskAsActor(w, c)
      PROVE  AccountsInv'
  <2>1. ASSUME NEW kind \in {"setup", "email", "disable", "revoke", "password"},
               Settings(w, kind, c)
        PROVE  AccountsInv'
    BY <1>1, <1>2, <2>1, BeginStep DEF Settings
  <2>2. CASE Enable(w, c)
    BY <1>1, <1>2, <2>2, BeginStep DEF Enable
  <2>3. CASE CreateApiToken(w, c)
    BY <1>1, <1>2, <2>3, BeginStep DEF CreateApiToken
  <2>4. CASE RequestEmailVerification(w, c)
    BY <1>1, <1>2, <2>4, BeginStep DEF RequestEmailVerification
  <2>5. ASSUME NEW l \in Unused("email"), ConfirmEmail(w, c, l)
        PROVE  AccountsInv'
    BY <1>1, <1>2, <2>5, BeginStep DEF ConfirmEmail
  <2>6. ASSUME NEW i \in Identity, Unlink(w, c, i)
        PROVE  AccountsInv'
    BY <1>1, <1>2, <2>6, BeginStep DEF Unlink
  <2>7. ASSUME NEW i \in Identity, Connect(w, c, i)
        PROVE  AccountsInv'
    BY <1>1, <1>2, <2>7, BeginStep DEF Connect
  <2> QED BY <1>4, <2>1, <2>2, <2>3, <2>4, <2>5, <2>6, <2>7 DEF AskAsActor
<1> QED BY <1>3, <1>4

LEMMA StatementStep ==
  ASSUME AccountsAssumption, AccountsInv, UNCHANGED offered, NEW w \in Connection, Statement(w)
  PROVE  AccountsInv'
BY LockProfileStep, ClearFactorStep, LockLetterStep, LockAccountStep, VoidLettersStep, RevokeStep,
   CountLoginsStep, LookStep, ReplaceStep, CreateIdentityStep DEF Statement

\* What writing a letter leaves of the others.
LEMMA LetterWritten ==
  ASSUME AccountsInv, NEW kind \in {"reset", "verify"}, NEW letters, WritesLetter(kind, letters)
  PROVE  /\ letter' \in [Letter -> {None, "reset", "verify", "email"}]
         /\ \A l \in Letter : \/ letter'[l] = letter[l]
                              \/ letter'[l] = None /\ l \in letters
                              \/ letter[l] = None /\ l \in NewLetters
<1>1. letter \in [Letter -> {None, "reset", "verify", "email"}]
  BY DEF AccountsInv, SignedInWithSecondFactor, AccountTypes
<1>2. PICK l \in NewLetters : letter' = [Voided(letters) EXCEPT ![l] = kind]
  BY DEF WritesLetter
<1>3. l \in Letter /\ letter[l] = None
  BY <1>2 DEF NewLetters
<1> QED BY <1>1, <1>2, <1>3 DEF Voided

LEMMA QuietCommitStep ==
  ASSUME AccountsAssumption, AccountsInv, UNCHANGED offered, NEW w \in Connection,
         \/ CommitForgot(w) \/ CommitVerify(w) \/ CommitResend(w)
         \/ CommitConnect(w) \/ CommitUnlink(w)
  PROVE  AccountsInv'
<1>1. /\ letter \in [Letter -> {None, "reset", "verify", "email"}]
      /\ link \in [Identity -> {None, "user", "other"}] /\ verified \in BOOLEAN
  BY DEF AccountsInv, SignedInWithSecondFactor, AccountTypes
<1>2. CASE CommitForgot(w)
  <2>1. /\ letter' \in [Letter -> {None, "reset", "verify", "email"}]
        /\ \A l \in Letter : \/ letter'[l] = letter[l]
                             \/ letter'[l] = None /\ l \in doing[w].voids
                             \/ letter[l] = None /\ l \in NewLetters
    BY <1>2, LetterWritten DEF CommitForgot
  <2> QED BY <1>1, <1>2, <2>1, QuietStep DEF CommitForgot
<1>3. CASE CommitVerify(w)
  <2>1. /\ letter' \in [Letter -> {None, "reset", "verify", "email"}]
        /\ \A l \in Letter : letter'[l] = letter[l] \/ (letter'[l] = None /\ l = doing[w].letter)
    BY <1>1, <1>3 DEF CommitVerify, Voided
  <2> QED BY <1>1, <1>3, <2>1, QuietStep DEF CommitVerify
<1>4. CASE CommitResend(w)
  <2>1. /\ letter' \in [Letter -> {None, "reset", "verify", "email"}]
        /\ \A l \in Letter : letter'[l] = letter[l] \/ (letter[l] = None /\ l \in NewLetters)
    BY <1>4, LetterWritten DEF CommitResend
  <2> QED BY <1>1, <1>4, <2>1, QuietStep DEF CommitResend
<1>5. CASE CommitConnect(w)
  <2>1. link' \in [Identity -> {None, "user", "other"}]
    BY <1>1, <1>5 DEF CommitConnect
  <2> QED BY <1>1, <1>5, <2>1, QuietStep DEF CommitConnect
<1>6. CASE CommitUnlink(w)
  <2>1. link' \in [Identity -> {None, "user", "other"}]
    BY <1>1, <1>6 DEF CommitUnlink
  <2> QED BY <1>1, <1>6, <2>1, QuietStep DEF CommitUnlink
<1> QED BY <1>2, <1>3, <1>4, <1>5, <1>6

\* These ask for no code.
LEMMA PlainCommit ==
  ASSUME AccountsAssumption, AccountsInv, NEW w \in Connection,
         NEW kind \in {"reset", "token", "oauth"}, Finishes(w, kind)
  PROVE  Spent(w) = profile
<1>1. doing[w] # None /\ doing[w].kind = kind /\ Formed(doing[w])
  BY Finished, Asked
<1>2. doing[w].code = None
  BY <1>1 DEF Formed, Coded
<1> QED BY <1>2 DEF Spent

LEMMA CommitsStep ==
  ASSUME AccountsAssumption, AccountsInv, UNCHANGED offered, NEW w \in Connection, Commit(w)
  PROVE  AccountsInv'
<1>1. CASE CommitLogin(w)
  BY <1>1, InsertStep DEF CommitLogin
<1>2. CASE CommitToken(w)
  BY <1>2, PlainCommit, InsertStep DEF CommitToken
<1>3. CASE CommitOAuth(w)
  BY <1>3, PlainCommit, InsertStep DEF CommitOAuth
<1>4. CASE CommitRevoke(w)
  BY <1>4, ChangeStep DEF CommitRevoke
<1>5. CASE CommitPassword(w)
  BY <1>5, ChangeStep DEF CommitPassword
<1>6. CASE CommitReset(w)
  BY <1>6, PlainCommit, ChangeStep DEF CommitReset
<1> QED
  BY <1>1, <1>2, <1>3, <1>4, <1>5, <1>6, CommitSetupStep, CommitEmailStep, CommitEnableStep,
     CommitDisableStep, CommitConfirmStep, QuietCommitStep DEF Commit

LEMMA AccountsNextStep ==
  ASSUME AccountsAssumption, AccountsInv, [AccountsNext]_accountVars
  PROVE  AccountsInv'
<1>1. CASE AccountsNext
  <2>1. UNCHANGED offered
    BY <1>1 DEF AccountsNext
  <2> QED BY <1>1, <2>1, AccountsAskStep, StatementStep, CommitsStep, AccountsRollbackStep, AccountsEndStep, WorldStep
          DEF AccountsNext
<1>2. CASE UNCHANGED accountVars
  <2>1. ASSUME NEW v \in Connection, (doing[v] # None)'
        PROVE  Keeps(v) /\ Undisturbed(v)
    BY <1>2, <2>1 DEF Keeps, Undisturbed, accountVars, Protected
  <2>2. RequestsFit'
    BY <2>1, RequestsStay DEF AccountsAssumption
  <2> QED BY <1>2, <2>2 DEF accountVars, AccountsInv, SignedInWithSecondFactor, AccountTypes,
          NobodyYet, AcceptedIsSpent, LatestIsUnused, Live, Linked, Protected, HasAccount
<1> QED BY <1>1, <1>2

-----------------------------------------------------------------------------
(* What a commit does *)

\* What revokes credentials.
LEMMA Revoking ==
  ASSUME NEW kind \in SignInKind, Revokes(kind)
  PROVE  kind \in {"revoke", "enable", "disable", "password", "confirm", "reset"}
<1>1. PICK n \in DOMAIN Path(kind) : Path(kind)[n] = "revoke"
  BY DEF Revokes
<1> QED BY <1>1, Positions DEF SignInKind

\* Locking and checking write no row.
LEMMA ProfileStays ==
  ASSUME AccountsInv, NEW w \in Connection, LockProfile(w)
  PROVE  UNCHANGED rowVars
<1> DEFINE q == doing[w]
           row == profile # None \/ q.kind = "setup"
           found == [q EXCEPT !.row = row]
<1>1. At(w, "profile") /\ (row => ProfileFree(w))
  BY DEF LockProfile
<1>2. q.kind \in Locking
  BY <1>1, Stands, Positions
<1> HIDE DEF found, row, q
<1>3. CASE q.kind \in {"login", "email", "disable", "revoke", "password"}
  <2>1. VerifyMfa(w, found)
    BY <1>3 DEF LockProfile, q, row, found
  <2>2. CASE ~Protected
    <3>1. Goes(w, found)
      BY <2>1, <2>2 DEF VerifyMfa
    <3> QED BY <3>1 DEF Goes
  <2>3. CASE Protected
    <3>1. PICK code \in Code : Goes(w, [found EXCEPT !.code = code, !.secret = profile.secret])
      BY <2>1, <2>3 DEF VerifyMfa
    <3> QED BY <3>1 DEF Goes
  <2> QED BY <2>2, <2>3
<1>4. CASE q.kind \in {"setup", "confirm"}
  <2>1. Goes(w, found)
    BY <1>4 DEF LockProfile, q, row, found
  <2> QED BY <2>1 DEF Goes
<1>5. CASE q.kind = "enable"
  <2>1. PICK step \in (now - 1..now + 1) \cap 0..MaxTime + 1 :
          Goes(w, [found EXCEPT !.code = [secret |-> profile.pending, of |-> step],
                                !.secret = profile.pending])
    BY <1>5 DEF LockProfile, q, row, found
  <2> QED BY <2>1 DEF Goes
<1> QED BY <1>2, <1>3, <1>4, <1>5 DEF Locking

\* Only its own commit ends a request and leaves rows changed.
LEMMA OwnCommit ==
  ASSUME AccountsAssumption, AccountsInv, [AccountsNext]_accountVars,
         NEW w \in Connection, Commits(w)
  PROVE  Commit(w)
<1>1. /\ doing[w] # None /\ doing[w] \in SignInRequest /\ doing'[w] = None /\ ~UNCHANGED rowVars
      /\ At(w, "commit") /\ Path(doing[w].kind)[doing[w].at] = "commit"
      /\ doing \in [Connection -> SignInRequest \cup {None}]
  BY Asked DEF Commits, At, AccountsInv, SignedInWithSecondFactor, AccountTypes
<1>2. AccountsNext
  BY <1>1 DEF accountVars, rowVars
<1>3. ASSUME NEW v \in Connection, AskAsAnyone(v) \/ \E c \in Credential : AskAsActor(v, c)
      PROVE  FALSE
  <2>1. ~(\E kind, l, i, by : Begins(v, kind, l, i, by))
    BY <1>1 DEF Begins
  <2>2. Register(v)
    BY <1>3, <2>1 DEF AskAsAnyone, AskAsActor, Login, Settings, Enable, CreateApiToken,
       RequestEmailVerification, ConfirmEmail, Unlink, Connect, Follow, Forgot, OAuth
  <2> QED BY <1>1, <2>2 DEF Register
<1>4. ASSUME NEW v \in Connection, Statement(v)
      PROVE  FALSE
  <2>1. LockProfile(v) => UNCHANGED rowVars
    BY ProfileStays
  <2>2. Replace(v) \/ CreateIdentity(v)
    <3>1. UNCHANGED rowVars \/ Replace(v) \/ CreateIdentity(v)
      BY <1>4, <2>1 DEF Statement, ClearFactor, LockLetter, LockAccount, VoidLetters, Revoke,
         CountLogins, LookProtected, FindIdentity, Goes
    <3> QED BY <1>1, <3>1
  <2>3. v # w
    BY <1>1, <2>2 DEF Replace, CreateIdentity, At
  <2>4. doing'[w] = doing[w]
    BY <1>1, <2>2, <2>3 DEF Replace, CreateIdentity
  <2> QED BY <1>1, <2>4
<1>5. ASSUME NEW v \in Connection \ {w}, Commit(v)
      PROVE  FALSE
  <2>1. Done(v)
    BY <1>5 DEF Commit, Finishes, CommitLogin, CommitSetup, CommitEnable, CommitDisable,
       CommitRevoke, CommitPassword, CommitReset, CommitForgot, CommitEmail, CommitConfirm,
       CommitVerify, CommitResend, CommitToken, CommitConnect, CommitUnlink, CommitOAuth
  <2> DEFINE b == doing[w].late \/ (doing[v].kind = "enable" /\ Checked(w))
  <2>2. doing'[w] = [doing[w] EXCEPT !.late = b]
    BY <1>1, <1>5, <2>1 DEF Done
  <2>3. b \in BOOLEAN
    OBVIOUS
  <2> HIDE DEF b
  <2>4. [doing[w] EXCEPT !.late = b] \in SignInRequest
    BY <1>1, <2>3 DEF SignInRequest
  <2> QED BY <1>1, <2>2, <2>4 DEF AccountsAssumption
<1>6. ~(\E v \in Connection : Rollback(v)) /\ ~(\E c \in Credential : End(c))
      /\ ~(\E i \in Identity : Elsewhere(i)) /\ ~Tick
  BY <1>1 DEF Rollback, End, Elsewhere, Tick
<1> QED BY <1>2, <1>3, <1>4, <1>5, <1>6 DEF AccountsNext

LEMMA AtItsEnd ==
  ASSUME AccountsAssumption, AccountsInv, NEW w \in Connection, Commit(w)
  PROVE  \E kind : Finishes(w, kind)
BY DEF Commit, CommitLogin, CommitSetup, CommitEnable, CommitDisable, CommitRevoke, CommitPassword,
   CommitReset, CommitForgot, CommitEmail, CommitConfirm, CommitVerify, CommitResend,
   CommitToken, CommitConnect, CommitUnlink, CommitOAuth

\* A code that a request holds was not accepted for another.
LEMMA CodesAreNew ==
  ASSUME AccountsAssumption, AccountsInv, NEW w \in Connection, doing[w] # None
  PROVE  doing[w].code \notin accepted
<1> DEFINE q == doing[w]
<1>1. q \in SignInRequest /\ Formed(q) /\ StaysGood(q) /\ AcceptedIsSpent /\ accepted \subseteq Code
  BY Asked DEF AccountsInv, SignedInWithSecondFactor, AccountTypes
<1>2. CASE q.code = None
  BY <1>1, <1>2 DEF AccountsAssumption
<1>3. CASE q.code # None /\ q.kind = "enable"
  BY <1>1, <1>3 DEF Formed, AcceptedIsSpent, Protected
<1>4. CASE q.code # None /\ q.kind # "enable"
  <2>1. q.code \in Code /\ q.code.of \in Int /\ profile \in ProfileRow /\ profile.last \in Int
    BY <1>1, <1>4 DEF AccountsInv, SignedInWithSecondFactor, AccountTypes, SignInRequest, Code,
       Recovery, AccountsAssumption, StaysGood, Protected, ProfileRow
  <2> QED BY <1>1, <1>4, <2>1 DEF StaysGood, AcceptedIsSpent
<1> QED BY <1>2, <1>3, <1>4

LEMMA OnceStep ==
  ASSUME AccountsAssumption, AccountsInv, NEW w \in Connection, Commit(w)
  PROVE  UsesOnce(w)
<1> DEFINE q == doing[w]
<1>1. PICK kind : Finishes(w, kind)
  BY AtItsEnd
<1>2. /\ q # None /\ q.kind = kind /\ q \in SignInRequest /\ Formed(q) /\ KeepsLetters(q)
      /\ kind \in {"reset", "confirm"} => q.at = 5
      /\ kind = "verify" => q.at = 3
  BY <1>1, Finished, Asked
<1>3. q.code \notin accepted
  BY <1>2, CodesAreNew
<1>4. ASSUME q.letter # None
      PROVE  letter[q.letter] # None
  <2>1. CASE kind \in {"reset", "verify"}
    BY <1>2, <2>1 DEF KeepsLetters, HoldsLetter, AccountsAssumption
  <2>2. CASE kind = "confirm"
    BY <1>2, <1>4, <2>2 DEF Formed, AccountsInv, LatestIsUnused, AccountsAssumption
  <2> QED BY <1>2, <1>4, <2>1, <2>2 DEF Formed
<1> QED BY <1>3, <1>4 DEF UsesOnce

LEMMA EndsStep ==
  ASSUME AccountsAssumption, AccountsInv, NEW w \in Connection, Commit(w)
  PROVE  EndsWhatThereWas(w)
<1> DEFINE q == doing[w]
<1> SUFFICES ASSUME Revokes(q.kind), NEW c \in q.before, credential'[c] # None
             PROVE  q.kind = "reset" /\ credential[c].kind = "token"
  BY DEF EndsWhatThereWas
<1>1. PICK kind : Finishes(w, kind)
  BY AtItsEnd
<1>2. /\ q # None /\ q.kind = kind /\ q \in SignInRequest /\ EndsAll(q) /\ c \in Credential
      /\ kind \in {"revoke", "enable", "disable", "password", "confirm", "reset"}
      /\ kind \in {"revoke", "enable"} => q.at = 3
      /\ kind = "disable" => q.at = 4
      /\ kind \in {"password", "confirm", "reset"} => q.at = 5
  BY <1>1, Finished, Asked, Revoking DEF SignInRequest
<1>3. credential[c] = None \/ c \in q.ends \/ (q.kind = "reset" /\ credential[c].kind = "token")
  BY <1>2 DEF EndsAll, HasRevoked
<1>4. credential'[c] = IF c \in q.ends THEN None ELSE credential[c]
  <2>1. CASE credential' = Revoked(w)
    BY <1>2, <2>1 DEF Revoked
  <2>2. CASE CommitEnable(w)
    <3>1. PICK d \in NewCredentials :
            credential' = [Revoked(w) EXCEPT ![d] = Row(w, "session")]
      BY <2>2 DEF CommitEnable
    <3>2. c # d
      BY <1>2, <3>1, NewRow
    <3> QED BY <1>2, <3>1, <3>2 DEF Revoked
  <2>3. credential' = Revoked(w) \/ CommitEnable(w)
    BY <1>2 DEF Commit, Finishes, CommitLogin, CommitSetup, CommitDisable, CommitRevoke,
       CommitPassword, CommitReset, CommitForgot, CommitEmail, CommitConfirm, CommitVerify,
       CommitResend, CommitToken, CommitConnect, CommitUnlink, CommitOAuth
  <2> QED BY <2>1, <2>2, <2>3
<1> QED BY <1>3, <1>4
-----------------------------------------------------------------------------
(* Theorems *)

\* The invariant: the rows agree with each other, and every transaction has
\* what its locks and its earlier statements give it (recovery.rs,
\* settings.rs, oauth.rs).
THEOREM AccountsInvariant ==
  ASSUME AccountsAssumption
  PROVE  AccountsSpec => []AccountsInv
<1>1. AccountsInit => AccountsInv
  BY AccountsInvInit
<1>2. AccountsInv /\ [AccountsNext]_accountVars => AccountsInv'
  BY AccountsNextStep
<1> QED BY <1>1, <1>2, PTL DEF AccountsSpec

\* Nobody is signed in without the second factor while it is enabled, for any
\* number of connections, credentials and secrets (verify_mfa, enable_mfa,
\* oauth_callback).
THEOREM SecondFactorAlways ==
  ASSUME AccountsAssumption
  PROVE  AccountsSpec => []SignedInWithSecondFactor
<1>1. AccountsInv => SignedInWithSecondFactor
  BY DEF AccountsInv
<1> QED BY <1>1, AccountsInvariant, PTL

\* A code and a link work once, and a change of how the user signs in ends the
\* credentials there were when it began (verify_mfa, reset_password, revoke).
THEOREM SignInsFreshAlways ==
  ASSUME AccountsAssumption
  PROVE  AccountsSpec => SignInsAreFresh
<1> DEFINE Fresh == \A w \in Connection : Commits(w) => UsesOnce(w) /\ EndsWhatThereWas(w)
<1>1. AccountsInv /\ [AccountsNext]_accountVars => [Fresh]_accountVars
  BY OwnCommit, OnceStep, EndsStep
<1> QED BY <1>1, AccountsInvariant, PTL DEF AccountsSpec, SignInsAreFresh
=============================================================================
