----------------------------- MODULE FencedQueue -----------------------------
(***************************************************************************)
(* What the job queue promises its callers, with no leases, heartbeats,    *)
(* worker ids or clock: every claim of a job draws a fresh ticket, a lane  *)
(* carries the ticket it drew, and an outcome counts only when its ticket  *)
(* is the last one drawn for that job.                                     *)
(***************************************************************************)
EXTENDS Integers

CONSTANTS Job, Worker, None

VARIABLES
  phase,    \* "absent", "waiting", "active" or how the job was settled
  drawn,    \* the last ticket drawn for each job
  carried   \* the claim each lane carries, or None

vars == <<phase, drawn, carried>>

Settled == {"succeeded", "dead", "cancelled"}
Ticket == [job : Job, ticket : Nat]

TypeOK ==
  /\ phase \in [Job -> {"absent", "waiting", "active"} \cup Settled]
  /\ drawn \in [Job -> Nat]
  /\ carried \in [Worker -> Ticket \cup {None}]

Init ==
  /\ phase = [j \in Job |-> "absent"]
  /\ drawn = [j \in Job |-> 0]
  /\ carried = [w \in Worker |-> None]

Submit(j) ==
  /\ phase[j] = "absent"
  /\ phase' = [phase EXCEPT ![j] = "waiting"]
  /\ UNCHANGED <<drawn, carried>>

\* A lane takes a waiting job, or one whose lane may be gone.
Draw(w, j) ==
  /\ carried[w] = None
  /\ phase[j] \in {"waiting", "active"}
  /\ phase' = [phase EXCEPT ![j] = "active"]
  /\ drawn' = [drawn EXCEPT ![j] = @ + 1]
  /\ carried' = [carried EXCEPT ![w] = [job |-> j, ticket |-> drawn[j] + 1]]

\* The outcome of the latest ticket counts.
Settle(w, outcome) ==
  /\ carried[w] # None
  /\ phase[carried[w].job] = "active"
  /\ carried[w].ticket = drawn[carried[w].job]
  /\ phase' = [phase EXCEPT ![carried[w].job] = outcome]
  /\ carried' = [carried EXCEPT ![w] = None]
  /\ UNCHANGED drawn

\* Any other outcome is dropped.
Drop(w) ==
  /\ carried[w] # None
  /\ carried' = [carried EXCEPT ![w] = None]
  /\ UNCHANGED <<phase, drawn>>

Cancel(j) ==
  /\ phase[j] \in {"waiting", "active"}
  /\ phase' = [phase EXCEPT ![j] = "cancelled"]
  /\ UNCHANGED <<drawn, carried>>

Retry(j) ==
  /\ phase[j] = "dead"
  /\ phase' = [phase EXCEPT ![j] = "waiting"]
  /\ UNCHANGED <<drawn, carried>>

Next ==
  \/ \E j \in Job : Submit(j) \/ Cancel(j) \/ Retry(j)
  \/ \E w \in Worker, j \in Job : Draw(w, j)
  \/ \E w \in Worker, o \in {"waiting", "succeeded", "dead"} : Settle(w, o)
  \/ \E w \in Worker : Drop(w)

Spec == Init /\ [][Next]_vars
=============================================================================
