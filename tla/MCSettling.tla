----------------------------- MODULE MCSettling -----------------------------
(* What settles, for TLC with fairness: the jobs of a queue, and the rebuilds  *)
(* of appstruct dev.  They share nothing, so that an instance is about one of  *)
(* them, chosen initially; the fairness of each is stated for it.              *)
EXTENDS JobQueue, DevelopmentServer

CONSTANTS w1, w2, a1, k1, mail

VARIABLE part

AnyKind == [w \in Worker |-> Kind]
Immediately == {0}
-----------------------------------------------------------------------------
\* What is not looked at does not change.
SettlingInit == part \in {"jobs", "sessions"} /\ Init /\ DevelopmentInit

SettlingNext ==
  /\ \/ part = "jobs" /\ Next /\ UNCHANGED devVars
     \/ part = "sessions" /\ DevelopmentNext /\ UNCHANGED vars
  /\ UNCHANGED part

In(p, action) == part = p /\ action

SettlingFairness ==
  /\ \A w \in Worker :
       /\ WF_vars(In("jobs", Start(w))) /\ WF_vars(In("jobs", ClaimJob(w)))
       /\ WF_vars(In("jobs", SendBeat(w)))
       /\ WF_vars(In("jobs", \E r \in Outcomes : HandlerReturns(w, r)))
       /\ WF_vars(In("jobs", Complete(w))) /\ WF_vars(In("jobs", Fail(w)))
  /\ WF_vars(In("jobs", Heartbeats))
  /\ \A a \in Admin : WF_vars(In("jobs", CommitRetry(a) \/ CommitReplay(a) \/ Rollback(a)))
  /\ WF_vars(In("jobs", Tick))
  /\ WF_devVars(In("sessions", Moves))

\* The properties of both are checked by name.
SettlingSpec == SettlingInit /\ [][SettlingNext]_<<part, vars, devVars>> /\ SettlingFairness
=============================================================================
