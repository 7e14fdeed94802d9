---------------------------- MODULE ModulePlans ----------------------------
(***************************************************************************)
(* From the modules an application enables to the plan in which its        *)
(* process starts them: a manifest names the capabilities a module         *)
(* provides and requires, the resolver orders providers before consumers.  *)
(***************************************************************************)
EXTENDS Naturals, Sequences, FiniteSets

\* The official modules in the order of their names, which breaks ties.
Official == <<"activity", "audit", "auth", "file", "jobs", "mail", "rbac", "realtime",
              "report", "tenant", "webhooks">>

\* A local module's name may sort before and after all of them.
Names == <<"a local module">> \o Official \o <<"local module">>
Rank(m) == CHOOSE i \in DOMAIN Names : Names[i] = m
First(S) == CHOOSE m \in S : \A o \in S : Rank(m) <= Rank(o)
-----------------------------------------------------------------------------
(* Manifests *)

Manifest(provides, requires) == [provides |-> provides, requires |-> requires]

\* What the jobs module requires depends on what else is enabled.
JobsRequires(on) ==
  (IF "mail" \in on THEN {"mail.delivery"} ELSE {})
    \cup (IF "report" \in on THEN {"file.storage"} ELSE {})

\* on: enabled modules (rbac comes with auth), and "attachments" of activity.
OfficialManifest(m, on) ==
  CASE m = "auth" -> Manifest({"auth.identity"}, {})
    [] m = "rbac" -> Manifest({"auth.roles"}, {"auth.identity"})
    [] m = "tenant" -> Manifest({"tenant.context"}, {"auth.identity"})
    [] m = "audit" -> Manifest({"audit.events"}, {"auth.identity"})
    [] m = "mail" -> Manifest({"mail.delivery"}, {})
    [] m = "jobs" -> Manifest({"jobs.outbox"}, JobsRequires(on))
    [] m = "webhooks" -> Manifest({"webhooks.delivery"}, {})
    [] m = "realtime" -> Manifest({"realtime.events", "presence.online"}, {"auth.identity"})
    [] m = "file" -> Manifest({"file.storage"}, {})
    [] m = "report" -> Manifest({"report.render"}, {"auth.identity", "jobs.outbox", "file.storage"})
    [] m = "activity" -> Manifest({"activity.timeline"}, {"auth.identity", "audit.events"}
         \cup (IF "attachments" \in on THEN {"file.storage"} ELSE {}))

Enabled(on) == {Official[i] : i \in DOMAIN Official} \cap (on \cup (IF "auth" \in on THEN {"rbac"} ELSE {}))

\* local: manifests of the application's own modules.
Manifests(on, local) ==
  [m \in Enabled(on) \cup DOMAIN local |->
     IF m \in DOMAIN local THEN local[m] ELSE OfficialManifest(m, on)]
-----------------------------------------------------------------------------
(* resolve_modules *)

Provides(ms, c) == {m \in DOMAIN ms : c \in ms[m].provides}
Required(ms) == UNION {ms[m].requires : m \in DOMAIN ms}
Dependencies(ms, m) == UNION {Provides(ms, c) : c \in ms[m].requires} \ {m}

\* Mutant: any module that is ready may come next, here the last of them.
LastFirst(S) == CHOOSE m \in S : \A o \in S : Rank(m) >= Rank(o)

NextModule(S) == First(S)

\* The modules with no dependency left are started by name.
StartupOrder(ms) ==
  LET order[done \in SUBSET DOMAIN ms] ==
        LET ready == {m \in DOMAIN ms \ done : Dependencies(ms, m) \subseteq done}
        IN  IF ready = {} THEN <<>> ELSE <<NextModule(ready)>> \o order[done \cup {NextModule(ready)}]
  IN  order[{}]

\* The plan, or why there is none.
Resolve(ms) ==
  IF \E m, o \in DOMAIN ms : m # o /\ ms[m].provides \cap ms[o].provides # {}
  THEN [error |-> "duplicate provider"]
  ELSE IF \E c \in Required(ms) : Provides(ms, c) = {} THEN [error |-> "missing capability"]
  ELSE IF Len(StartupOrder(ms)) # Cardinality(DOMAIN ms) THEN [error |-> "dependency cycle"]
  ELSE [plan |-> StartupOrder(ms)]

Resolved(ms) == "plan" \in DOMAIN Resolve(ms)

\* A descriptor names the providers of what its module requires.
Descriptor(ms, m) ==
  [name |-> m, dependencies |-> {CHOOSE p \in Provides(ms, c) : TRUE : c \in ms[m].requires}]
-----------------------------------------------------------------------------
(* What a starter takes from the context that another starter has put there *)

Takes(m) == IF m = "jobs" THEN {"mail", "file"} ELSE {}

Before(plan, i) == {plan[j] : j \in 1 .. (i - 1)}

\* No dependency is missing when a module is started (ModulePlan::start refuses
\* one that has not been started), nor any state its starter
\* takes from the context: not even the file storage of a worker without
\* reports, which its manifest does not require.  (resolve_modules,
\* official_manifests, starter_arm)
PlanWorks(ms) ==
  LET plan == Resolve(ms).plan
  IN  \A i \in DOMAIN plan :
        /\ Descriptor(ms, plan[i]).dependencies \subseteq Before(plan, i)
        /\ Takes(plan[i]) \cap DOMAIN ms \subseteq Before(plan, i)

\* There is no plan exactly if no order would do: some capability has no or two
\* providers, or modules wait for each other.
Waiting(ms, S) == S # {} /\ \A m \in S : Dependencies(ms, m) \cap S # {}

PlanExists(ms) ==
  /\ \A c \in Required(ms) : Cardinality(Provides(ms, c)) = 1
  /\ \A m, o \in DOMAIN ms : m # o => ms[m].provides \cap ms[o].provides = {}
  /\ ~ \E S \in SUBSET DOMAIN ms : Waiting(ms, S)

\* Modules that require what they provide: the resolver leaves such a module out
\* of its own dependencies, its descriptor does not, so that it never starts.
SelfProvided(ms) == {m \in DOMAIN ms : ms[m].provides \cap ms[m].requires # {}}

PlansAreSound(ms) ==
  /\ Resolved(ms) <=> PlanExists(ms)
  /\ Resolved(ms) => (PlanWorks(ms) <=> SelfProvided(ms) = {})
=============================================================================
