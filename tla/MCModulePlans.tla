--------------------------- MODULE MCModulePlans ---------------------------
(* Applications for TLC: official modules are enabled one by one, and two local *)
(* modules are given manifests of their own beside a few of them.               *)
EXTENDS ModulePlans

CONSTANTS
  Option,      \* what an application may enable: modules, "attachments"
  FewOptions,  \* bound: what is enabled beside local modules
  LocalNames, Provided, Needed  \* of local modules: names, capabilities

VARIABLES
  on,          \* what is enabled
  local        \* manifests of local modules

planVars == <<on, local>>

PlansInit == on = {} /\ local = [m \in {} |-> Manifest({}, {})]

Enable(o) ==
  /\ o \notin on /\ (DOMAIN local # {} => o \in FewOptions)
  /\ on' = on \cup {o} /\ UNCHANGED local

AddLocal(m) ==
  /\ m \notin DOMAIN local /\ on \subseteq FewOptions
  /\ \E provides \in SUBSET Provided, requires \in SUBSET Needed :
       local' = [n \in DOMAIN local \cup {m} |->
                   IF n = m THEN Manifest(provides, requires) ELSE local[n]]
  /\ UNCHANGED on

PlansNext == (\E o \in Option : Enable(o)) \/ (\E m \in LocalNames : AddLocal(m))
PlansSpec == PlansInit /\ [][PlansNext]_planVars

ApplicationManifests == Manifests(on, local)

\* Whatever an application enables, its plan exists exactly if an order can
\* satisfy every manifest, and then it works, but for the applications with a
\* module that requires a capability it provides itself, and no other: those are
\* resolved and never start (resolve_modules, descriptor_arm, ModulePlan::start).
ApplicationsStart == PlansAreSound(ApplicationManifests)
=============================================================================
