--------------------------- MODULE MCSchemaPlans ---------------------------
(* Versions of a small application for TLC: users with a few fields, tasks   *)
(* that belong to users and to other tasks, and modules.                      *)
EXTENDS SchemaTables, Naturals, FiniteSets

Capital(d) == IF d = "Active" THEN "active" ELSE d
Contains(column, name) == column = name \/ <<column, name>> = <<"status_reason", "status">>

Text(columns) == {[c EXCEPT !.type = "text"] : c \in columns}

UserColumns(f) ==
  KeyColumns({"id"}) \cup Text(Distinct({"email"}))
  \cup (IF "nickname" \in f THEN Text(Optional({"nickname"})) ELSE {})
  \cup (IF "required nickname" \in f THEN Text(Required({"nickname"})) ELSE {})
  \cup (IF "default nickname" \in f THEN Text(Defaulted("nickname", "none")) ELSE {})
  \cup (IF "status" \in f
        THEN {[c EXCEPT !.default = "active"] : c \in Enumerated("status", {"active", "gone"})} ELSE {})
  \cup (IF "Status" \in f
        THEN {[c EXCEPT !.default = "Active"] : c \in Enumerated("status", {"Active", "gone"})} ELSE {})
  \cup (IF "reason" \in f
        THEN {[c EXCEPT !.nullable = TRUE] : c \in Enumerated("status_reason", {"asked", "left"})}
        ELSE {})

Users(f) ==
  [id |-> "User", table |-> "users", tenant |-> FALSE, columns |-> UserColumns(f), indexes |-> {},
   relations |-> {}]

Relation(column, target, onDelete) ==
  [column |-> column, target |-> target, onDelete |-> onDelete]

Tasks(f) ==
  [id |-> "Task", table |-> "tasks", tenant |-> "scoped" \in f,
   columns |-> KeyColumns({"id"}) \cup Optional({"owner_id"})
               \cup (IF "parent" \in f THEN Optional({"parent_id"}) ELSE {}),
   indexes |-> IF "inbox" \in f
               THEN {[Index("inbox", "tasks", <<"owner_id">>) EXCEPT !.id = "Task.inbox"]}
               ELSE {},
   relations |-> {Relation("owner_id", "User", "set_null")}
                 \cup (IF "parent" \in f THEN {Relation("parent_id", "Task", "set_null")} ELSE {})]

Seed(name, values) == [id |-> name, table |-> "tasks", values |-> values]
Leaf == Seed("leaf", [id |-> 1, parent_id |-> 2])
Root == Seed("root", [id |-> 2])

Version(on, f) ==
  [on |-> on, user |-> "User",
   entities |-> {Users(f)} \cup (IF "tasks" \in f THEN {Tasks(f)} ELSE {}),
   seeds |-> (IF "leaf" \in f THEN <<Leaf>> ELSE <<>>) \o (IF "root" \in f THEN <<Root>> ELSE <<>>)]

Nicknames == {{}, {"nickname"}, {"required nickname"}, {"default nickname"}}
Statuses == {{}, {"status"}, {"Status"}}
Reasons == {{}, {"reason"}}
TaskFeatures ==
  {{}} \cup {{"tasks"} \cup s : s \in SUBSET {"scoped", "inbox", "root"}}
       \cup {{"tasks", "parent"} \cup s : s \in {{}, {"root"}, {"root", "leaf"}}}
Features ==
  {n \cup t : n \in Nicknames, t \in TaskFeatures}
  \cup {s \cup r \cup t : s \in Statuses, r \in Reasons, t \in {{}, {"tasks"}}}

Everything == {"auth", "tenant", "audit", "mail", "jobs", "webhooks", "realtime", "file", "report",
               "activity", "billing"}
Modules ==
  {{}, {"auth"}, {"auth", "jobs"}, {"auth", "tenant"}, {"auth", "tenant", "jobs", "billing"},
   {"auth", "audit", "activity"}, Everything}

\* Tenants' records need tenants.
Possible == {v \in Modules \X Features : "scoped" \in v[2] => "tenant" \in v[1]}
Versions == {Version(v[1], v[2]) : v \in Possible}

Follows(s, t) ==
  /\ s # t /\ s.on \subseteq t.on
  /\ Cardinality({e.id : e \in t.entities}) >= Cardinality({e.id : e \in s.entities})

\* Versions whose database is altered by hand: one module or all of them, a
\* tenant's records, a check, a default.
Inspectable ==
  Versions \cap {Version(on, f) : on \in {{"auth"}, Everything},
                                 f \in {{"tasks", "scoped"}, {"status", "tasks"},
                                        {"default nickname", "tasks"}}}
=============================================================================
