----------------------------- MODULE SchemaPlans -----------------------------
(***************************************************************************)
(* From one version of an application's specification to the next: the     *)
(* schema extracted from it, the plan that leads to it from the previous   *)
(* schema, which is refused unless all its changes are without risk, its   *)
(* statements as PostgreSQL (external) executes them in one transaction,   *)
(* and the comparison of the database with the schema that reports drift.  *)
(*                                                                         *)
(* A specification is [on, user, entities, seeds]: the enabled modules,    *)
(* the id of the entity of the users, the entities and the seeds by id.    *)
(* An order no statement depends on is left out: components are sets.      *)
(***************************************************************************)
EXTENDS SchemaTables, Naturals, FiniteSets

CONSTANTS
  Specs,            \* versions a developer may write
  Revises(_, _),    \* which of them follow which
  Inspected,        \* bound: versions whose database is altered by hand
  Lowercase(_),     \* of a default
  Mentions(_, _)    \* whether the check of a column contains a column's name

VARIABLES
  spec,      \* the version migrated to last, or None
  database,  \* the catalog, and the rows of seeds
  outcome,   \* "empty", "migrated", "failed" or "altered"
  rejected   \* the version whose migration failed, or None

schemaVars == <<spec, database, outcome, rejected>>
-----------------------------------------------------------------------------
(* The schema of a specification *)

Entity(s, id) == CHOOSE e \in s.entities : e.id = id
KeyName(e) == (CHOOSE c \in e.columns : c.key).name
User(s) == LET e == Entity(s, s.user) IN [table |-> e.table, key |-> KeyName(e)]
Scoped(s) == {e \in s.entities : e.tenant}

EntityTable(e) ==
  [id |-> e.id, name |-> e.table,
   columns |-> e.columns \cup (IF e.tenant THEN Generated("tenant", Required({"tenant_id"})) ELSE {})]

\* A relation between tenants' records stays within a tenant.
RelationKey(s, e, r) ==
  LET target == Entity(s, r.target)
      within == IF e.tenant /\ target.tenant THEN <<"tenant_id">> ELSE <<>>
  IN  [id |-> <<e.table, r.column>>, table |-> e.table, columns |-> within \o <<r.column>>,
       target |-> target.table, keys |-> within \o <<KeyName(target)>>, onDelete |-> r.onDelete]

SchemaTablesOf(s) ==
  {EntityTable(e) : e \in s.entities} \cup ImportTables \cup UNION {TablesOf(m) : m \in s.on}

SchemaUniques(s) ==
  {UniqueKey(e.table, <<"tenant_id", KeyName(e)>>) : e \in Scoped(s)}
  \cup UNION {UniqueKeysOf(m) : m \in s.on}

SchemaIndexes(s) == UNION {e.indexes : e \in s.entities} \cup UNION {IndexesOf(m) : m \in s.on}

SchemaKeys(s) ==
  UNION {{RelationKey(s, e, r) : r \in e.relations} : e \in s.entities}
  \cup UNION {KeysOf(m, User(s), s.on) : m \in s.on}
  \cup (IF "tenant" \in s.on
        THEN {ToOrganization(e.table, "tenant_id", "cascade") : e \in Scoped(s)}
             \cup UNION {TenantKeysOf(m) : m \in s.on}
        ELSE {})

Extract(s) ==
  [tables |-> SchemaTablesOf(s), uniques |-> SchemaUniques(s), indexes |-> SchemaIndexes(s),
   seeds |-> s.seeds, keys |-> SchemaKeys(s)]

EmptySchema == [tables |-> {}, uniques |-> {}, indexes |-> {}, seeds |-> <<>>, keys |-> {}]
SchemaOf == [s \in Specs |-> Extract(s)]
Current == IF spec = None THEN EmptySchema ELSE SchemaOf[spec]
-----------------------------------------------------------------------------
(* The differences between two schemas and which of them are without risk *)

Elements(seq) == {seq[i] : i \in DOMAIN seq}
Ids(S) == {x.id : x \in S}
New(old, new) == {x \in new \ old : x.id \notin Ids(old)}
Kept(old, new) == \A x \in old : x.id \in Ids(new)
Same(old, new) == old \subseteq new
Both(old, new) == {p \in (old \ new) \X (new \ old) : p[1].id = p[2].id}

IsNewTable(old, new, name) == \E t \in New(old.tables, new.tables) : t.name = name

\* An optional column without values to compare.
SafeColumn(c) == ~c.unique /\ c.nullable

\* Mutant: a column may become required.
KeepsType(b, a) ==
  /\ b.name = a.name
  /\ <<b.type, b.values, b.key, b.unique, b.generated>> = <<a.type, a.values, a.key, a.unique, a.generated>>

\* No longer required, or another default.
SafeAlteration(b, a) ==
  /\ b.name = a.name /\ (a.nullable \/ ~b.nullable)
  /\ <<b.type, b.values, b.key, b.unique, b.generated>> = <<a.type, a.values, a.key, a.unique, a.generated>>

SafeTable(b, a) ==
  /\ b.name = a.name /\ Kept(b.columns, a.columns)
  /\ \A c \in New(b.columns, a.columns) : SafeColumn(c)
  /\ \A p \in Both(b.columns, a.columns) : SafeAlteration(p[1], p[2])

\* Whether the plan can be rendered without a developer's review.
Unblocked(old, new) ==
  /\ Kept(old.tables, new.tables)
  /\ \A p \in Both(old.tables, new.tables) : SafeTable(p[1], p[2])
  /\ Same(old.uniques, new.uniques) /\ Same(old.indexes, new.indexes) /\ Same(old.keys, new.keys)
  /\ Same(Elements(old.seeds), Elements(new.seeds))
  /\ \A x \in (new.uniques \ old.uniques) \cup (new.indexes \ old.indexes)
               \cup (new.keys \ old.keys) : IsNewTable(old, new, x.table)
-----------------------------------------------------------------------------
(* The statements of a plan.  The catalog has the columns, keys and indexes  *)
(* of a schema as PostgreSQL keeps them, without their ids.                  *)

DefaultOf(c) ==
  CASE c.generated = "now" -> "current_timestamp"
    [] c.generated = "revision" -> "1"
    [] OTHER -> c.default

CatalogColumn(c) ==
  [name |-> c.name, type |-> IF c.type = "enum" THEN "text" ELSE c.type, nullable |-> c.nullable,
   key |-> c.key, unique |-> c.unique /\ ~c.key, identity |-> c.generated = "auto_increment",
   default |-> DefaultOf(c), check |-> c.values]

CatalogTable(t) == [name |-> t.name, columns |-> {CatalogColumn(c) : c \in t.columns}]
CatalogUnique(u) == [table |-> u.table, columns |-> u.columns]
CatalogIndex(i) ==
  [name |-> i.name, table |-> i.table, columns |-> i.columns, unique |-> i.unique,
   predicate |-> i.predicate]
CatalogKey(k) ==
  [table |-> k.table, columns |-> k.columns, target |-> k.target, keys |-> k.keys,
   onDelete |-> k.onDelete]

\* A column takes over what its alteration names: no longer NOT NULL, the default.
AlterColumn(c, b, a) ==
  [c EXCEPT !.nullable = IF b.nullable # a.nullable THEN TRUE ELSE @,
            !.default = IF b.default # a.default THEN DefaultOf(a) ELSE @]

Altered(t, b, a) ==
  [t EXCEPT !.columns =
     {LET p == {q \in Both(b.columns, a.columns) : q[1].name = c.name}
      IN  IF p = {} THEN c ELSE AlterColumn(c, (CHOOSE q \in p : TRUE)[1], (CHOOSE q \in p : TRUE)[2]) :
        c \in t.columns}
     \cup {CatalogColumn(c) : c \in New(b.columns, a.columns)}]

TablesAfter(db, old, new) ==
  {LET p == {q \in Both(old.tables, new.tables) : q[1].name = t.name}
   IN  IF p = {} THEN t ELSE Altered(t, (CHOOSE q \in p : TRUE)[1], (CHOOSE q \in p : TRUE)[2]) :
     t \in db.tables}
  \cup {CatalogTable(t) : t \in New(old.tables, new.tables)}

NewSeeds(old, new) == SelectSeq(new.seeds, LAMBDA s : s.id \notin Ids(Elements(old.seeds)))

Applied(db, old, new) ==
  [tables |-> TablesAfter(db, old, new),
   uniques |-> db.uniques \cup {CatalogUnique(u) : u \in New(old.uniques, new.uniques)},
   indexes |-> db.indexes \cup {CatalogIndex(i) : i \in New(old.indexes, new.indexes)},
   rows |-> db.rows \cup Elements(NewSeeds(old, new)),
   keys |-> db.keys \cup {CatalogKey(k) : k \in New(old.keys, new.keys)}]

EmptyDatabase == [tables |-> {}, uniques |-> {}, indexes |-> {}, rows |-> {}, keys |-> {}]
-----------------------------------------------------------------------------
(* What PostgreSQL does not execute *)

NamesColumns(tables, table, columns) ==
  \E t \in tables : t.name = table /\ Elements(columns) \subseteq {c.name : c \in t.columns}

\* Rows can only refer to columns that tell rows apart.
Identifies(db, table, columns) ==
  \/ \E t \in db.tables : /\ t.name = table
                          /\ \/ {c.name : c \in {d \in t.columns : d.key}} = Elements(columns)
                             \/ \E c \in t.columns : c.unique /\ columns = <<c.name>>
  \/ \E u \in db.uniques : u.table = table /\ Elements(u.columns) = Elements(columns)

Complete(tables, row) ==
  \A t \in tables : t.name = row.table =>
    \A c \in t.columns :
      c.nullable \/ c.identity \/ c.default # None \/ c.name \in DOMAIN row.values

Refers(row, k) == row.table = k.table /\ Elements(k.columns) \subseteq DOMAIN row.values
Found(row, k, rows) ==
  \E r \in rows : /\ r.table = k.target
                  /\ \A i \in DOMAIN k.keys :
                       k.keys[i] \in DOMAIN r.values /\ r.values[k.keys[i]] = row.values[k.columns[i]]
Consistent(rows, keys) == \A row \in rows, k \in keys : Refers(row, k) => Found(row, k, rows)

SeedsFit(db, old, new) ==
  LET seeds == NewSeeds(old, new)
  IN  \A i \in DOMAIN seeds :
        LET before == db.rows \cup {seeds[j] : j \in 1 .. i}
        IN  /\ Complete(TablesAfter(db, old, new), seeds[i])
            /\ \A k \in db.keys : Refers(seeds[i], k) => Found(seeds[i], k, before)

IndexNamesFit(db, old, new) ==
  LET indexes == New(old.indexes, new.indexes)
  IN  /\ \A i, j \in indexes : i.name = j.name => i = j
      /\ \A i \in indexes, j \in db.indexes : i.name # j.name

\* The other statements of a plan.
DefinitionsFit(db, old, new) ==
  LET after == Applied(db, old, new)
  IN  /\ \A t \in New(old.tables, new.tables), u \in db.tables : t.name # u.name
      /\ \A x \in after.uniques \cup after.indexes \cup after.keys :
           NamesColumns(after.tables, x.table, x.columns)
      /\ \A k \in after.keys : Identifies(after, k.target, k.keys)
      /\ Consistent(after.rows, after.keys)

Executes(db, old, new) ==
  SeedsFit(db, old, new) /\ IndexNamesFit(db, old, new) /\ DefinitionsFit(db, old, new)

\* Whether the rows of users, of which nothing is known, may be in the way: a
\* table gets a column they have no value for, or the same one, or they already
\* have values for what is to be unique or a reference.
MeetsRows(db, old, new) ==
  LET after == Applied(db, old, new)
      Filled(x) == NamesColumns(db.tables, x.table, x.columns)
  IN  \/ \E t \in db.tables, u \in after.tables :
           /\ t.name = u.name
           /\ \E c \in u.columns : /\ c.name \notin {d.name : d \in t.columns}
                                   /\ IF c.default = None THEN ~c.nullable ELSE c.unique
      \/ \E x \in (after.uniques \ db.uniques) \cup (after.keys \ db.keys) : Filled(x)
      \/ \E i \in after.indexes \ db.indexes : i.unique /\ Filled(i)
-----------------------------------------------------------------------------
(* Drift *)

ExpectedDefault(c) ==
  CASE c.generated = "now" -> "current_timestamp"
    [] c.generated = "revision" -> "1"
    [] c.generated \in {"uuid_v7", "auto_increment", "tenant"} -> None
    [] OTHER -> IF c.default = None THEN None ELSE Lowercase(c.default)

ColumnAgrees(c, a) ==
  /\ a.name = c.name /\ a.type = CatalogColumn(c).type /\ a.nullable = c.nullable
  /\ a.key = c.key /\ (c.key \/ a.unique = c.unique)
  /\ a.identity = (c.generated = "auto_increment")
  /\ a.default = ExpectedDefault(c)

\* The checks that may be taken for a column's: the first one the catalog lists
\* is, and it lists them in any order.
ChecksFor(t, c) == {a.check : a \in {b \in t.columns : b.check # {} /\ Mentions(b.name, c.name)}}

TableAgrees(t, a, always) ==
  /\ {c.name : c \in t.columns} = {c.name : c \in a.columns}
  /\ \A c \in t.columns :
       /\ \E d \in a.columns : ColumnAgrees(c, d)
       /\ c.type = "enum" => IF always THEN ChecksFor(a, c) = {c.values}
                                       ELSE c.values \in ChecksFor(a, c)

IndexShape(i) == <<i.table, i.columns, i.unique, i.predicate>>

\* Whether no drift is reported, in any order of the checks or in some.
Agrees(db, schema, always) ==
  /\ {t.name : t \in db.tables} = {t.name : t \in schema.tables}
  /\ \A t \in schema.tables : \E a \in db.tables : a.name = t.name /\ TableAgrees(t, a, always)
  /\ db.uniques = {CatalogUnique(u) : u \in schema.uniques}
  /\ {IndexShape(i) : i \in db.indexes} = {IndexShape(i) : i \in schema.indexes}
  /\ db.keys = {CatalogKey(k) : k \in schema.keys}
-----------------------------------------------------------------------------
(* Steps *)

SchemasInit ==
  spec = None /\ database = EmptyDatabase /\ outcome = "empty" /\ rejected = None

\* How a migration can end.
Ends(db, old, new) ==
  IF ~Executes(db, old, new) THEN {"failed"}
  ELSE IF MeetsRows(db, old, new) THEN {"failed", "migrated"} ELSE {"migrated"}

\* migrate dev and migrate apply; a migration that fails is rolled back.
Migrate(s) ==
  /\ outcome \in {"empty", "migrated"} /\ (spec # None => Revises(spec, s))
  /\ Unblocked(Current, SchemaOf[s])
  /\ outcome' \in Ends(database, Current, SchemaOf[s])
  /\ IF outcome' = "migrated"
     THEN spec' = s /\ database' = Applied(database, Current, SchemaOf[s]) /\ UNCHANGED rejected
     ELSE rejected' = s /\ UNCHANGED <<spec, database>>

\* Of the columns of a table, one is given another shape by hand.
OtherColumns(c) ==
  {[c EXCEPT !.type = "other"], [c EXCEPT !.nullable = ~@], [c EXCEPT !.default = "other"]}
  \cup (IF c.key THEN {} ELSE {[c EXCEPT !.unique = ~@]})
  \cup (IF c.check = {} THEN {} ELSE {[c EXCEPT !.check = {}],
                                      [c EXCEPT !.check = @ \ {CHOOSE v \in @ : TRUE}]})

OtherTables(t) ==
  {[t EXCEPT !.columns = (@ \ {c}) \cup {d}] : <<c, d>> \in
     UNION {{c} \X OtherColumns(c) : c \in t.columns}}
  \cup {[t EXCEPT !.columns = @ \cup {CatalogColumn(Column("other"))}]}

\* One table of the users' columns, or one key or index of any table.
AlterByHand ==
  /\ outcome = "migrated" /\ spec \in Inspected
  /\ \/ \E t \in database.tables : \E u \in OtherTables(t) :
          t.name = User(spec).table /\ database' = [database EXCEPT !.tables = (@ \ {t}) \cup {u}]
     \/ database' = [database EXCEPT !.tables = @ \cup {CatalogTable(Table("other", KeyColumns({"id"})))}]
     \/ \E u \in database.uniques : database' = [database EXCEPT !.uniques = @ \ {u}]
     \/ \E i \in database.indexes : \E with \in {{}, {[i EXCEPT !.unique = ~@]}} :
          database' = [database EXCEPT !.indexes = (@ \ {i}) \cup with]
     \/ \E k \in database.keys : \E with \in {{}, {[k EXCEPT !.onDelete = "no_action"]}} :
          database' = [database EXCEPT !.keys = (@ \ {k}) \cup with]
  /\ outcome' = "altered" /\ UNCHANGED <<spec, rejected>>

SchemasNext == (\E s \in Specs : Migrate(s)) \/ AlterByHand
SchemasSpec == SchemasInit /\ [][SchemasNext]_schemaVars
-----------------------------------------------------------------------------
(* Properties *)

\* Whatever versions were migrated through, the database is the one a new
\* installation of the last one has (diff, migration_sql, initial_migration).
MigrationsAddUp ==
  outcome = "migrated" => database = Applied(EmptyDatabase, EmptySchema, Current)

\* Two indexes, not of one entity, have the same name.
NamesClash(s) == \E i, j \in SchemaIndexes(s) : i.name = j.name /\ i.id # j.id

\* A seed of tenants' records, which has no tenant.
SeedsTenants(s) == \E i \in DOMAIN s.seeds : s.seeds[i].table \in {e.table : e \in Scoped(s)}

\* A seed refers to a seed that is inserted after it.
RefersLater(s) ==
  \E i, j \in DOMAIN s.seeds, k \in SchemaKeys(s) :
    i < j /\ Refers(s.seeds[i], k) /\ Found(s.seeds[i], k, {s.seeds[j]})

\* PostgreSQL executes every migration, whatever modules and entities are added,
\* but for two indexes with one name, seeds of tenants' records, and a seed
\* that refers to a later one in a table that is not new (diff, add_seed).
OnlyNamesAndSeedsFail ==
  outcome = "failed" =>
    \/ NamesClash(rejected) \/ SeedsTenants(rejected)
    \/ RefersLater(rejected) /\ spec # None

\* What a key clears when its target is deleted may be empty (foreign_keys).
KeysCanBeCleared ==
  outcome = "migrated" =>
    \A k \in database.keys, t \in database.tables : k.onDelete = "set_null" /\ t.name = k.table =>
      \A c \in t.columns : c.name = k.columns[Len(k.columns)] => c.nullable

\* Defaults and checks the comparison with the catalog mistakes.
Mistaken(schema) ==
  \E t \in schema.tables : \E c \in t.columns :
    \/ c.generated = None /\ c.default # None /\ Lowercase(c.default) # c.default
    \/ c.type = "enum" /\ \E d \in t.columns \ {c} : d.type = "enum" /\ Mentions(d.name, c.name)

\* No drift is reported of a migrated database, and one that was altered by
\* hand has drifted, but for defaults in capitals and a column whose name is
\* part of another's (detect, expected_default, compare_enum_check).
DriftIsReported ==
  spec # None /\ ~Mistaken(Current) =>
    /\ outcome = "migrated" => Agrees(database, Current, TRUE)
    /\ outcome = "altered" => ~Agrees(database, Current, FALSE)

SchemasAreSound ==
  MigrationsAddUp /\ OnlyNamesAndSeedsFail /\ KeysCanBeCleared /\ DriftIsReported
=============================================================================
