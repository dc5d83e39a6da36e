------------------------------ MODULE LocalCatalog ------------------------------
(***************************************************************************)
(* The databases, tables and views of the local catalog (catalog.py) and    *)
(* the system table that records the schema of each table                   *)
(* (system_table_client.py).                                                *)
(*                                                                         *)
(* A DuckDB transaction is one step: DuckDB detects conflicts, and the       *)
(* transaction that loses one fails and changes nothing.  The catalog's      *)
(* lock is held over more than one step by create_table only; insert and     *)
(* replace do not take it, except to read the current database.              *)
(* QueryExecution.tla adds the queries that save tables.                     *)
(***************************************************************************)
EXTENDS Naturals, FiniteSets, Functions

CONSTANTS
    Threads,
    Databases,
    Default,        \* the database of a new catalog
    Names,          \* table and view names: the database, or None for the current one, and a name
    Schemas,
    Tools,          \* tool names
    None

ASSUME CatalogAssumption ==
    /\ Default \in Databases
    /\ None \notin Databases \cup Threads \cup Schemas \cup Tools
    /\ IsFiniteSet(Threads)
    /\ \A n \in Names : n.db \in Databases \cup {None}
    /\ \A d \in Databases, n \in Names, s \in Schemas : None # [id |-> <<d, n.name>>, schema |-> s]

VARIABLES
    dbs,        \* the DuckDB schemas
    current,    \* current_database
    tables,     \* the tables: schema, and which saves' rows they hold
    described,  \* the schema recorded for each table in the system table
    views,
    tools,      \* the tools, with the thread that saved each
    saving,     \* the tool each thread found absent in create_tool
    lock,       \* the thread that holds the lock
    creating,   \* the table each thread found absent in create_table, and its schema
    raced,      \* history: tables a create statement found although its caller saw none
    disturbed   \* history: threads another one changed the catalog under since their check

toolVars == <<tools, saving>>
catalogVars == <<dbs, current, tables, described, views, toolVars, lock, creating, raced, disturbed>>

CatalogInit ==
    /\ dbs = {Default}
    /\ current = Default
    /\ tables = <<>>
    /\ described = <<>>
    /\ views = {}
    /\ tools = <<>>
    /\ saving = [t \in Threads |-> None]
    /\ lock = None
    /\ creating = [t \in Threads |-> None]
    /\ raced = {}
    /\ disturbed = {}

\* TableIdentifier.enrich
Resolve(n) == <<IF n.db = None THEN current ELSE n.db, n.name>>

Exists(id) == id \in DOMAIN tables

Free(t) == lock = None

With(f, id, value) == [i \in DOMAIN f \cup {id} |-> IF i = id THEN value ELSE f[i]]
Without(f, ids) == Restrict(f, DOMAIN f \ ids)

Disturbs(t) == disturbed' = disturbed \cup (Threads \ {t})

----------------------------------------------------------------------------
(* Databases. *)

CreateDatabase(t, d) ==
    /\ Free(t)
    /\ dbs' = dbs \cup {d}
    /\ UNCHANGED <<current, tables, described, views, lock, creating, raced, disturbed, toolVars>>

SetCurrentDatabase(t, d) ==
    /\ Free(t)
    /\ d \in dbs
    /\ current' = d
    /\ Disturbs(t)
    /\ UNCHANGED <<dbs, tables, described, views, lock, creating, raced, toolVars>>

InDatabase(ids, d) == {id \in ids : id[1] = d}

\* Not the current database, and without cascade only one with no view (the catalog
\* checks) and no table (DuckDB does).
MayDrop(d, cascade) ==
    /\ d # current
    /\ d \in dbs
    /\ ~ cascade => InDatabase(views \cup DOMAIN tables, d) = {}

DropDatabase(t, d, cascade) ==
    /\ Free(t)
    /\ MayDrop(d, cascade)
    /\ dbs' = dbs \ {d}
    /\ tables' = Without(tables, InDatabase(DOMAIN tables, d))
    /\ described' = Without(described, InDatabase(DOMAIN described, d))
    /\ views' = views \ InDatabase(views, d)
    /\ raced' = raced \ InDatabase(raced, d)
    /\ Disturbs(t)
    /\ UNCHANGED <<current, lock, creating, toolVars>>

----------------------------------------------------------------------------
(* Tables. *)

\* CREATE TABLE IF NOT EXISTS and save_table in one transaction: a table that is
\* there keeps its rows and its schema, and the recorded schema is replaced.
CreateIfNotExists(t, id, schema, rows) ==
    /\ id[1] \in dbs
    /\ tables' = IF Exists(id) THEN tables ELSE With(tables, id, [schema |-> schema, rows |-> rows])
    /\ described' = With(described, id, schema)
    /\ raced' = IF Exists(id) /\ t \in disturbed THEN raced \cup {id} ELSE raced
    /\ Disturbs(t)
    /\ UNCHANGED <<dbs, current, views, toolVars>>

\* create_table: check under the lock, ...
CreateTableCheck(t, n, schema) ==
    /\ Free(t)
    /\ ~ Exists(Resolve(n))
    /\ lock' = t
    /\ creating' = [creating EXCEPT ![t] = [id |-> Resolve(n), schema |-> schema]]
    /\ disturbed' = disturbed \ {t}
    /\ UNCHANGED <<dbs, current, tables, described, views, raced, toolVars>>

\* ... and create, or fail.
CreateTable(t) ==
    /\ lock = t
    /\ lock' = None
    /\ creating' = [creating EXCEPT ![t] = None]
    /\ CreateIfNotExists(t, creating[t].id, creating[t].schema, {})

\* Mutant: the lock is released only when the table was created.
CreateTableFails_KeepsLock(t) ==
    /\ lock = t
    /\ creating' = [creating EXCEPT ![t] = None]
    /\ UNCHANGED <<dbs, current, tables, described, views, lock, raced, disturbed, toolVars>>

CreateTableFails(t) ==
    /\ lock = t
    /\ lock' = None
    /\ creating' = [creating EXCEPT ![t] = None]
    /\ UNCHANGED <<dbs, current, tables, described, views, raced, disturbed, toolVars>>

DropTable(t, n) ==
    /\ Free(t)
    /\ Exists(Resolve(n))
    /\ tables' = Without(tables, {Resolve(n)})
    /\ described' = Without(described, {Resolve(n)})
    /\ raced' = raced \ {Resolve(n)}
    /\ Disturbs(t)
    /\ UNCHANGED <<dbs, current, views, lock, creating, toolVars>>

\* write_df_to_table, under the lock
WriteDfToTable(t, n, schema) ==
    /\ Free(t)
    /\ CreateIfNotExists(t, Resolve(n), schema, {t})
    /\ UNCHANGED <<lock, creating>>

\* The INSERT of insert_df_to_table.  DuckDB matches columns by position and casts, so
\* rows of another schema may be taken or refused.
InsertDf(t, id) ==
    /\ Exists(id)
    /\ tables' = [tables EXCEPT ![id].rows = @ \cup {t}]
    /\ UNCHANGED <<dbs, current, described, views, lock, creating, raced, disturbed, toolVars>>

\* Mutant: the recorded schema stays that of the table replaced.
ReplaceTable_KeepsSchema(t, id, schema) ==
    /\ id[1] \in dbs
    /\ tables' = With(tables, id, [schema |-> schema, rows |-> {t}])
    /\ described' = IF id \in DOMAIN described THEN described ELSE With(described, id, schema)
    /\ raced' = raced \ {id}
    /\ Disturbs(t)
    /\ UNCHANGED <<dbs, current, views, lock, creating, toolVars>>

\* The transaction of replace_table_with_df.
ReplaceTable(t, id, schema) ==
    /\ id[1] \in dbs
    /\ tables' = With(tables, id, [schema |-> schema, rows |-> {t}])
    /\ described' = With(described, id, schema)
    /\ raced' = raced \ {id}
    /\ Disturbs(t)
    /\ UNCHANGED <<dbs, current, views, lock, creating, toolVars>>

----------------------------------------------------------------------------
(* Views: create_view and drop_view, with the name checked under the same lock. *)

CreateView(t, n) ==
    /\ Free(t)
    /\ views' = views \cup {Resolve(n)}
    /\ UNCHANGED <<dbs, current, tables, described, lock, creating, raced, disturbed, toolVars>>

DropView(t, n) ==
    /\ Free(t)
    /\ views' = views \ {Resolve(n)}
    /\ UNCHANGED <<dbs, current, tables, described, lock, creating, raced, disturbed, toolVars>>

----------------------------------------------------------------------------
(* Tools: create_tool takes no lock. *)

\* describe_tool
Absent(tool) == tool \notin DOMAIN tools

CreateToolCheck(t, tool) ==
    /\ Absent(tool)
    /\ saving' = [saving EXCEPT ![t] = tool]
    /\ disturbed' = disturbed \ {t}
    /\ UNCHANGED <<dbs, current, tables, described, views, tools, lock, creating, raced>>

\* save_tool: INSERT OR REPLACE.
SaveTool(t) ==
    /\ saving[t] # None
    /\ tools' = With(tools, saving[t], t)
    /\ saving' = [saving EXCEPT ![t] = None]
    /\ Disturbs(t)
    /\ UNCHANGED <<dbs, current, tables, described, views, lock, creating, raced>>

DropTool(t, tool) ==
    /\ Free(t)
    /\ tool \in DOMAIN tools
    /\ tools' = Without(tools, {tool})
    /\ UNCHANGED <<dbs, current, tables, described, views, saving, lock, creating, raced, disturbed>>

CatalogCall(t) ==
    \/ \E d \in Databases : CreateDatabase(t, d) \/ SetCurrentDatabase(t, d)
    \/ \E d \in Databases, cascade \in BOOLEAN : DropDatabase(t, d, cascade)
    \/ \E n \in Names : DropTable(t, n) \/ CreateView(t, n) \/ DropView(t, n)
    \/ \E tool \in Tools : CreateToolCheck(t, tool) \/ DropTool(t, tool)

----------------------------------------------------------------------------
CatalogTypeOK ==
    /\ Default \in Databases /\ dbs \subseteq Databases
    /\ current \in Databases
    /\ \A id \in DOMAIN tables : tables[id].schema \in Schemas /\ tables[id].rows \subseteq Threads
    /\ \A id \in DOMAIN described : described[id] \in Schemas
    /\ lock \in Threads \cup {None}
    /\ \A t \in Threads : lock = t <=> creating[t] # None
    /\ DOMAIN tools \subseteq Tools
    /\ raced \subseteq DOMAIN tables
    /\ disturbed \subseteq Threads

\* Databases, tables and the system table fit together whatever is dropped while a save
\* is under way: drop_database and drop_table delete the metadata in the same transaction,
\* and the current database cannot be dropped.  The schema recorded for a table, which
\* append compares with and readers are given, is the table's, unless a CREATE TABLE IF NOT
\* EXISTS found a table that another thread made, or found by changing the current database,
\* after the caller saw none.  It says nothing of views: create_view takes a qualified name
\* and does not look whether the database is there.
CatalogConsistent ==
    /\ current \in dbs
    /\ DOMAIN described = DOMAIN tables
    /\ \A id \in DOMAIN tables : id[1] \in dbs
    /\ \A id \in DOMAIN tables \ raced : described[id] = tables[id].schema
=============================================================================
