-------------------------- MODULE PostgresMetadata --------------------------
(***************************************************************************)
(* The metadata a PostgresDatabase keeps (databases/postgresdb/src/        *)
(* postgresimpl.rs): which tables and columns exist, and which data id is  *)
(* bound to which of them.  One worker task bootstraps and then executes   *)
(* one command at a time; each command runs SQL, changes the metadata in   *)
(* memory, changes the set of managed ids, and saves the metadata in the   *)
(* database, in separate steps that can fail.  The process can be killed   *)
(* between any two of them, and other clients of the database change its   *)
(* schema.                                                                 *)
(*                                                                         *)
(* A schema is a set of targets <<t, c>>: column c of table t exists;      *)
(* <<t, NoColumn>>: table t exists.  A binding is the target it points to. *)
(* Of the saved metadata only the bindings are ever read back.             *)
(***************************************************************************)
EXTENDS Naturals, FiniteSets

CONSTANTS
  Ids,         \* data ids
  Tables, Columns,
  TableDefs,   \* the sets of columns create_table is called with
  OtherTables, \* the tables that other clients of the database change
  NoColumn,    \* a binding without a column; a table itself
  NoBinding    \* an id that is not bound

ASSUME NoColumnAssumption == NoColumn \notin Columns
ASSUME OtherTablesAssumption == OtherTables \subseteq Tables
ASSUME TableDefsAssumption == TableDefs \subseteq SUBSET Columns

Targets == Tables \X (Columns \cup {NoColumn})
ASSUME NoBindingAssumption == NoBinding \notin Targets

VARIABLES
  schema,      \* what exists in the database
  saved,       \* the bindings in the row of dt_metadata
  tables,      \* DbMetadata.tables
  bindings,    \* DbMetadata.bindings
  managed,     \* managed_ids
  stage,       \* the step of the worker's command that is next
  cmd,         \* that command
  loaded,      \* bootstrap: the bindings it loaded
  seen,        \* bootstrap, refresh: the schema introspection returned
  boot,        \* "running", or how the bootstrap of this process ended
  unsaved,     \* history: a save failed since the last that succeeded
  drifted      \* history: tables may differ from schema

memoryVars == <<tables, bindings, managed>>
workVars == <<stage, cmd, loaded, seen, boot>>
vars == <<schema, saved, memoryVars, workVars, unsaved, drifted>>

Bindings == [Ids -> Targets \cup {NoBinding}]
NoBindings == [i \in Ids |-> NoBinding]
Bound(b) == {i \in Ids : b[i] # NoBinding}

OfTable(t) == {t} \X (Columns \cup {NoColumn})
Created(t, cols) == {t} \X (cols \cup {NoColumn})
Exists(t) == <<t, NoColumn>> \in schema

\* DbCommand, without the ones that leave the metadata alone.
Boot == [op |-> "boot"]
NoCommand == [op |-> "none"]
Commands ==
  [op : {"register"}, id : Ids, target : Targets]
  \cup [op : {"unregister"}, id : Ids]
  \cup [op : {"create"}, table : Tables, columns : TableDefs]
  \cup [op : {"drop"}, table : Tables]
  \cup [op : {"add_column", "drop_column"}, table : Tables, column : Columns]
  \cup {[op |-> "refresh"]}

Ddl == {"create", "drop", "add_column", "drop_column"}

\* prune_bindings_against_schema
Prune(b, ts) == [i \in Ids |-> IF b[i] \in ts THEN b[i] ELSE NoBinding]

TypeOK ==
  /\ schema \subseteq Targets /\ tables \subseteq Targets /\ seen \subseteq Targets
  /\ saved \in Bindings /\ bindings \in Bindings /\ loaded \in Bindings
  /\ managed \subseteq Ids
  /\ stage \in {"load", "introspect", "idle", "sql", "memory", "managed", "save"}
  /\ cmd \in Commands \cup {Boot, NoCommand}
  /\ boot \in {"running", "ok", "failed"}
  /\ unsaved \in BOOLEAN /\ drifted \in BOOLEAN

Init ==
  /\ schema = {} /\ saved = NoBindings
  /\ tables = {} /\ bindings = NoBindings /\ managed = {}
  /\ stage = "load" /\ cmd = Boot /\ loaded = NoBindings /\ seen = {}
  /\ boot = "running" /\ unsaved = FALSE /\ drifted = TRUE

-----------------------------------------------------------------------------
(* The bootstrap.  Whatever fails, the worker goes on to serve commands. *)

\* The command, or the bootstrap, is over and what it had read is gone.
End(result) ==
  /\ stage' = "idle" /\ cmd' = NoCommand
  /\ loaded' = NoBindings /\ seen' = {}
  /\ boot' = IF cmd.op = "boot" THEN result ELSE boot

LoadSaved ==
  /\ stage = "load"
  /\ loaded' = saved
  /\ stage' = "introspect"
  /\ UNCHANGED <<schema, saved, memoryVars, cmd, seen, boot, unsaved, drifted>>

LoadFails ==
  /\ stage = "load"
  /\ End("failed")
  /\ UNCHANGED <<schema, saved, memoryVars, unsaved, drifted>>

\* introspect_schema, for the bootstrap and for RefreshSchema
Introspect ==
  /\ stage = "introspect"
  /\ seen' = schema
  /\ stage' = "memory"
  /\ drifted' = FALSE
  /\ UNCHANGED <<schema, saved, memoryVars, cmd, loaded, boot, unsaved>>

IntrospectFails ==
  /\ stage = "introspect"
  /\ End("failed")
  /\ UNCHANGED <<schema, saved, memoryVars, unsaved, drifted>>

-----------------------------------------------------------------------------
(* Commands. *)

FirstStage(c) ==
  CASE c.op \in {"register", "unregister"} -> "memory"
    [] c.op \in Ddl -> "sql"
    [] c.op = "refresh" -> "introspect"

\* rx.recv(): the next command, of any of the clients.
Receive(c) ==
  /\ stage = "idle"
  /\ cmd' = c
  /\ stage' = FirstStage(c)
  /\ UNCHANGED <<schema, saved, memoryVars, loaded, seen, boot, unsaved, drifted>>

\* What the statement of a DDL command does in the database.  CREATE TABLE IF
\* NOT EXISTS leaves a table that exists as it is.
SchemaAfter ==
  CASE cmd.op = "create" ->
         IF Exists(cmd.table) THEN schema ELSE schema \cup Created(cmd.table, cmd.columns)
    [] cmd.op = "drop" -> schema \ OfTable(cmd.table)
    [] cmd.op = "add_column" -> schema \cup {<<cmd.table, cmd.column>>}
    [] cmd.op = "drop_column" -> schema \ {<<cmd.table, cmd.column>>}

\* ALTER TABLE needs its table.
Executable == cmd.op \in {"add_column", "drop_column"} => Exists(cmd.table)

ExecuteDdl ==
  /\ stage = "sql" /\ Executable
  /\ schema' = SchemaAfter
  /\ drifted' = (drifted \/ (cmd.op = "create" /\ Exists(cmd.table)))
  /\ stage' = "memory"
  /\ UNCHANGED <<saved, memoryVars, cmd, loaded, seen, boot, unsaved>>

\* The statement fails, or its answer is lost: the command ends with an error.
ExecuteFails ==
  /\ stage = "sql"
  /\ \/ UNCHANGED <<schema, drifted>>
     \/ Executable /\ schema' = SchemaAfter /\ drifted' = TRUE
  /\ End("failed")
  /\ UNCHANGED <<saved, memoryVars, unsaved>>

\* Mutant: a column that is dropped stays in the metadata.
TablesAfterKept ==
  CASE cmd.op \in {"boot", "refresh"} -> seen
    [] cmd.op = "create" -> (tables \ OfTable(cmd.table)) \cup Created(cmd.table, cmd.columns)
    [] cmd.op = "drop" -> tables \ OfTable(cmd.table)
    [] cmd.op = "add_column" ->
         tables \cup {<<cmd.table, NoColumn>>, <<cmd.table, cmd.column>>}
    [] OTHER -> tables

TablesAfter ==
  CASE cmd.op \in {"boot", "refresh"} -> seen
    [] cmd.op = "create" -> (tables \ OfTable(cmd.table)) \cup Created(cmd.table, cmd.columns)
    [] cmd.op = "drop" -> tables \ OfTable(cmd.table)
    [] cmd.op = "add_column" ->
         tables \cup {<<cmd.table, NoColumn>>, <<cmd.table, cmd.column>>}
    [] cmd.op = "drop_column" -> tables \ {<<cmd.table, cmd.column>>}
    [] OTHER -> tables

\* Mutant: a new binding is not checked against the schema.
BindingsAfterUnchecked ==
  CASE cmd.op = "boot" -> Prune(loaded, TablesAfter)
    [] cmd.op = "register" -> [bindings EXCEPT ![cmd.id] = cmd.target]
    [] cmd.op = "unregister" -> [bindings EXCEPT ![cmd.id] = NoBinding]
    [] OTHER -> Prune(bindings, TablesAfter)

\* drop and drop_column remove the bindings of what they drop, the others prune
\* all bindings against the new tables; unregister only removes its own.
BindingsAfter ==
  CASE cmd.op = "boot" -> Prune(loaded, TablesAfter)
    [] cmd.op = "register" -> Prune([bindings EXCEPT ![cmd.id] = cmd.target], TablesAfter)
    [] cmd.op = "unregister" -> [bindings EXCEPT ![cmd.id] = NoBinding]
    [] cmd.op = "drop" ->
         [i \in Ids |-> IF bindings[i] \in OfTable(cmd.table) THEN NoBinding ELSE bindings[i]]
    [] cmd.op = "drop_column" ->
         [i \in Ids |-> IF bindings[i] = <<cmd.table, cmd.column>> THEN NoBinding ELSE bindings[i]]
    [] OTHER -> Prune(bindings, TablesAfter)

\* Under the metadata's write lock.  create and add_column leave out the
\* managed ids.
UpdateMemory ==
  /\ stage = "memory"
  /\ tables' = TablesAfter
  /\ bindings' = BindingsAfter
  /\ stage' = IF cmd.op \in {"create", "add_column"} THEN "save" ELSE "managed"
  /\ loaded' = NoBindings /\ seen' = {}
  /\ UNCHANGED <<schema, saved, managed, cmd, boot, unsaved, drifted>>

\* Mutant: a binding that is registered does not reach the managed ids.
UpdateManagedLate ==
  /\ stage = "managed"
  /\ managed' = IF cmd.op = "unregister" THEN managed \ {cmd.id} ELSE managed \cap Bound(bindings)
  /\ stage' = "save"
  /\ UNCHANGED <<schema, saved, tables, bindings, cmd, loaded, seen, boot, unsaved, drifted>>

\* Under the lock of the managed ids: rebuilt, or one id removed.
UpdateManaged ==
  /\ stage = "managed"
  /\ managed' = IF cmd.op = "unregister" THEN managed \ {cmd.id} ELSE Bound(bindings)
  /\ stage' = "save"
  /\ UNCHANGED <<schema, saved, tables, bindings, cmd, loaded, seen, boot, unsaved, drifted>>

\* Mutant: what drops tables or columns is not saved.
SaveNotDropped ==
  /\ stage = "save"
  /\ saved' = IF cmd.op \in {"drop", "drop_column"} THEN saved ELSE bindings
  /\ unsaved' = FALSE
  /\ End("ok")
  /\ UNCHANGED <<schema, memoryVars, drifted>>

\* persist_metadata; then the reply.
Save ==
  /\ stage = "save"
  /\ saved' = bindings
  /\ unsaved' = FALSE
  /\ End("ok")
  /\ UNCHANGED <<schema, memoryVars, drifted>>

\* It fails, or its answer is lost: an error, but memory has changed.
SaveFails ==
  /\ stage = "save"
  /\ saved' \in {saved, bindings}
  /\ unsaved' = TRUE
  /\ End("failed")
  /\ UNCHANGED <<schema, memoryVars, drifted>>

-----------------------------------------------------------------------------
(* The environment. *)

\* The process is killed and started again.
Restart ==
  /\ tables' = {} /\ bindings' = NoBindings /\ managed' = {}
  /\ stage' = "load" /\ cmd' = Boot /\ loaded' = NoBindings /\ seen' = {}
  /\ boot' = "running" /\ unsaved' = FALSE /\ drifted' = TRUE
  /\ UNCHANGED <<schema, saved>>

\* Another client of the database creates or drops a table.
OtherClient(t) ==
  /\ schema' = IF Exists(t) THEN schema \ OfTable(t) ELSE schema \cup OfTable(t)
  /\ drifted' = TRUE
  /\ UNCHANGED <<saved, memoryVars, workVars, unsaved>>

Fails == LoadFails \/ IntrospectFails \/ ExecuteFails \/ SaveFails
Works == LoadSaved \/ Introspect \/ ExecuteDdl \/ UpdateMemory \/ UpdateManaged \/ Save

Next ==
  \/ \E c \in Commands : Receive(c)
  \/ Works \/ Fails \/ Restart
  \/ \E t \in OtherTables : OtherClient(t)

Spec == Init /\ [][Next]_vars

-----------------------------------------------------------------------------
(* Properties. *)

\* Every binding points to a table or column of the metadata it is part of, in
\* every state in which a metadata snapshot or a save can be taken.
BindingsInTables == \A i \in Bound(bindings) : bindings[i] \in tables

\* list_managed_ids, which reads its set without asking the worker: between
\* commands no bound id is missing from it.
BoundIsManaged == stage = "idle" => Bound(bindings) \subseteq managed

\* The order update, save, reply: between commands a kill loses nothing, for
\* the saved bindings are those in memory, unless a save has failed or there was
\* no bootstrap to read them.
NothingToLose ==
  stage = "idle" /\ boot # "failed" /\ ~unsaved => saved = bindings

\* The metadata's tables are the database's, whatever commands ran, as long as
\* no other client changed the schema, no answer to a DDL command was lost and no
\* create_table named a table that exists; a refresh or restart ends the drift.
TablesAreSchema ==
  stage \in {"idle", "managed", "save"} /\ ~drifted => tables = schema

\* What makes these inductive.  The command in hand and the step it is at;
\* the same relations in the middle of a command; no column without its table.
CommandInStep ==
  /\ cmd.op = "none" <=> stage = "idle"
  /\ stage = "load" => cmd.op = "boot"
  /\ stage = "introspect" => cmd.op \in {"boot", "refresh"}
  /\ stage = "sql" => cmd.op \in Ddl
  /\ stage = "managed" => cmd.op \notin {"create", "add_column"}
  /\ boot = "running" <=> cmd.op = "boot"
  /\ cmd.op = "boot" /\ stage \in {"load", "introspect"} => drifted

ManagedInStep ==
  IF stage = "managed"
  THEN cmd.op = "unregister" => Bound(bindings) \subseteq managed \ {cmd.id}
  ELSE Bound(bindings) \subseteq managed

SavedInStep ==
  stage \in {"idle", "sql", "introspect", "memory"} /\ boot = "ok" /\ ~unsaved
    => saved = bindings

TablesInStep ==
  ~drifted => schema = IF stage = "memory" THEN TablesAfter ELSE tables

NoOrphanColumns == \A t \in Tables, c \in Columns : <<t, c>> \in schema => Exists(t)

MetadataInv ==
  /\ TypeOK /\ BindingsInTables
  /\ CommandInStep /\ ManagedInStep /\ SavedInStep /\ TablesInStep /\ NoOrphanColumns

\* postgresimpl.rs:231 and :356: saved bindings are kept, except those "that
\* point to tables/columns that don't exist in the current schema".  A saved
\* binding is given up only when its id is registered anew or unregistered, or
\* when its target does not exist.  (Without other clients: their changes can
\* fall between an introspection and the save that follows it.)
GivesUp(i) ==
  \/ cmd.op \in {"register", "unregister"} /\ cmd.id = i
  \/ saved[i] \notin schema

SavedBindingsKept ==
  [][\A i \in Bound(saved) : saved'[i] # saved[i] => GivesUp(i)]_vars

=============================================================================
