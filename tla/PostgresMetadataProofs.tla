----------------------- MODULE PostgresMetadataProofs -----------------------
(***************************************************************************)
(* Proofs about PostgresMetadata, for any ids, tables and columns: the     *)
(* inductive invariant MetadataInv holds, and the properties follow.       *)
(***************************************************************************)
EXTENDS PostgresMetadata, TLAPS

\* The fields of a command, by its operation.
LEMMA CommandFields ==
  ASSUME NEW c \in Commands
  PROVE  /\ c.op \in {"register", "unregister", "refresh"} \cup Ddl
         /\ c.op \in {"register", "unregister"} => c.id \in Ids
         /\ c.op = "register" => c.target \in Targets
         /\ c.op \in Ddl => c.table \in Tables
         /\ c.op = "create" => c.columns \subseteq Columns
         /\ c.op \in {"add_column", "drop_column"} => c.column \in Columns
BY TableDefsAssumption DEF Commands, Ddl

\* The same of the worker's command, whatever it is doing.
LEMMA CmdFields ==
  ASSUME TypeOK
  PROVE  /\ cmd.op \in {"register", "unregister", "refresh", "boot", "none"} \cup Ddl
         /\ cmd.op \in {"register", "unregister"} => cmd.id \in Ids
         /\ cmd.op = "register" => cmd.target \in Targets
         /\ cmd.op \in Ddl => cmd.table \in Tables
         /\ cmd.op = "create" => cmd.columns \subseteq Columns
         /\ cmd.op \in {"add_column", "drop_column"} => cmd.column \in Columns
<1>1. cmd \in Commands \/ cmd = Boot \/ cmd = NoCommand  BY DEF TypeOK
<1>2. CASE cmd \in Commands  BY <1>2, CommandFields
<1>3. CASE cmd = Boot  BY <1>3 DEF Boot, Ddl
<1>4. CASE cmd = NoCommand  BY <1>4 DEF NoCommand, Ddl
<1>5. QED  BY <1>1, <1>2, <1>3, <1>4

\* Prune, as a set of bindings: what is left was there and exists.
LEMMA PruneProperties ==
  ASSUME NEW b \in Bindings, NEW ts \in SUBSET Targets
  PROVE  /\ Prune(b, ts) \in Bindings
         /\ \A i \in Bound(Prune(b, ts)) : Prune(b, ts)[i] \in ts /\ Prune(b, ts)[i] = b[i]
         /\ Bound(Prune(b, ts)) \subseteq Bound(b)
BY NoBindingAssumption DEF Prune, Bindings, Bound

\* The targets of a command: a table and its columns.
LEMMA TargetSets ==
  ASSUME NEW t \in Tables, NEW cols \in SUBSET Columns
  PROVE  /\ OfTable(t) \subseteq Targets
         /\ Created(t, cols) \subseteq OfTable(t)
         /\ <<t, NoColumn>> \in Created(t, cols)
         /\ \A c \in Columns : <<t, c>> \in Targets
         /\ <<t, NoColumn>> \in Targets
BY DEF OfTable, Created, Targets

\* The metadata after a command: its tables and bindings are well formed, its
\* bindings point into its tables.
LEMMA MemoryAfter ==
  ASSUME MetadataInv, stage = "memory"
  PROVE  /\ TablesAfter \subseteq Targets
         /\ BindingsAfter \in Bindings
         /\ \A i \in Bound(BindingsAfter) : BindingsAfter[i] \in TablesAfter
<1>0. /\ tables \subseteq Targets /\ seen \subseteq Targets
      /\ bindings \in Bindings /\ loaded \in Bindings
      /\ \A i \in Bound(bindings) : bindings[i] \in tables
      /\ cmd.op # "none"
  BY DEF MetadataInv, TypeOK, BindingsInTables, CommandInStep
<1>1. /\ cmd.op \in {"register", "unregister", "refresh", "boot", "none"} \cup Ddl
      /\ cmd.op \in {"register", "unregister"} => cmd.id \in Ids
      /\ cmd.op = "register" => cmd.target \in Targets
      /\ cmd.op \in Ddl => cmd.table \in Tables
      /\ cmd.op = "create" => cmd.columns \subseteq Columns
      /\ cmd.op \in {"add_column", "drop_column"} => cmd.column \in Columns
  BY CmdFields DEF MetadataInv
<1>2. TablesAfter \subseteq Targets
  <2>1. CASE cmd.op = "create"
    <3>1. Created(cmd.table, cmd.columns) \subseteq Targets
      BY <2>1, <1>1, TargetSets DEF Ddl
    <3>2. TablesAfter = (tables \ OfTable(cmd.table)) \cup Created(cmd.table, cmd.columns)
      BY <2>1 DEF TablesAfter
    <3>3. QED  BY <3>1, <3>2, <1>0
  <2>2. CASE cmd.op = "add_column"
    <3>1. <<cmd.table, NoColumn>> \in Targets /\ <<cmd.table, cmd.column>> \in Targets
      BY <2>2, <1>1 DEF Ddl, Targets
    <3>2. QED  BY <2>2, <3>1, <1>0 DEF TablesAfter
  <2>3. CASE cmd.op \notin {"create", "add_column"}
    BY <2>3, <1>0, <1>1 DEF TablesAfter, Ddl
  <2>4. QED  BY <2>1, <2>2, <2>3
<1>3. CASE cmd.op = "boot"
  <2>1. BindingsAfter = Prune(loaded, TablesAfter)  BY <1>3 DEF BindingsAfter
  <2>2. QED  BY <2>1, <1>0, <1>2, PruneProperties
<1>4. CASE cmd.op = "register"
  <2>1. BindingsAfter = Prune([bindings EXCEPT ![cmd.id] = cmd.target], TablesAfter)
    BY <1>4 DEF BindingsAfter
  <2>2. [bindings EXCEPT ![cmd.id] = cmd.target] \in Bindings
    BY <1>0, <1>1, <1>4 DEF Bindings
  <2>3. QED  BY <2>1, <2>2, <1>2, PruneProperties
<1>5. CASE cmd.op = "unregister"
  <2>1. /\ BindingsAfter = [bindings EXCEPT ![cmd.id] = NoBinding]
        /\ TablesAfter = tables
    BY <1>5 DEF BindingsAfter, TablesAfter
  <2>2. QED  BY <2>1, <1>0, <1>1, <1>2, <1>5 DEF Bindings, Bound
<1>6. CASE cmd.op = "drop"
  <2>1. /\ BindingsAfter = [i \in Ids |-> IF bindings[i] \in OfTable(cmd.table)
                                          THEN NoBinding ELSE bindings[i]]
        /\ TablesAfter = tables \ OfTable(cmd.table)
    BY <1>6 DEF BindingsAfter, TablesAfter
  <2>2. QED  BY <2>1, <1>0, <1>2 DEF Bindings, Bound
<1>7. CASE cmd.op = "drop_column"
  <2>1. /\ BindingsAfter = [i \in Ids |-> IF bindings[i] = <<cmd.table, cmd.column>>
                                          THEN NoBinding ELSE bindings[i]]
        /\ TablesAfter = tables \ {<<cmd.table, cmd.column>>}
    BY <1>7 DEF BindingsAfter, TablesAfter
  <2>2. QED  BY <2>1, <1>0, <1>2 DEF Bindings, Bound
<1>8. CASE cmd.op \in {"refresh", "create", "add_column"}
  <2>1. BindingsAfter = Prune(bindings, TablesAfter)  BY <1>8 DEF BindingsAfter
  <2>2. QED  BY <2>1, <1>0, <1>2, PruneProperties
<1>9. QED  BY <1>0, <1>1, <1>3, <1>4, <1>5, <1>6, <1>7, <1>8 DEF Ddl

\* What the statement of a DDL command leaves in the database.
LEMMA SchemaAfterDdl ==
  ASSUME MetadataInv, stage = "sql", Executable
  PROVE  /\ SchemaAfter \subseteq Targets
         /\ \A t \in Tables, c \in Columns :
              <<t, c>> \in SchemaAfter => <<t, NoColumn>> \in SchemaAfter
         /\ ~drifted /\ ~(cmd.op = "create" /\ Exists(cmd.table)) => SchemaAfter = TablesAfter
<1>0. /\ schema \subseteq Targets /\ tables \subseteq Targets
      /\ cmd.op \in Ddl
      /\ \A t \in Tables, c \in Columns : <<t, c>> \in schema => <<t, NoColumn>> \in schema
      /\ ~drifted => schema = tables
  BY DEF MetadataInv, TypeOK, CommandInStep, NoOrphanColumns, Exists, TablesInStep
<1>1. /\ cmd.table \in Tables
      /\ cmd.op = "create" => cmd.columns \subseteq Columns
      /\ cmd.op \in {"add_column", "drop_column"} => cmd.column \in Columns
  BY <1>0, CmdFields DEF MetadataInv
<1>2. CASE cmd.op = "create"
  <2>1. CASE Exists(cmd.table)  BY <1>0, <1>2, <2>1 DEF SchemaAfter
  <2>2. CASE ~Exists(cmd.table)
    <3>1. /\ SchemaAfter = schema \cup Created(cmd.table, cmd.columns)
          /\ TablesAfter = (tables \ OfTable(cmd.table)) \cup Created(cmd.table, cmd.columns)
      BY <1>2, <2>2 DEF SchemaAfter, TablesAfter
    <3>2. /\ Created(cmd.table, cmd.columns) \subseteq Targets
          /\ \A t \in Tables, c \in Columns :
               <<t, c>> \in Created(cmd.table, cmd.columns)
                 => <<t, NoColumn>> \in Created(cmd.table, cmd.columns)
      BY <1>1, <1>2 DEF Created, Targets
    <3>3. schema \cap OfTable(cmd.table) = {}
      BY <1>0, <1>1, <2>2 DEF OfTable, Exists, Targets
    <3>4. QED  BY <1>0, <3>1, <3>2, <3>3
  <2>3. QED  BY <2>1, <2>2
<1>3. CASE cmd.op = "drop"
  <2>1. /\ SchemaAfter = schema \ OfTable(cmd.table)
        /\ TablesAfter = tables \ OfTable(cmd.table)
    BY <1>3 DEF SchemaAfter, TablesAfter
  <2>2. \A t \in Tables, c \in Columns : <<t, c>> \in schema \ OfTable(cmd.table)
          => <<t, NoColumn>> \in schema \ OfTable(cmd.table)
    BY <1>0, <1>1 DEF OfTable
  <2>3. QED  BY <1>0, <1>3, <2>1, <2>2
<1>4. CASE cmd.op = "add_column"
  <2>1. /\ SchemaAfter = schema \cup {<<cmd.table, cmd.column>>}
        /\ TablesAfter = tables \cup {<<cmd.table, NoColumn>>, <<cmd.table, cmd.column>>}
    BY <1>4 DEF SchemaAfter, TablesAfter
  <2>2. <<cmd.table, NoColumn>> \in schema  BY <1>4 DEF Executable, Exists
  <2>3. <<cmd.table, cmd.column>> \in Targets  BY <1>1, <1>4 DEF Targets
  <2>4. QED  BY <1>0, <1>1, <1>4, <2>1, <2>2, <2>3, NoColumnAssumption
<1>5. CASE cmd.op = "drop_column"
  <2>1. /\ SchemaAfter = schema \ {<<cmd.table, cmd.column>>}
        /\ TablesAfter = tables \ {<<cmd.table, cmd.column>>}
    BY <1>5 DEF SchemaAfter, TablesAfter
  <2>2. QED  BY <1>0, <1>1, <1>5, <2>1, NoColumnAssumption
<1>6. QED  BY <1>0, <1>2, <1>3, <1>4, <1>5 DEF Ddl

\* The worker begins with the bootstrap, on an empty database.
LEMMA InitInv == Init => MetadataInv
<1> SUFFICES ASSUME Init PROVE MetadataInv  OBVIOUS
<1>0. cmd.op = "boot"  BY DEF Init, Boot
<1>1. NoBindings \in Bindings /\ Bound(NoBindings) = {}
  BY DEF NoBindings, Bindings, Bound
<1>2. TypeOK  BY <1>1 DEF Init, TypeOK
<1>3. BindingsInTables /\ ManagedInStep  BY <1>1 DEF Init, BindingsInTables, ManagedInStep
<1>4. CommandInStep  BY <1>0 DEF Init, CommandInStep
<1>5. SavedInStep /\ TablesInStep /\ NoOrphanColumns
  BY DEF Init, SavedInStep, TablesInStep, NoOrphanColumns
<1>6. QED  BY <1>2, <1>3, <1>4, <1>5 DEF MetadataInv

\* The facts of MetadataInv that most steps need, without its definitions.
LEMMA InvFacts ==
  ASSUME MetadataInv
  PROVE  /\ TypeOK /\ BindingsInTables /\ CommandInStep /\ ManagedInStep
         /\ SavedInStep /\ TablesInStep /\ NoOrphanColumns
BY DEF MetadataInv

\* A command or bootstrap that ends without a save.
LEMMA EndInv ==
  ASSUME MetadataInv, End("failed"),
         stage \in {"load", "introspect", "sql"},
         UNCHANGED <<saved, memoryVars, unsaved>>,
         schema' \subseteq Targets, drifted' \in BOOLEAN,
         ~drifted' => ~drifted /\ schema' = schema,
         NoOrphanColumns'
  PROVE  MetadataInv'
<1>0. /\ TypeOK /\ BindingsInTables /\ CommandInStep /\ ManagedInStep
      /\ SavedInStep /\ TablesInStep
  BY InvFacts
<1>1. /\ stage' = "idle" /\ cmd' = NoCommand /\ loaded' = NoBindings /\ seen' = {}
      /\ boot' = IF cmd.op = "boot" THEN "failed" ELSE boot
      /\ saved' = saved /\ tables' = tables /\ bindings' = bindings /\ managed' = managed
      /\ unsaved' = unsaved
  BY DEF End, memoryVars
<1>2. cmd'.op = "none"  BY <1>1 DEF NoCommand
<1>3. TypeOK'  BY <1>0, <1>1 DEF TypeOK, NoBindings, Bindings
<1>4. BindingsInTables'  BY <1>0, <1>1 DEF BindingsInTables
<1>5. CommandInStep'  BY <1>0, <1>1, <1>2 DEF CommandInStep, TypeOK
<1>6. ManagedInStep'  BY <1>0, <1>1 DEF ManagedInStep
<1>7. SavedInStep'  BY <1>0, <1>1 DEF SavedInStep, CommandInStep
<1>8. TablesInStep'  BY <1>0, <1>1 DEF TablesInStep
<1>9. QED  BY <1>3, <1>4, <1>5, <1>6, <1>7, <1>8 DEF MetadataInv

\* Every step of the worker, of its failures, a restart, another client.
LEMMA StepInv == MetadataInv /\ [Next]_vars => MetadataInv'
<1> SUFFICES ASSUME MetadataInv, [Next]_vars PROVE MetadataInv'  OBVIOUS
<1>0. /\ TypeOK /\ BindingsInTables /\ CommandInStep /\ ManagedInStep
      /\ SavedInStep /\ TablesInStep /\ NoOrphanColumns
  BY InvFacts
<1>1. CASE LoadSaved
  <2>1. /\ stage = "load" /\ stage' = "introspect" /\ loaded' = saved
        /\ UNCHANGED <<schema, saved, tables, bindings, managed, cmd, seen, boot, unsaved, drifted>>
    BY <1>1 DEF LoadSaved, memoryVars
  <2>2. TypeOK' /\ BindingsInTables'  BY <1>0, <2>1 DEF TypeOK, BindingsInTables
  <2>3. CommandInStep' /\ ManagedInStep'  BY <1>0, <2>1 DEF CommandInStep, ManagedInStep
  <2>4. SavedInStep' /\ NoOrphanColumns'
    BY <1>0, <2>1 DEF SavedInStep, CommandInStep, NoOrphanColumns, Exists
  <2>5. TablesInStep'  BY <1>0, <2>1 DEF TablesInStep
  <2>6. QED  BY <2>2, <2>3, <2>4, <2>5 DEF MetadataInv
<1>2. CASE LoadFails
  BY <1>0, <1>2, EndInv DEF LoadFails, TypeOK, NoOrphanColumns, Exists
<1>3. CASE Introspect
  <2>1. /\ stage = "introspect" /\ stage' = "memory" /\ seen' = schema /\ drifted' = FALSE
        /\ UNCHANGED <<schema, saved, tables, bindings, managed, cmd, loaded, boot, unsaved>>
    BY <1>3 DEF Introspect, memoryVars
  <2>2. TypeOK' /\ BindingsInTables'  BY <1>0, <2>1 DEF TypeOK, BindingsInTables
  <2>3. CommandInStep' /\ ManagedInStep'  BY <1>0, <2>1 DEF CommandInStep, ManagedInStep
  <2>4. SavedInStep' /\ NoOrphanColumns'
    BY <1>0, <2>1 DEF SavedInStep, NoOrphanColumns, Exists
  <2>5. TablesAfter' = seen'  BY <1>0, <2>1 DEF TablesAfter, CommandInStep
  <2>6. TablesInStep'  BY <2>1, <2>5 DEF TablesInStep
  <2>7. QED  BY <2>2, <2>3, <2>4, <2>6 DEF MetadataInv
<1>4. CASE IntrospectFails
  BY <1>0, <1>4, EndInv DEF IntrospectFails, TypeOK, NoOrphanColumns, Exists
<1>5. ASSUME NEW c \in Commands, Receive(c)  PROVE MetadataInv'
  <2>1. /\ stage = "idle" /\ cmd' = c /\ stage' = FirstStage(c)
        /\ UNCHANGED <<schema, saved, tables, bindings, managed, loaded, seen, boot, unsaved, drifted>>
    BY <1>5 DEF Receive, memoryVars
  <2>2. c.op \in {"register", "unregister", "refresh"} \cup Ddl  BY CommandFields
  <2>3. /\ stage' = "memory" => c.op \in {"register", "unregister"}
        /\ stage' = "sql" => c.op \in Ddl
        /\ stage' = "introspect" => c.op = "refresh"
        /\ stage' \in {"memory", "sql", "introspect"}
    BY <2>1, <2>2 DEF FirstStage, Ddl
  <2>4. TypeOK' /\ BindingsInTables'  BY <1>0, <2>1, <2>3 DEF TypeOK, BindingsInTables
  <2>5. CommandInStep' /\ ManagedInStep'
    BY <1>0, <2>1, <2>2, <2>3 DEF CommandInStep, ManagedInStep, Ddl
  <2>6. SavedInStep' /\ NoOrphanColumns'
    BY <1>0, <2>1 DEF SavedInStep, NoOrphanColumns, Exists
  <2>7. stage' = "memory" => TablesAfter' = tables  BY <2>1, <2>3 DEF TablesAfter
  <2>8. TablesInStep'  BY <1>0, <2>1, <2>7 DEF TablesInStep
  <2>9. QED  BY <2>4, <2>5, <2>6, <2>8 DEF MetadataInv
<1>6. CASE ExecuteDdl
  <2>1. /\ stage = "sql" /\ Executable /\ schema' = SchemaAfter /\ stage' = "memory"
        /\ drifted' = (drifted \/ (cmd.op = "create" /\ Exists(cmd.table)))
        /\ UNCHANGED <<saved, tables, bindings, managed, cmd, loaded, seen, boot, unsaved>>
    BY <1>6 DEF ExecuteDdl, memoryVars
  <2>2. TypeOK' /\ BindingsInTables'
    BY <1>0, <2>1, SchemaAfterDdl DEF TypeOK, BindingsInTables
  <2>3. CommandInStep' /\ ManagedInStep'
    BY <1>0, <2>1 DEF CommandInStep, ManagedInStep
  <2>4. SavedInStep' /\ NoOrphanColumns'
    BY <1>0, <2>1, SchemaAfterDdl DEF SavedInStep, NoOrphanColumns, Exists
  <2>5. TablesAfter' = TablesAfter  BY <2>1 DEF TablesAfter
  <2>6. ~drifted' => schema' = TablesAfter  BY <2>1, SchemaAfterDdl
  <2>7. TablesInStep'  BY <2>1, <2>5, <2>6 DEF TablesInStep
  <2>8. QED  BY <2>2, <2>3, <2>4, <2>7 DEF MetadataInv
<1>7. CASE ExecuteFails
  <2>1. CASE UNCHANGED <<schema, drifted>>
    BY <1>0, <1>7, <2>1, EndInv DEF ExecuteFails, TypeOK, NoOrphanColumns, Exists
  <2>2. CASE Executable /\ schema' = SchemaAfter /\ drifted' = TRUE
    <3>1. stage = "sql"  BY <1>7 DEF ExecuteFails
    <3>2. schema' \subseteq Targets /\ NoOrphanColumns'
      BY <3>1, <2>2, SchemaAfterDdl DEF NoOrphanColumns, Exists
    <3>3. QED  BY <1>7, <2>2, <3>1, <3>2, EndInv DEF ExecuteFails
  <2>3. QED  BY <1>7, <2>1, <2>2 DEF ExecuteFails
<1>8. CASE UpdateMemory
  <2>1. /\ stage = "memory" /\ tables' = TablesAfter /\ bindings' = BindingsAfter
        /\ stage' = IF cmd.op \in {"create", "add_column"} THEN "save" ELSE "managed"
        /\ loaded' = NoBindings /\ seen' = {}
        /\ UNCHANGED <<schema, saved, managed, cmd, boot, unsaved, drifted>>
    BY <1>8 DEF UpdateMemory
  <2>2. /\ TablesAfter \subseteq Targets
        /\ BindingsAfter \in Bindings
        /\ \A i \in Bound(BindingsAfter) : BindingsAfter[i] \in TablesAfter
    BY <2>1, MemoryAfter
  <2>3. TypeOK' /\ BindingsInTables'
    BY <1>0, <2>1, <2>2 DEF TypeOK, BindingsInTables, NoBindings, Bindings
  <2>4. CommandInStep'  BY <1>0, <2>1 DEF CommandInStep
  <2>5. Bound(bindings) \subseteq managed  BY <1>0, <2>1 DEF ManagedInStep
  <2>6. ManagedInStep'
    <3>1. CASE cmd.op \in {"create", "add_column"}
      <4>1. BindingsAfter = Prune(bindings, TablesAfter)  BY <3>1 DEF BindingsAfter
      <4>2. Bound(BindingsAfter) \subseteq Bound(bindings)
        BY <1>0, <2>2, <4>1, PruneProperties DEF TypeOK
      <4>3. QED  BY <2>1, <2>5, <3>1, <4>2 DEF ManagedInStep
    <3>2. CASE cmd.op = "unregister"
      <4>1. BindingsAfter = [bindings EXCEPT ![cmd.id] = NoBinding]  BY <3>2 DEF BindingsAfter
      <4>2. Bound(BindingsAfter) \subseteq Bound(bindings) \ {cmd.id}
        BY <1>0, <4>1 DEF TypeOK, Bindings, Bound
      <4>3. QED  BY <2>1, <2>5, <3>2, <4>2 DEF ManagedInStep
    <3>3. CASE cmd.op \notin {"create", "add_column", "unregister"}
      BY <2>1, <3>3 DEF ManagedInStep
    <3>4. QED  BY <3>1, <3>2, <3>3
  <2>7. SavedInStep' /\ NoOrphanColumns'
    BY <1>0, <2>1 DEF SavedInStep, NoOrphanColumns, Exists
  <2>8. TablesInStep'  BY <1>0, <2>1 DEF TablesInStep
  <2>9. QED  BY <2>3, <2>4, <2>6, <2>7, <2>8 DEF MetadataInv
<1>9. CASE UpdateManaged
  <2>1. /\ stage = "managed" /\ stage' = "save"
        /\ managed' = IF cmd.op = "unregister" THEN managed \ {cmd.id} ELSE Bound(bindings)
        /\ UNCHANGED <<schema, saved, tables, bindings, cmd, loaded, seen, boot, unsaved, drifted>>
    BY <1>9 DEF UpdateManaged
  <2>2. TypeOK' /\ BindingsInTables'  BY <1>0, <2>1 DEF TypeOK, BindingsInTables, Bound
  <2>3. CommandInStep' /\ ManagedInStep'  BY <1>0, <2>1 DEF CommandInStep, ManagedInStep
  <2>4. SavedInStep' /\ NoOrphanColumns'
    BY <1>0, <2>1 DEF SavedInStep, NoOrphanColumns, Exists
  <2>5. TablesInStep'  BY <1>0, <2>1 DEF TablesInStep
  <2>6. QED  BY <2>2, <2>3, <2>4, <2>5 DEF MetadataInv
<1>10. CASE Save \/ SaveFails
  <2>1. /\ stage = "save" /\ stage' = "idle" /\ cmd' = NoCommand
        /\ loaded' = NoBindings /\ seen' = {} /\ unsaved' \in BOOLEAN
        /\ boot' \in {"ok", "failed", boot} /\ (cmd.op = "boot" => boot' # "running")
        /\ (cmd.op # "boot" => boot' = boot)
        /\ saved' \in {saved, bindings} /\ (~unsaved' => saved' = bindings)
        /\ UNCHANGED <<schema, tables, bindings, managed, drifted>>
    BY <1>10 DEF Save, SaveFails, End, memoryVars
  <2>2. cmd'.op = "none"  BY <2>1 DEF NoCommand
  <2>3. TypeOK' /\ BindingsInTables'
    BY <1>0, <2>1 DEF TypeOK, BindingsInTables, NoBindings, Bindings
  <2>4. CommandInStep' /\ ManagedInStep'
    BY <1>0, <2>1, <2>2 DEF CommandInStep, ManagedInStep
  <2>5. SavedInStep' /\ NoOrphanColumns'
    BY <1>0, <2>1 DEF SavedInStep, NoOrphanColumns, Exists
  <2>6. TablesInStep'  BY <1>0, <2>1 DEF TablesInStep
  <2>7. QED  BY <2>3, <2>4, <2>5, <2>6 DEF MetadataInv
<1>11. CASE Restart
  <2>1. /\ tables' = {} /\ bindings' = NoBindings /\ managed' = {}
        /\ stage' = "load" /\ cmd' = Boot /\ loaded' = NoBindings /\ seen' = {}
        /\ boot' = "running" /\ unsaved' = FALSE /\ drifted' = TRUE
        /\ UNCHANGED <<schema, saved>>
    BY <1>11 DEF Restart
  <2>2. cmd'.op = "boot"  BY <2>1 DEF Boot
  <2>3. NoBindings \in Bindings /\ Bound(NoBindings) = {}
    BY DEF NoBindings, Bindings, Bound
  <2>4. TypeOK' /\ BindingsInTables' /\ ManagedInStep'
    BY <1>0, <2>1, <2>3 DEF TypeOK, BindingsInTables, ManagedInStep
  <2>5. CommandInStep'  BY <2>1, <2>2 DEF CommandInStep
  <2>6. SavedInStep' /\ TablesInStep' /\ NoOrphanColumns'
    BY <1>0, <2>1 DEF SavedInStep, TablesInStep, NoOrphanColumns, Exists
  <2>7. QED  BY <2>4, <2>5, <2>6 DEF MetadataInv
<1>12. ASSUME NEW t \in OtherTables, OtherClient(t)  PROVE MetadataInv'
  <2>1. /\ schema' = IF Exists(t) THEN schema \ OfTable(t) ELSE schema \cup OfTable(t)
        /\ drifted' = TRUE
        /\ UNCHANGED <<saved, tables, bindings, managed, stage, cmd, loaded, seen, boot, unsaved>>
    BY <1>12 DEF OtherClient, memoryVars, workVars
  <2>2. t \in Tables  BY OtherTablesAssumption
  <2>3. schema' \subseteq Targets  BY <1>0, <2>1, <2>2 DEF TypeOK, OfTable, Targets
  <2>4. NoOrphanColumns'  BY <1>0, <2>1, <2>2 DEF NoOrphanColumns, Exists, OfTable
  <2>5. TypeOK' /\ BindingsInTables'  BY <1>0, <2>1, <2>3 DEF TypeOK, BindingsInTables
  <2>6. CommandInStep' /\ ManagedInStep'
    BY <1>0, <2>1 DEF CommandInStep, ManagedInStep
  <2>7. SavedInStep' /\ TablesInStep'  BY <1>0, <2>1 DEF SavedInStep, TablesInStep
  <2>8. QED  BY <2>4, <2>5, <2>6, <2>7 DEF MetadataInv
<1>13. CASE UNCHANGED vars
  <2>1. UNCHANGED <<schema, saved, tables, bindings, managed, stage, cmd, loaded, seen, boot,
                    unsaved, drifted>>
    BY <1>13 DEF vars, memoryVars, workVars
  <2>2. TypeOK' /\ BindingsInTables'  BY <1>0, <2>1 DEF TypeOK, BindingsInTables
  <2>3. CommandInStep' /\ ManagedInStep'  BY <1>0, <2>1 DEF CommandInStep, ManagedInStep
  <2>4. SavedInStep' /\ NoOrphanColumns'
    BY <1>0, <2>1 DEF SavedInStep, NoOrphanColumns, Exists
  <2>5. TablesAfter' = TablesAfter  BY <2>1 DEF TablesAfter
  <2>6. TablesInStep'  BY <1>0, <2>1, <2>5 DEF TablesInStep
  <2>7. QED  BY <2>2, <2>3, <2>4, <2>6 DEF MetadataInv
<1>14. QED
  BY <1>1, <1>2, <1>3, <1>4, <1>5, <1>6, <1>7, <1>8, <1>9, <1>10, <1>11, <1>12, <1>13
  DEF Next, Works, Fails

\* The inductive invariant of the worker: what holds between its commands, and
\* what it has to keep in the middle of one so that it does.
THEOREM MetadataInvAlways == Spec => []MetadataInv
BY InitInv, StepInv, PTL DEF Spec

\* Type correctness of the worker's state.
THEOREM MetadataTypes == Spec => []TypeOK
<1>1. MetadataInv => TypeOK  BY DEF MetadataInv
<1>2. QED  BY <1>1, MetadataInvAlways, PTL

\* Whatever commands, failures, restarts and other clients do, every binding
\* points to a table or column of the metadata it is part of.
THEOREM BindingsAlwaysInTables == Spec => []BindingsInTables
<1>1. MetadataInv => BindingsInTables  BY DEF MetadataInv
<1>2. QED  BY <1>1, MetadataInvAlways, PTL

\* Between commands list_managed_ids misses no bound id.
THEOREM BoundAlwaysManaged == Spec => []BoundIsManaged
<1>1. MetadataInv => BoundIsManaged  BY DEF MetadataInv, ManagedInStep, BoundIsManaged
<1>2. QED  BY <1>1, MetadataInvAlways, PTL

\* Between commands, after a bootstrap that worked and without a failed save,
\* a kill of the process loses no binding.
THEOREM KillLosesNothing == Spec => []NothingToLose
<1>1. MetadataInv => NothingToLose
  BY DEF MetadataInv, SavedInStep, NothingToLose, CommandInStep, TypeOK
<1>2. QED  BY <1>1, MetadataInvAlways, PTL

\* The metadata's tables are those of the database but for the named causes.
THEOREM TablesFollowSchema == Spec => []TablesAreSchema
<1>1. MetadataInv => TablesAreSchema  BY DEF MetadataInv, TablesInStep, TablesAreSchema
<1>2. QED  BY <1>1, MetadataInvAlways, PTL

=============================================================================
