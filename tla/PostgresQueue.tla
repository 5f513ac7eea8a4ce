----------------------------- MODULE PostgresQueue -----------------------------
(***************************************************************************)
(* The command queue of PostgresDatabase (databases/postgresdb: the actor  *)
(* loop and the public calls of postgresimpl.rs, the position and speed    *)
(* properties, databasemanager.rs).  Real-time code submits without        *)
(* waiting: upserts of a property and rows of a time series.  Other        *)
(* callers wait for room and for the answer.  One worker task takes the    *)
(* commands from the queue and sends their SQL, each of which may fail.    *)
(*                                                                         *)
(* tokio's channel has a permit for each place.  Those who wait for one    *)
(* get it in the order they came; one who got it still has to be polled    *)
(* before the command is in the queue.  What the commands on tables and    *)
(* bindings do is in PostgresMetadata; here they are calls with an answer. *)
(***************************************************************************)
EXTENDS Integers, Sequences, FiniteSets, SequencesExt

CONSTANTS
  QueueCap,   \* capacity of the channel, 256 in the code
  Callers,    \* tasks that make awaiting calls
  MaxRows,    \* bound on the rows submitted
  MaxSets,    \* bound on the upserts accepted
  None

ASSUME PostgresQueueAssumption ==
  /\ QueueCap \in Nat \ {0} /\ MaxRows \in Nat /\ MaxSets \in Nat
  /\ IsFiniteSet(Callers) /\ None \notin Callers

VARIABLES
  queue,     \* the commands in the channel
  spawned,   \* commands whose spawned task was not polled yet
  waiting,   \* commands that wait for a permit, in order
  granted,   \* commands that have one and are not yet in the queue
  worker,    \* "boot", "recv", "busy", "ended"
  current,   \* the command it executes
  handles,   \* who holds the PostgresDatabase: "client", "manager"
  caller,    \* state of each caller: "idle", "called", "answered"
  read,      \* the value a query answered, None for an error or another call
  asked,     \* history: the upserts accepted before the call
  rows,      \* history: rows submitted so far, numbered from 1
  delayed,   \* history: those that found the queue full
  sets,      \* history: upserts accepted so far
  failed,    \* history: upserts whose SQL reported an error
  tried,     \* history: rows whose command was executed
  tables,    \* in the database: the property's table is there
  stored,    \* in the database: the rows of the time series, in order
  value      \* in the database: the property's value, 0 for no row

channelVars == <<queue, spawned, waiting, granted>>
workerVars == <<worker, current>>
callerVars == <<caller, read, asked>>
historyVars == <<rows, delayed, sets, failed, tried>>
databaseVars == <<tables, stored, value>>
vars == <<channelVars, workerVars, handles, callerVars, historyVars, databaseVars>>

Rows == 1 .. MaxRows
Sets == 1 .. MaxSets
Ops == {"set", "row", "ensure", "insert", "query"}
Command(op, arg, from) == [op |-> op, arg |-> arg, from |-> from]
Commands == [op : Ops, arg : 0 .. (MaxRows + MaxSets), from : Callers \cup {None}]
NoCommand == Command("none", 0, None)

TypeOK ==
  /\ queue \in Seq(Commands) /\ waiting \in Seq(Commands)
  /\ spawned \subseteq Commands /\ granted \subseteq Commands
  /\ Len(queue) + Cardinality(granted) <= QueueCap
  /\ waiting # <<>> => Len(queue) + Cardinality(granted) = QueueCap
  /\ worker \in {"boot", "recv", "busy", "ended"}
  /\ current \in Commands \cup {NoCommand} /\ (worker = "busy") = (current # NoCommand)
  /\ handles \subseteq {"client", "manager"}
  /\ caller \in [Callers -> {"idle", "called", "answered"}]
  /\ read \in [Callers -> Sets \cup {0, None}] /\ asked \in [Callers -> Sets \cup {0}]
  /\ rows \in 0 .. MaxRows /\ sets \in 0 .. MaxSets
  /\ delayed \subseteq Rows /\ tried \subseteq Rows /\ failed \subseteq Sets
  /\ tables \in BOOLEAN /\ stored \in Seq(Rows) /\ value \in Sets \cup {0}

Init ==
  /\ queue = <<>> /\ spawned = {} /\ waiting = <<>> /\ granted = {}
  /\ worker = "boot" /\ current = NoCommand
  /\ handles = {"client"}
  /\ caller = [c \in Callers |-> "idle"]
  /\ read = [c \in Callers |-> None] /\ asked = [c \in Callers |-> 0]
  /\ rows = 0 /\ delayed = {} /\ sets = 0 /\ failed = {} /\ tried = {}
  /\ tables = FALSE /\ stored = <<>> /\ value = 0

-----------------------------------------------------------------------------
(* The channel. *)

Room == Len(queue) + Cardinality(granted) < QueueCap

\* Mutant: room is taken for granted.
SendWithoutRoom(cmd) ==
  /\ queue' = Append(queue, cmd)
  /\ UNCHANGED <<spawned, waiting, granted>>

\* try_send, if it succeeds.
TrySend(cmd) ==
  /\ Room
  /\ queue' = Append(queue, cmd)
  /\ UNCHANGED <<spawned, waiting, granted>>

\* send, first polled.
Send(cmd) ==
  /\ granted' = granted
  /\ IF Room THEN queue' = Append(queue, cmd) /\ waiting' = waiting
     ELSE waiting' = Append(waiting, cmd) /\ queue' = queue

\* send, polled with its permit.
Granted ==
  /\ \E cmd \in granted :
       /\ granted' = granted \ {cmd}
       /\ queue' = Append(queue, cmd)
  /\ UNCHANGED <<spawned, waiting, workerVars, handles, callerVars, historyVars, databaseVars>>

-----------------------------------------------------------------------------
(* Submissions of real-time code, which holds the client's handle. *)

RtElsewhere == <<workerVars, handles, callerVars, databaseVars>>

\* Mutant: with the queue full the upsert is sent from a task.
SetBestEffort ==
  LET cmd == Command("set", sets + 1, None) IN
  /\ "client" \in handles /\ sets < MaxSets
  /\ \/ TrySend(cmd)
     \/ ~Room /\ spawned' = spawned \cup {cmd} /\ UNCHANGED <<queue, waiting, granted>>
  /\ sets' = sets + 1
  /\ UNCHANGED <<rows, delayed, failed, tried, RtElsewhere>>

\* Over try_submit_execute; try_set_speed is the same.  With the queue full the
\* value is refused with QueueFull, and nothing changes.
try_set_position ==
  /\ "client" \in handles /\ sets < MaxSets
  /\ TrySend(Command("set", sets + 1, None))
  /\ sets' = sets + 1
  /\ UNCHANGED <<rows, delayed, failed, tried, RtElsewhere>>

\* QueueFull drops the row.
try_submit_insert_row ==
  /\ "client" \in handles /\ rows < MaxRows
  /\ TrySend(Command("row", rows + 1, None))
  /\ rows' = rows + 1
  /\ UNCHANGED <<delayed, sets, failed, tried, RtElsewhere>>

\* Mutant: always from a task.
AlwaysSpawn ==
  /\ "client" \in handles /\ rows < MaxRows
  /\ spawned' = spawned \cup {Command("row", rows + 1, None)}
  /\ delayed' = IF Room THEN delayed ELSE delayed \cup {rows + 1}
  /\ rows' = rows + 1
  /\ UNCHANGED <<queue, waiting, granted, sets, failed, tried, RtElsewhere>>

\* Mutant: the command that did not fit is not sent again.
ForgetsTheRow ==
  /\ "client" \in handles /\ rows < MaxRows
  /\ \/ TrySend(Command("row", rows + 1, None)) /\ UNCHANGED delayed
     \/ ~Room /\ delayed' = delayed \cup {rows + 1} /\ UNCHANGED channelVars
  /\ rows' = rows + 1
  /\ UNCHANGED <<sets, failed, tried, RtElsewhere>>

submit_insert_row_best_effort ==
  LET cmd == Command("row", rows + 1, None) IN
  /\ "client" \in handles /\ rows < MaxRows
  /\ \/ TrySend(cmd) /\ UNCHANGED delayed
     \/ /\ ~Room
        /\ spawned' = spawned \cup {cmd} /\ delayed' = delayed \cup {rows + 1}
        /\ UNCHANGED <<queue, waiting, granted>>
  /\ rows' = rows + 1
  /\ UNCHANGED <<sets, failed, tried, RtElsewhere>>

\* The task that submit_insert_row_best_effort spawned.
SpawnedSend ==
  /\ \E cmd \in spawned : spawned' = spawned \ {cmd} /\ Send(cmd)
  /\ UNCHANGED <<historyVars, RtElsewhere>>

-----------------------------------------------------------------------------
(* Calls that wait for the answer.  They borrow the handle. *)

Await(c, cmd) ==
  /\ "client" \in handles /\ caller[c] = "idle"
  /\ Send(cmd)
  /\ caller' = [caller EXCEPT ![c] = "called"]
  /\ asked' = [asked EXCEPT ![c] = sets]
  /\ UNCHANGED <<spawned, read, sets, failed, tried, workerVars, handles, databaseVars>>

\* ensure_speed_schema is the same.
ensure_position_schema(c) == Await(c, Command("ensure", 0, c)) /\ UNCHANGED <<rows, delayed>>

\* So are get_speed, get_position_with_ts and get_speed_with_ts.
get_position(c) == Await(c, Command("query", 0, c)) /\ UNCHANGED <<rows, delayed>>

insert_row(c) ==
  /\ rows < MaxRows
  /\ Await(c, Command("insert", rows + 1, c))
  /\ rows' = rows + 1
  /\ delayed' = IF Room THEN delayed ELSE delayed \cup {rows + 1}

Return(c) ==
  /\ caller[c] = "answered"
  /\ caller' = [caller EXCEPT ![c] = "idle"]
  /\ read' = [read EXCEPT ![c] = None] /\ asked' = [asked EXCEPT ![c] = 0]
  /\ UNCHANGED <<channelVars, workerVars, handles, historyVars, databaseVars>>

-----------------------------------------------------------------------------
(* The worker. *)

\* The bootstrap is over, be it with an error.
Boot ==
  /\ worker = "boot"
  /\ worker' = "recv"
  /\ UNCHANGED <<channelVars, current, handles, callerVars, historyVars, databaseVars>>

\* recv frees a permit, which goes to the first who waits.
Receive ==
  /\ worker = "recv" /\ queue # <<>>
  /\ worker' = "busy" /\ current' = Head(queue) /\ queue' = Tail(queue)
  /\ waiting' = IF waiting = <<>> THEN waiting ELSE Tail(waiting)
  /\ granted' = IF waiting = <<>> THEN granted ELSE granted \cup {Head(waiting)}
  /\ UNCHANGED <<spawned, handles, callerVars, historyVars, databaseVars>>

\* Every sender was dropped, those of spawned tasks too, and the queue is empty.
Ends ==
  /\ worker = "recv" /\ queue = <<>>
  /\ handles = {} /\ spawned = {} /\ waiting = <<>> /\ granted = {}
  /\ worker' = "ended"
  /\ UNCHANGED <<channelVars, current, handles, callerVars, historyVars, databaseVars>>

\* Mutant: no answer when the SQL fails.
FinishSilently(ok) ==
  LET mine(c) == c = current.from /\ ok IN
  /\ worker = "busy"
  /\ caller' = [c \in Callers |-> IF mine(c) THEN "answered" ELSE caller[c]]
  /\ read' = [c \in Callers |-> IF mine(c) /\ current.op = "query" THEN value ELSE read[c]]
  /\ worker' = "recv" /\ current' = NoCommand
  /\ UNCHANGED <<channelVars, handles, asked, rows, delayed, sets>>

\* The command is done; the answer goes to the caller if there is one, an error of
\* the others is logged.
Finish(ok) ==
  LET mine(c) == c = current.from IN
  /\ worker = "busy"
  /\ caller' = [c \in Callers |-> IF mine(c) THEN "answered" ELSE caller[c]]
  /\ read' = [c \in Callers |-> IF mine(c) /\ ok /\ current.op = "query" THEN value ELSE read[c]]
  /\ worker' = "recv" /\ current' = NoCommand
  /\ UNCHANGED <<channelVars, handles, asked, rows, delayed, sets>>

\* The outcome of SQL that changes the database: whether it had its effect and
\* whether it is reported as done.  An error may hide the effect, as when the
\* connection is lost on the way back.
Outcomes == {o \in [effect : BOOLEAN, ok : BOOLEAN] : o.ok => o.effect}

\* The upsert fails on a missing table.
ExecuteNoAck ==
  /\ current.op = "set"
  /\ \E o \in Outcomes :
       /\ o.effect => tables
       /\ value' = IF o.effect THEN current.arg ELSE value
       /\ failed' = IF o.ok THEN failed ELSE failed \cup {current.arg}
       /\ Finish(o.ok)
  /\ UNCHANGED <<tried, tables, stored>>

Insert ==
  /\ \E o \in Outcomes :
       /\ stored' = IF o.effect THEN Append(stored, current.arg) ELSE stored
       /\ Finish(o.ok)
  /\ tried' = tried \cup {current.arg}
  /\ UNCHANGED <<failed, tables, value>>

InsertRowNoAck == current.op = "row" /\ Insert
InsertRow == current.op = "insert" /\ Insert

Query ==
  /\ current.op = "query"
  /\ \E ok \in BOOLEAN : (ok => tables) /\ Finish(ok)
  /\ UNCHANGED <<tried, failed, databaseVars>>

\* It may also be the save of the metadata that fails.
CreateTable ==
  /\ current.op = "ensure"
  /\ \E o \in Outcomes : tables' = (tables \/ o.effect) /\ Finish(o.ok)
  /\ UNCHANGED <<tried, failed, stored, value>>

-----------------------------------------------------------------------------
(* Who holds the database. *)

HandleElsewhere == <<channelVars, workerVars, callerVars, historyVars, databaseVars>>

\* add_db; a second one of the same name is refused with AlreadyExists.
add_db ==
  /\ "client" \in handles /\ "manager" \notin handles
  /\ handles' = handles \cup {"manager"}
  /\ UNCHANGED HandleElsewhere

remove_db ==
  /\ "manager" \in handles
  /\ handles' = handles \ {"manager"}
  /\ UNCHANGED HandleElsewhere

\* The client lets go of its Arc, not while a call borrows it.
DropClient ==
  /\ "client" \in handles /\ \A c \in Callers : caller[c] = "idle"
  /\ handles' = handles \ {"client"}
  /\ UNCHANGED HandleElsewhere

-----------------------------------------------------------------------------
Worker ==
  \/ Boot \/ Receive \/ Ends
  \/ ExecuteNoAck \/ InsertRowNoAck \/ InsertRow \/ Query \/ CreateTable

Next ==
  \/ try_set_position \/ try_submit_insert_row \/ submit_insert_row_best_effort
  \/ SpawnedSend \/ Granted
  \/ \E c \in Callers : ensure_position_schema(c) \/ get_position(c) \/ insert_row(c) \/ Return(c)
  \/ Worker
  \/ add_db \/ remove_db \/ DropClient

\* The runtime polls every task that can go on, and the database answers or the
\* connection fails.  Nobody has to call, to submit or to let go.
Spec ==
  /\ Init /\ [][Next]_vars
  /\ WF_vars(Worker) /\ WF_vars(SpawnedSend) /\ WF_vars(Granted)
  /\ \A c \in Callers : WF_vars(Return(c))

-----------------------------------------------------------------------------
(* Properties. *)

IsRow(cmd) == cmd.op \in {"row", "insert"}
RowsIn(S) == {cmd.arg : cmd \in {x \in S : IsRow(x)}}

\* Where a command can be before it is done.
UnderWay == Range(queue) \cup spawned \cup Range(waiting) \cup granted \cup {current}

\* submit_insert_row_best_effort spreads rows over the queue, tasks and the permits
\* they wait for.  Each row that was not refused is on its way or was tried, not
\* both, and no row is stored twice.
RowsAccountedFor ==
  /\ 1 .. rows = RowsIn(UnderWay) \cup tried
  /\ RowsIn(UnderWay) \cap tried = {}
  /\ IsInjective(stored) /\ Range(stored) \subseteq tried

\* The order of the time series: a row is stored before an earlier one only if that
\* found the queue full.
OnlyDelayedOvertaken ==
  \A i, j \in DOMAIN stored : i < j /\ stored[j] < stored[i] => stored[j] \in delayed

\* get_position and get_speed after try_set_position: the answer is the last value accepted
\* before the call, or a later one, but for upserts whose SQL failed.
ReadsOwnWrites ==
  \A c \in Callers : read[c] # None => (read[c] + 1) .. asked[c] \subseteq failed

\* Every awaiting call returns, though it waits for room, for those before it and for
\* the database.
CallsAnswered == \A c \in Callers : (caller[c] # "idle") ~> (caller[c] = "idle")

\* "eventually store": every row that was not refused is tried, also after the last
\* handle is gone, and then the worker ends.
RowsAreTried ==
  /\ \A r \in Rows : (rows >= r) ~> (r \in tried)
  /\ (handles = {}) ~> (worker = "ended")

-----------------------------------------------------------------------------
(* The inductive invariant. *)

\* What is under way was submitted, and who awaits its answer still does.
Origins ==
  \A x \in UnderWay :
    /\ x.op = "set" => x.arg \in 1 .. sets
    /\ IsRow(x) => x.arg \in 1 .. rows
    /\ x.op \in {"ensure", "query", "insert"} <=> x.from # None
    /\ x.from # None => caller[x.from] = "called"

\* No caller has two commands under way, and no row is in two commands.
NoClash ==
  \A x, y \in UnderWay :
    \/ x.from # None /\ x.from = y.from
    \/ IsRow(x) /\ IsRow(y) /\ x.arg = y.arg
    => x = y

\* A command is in one place only.
OnePlace ==
  /\ IsInjective(queue) /\ IsInjective(waiting)
  /\ Range(queue) \cap (spawned \cup Range(waiting) \cup granted) = {}
  /\ spawned \cap (Range(waiting) \cup granted) = {}
  /\ Range(waiting) \cap granted = {}
  /\ current \notin Range(queue) \cup spawned \cup Range(waiting) \cup granted

\* Upserts are only ever in the queue; a row outside it found it full.
WhoWaits ==
  \A x \in spawned \cup Range(waiting) \cup granted :
    x.op # "set" /\ (IsRow(x) => x.arg \in delayed)

\* Row n may come after row m.
MayFollow(m, n) == n < m => n \in delayed

\* Rows in the table, the one that is executed and those in the queue.
RowsInOrder ==
  /\ \A i, j \in DOMAIN queue :
       i < j /\ IsRow(queue[i]) /\ IsRow(queue[j]) => MayFollow(queue[i].arg, queue[j].arg)
  /\ \A j \in DOMAIN queue : IsRow(queue[j]) =>
       /\ IsRow(current) => MayFollow(current.arg, queue[j].arg)
       /\ \A i \in DOMAIN stored : MayFollow(stored[i], queue[j].arg)
  /\ IsRow(current) => \A i \in DOMAIN stored : MayFollow(stored[i], current.arg)
  /\ OnlyDelayedOvertaken

\* Upserts reach the table in the order they were accepted, and none is forgotten.
SetsInOrder ==
  /\ \A i, j \in DOMAIN queue :
       i < j /\ queue[i].op = "set" /\ queue[j].op = "set" => queue[i].arg < queue[j].arg
  /\ \A j \in DOMAIN queue : queue[j].op = "set" =>
       value < queue[j].arg /\ (current.op = "set" => current.arg < queue[j].arg)
  /\ current.op = "set" => value < current.arg
  /\ value <= sets
  /\ \A n \in 1 .. sets :
       \/ n <= value \/ n \in failed
       \/ current.op = "set" /\ current.arg = n
       \/ \E i \in DOMAIN queue : queue[i].op = "set" /\ queue[i].arg = n

\* Upserts behind a query are later than those its caller asked for.
QueriesInOrder ==
  /\ \A c \in Callers : asked[c] <= sets /\ (caller[c] # "answered" => read[c] = None)
  /\ \A j \in DOMAIN queue : queue[j].op = "set" =>
       /\ \A i \in 1 .. j - 1 : queue[i].op = "query" => asked[queue[i].from] < queue[j].arg
       /\ current.op = "query" => asked[current.from] < queue[j].arg
  /\ ReadsOwnWrites

PlacesInv == TypeOK /\ IsFiniteSet(granted) /\ Origins /\ NoClash /\ OnePlace
QueueInv ==
  /\ PlacesInv /\ RowsAccountedFor /\ WhoWaits /\ RowsInOrder
  /\ SetsInOrder /\ QueriesInOrder

=============================================================================
