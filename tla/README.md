# Twinning: TLA+ models, checks and proofs

Twinning is a digital-twin platform in Rust: gateways to machines (MQTT), an
engine that handles their events, databases that keep their state, and a host
for real-time and ordinary services. This directory models the parts of it that
are concurrent or that survive failures, checks them with TLC on small
instances, and proves the main safety results with TLAPS for every instance.
Paths below are relative to the repository's root.

- `tlc -config X.cfg M` repeats a run, `tlapm M.tla` a proof.
- `PROJECT.json` lists components, runs, mutants, the source lines behind every
  definition, findings, hazards and theorems.
- A definition marked "Mutant" is a plausible bug in the definition below it. It
  is used by nothing: it shows that a property can fail.

## 1. Inventory

| Part | State | Operations | Talks to | What is hard |
|---|---|---|---|---|
| Event queue `engine/fischertechnikdtengine/src/eventsystem/eventqueue.rs` | ring, mutex, two `Notify` | `push`, `pop`, `try_push`, `try_pop` | producers, the engine | the await happens outside the mutex; wake-ups are stored at most once; indices wrap |
| Workflow engine, synchronizer, `bin/mainold.rs` | positions, budget | `tick`, mappings, Ctrl+C | event queue, database | events refused while the lock is busy; a cancelled iteration; failed writes |
| Old MQTT gateway `gateway_old/mqtt/src` | task in `select!`, property model, event and command channels | `start`, `stop`, `recv`, `publish`, decode, encode | rumqttc client, engine | bounded channels in a ring of waiting tasks; lost connections; cancellation |
| PostgreSQL command queue `databases/postgresdb/src/postgresimpl.rs`, `models/properties`, `databasemanager.rs` | bounded channel, spawned senders, handles | `try_set_*`, `get_*`, `ensure_*_schema`, `try_submit_insert_row`, `submit_insert_row_best_effort`, `insert_row`, `add_db`, `remove_db` | real-time code, PostgreSQL | a full queue; rows that overtake each other; reads behind unacknowledged writes; the end of the worker |
| Metadata worker, same file | tables, bindings, managed ids, saved row | bootstrap, DDL, bind, unbind, refresh, inserts, queries | PostgreSQL, other clients | schema, memory and saved row change one after the other; each may fail; kills |
| Connection pool `databases/abstractdatabase/src/client` | permits, idle stack, sessions | `checkout`, `release`, drop, prewarm | the database server | permits on every error path; return from `Drop` in a spawned task |
| Datapoint model `databases/abstractdatabase/src/model` | two maps, id and name | `upsert_meta`, `apply_schema`, `set_value`, `validate` | - | aliases left by renaming; type rules |
| Result handler `databases/abstractdatabase/src/controller` | none | conversion to JSON and text | - | - |
| Real-time services `services/rtservices/src` | overrun counters, speed (atomic), position (three atomics), monitor thread | `tick`, `update_stats`, `start_monitor`, `snapshot`, `stop` | service manager, REST API | torn reads, read-modify-write of a shared property, a second monitor |
| Database writer `services/nonrtservices/src/services/db_writer.rs` | channel, batch | `start`, `stop`, `submit`, `try_submit` | service manager | shutdown against queued work; overlap of old and new worker |
| REST API `services/nonrtservices/src/rest_api.rs` | a server task per start, shutdown signal, services of the `ApiState` | `start`, `stop`, start/stop/call of services over HTTP, speed, events | all services | `start` returns before the port is bound; old and new server overlap; a service replaced while it serves |
| Service management `services/servicemanagement/src` | registry, tree, real-time entries, dispatcher thread | `register`, `start_all`, `stop_all`, `tick_rt`, `call`, `try_call`, `create_container`, `remove_child`, sample engine | all services | a copy of the registry goes stale; locks taken in a row; blocking calls; a path that finds another node |
| New gateway framework `gateway/` | registry, event bus | `configure_*`, `execute_method`, `run`, `shutdown` | transports | shutdown of transports |
| Placeholders, command-line programs | - | print | - | - |

What makes each part correct:

- queue: a bounded FIFO for its callers; nobody sleeps while it could go on;
- engine: every event is handled once and in order, or was refused; the
  database catches up;
- gateway: events and commands neither lost, doubled nor reordered; the task
  goes on after an outage and stops when told to;
- metadata worker: bindings point to what exists, what was acknowledged survives
  a kill, the metadata describes the database's schema;
- PostgreSQL queue: rows are neither lost nor doubled and keep their order but
  where the queue was full; reads see earlier writes; every call is answered;
- services: a server belongs to a running service or ends, nobody is stuck in
  the locks, a placed node is found where it was placed;
- pool: permits and connections are conserved, sessions do not see each other;
- database writer: what was accepted is written once and in order, a stopped
  worker ends, and no caller waits for ever;
- manager, guard, speed, position: an overrunning service stays disabled, old
  speeds do not come back for ever, the synced position follows the source.

## 2. Modules

| Module | Models | Used by |
|---|---|---|
| `BoundedFifo` | what the event queue promises its callers | `EventQueue` (refinement) |
| `EventQueue` | `eventqueue.rs`: ring, mutex and `Notify` step by step | `EngineLoop`, `MCEventQueue` |
| `EventQueueProofs` | proofs about `EventQueue` | - |
| `EngineLoop` | `mainold.rs`, `workflowengine.rs`, `synchronizer.rs`, `positionmapping.rs` | composes `EventQueue` |
| `EngineLoopProofs` | proofs about `EngineLoop` | - |
| `MqttDecode` | decoding, encoding, property models as operators | `MqttGateway` |
| `MqttGateway` | gateway task, client, channels, sample engine | `MCMqttGateway` |
| `MqttGatewayProofs` | proofs about `MqttGateway` | - |
| `PostgresMetadata` | the metadata worker | `MCPostgresMetadata` |
| `PostgresMetadataProofs` | proofs about `PostgresMetadata` | - |
| `PostgresQueue` | the command queue, its senders, the worker's loop, rows and properties | - |
| `PostgresQueueProofs` | proofs about `PostgresQueue` | - |
| `ConnectorPool` | pool, sessions, prewarm, spawned returns | - |
| `ConnectorPoolProofs` | proofs about `ConnectorPool` | - |
| `DbWriter` | `db_writer.rs`: service, cloned senders, a worker per start | - |
| `DbWriterProofs` | proofs about `DbWriter` | - |
| `RtHost` | `sample_engine.rs`, `tick_rt`, `rt_guard.rs`, `properties.rs`, `service_a.rs`, `position_sync.rs`, REST writes | `MCRtHost`, `ServiceHostProofs` |
| `ServiceTree` | `hierarchy.rs` as operators on trees | `ServiceHost` |
| `ServiceHost` | `manager.rs`, `registry.rs`, `dispatcher.rs`, the server tasks and handlers of `rest_api.rs` | `MCServiceHost` |
| `ServiceHostProofs` | proofs about `ServiceHost`, `ServiceTree` and `RtHost` | - |

### EventQueue
The ring is `buf`, `head`, `tail`, `len`; the tokio mutex is `lock`; each
`Notify` has a FIFO of `waiters` and at most one stored `permit`. A call is a
program counter per task: take the mutex (or fail with `Busy`), push or pop or
find the ring full or empty, `notify_one` with the mutex held, unlock; the
awaiting calls unlock first and then await, in a step of its own, because that
gap is where a wake-up could be lost. `BoundedFifo` knows only the queue and
the calls that are pending; `Contents`, the `len` slots from `head` on, maps one
to the other.

### EngineLoop
The queue of `EventQueue` with two callers: the producer task, which moves the
position and calls `try_push`, and the engine, which synchronises the position
to the database, then handles at most `TickBudget` events, then sleeps. The
engine can be cancelled only where the code awaits. The database is external; a
write may fail, at most `MaxFaults` times.

### MqttDecode and MqttGateway
A message carries a topic, an optional structured part and readings; the text
formats are what they decode to. The gateway is one task: in `select` it takes a
command, polls the client or sees the token; handling a message or a command it
does only that, awaiting on full channels. The rumqttc client is a request
channel (`RequestCap`, 50 in the code) emptied only while it is polled; the
broker (external) accepts, sends back commands that match the subscription, and
may lose the connection. The clean session forgets the subscription, as the
code never subscribes again. The engine is `bin/sampleengine.rs`; it may also
call `stop`, cancel or drop the gateway between two events.

`ModelsAgree` relates the two property models by the events between them
(`OnTheWay`): each property of the gateway's has the value of the last of these
events that sets it (`Updates`), or else the engine's. `OneCommandPerAlarm` counts the
readings above the limit that the engine received (`Alarms`) against the commands it
issued and the one in hand.

### PostgresMetadata
The schema is a set of tables and of table-column pairs; a binding maps an id to
one of them. The worker serves one command at a time, and every command is
a sequence of stages with a kill or another client between any two: run the DDL,
or read the catalogue; change the metadata; change the managed ids; save; reply.
`boot`, `unsaved` and `drifted` record what failed, so that the properties can
say what holds otherwise. Names that `validate_ident` refuses, and the table
`dt_metadata` itself, are rejected before anything changes and are not among
`Tables`.

### PostgresQueue
The channel of capacity 256 (`QueueCap`) has a permit for each place. A sender
that finds none waits in `waiting`; the worker's `recv` gives its permit to the
first of them (`granted`), and only when that task is polled is the command in
the queue. A row that `submit_insert_row_best_effort` could not place belongs
to a spawned task (`spawned`), which has to be polled before it even waits:
these three stages are where rows can change places. Awaiting calls go through
the same stages and then wait for the reply. SQL may fail, with or without its
effect. The worker goes on until the last sender is gone, those of spawned
tasks included, so that `remove_db` and the drop of the client do not cut off
what is queued. What the commands on tables and bindings do is in
`PostgresMetadata`; here they are calls with an answer (`ensure_position_schema`
stands for them). `WorkerClosed` is returned only when the worker died of a
panic, which no command causes, so it is not an outcome here.

### ConnectorPool
`permits` is the semaphore, `idle` the stack; `pc` follows each client through
checkout, use and release; a connection that is being returned is in `disposal`,
by the session itself or, after a drop, by the spawned task. Failures, timeouts
and dropped futures are actions at every await. `broken`, `dirty` and `expired`
are facts about a connection. `MaxConns` bounds how many connections are ever
made.

### DbWriter
Every start makes a channel and a worker of its own, and `stop` does not wait
for the old worker; `chan`, `batch`, `worker` and `signalled` are therefore per
start. The owner of the service calls `start`, `stop`, `submit`, `try_submit`
and may drop it; `submit` borrows the service while it waits, so the owner does
nothing else meanwhile. Clients hold a cloned sender, which outlives the stop.
The shutdown branch of the worker's `select!` may win while operations are
queued, and they go with the receiver: `OpsAccountedFor` says that exactly those
are lost. `accepted` and `written` are histories. `process_batch` is a
placeholder in the code that logs the batch; here it appends to `written`.

### RtHost
One thread runs the engine loop: it ticks `ServiceA` and `PositionSync` unless they
are disabled, drains the event channel, and raises the speed in two steps, a load
and a store. REST handlers and the gateway's thread act between any two accesses
to shared memory. A speed is represented by the client write it goes back to,
since the loop raises the number without end; `ServiceA`'s call counter is
left out, and which ticks send an event (every 50th) left open. Positions keep
their fixed-point form: saturation below the offset, truncation, and either
outcome of a comparison at the threshold itself, where rounding decides. An
overrun may happen in any tick. `start_all` and `stop_all` change nothing here:
neither service has an `init` or `shutdown`, and `run_for` does not look at
`running`.

### ServiceTree and ServiceHost
A tree maps node numbers to name, priority and ordered children; paths are
sequences of parts. `find_by_path` passes over a part that names the node it is
at, `register` takes the last part off the path and adds the node below the
rest, after the children of the same priority. A node that is removed takes what is
below it along. `placed` remembers the path each node was placed at, for
`PlacedIsFound`.

The host has an owner (the `ServiceManager`), a registrar (another task with the
shared registry), the dispatcher thread with its callers, and the REST servers
with their handlers. The locks are queues of readers and writers, as tokio's
`RwLock` is first come first served: a waiting writer holds up the readers
behind it, and the dispatcher waits for a service's lock with the map's lock in
its hand. `start_all` and `stop_all` copy the registry and then take one service
after the other, so a service can be replaced or removed in between; the object
lives on while the copy refers to it, and is dropped with its shutdown signal
after that. Every start of the REST service spawns a task that binds, serves,
drains and ends, or panics because the port is taken. Service objects and server
tasks are numbered, and a number is used again once nothing refers to it, so the
runs have no bound on steps. The services' own work is left out (the database
writer's is `DbWriter`).

`uses` says which parts a program uses: in the repository no program uses all of
them at once, and the parts that are not used together would only multiply
states.

## 3. Runs

| Run | Instance | Shows |
|---|---|---|
| `queue` | two slots, producer, awaiting consumer, try consumer | FIFO refinement, ring window, no lost wake-up, no sleeper forgotten |
| `queue_two_poppers` (violation) | two awaiting consumers | finding 1 |
| `engine_loop` | four moves, queue of two, budget argument 0, one failed write | events accounted for through Ctrl+C, queued events handled, database catches up |
| `mqtt_gateway` | channels of one, three messages, one outage | order and count of events and commands, the two property models, delivery and stop unless jammed |
| `mqtt_outage` (violation) | room for every event, one outage | finding 2 |
| `postgres_metadata` | two ids, one table with two columns, no bound on steps | bindings, managed ids, saved row and schema agree |
| `postgres_bootstrap` (violation) | the same without another client | finding 3 |
| `connector_pool` | two clients, two permits, prewarm of one | permits, owners, state of sessions, progress |
| `db_writer` | one client, channel of one, batches of two, two starts, four operations | accepted operations accounted for, batches, one serving worker, stopped workers end, senders released |
| `rt_host` | two client writes, channel of two, limits 0 and 2, one store of three coordinates | disabled services without effect, the speed settles, the position catches up |
| `service_host` | four programs: a REST service that is replaced while it serves, one whose requests start and stop a service, three callers on the dispatcher, a hierarchy of three nodes | servers follow the status of their service, stopped servers end, calls return, placed nodes are found |
| `postgres_queue` | queue of two, one caller, two rows, two upserts | rows accounted for, their order, reads after writes, calls answered, rows tried and the worker's end |

Bounds. The ring of two wraps, is full, empty and between. Four moves overfill
the queue of two and leave one event for after it was drained. Channels of
capacity one are full after one item, which is what jams; three messages fill
both channels and the request channel. One table with two columns has every
kind of binding target and every difference between requested and real columns;
this model has no bound on the number of commands, failures, kills or changes by
others, and the ids are symmetric. Two clients and two permits with a prewarm
task reach contention for permits and for the idle stack. Two starts are an old
worker next to a new one; four operations fill the channel and a batch and leave
one over for the second start. Two client writes are two old speeds that
`ServiceA`'s events and the loop could keep alternating between; one store is
enough to be read half done. Two service objects are an old and a new one of the
same name, two server tasks an old one that drains and a new one that binds; a
channel of one and three callers are one served, one queued and one waiting for
room. A path below a service lets three nodes hide one another: a node below a
service, and then another service of that name with a higher priority. Two rows
can overtake each other and two upserts leave a read one to miss;
a queue of two is full with one command of each kind.

Deadlock is checked where the system never ends (queue, metadata, real-time host,
service host). The other
programs may end: the engine is stopped, the gateway ends, the pool model
has no more identities to open, and the operations of the writer and of the
PostgreSQL queue are bounded.

### Fairness
- Queue: a task in a call goes on (the runtime polls every ready task); strong
  fairness for taking the mutex, as the tokio mutex is first come first served.
  No task has to call again.
- Engine loop: both tasks are polled when ready. Ctrl+C and further moves are not
  forced.
- Gateway: handling, publishing and the engine run when they can. `select!`
  picks among its ready branches at random, hence strong fairness for each
  branch. The broker and the machines have to do nothing; `KeepsPolling` assumes
  in its own text that the broker becomes reachable for good.
- Pool: connect, reset and ping answer or fail, and tasks run; a client may keep
  a session for ever, and waiting for a permit is not assumed to end except by
  its timeout.

- Database writer: workers are polled, and `select!` takes a branch that stays
  ready. A waiting send has strong fairness, since the channel hands out its room
  in the order of the waiters. Nobody has to call `stop`, or anything else.

- Real-time host: the engine thread runs while `run_for` does, and a store once
  begun is finished. Nobody has to call `run_for`; `PositionCatchesUp` assumes in
  its own text that the service is ticked again and again.

- Service host: a call once begun goes on, servers and handlers are polled. A
  sender to the dispatcher has strong fairness: it is woken whenever there is
  room, and gets in if that happens again and again. Nobody has to begin a call,
  and no client has to send a request.

- PostgreSQL queue: the runtime polls the worker, the spawned tasks and those that
  were given a permit; the database answers or the connection fails. Nobody has to
  call, to submit or to let go of the database.

## 4. Findings

1. `eventqueue.rs:195` says `pop` "waits until there is at least one event". With
   two tasks awaiting `pop` (or `push`), two notifications between their checks
   and their awaits store one permit, and one task sleeps on a non-empty queue.
   The repository's programs have one consumer, for which the wake-ups are
   proved safe.
2. `downstreaminterface.rs:85`: during an outage commands fill the client's
   request channel, and `publish` then waits for room that only its own polling
   could make. The gateway does not come back with the broker.
3. `postgresimpl.rs:381`: after a failed bootstrap the worker serves with empty
   metadata and overwrites the saved bindings on the next save, against the
   comments at lines 356 and 375.
Seen while modelling, without a run of their own:

- `connector.rs:304`: the permit of a dropped session is free before its
  connection is back, so the idle list can outgrow `max_size`, which line 40
  documents as the bound on pooled connections. `OneOwner` and
  `PermitsAccountedFor` hold all the same.
- `position_sync.rs:39`: a position is loaded and stored coordinate by coordinate,
  so that a tick can sync one that never existed, against the comment at line
  135 ("Read position atomically"). A later tick corrects it
  (`PositionCatchesUp`).
- `rest_api.rs:390`: `start` answers before the port is bound. If that fails,
  the status says running and nobody serves until the service is stopped and
  started again; `ServersFollowStatus` allows for it by name.
- `hierarchy.rs:252`: `register("root/realtime", x)` puts `x` beside `realtime`, not
  below it. A node with the name of its parent is not found by its path, nor is one
  with a sibling of the same name before it.
- `hierarchy.rs:112`: a node that is placed next to another one, with its name and a
  higher priority, hides all that is below the other. `PlacedIsFound` names these
  cases, and is proved to name all of them. It had been stated without the last one,
  which the containers of the run's first instance, all of priority 0, could not
  reach; the attempt to prove it showed the gap.

Where the code can block, the passing properties say so: `DeliversUnlessJammed`
and `StopReturnsUnlessBlocked` name the states in which gateway and engine wait
for each other or `stop` waits for ever, and show that there are no others.

## 5. Proofs

`EventQueueProofs`, for every capacity (at least one, as `new` asserts), every
set of tasks and events and every choice of operations:

- `QueueInvAlways`: `QueueInv` holds. It is the inductive strengthening: types;
  exactly the `len` slots from `head` on are filled (`WindowOccupied`); the mutex
  is held by the one task inside it (`MutexHeld`); the tasks asleep are the
  registered waiters, each once (`WaitersAsleep`); and the callers' records agree
  with their program counters (`CallsRecorded`). The window alone is not
  inductive, since two tasks inside the mutex would break it.
- `TypeCorrect`, `RingWindowSafe` follow.
- `WakeupsSafe`: `NoLostWakeup`, under `SingleAwaiters` (at most one task awaits
  `push` and one awaits `pop`). The assumption is needed: run
  `queue_two_poppers` fails without it.
- `RingImplementsFifo`: the queue implements `BoundedFifo`, step by step: a push
  appends to `Contents`, a pop takes its head, all other steps stutter or end a
  call.

`PostgresMetadataProofs`, for every set of tables, columns and ids:

- `MetadataInvAlways`: `MetadataInv` holds. Each property is about the worker
  between two commands; the strengthening says what stands for it in the middle
  of one: which stages a command can be in (`CommandInStep`), which ids the
  managed set may lack before it is rebuilt (`ManagedInStep`), that the saved row
  lags only between the change of memory and the save (`SavedInStep`), that the
  tables still to be written are those of the schema already changed
  (`TablesInStep`), and that no column is without its table (`NoOrphanColumns`).
- `MetadataTypes`, `BindingsAlwaysInTables`, `BoundAlwaysManaged`,
  `KillLosesNothing`, `TablesFollowSchema` follow.

`DbWriterProofs`, for every capacity (at least one, as `mpsc::channel` demands),
every batch size, set of clients and number of starts and operations:

- `DbWriterInvAlways`: `DbWriterInv` holds. To the properties it adds that a caller
  waits in a send exactly when it offers an operation, on a channel that exists
  (`CallersInStep`), and that the service sends to the channel of its last start
  and none else (`ServiceInStep`); without the second, a worker that finds its
  channel closed might be the one that serves.
- `TypeOKAlways`, `OpsAccountedForAlways`, `BatchBelowSizeAlways` and
  `OneWorkerServesAlways` follow.

`ConnectorPoolProofs`, for every pool size, every set of clients (finite or not) and
any number of connections:

- `PoolInvAlways`: `PoolInv` holds. `OneOwner` counts the places of a connection,
  which no single step can be argued about; `PoolInv` says instead that no two
  places hold the same one (`OwnersDistinct`) and that a connection is open exactly
  if some place holds it (`OpenIsOwned`). It needs to know at which steps a client
  or the prewarm task has a connection (`ConnsInStep`): a connection taken at a step
  where the client had one already would be leaked.
- `PoolTypes`, `PermitsAlwaysAccountedFor`, `StateNeverLeaks` follow at once;
  `OneOwnerAlways` counts the places.

`PostgresQueueProofs`, for every capacity, finite set of callers, and number of rows
and upserts:

- `QueueInvAlways`: `QueueInv` holds. A command is in one place (`OnePlace`) and clashes
  with no other (`NoClash`, `Origins`). The properties speak of what has been
  executed; the invariant extends each order to the command in hand and the queue
  (`RowsInOrder`, `SetsInOrder`, `QueriesInOrder`), and says who may be outside the
  queue: never an upsert, and a row only if it found the queue full (`WhoWaits`).
- `QueueTypes`, `RowsAlwaysAccountedFor`, `OnlyDelayedAreOvertaken` and
  `ReadsSeeOwnWrites` follow.

`EngineLoopProofs`, for every capacity, budget argument and number of moves and failed
writes:

- `EngineInvAlways`: `EngineInv` holds. It is about the composition with
  `EventQueue`, whose invariant it uses by way of its lemmas on the ring's contents.
  `CallsInStep` ties the two tasks to the state of their calls on the queue (an
  iteration cancelled by Ctrl+C leaves no call behind), and `PipelineOrdered` orders
  all pairs of events on the way, where the property only compares neighbours.
- `EngineTypes` and `EventsAlwaysAccountedFor` follow.

`MqttGatewayProofs`, for all capacities, any set of messages, any number of them and
of outages:

- `GatewayInvAlways`: `GatewayInv` holds. The four invariants of the run are nearly
  inductive: missing are that the task has events in hand exactly while it handles
  a message, that the subscription is the client's first request or sent
  (`TaskInStep`), and that the engine's event is one it received (`EngineInStep`).
  The lemmas on `Becomes` (an event added at the end, one applied at the front)
  carry `ModelsAgree`.
- `GatewayTypes`, `EventsAlwaysInOrder`, `ModelsAlwaysAgree`, `CommandsAlwaysInOrder`
  and `AlwaysOneCommandPerAlarm` follow.
- `DecodeAssumption` says that decoding yields a sequence of gateway events, which
  the type of `decode_events` guarantees. TLC evaluates it in both runs. It is about
  `SelectSeq`, which the provers know by name only.

`ServiceHostProofs`, for any number of service objects, server tasks, callers and
requests, every channel capacity and every deployment:

- `HostInvAlways`: `HostInv` holds. `ServersFollowStatus` alone would not survive the
  drop of an object and the reuse of its number: `ServersInStep` adds that every
  server that listens does so to an object that runs and is still referred to, and
  that one that drains or has ended listens to nobody; `OwnerInStep` says when
  `start_all` and `stop_all` refer to objects. The rest of it is about the
  locks: a task is in the queue of a lock exactly while its call waits for it or
  holds it (`QueuesInStep`), writers of the map are in its queue as writers
  (`MapModes`), the owner asks for a service to write and the dispatcher to read
  (`ServiceModes`), and the dispatcher waits for a service with the map in its hand
  (`FoundInStep`).
- `HostTypesAlways` and `ServersAlwaysFollowStatus` follow.
- `ServicesAlwaysExclusive`: a service is not called while it is started or stopped,
  since of two tasks that hold a lock none is a writer.
- `NeverCircularWait`: whenever a lock is held or waited for, some task has all the
  locks it asked for. Only the dispatcher is in two queues; if it does not hold the
  service it asked for, the owner does, who waits for nothing else. Otherwise
  everyone is in one queue, and the first in a queue holds the lock. This is the part
  of `CallsReturn` that needs no fairness, for any number of services.
- `FoundAlwaysStays`: while the dispatcher waits for the service it found, the
  registry does not change, since a writer holds the map alone. This is also why
  the dispatcher's reference to a service need not count among those that keep an
  object alive (`Held`).
- `TreeInvAlways`: `TreeInv` of `ServiceTree` holds, for every set of paths and
  priorities and trees of any size. Nodes have one parent (`OneParent`), children are
  in descending priority, and of two children of the same name the later one has no
  children of its own unless its priority is lower (`ByPriority`): it was the first
  when they were added. The path of a node names nodes on a way from the root to its
  parent (`PlacesLead`), which are not always those that `find_by_path` takes. The
  lemmas say what `add_child`, `remove_child`, `find_by_path` and `Subtree` compute.
- `TypesAlways` and `PlacedAlwaysFound` follow; the latter by comparing the way of the
  path with the one that `find_by_path` takes: where they part first, a node on the
  way is outranked.

In the same module, about an instance of `RtHost`, for any thresholds, set of positions,
offset, unit and number of writes and stores:

- `RtInvAlways`: `RtInv` holds, types and two facts about the middle of a tick:
  `ServiceA` goes on to send only if it was found enabled, and what was loaded of a
  position so far are coordinates that were stored (`CoordinatesStored`).
- `SyncedAlwaysStored`: a synced position may be mixed from several (see 4), but each
  of its coordinates was stored as that coordinate.
- `DisabledAlwaysInert`: `DisabledIsInert`.

What a recursive function computes (`find_by_path`, `create_containers`) is proved by
induction. The library's induction rules take a predicate as a parameter, which the
provers cannot instantiate; `LeastNumber` and `SetInduction` say the same of sets of
numbers, from the library's `NatLessThanWellFounded` and `WFMin`, and can be cited.

The inductive invariants were checked with TLC on the instances of the runs before
they were proved. They are no properties of a run of their own: the theorems hold
for every instance.

Only model-checked:

- every liveness property (fairness and ENABLED are beyond the prover);
- that `decode_events` and `parse_payload` yield events (`DecodeAssumption`).

## 6. Not modelled, and the plan

- `RtChecker`: its settings are calls to the OS scheduler, and nothing starts its
  monitor thread. (A second `start_monitor` would leave the first thread running
  with nobody to stop it.)
- Datapoint model and configuration: types, conversions and validation without
  state, and `DataPointRegistry`, two maps behind one lock that a demonstration
  fills once. (`upsert_meta` with a new name for a known id leaves the old name
  behind.)
- Result handler, SQL text, column types, HTTP routing: formatting and conversion.
- New gateway framework and new engine program: skeletons. `run` waits for the
  cancellation, received messages are dropped or printed.
- `AddManagedId` and `RemoveManagedId` (no public method sends them), the
  real-time half of `ServiceRegistry` (nothing uses it).
- Placeholders and command-line programs.

Left to do: bounds on the idle stack of `ConnectorPool` in terms of clients and spawned
returns; a filter of sequences that the provers can expand, for `DecodeAssumption`.
