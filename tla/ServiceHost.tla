------------------------------ MODULE ServiceHost ------------------------------
(***************************************************************************)
(* The host of the non-real-time services (services/servicemanagement:     *)
(* manager.rs, registry.rs, dispatcher.rs; services/nonrtservices:         *)
(* rest_api.rs).  The owner of the ServiceManager registers, starts and    *)
(* stops services; a registrar uses the shared registry next to it; the    *)
(* dispatcher thread answers blocking callers; every start of the REST     *)
(* service spawns a server task, whose handlers use the services of the    *)
(* ApiState.                                                               *)
(*                                                                         *)
(* The locks are tokio's RwLocks, which are first come first served: of    *)
(* those in a lock's queue, the first one holds it, or all leading readers *)
(* do.  The map of the ApiState, and that of the registry for everyone but *)
(* the dispatcher, is let go within the step that got it.                  *)
(***************************************************************************)
EXTENDS ServiceTree, FiniteSetsExt, TLC

CONSTANTS
  NumInstances,  \* bound on the service objects alive at once
  NumServers,    \* bound on the server tasks alive at once
  Callers,       \* threads that call the dispatcher
  Handlers,      \* HTTP requests in flight at once
  CallCap,       \* capacity of the dispatcher's channel
  Containers,    \* containers made by init_default_hierarchy, in order
  Paths,         \* paths used with the hierarchy
  Priorities,    \* priorities of nodes registered in the hierarchy
  Deployments,   \* which parts a program uses: names of its services, tasks next
                 \* to the owner, bound on the nodes below the root
  None

Instances == 1 .. NumInstances
Servers == 1 .. NumServers
Names == UNION {d.names : d \in Deployments}
Tasks == Callers \cup Handlers \cup {"owner", "registrar", "dispatcher", "api"}

ASSUME ServiceHostAssumption ==
  /\ NumInstances \in Nat \ {0} /\ NumServers \in Nat \ {0} /\ CallCap \in Nat \ {0}
  /\ IsFiniteSet(Callers) /\ IsFiniteSet(Handlers)
  /\ Containers \in Seq(STRING) /\ Paths \subseteq Seq(STRING) /\ Priorities \subseteq Nat
  /\ \A d \in Deployments : d.names \subseteq STRING /\ d.tasks \subseteq Tasks /\ d.nodes \in Nat
  /\ None \notin Instances /\ None \notin Servers /\ None \notin Names

VARIABLES
  uses,        \* the deployment, fixed
  registry,    \* ServiceRegistry::non_rt_services, by name
  nameOf,      \* the name of each service object
  running,     \* its status.running
  manager,     \* ServiceManager::running
  owner,       \* the call the owner is in: op, pc, name, todo, cur
  registrar,   \* the call on the registry under way: op, name
  lockq,       \* queue of each lock
  server,      \* state of each server task
  sender,      \* the object whose shutdown_tx it listens to, None once that was used
  dispatcher,  \* the dispatcher thread: "none", "recv", "map", "service"
  calls,       \* its channel, and with "map" or "service" the call it serves first
  caller,      \* state of each caller: "idle", "sending", "waiting"
  want,        \* the name it asks for
  handler,     \* the server each HTTP request came through
  api,         \* the service of the ApiState: "absent", "stopped", "running"
  tree,        \* ServiceHierarchy
  placed       \* history: the path each node was placed at

serviceVars == <<registry, nameOf, running>>
serverVars == <<server, sender>>
callVars == <<dispatcher, calls, caller, want>>
httpVars == <<handler, api>>
treeVars == <<tree, placed>>
vars == <<uses, serviceVars, manager, owner, registrar, lockq, serverVars, callVars,
          httpVars, treeVars>>

MapLock == 0
Locks == Instances \cup {MapLock}

Idle == [op |-> "none", pc |-> "idle", name |-> None, todo |-> {}, cur |-> None]
NoCall == [op |-> "none", name |-> None]

HostTypes ==
  /\ uses \in Deployments
  /\ registry \in [Names -> Instances \cup {None}]
  /\ nameOf \in [Instances -> Names \cup {None}] /\ running \in [Instances -> BOOLEAN]
  /\ manager \in BOOLEAN
  /\ owner \in [op : {"none", "register", "start", "stop"}, pc : {"idle", "map", "next", "service"},
                name : Names \cup {None}, todo : SUBSET Instances, cur : Instances \cup {None}]
  /\ registrar \in [op : {"none", "register", "unregister"}, name : Names \cup {None}]
  /\ lockq \in [Locks -> Seq(Tasks \X {"read", "write"})]
  /\ \A l \in Locks : \A i, j \in DOMAIN lockq[l] : i # j => lockq[l][i][1] # lockq[l][j][1]
  /\ server \in [Servers -> {"none", "binding", "serving", "draining", "panicked"}]
  /\ sender \in [Servers -> Instances \cup {None}]
  /\ dispatcher \in {"none", "recv", "map", "service"}
  /\ calls \in Seq(Callers) /\ Len(calls) <= CallCap + 1
  /\ caller \in [Callers -> {"idle", "sending", "waiting"}]
  /\ want \in [Callers -> Names \cup {None}]
  /\ handler \in [Handlers -> Servers \cup {None}] /\ api \in {"absent", "stopped", "running"}

TreeTypes ==
  /\ \A n \in DOMAIN tree : tree[n].children \in Seq(DOMAIN tree)
  /\ DOMAIN placed = DOMAIN tree \ {Root}

TypeOK == HostTypes /\ TreeTypes

Init ==
  /\ uses \in Deployments
  /\ registry = [n \in Names |-> None] /\ nameOf = [i \in Instances |-> None]
  /\ running = [i \in Instances |-> FALSE]
  /\ manager = FALSE /\ owner = Idle /\ registrar = NoCall
  /\ lockq = [l \in Locks |-> <<>>]
  /\ server = [s \in Servers |-> "none"] /\ sender = [s \in Servers |-> None]
  /\ dispatcher = "none" /\ calls = <<>>
  /\ caller = [c \in Callers |-> "idle"] /\ want = [c \in Callers |-> None]
  /\ handler = [h \in Handlers |-> None] /\ api = "absent"
  /\ tree = NewTree /\ placed = [n \in {} |-> <<>>]

-----------------------------------------------------------------------------
(* Locks. *)

Enqueue(q, l, t, mode) == [q EXCEPT ![l] = Append(@, <<t, mode>>)]
Release(q, l, t) == [q EXCEPT ![l] = RemoveAt(@, CHOOSE i \in DOMAIN @ : @[i][1] = t)]

Holds(t, l) ==
  \E i \in DOMAIN lockq[l] :
    /\ lockq[l][i][1] = t
    /\ i = 1 \/ \A j \in 1 .. i : lockq[l][j][2] = "read"

-----------------------------------------------------------------------------
(* The life of a service object: it is dropped when neither the registry nor *)
(* start_all or stop_all refers to it, and its shutdown_tx with it.          *)

Held(reg, own) == ({reg[n] : n \in Names} \cup own.todo \cup {own.cur}) \ {None}

\* Their shutdown_tx are used, or dropped, which the servers cannot tell apart.
Signal(objects) ==
  /\ sender' = [s \in Servers |-> IF sender[s] \in objects THEN None ELSE sender[s]]
  /\ server' = [s \in Servers |-> IF sender[s] \in objects /\ server[s] = "panicked"
                                 THEN "none" ELSE server[s]]

\* What the registry and the owner still refer to stays, the rest is dropped.
DropAllBut(held) ==
  /\ Signal(Instances \ held)
  /\ running' = [i \in Instances |-> running[i] /\ i \in held]

FreeInstances == Instances \ Held(registry, owner)
FreeServers == {s \in Servers : server[s] = "none"}

\* insert into the registry: a service of the same name is replaced.
register_non_rt(n) ==
  /\ FreeInstances # {}
  /\ LET i == CHOOSE k \in FreeInstances : TRUE IN
       /\ registry' = [registry EXCEPT ![n] = i]
       /\ nameOf' = [nameOf EXCEPT ![i] = n]
  /\ DropAllBut(Held(registry', owner))

unregister_non_rt(n) ==
  /\ registry' = [registry EXCEPT ![n] = None]
  /\ DropAllBut(Held(registry', owner))
  /\ UNCHANGED nameOf

\* start, with the write lock held.  One that runs answers AlreadyRunning.  The
\* REST service spawns its server and does not wait for it.
start(i) ==
  /\ running' = [running EXCEPT ![i] = TRUE]
  /\ IF running[i] \/ nameOf[i] # "rest_api"
     THEN UNCHANGED serverVars
     ELSE /\ FreeServers # {}
          /\ LET s == CHOOSE f \in FreeServers : TRUE IN
               /\ server' = [server EXCEPT ![s] = "binding"]
               /\ sender' = [sender EXCEPT ![s] = i]
  /\ UNCHANGED <<registry, nameOf>>

\* Mutant: stop forgets the shutdown signal.
StopWithoutSignal(i) ==
  /\ running' = [running EXCEPT ![i] = FALSE]
  /\ UNCHANGED <<registry, nameOf, serverVars>>

\* stop, with the write lock held.  One that does not run answers NotRunning.
stop(i) ==
  /\ running' = [running EXCEPT ![i] = FALSE]
  /\ Signal({i})
  /\ UNCHANGED <<registry, nameOf>>

-----------------------------------------------------------------------------
(* The owner of the manager. *)

OwnerElsewhere == <<uses, registrar, callVars, httpVars>>

\* The calls that begin with the lock on the registry's map.
register_nonrt(n) ==
  /\ owner.pc = "idle" /\ Cardinality(DOMAIN tree) <= uses.nodes
  /\ owner' = [Idle EXCEPT !.op = "register", !.pc = "map", !.name = n]
  /\ lockq' = Enqueue(lockq, MapLock, "owner", "write")
  /\ UNCHANGED <<serviceVars, manager, serverVars, treeVars, OwnerElsewhere>>

\* The RT settings before it and the init of RT services after it are logged if
\* they fail and change nothing here.
start_all ==
  /\ owner.pc = "idle" /\ ~manager
  /\ owner' = [Idle EXCEPT !.op = "start", !.pc = "map"]
  /\ lockq' = Enqueue(lockq, MapLock, "owner", "read")
  /\ UNCHANGED <<serviceVars, manager, serverVars, treeVars, OwnerElsewhere>>

stop_all ==
  /\ owner.pc = "idle" /\ manager
  /\ owner' = [Idle EXCEPT !.op = "stop", !.pc = "map"]
  /\ lockq' = Enqueue(lockq, MapLock, "owner", "read")
  /\ UNCHANGED <<serviceVars, manager, serverVars, treeVars, OwnerElsewhere>>

\* register in the hierarchy, recording where the node went.
Place(path, name, priority) ==
  /\ tree' = register(tree, path, Node(name, priority))
  /\ placed' = [n \in DOMAIN tree' \ {Root} |->
                 IF n \in DOMAIN tree THEN placed[n] ELSE Append(parent_path(path), name)]

\* register_nonrt goes on: the registry, then the hierarchy.
OwnerRegisters ==
  /\ owner.op = "register" /\ Holds("owner", MapLock)
  /\ register_non_rt(owner.name)
  /\ Place(<<"root">>, owner.name, 0)
  /\ lockq' = Release(lockq, MapLock, "owner")
  /\ owner' = Idle
  /\ UNCHANGED <<manager, OwnerElsewhere>>

\* Mutant: the map stays locked for the rest of the call, and after it.
ListLocked ==
  /\ owner.op \in {"start", "stop"} /\ owner.pc = "map" /\ Holds("owner", MapLock)
  /\ owner' = [owner EXCEPT !.pc = "next", !.todo = {registry[n] : n \in Names} \ {None}]
  /\ UNCHANGED <<lockq, serviceVars, manager, serverVars, treeVars, OwnerElsewhere>>

\* all_non_rt: a copy of the map's values, later changes are not seen.
ListServices ==
  /\ owner.op \in {"start", "stop"} /\ owner.pc = "map" /\ Holds("owner", MapLock)
  /\ owner' = [owner EXCEPT !.pc = "next", !.todo = {registry[n] : n \in Names} \ {None}]
  /\ lockq' = Release(lockq, MapLock, "owner")
  /\ UNCHANGED <<serviceVars, manager, serverVars, treeVars, OwnerElsewhere>>

\* The services in the order of a hash map.
NextService ==
  /\ owner.pc = "next"
  /\ \E i \in owner.todo :
       /\ owner' = [owner EXCEPT !.pc = "service", !.todo = @ \ {i}, !.cur = i]
       /\ lockq' = Enqueue(lockq, i, "owner", "write")
  /\ DropAllBut(Held(registry, owner'))
  /\ UNCHANGED <<registry, nameOf, manager, treeVars, OwnerElsewhere>>

\* An error is logged and passed over.
OneService ==
  /\ owner.pc = "service" /\ Holds("owner", owner.cur)
  /\ IF owner.op = "start" THEN start(owner.cur) ELSE stop(owner.cur)
  /\ lockq' = Release(lockq, owner.cur, "owner")
  /\ owner' = [owner EXCEPT !.pc = "next"]
  /\ UNCHANGED <<manager, treeVars, OwnerElsewhere>>

NoMoreServices ==
  /\ owner.pc = "next" /\ owner.todo = {}
  /\ manager' = (owner.op = "start")
  /\ owner' = Idle
  /\ DropAllBut(Held(registry, owner'))
  /\ UNCHANGED <<lockq, registry, nameOf, treeVars, OwnerElsewhere>>

\* The hierarchy is used by the owner only.
HierarchyUsed == <<serviceVars, manager, owner, lockq, serverVars, OwnerElsewhere>>
Room(k) == owner.pc = "idle" /\ Cardinality(DOMAIN tree) - 1 + k <= uses.nodes

\* hierarchy().register
RegisterNode ==
  /\ Room(1)
  /\ \E path \in Paths, n \in uses.names, priority \in Priorities : Place(path, n, priority)
  /\ UNCHANGED HierarchyUsed

\* hierarchy().create_container
CreateContainer ==
  /\ Room(1)
  /\ \E path \in Paths, c \in Range(Containers) : Place(path, c, 0)
  /\ UNCHANGED HierarchyUsed

init_default_hierarchy ==
  /\ Room(Len(Containers))
  /\ tree' = create_containers(tree, Containers)
  /\ placed' = [n \in DOMAIN tree' \ {Root} |->
                 IF n \in DOMAIN tree THEN placed[n] ELSE <<tree'[n].name>>]
  /\ UNCHANGED HierarchyUsed

\* hierarchy().root(), or a node below it, and remove_child
RemoveNode ==
  /\ owner.pc = "idle"
  /\ \E n \in DOMAIN tree, name \in uses.names \cup Range(Containers) :
       /\ find_child(tree, n, name) # NoNode
       /\ tree' = remove_child(tree, n, name)
  /\ placed' = [n \in DOMAIN tree' \ {Root} |-> placed[n]]
  /\ UNCHANGED HierarchyUsed

Owner ==
  \/ OwnerRegisters \/ ListServices \/ NextService \/ OneService \/ NoMoreServices
OwnerCalls ==
  \/ \E n \in uses.names : register_nonrt(n)
  \/ start_all \/ stop_all
  \/ RegisterNode \/ CreateContainer \/ init_default_hierarchy \/ RemoveNode

-----------------------------------------------------------------------------
(* Another task that has the registry. *)

RegistrarElsewhere == <<uses, manager, owner, callVars, httpVars, treeVars>>

RegistrarCalls ==
  /\ registrar = NoCall /\ "registrar" \in uses.tasks
  /\ registrar' \in [op : {"register", "unregister"}, name : uses.names]
  /\ lockq' = Enqueue(lockq, MapLock, "registrar", "write")
  /\ UNCHANGED <<serviceVars, serverVars, RegistrarElsewhere>>

RegistrarGoesOn ==
  /\ Holds("registrar", MapLock)
  /\ \/ registrar.op = "register" /\ register_non_rt(registrar.name)
     \/ registrar.op = "unregister" /\ unregister_non_rt(registrar.name)
  /\ lockq' = Release(lockq, MapLock, "registrar")
  /\ registrar' = NoCall
  /\ UNCHANGED RegistrarElsewhere

-----------------------------------------------------------------------------
(* The server tasks of the REST service (axum, external) and its handlers. *)

ServerElsewhere == <<uses, serviceVars, sender, manager, owner, registrar, lockq, callVars, treeVars>>

\* bind: the port is free, or the unwrap of its error ends the task.
Bind(s) ==
  /\ server[s] = "binding"
  /\ \/ /\ \A t \in Servers : server[t] # "serving"
        /\ server' = [server EXCEPT ![s] = "serving"]
     \/ server' = [server EXCEPT ![s] = IF sender[s] = None THEN "none" ELSE "panicked"]
  /\ UNCHANGED <<httpVars, ServerElsewhere>>

\* The graceful shutdown closes the listener and waits for the requests.
Shutdown(s) ==
  /\ server[s] = "serving" /\ sender[s] = None
  /\ server' = [server EXCEPT ![s] = "draining"]
  /\ UNCHANGED <<httpVars, ServerElsewhere>>

Drained(s) ==
  /\ server[s] = "draining" /\ \A h \in Handlers : handler[h] # s
  /\ server' = [server EXCEPT ![s] = "none"]
  /\ UNCHANGED <<httpVars, ServerElsewhere>>

ServerRuns(s) == Bind(s) \/ Shutdown(s) \/ Drained(s)

\* ApiState::register_service: a service of the same name is replaced.
register_service ==
  /\ "api" \in uses.tasks
  /\ api' = "stopped"
  /\ UNCHANGED <<handler, server, ServerElsewhere>>

\* Mutant: the listener stays open while the server drains.
AcceptWhileDraining(h) ==
  /\ handler[h] = None /\ h \in uses.tasks
  /\ \E s \in Servers :
       server[s] \in {"serving", "draining"} /\ handler' = [handler EXCEPT ![h] = s]
  /\ UNCHANGED <<api, server, ServerElsewhere>>

Accept(h) ==
  /\ handler[h] = None /\ h \in uses.tasks
  /\ \E s \in Servers : server[s] = "serving" /\ handler' = [handler EXCEPT ![h] = s]
  /\ UNCHANGED <<api, server, ServerElsewhere>>

\* The handlers: none of them waits with a lock in its hand, so that the locks of
\* the ApiState need no queue.
Answer(h) ==
  /\ handler[h] # None
  /\ handler' = [handler EXCEPT ![h] = None]
  /\ UNCHANGED <<server, ServerElsewhere>>

list_services(h) == Answer(h) /\ UNCHANGED api
get_service_status(h) == Answer(h) /\ UNCHANGED api
call_service(h) == Answer(h) /\ UNCHANGED api
start_service(h) == Answer(h) /\ api' = IF api = "absent" THEN api ELSE "running"
stop_service(h) == Answer(h) /\ api' = IF api = "absent" THEN api ELSE "stopped"

Handle(h) ==
  \/ list_services(h) \/ get_service_status(h) \/ call_service(h)
  \/ start_service(h) \/ stop_service(h)

-----------------------------------------------------------------------------
(* The dispatcher thread and its callers. *)

CallElsewhere == <<uses, serviceVars, manager, owner, registrar, serverVars, httpVars, treeVars>>

nonrt_dispatcher ==
  /\ dispatcher = "none" /\ Callers \cap uses.tasks # {}
  /\ dispatcher' = "recv"
  /\ UNCHANGED <<calls, caller, want, lockq, CallElsewhere>>

\* Dropped, its channel closes and the thread ends.
DropDispatcher ==
  /\ dispatcher = "recv" /\ \A c \in Callers : caller[c] = "idle"
  /\ dispatcher' = "none"
  /\ UNCHANGED <<calls, caller, want, lockq, CallElsewhere>>

InChannel == IF dispatcher = "recv" THEN Len(calls) ELSE Len(calls) - 1

\* call waits for room, try_call is refused without; both wait for the reply.
Call(c) ==
  /\ dispatcher # "none" /\ caller[c] = "idle" /\ c \in uses.tasks
  /\ \E n \in uses.names : want' = [want EXCEPT ![c] = n]
  /\ \/ caller' = [caller EXCEPT ![c] = "sending"] /\ UNCHANGED calls
     \/ /\ InChannel < CallCap
        /\ caller' = [caller EXCEPT ![c] = "waiting"] /\ calls' = Append(calls, c)
  /\ UNCHANGED <<dispatcher, lockq, CallElsewhere>>

\* Mutant: the channel has no bound.
SendUnbounded(c) ==
  /\ caller[c] = "sending"
  /\ caller' = [caller EXCEPT ![c] = "waiting"] /\ calls' = Append(calls, c)
  /\ UNCHANGED <<dispatcher, want, lockq, CallElsewhere>>

Send(c) ==
  /\ caller[c] = "sending" /\ InChannel < CallCap
  /\ caller' = [caller EXCEPT ![c] = "waiting"] /\ calls' = Append(calls, c)
  /\ UNCHANGED <<dispatcher, want, lockq, CallElsewhere>>

\* recv, and services.read()
Receive ==
  /\ dispatcher = "recv" /\ calls # <<>>
  /\ dispatcher' = "map"
  /\ lockq' = Enqueue(lockq, MapLock, "dispatcher", "read")
  /\ UNCHANGED <<calls, caller, want, CallElsewhere>>

Reply ==
  LET c == Head(calls) IN
  /\ caller' = [caller EXCEPT ![c] = "idle"] /\ want' = [want EXCEPT ![c] = None]
  /\ calls' = Tail(calls)
  /\ dispatcher' = "recv"

NotFound ==
  /\ dispatcher = "map" /\ Holds("dispatcher", MapLock) /\ registry[want[Head(calls)]] = None
  /\ Reply
  /\ lockq' = Release(lockq, MapLock, "dispatcher")
  /\ UNCHANGED CallElsewhere

\* The map stays locked while the service's lock is awaited.
Found ==
  LET i == registry[want[Head(calls)]] IN
  /\ dispatcher = "map" /\ Holds("dispatcher", MapLock) /\ i # None
  /\ dispatcher' = "service"
  /\ lockq' = Enqueue(lockq, i, "dispatcher", "read")
  /\ UNCHANGED <<calls, caller, want, CallElsewhere>>

AnswerCall ==
  LET i == registry[want[Head(calls)]] IN
  /\ dispatcher = "service" /\ Holds("dispatcher", i)
  /\ Reply
  /\ lockq' = Release(Release(lockq, i, "dispatcher"), MapLock, "dispatcher")
  /\ UNCHANGED CallElsewhere

Dispatch == Receive \/ NotFound \/ Found \/ AnswerCall

-----------------------------------------------------------------------------
Next ==
  \/ OwnerCalls \/ Owner
  \/ RegistrarCalls \/ RegistrarGoesOn
  \/ \E s \in Servers : ServerRuns(s)
  \/ \E h \in Handlers : Accept(h) \/ Handle(h)
  \/ register_service
  \/ nonrt_dispatcher \/ DropDispatcher \/ Dispatch
  \/ \E c \in Callers : Call(c) \/ Send(c)

\* A call once begun goes on: tasks are polled, threads run, and a sender that
\* finds room again and again gets in.  Nobody has to begin one.
Spec ==
  /\ Init /\ [][Next]_vars
  /\ WF_vars(Owner) /\ WF_vars(RegistrarGoesOn) /\ WF_vars(Dispatch)
  /\ \A s \in Servers : WF_vars(ServerRuns(s))
  /\ \A h \in Handlers : WF_vars(Handle(h))
  /\ \A c \in Callers : SF_vars(Send(c))

-----------------------------------------------------------------------------
(* Properties. *)

\* RestApiService::start and stop against the tasks they spawn and signal, while
\* services are started, stopped, replaced and dropped: an object that runs has one
\* task that listens to it, be it that this could not bind (then the status says
\* running and nobody serves); one that does not run has none.
ServersFollowStatus ==
  \A i \in {k \in Held(registry, owner) : nameOf[k] = "rest_api"} :
    Cardinality({s \in Servers : server[s] # "none" /\ sender[s] = i}) = (IF running[i] THEN 1 ELSE 0)

\* A server that was told to stop, by stop or by the drop of its service, ends,
\* though it waits for requests in flight.
StoppedServersEnd ==
  \A s \in Servers : (server[s] # "none" /\ sender[s] = None) ~> server[s] = "none"

\* dispatcher.rs: a call waits for the thread, the map and the service, while others
\* wait for the map that the thread holds.  Every call returns, and so do those on
\* the manager and the registry.
CallsReturn ==
  /\ \A c \in Callers : (caller[c] # "idle") ~> (caller[c] = "idle")
  /\ (owner.pc # "idle") ~> (owner.pc = "idle")
  /\ (registrar # NoCall) ~> (registrar = NoCall)

\* register, remove_child and find: a node stays below the node it was placed at, and
\* is found under the path it was placed at, it or the sibling of the same name that
\* comes first, which is not of lower priority.  The exceptions are the code's own:
\* find_by_path passes over a part that is the name of the parent, and a node placed
\* next to one above it, with the same name and a higher priority, hides it.
PlacedIsFound ==
  \A n \in DOMAIN placed : \E p \in DOMAIN tree :
    /\ n \in Range(tree[p].children)
    /\ \/ tree[n].name = tree[p].name
       \/ \E a \in DOMAIN tree : p \in Subtree(tree, a) /\ Outranked(tree, a)
       \/ LET m == find_by_path(tree, placed[n])
          IN  /\ m \in Range(tree[p].children) /\ tree[m].name = tree[n].name
              /\ tree[m].priority >= tree[n].priority

-----------------------------------------------------------------------------
(* The inductive invariant.  ServersFollowStatus does not follow from itself: *)
(* an object may be dropped, its number used again, and a server may outlive  *)
(* both.  The hierarchy, which nothing else depends on, has an invariant of   *)
(* its own, TreeInv of ServiceTree.                                           *)

\* Only start_all and stop_all have service objects in their hands.
OwnerInStep ==
  /\ owner.op = "none" <=> owner.pc = "idle"
  /\ owner.op = "register" => owner.pc = "map" /\ owner.name \in Names
  /\ owner.pc \in {"idle", "map"} => owner.todo = {} /\ owner.cur = None
  /\ owner.pc = "service" => owner.cur # None

\* Who listens to an object is a task of a REST service that runs and is not
\* dropped, and it is the only one; one that left its port listens to nobody.
ServersInStep ==
  /\ \A i \in Instances : running[i] => i \in Held(registry, owner)
  /\ \A s \in Servers : sender[s] # None =>
       /\ server[s] \notin {"none", "draining"}
       /\ running[sender[s]] /\ nameOf[sender[s]] = "rest_api"
       /\ \A t \in Servers : sender[t] = sender[s] => t = s
  /\ \A i \in Instances :
       running[i] /\ nameOf[i] = "rest_api" => \E s \in Servers : sender[s] = i

Queued(t, l) == \E i \in DOMAIN lockq[l] : lockq[l][i][1] = t

\* The service that the dispatcher found for the call it serves.
Asked == registry[want[Head(calls)]]

CallsInStep ==
  /\ \A i, j \in DOMAIN calls : i # j => calls[i] # calls[j]
  /\ \A i \in DOMAIN calls : caller[calls[i]] = "waiting"
  /\ \A c \in Callers : caller[c] # "idle" => want[c] \in Names
  /\ dispatcher \in {"map", "service"} => calls # <<>>
  /\ dispatcher \in {"none", "recv"} => Len(calls) <= CallCap
  /\ dispatcher = "none" => \A c \in Callers : caller[c] = "idle"

OwnerIn(l) == (owner.pc = "map" /\ l = MapLock) \/ (owner.pc = "service" /\ l = owner.cur)
RegistrarIn(l) == registrar # NoCall /\ l = MapLock
DispatcherIn(l) ==
  (dispatcher \in {"map", "service"} /\ l = MapLock) \/ (dispatcher = "service" /\ l = Asked)

\* A task is in the queues of the locks that its call waits for or holds,
QueuesInStep ==
  \A l \in Locks : /\ Queued("owner", l) <=> OwnerIn(l)
                   /\ Queued("registrar", l) <=> RegistrarIn(l)
                   /\ Queued("dispatcher", l) <=> DispatcherIn(l)

\* in that of the map in the mode that the call asks for.
MapModes ==
  \A i \in DOMAIN lockq[MapLock] :
    lockq[MapLock][i] \in {<<"owner", IF owner.op = "register" THEN "write" ELSE "read">>,
                           <<"registrar", "write">>, <<"dispatcher", "read">>}

\* The owner starts and stops a service with its write lock, the dispatcher reads.
ServiceModes ==
  \A l \in Instances : \A i \in DOMAIN lockq[l] :
    lockq[l][i] \in {<<"owner", "write">>, <<"dispatcher", "read">>}

RegistrarInStep == registrar # NoCall => registrar.op # "none" /\ registrar.name \in Names

\* The dispatcher waits for a service with the map in its hand.
FoundInStep == dispatcher = "service" => Asked # None /\ Holds("dispatcher", MapLock)

HostInv ==
  /\ HostTypes /\ OwnerInStep /\ ServersInStep /\ CallsInStep /\ RegistrarInStep
  /\ QueuesInStep /\ MapModes /\ ServiceModes /\ FoundInStep

=============================================================================
