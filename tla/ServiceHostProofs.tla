--------------------------- MODULE ServiceHostProofs ---------------------------
(***************************************************************************)
(* Proofs about the host of the non-real-time services, for every number   *)
(* of service objects, server tasks, callers and requests, every capacity  *)
(* of the dispatcher's channel and every deployment.  The argument is the  *)
(* inductive invariant HostInv of ServiceHost.  Then about the service     *)
(* hierarchy, for every set of paths and priorities and any number of      *)
(* nodes, by the invariant TreeInv of ServiceTree; and about the host of   *)
(* the real-time services, an instance of RtHost, by RtInv.                *)
(***************************************************************************)
EXTENDS ServiceHost, FiniteSetTheorems, SequenceTheorems, WellFoundedInduction, TLAPS

-----------------------------------------------------------------------------
(* The steps, by what they leave alone. *)

\* A step of the hierarchy, or none at all.
HierarchyStep == UNCHANGED HierarchyUsed

\* A step of the handlers of the REST service.
HttpStep == UNCHANGED <<server, ServerElsewhere>>

\* A step of the dispatcher thread or of its callers.
CallStep ==
  \/ nonrt_dispatcher \/ DropDispatcher
  \/ Receive \/ NotFound \/ Found \/ AnswerCall
  \/ \E c \in Callers : Call(c) \/ Send(c)

\* Every step of the host is one of these: the calls on the manager, on the
\* registry and on the dispatcher, and the tasks of the REST service.
LEMMA StepSplit ==
  ASSUME [Next]_vars
  PROVE  \/ HierarchyStep \/ HttpStep \/ CallStep
         \/ \E n \in uses.names : register_nonrt(n)
         \/ start_all \/ stop_all
         \/ OwnerRegisters \/ ListServices \/ NextService \/ OneService \/ NoMoreServices
         \/ RegistrarCalls \/ RegistrarGoesOn
         \/ \E s \in Servers : Bind(s) \/ Shutdown(s) \/ Drained(s)
<1>1. CASE UNCHANGED vars
  BY <1>1 DEF vars, HierarchyStep, HierarchyUsed, OwnerElsewhere, serviceVars, serverVars,
              callVars, httpVars
<1>2. CASE RegisterNode \/ CreateContainer \/ init_default_hierarchy \/ RemoveNode
  BY <1>2 DEF RegisterNode, CreateContainer, init_default_hierarchy, RemoveNode, HierarchyStep
<1>3. CASE \E h \in Handlers : Accept(h) \/ Handle(h)
  BY <1>3 DEF Accept, Handle, list_services, get_service_status, call_service,
              start_service, stop_service, Answer, HttpStep
<1>4. CASE register_service
  BY <1>4 DEF register_service, HttpStep
<1> QED  BY <1>1, <1>2, <1>3, <1>4
         DEF Next, Owner, OwnerCalls, ServerRuns, Dispatch, CallStep

-----------------------------------------------------------------------------
(* The owner and the objects in its hands. *)

\* A service object that the registry or the owner refers to.
LEMMA HeldObjects ==
  ASSUME HostTypes
  PROVE  Held(registry, owner) \subseteq Instances
BY DEF HostTypes, Held

\* start_all and stop_all take the objects from the list one by one, and let go of
\* the last one at the end.
LEMMA OwnerKept ==
  ASSUME HostTypes, OwnerInStep, [Next]_vars
  PROVE  OwnerInStep'
<1>1. owner \in [op : {"none", "register", "start", "stop"}, pc : {"idle", "map", "next", "service"},
                 name : Names \cup {None}, todo : SUBSET Instances, cur : Instances \cup {None}]
  BY DEF HostTypes
<1>2. \A d \in {uses} : d.names \subseteq Names
  BY DEF HostTypes, Names
<1>3. CASE HierarchyStep \/ HttpStep \/ CallStep \/ RegistrarCalls \/ RegistrarGoesOn
  <2>1. UNCHANGED owner
    BY <1>3 DEF HierarchyStep, HierarchyUsed, HttpStep, ServerElsewhere, RegistrarCalls,
                RegistrarGoesOn, RegistrarElsewhere, CallStep, nonrt_dispatcher, DropDispatcher,
                Receive, NotFound, Found, AnswerCall, Call, Send, CallElsewhere
  <2> QED  BY <2>1 DEF OwnerInStep
<1>4. CASE \E n \in uses.names : register_nonrt(n)
  BY <1>2, <1>4 DEF register_nonrt, Idle, OwnerInStep
<1>5. CASE start_all \/ stop_all
  BY <1>5 DEF start_all, stop_all, Idle, OwnerInStep
<1>6. CASE OwnerRegisters \/ NoMoreServices
  BY <1>6 DEF OwnerRegisters, NoMoreServices, Idle, OwnerInStep
<1>7. CASE ListServices
  BY <1>1, <1>7 DEF ListServices, OwnerInStep
<1>8. CASE NextService
  <2>1. PICK i \in owner.todo :
          owner' = [owner EXCEPT !.pc = "service", !.todo = @ \ {i}, !.cur = i]
    BY <1>8 DEF NextService
  <2>2. i \in Instances /\ i # None
    BY <1>1, <2>1, ServiceHostAssumption
  <2>3. owner.pc = "next"
    BY <1>8 DEF NextService
  <2> QED  BY <1>1, <2>1, <2>2, <2>3 DEF OwnerInStep
<1>9. CASE OneService
  BY <1>1, <1>9 DEF OneService, OwnerInStep
<1>10. CASE \E s \in Servers : Bind(s) \/ Shutdown(s) \/ Drained(s)
  BY <1>10 DEF Bind, Shutdown, Drained, ServerElsewhere, OwnerInStep
<1> QED  BY StepSplit, <1>3, <1>4, <1>5, <1>6, <1>7, <1>8, <1>9, <1>10

-----------------------------------------------------------------------------
(* The servers of the REST service and the objects they listen to. *)

\* What is dropped lets go of its server, and what is left keeps it.
LEMMA DropKeeps ==
  ASSUME HostTypes, ServersInStep, NEW held, held = Held(registry', owner'), DropAllBut(held),
         \A i \in Instances : running[i] => nameOf'[i] = nameOf[i]
  PROVE  ServersInStep'
<1>1. /\ running \in [Instances -> BOOLEAN] /\ sender \in [Servers -> Instances \cup {None}]
      /\ server \in [Servers -> {"none", "binding", "serving", "draining", "panicked"}]
  BY DEF HostTypes
<1>2. \A s \in Servers : sender'[s] # None =>
        sender'[s] = sender[s] /\ sender[s] \in held /\ server'[s] = server[s]
  BY <1>1 DEF DropAllBut, Signal
<1>3. \A s \in Servers : sender[s] # None /\ sender[s] \in held => sender'[s] = sender[s]
  BY <1>1 DEF DropAllBut, Signal
<1>4. \A i \in Instances : running'[i] <=> (running[i] /\ i \in held)
  BY <1>1, Zenon DEF DropAllBut
<1>5. None \notin Instances
  BY ServiceHostAssumption
<1>6. \A i \in Instances : running'[i] => i \in Held(registry', owner')
  BY <1>4
<1>7. ASSUME NEW s \in Servers, sender'[s] # None
      PROVE  /\ server'[s] \notin {"none", "draining"}
             /\ running'[sender'[s]] /\ nameOf'[sender'[s]] = "rest_api"
             /\ \A t \in Servers : sender'[t] = sender'[s] => t = s
  <2>1. /\ server[s] \notin {"none", "draining"}
        /\ running[sender[s]] /\ nameOf[sender[s]] = "rest_api"
        /\ \A t \in Servers : sender[t] = sender[s] => t = s
    BY <1>2, <1>7 DEF ServersInStep
  <2>2. sender[s] \in Instances
    BY <1>1, <1>2, <1>7
  <2> QED  BY <1>2, <1>4, <1>7, <2>1, <2>2
<1>8. ASSUME NEW i \in Instances, running'[i], nameOf'[i] = "rest_api"
      PROVE  \E s \in Servers : sender'[s] = i
  <2>1. PICK s \in Servers : sender[s] = i
    BY <1>4, <1>8 DEF ServersInStep
  <2> QED  BY <1>3, <1>4, <1>5, <1>8, <2>1
<1> QED  BY <1>6, <1>7, <1>8 DEF ServersInStep

\* A start of an object spawns its only server; that of one that runs does not.
LEMMA StartKeeps ==
  ASSUME HostTypes, ServersInStep, NEW i \in Instances, i \in Held(registry, owner), start(i),
         Held(registry', owner') = Held(registry, owner)
  PROVE  ServersInStep'
<1>1. /\ running \in [Instances -> BOOLEAN] /\ sender \in [Servers -> Instances \cup {None}]
      /\ server \in [Servers -> {"none", "binding", "serving", "draining", "panicked"}]
  BY DEF HostTypes
<1>2. nameOf' = nameOf /\ \A k \in Instances : running'[k] <=> (running[k] \/ k = i)
  BY <1>1, Zenon DEF start
<1>3. \A k \in Instances : running'[k] => k \in Held(registry', owner')
  BY <1>2 DEF ServersInStep
<1>4. CASE running[i] \/ nameOf[i] # "rest_api"
  <2>1. UNCHANGED <<server, sender>>
    BY <1>4 DEF start, serverVars
  <2>2. \A k \in Instances : nameOf[k] = "rest_api" => (running'[k] <=> running[k])
    BY <1>2, <1>4
  <2>3. \A s \in Servers : sender[s] # None => sender[s] \in Instances
    BY <1>1
  <2> QED  BY <1>2, <1>3, <2>1, <2>2, <2>3 DEF ServersInStep
<1>5. CASE ~(running[i] \/ nameOf[i] # "rest_api")
  <2>1. PICK f \in FreeServers : /\ server' = [server EXCEPT ![f] = "binding"]
                                 /\ sender' = [sender EXCEPT ![f] = i]
    BY <1>5 DEF start
  <2>2. f \in Servers /\ server[f] = "none" /\ sender[f] = None
    BY <2>1 DEF FreeServers, ServersInStep
  <2>3. \A s \in Servers : sender[s] # i
    BY <1>5, ServiceHostAssumption DEF ServersInStep
  <2>4. \A s \in Servers \ {f} : sender'[s] = sender[s] /\ server'[s] = server[s]
    BY <1>1, <2>1
  <2>5. sender'[f] = i /\ server'[f] = "binding"
    BY <1>1, <2>1, <2>2
  <2>6. ASSUME NEW s \in Servers, sender'[s] # None
        PROVE  /\ server'[s] \notin {"none", "draining"}
               /\ running'[sender'[s]] /\ nameOf'[sender'[s]] = "rest_api"
               /\ \A t \in Servers : sender'[t] = sender'[s] => t = s
    <3>1. CASE s = f
      BY <1>2, <1>5, <2>3, <2>4, <2>5, <3>1
    <3>2. CASE s # f
      <4>1. sender[s] # None /\ sender[s] \in Instances
        BY <1>1, <2>4, <2>6, <3>2
      <4>2. /\ server[s] \notin {"none", "draining"}
            /\ running[sender[s]] /\ nameOf[sender[s]] = "rest_api"
            /\ \A t \in Servers : sender[t] = sender[s] => t = s
        BY <4>1 DEF ServersInStep
      <4> QED  BY <1>2, <2>3, <2>4, <2>5, <3>2, <4>1, <4>2
    <3> QED  BY <3>1, <3>2
  <2>7. ASSUME NEW k \in Instances, running'[k], nameOf'[k] = "rest_api"
        PROVE  \E s \in Servers : sender'[s] = k
    <3>1. CASE k = i
      BY <2>2, <2>5, <3>1
    <3>2. CASE k # i
      <4>1. PICK s \in Servers : sender[s] = k
        BY <1>2, <2>7, <3>2 DEF ServersInStep
      <4>2. s # f
        BY <2>2, <4>1, ServiceHostAssumption
      <4> QED  BY <2>4, <4>1, <4>2
    <3> QED  BY <3>1, <3>2
  <2> QED  BY <1>3, <2>6, <2>7 DEF ServersInStep
<1> QED  BY <1>4, <1>5

\* A stop of an object lets go of its server.
LEMMA StopKeeps ==
  ASSUME HostTypes, ServersInStep, NEW i \in Instances, stop(i),
         Held(registry', owner') = Held(registry, owner)
  PROVE  ServersInStep'
<1>1. /\ running \in [Instances -> BOOLEAN] /\ sender \in [Servers -> Instances \cup {None}]
      /\ server \in [Servers -> {"none", "binding", "serving", "draining", "panicked"}]
  BY DEF HostTypes
<1>2. nameOf' = nameOf /\ \A k \in Instances : running'[k] <=> (running[k] /\ k # i)
  BY <1>1, Zenon DEF stop
<1>3. \A s \in Servers : sender'[s] # None =>
        sender'[s] = sender[s] /\ sender[s] # i /\ server'[s] = server[s]
  BY <1>1 DEF stop, Signal
<1>4. \A s \in Servers : sender[s] # i => sender'[s] = sender[s]
  BY <1>1 DEF stop, Signal
<1>5. \A k \in Instances : running'[k] => k \in Held(registry', owner')
  BY <1>2 DEF ServersInStep
<1>6. ASSUME NEW s \in Servers, sender'[s] # None
      PROVE  /\ server'[s] \notin {"none", "draining"}
             /\ running'[sender'[s]] /\ nameOf'[sender'[s]] = "rest_api"
             /\ \A t \in Servers : sender'[t] = sender'[s] => t = s
  <2>1. /\ server[s] \notin {"none", "draining"}
        /\ running[sender[s]] /\ nameOf[sender[s]] = "rest_api"
        /\ \A t \in Servers : sender[t] = sender[s] => t = s
    BY <1>3, <1>6 DEF ServersInStep
  <2>2. sender[s] \in Instances
    BY <1>1, <1>3, <1>6
  <2> QED  BY <1>2, <1>3, <1>6, <2>1, <2>2
<1>7. ASSUME NEW k \in Instances, running'[k], nameOf'[k] = "rest_api"
      PROVE  \E s \in Servers : sender'[s] = k
  <2>1. PICK s \in Servers : sender[s] = k
    BY <1>2, <1>7 DEF ServersInStep
  <2> QED  BY <1>2, <1>4, <1>7, <2>1
<1> QED  BY <1>5, <1>6, <1>7 DEF ServersInStep

\* A service registered: the object is a new one, of which nobody has heard.
LEMMA RegisterKeeps ==
  ASSUME HostTypes, ServersInStep, NEW n \in Names, register_non_rt(n),
         Held(registry', owner') = Held(registry', owner)
  PROVE  ServersInStep'
<1>1. PICK i \in FreeInstances : nameOf' = [nameOf EXCEPT ![i] = n]
  BY DEF register_non_rt
<1>2. i \notin Held(registry, owner) /\ i \in Instances
  BY <1>1 DEF FreeInstances
<1>3. \A k \in Instances : running[k] => nameOf'[k] = nameOf[k]
  BY <1>1, <1>2 DEF ServersInStep, HostTypes
<1>4. DropAllBut(Held(registry', owner'))
  BY DEF register_non_rt
<1> QED  BY <1>3, <1>4, DropKeeps

\* Each step of each task, while services are started, stopped, replaced and
\* dropped, keeps the objects and the servers together.
LEMMA ServersKept ==
  ASSUME HostTypes, OwnerInStep, RegistrarInStep, ServersInStep, [Next]_vars
  PROVE  ServersInStep'
<1>1. /\ owner \in [op : {"none", "register", "start", "stop"},
                    pc : {"idle", "map", "next", "service"}, name : Names \cup {None},
                    todo : SUBSET Instances, cur : Instances \cup {None}]
      /\ registry \in [Names -> Instances \cup {None}]
  BY DEF HostTypes
<1>2. CASE UNCHANGED <<registry, nameOf, running, owner, server, sender>>
  BY <1>2 DEF ServersInStep, Held
<1>3. CASE HierarchyStep \/ HttpStep \/ CallStep \/ RegistrarCalls
  <2>1. UNCHANGED <<registry, nameOf, running, owner, server, sender>>
    BY <1>3 DEF HierarchyStep, HierarchyUsed, HttpStep, ServerElsewhere, RegistrarCalls,
                RegistrarElsewhere, CallStep, nonrt_dispatcher, DropDispatcher, Receive,
                NotFound, Found, AnswerCall, Call, Send, CallElsewhere, serviceVars, serverVars
  <2> QED  BY <1>2, <2>1
<1>4. CASE (\E n \in uses.names : register_nonrt(n)) \/ start_all \/ stop_all
  <2>1. owner.pc = "idle" /\ owner'.todo = {} /\ owner'.cur = None
    BY <1>4 DEF register_nonrt, start_all, stop_all, Idle
  <2>2. UNCHANGED <<registry, nameOf, running, server, sender>>
    BY <1>4 DEF register_nonrt, start_all, stop_all, serviceVars, serverVars
  <2>3. Held(registry', owner') = Held(registry, owner)
    BY <2>1, <2>2 DEF Held, OwnerInStep
  <2> QED  BY <2>2, <2>3 DEF ServersInStep
<1>5. CASE OwnerRegisters
  <2>1. Held(registry', owner') = Held(registry', owner)
    BY <1>5 DEF OwnerRegisters, Held, Idle, OwnerInStep
  <2>2. owner.name \in Names /\ register_non_rt(owner.name)
    BY <1>5 DEF OwnerRegisters, OwnerInStep
  <2> QED  BY <2>1, <2>2, RegisterKeeps
<1>6. CASE ListServices
  <2>1. /\ owner.todo = {} /\ owner.cur = None /\ owner'.cur = None
        /\ owner'.todo = {registry[n] : n \in Names} \ {None}
    BY <1>1, <1>6 DEF ListServices, OwnerInStep
  <2>2. UNCHANGED <<registry, nameOf, running, server, sender>>
    BY <1>6 DEF ListServices, serviceVars, serverVars
  <2>3. Held(registry', owner') = Held(registry, owner)
    BY <2>1, <2>2 DEF Held
  <2> QED  BY <2>2, <2>3 DEF ServersInStep
<1>7. CASE NextService \/ NoMoreServices
  <2>1. DropAllBut(Held(registry', owner')) /\ nameOf' = nameOf
    BY <1>7 DEF NextService, NoMoreServices
  <2> QED  BY <2>1, DropKeeps
<1>8. CASE OneService
  <2>1. /\ owner.cur \in Instances /\ owner.cur \in Held(registry, owner)
        /\ owner'.todo = owner.todo /\ owner'.cur = owner.cur
    BY <1>1, <1>8 DEF OneService, OwnerInStep, Held
  <2>2. (owner.op = "start" /\ start(owner.cur)) \/ stop(owner.cur)
    BY <1>8 DEF OneService
  <2>3. Held(registry', owner') = Held(registry, owner)
    BY <2>1, <2>2 DEF start, stop, Held
  <2> QED  BY <2>1, <2>2, <2>3, StartKeeps, StopKeeps
<1>9. CASE RegistrarGoesOn
  <2>1. Held(registry', owner') = Held(registry', owner)
    BY <1>9 DEF RegistrarGoesOn, RegistrarElsewhere
  <2>2. CASE registrar.op = "register" /\ register_non_rt(registrar.name)
    <3>1. registrar.name \in Names
      BY <2>2 DEF RegistrarInStep, NoCall
    <3> QED  BY <2>1, <2>2, <3>1, RegisterKeeps
  <2>3. CASE unregister_non_rt(registrar.name)
    <3>1. DropAllBut(Held(registry', owner')) /\ nameOf' = nameOf
      BY <2>1, <2>3 DEF unregister_non_rt
    <3> QED  BY <3>1, DropKeeps
  <2> QED  BY <1>9, <2>2, <2>3 DEF RegistrarGoesOn
<1>10. CASE \E s \in Servers : Bind(s) \/ Shutdown(s) \/ Drained(s)
  <2>1. PICK s \in Servers : Bind(s) \/ Shutdown(s) \/ Drained(s)
    BY <1>10
  <2>2. UNCHANGED <<registry, nameOf, running, owner, sender>>
    BY <2>1 DEF Bind, Shutdown, Drained, ServerElsewhere, serviceVars
  <2>3. \A t \in Servers : sender[t] # None /\ server[t] \notin {"none", "draining"}
          => server'[t] \notin {"none", "draining"}
    BY <2>1 DEF Bind, Shutdown, Drained, HostTypes
  <2> QED  BY <2>2, <2>3 DEF ServersInStep, Held
<1> QED  BY StepSplit, <1>3, <1>4, <1>5, <1>6, <1>7, <1>8, <1>9, <1>10

\* Counting the tasks that listen to an object: none or one.
LEMMA StatusFollows ==
  ASSUME HostTypes, ServersInStep
  PROVE  ServersFollowStatus
<1> SUFFICES ASSUME NEW i \in Held(registry, owner), nameOf[i] = "rest_api"
             PROVE  Cardinality({s \in Servers : server[s] # "none" /\ sender[s] = i})
                      = (IF running[i] THEN 1 ELSE 0)
  BY DEF ServersFollowStatus
<1> DEFINE L == {s \in Servers : server[s] # "none" /\ sender[s] = i}
<1>1. i \in Instances /\ i # None
  BY HeldObjects DEF Held
<1>2. CASE running[i]
  <2>1. PICK s \in Servers : sender[s] = i
    BY <1>1, <1>2 DEF ServersInStep
  <2>2. L = {s}
    BY <1>1, <2>1 DEF ServersInStep
  <2> QED  BY <1>2, <2>2, FS_Singleton
<1>3. CASE ~running[i]
  <2>1. L = {}
    BY <1>1, <1>3 DEF ServersInStep
  <2> QED  BY <1>3, <2>1, FS_EmptySet
<1> QED  BY <1>2, <1>3

-----------------------------------------------------------------------------
(* The dispatcher's channel and its callers. *)

\* A caller is in the channel once, from its send to the reply.
LEMMA CallsKept ==
  ASSUME HostTypes, CallsInStep, [Next]_vars
  PROVE  CallsInStep'
<1>1. /\ calls \in Seq(Callers) /\ caller \in [Callers -> {"idle", "sending", "waiting"}]
      /\ want \in [Callers -> Names \cup {None}] /\ Len(calls) \in Nat /\ CallCap \in Nat \ {0}
      /\ uses.names \subseteq Names /\ dispatcher \in {"none", "recv", "map", "service"}
  BY ServiceHostAssumption DEF HostTypes, Names
<1>2. /\ \A i, j \in DOMAIN calls : i # j => calls[i] # calls[j]
      /\ \A i \in DOMAIN calls : caller[calls[i]] = "waiting"
      /\ \A c \in Callers : caller[c] # "idle" => want[c] \in Names
      /\ dispatcher \in {"map", "service"} => calls # <<>>
      /\ dispatcher \in {"none", "recv"} => Len(calls) <= CallCap
      /\ dispatcher = "none" => \A c \in Callers : caller[c] = "idle"
  BY DEF CallsInStep
<1>3. ASSUME NEW c \in Callers, caller[c] # "waiting", InChannel < CallCap, dispatcher # "none",
             calls' = Append(calls, c), caller' = [caller EXCEPT ![c] = "waiting"],
             want'[c] \in Names, \A d \in Callers \ {c} : want'[d] = want[d],
             dispatcher' = dispatcher
      PROVE  CallsInStep'
  <2>1. /\ DOMAIN calls' = 1 .. Len(calls) + 1 /\ DOMAIN calls = 1 .. Len(calls)
        /\ calls'[Len(calls) + 1] = c /\ \A i \in 1 .. Len(calls) : calls'[i] = calls[i]
        /\ Len(calls') = Len(calls) + 1
    BY <1>1, <1>3
  <2>2. \A i \in 1 .. Len(calls) : calls[i] # c /\ calls[i] \in Callers
    BY <1>1, <1>2, <1>3, <2>1
  <2>3. \A i, j \in DOMAIN calls' : i # j => calls'[i] # calls'[j]
    BY <1>1, <1>2, <2>1, <2>2
  <2>4. \A i \in DOMAIN calls' : caller'[calls'[i]] = "waiting"
    BY <1>1, <1>2, <1>3, <2>1, <2>2
  <2>5. \A d \in Callers : caller'[d] # "idle" => want'[d] \in Names
    BY <1>1, <1>2, <1>3
  <2>6. calls' # <<>>
    BY <1>1, <1>3
  <2>7. dispatcher' \in {"none", "recv"} => Len(calls') <= CallCap
    BY <1>1, <1>3, <2>1 DEF InChannel
  <2> QED  BY <1>3, <2>3, <2>4, <2>5, <2>6, <2>7 DEF CallsInStep
<1>4. ASSUME calls # <<>>, Reply
      PROVE  CallsInStep'
  <2> DEFINE c == Head(calls)
  <2>1. /\ DOMAIN calls' = 1 .. Len(calls) - 1 /\ DOMAIN calls = 1 .. Len(calls)
        /\ c = calls[1] /\ c \in Callers /\ \A i \in 1 .. Len(calls) - 1 : calls'[i] = calls[i + 1]
        /\ Len(calls') = Len(calls) - 1
    BY <1>1, <1>4 DEF Reply
  <2>2. /\ caller' = [caller EXCEPT ![c] = "idle"] /\ want' = [want EXCEPT ![c] = None]
        /\ dispatcher' = "recv"
    BY <1>4 DEF Reply
  <2> HIDE DEF c
  <2>3. \A i \in 1 .. Len(calls) - 1 : i + 1 \in DOMAIN calls /\ 1 \in DOMAIN calls /\ i + 1 # 1
    BY <1>1, <2>1
  <2>4. \A i, j \in DOMAIN calls' : i # j => calls'[i] # calls'[j]
    BY <1>1, <1>2, <2>1, <2>3
  <2>5. \A i \in DOMAIN calls' : calls'[i] # c /\ calls'[i] \in Callers
    BY <1>1, <1>2, <2>1, <2>3
  <2>6. \A i \in DOMAIN calls' : caller'[calls'[i]] = "waiting"
    BY <1>1, <1>2, <2>1, <2>2, <2>3, <2>5
  <2>7. \A d \in Callers : caller'[d] # "idle" => want'[d] \in Names
    BY <1>1, <1>2, <2>1, <2>2
  <2>8. Len(calls') <= CallCap
    BY <1>1, <2>1 DEF HostTypes
  <2> QED  BY <2>2, <2>4, <2>6, <2>7, <2>8 DEF CallsInStep
<1>5. CASE UNCHANGED <<dispatcher, calls, caller, want>>
  BY <1>5 DEF CallsInStep
<1>6. ASSUME NEW c \in Callers, Call(c)
      PROVE  CallsInStep'
  <2>1. PICK n \in uses.names : want' = [want EXCEPT ![c] = n]
    BY <1>6 DEF Call
  <2>2. want'[c] \in Names /\ \A d \in Callers \ {c} : want'[d] = want[d]
    BY <1>1, <2>1
  <2>3. dispatcher # "none" /\ dispatcher' = dispatcher /\ caller[c] = "idle"
    BY <1>6 DEF Call
  <2>4. CASE caller' = [caller EXCEPT ![c] = "sending"] /\ UNCHANGED calls
    <3>1. \A i \in DOMAIN calls : calls[i] # c /\ calls[i] \in Callers
      BY <1>1, <1>2, <2>3
    <3>2. \A i \in DOMAIN calls : caller'[calls[i]] = "waiting"
      BY <1>1, <1>2, <2>4, <3>1
    <3>3. \A d \in Callers : caller'[d] # "idle" => want'[d] \in Names
      BY <1>1, <1>2, <2>2, <2>4
    <3> QED  BY <1>2, <2>3, <2>4, <3>2, <3>3 DEF CallsInStep
  <2>5. CASE /\ InChannel < CallCap
             /\ caller' = [caller EXCEPT ![c] = "waiting"] /\ calls' = Append(calls, c)
    BY <1>3, <2>2, <2>3, <2>5
  <2> QED  BY <1>6, <2>4, <2>5 DEF Call
<1>7. ASSUME NEW c \in Callers, Send(c)
      PROVE  CallsInStep'
  <2>1. caller[c] = "sending" /\ dispatcher # "none" /\ want[c] \in Names
    BY <1>2, <1>7 DEF Send
  <2> QED  BY <1>3, <1>7, <2>1 DEF Send
<1>8. CASE nonrt_dispatcher \/ DropDispatcher
  BY <1>1, <1>2, <1>8 DEF nonrt_dispatcher, DropDispatcher, CallsInStep
<1>9. CASE Receive \/ Found
  BY <1>1, <1>2, <1>9 DEF Receive, Found, CallsInStep
<1>10. CASE NotFound \/ AnswerCall
  BY <1>2, <1>4, <1>10 DEF NotFound, AnswerCall
<1>11. CASE CallStep
  BY <1>6, <1>7, <1>8, <1>9, <1>10, <1>11 DEF CallStep
<1>12. CASE ~CallStep
  <2>1. UNCHANGED <<dispatcher, calls, caller, want>>
    BY StepSplit, <1>12
       DEF HierarchyStep, HierarchyUsed, OwnerElsewhere, HttpStep, ServerElsewhere, callVars,
           register_nonrt, start_all, stop_all, OwnerRegisters, ListServices, NextService,
           OneService, NoMoreServices, RegistrarCalls, RegistrarGoesOn, RegistrarElsewhere,
           Bind, Shutdown, Drained
  <2> QED  BY <1>5, <2>1
<1> QED  BY <1>11, <1>12

-----------------------------------------------------------------------------
(* The queue of a lock. *)

Entries == Tasks \X {"read", "write"}
Distinct(q) == \A i, j \in DOMAIN q : i # j => q[i][1] # q[j][1]
InQueue(q, t) == \E i \in DOMAIN q : q[i][1] = t
HoldsIn(q, t) ==
  \E i \in DOMAIN q : q[i][1] = t /\ (i = 1 \/ \A j \in 1 .. i : q[j][2] = "read")

\* Without one of its entries, a sequence has the others in their order.
LEMMA WithoutOne ==
  ASSUME NEW S, NEW s \in Seq(S), NEW k \in 1 .. Len(s)
  PROVE  /\ RemoveAt(s, k) \in Seq(S) /\ DOMAIN RemoveAt(s, k) = 1 .. Len(s) - 1
         /\ \A i \in 1 .. Len(s) - 1 : RemoveAt(s, k)[i] = IF i < k THEN s[i] ELSE s[i + 1]
<1> DEFINE a == SubSeq(s, 1, k - 1)  b == SubSeq(s, k + 1, Len(s))  n == Len(s)
<1>1. n \in Nat /\ k \in 1 .. n
  OBVIOUS
<1>2. a \in Seq(S) /\ Len(a) = k - 1 /\ \A i \in 1 .. k - 1 : a[i] = s[i]
  OBVIOUS
<1>3. b \in Seq(S) /\ Len(b) = n - k /\ \A i \in 1 .. n - k : b[i] = s[k + i]
  OBVIOUS
<1>4. RemoveAt(s, k) = a \o b
  BY DEF RemoveAt
<1> HIDE DEF a, b, n
<1>5. /\ a \o b \in Seq(S) /\ Len(a \o b) = n - 1
      /\ \A i \in 1 .. n - 1 : (a \o b)[i] = IF i <= k - 1 THEN a[i] ELSE b[i - (k - 1)]
  <2>1. a \in Seq(S) /\ b \in Seq(S) /\ Len(a) = k - 1 /\ Len(b) = n - k
    BY <1>2, <1>3
  <2>2. (k - 1) + (n - k) = n - 1
    BY <1>1
  <2>3. /\ a \o b \in Seq(S) /\ Len(a \o b) = Len(a) + Len(b)
        /\ \A i \in 1 .. Len(a) + Len(b) :
              (a \o b)[i] = IF i <= Len(a) THEN a[i] ELSE b[i - Len(a)]
    BY <2>1, ConcatProperties, Zenon
  <2> QED  BY <2>1, <2>2, <2>3, Zenon
<1>6. DOMAIN (a \o b) = 1 .. n - 1
  BY <1>1, <1>5
<1>7. ASSUME NEW i \in 1 .. n - 1
      PROVE  (a \o b)[i] = IF i < k THEN s[i] ELSE s[i + 1]
  <2>1. CASE i < k
    <3>1. i <= k - 1 /\ i \in 1 .. k - 1
      BY <1>1, <1>7, <2>1
    <3> QED  BY <1>2, <1>5, <2>1, <3>1
  <2>2. CASE ~(i < k)
    <3>1. ~(i <= k - 1) /\ i - (k - 1) \in 1 .. n - k /\ k + (i - (k - 1)) = i + 1
      BY <1>1, <1>7, <2>2
    <3> QED  BY <1>3, <1>5, <2>2, <3>1
  <2> QED  BY <2>1, <2>2
<1> QED  BY <1>4, <1>5, <1>6, <1>7 DEF n

AfterJoin(q, r, t, mode) ==
  /\ r \in Seq(Entries) /\ Distinct(r)
  /\ \A u : InQueue(r, u) <=> InQueue(q, u) \/ u = t
  /\ \A u : HoldsIn(q, u) => HoldsIn(r, u)
  /\ \A i \in DOMAIN r : r[i] = <<t, mode>> \/ \E j \in DOMAIN q : r[i] = q[j]

\* A task that joins a queue comes last and takes the lock from nobody.
LEMMA Joins ==
  ASSUME NEW q \in Seq(Entries), NEW t \in Tasks, NEW mode \in {"read", "write"},
         Distinct(q), ~InQueue(q, t), NEW r, r = Append(q, <<t, mode>>)
  PROVE  AfterJoin(q, r, t, mode)
<1> DEFINE e == <<t, mode>>  n == Len(q)
<1>1. e \in Entries /\ e[1] = t
  BY DEF Entries
<1> HIDE DEF e
<1>2. /\ n \in Nat /\ r \in Seq(Entries) /\ DOMAIN q = 1 .. n /\ DOMAIN r = 1 .. n + 1
      /\ r[n + 1] = e /\ \A i \in 1 .. n : r[i] = q[i]
  BY <1>1 DEF e
<1> HIDE DEF n
<1>3. Distinct(r)
  BY <1>1, <1>2 DEF Distinct, InQueue
<1>4. \A u : InQueue(r, u) <=> InQueue(q, u) \/ u = t
  BY <1>1, <1>2 DEF InQueue
<1>5. ASSUME NEW u, HoldsIn(q, u)
      PROVE  HoldsIn(r, u)
  <2>1. PICK i \in DOMAIN q : q[i][1] = u /\ (i = 1 \/ \A j \in 1 .. i : q[j][2] = "read")
    BY <1>5 DEF HoldsIn
  <2>2. i \in DOMAIN r /\ r[i] = q[i] /\ \A j \in 1 .. i : r[j] = q[j]
    BY <1>2
  <2> QED  BY <2>1, <2>2 DEF HoldsIn
<1>6. \A i \in DOMAIN r : r[i] = e \/ \E j \in DOMAIN q : r[i] = q[j]
  BY <1>2
<1> QED  BY <1>2, <1>3, <1>4, <1>5, <1>6 DEF e, AfterJoin

AfterLeave(q, r, t) ==
  /\ r \in Seq(Entries) /\ Distinct(r)
  /\ \A u : InQueue(r, u) <=> InQueue(q, u) /\ u # t
  /\ \A u : HoldsIn(q, u) /\ u # t => HoldsIn(r, u)
  /\ \A i \in DOMAIN r : r[i][1] # t /\ \E j \in DOMAIN q : r[i] = q[j]

\* A task that leaves a queue leaves the others as they were, and who holds the lock
\* with it holds it still.
LEMMA Leaves ==
  ASSUME NEW q \in Seq(Entries), NEW t, Distinct(q), InQueue(q, t),
         NEW r, r = RemoveAt(q, CHOOSE i \in DOMAIN q : q[i][1] = t)
  PROVE  AfterLeave(q, r, t)
<1> DEFINE k == CHOOSE i \in DOMAIN q : q[i][1] = t  n == Len(q)
<1>1. k \in DOMAIN q /\ q[k][1] = t
  BY DEF InQueue
<1>2. n \in Nat /\ DOMAIN q = 1 .. n
  OBVIOUS
<1> HIDE DEF k
<1>3. /\ r \in Seq(Entries) /\ DOMAIN r = 1 .. n - 1
      /\ \A i \in 1 .. n - 1 : r[i] = IF i < k THEN q[i] ELSE q[i + 1]
  BY <1>1, <1>2, WithoutOne DEF k
<1> HIDE DEF n
\* Where an entry comes from.
<1> DEFINE from(i) == IF i < k THEN i ELSE i + 1
<1>4. ASSUME NEW i \in DOMAIN r
      PROVE  from(i) \in DOMAIN q /\ from(i) # k /\ r[i] = q[from(i)]
  BY <1>1, <1>2, <1>3
<1>5. \A i, j \in DOMAIN r : i # j => from(i) # from(j)
  BY <1>1, <1>2, <1>3
\* Where it goes.
<1> DEFINE to(j) == IF j < k THEN j ELSE j - 1
<1>6. ASSUME NEW j \in DOMAIN q, j # k
      PROVE  /\ to(j) \in DOMAIN r /\ r[to(j)] = q[j] /\ (j = 1 => to(j) = 1)
             /\ \A i \in 1 .. to(j) : i \in DOMAIN r /\ from(i) \in 1 .. j
  <2>1. n \in Nat /\ j \in 1 .. n /\ k \in 1 .. n /\ DOMAIN r = 1 .. n - 1
    BY <1>1, <1>2, <1>3
  <2>2. CASE j < k
    <3>1. to(j) = j /\ j \in 1 .. n - 1
      BY <2>1, <2>2
    <3>2. r[j] = q[j]
      BY <1>3, <2>2, <3>1
    <3>3. \A i \in 1 .. j : i \in 1 .. n - 1 /\ from(i) = i
      BY <2>1, <2>2
    <3> QED  BY <2>1, <3>1, <3>2, <3>3
  <2>3. CASE ~(j < k)
    <3>1. to(j) = j - 1 /\ j # 1 /\ j - 1 \in 1 .. n - 1 /\ ~(j - 1 < k) /\ (j - 1) + 1 = j
      BY <1>6, <2>1, <2>3
    <3>2. r[j - 1] = q[j]
      BY <1>3, <3>1
    <3>3. \A i \in 1 .. j - 1 : i \in 1 .. n - 1 /\ from(i) \in 1 .. j
      BY <2>1, <2>3
    <3> QED  BY <2>1, <3>1, <3>2, <3>3
  <2> QED  BY <2>2, <2>3
<1>7. \A j \in DOMAIN q : q[j][1] = t => j = k
  BY <1>1 DEF Distinct
<1> HIDE DEF from, to
<1>8. Distinct(r)
  BY <1>4, <1>5 DEF Distinct
<1>9. ASSUME NEW u
      PROVE  InQueue(r, u) <=> InQueue(q, u) /\ u # t
  <2>1. ASSUME NEW i \in DOMAIN r, r[i][1] = u
        PROVE  InQueue(q, u) /\ u # t
    BY <1>4, <1>7, <2>1 DEF InQueue
  <2>2. ASSUME NEW j \in DOMAIN q, q[j][1] = u, u # t
        PROVE  InQueue(r, u)
    <3>1. j # k
      BY <1>1, <2>2
    <3>2. to(j) \in DOMAIN r /\ r[to(j)] = q[j]
      BY <1>6, <3>1
    <3> QED  BY <2>2, <3>2 DEF InQueue
  <2> QED  BY <2>1, <2>2 DEF InQueue
<1>10. ASSUME NEW u, HoldsIn(q, u), u # t
       PROVE  HoldsIn(r, u)
  <2>1. PICK j \in DOMAIN q : q[j][1] = u /\ (j = 1 \/ \A i \in 1 .. j : q[i][2] = "read")
    BY <1>10 DEF HoldsIn
  <2>2. j # k
    BY <1>1, <1>10, <2>1
  <2>3. /\ to(j) \in DOMAIN r /\ r[to(j)] = q[j] /\ (j = 1 => to(j) = 1)
        /\ \A i \in 1 .. to(j) : i \in DOMAIN r /\ from(i) \in 1 .. j
    BY <1>6, <2>2
  <2>4. ASSUME \A i \in 1 .. j : q[i][2] = "read", NEW i \in 1 .. to(j)
        PROVE  r[i][2] = "read"
    BY <1>4, <2>3, <2>4
  <2> QED  BY <2>1, <2>3, <2>4 DEF HoldsIn
<1>11. \A i \in DOMAIN r : r[i][1] # t /\ \E j \in DOMAIN q : r[i] = q[j]
  BY <1>4, <1>7
<1> QED  BY <1>3, <1>8, <1>9, <1>10, <1>11 DEF AfterLeave

\* Who holds a lock for writing holds it alone.
LEMMA WriterAlone ==
  ASSUME NEW q \in Seq(Entries), Distinct(q), NEW t, NEW u, HoldsIn(q, t), HoldsIn(q, u),
         \A i \in DOMAIN q : q[i][1] = t => q[i][2] = "write"
  PROVE  t = u
<1>1. PICK i \in DOMAIN q : q[i][1] = t /\ (i = 1 \/ \A l \in 1 .. i : q[l][2] = "read")
  BY DEF HoldsIn
<1>2. PICK j \in DOMAIN q : q[j][1] = u /\ (j = 1 \/ \A l \in 1 .. j : q[l][2] = "read")
  BY DEF HoldsIn
<1>3. Len(q) \in Nat /\ DOMAIN q = 1 .. Len(q) /\ i \in 1 .. i /\ 1 \in 1 .. j
  OBVIOUS
<1>4. i = 1
  BY <1>1, <1>3
<1>5. j = 1
  BY <1>1, <1>2, <1>3, <1>4
<1> QED  BY <1>1, <1>2, <1>4, <1>5

-----------------------------------------------------------------------------
(* All queues: what a step does to one of them, and that it is the only one. *)

Lockers == {"owner", "registrar", "dispatcher"}
QueueTypes(Q) == Q \in [Locks -> Seq(Entries)] /\ \A l \in Locks : Distinct(Q[l])

JoinedTo(Q, R, l, t, mode) ==
  /\ QueueTypes(R)
  /\ \A m \in Locks, u \in Lockers : InQueue(R[m], u) <=> InQueue(Q[m], u) \/ (u = t /\ m = l)
  /\ \A m \in Locks, u \in Lockers : HoldsIn(Q[m], u) => HoldsIn(R[m], u)
  /\ \A m \in Locks : \A i \in DOMAIN R[m] :
       (m = l /\ R[m][i] = <<t, mode>>) \/ \E j \in DOMAIN Q[m] : R[m][i] = Q[m][j]

LeftFrom(Q, R, l, t) ==
  /\ QueueTypes(R)
  /\ \A m \in Locks, u \in Lockers : InQueue(R[m], u) <=> InQueue(Q[m], u) /\ ~(u = t /\ m = l)
  /\ \A m \in Locks, u \in Lockers :
       HoldsIn(Q[m], u) /\ ~(u = t /\ m = l) => HoldsIn(R[m], u)
  /\ \A m \in Locks : \A i \in DOMAIN R[m] : \E j \in DOMAIN Q[m] : R[m][i] = Q[m][j]

\* The request of a lock.
LEMMA EnqueueJoins ==
  ASSUME NEW Q, QueueTypes(Q), NEW l \in Locks, NEW t \in Lockers, NEW mode \in {"read", "write"},
         ~InQueue(Q[l], t)
  PROVE  JoinedTo(Q, Enqueue(Q, l, t, mode), l, t, mode)
<1> DEFINE R == Enqueue(Q, l, t, mode)  r == Append(Q[l], <<t, mode>>)
<1>1. Q \in [Locks -> Seq(Entries)] /\ Distinct(Q[l]) /\ t \in Tasks
  BY DEF QueueTypes, Lockers, Tasks
<1>2. Q[l] \in Seq(Entries)
  BY <1>1
<1>3. R = [Q EXCEPT ![l] = r]
  BY DEF Enqueue
<1> HIDE DEF R, r
<1>4. R[l] = r /\ DOMAIN R = Locks /\ \A m \in Locks \ {l} : R[m] = Q[m]
  BY <1>1, <1>3
<1>5. R = [m \in Locks |-> R[m]]
  BY <1>1, <1>3
<1>6. AfterJoin(Q[l], r, t, mode)
  BY <1>1, <1>2, Joins DEF r
<1>7. R \in [Locks -> Seq(Entries)]
  BY <1>1, <1>4, <1>5, <1>6 DEF AfterJoin
<1>8. \A m \in Locks : Distinct(R[m])
  BY <1>4, <1>6 DEF QueueTypes, AfterJoin
<1>9. \A m \in Locks, u \in Lockers : InQueue(R[m], u) <=> InQueue(Q[m], u) \/ (u = t /\ m = l)
  BY <1>4, <1>6 DEF AfterJoin
<1>10. \A m \in Locks, u \in Lockers : HoldsIn(Q[m], u) => HoldsIn(R[m], u)
  BY <1>4, <1>6 DEF AfterJoin
<1>11. ASSUME NEW m \in Locks, NEW i \in DOMAIN R[m]
       PROVE  (m = l /\ R[m][i] = <<t, mode>>) \/ \E j \in DOMAIN Q[m] : R[m][i] = Q[m][j]
  BY <1>4, <1>6 DEF AfterJoin
<1>12. JoinedTo(Q, R, l, t, mode)
  BY <1>7, <1>8, <1>9, <1>10, <1>11 DEF JoinedTo, QueueTypes
<1> QED  BY <1>12 DEF R

\* The end of a guard's scope.
LEMMA ReleaseLeaves ==
  ASSUME NEW Q, QueueTypes(Q), NEW l \in Locks, NEW t \in Lockers, InQueue(Q[l], t)
  PROVE  LeftFrom(Q, Release(Q, l, t), l, t)
<1> DEFINE R == Release(Q, l, t)
           r == RemoveAt(Q[l], CHOOSE i \in DOMAIN Q[l] : Q[l][i][1] = t)
<1>1. Q \in [Locks -> Seq(Entries)] /\ Distinct(Q[l])
  BY DEF QueueTypes
<1>2. Q[l] \in Seq(Entries)
  BY <1>1
<1>3. R = [Q EXCEPT ![l] = r]
  BY DEF Release
<1> HIDE DEF R, r
<1>4. R[l] = r /\ DOMAIN R = Locks /\ \A m \in Locks \ {l} : R[m] = Q[m]
  BY <1>1, <1>3
<1>5. R = [m \in Locks |-> R[m]]
  BY <1>1, <1>3
<1>6. AfterLeave(Q[l], r, t)
  BY <1>1, <1>2, Leaves DEF r
<1>7. R \in [Locks -> Seq(Entries)]
  BY <1>1, <1>4, <1>5, <1>6 DEF AfterLeave
<1>8. \A m \in Locks : Distinct(R[m])
  BY <1>4, <1>6 DEF QueueTypes, AfterLeave
<1>9. \A m \in Locks, u \in Lockers : InQueue(R[m], u) <=> InQueue(Q[m], u) /\ ~(u = t /\ m = l)
  BY <1>4, <1>6 DEF AfterLeave
<1>10. \A m \in Locks, u \in Lockers :
        HoldsIn(Q[m], u) /\ ~(u = t /\ m = l) => HoldsIn(R[m], u)
  BY <1>4, <1>6 DEF AfterLeave
<1>11. ASSUME NEW m \in Locks, NEW i \in DOMAIN R[m]
       PROVE  \E j \in DOMAIN Q[m] : R[m][i] = Q[m][j]
  BY <1>4, <1>6 DEF AfterLeave
<1>12. LeftFrom(Q, R, l, t)
  BY <1>7, <1>8, <1>9, <1>10, <1>11 DEF LeftFrom, QueueTypes
<1> QED  BY <1>12 DEF R

\* The queues in the words of the lemmas above.
LEMMA QueueWords ==
  ASSUME HostTypes
  PROVE  /\ QueueTypes(lockq)
         /\ \A l, t : Queued(t, l) <=> InQueue(lockq[l], t)
         /\ \A l, t : Holds(t, l) <=> HoldsIn(lockq[l], t)
<1>1. QueueTypes(lockq)
  BY DEF HostTypes, QueueTypes, Entries, Distinct
<1> QED  BY <1>1 DEF Queued, InQueue, Holds, HoldsIn

\* dispatcher.rs keeps the guard of the map while it waits for the service: the
\* registry does not change, so that the service found is still registered.
LEMMA MapGuarded ==
  ASSUME HostInv, OwnerRegisters \/ RegistrarGoesOn
  PROVE  dispatcher # "service"
<1> SUFFICES ASSUME dispatcher = "service" PROVE FALSE
  OBVIOUS
<1> DEFINE q == lockq[MapLock]
<1>1. q \in Seq(Entries) /\ Distinct(q) /\ MapLock \in Locks
  BY QueueWords DEF QueueTypes, HostInv, Locks
<1>2. HoldsIn(q, "dispatcher")
  BY QueueWords DEF HostInv, FoundInStep
<1>3. \A i \in DOMAIN q :
        q[i] \in {<<"owner", IF owner.op = "register" THEN "write" ELSE "read">>,
                  <<"registrar", "write">>, <<"dispatcher", "read">>}
  BY DEF HostInv, MapModes
<1>4. PICK t \in {"owner", "registrar"} :
        /\ HoldsIn(q, t)
        /\ t = "owner" => owner.op = "register"
  BY QueueWords DEF HostInv, OwnerRegisters, RegistrarGoesOn
<1> HIDE DEF q
<1>5. \A i \in DOMAIN q : q[i][1] = t => q[i][2] = "write"
  BY <1>3, <1>4
<1>6. t = "dispatcher"
  BY <1>1, <1>2, <1>4, <1>5, WriterAlone
<1> QED  BY <1>4, <1>6

\* Steps that leave the dispatcher, its channel and its callers alone.
LEMMA DispatcherStays ==
  ASSUME UNCHANGED <<dispatcher, calls, want>>, registry' = registry \/ dispatcher # "service"
  PROVE  /\ \A l : DispatcherIn(l)' <=> DispatcherIn(l)
         /\ dispatcher' = "service" => dispatcher = "service" /\ Asked' = Asked
BY DEF DispatcherIn, Asked

\* The lock of the map is none of a service.
LEMMA ServiceLocks == Instances \subseteq Locks /\ MapLock \notin Instances /\ MapLock \in Locks
BY DEF MapLock, Locks, Instances

\* The locks of the host, together.
LockInv == QueueTypes(lockq) /\ QueuesInStep /\ MapModes /\ ServiceModes /\ FoundInStep

\* A step that leaves the queues alone, and the calls of the tasks where they are in
\* them.
LEMMA LocksStay ==
  ASSUME HostTypes, LockInv, lockq' = lockq,
         \A l \in Locks : /\ OwnerIn(l)' <=> OwnerIn(l)
                          /\ RegistrarIn(l)' <=> RegistrarIn(l)
                          /\ DispatcherIn(l)' <=> DispatcherIn(l),
         OwnerIn(MapLock) => owner'.op = owner.op,
         dispatcher' = "service" => dispatcher = "service" /\ Asked' = Asked
  PROVE  LockInv'
<1>1. QueuesInStep'
  BY DEF LockInv, QueuesInStep, Queued
<1>2. MapModes'
  <2>1. ASSUME NEW i \in DOMAIN lockq[MapLock], lockq[MapLock][i][1] = "owner"
        PROVE  owner'.op = owner.op
    BY <2>1 DEF LockInv, QueuesInStep, Queued, Locks
  <2> QED  BY <2>1 DEF LockInv, MapModes
<1>3. FoundInStep' /\ ServiceModes'
  BY DEF LockInv, FoundInStep, ServiceModes, Holds
<1> QED  BY <1>1, <1>2, <1>3 DEF LockInv, QueueTypes

\* A step with which the owner asks for a lock.
LEMMA OwnerJoins ==
  ASSUME HostTypes, LockInv, NEW l \in Locks, NEW mode \in {"read", "write"},
         lockq' = Enqueue(lockq, l, "owner", mode), \A m \in Locks : ~OwnerIn(m),
         \A m \in Locks : /\ OwnerIn(m)' <=> m = l
                          /\ RegistrarIn(m)' <=> RegistrarIn(m)
                          /\ DispatcherIn(m)' <=> DispatcherIn(m),
         l = MapLock => mode = IF owner'.op = "register" THEN "write" ELSE "read",
         l # MapLock => mode = "write",
         dispatcher' = "service" => dispatcher = "service" /\ Asked' = Asked
  PROVE  LockInv'
<1>1. MapLock \in Locks /\ Lockers = {"owner", "registrar", "dispatcher"}
  BY DEF Locks, Lockers
<1>2. \A m \in Locks : ~InQueue(lockq[m], "owner")
  BY DEF LockInv, QueuesInStep, Queued, InQueue
<1>3. JoinedTo(lockq, lockq', l, "owner", mode)
  BY <1>1, <1>2, QueueWords, EnqueueJoins
<1>4. QueuesInStep'
  BY <1>1, <1>2, <1>3 DEF LockInv, QueuesInStep, Queued, InQueue, JoinedTo
<1>5. MapModes'
  <2>1. \A j \in DOMAIN lockq[MapLock] : lockq[MapLock][j][1] # "owner"
    BY <1>1, <1>2 DEF InQueue
  <2>2. \A j \in DOMAIN lockq[MapLock] :
          lockq[MapLock][j] \in {<<"registrar", "write">>, <<"dispatcher", "read">>}
    BY <2>1 DEF LockInv, MapModes
  <2>3. \A i \in DOMAIN lockq'[MapLock] :
          \/ MapLock = l /\ lockq'[MapLock][i] = <<"owner", mode>>
          \/ \E j \in DOMAIN lockq[MapLock] : lockq'[MapLock][i] = lockq[MapLock][j]
    BY <1>1, <1>3 DEF JoinedTo
  <2> QED  BY <2>2, <2>3 DEF MapModes
<1>6. FoundInStep'
  BY <1>1, <1>3 DEF LockInv, FoundInStep, JoinedTo, Holds, HoldsIn
<1>7. ServiceModes'
  <2>1. SUFFICES ASSUME NEW m \in Instances, NEW i \in DOMAIN lockq'[m]
                 PROVE  lockq'[m][i] \in {<<"owner", "write">>, <<"dispatcher", "read">>}
    BY DEF ServiceModes
  <2>2. m \in Locks /\ m # MapLock
    BY ServiceLocks
  <2>3. \/ m = l /\ lockq'[m][i] = <<"owner", mode>>
        \/ \E j \in DOMAIN lockq[m] : lockq'[m][i] = lockq[m][j]
    BY <1>3, <2>2 DEF JoinedTo
  <2>4. \A j \in DOMAIN lockq[m] :
          lockq[m][j] \in {<<"owner", "write">>, <<"dispatcher", "read">>}
    BY DEF LockInv, ServiceModes
  <2> QED  BY <2>2, <2>3, <2>4
<1> QED  BY <1>3, <1>4, <1>5, <1>6, <1>7 DEF LockInv, QueueTypes, JoinedTo

\* A step with which the owner lets go of the lock it holds.
LEMMA OwnerLeaves ==
  ASSUME HostTypes, LockInv, NEW l \in Locks, lockq' = Release(lockq, l, "owner"),
         \A m \in Locks : OwnerIn(m) <=> m = l,
         \A m \in Locks : /\ ~OwnerIn(m)'
                          /\ RegistrarIn(m)' <=> RegistrarIn(m)
                          /\ DispatcherIn(m)' <=> DispatcherIn(m),
         dispatcher' = "service" => dispatcher = "service" /\ Asked' = Asked
  PROVE  LockInv'
<1>1. MapLock \in Locks /\ Lockers = {"owner", "registrar", "dispatcher"}
  BY DEF Locks, Lockers
<1>2. \A m \in Locks : InQueue(lockq[m], "owner") <=> m = l
  BY DEF LockInv, QueuesInStep, Queued, InQueue
<1>3. LeftFrom(lockq, lockq', l, "owner")
  BY <1>1, <1>2, QueueWords, ReleaseLeaves
<1>4. QueuesInStep'
  BY <1>1, <1>2, <1>3 DEF LockInv, QueuesInStep, Queued, InQueue, LeftFrom
<1>5. MapModes'
  <2>1. ~InQueue(lockq'[MapLock], "owner")
    BY <1>1, <1>2, <1>3 DEF LeftFrom
  <2>2. \A i \in DOMAIN lockq'[MapLock] :
          /\ lockq'[MapLock][i][1] # "owner"
          /\ \E j \in DOMAIN lockq[MapLock] : lockq'[MapLock][i] = lockq[MapLock][j]
    BY <1>1, <1>3, <2>1 DEF LeftFrom, InQueue
  <2> QED  BY <2>2 DEF LockInv, MapModes
<1>6. FoundInStep'
  BY <1>1, <1>3 DEF LockInv, FoundInStep, LeftFrom, Holds, HoldsIn
<1>7. ServiceModes'
  BY <1>3, ServiceLocks DEF LockInv, ServiceModes, LeftFrom
<1> QED  BY <1>3, <1>4, <1>5, <1>6, <1>7 DEF LockInv, QueueTypes, LeftFrom

\* A step with which the dispatcher asks for a lock, that of the map or that of the
\* service it found.
LEMMA DispatcherJoins ==
  ASSUME HostTypes, LockInv, NEW l \in Locks, lockq' = Enqueue(lockq, l, "dispatcher", "read"),
         ~DispatcherIn(l), UNCHANGED <<owner, registrar>>,
         \A m \in Locks : DispatcherIn(m)' <=> DispatcherIn(m) \/ m = l,
         dispatcher' = "service" => Asked' # None /\ Holds("dispatcher", MapLock)
  PROVE  LockInv'
<1>1. MapLock \in Locks /\ Lockers = {"owner", "registrar", "dispatcher"}
  BY DEF Locks, Lockers
<1>2. ~InQueue(lockq[l], "dispatcher")
  BY DEF LockInv, QueuesInStep, Queued, InQueue
<1>3. JoinedTo(lockq, lockq', l, "dispatcher", "read")
  BY <1>1, <1>2, QueueWords, EnqueueJoins
<1>4. QueuesInStep'
  BY <1>1, <1>3 DEF LockInv, QueuesInStep, Queued, InQueue, JoinedTo, OwnerIn, RegistrarIn
<1>5. MapModes'
  BY <1>1, <1>3 DEF LockInv, MapModes, JoinedTo
<1>6. FoundInStep'
  BY <1>1, <1>3 DEF FoundInStep, JoinedTo, Holds, HoldsIn
<1>7. ServiceModes'
  BY <1>3, ServiceLocks DEF LockInv, ServiceModes, JoinedTo
<1> QED  BY <1>3, <1>4, <1>5, <1>6, <1>7 DEF LockInv, QueueTypes, JoinedTo

\* A step with which the dispatcher lets go of all that it holds, after a reply.
LEMMA DispatcherLeaves ==
  ASSUME HostTypes, LockInv, QueueTypes(lockq'), dispatcher' = "recv",
         UNCHANGED <<owner, registrar>>,
         \A m \in Locks, u \in Lockers :
           InQueue(lockq'[m], u) <=> InQueue(lockq[m], u) /\ u # "dispatcher",
         \A m \in Locks : \A i \in DOMAIN lockq'[m] : \E j \in DOMAIN lockq[m] : lockq'[m][i] = lockq[m][j]
  PROVE  LockInv'
<1>1. Lockers = {"owner", "registrar", "dispatcher"}
  BY DEF Lockers
<1>2. \A m \in Locks : ~DispatcherIn(m)'
  BY DEF DispatcherIn
<1>3. QueuesInStep'
  BY <1>1, <1>2 DEF LockInv, QueuesInStep, Queued, InQueue, OwnerIn, RegistrarIn
<1>4. MapModes' /\ ServiceModes'
  BY ServiceLocks DEF LockInv, MapModes, ServiceModes
<1>5. FoundInStep'
  BY DEF FoundInStep
<1> QED  BY <1>3, <1>4, <1>5 DEF LockInv, QueueTypes

\* A step with which the registrar asks for the map, or lets go of it.
LEMMA RegistrarMoves ==
  ASSUME HostTypes, LockInv, UNCHANGED <<owner, dispatcher>>,
         \/ /\ lockq' = Enqueue(lockq, MapLock, "registrar", "write")
            /\ registrar = NoCall /\ registrar' # NoCall
         \/ /\ lockq' = Release(lockq, MapLock, "registrar")
            /\ registrar # NoCall /\ registrar' = NoCall,
         \A m \in Locks : DispatcherIn(m)' <=> DispatcherIn(m),
         dispatcher = "service" => Asked' = Asked
  PROVE  LockInv'
<1>1. MapLock \in Locks /\ Lockers = {"owner", "registrar", "dispatcher"}
  BY DEF Locks, Lockers
<1>2. InQueue(lockq[MapLock], "registrar") <=> registrar # NoCall
  BY <1>1 DEF LockInv, QueuesInStep, Queued, InQueue, RegistrarIn
<1>3. CASE registrar = NoCall /\ registrar' # NoCall
  <2>1. JoinedTo(lockq, lockq', MapLock, "registrar", "write")
    BY <1>1, <1>2, <1>3, QueueWords, EnqueueJoins
  <2>2. QueuesInStep'
    BY <1>1, <1>3, <2>1
       DEF LockInv, QueuesInStep, Queued, InQueue, JoinedTo, OwnerIn, RegistrarIn
  <2>3. MapModes'
    BY <1>1, <2>1 DEF LockInv, MapModes, JoinedTo
  <2>4. FoundInStep'
    BY <1>1, <2>1 DEF LockInv, FoundInStep, JoinedTo, Holds, HoldsIn
  <2>5. ServiceModes'
    BY <2>1, ServiceLocks DEF LockInv, ServiceModes, JoinedTo
  <2> QED  BY <2>1, <2>2, <2>3, <2>4, <2>5 DEF LockInv, QueueTypes, JoinedTo
<1>4. CASE registrar # NoCall /\ registrar' = NoCall
  <2>1. LeftFrom(lockq, lockq', MapLock, "registrar")
    BY <1>1, <1>2, <1>4, QueueWords, ReleaseLeaves
  <2>2. QueuesInStep'
    BY <1>1, <1>4, <2>1
       DEF LockInv, QueuesInStep, Queued, InQueue, LeftFrom, OwnerIn, RegistrarIn
  <2>3. MapModes'
    BY <1>1, <2>1 DEF LockInv, MapModes, LeftFrom
  <2>4. FoundInStep'
    BY <1>1, <2>1 DEF LockInv, FoundInStep, LeftFrom, Holds, HoldsIn
  <2>5. ServiceModes'
    BY <2>1, ServiceLocks DEF LockInv, ServiceModes, LeftFrom
  <2> QED  BY <2>1, <2>2, <2>3, <2>4, <2>5 DEF LockInv, QueueTypes, LeftFrom
<1> QED  BY <1>3, <1>4

\* Every step of every task keeps the queues in line with the calls.
LEMMA LocksKept ==
  ASSUME HostInv, [Next]_vars
  PROVE  LockInv'
<1>1. HostTypes /\ LockInv /\ OwnerInStep /\ CallsInStep /\ RegistrarInStep
  BY QueueWords DEF HostInv, LockInv
<1>2. /\ owner \in [op : {"none", "register", "start", "stop"},
                    pc : {"idle", "map", "next", "service"}, name : Names \cup {None},
                    todo : SUBSET Instances, cur : Instances \cup {None}]
      /\ registry \in [Names -> Instances \cup {None}] /\ calls \in Seq(Callers)
      /\ want \in [Callers -> Names \cup {None}]
      /\ caller \in [Callers -> {"idle", "sending", "waiting"}]
      /\ dispatcher \in {"none", "recv", "map", "service"}
  BY <1>1 DEF HostTypes
<1>3. MapLock \in Locks /\ MapLock \notin Instances /\ Instances \subseteq Locks
  BY DEF MapLock, Locks, Instances
<1>4. None \notin Instances
  BY ServiceHostAssumption
<1>5. CASE HierarchyStep \/ HttpStep \/ \E s \in Servers : Bind(s) \/ Shutdown(s) \/ Drained(s)
  <2>1. UNCHANGED <<registry, owner, registrar, lockq, dispatcher, calls, want>>
    BY <1>5 DEF HierarchyStep, HierarchyUsed, OwnerElsewhere, HttpStep, ServerElsewhere,
                Bind, Shutdown, Drained, serviceVars, callVars
  <2>2. \A l \in Locks : (OwnerIn(l)' <=> OwnerIn(l)) /\ (RegistrarIn(l)' <=> RegistrarIn(l))
    BY <2>1 DEF OwnerIn, RegistrarIn
  <2> QED  BY <1>1, <2>1, <2>2, DispatcherStays, LocksStay
<1>6. CASE (\E n \in uses.names : register_nonrt(n)) \/ start_all \/ stop_all
  <2>1. /\ UNCHANGED <<registry, registrar, dispatcher, calls, want>>
        /\ owner.pc = "idle" /\ owner'.pc = "map"
    BY <1>6 DEF register_nonrt, start_all, stop_all, OwnerElsewhere, serviceVars, callVars, Idle
  <2>2. \E mode \in {"read", "write"} :
          /\ lockq' = Enqueue(lockq, MapLock, "owner", mode)
          /\ mode = IF owner'.op = "register" THEN "write" ELSE "read"
    BY <1>6 DEF register_nonrt, start_all, stop_all, Idle
  <2>3. \A l \in Locks : ~OwnerIn(l) /\ (OwnerIn(l)' <=> l = MapLock)
                         /\ (RegistrarIn(l)' <=> RegistrarIn(l))
    BY <2>1 DEF OwnerIn, RegistrarIn
  <2> QED  BY <1>1, <1>3, <2>1, <2>2, <2>3, DispatcherStays, OwnerJoins
<1>7. CASE OwnerRegisters \/ ListServices
  <2>1. /\ UNCHANGED <<registrar, dispatcher, calls, want>>
        /\ lockq' = Release(lockq, MapLock, "owner")
        /\ owner.pc = "map" /\ owner'.pc \in {"idle", "next"}
    <3>1. CASE OwnerRegisters
      BY <1>1, <3>1 DEF OwnerRegisters, OwnerElsewhere, callVars, Idle, OwnerInStep
    <3>2. CASE ListServices
      BY <1>2, <3>2 DEF ListServices, OwnerElsewhere, callVars
    <3> QED  BY <1>7, <3>1, <3>2
  <2>2. registry' = registry \/ dispatcher # "service"
    BY <1>7, MapGuarded DEF ListServices, serviceVars
  <2>3. \A l \in Locks : (OwnerIn(l) <=> l = MapLock) /\ ~OwnerIn(l)'
                         /\ (RegistrarIn(l)' <=> RegistrarIn(l))
    BY <2>1 DEF OwnerIn, RegistrarIn
  <2> QED  BY <1>1, <1>3, <2>1, <2>2, <2>3, DispatcherStays, OwnerLeaves
<1>8. CASE NextService
  <2>1. PICK i \in owner.todo :
          /\ owner' = [owner EXCEPT !.pc = "service", !.todo = @ \ {i}, !.cur = i]
          /\ lockq' = Enqueue(lockq, i, "owner", "write")
    BY <1>8 DEF NextService
  <2>2. UNCHANGED <<registry, registrar, dispatcher, calls, want>> /\ owner.pc = "next"
    BY <1>8 DEF NextService, OwnerElsewhere, callVars
  <2>3. i \in Instances /\ i # MapLock /\ owner'.pc = "service" /\ owner'.cur = i
    BY <1>2, <1>3, <2>1
  <2>4. \A l \in Locks : ~OwnerIn(l) /\ (OwnerIn(l)' <=> l = i)
                         /\ (RegistrarIn(l)' <=> RegistrarIn(l))
    BY <2>2, <2>3 DEF OwnerIn, RegistrarIn
  <2> QED  BY <1>1, <1>3, <2>1, <2>2, <2>3, <2>4, DispatcherStays, OwnerJoins
<1>9. CASE OneService
  <2>1. /\ UNCHANGED <<registrar, dispatcher, calls, want>>
        /\ lockq' = Release(lockq, owner.cur, "owner")
        /\ owner.pc = "service" /\ owner'.pc = "next"
    BY <1>2, <1>9 DEF OneService, OwnerElsewhere, callVars
  <2>2. registry' = registry
    BY <1>9 DEF OneService, start, stop
  <2>3. owner.cur \in Instances
    BY <1>1, <1>2, <2>1 DEF OwnerInStep
  <2>4. \A l \in Locks : (OwnerIn(l) <=> l = owner.cur) /\ ~OwnerIn(l)'
                         /\ (RegistrarIn(l)' <=> RegistrarIn(l))
    BY <2>1 DEF OwnerIn, RegistrarIn
  <2> QED  BY <1>1, <1>3, <2>1, <2>2, <2>3, <2>4, DispatcherStays, OwnerLeaves
<1>10. CASE NoMoreServices
  <2>1. /\ UNCHANGED <<registry, registrar, lockq, dispatcher, calls, want>>
        /\ owner.pc = "next" /\ owner'.pc = "idle"
    BY <1>10 DEF NoMoreServices, OwnerElsewhere, callVars, Idle
  <2>2. \A l \in Locks : ~OwnerIn(l) /\ ~OwnerIn(l)' /\ (RegistrarIn(l)' <=> RegistrarIn(l))
    BY <2>1 DEF OwnerIn, RegistrarIn
  <2> QED  BY <1>1, <1>3, <2>1, <2>2, DispatcherStays, LocksStay
<1>11. CASE RegistrarCalls
  <2>1. /\ UNCHANGED <<registry, owner, dispatcher, calls, want>>
        /\ lockq' = Enqueue(lockq, MapLock, "registrar", "write") /\ registrar = NoCall
    BY <1>11 DEF RegistrarCalls, RegistrarElsewhere, serviceVars, callVars
  <2>2. registrar' # NoCall
    BY <1>11 DEF RegistrarCalls, NoCall
  <2> QED  BY <1>1, <2>1, <2>2, DispatcherStays, RegistrarMoves
<1>12. CASE RegistrarGoesOn
  <2>1. /\ UNCHANGED <<owner, dispatcher, calls, want>>
        /\ lockq' = Release(lockq, MapLock, "registrar")
        /\ registrar # NoCall /\ registrar' = NoCall
    BY <1>12 DEF RegistrarGoesOn, RegistrarElsewhere, callVars, NoCall
  <2>2. dispatcher # "service"
    BY <1>12, MapGuarded
  <2> QED  BY <1>1, <2>1, <2>2, DispatcherStays, RegistrarMoves
<1>13. CASE CallStep
  <2>1. UNCHANGED <<registry, owner, registrar>>
    BY <1>13 DEF CallStep, nonrt_dispatcher, DropDispatcher, Receive, NotFound, Found,
                 AnswerCall, Call, Send, CallElsewhere, serviceVars
  <2>2. \A l \in Locks : (OwnerIn(l)' <=> OwnerIn(l)) /\ (RegistrarIn(l)' <=> RegistrarIn(l))
    BY <2>1 DEF OwnerIn, RegistrarIn
  <2>3. CASE nonrt_dispatcher \/ DropDispatcher
    <3>1. lockq' = lockq /\ dispatcher \in {"none", "recv"} /\ dispatcher' \in {"none", "recv"}
      BY <2>3 DEF nonrt_dispatcher, DropDispatcher
    <3>2. \A l \in Locks : ~DispatcherIn(l) /\ ~DispatcherIn(l)'
      BY <3>1 DEF DispatcherIn
    <3> QED  BY <1>1, <2>1, <2>2, <3>1, <3>2, LocksStay
  <2>4. ASSUME NEW c \in Callers, Call(c) \/ Send(c)
        PROVE  LockInv'
    <3>1. lockq' = lockq /\ dispatcher' = dispatcher /\ caller[c] # "waiting"
      BY <2>4 DEF Call, Send
    <3>2. ASSUME dispatcher = "service"
          PROVE  Asked' = Asked
      <4>1. calls # <<>> /\ (calls' = calls \/ calls' = Append(calls, c))
        BY <1>1, <2>4, <3>2 DEF Call, Send, CallsInStep
      <4>2. Head(calls') = Head(calls) /\ Head(calls) = calls[1] /\ 1 \in DOMAIN calls
        BY <1>2, <4>1
      <4>3. Head(calls) \in Callers \ {c}
        BY <1>1, <1>2, <3>1, <4>2 DEF CallsInStep
      <4>4. want'[Head(calls)] = want[Head(calls)]
        BY <1>2, <2>4, <4>3 DEF Call, Send
      <4> QED  BY <2>1, <4>2, <4>4 DEF Asked
    <3>3. \A l \in Locks : DispatcherIn(l)' <=> DispatcherIn(l)
      BY <3>1, <3>2 DEF DispatcherIn
    <3> QED  BY <1>1, <2>1, <2>2, <3>1, <3>2, <3>3, LocksStay
  <2>5. CASE Receive
    <3>1. /\ lockq' = Enqueue(lockq, MapLock, "dispatcher", "read")
          /\ dispatcher = "recv" /\ dispatcher' = "map"
      BY <2>5 DEF Receive
    <3>2. \A l \in Locks : ~DispatcherIn(l) /\ (DispatcherIn(l)' <=> l = MapLock)
      BY <3>1 DEF DispatcherIn
    <3> QED  BY <1>1, <1>3, <2>1, <3>1, <3>2, DispatcherJoins
  <2>6. CASE Found
    <3>1. /\ lockq' = Enqueue(lockq, Asked, "dispatcher", "read") /\ Asked # None
          /\ dispatcher = "map" /\ dispatcher' = "service" /\ Holds("dispatcher", MapLock)
          /\ Asked' = Asked
      BY <2>1, <2>6 DEF Found, Asked
    <3>2. Asked \in Instances
      <4>1. calls # <<>>
        BY <1>1, <3>1 DEF CallsInStep
      <4>2. 1 \in DOMAIN calls /\ Head(calls) = calls[1] /\ calls[1] \in Callers
        BY <1>2, <4>1
      <4>3. want[Head(calls)] \in Names
        BY <1>1, <4>2 DEF CallsInStep
      <4> QED  BY <1>2, <3>1, <4>3 DEF Asked
    <3>3. ~DispatcherIn(Asked)
      BY <1>3, <3>1, <3>2 DEF DispatcherIn
    <3>4. \A l \in Locks : DispatcherIn(l)' <=> DispatcherIn(l) \/ l = Asked
      BY <3>1 DEF DispatcherIn
    <3> QED  BY <1>1, <1>3, <2>1, <3>1, <3>2, <3>3, <3>4, DispatcherJoins
  <2>7. CASE NotFound
    <3>1. /\ lockq' = Release(lockq, MapLock, "dispatcher")
          /\ dispatcher = "map" /\ dispatcher' = "recv"
      BY <2>7 DEF NotFound, Reply
    <3>2. \A l \in Locks : InQueue(lockq[l], "dispatcher") <=> l = MapLock
      BY <1>1, <3>1 DEF LockInv, QueuesInStep, Queued, InQueue, DispatcherIn
    <3>3. LeftFrom(lockq, lockq', MapLock, "dispatcher")
      BY <1>1, <1>3, <3>1, <3>2, QueueWords, ReleaseLeaves DEF Lockers
    <3>4. \A m \in Locks, u \in Lockers :
            InQueue(lockq'[m], u) <=> InQueue(lockq[m], u) /\ u # "dispatcher"
      BY <3>2, <3>3 DEF LeftFrom
    <3> QED  BY <1>1, <1>3, <2>1, <3>1, <3>3, <3>4, DispatcherLeaves DEF LeftFrom
  <2>8. CASE AnswerCall
    <3> DEFINE Q == Release(lockq, Asked, "dispatcher")
    <3>1. /\ lockq' = Release(Q, MapLock, "dispatcher")
          /\ dispatcher = "service" /\ dispatcher' = "recv"
      BY <2>8 DEF AnswerCall, Asked, Reply
    <3>2. Asked \in Instances
      <4>1. calls # <<>> /\ Asked # None
        BY <1>1, <3>1 DEF CallsInStep, LockInv, FoundInStep
      <4>2. 1 \in DOMAIN calls /\ Head(calls) = calls[1] /\ calls[1] \in Callers
        BY <1>2, <4>1
      <4>3. want[Head(calls)] \in Names
        BY <1>1, <4>2 DEF CallsInStep
      <4> QED  BY <1>2, <4>1, <4>3 DEF Asked
    <3>3. \A l \in Locks : InQueue(lockq[l], "dispatcher") <=> l = MapLock \/ l = Asked
      BY <1>1, <3>1 DEF LockInv, QueuesInStep, Queued, InQueue, DispatcherIn
    <3>4. LeftFrom(lockq, Q, Asked, "dispatcher")
      BY <1>1, <1>3, <3>2, <3>3, QueueWords, ReleaseLeaves DEF Lockers
    <3> HIDE DEF Q
    <3>5. QueueTypes(Q) /\ InQueue(Q[MapLock], "dispatcher")
      BY <1>3, <3>2, <3>3, <3>4 DEF LeftFrom, Lockers
    <3>6. LeftFrom(Q, lockq', MapLock, "dispatcher")
      BY <1>3, <3>1, <3>5, ReleaseLeaves DEF Lockers
    <3>7. \A m \in Locks, u \in Lockers :
            InQueue(lockq'[m], u) <=> InQueue(lockq[m], u) /\ u # "dispatcher"
      BY <3>3, <3>4, <3>6 DEF LeftFrom
    <3>8. \A m \in Locks : \A i \in DOMAIN lockq'[m] : \E j \in DOMAIN lockq[m] : lockq'[m][i] = lockq[m][j]
      BY <3>4, <3>6 DEF LeftFrom
    <3> QED  BY <1>1, <2>1, <3>1, <3>6, <3>7, <3>8, DispatcherLeaves DEF LeftFrom
  <2> QED  BY <1>13, <2>3, <2>4, <2>5, <2>6, <2>7, <2>8 DEF CallStep
<1> QED  BY StepSplit, <1>5, <1>6, <1>7, <1>8, <1>9, <1>10, <1>11, <1>12, <1>13

-----------------------------------------------------------------------------
(* Types. *)

\* The type invariant in the parts that steps change together.
ServiceTypes ==
  /\ registry \in [Names -> Instances \cup {None}]
  /\ nameOf \in [Instances -> Names \cup {None}] /\ running \in [Instances -> BOOLEAN]
ServerTypes ==
  /\ server \in [Servers -> {"none", "binding", "serving", "draining", "panicked"}]
  /\ sender \in [Servers -> Instances \cup {None}]
OwnerTypes ==
  /\ uses \in Deployments /\ manager \in BOOLEAN
  /\ owner \in [op : {"none", "register", "start", "stop"}, pc : {"idle", "map", "next", "service"},
                name : Names \cup {None}, todo : SUBSET Instances, cur : Instances \cup {None}]
  /\ registrar \in [op : {"none", "register", "unregister"}, name : Names \cup {None}]
CallTypes ==
  /\ dispatcher \in {"none", "recv", "map", "service"}
  /\ calls \in Seq(Callers) /\ Len(calls) <= CallCap + 1
  /\ caller \in [Callers -> {"idle", "sending", "waiting"}]
  /\ want \in [Callers -> Names \cup {None}]
HttpTypes ==
  handler \in [Handlers -> Servers \cup {None}] /\ api \in {"absent", "stopped", "running"}

\* HostTypes, by the parts that a step changes together.
LEMMA TypeParts ==
  HostTypes <=> /\ ServiceTypes /\ ServerTypes /\ OwnerTypes /\ CallTypes /\ HttpTypes
                /\ QueueTypes(lockq)
BY DEF HostTypes, ServiceTypes, ServerTypes, OwnerTypes, CallTypes, HttpTypes, QueueTypes,
       Entries, Distinct

\* A drop of objects, whichever they are.
LEMMA DropTypes ==
  ASSUME ServerTypes, running \in [Instances -> BOOLEAN], NEW held, DropAllBut(held)
  PROVE  ServerTypes' /\ running' \in [Instances -> BOOLEAN]
<1>1. ServerTypes'
  BY DEF ServerTypes, DropAllBut, Signal
<1>2. running' \in [Instances -> BOOLEAN]
  BY Zenon DEF DropAllBut
<1> QED  BY <1>1, <1>2

\* A service registered, or unregistered.
LEMMA RegisterTypes ==
  ASSUME ServiceTypes, ServerTypes, NEW n \in Names, register_non_rt(n) \/ unregister_non_rt(n)
  PROVE  ServiceTypes' /\ ServerTypes'
<1>1. \E held : DropAllBut(held)
  BY DEF register_non_rt, unregister_non_rt
<1>2. ServerTypes' /\ running' \in [Instances -> BOOLEAN]
  BY <1>1, DropTypes DEF ServiceTypes
<1>3. CASE register_non_rt(n)
  <2>1. PICK i \in FreeInstances : /\ registry' = [registry EXCEPT ![n] = i]
                                   /\ nameOf' = [nameOf EXCEPT ![i] = n]
    BY <1>3 DEF register_non_rt
  <2>2. i \in Instances
    BY DEF FreeInstances
  <2> QED  BY <1>2, <2>1, <2>2 DEF ServiceTypes
<1>4. CASE unregister_non_rt(n)
  BY <1>2, <1>4 DEF unregister_non_rt, ServiceTypes
<1> QED  BY <1>2, <1>3, <1>4

\* A service started, or stopped.
LEMMA OneServiceTypes ==
  ASSUME ServiceTypes, ServerTypes, NEW i \in Instances, start(i) \/ stop(i)
  PROVE  ServiceTypes' /\ ServerTypes'
<1>1. running' \in [Instances -> BOOLEAN] /\ UNCHANGED <<registry, nameOf>>
  BY DEF start, stop, ServiceTypes
<1>2. CASE start(i)
  <2>1. CASE UNCHANGED serverVars
    BY <1>1, <2>1 DEF serverVars, ServerTypes, ServiceTypes
  <2>2. CASE ~UNCHANGED serverVars
    <3>1. PICK f \in FreeServers : /\ server' = [server EXCEPT ![f] = "binding"]
                                   /\ sender' = [sender EXCEPT ![f] = i]
      BY <1>2, <2>2 DEF start
    <3> QED  BY <1>1, <3>1 DEF FreeServers, ServerTypes, ServiceTypes
  <2> QED  BY <2>1, <2>2
<1>3. CASE stop(i)
  <2>1. ServerTypes'
    BY <1>3 DEF stop, Signal, ServerTypes
  <2> QED  BY <1>1, <2>1 DEF ServiceTypes
<1> QED  BY <1>2, <1>3

\* The objects and the servers.
LEMMA ServicesTyped ==
  ASSUME HostTypes, OwnerInStep, RegistrarInStep, [Next]_vars
  PROVE  ServiceTypes' /\ ServerTypes'
<1>1. ServiceTypes /\ ServerTypes /\ OwnerTypes
  BY TypeParts
<1>2. CASE \/ HierarchyStep \/ HttpStep \/ CallStep \/ RegistrarCalls \/ ListServices
           \/ (\E n \in uses.names : register_nonrt(n)) \/ start_all \/ stop_all
  <2>1. UNCHANGED <<registry, nameOf, running, server, sender>>
    BY <1>2 DEF HierarchyStep, HierarchyUsed, HttpStep, ServerElsewhere, RegistrarCalls,
                CallStep, nonrt_dispatcher, DropDispatcher, Receive, NotFound, Found, AnswerCall,
                Call, Send, CallElsewhere, ListServices, register_nonrt, start_all, stop_all,
                serviceVars, serverVars
  <2> QED  BY <1>1, <2>1 DEF ServiceTypes, ServerTypes
<1>3. CASE OwnerRegisters
  BY <1>1, <1>3, RegisterTypes DEF OwnerRegisters, OwnerInStep
<1>4. CASE RegistrarGoesOn
  BY <1>1, <1>4, RegisterTypes DEF RegistrarGoesOn, RegistrarInStep, NoCall
<1>5. CASE NextService \/ NoMoreServices
  <2>1. (\E held : DropAllBut(held)) /\ UNCHANGED <<registry, nameOf>>
    BY <1>5 DEF NextService, NoMoreServices
  <2> QED  BY <1>1, <2>1, DropTypes DEF ServiceTypes
<1>6. CASE OneService
  <2>1. owner.cur \in Instances
    BY <1>1, <1>6 DEF OwnerTypes, OneService, OwnerInStep
  <2> QED  BY <1>1, <1>6, <2>1, OneServiceTypes DEF OneService
<1>7. CASE \E s \in Servers : Bind(s) \/ Shutdown(s) \/ Drained(s)
  <2>1. UNCHANGED <<registry, nameOf, running, sender>>
    BY <1>7 DEF Bind, Shutdown, Drained, ServerElsewhere, serviceVars
  <2>2. server' \in [Servers -> {"none", "binding", "serving", "draining", "panicked"}]
    BY <1>1, <1>7 DEF Bind, Shutdown, Drained, ServerTypes
  <2> QED  BY <1>1, <2>1, <2>2 DEF ServiceTypes, ServerTypes
<1> QED  BY StepSplit, <1>2, <1>3, <1>4, <1>5, <1>6, <1>7

\* The calls on the manager and on the registry.
LEMMA OwnerTyped ==
  ASSUME HostTypes, RegistrarInStep, [Next]_vars
  PROVE  OwnerTypes' /\ RegistrarInStep'
<1>1. OwnerTypes /\ ServiceTypes /\ uses.names \subseteq Names
  BY TypeParts DEF OwnerTypes, Names
<1>2. uses' = uses
  BY StepSplit
     DEF HierarchyStep, HierarchyUsed, OwnerElsewhere, HttpStep, ServerElsewhere, CallStep,
         nonrt_dispatcher, DropDispatcher, Receive, NotFound, Found, AnswerCall, Call, Send,
         CallElsewhere, register_nonrt, start_all, stop_all, OwnerRegisters, ListServices,
         NextService, OneService, NoMoreServices, RegistrarCalls, RegistrarGoesOn,
         RegistrarElsewhere, Bind, Shutdown, Drained
<1>3. manager' \in BOOLEAN
  <2>1. manager' = manager \/ manager' = (owner.op = "start")
    BY StepSplit
       DEF HierarchyStep, HierarchyUsed, HttpStep, ServerElsewhere, CallStep,
           nonrt_dispatcher, DropDispatcher, Receive, NotFound, Found, AnswerCall, Call, Send,
           CallElsewhere, register_nonrt, start_all, stop_all, OwnerRegisters, ListServices,
           NextService, OneService, NoMoreServices, RegistrarCalls, RegistrarGoesOn,
           RegistrarElsewhere, Bind, Shutdown, Drained
  <2> QED  BY <1>1, <2>1, Zenon DEF OwnerTypes
<1>4. /\ registrar' \in [op : {"none", "register", "unregister"}, name : Names \cup {None}]
      /\ RegistrarInStep'
  <2>1. CASE RegistrarCalls
    <3>1. registrar' \in [op : {"register", "unregister"}, name : uses.names]
      BY <2>1 DEF RegistrarCalls
    <3> QED  BY <1>1, <3>1 DEF RegistrarInStep
  <2>2. CASE RegistrarGoesOn
    BY <2>2 DEF RegistrarGoesOn, NoCall, RegistrarInStep
  <2>3. CASE registrar' = registrar
    BY <1>1, <2>3 DEF OwnerTypes, RegistrarInStep
  <2> QED  BY StepSplit, <2>1, <2>2, <2>3
           DEF HierarchyStep, HierarchyUsed, OwnerElsewhere, HttpStep, ServerElsewhere, CallStep,
               nonrt_dispatcher, DropDispatcher, Receive, NotFound, Found, AnswerCall, Call, Send,
               CallElsewhere, register_nonrt, start_all, stop_all, OwnerRegisters, ListServices,
               NextService, OneService, NoMoreServices, Bind, Shutdown, Drained
<1>5. owner' \in [op : {"none", "register", "start", "stop"},
                  pc : {"idle", "map", "next", "service"}, name : Names \cup {None},
                  todo : SUBSET Instances, cur : Instances \cup {None}]
  <2>1. CASE HierarchyStep \/ HttpStep \/ CallStep \/ RegistrarCalls \/ RegistrarGoesOn
             \/ \E s \in Servers : Bind(s) \/ Shutdown(s) \/ Drained(s)
    <3>1. owner' = owner
      BY <2>1 DEF HierarchyStep, HierarchyUsed, HttpStep, ServerElsewhere, RegistrarCalls,
                  RegistrarGoesOn, RegistrarElsewhere, CallStep, nonrt_dispatcher, DropDispatcher,
                  Receive, NotFound, Found, AnswerCall, Call, Send, CallElsewhere,
                  Bind, Shutdown, Drained
    <3> QED  BY <1>1, <3>1 DEF OwnerTypes
  <2>2. CASE (\E n \in uses.names : register_nonrt(n)) \/ start_all \/ stop_all
    BY <1>1, <2>2 DEF register_nonrt, start_all, stop_all, Idle
  <2>3. CASE OwnerRegisters \/ NoMoreServices
    BY <2>3 DEF OwnerRegisters, NoMoreServices, Idle
  <2>4. CASE ListServices
    <3>1. {registry[n] : n \in Names} \ {None} \in SUBSET Instances
      BY <1>1 DEF ServiceTypes
    <3>2. owner' = [owner EXCEPT !.pc = "next", !.todo = {registry[n] : n \in Names} \ {None}]
      BY <2>4 DEF ListServices
    <3> QED  BY <1>1, <3>1, <3>2 DEF OwnerTypes
  <2>5. CASE NextService
    BY <1>1, <2>5 DEF OwnerTypes, NextService
  <2>6. CASE OneService
    BY <1>1, <2>6 DEF OwnerTypes, OneService
  <2> QED  BY StepSplit, <2>1, <2>2, <2>3, <2>4, <2>5, <2>6
<1> QED  BY <1>1, <1>2, <1>3, <1>4, <1>5 DEF OwnerTypes

\* The dispatcher's channel holds what fits in it and the call that is served.
LEMMA CallsTyped ==
  ASSUME HostTypes, CallsInStep, [Next]_vars
  PROVE  CallTypes'
<1>1. CallTypes /\ uses.names \subseteq Names /\ CallCap \in Nat \ {0} /\ Len(calls) \in Nat
  BY TypeParts, ServiceHostAssumption DEF OwnerTypes, Names, CallTypes
<1>2. ASSUME NEW c \in Callers, InChannel < CallCap, dispatcher # "none",
             calls' = Append(calls, c)
      PROVE  calls' \in Seq(Callers) /\ Len(calls') <= CallCap + 1
  <2>1. calls' \in Seq(Callers) /\ Len(calls') = Len(calls) + 1
    BY <1>1, <1>2 DEF CallTypes
  <2>2. Len(calls) <= CallCap
    BY <1>1, <1>2 DEF InChannel
  <2> QED  BY <1>1, <2>1, <2>2
<1>3. ASSUME NEW c \in Callers, Call(c)
      PROVE  CallTypes'
  <2>1. want' \in [Callers -> Names \cup {None}] /\ dispatcher' = dispatcher
    BY <1>1, <1>3 DEF Call, CallTypes
  <2>2. caller' \in [Callers -> {"idle", "sending", "waiting"}]
    BY <1>1, <1>3 DEF Call, CallTypes
  <2>3. calls' \in Seq(Callers) /\ Len(calls') <= CallCap + 1
    BY <1>1, <1>2, <1>3 DEF Call, CallTypes
  <2> QED  BY <1>1, <2>1, <2>2, <2>3 DEF CallTypes
<1>4. ASSUME NEW c \in Callers, Send(c)
      PROVE  CallTypes'
  <2>1. dispatcher # "none"
    BY <1>4 DEF Send, CallsInStep
  <2>2. caller' \in [Callers -> {"idle", "sending", "waiting"}]
    BY <1>1, <1>4 DEF Send, CallTypes
  <2>3. calls' \in Seq(Callers) /\ Len(calls') <= CallCap + 1
    BY <1>2, <1>4, <2>1 DEF Send
  <2> QED  BY <1>1, <1>4, <2>2, <2>3 DEF Send, CallTypes
<1>5. CASE nonrt_dispatcher \/ DropDispatcher \/ Receive \/ Found
  BY <1>1, <1>5 DEF nonrt_dispatcher, DropDispatcher, Receive, Found, CallTypes
<1>6. CASE NotFound \/ AnswerCall
  <2>1. calls # <<>> /\ Reply
    BY <1>6 DEF NotFound, AnswerCall, CallsInStep
  <2>2. Head(calls) \in Callers /\ calls' \in Seq(Callers) /\ Len(calls') = Len(calls) - 1
    BY <1>1, <2>1 DEF Reply, CallTypes
  <2>3. /\ caller' \in [Callers -> {"idle", "sending", "waiting"}]
        /\ want' \in [Callers -> Names \cup {None}] /\ dispatcher' = "recv"
    BY <1>1, <2>1, <2>2 DEF Reply, CallTypes
  <2> QED  BY <1>1, <2>2, <2>3 DEF CallTypes
<1>7. CASE CallStep
  BY <1>3, <1>4, <1>5, <1>6, <1>7 DEF CallStep
<1>8. CASE ~CallStep
  <2>1. UNCHANGED <<dispatcher, calls, caller, want>>
    BY StepSplit, <1>8
       DEF HierarchyStep, HierarchyUsed, OwnerElsewhere, HttpStep, ServerElsewhere, callVars,
           register_nonrt, start_all, stop_all, OwnerRegisters, ListServices, NextService,
           OneService, NoMoreServices, RegistrarCalls, RegistrarGoesOn, RegistrarElsewhere,
           Bind, Shutdown, Drained
  <2> QED  BY <1>1, <2>1 DEF CallTypes
<1> QED  BY <1>7, <1>8

\* The handlers of the REST service and the service of the ApiState.
LEMMA HttpTyped ==
  ASSUME HostTypes, [Next]_vars
  PROVE  HttpTypes'
<1>1. HttpTypes
  BY TypeParts
<1>2. ASSUME NEW h \in Handlers, Accept(h)
      PROVE  HttpTypes'
  BY <1>1, <1>2 DEF Accept, HttpTypes
<1>3. ASSUME NEW h \in Handlers, Handle(h)
      PROVE  HttpTypes'
  BY <1>1, <1>3 DEF Handle, list_services, get_service_status, call_service, start_service,
                    stop_service, Answer, HttpTypes
<1>4. CASE register_service
  BY <1>1, <1>4 DEF register_service, HttpTypes
<1>5. CASE UNCHANGED httpVars
  BY <1>1, <1>5 DEF httpVars, HttpTypes
<1>6. CASE UNCHANGED vars \/ CallStep
  BY <1>5, <1>6 DEF vars, CallStep, nonrt_dispatcher, DropDispatcher, Receive, NotFound, Found,
                    AnswerCall, Call, Send, CallElsewhere
<1>7. CASE OwnerCalls \/ Owner
  <2>1. UNCHANGED OwnerElsewhere
    BY <1>7 DEF OwnerCalls, Owner, register_nonrt, start_all, stop_all, RegisterNode,
                CreateContainer, init_default_hierarchy, RemoveNode, HierarchyUsed,
                OwnerRegisters, ListServices, NextService, OneService, NoMoreServices
  <2> QED  BY <1>5, <2>1 DEF OwnerElsewhere
<1>8. CASE RegistrarCalls \/ RegistrarGoesOn
  BY <1>5, <1>8 DEF RegistrarCalls, RegistrarGoesOn, RegistrarElsewhere
<1>9. CASE \E s \in Servers : ServerRuns(s)
  BY <1>5, <1>9 DEF ServerRuns, Bind, Shutdown, Drained
<1> QED  BY <1>2, <1>3, <1>4, <1>6, <1>7, <1>8, <1>9 DEF Next, Dispatch, CallStep

-----------------------------------------------------------------------------
(* The invariant, and what follows from it. *)

\* new: no service, no call, and every queue empty.
LEMMA InitHolds == Init => HostInv
<1> SUFFICES ASSUME Init PROVE HostInv
  OBVIOUS
<1>1. HostTypes
  <2>1. <<>> \in Seq(Callers) /\ Len(<<>>) <= CallCap + 1
    BY ServiceHostAssumption
  <2>2. /\ lockq \in [Locks -> Seq(Tasks \X {"read", "write"})]
        /\ \A l \in Locks : lockq[l] = <<>>
    BY DEF Init
  <2>3. \A l \in Locks : \A i, j \in DOMAIN lockq[l] : i # j => lockq[l][i][1] # lockq[l][j][1]
    BY <2>2
  <2> QED  BY <2>1, <2>2, <2>3 DEF Init, HostTypes, Idle, NoCall
<1>2. OwnerInStep
  BY DEF Init, OwnerInStep, Idle
<1>3. ServersInStep
  BY DEF Init, ServersInStep
<1>4. CallsInStep /\ RegistrarInStep
  BY ServiceHostAssumption DEF Init, CallsInStep, RegistrarInStep
<1>5. QueuesInStep /\ MapModes /\ ServiceModes /\ FoundInStep
  <2>1. \A l \in Locks : lockq[l] = <<>>
    BY DEF Init
  <2>2. \A l \in Locks : \A t : ~Queued(t, l)
    BY <2>1 DEF Queued
  <2> QED  BY <2>1, <2>2 DEF Init, QueuesInStep, MapModes, ServiceModes, FoundInStep, OwnerIn,
                             RegistrarIn, DispatcherIn, Idle, Locks
<1> QED  BY <1>1, <1>2, <1>3, <1>4, <1>5 DEF HostInv

\* Every call on the host, and every step of its tasks, keeps the invariant.
LEMMA StepKeeps == HostInv /\ [Next]_vars => HostInv'
<1> SUFFICES ASSUME HostInv, [Next]_vars PROVE HostInv'
  OBVIOUS
<1>1. HostTypes /\ OwnerInStep /\ ServersInStep /\ CallsInStep /\ RegistrarInStep
  BY DEF HostInv
<1>2. LockInv'
  BY LocksKept
<1>3. OwnerInStep' /\ ServersInStep' /\ CallsInStep'
  BY <1>1, OwnerKept, ServersKept, CallsKept
<1>4. ServiceTypes' /\ ServerTypes' /\ OwnerTypes' /\ RegistrarInStep'
  BY <1>1, ServicesTyped, OwnerTyped
<1>5. CallTypes' /\ HttpTypes'
  BY <1>1, CallsTyped, HttpTyped
<1>6. HostTypes'
  BY <1>2, <1>4, <1>5, TypeParts, PTL DEF LockInv
<1> QED  BY <1>2, <1>3, <1>4, <1>6 DEF HostInv, LockInv

\* services/servicemanagement, services/nonrtservices: the registry, the manager, the
\* dispatcher and the REST service are in step with each other in every state, and no
\* task is in the queue of a lock that its call does not use.
THEOREM HostInvAlways == Spec => []HostInv
<1>1. Init => HostInv
  BY InitHolds
<1>2. HostInv /\ [Next]_vars => HostInv'
  BY StepKeeps
<1> QED  BY <1>1, <1>2, PTL DEF Spec

\* Type correctness of the host; among others the dispatcher's bounded channel never
\* holds more than its capacity and the call that is served, and no task asks twice
\* for a lock.
THEOREM HostTypesAlways == Spec => []HostTypes
<1>1. HostInv => HostTypes
  BY DEF HostInv
<1> QED  BY <1>1, HostInvAlways, PTL

\* RestApiService: for any number of objects, servers and starts, an object that runs
\* has one task that listens to it, one that does not run has none.
THEOREM ServersAlwaysFollowStatus == Spec => []ServersFollowStatus
<1>1. HostInv => ServersFollowStatus
  BY StatusFollows DEF HostInv
<1> QED  BY <1>1, HostInvAlways, PTL

\* While the dispatcher waits for the lock of the service it found, the registry does
\* not change: a service cannot be replaced or unregistered, hence not dropped, in
\* between.
FoundStaysRegistered == [][dispatcher = "service" => registry' = registry]_vars

\* dispatcher.rs: the guard of the map, kept over the wait for the service, is what
\* makes the reply come from a service that is registered.
THEOREM FoundAlwaysStays == Spec => FoundStaysRegistered
<1>1. HostInv /\ [Next]_vars => [dispatcher = "service" => registry' = registry]_vars
  <2> SUFFICES ASSUME HostInv, [Next]_vars, dispatcher = "service"
               PROVE  registry' = registry
    OBVIOUS
  <2>1. ~OwnerRegisters /\ ~RegistrarGoesOn
    BY MapGuarded
  <2> QED  BY <2>1, StepSplit
           DEF HierarchyStep, HierarchyUsed, HttpStep, ServerElsewhere, CallStep,
               nonrt_dispatcher, DropDispatcher, Receive, NotFound, Found, AnswerCall, Call, Send,
               CallElsewhere, register_nonrt, start_all, stop_all, ListServices, NextService,
               OneService, start, stop, NoMoreServices, RegistrarCalls, Bind, Shutdown, Drained,
               serviceVars
<1> QED  BY <1>1, HostInvAlways, PTL DEF Spec, FoundStaysRegistered

\* start_all and stop_all keep a service locked for writing while its task is started
\* or stopped, get_status reads it: never both at once, so what a call is told of a
\* service is not taken from one in the middle of its start or stop.
ServiceExclusive ==
  \A l \in Instances : ~(Holds("owner", l) /\ Holds("dispatcher", l))

\* From the modes of a service's lock: two tasks that hold a lock both read.
THEOREM ServicesAlwaysExclusive == Spec => []ServiceExclusive
<1>1. HostInv => ServiceExclusive
  <2> SUFFICES ASSUME HostInv, NEW l \in Instances,
                      Holds("owner", l), Holds("dispatcher", l)
               PROVE  FALSE
    BY DEF ServiceExclusive
  <2>1. PICK i \in DOMAIN lockq[l] :
          /\ lockq[l][i][1] = "owner"
          /\ i = 1 \/ \A j \in 1 .. i : lockq[l][j][2] = "read"
    BY DEF Holds
  <2>2. PICK k \in DOMAIN lockq[l] :
          /\ lockq[l][k][1] = "dispatcher"
          /\ k = 1 \/ \A j \in 1 .. k : lockq[l][j][2] = "read"
    BY DEF Holds
  <2>3. lockq[l] \in Seq(Tasks \X {"read", "write"}) /\ i \in Nat \ {0} /\ k \in Nat \ {0}
    BY ServiceLocks DEF HostInv, HostTypes
  <2>4. lockq[l][i] = <<"owner", "write">>
    BY <2>1 DEF HostInv, ServiceModes
  <2>5. i = 1
    BY <2>1, <2>3, <2>4
  <2>6. k # 1 /\ 1 \in 1 .. k
    BY <2>1, <2>2, <2>3, <2>5
  <2>7. lockq[l][1][2] = "read"
    BY <2>2, <2>6
  <2> QED  BY <2>4, <2>5, <2>7
<1> QED  BY <1>1, HostInvAlways, PTL

\* The locks of the host cannot wait for each other in a circle: when a lock is held
\* or waited for, some task has every lock it asked for and goes on without another.
\* The dispatcher asks for a service with the map in its hand, which nobody else does:
\* start_all and stop_all let go of the map before they ask for the first service.
NoCircularWait ==
  (\E l \in Locks : lockq[l] # <<>>) =>
    \E t \in Lockers : /\ \E l \in Locks : Queued(t, l)
                       /\ \A l \in Locks : Queued(t, l) => Holds(t, l)

\* Who is in a queue is one of the three tasks, and the first in a queue holds the lock.
LEMMA FirstHolds ==
  ASSUME HostInv, NEW l \in Locks, lockq[l] # <<>>
  PROVE  /\ 1 \in DOMAIN lockq[l] /\ lockq[l][1][1] \in Lockers
         /\ Queued(lockq[l][1][1], l) /\ Holds(lockq[l][1][1], l)
<1>1. lockq[l] \in Seq(Tasks \X {"read", "write"})
  BY DEF HostInv, HostTypes
<1>2. 1 \in DOMAIN lockq[l]
  BY <1>1
<1>3. lockq[l][1][1] \in Lockers
  <2>1. CASE l = MapLock
    BY <1>2, <2>1 DEF HostInv, MapModes, Lockers
  <2>2. CASE l # MapLock
    BY <1>2, <2>2 DEF HostInv, ServiceModes, Lockers, Locks
  <2> QED  BY <2>1, <2>2
<1> QED  BY <1>2, <1>3 DEF Queued, Holds

\* The case of the dispatcher with a service: it, or the owner that it waits for.
LEMMA DispatcherOrOwner ==
  ASSUME HostInv, dispatcher = "service"
  PROVE  NoCircularWait
<1>1. Asked \in Instances
  <2>1. calls \in Seq(Callers) /\ calls # <<>>
    BY DEF HostInv, HostTypes, CallsInStep
  <2>2. 1 \in DOMAIN calls /\ Head(calls) = calls[1] /\ calls[1] \in Callers
    BY <2>1
  <2>3. want[Head(calls)] \in Names
    BY <2>2 DEF HostInv, CallsInStep
  <2>4. Asked \in Instances \cup {None} /\ Asked # None
    BY <2>3 DEF HostInv, HostTypes, FoundInStep, Asked
  <2> QED  BY <2>4
<1>2. Asked \in Locks /\ MapLock \in Locks /\ Asked # MapLock
  BY <1>1, ServiceLocks
<1>3. Holds("dispatcher", MapLock) /\ Queued("dispatcher", MapLock) /\ Queued("dispatcher", Asked)
  BY <1>2 DEF HostInv, FoundInStep, QueuesInStep, DispatcherIn
<1>4. CASE Holds("dispatcher", Asked)
  <2>1. \A l \in Locks : Queued("dispatcher", l) => l \in {MapLock, Asked}
    BY DEF HostInv, QueuesInStep, DispatcherIn
  <2>2. \A l \in Locks : Queued("dispatcher", l) => Holds("dispatcher", l)
    BY <1>3, <1>4, <2>1
  <2> QED  BY <1>2, <1>3, <2>2 DEF NoCircularWait, Lockers
<1>5. CASE ~Holds("dispatcher", Asked)
  <2>1. lockq[Asked] # <<>>
    BY <1>3 DEF Queued
  <2>2. 1 \in DOMAIN lockq[Asked] /\ Queued(lockq[Asked][1][1], Asked)
        /\ Holds(lockq[Asked][1][1], Asked)
    BY <1>2, <2>1, FirstHolds
  <2>3. lockq[Asked][1][1] \in {"owner", "dispatcher"}
    BY <1>1, <2>2 DEF HostInv, ServiceModes
  <2>4. Queued("owner", Asked) /\ Holds("owner", Asked)
    BY <1>5, <2>2, <2>3
  <2>5. \A l \in Locks : Queued("owner", l) => l = Asked
    BY <1>2, <2>4 DEF HostInv, QueuesInStep, OwnerIn
  <2> QED  BY <1>2, <2>4, <2>5 DEF NoCircularWait, Lockers
<1> QED  BY <1>4, <1>5

\* Everyone else is in one queue at a time, so that the first in a queue, who holds the
\* lock, waits for nothing.
THEOREM NeverCircularWait == Spec => []NoCircularWait
<1>1. HostInv => NoCircularWait
  <2>1. CASE dispatcher = "service"
    BY <2>1, DispatcherOrOwner
  <2>2. CASE dispatcher # "service"
    <3> SUFFICES ASSUME HostInv, NEW l \in Locks, lockq[l] # <<>>
                 PROVE  \E t \in Lockers : /\ \E m \in Locks : Queued(t, m)
                                           /\ \A m \in Locks : Queued(t, m) => Holds(t, m)
      BY DEF NoCircularWait
    <3>1. PICK t \in Lockers : Queued(t, l) /\ Holds(t, l)
      BY FirstHolds
    <3>2. ASSUME NEW m \in Locks, Queued(t, m)
          PROVE  m = l
      <4>1. CASE t = "owner"
        <5>1. OwnerIn(l) /\ OwnerIn(m)
          BY <3>1, <3>2, <4>1 DEF HostInv, QueuesInStep
        <5> QED  BY <5>1 DEF OwnerIn
      <4>2. CASE t = "registrar"
        <5>1. RegistrarIn(l) /\ RegistrarIn(m)
          BY <3>1, <3>2, <4>2 DEF HostInv, QueuesInStep
        <5> QED  BY <5>1 DEF RegistrarIn
      <4>3. CASE t = "dispatcher"
        <5>1. DispatcherIn(l) /\ DispatcherIn(m)
          BY <3>1, <3>2, <4>3 DEF HostInv, QueuesInStep
        <5> QED  BY <2>2, <5>1 DEF DispatcherIn
      <4> QED  BY <4>1, <4>2, <4>3 DEF Lockers
    <3> QED  BY <3>1, <3>2
  <2> QED  BY <2>1, <2>2
<1> QED  BY <1>1, HostInvAlways, PTL

-----------------------------------------------------------------------------
(* Numbers, sequences and the operators of the hierarchy on them. *)

\* Natural numbers are well ordered: the form of induction used for data here, on a
\* set of numbers.
LEMMA LeastNumber ==
  ASSUME NEW T, T \subseteq Nat, T # {}
  PROVE  \E n \in T : \A m \in T : n <= m
<1>1. PICK n \in T : \A m \in T : ~(<<m, n>> \in OpToRel(<, Nat))
  BY NatLessThanWellFounded, WFMin, Zenon
<1>2. \A m \in T : ~(m < n)
  BY <1>1 DEF OpToRel
<1> QED  BY <1>2

\* A set with 0 and with the successor of each of its numbers has them all.
LEMMA SetInduction ==
  ASSUME NEW S, 0 \in S, \A n \in Nat : n \in S => n + 1 \in S
  PROVE  \A n \in Nat : n \in S
<1> SUFFICES ASSUME Nat \ S # {} PROVE FALSE
  OBVIOUS
<1>1. PICK n \in Nat \ S : \A m \in Nat \ S : n <= m
  BY LeastNumber
<1>2. n # 0 /\ n - 1 \in Nat
  BY <1>1
<1>3. n - 1 \in S
  BY <1>1, <1>2
<1> QED  BY <1>1, <1>2, <1>3

\* Vec::insert: one entry more, and the others in their order.
OneMore(s, k, e, r) ==
  /\ DOMAIN r = 1 .. Len(s) + 1
  /\ \A i \in 1 .. Len(s) + 1 : r[i] = IF i < k THEN s[i] ELSE IF i = k THEN e ELSE s[i - 1]

\* What InsertAt returns for a place in the sequence or at its end.
LEMMA WithOne ==
  ASSUME NEW S, NEW s \in Seq(S), NEW e \in S, NEW k \in 1 .. Len(s) + 1,
         NEW r, r = InsertAt(s, k, e)
  PROVE  r \in Seq(S) /\ OneMore(s, k, e, r)
<1> DEFINE a == SubSeq(s, 1, k - 1)  b == SubSeq(s, k, Len(s))  n == Len(s)  c == a \o <<e>>
<1>1. n \in Nat /\ k \in 1 .. n + 1
  OBVIOUS
<1>2. a \in Seq(S) /\ Len(a) = k - 1 /\ \A i \in 1 .. k - 1 : a[i] = s[i]
  OBVIOUS
<1>3. b \in Seq(S) /\ Len(b) = n - k + 1 /\ \A i \in 1 .. n - k + 1 : b[i] = s[k - 1 + i]
  OBVIOUS
<1>4. r = c \o b
  BY DEF InsertAt
<1>5. <<e>> \in Seq(S) /\ Len(<<e>>) = 1 /\ <<e>>[1] = e
  OBVIOUS
<1> HIDE DEF a, b, n
<1>6. c \in Seq(S) /\ Len(c) = k /\ \A i \in 1 .. k : c[i] = IF i < k THEN s[i] ELSE e
  <2>1. /\ c \in Seq(S) /\ Len(c) = Len(a) + Len(<<e>>)
        /\ \A i \in 1 .. Len(a) + Len(<<e>>) :
             c[i] = IF i <= Len(a) THEN a[i] ELSE <<e>>[i - Len(a)]
    BY <1>2, <1>5, ConcatProperties, Zenon
  <2> HIDE DEF c
  <2>2. Len(c) = k
    BY <1>1, <1>2, <1>5, <2>1
  <2>3. ASSUME NEW i \in 1 .. k PROVE c[i] = IF i < k THEN s[i] ELSE e
    <3>1. c[i] = IF i <= k - 1 THEN a[i] ELSE <<e>>[i - (k - 1)]
      BY <1>1, <1>2, <1>5, <2>1, <2>2
    <3>2. CASE i < k
      <4>1. i <= k - 1 /\ i \in 1 .. k - 1
        BY <1>1, <3>2
      <4> QED  BY <1>2, <3>1, <3>2, <4>1
    <3>3. CASE i = k
      <4>1. ~(i <= k - 1) /\ i - (k - 1) = 1 /\ ~(i < k)
        BY <1>1, <3>3
      <4> QED  BY <1>5, <3>1, <4>1
    <3> QED  BY <1>1, <3>2, <3>3
  <2> QED  BY <2>1, <2>2, <2>3
<1> HIDE DEF c
<1>7. /\ c \o b \in Seq(S) /\ Len(c \o b) = n + 1
      /\ \A i \in 1 .. n + 1 : (c \o b)[i] = IF i <= k THEN c[i] ELSE b[i - k]
  <2>1. k + (n - k + 1) = n + 1
    BY <1>1
  <2>2. /\ c \o b \in Seq(S) /\ Len(c \o b) = Len(c) + Len(b)
        /\ \A i \in 1 .. Len(c) + Len(b) :
              (c \o b)[i] = IF i <= Len(c) THEN c[i] ELSE b[i - Len(c)]
    BY <1>3, <1>6, ConcatProperties, Zenon
  <2> QED  BY <1>3, <1>6, <2>1, <2>2, Zenon
<1>8. DOMAIN (c \o b) = 1 .. n + 1
  BY <1>1, <1>7
<1>9. ASSUME NEW i \in 1 .. n + 1
      PROVE  (c \o b)[i] = IF i < k THEN s[i] ELSE IF i = k THEN e ELSE s[i - 1]
  <2>1. CASE i <= k
    <3>1. i \in 1 .. k /\ (~(i < k) => i = k)
      BY <1>1, <2>1
    <3> QED  BY <1>6, <1>7, <2>1, <3>1
  <2>2. CASE ~(i <= k)
    <3>1. i - k \in 1 .. n - k + 1 /\ k - 1 + (i - k) = i - 1 /\ ~(i < k) /\ i # k
      BY <1>1, <2>2
    <3> QED  BY <1>3, <1>7, <2>2, <3>1
  <2> QED  BY <2>1, <2>2
<1> QED  BY <1>4, <1>7, <1>8, <1>9 DEF n, OneMore

\* The least of some places of a sequence.
LEMMA LeastPlace ==
  ASSUME NEW n \in Nat, NEW I, I \subseteq 1 .. n, I # {}
  PROVE  Min(I) \in I /\ Min(I) \in 1 .. n /\ \A j \in 1 .. Min(I) - 1 : j \notin I
<1>1. I \subseteq Nat /\ \A i \in I : i \in 1 .. n
  OBVIOUS
<1>2. \E i \in I : \A j \in I : i <= j
  BY <1>1, LeastNumber, Zenon
<1>3. Min(I) \in I /\ \A j \in I : Min(I) <= j
  BY <1>2 DEF Min
<1>4. Min(I) \in 1 .. n
  BY <1>1, <1>3
<1>5. ASSUME NEW j \in 1 .. Min(I) - 1 PROVE j \notin I
  BY <1>3, <1>4
<1> QED  BY <1>3, <1>4, <1>5

\* position: the first child of that name.
LEMMA FirstOfThatName ==
  ASSUME NEW t, NEW n, NEW S, t[n].children \in Seq(S), NEW name, NEW ch, ch = t[n].children,
         NEW i, i = ChildIndex(t, n, name)
  PROVE  /\ i \in 0 .. Len(ch)
         /\ i = 0 => \A j \in 1 .. Len(ch) : t[ch[j]].name # name
         /\ i # 0 => t[ch[i]].name = name /\ \A j \in 1 .. i - 1 : t[ch[j]].name # name
<1> DEFINE l == Len(ch)  I == {j \in 1 .. l : t[ch[j]].name = name}
<1>1. i = IF I # {} THEN Min(I) ELSE 0
  BY DEF ChildIndex, SelectInSeq
<1>2. l \in Nat
  OBVIOUS
<1> HIDE DEF l
<1>3. CASE I = {}
  <2>1. i = 0 /\ 0 \in 0 .. l
    BY <1>1, <1>2, <1>3
  <2>2. \A j \in 1 .. l : t[ch[j]].name # name
    BY <1>3
  <2> QED  BY <2>1, <2>2 DEF l
<1>4. CASE I # {}
  <2>1. Min(I) \in I /\ Min(I) \in 1 .. l /\ \A j \in 1 .. Min(I) - 1 : j \notin I
    <3>1. I \subseteq 1 .. l
      OBVIOUS
    <3> HIDE DEF I
    <3> QED  BY <1>2, <1>4, <3>1, LeastPlace, Zenon
  <2>2. i \in I /\ i \in 1 .. l /\ \A j \in 1 .. i - 1 : j \notin I
    BY <1>1, <1>4, <2>1, Zenon
  <2>3. \A j \in 1 .. i - 1 : j \in 1 .. l
    BY <1>2, <2>2
  <2>4. i # 0 /\ i \in 0 .. l
    BY <1>2, <2>2
  <2> QED  BY <2>2, <2>3, <2>4 DEF l
<1> QED  BY <1>3, <1>4

\* position: before the first child of lower priority, or at the end.
LEMMA InsertedBefore ==
  ASSUME NEW t, NEW n, NEW S, t[n].children \in Seq(S), NEW priority,
         NEW ch, ch = t[n].children, NEW i, i = InsertionPoint(t, n, priority)
  PROVE  /\ i \in 1 .. Len(ch) + 1
         /\ \A j \in 1 .. i - 1 : ~(t[ch[j]].priority < priority)
         /\ i <= Len(ch) => t[ch[i]].priority < priority
<1> DEFINE l == Len(ch)  I == {j \in 1 .. l : t[ch[j]].priority < priority}
<1>1. l \in Nat
  OBVIOUS
<1>2. I # {} => /\ Min(I) \in I /\ Min(I) \in 1 .. l
                /\ \A j \in 1 .. Min(I) - 1 : j \notin I
  <2>1. I \subseteq 1 .. l
    OBVIOUS
  <2> HIDE DEF I, l
  <2> QED  BY <1>1, <2>1, LeastPlace, Zenon
<1>3. i = IF I # {} THEN Min(I) ELSE l + 1
  <2> DEFINE k == IF I # {} THEN Min(I) ELSE 0
  <2>1. i = IF k = 0 THEN l + 1 ELSE k
    BY DEF InsertionPoint, SelectInSeq
  <2>2. I # {} => Min(I) # 0
    BY <1>1, <1>2
  <2> QED  BY <2>1, <2>2
<1> HIDE DEF l
<1>4. CASE I = {}
  <2>1. i = l + 1 /\ ~(i <= l)
    BY <1>1, <1>3, <1>4
  <2>2. \A j \in 1 .. i - 1 : j \in 1 .. l
    BY <1>1, <2>1
  <2> QED  BY <1>1, <1>4, <2>1, <2>2 DEF l
<1>5. CASE I # {}
  <2>1. i \in I /\ i \in 1 .. l /\ \A j \in 1 .. i - 1 : j \notin I
    BY <1>2, <1>3, <1>5, Zenon
  <2>2. \A j \in 1 .. i - 1 : j \in 1 .. l
    BY <1>1, <2>1
  <2>3. i \in 1 .. l + 1
    BY <1>1, <2>1
  <2> QED  BY <2>1, <2>2, <2>3 DEF l
<1> QED  BY <1>4, <1>5

\* TreeNode::new: a node of its own.
LEMMA NewNodeIsNew ==
  ASSUME NEW t, IsFiniteSet(DOMAIN t)
  PROVE  NewNode(t) \in Nat /\ NewNode(t) \notin DOMAIN t
<1> DEFINE D == DOMAIN t  c == Cardinality(D)
<1>1. c \in Nat
  BY FS_CardinalityType
<1>2. IsFiniteSet(0 .. c) /\ Cardinality(0 .. c) = c + 1
  BY <1>1, FS_Interval
<1>3. ~(0 .. c \subseteq D)
  BY <1>1, <1>2, FS_Subset
<1> QED  BY <1>1, <1>3 DEF NewNode

-----------------------------------------------------------------------------
(* Walks through the hierarchy. *)

\* find_by_path: the current node after each part, up to the n-th.
IsWalk(t, path, n, f) ==
  f = [i \in 0 .. n |-> IF i = 0 THEN Root ELSE NextOnPath(t, f[i - 1], path[i])]

\* The loop of find_by_path ends for every path: there is such a walk,
LEMMA WalkExists ==
  ASSUME NEW t, NEW path
  PROVE  \A n \in Nat : \E f : IsWalk(t, path, n, f)
<1> DEFINE S == {n \in Nat : \E f : IsWalk(t, path, n, f)}
<1>1. 0 \in S
  <2> DEFINE f == [i \in 0 .. 0 |-> Root]
  <2>1. IsWalk(t, path, 0, f)
    BY DEF IsWalk
  <2> QED  BY <2>1
<1>2. ASSUME NEW n \in Nat, n \in S PROVE n + 1 \in S
  <2>1. PICK f : IsWalk(t, path, n, f)
    BY <1>2
  <2> DEFINE g == [i \in 0 .. n + 1 |->
                     IF i = n + 1 THEN NextOnPath(t, f[n], path[n + 1]) ELSE f[i]]
  <2>2. ASSUME NEW i \in 0 .. n + 1
        PROVE  g[i] = IF i = 0 THEN Root ELSE NextOnPath(t, g[i - 1], path[i])
    <3>1. CASE i = n + 1
      <4>1. i # 0 /\ i - 1 = n /\ n \in 0 .. n + 1 /\ n # n + 1
        BY <3>1
      <4>2. g[i - 1] = f[n]
        BY <4>1
      <4> QED  BY <3>1, <4>1, <4>2
    <3>2. CASE i # n + 1
      <4>1. i \in 0 .. n /\ g[i] = f[i]
        BY <3>2
      <4>2. f[i] = IF i = 0 THEN Root ELSE NextOnPath(t, f[i - 1], path[i])
        BY <2>1, <4>1 DEF IsWalk
      <4>3. i # 0 => i - 1 \in 0 .. n + 1 /\ i - 1 # n + 1
        BY <4>1
      <4>4. i # 0 => g[i - 1] = f[i - 1]
        BY <4>3
      <4> QED  BY <4>1, <4>2, <4>4
    <3> QED  BY <3>1, <3>2
  <2>3. IsWalk(t, path, n + 1, g)
    <3>1. g = [i \in 0 .. n + 1 |-> g[i]]
      OBVIOUS
    <3> HIDE DEF g
    <3> QED  BY <2>2, <3>1 DEF IsWalk
  <2> QED  BY <2>3
<1> HIDE DEF S
<1>3. \A n \in Nat : n \in S
  BY <1>1, <1>2, SetInduction
<1> QED  BY <1>3 DEF S

\* and only one.
LEMMA WalkUnique ==
  ASSUME NEW t, NEW path, NEW n \in Nat, NEW f, NEW g,
         IsWalk(t, path, n, f), IsWalk(t, path, n, g)
  PROVE  \A i \in 0 .. n : f[i] = g[i]
<1> DEFINE S == {i \in Nat : i \in 0 .. n => f[i] = g[i]}
<1>1. /\ \A i \in 0 .. n : f[i] = IF i = 0 THEN Root ELSE NextOnPath(t, f[i - 1], path[i])
      /\ \A i \in 0 .. n : g[i] = IF i = 0 THEN Root ELSE NextOnPath(t, g[i - 1], path[i])
  BY DEF IsWalk
<1>2. 0 \in S
  BY <1>1
<1>3. ASSUME NEW i \in Nat, i \in S PROVE i + 1 \in S
  <2>1. SUFFICES ASSUME i + 1 \in 0 .. n PROVE f[i + 1] = g[i + 1]
    OBVIOUS
  <2>2. i \in 0 .. n /\ i + 1 # 0 /\ (i + 1) - 1 = i
    BY <2>1
  <2>3. f[i] = g[i]
    BY <1>3, <2>2
  <2> QED  BY <1>1, <2>1, <2>2, <2>3
<1> HIDE DEF S
<1>4. \A i \in Nat : i \in S
  BY <1>2, <1>3, SetInduction
<1> QED  BY <1>4 DEF S

\* find_by_path returns where the walk ends.
LEMMA FindWalks ==
  ASSUME NEW t, NEW path, Len(path) \in Nat
  PROVE  \E f : IsWalk(t, path, Len(path), f) /\ find_by_path(t, path) = f[Len(path)]
<1> DEFINE f == CHOOSE g : g = [i \in 0 .. Len(path) |->
                                 IF i = 0 THEN Root ELSE NextOnPath(t, g[i - 1], path[i])]
<1>1. find_by_path(t, path) = f[Len(path)]
  BY DEF find_by_path
<1>2. \E g : g = [i \in 0 .. Len(path) |->
                   IF i = 0 THEN Root ELSE NextOnPath(t, g[i - 1], path[i])]
  <2>1. PICK g : IsWalk(t, path, Len(path), g)
    BY WalkExists, Zenon
  <2> QED  BY <2>1, Zenon DEF IsWalk
<1>3. IsWalk(t, path, Len(path), f)
  BY <1>2, Zenon DEF IsWalk
<1> QED  BY <1>1, <1>3, Zenon

\* The children of a node of the hierarchy.
LEMMA ChildrenOf ==
  ASSUME NEW t, TreeShape(t), NEW p \in DOMAIN t
  PROVE  /\ t[p].name \in NodeNames /\ t[p].priority \in Nat
         /\ t[p].children \in Seq(DOMAIN t \ {Root}) /\ Len(t[p].children) \in Nat
         /\ DOMAIN t[p].children = 1 .. Len(t[p].children)
BY DEF TreeShape

\* A child is a node of the tree, and not the root.
LEMMA ChildAt ==
  ASSUME NEW t, TreeShape(t), NEW p \in DOMAIN t
  PROVE  \A i \in 1 .. Len(t[p].children) :
           /\ t[p].children[i] \in Range(t[p].children)
           /\ t[p].children[i] \in DOMAIN t /\ t[p].children[i] # Root
<1> DEFINE ch == t[p].children
<1>1. ch \in Seq(DOMAIN t \ {Root}) /\ Len(ch) \in Nat /\ DOMAIN ch = 1 .. Len(ch)
  BY ChildrenOf, Zenon
<1> HIDE DEF ch
<1>2. ASSUME NEW i \in 1 .. Len(ch) PROVE ch[i] \in DOMAIN t \ {Root}
  BY <1>1
<1>3. ASSUME NEW i \in 1 .. Len(ch) PROVE ch[i] \in Range(ch)
  BY <1>1, Zenon DEF Range
<1> QED  BY <1>2, <1>3 DEF ch

\* A node at some place among the children of p.
IsChild(t, p, n) ==
  n \in DOMAIN t /\ n # Root /\ \E i \in 1 .. Len(t[p].children) : t[p].children[i] = n

\* The places of the children of a node, from their set.
LEMMA AmongChildren ==
  ASSUME NEW t, TreeShape(t), NEW p \in DOMAIN t, NEW n, n \in Range(t[p].children)
  PROVE  IsChild(t, p, n)
<1>1. DOMAIN t[p].children = 1 .. Len(t[p].children)
  BY ChildrenOf, Zenon
<1>2. PICK i \in 1 .. Len(t[p].children) : t[p].children[i] = n
  BY <1>1, Zenon DEF Range
<1> QED  BY <1>2, ChildAt, Zenon DEF IsChild

\* None, as find_child returns it, is no node.
LEMMA NoNodeOutside ==
  ASSUME NEW t, TreeShape(t)
  PROVE  NoNode \notin DOMAIN t /\ NoNode # Root
BY DEF TreeShape, NoNode, Root

\* No sibling of the same name comes before n, so that find_child finds it.
FirstOfName(t, n) ==
  \A p \in DOMAIN t : \A j \in DOMAIN t[p].children : t[p].children[j] = n =>
    \A i \in 1 .. j - 1 : t[t[p].children[i]].name # t[n].name

\* One part of a path: the node itself, or its first child of that name.
LEMMA NextNode ==
  ASSUME NEW t, TreeShape(t), OneParent(t), NEW n \in DOMAIN t, NEW part,
         NEW m, m = NextOnPath(t, n, part), m # NoNode
  PROVE  /\ m \in DOMAIN t
         /\ t[n].name = part => m = n
         /\ t[n].name # part =>
              m \in Range(t[n].children) /\ t[m].name = part /\ FirstOfName(t, m)
<1> DEFINE ch == t[n].children  i == ChildIndex(t, n, part)
<1>1. n # NoNode
  BY NoNodeOutside
<1>2. CASE t[n].name = part
  BY <1>1, <1>2 DEF NextOnPath
<1>3. CASE t[n].name # part
  <2>1. m = IF i = 0 THEN NoNode ELSE ch[i]
    BY <1>1, <1>3 DEF NextOnPath, find_child
  <2>2. i # 0 /\ m = ch[i]
    BY <2>1
  <2>3. /\ ch \in Seq(DOMAIN t \ {Root}) /\ Len(ch) \in Nat
        /\ \A k \in 1 .. Len(ch) : ch[k] \in DOMAIN t /\ ch[k] \in Range(ch)
        /\ DOMAIN ch = 1 .. Len(ch)
    BY ChildrenOf, ChildAt, Zenon
  <2>4. /\ i \in 0 .. Len(ch) /\ t[ch[i]].name = part
        /\ \A j \in 1 .. i - 1 : t[ch[j]].name # part
    BY <2>2, <2>3, FirstOfThatName
  <2> HIDE DEF i
  <2>5. i \in 1 .. Len(ch)
    BY <2>2, <2>3, <2>4
  <2>6. m \in DOMAIN t /\ m \in Range(ch) /\ t[m].name = part
    BY <2>2, <2>3, <2>4, <2>5, Zenon
  <2>7. ASSUME NEW p \in DOMAIN t, NEW j \in DOMAIN t[p].children, t[p].children[j] = m
        PROVE  p = n /\ j = i
    <3>1. i \in DOMAIN t[n].children /\ t[p].children[j] = t[n].children[i]
      BY <2>2, <2>3, <2>5, <2>7
    <3>2. \A q, r \in DOMAIN t : \A k \in DOMAIN t[q].children, l \in DOMAIN t[r].children :
            t[q].children[k] = t[r].children[l] => q = r /\ k = l
      BY Zenon DEF OneParent
    <3> QED  BY <3>1, <3>2, Zenon
  <2>8. FirstOfName(t, m)
    BY <2>4, <2>6, <2>7, Zenon DEF FirstOfName
  <2> QED  BY <1>3, <2>6, <2>8
<1> QED  BY <1>2, <1>3

\* What find_by_path returns is reached by a route, and is the first of its name
\* among its siblings.
LEMMA FoundByRoute ==
  ASSUME NEW t, TreeShape(t), OneParent(t), NEW path, Len(path) \in Nat,
         NEW p, p = find_by_path(t, path), p # NoNode
  PROVE  p \in DOMAIN t /\ Route(t, path, Len(path), p) /\ FirstOfName(t, p)
<1> DEFINE N == Len(path)
<1>1. PICK f : IsWalk(t, path, N, f) /\ p = f[N]
  BY FindWalks, Zenon
<1>2. /\ f[0] = Root /\ DOMAIN f = 0 .. N
      /\ \A i \in 1 .. N : f[i] = NextOnPath(t, f[i - 1], path[i])
  BY <1>1 DEF IsWalk
<1>3. \A i \in 1 .. N : f[i - 1] = NoNode => f[i] = NoNode
  BY <1>2 DEF NextOnPath
<1> HIDE DEF N
<1>4. N \in Nat
  BY DEF N
<1>5. \A i \in 0 .. N : f[i] # NoNode
  <2> DEFINE S == {k \in Nat : k <= N => f[N - k] # NoNode}
  <2>1. 0 \in S
    BY <1>1, <1>4
  <2>2. ASSUME NEW k \in Nat, k \in S PROVE k + 1 \in S
    <3>1. SUFFICES ASSUME k + 1 <= N PROVE f[N - (k + 1)] # NoNode
      OBVIOUS
    <3>2. k <= N /\ N - k \in 1 .. N /\ (N - k) - 1 = N - (k + 1)
      BY <1>4, <3>1
    <3>3. f[N - k] # NoNode
      BY <2>2, <3>2
    <3> QED  BY <1>3, <3>2, <3>3
  <2> HIDE DEF S
  <2>3. \A k \in Nat : k \in S
    BY <2>1, <2>2, SetInduction
  <2>4. ASSUME NEW i \in 0 .. N PROVE f[i] # NoNode
    <3>1. N - i \in Nat /\ N - i <= N /\ N - (N - i) = i
      BY <1>4
    <3> QED  BY <2>3, <3>1 DEF S
  <2> QED  BY <2>4
<1>6. \A i \in 0 .. N : f[i] \in DOMAIN t /\ FirstOfName(t, f[i])
  <2> DEFINE S == {i \in Nat : i <= N => f[i] \in DOMAIN t /\ FirstOfName(t, f[i])}
  <2>1. 0 \in S
    <3>1. Root \in DOMAIN t
      BY DEF TreeShape
    <3>2. FirstOfName(t, Root)
      <4>1. ASSUME NEW q \in DOMAIN t, NEW j \in DOMAIN t[q].children, t[q].children[j] = Root
            PROVE  FALSE
        <5>1. DOMAIN t[q].children = 1 .. Len(t[q].children)
          BY ChildrenOf, Zenon
        <5> QED  BY <4>1, <5>1, ChildAt, Zenon
      <4> QED  BY <4>1, Zenon DEF FirstOfName
    <3> QED  BY <1>2, <3>1, <3>2
  <2>2. ASSUME NEW i \in Nat, i \in S PROVE i + 1 \in S
    <3>1. SUFFICES ASSUME i + 1 <= N PROVE f[i + 1] \in DOMAIN t /\ FirstOfName(t, f[i + 1])
      OBVIOUS
    <3>2. i <= N /\ i + 1 \in 1 .. N /\ (i + 1) - 1 = i /\ i + 1 \in 0 .. N
      BY <1>4, <3>1
    <3>3. f[i] \in DOMAIN t /\ FirstOfName(t, f[i])
      BY <2>2, <3>2
    <3>4. f[i + 1] = NextOnPath(t, f[i], path[i + 1]) /\ f[i + 1] # NoNode
      BY <1>2, <1>5, <3>2
    <3>5. /\ f[i + 1] \in DOMAIN t
          /\ t[f[i]].name = path[i + 1] => f[i + 1] = f[i]
          /\ t[f[i]].name # path[i + 1] => FirstOfName(t, f[i + 1])
      BY <3>3, <3>4, NextNode
    <3> QED  BY <3>3, <3>5
  <2> HIDE DEF S
  <2>3. \A i \in Nat : i \in S
    BY <2>1, <2>2, SetInduction
  <2> QED  BY <1>4, <2>3 DEF S
<1>7. Route(t, path, N, p)
  <2>1. f \in [0 .. N -> DOMAIN t]
    <3>1. f = [i \in 0 .. N |-> f[i]]
      BY <1>1, <1>2 DEF IsWalk
    <3> QED  BY <1>6, <3>1
  <2>2. ASSUME NEW i \in 1 .. N
        PROVE  IF t[f[i - 1]].name = path[i] THEN f[i] = f[i - 1]
               ELSE f[i] \in Range(t[f[i - 1]].children) /\ t[f[i]].name = path[i]
    <3>1. i - 1 \in 0 .. N /\ i \in 0 .. N
      BY <1>4
    <3>2. f[i - 1] \in DOMAIN t /\ f[i] = NextOnPath(t, f[i - 1], path[i]) /\ f[i] # NoNode
      BY <1>2, <1>5, <1>6, <3>1
    <3> QED  BY <3>2, NextNode
  <2> QED  BY <1>1, <1>2, <2>1, <2>2, Zenon DEF Route
<1>8. N \in 0 .. N
  BY <1>4
<1> QED  BY <1>1, <1>6, <1>7, <1>8 DEF N

\* The subtree of a node has the node and with a node its children, and nothing else
\* is in it: what is not the node itself is the child of one in it.
LEMMA SubtreeOf ==
  ASSUME NEW t, TreeShape(t), NEW c \in DOMAIN t, NEW T, T = Subtree(t, c)
  PROVE  /\ c \in T /\ T \subseteq DOMAIN t /\ Closed(t, T)
         /\ \A k \in T \ {c} : \E y \in T : k \in Range(t[y].children)
<1>1. c \in T /\ T \subseteq DOMAIN t
  BY Zenon DEF Subtree
<1>2. ASSUME NEW k \in T, NEW m \in Range(t[k].children) PROVE m \in T
  <2>1. k \in DOMAIN t /\ m \in DOMAIN t
    BY <1>1, AmongChildren, Zenon DEF IsChild
  <2>2. ASSUME NEW S \in SUBSET DOMAIN t, c \in S, Closed(t, S) PROVE m \in S
    BY <2>2, Zenon DEF Subtree, Closed
  <2> QED  BY <2>1, <2>2, Zenon DEF Subtree
<1>3. Closed(t, T)
  BY <1>2, Zenon DEF Closed
<1>4. ASSUME NEW k \in T \ {c}, \A y \in T : k \notin Range(t[y].children) PROVE FALSE
  <2> DEFINE S == T \ {k}
  <2>1. S \in SUBSET DOMAIN t /\ c \in S /\ k \notin S
    BY <1>1
  <2>2. Closed(t, S)
    BY <1>3, <1>4, Zenon DEF Closed
  <2> HIDE DEF S
  <2>3. k \in S
    BY <2>1, <2>2, Zenon DEF Subtree
  <2> QED  BY <2>1, <2>3
<1> QED  BY <1>1, <1>3, <1>4, Zenon

\* What is below a child is below its parent.
LEMMA SubtreeUp ==
  ASSUME NEW t, TreeShape(t), NEW a \in DOMAIN t, NEW c \in Range(t[a].children),
         NEW k \in Subtree(t, c)
  PROVE  k \in Subtree(t, a)
<1>1. k \in DOMAIN t
  BY Zenon DEF Subtree
<1>2. ASSUME NEW S \in SUBSET DOMAIN t, a \in S, Closed(t, S) PROVE k \in S
  <2>1. c \in S
    BY <1>2, Zenon DEF Closed
  <2> QED  BY <1>2, <2>1, Zenon DEF Subtree
<1> QED  BY <1>1, <1>2, Zenon DEF Subtree

\* find_child: the first child of a name that some child has; it is not of lower
\* priority, and of higher priority if another one of that name has children.
LEMMA FirstChildFound ==
  ASSUME NEW t, TreeShape(t), ByPriority(t), NEW p \in DOMAIN t, NEW c \in Range(t[p].children),
         NEW m, m = find_child(t, p, t[c].name)
  PROVE  /\ m \in Range(t[p].children) /\ t[m].name = t[c].name /\ t[m].priority >= t[c].priority
         /\ m = c \/ t[c].children = <<>> \/ t[m].priority > t[c].priority
<1> DEFINE ch == t[p].children  i == ChildIndex(t, p, t[c].name)
<1>1. /\ ch \in Seq(DOMAIN t \ {Root}) /\ Len(ch) \in Nat /\ DOMAIN ch = 1 .. Len(ch)
      /\ \A k \in 1 .. Len(ch) : ch[k] \in DOMAIN t /\ ch[k] \in Range(ch)
  BY ChildrenOf, ChildAt, Zenon
<1>2. PICK j \in 1 .. Len(ch) : ch[j] = c
  <2>1. IsChild(t, p, c)
    BY AmongChildren, Zenon
  <2> QED  BY <2>1 DEF IsChild
<1>3. /\ i \in 0 .. Len(ch)
      /\ i = 0 => \A k \in 1 .. Len(ch) : t[ch[k]].name # t[c].name
      /\ i # 0 => t[ch[i]].name = t[c].name /\ \A k \in 1 .. i - 1 : t[ch[k]].name # t[c].name
  BY <1>1, FirstOfThatName
<1>4. m = IF i = 0 THEN NoNode ELSE ch[i]
  BY DEF find_child
<1> HIDE DEF i
<1>5. i \in 1 .. Len(ch) /\ m = ch[i] /\ t[ch[i]].name = t[c].name
  BY <1>1, <1>2, <1>3, <1>4
<1>6. ~(j < i)
  <2>1. j < i => j \in 1 .. i - 1
    BY <1>1, <1>2, <1>5
  <2> QED  BY <1>2, <1>3, <1>5, <2>1
<1>7. CASE i = j
  <2>1. m = c /\ t[c].priority \in Nat
    BY <1>1, <1>2, <1>5, <1>7, ChildrenOf
  <2> QED  BY <1>1, <1>5, <2>1
<1>8. CASE i < j
  <2>1. i \in 1 .. j - 1 /\ j \in DOMAIN t[p].children
    BY <1>1, <1>2, <1>5, <1>8
  <2>2. /\ t[ch[i]].priority >= t[ch[j]].priority
        /\ t[ch[i]].name = t[ch[j]].name /\ t[ch[j]].children # <<>>
             => t[ch[i]].priority > t[ch[j]].priority
    BY <2>1, Zenon DEF ByPriority
  <2> QED  BY <1>1, <1>2, <1>5, <2>2
<1>9. i = j \/ i < j
  BY <1>1, <1>2, <1>5, <1>6
<1> QED  BY <1>7, <1>8, <1>9

\* A node above another has children.
LEMMA AboveHasChildren ==
  ASSUME NEW t, TreeShape(t), NEW a \in DOMAIN t, NEW p \in Subtree(t, a),
         NEW n \in Range(t[p].children)
  PROVE  t[a].children # <<>>
<1>1. SUFFICES ASSUME t[a].children = <<>> PROVE FALSE
  OBVIOUS
<1>2. Range(t[a].children) = {}
  BY <1>1 DEF Range
<1>3. {a} \in SUBSET DOMAIN t /\ Closed(t, {a})
  BY <1>2 DEF Closed
<1>4. p \in {a}
  BY <1>3, Zenon DEF Subtree
<1> QED  BY <1>2, <1>4

\* A node is found under the path it was placed at, it or the sibling that comes first
\* of those of its name, unless its name is that of its parent or one above it, the
\* parent included, is outranked.
LEMMA PlaceIsFound ==
  ASSUME NEW t, NEW pl, TreeInv(t, pl), NEW p \in DOMAIN t, NEW n \in Range(t[p].children),
         t[n].name # t[p].name, \A a \in DOMAIN t : p \in Subtree(t, a) => ~Outranked(t, a),
         NEW m, m = find_by_path(t, pl[n])
  PROVE  /\ m \in Range(t[p].children) /\ t[m].name = t[n].name
         /\ t[m].priority >= t[n].priority
<1> DEFINE path == pl[n]  L == Len(path)  k == L - 1
<1>1. /\ TreeShape(t) /\ OneParent(t) /\ ByPriority(t)
      /\ path \in Seq(STRING) \ {<<>>} /\ Last(path) = t[n].name /\ Route(t, path, k, p)
  BY Zenon DEF TreeInv, PlacesLead
<1>2. L \in Nat \ {0} /\ k \in Nat /\ L = k + 1 /\ path[L] = t[n].name
  BY <1>1 DEF Last
<1>3. PICK w \in [0 .. k -> DOMAIN t] :
        /\ w[0] = Root /\ w[k] = p
        /\ \A i \in 1 .. k :
             IF t[w[i - 1]].name = path[i] THEN w[i] = w[i - 1]
             ELSE w[i] \in Range(t[w[i - 1]].children) /\ t[w[i]].name = path[i]
  BY <1>1, Zenon DEF Route
<1>4. PICK f : IsWalk(t, path, L, f) /\ m = f[L]
  <2>1. Len(path) \in Nat
    BY <1>2
  <2> QED  BY <2>1, FindWalks, Zenon
<1> HIDE DEF path, L, k
<1>5. f[0] = Root /\ \A i \in 1 .. L : f[i] = NextOnPath(t, f[i - 1], path[i])
  <2>1. f[0] = Root
    BY <1>2, <1>4 DEF IsWalk
  <2>2. ASSUME NEW i \in 1 .. L PROVE f[i] = NextOnPath(t, f[i - 1], path[i])
    BY <1>2, <1>4 DEF IsWalk
  <2> QED  BY <2>1, <2>2
<1>6. \A i \in 0 .. k : p \in Subtree(t, w[i])
  <2> DEFINE S == {j \in Nat : j <= k => p \in Subtree(t, w[k - j])}
  <2>1. 0 \in S
    <3>1. p \in Subtree(t, p)
      BY <1>1, SubtreeOf, Zenon
    <3>2. w[k - 0] = p
      BY <1>2, <1>3
    <3> QED  BY <3>1, <3>2
  <2>2. ASSUME NEW j \in Nat, j \in S PROVE j + 1 \in S
    <3>1. SUFFICES ASSUME j + 1 <= k PROVE p \in Subtree(t, w[k - (j + 1)])
      OBVIOUS
    <3>2. /\ j <= k /\ k - j \in 1 .. k /\ (k - j) - 1 = k - (j + 1)
          /\ k - j \in 0 .. k /\ k - (j + 1) \in 0 .. k
      BY <1>2, <3>1
    <3>3. p \in Subtree(t, w[k - j])
      BY <2>2, <3>2
    <3>4. w[k - j] = w[k - (j + 1)] \/ w[k - j] \in Range(t[w[k - (j + 1)]].children)
      BY <1>3, <3>2
    <3>5. w[k - (j + 1)] \in DOMAIN t
      BY <1>3, <3>2
    <3> QED  BY <1>1, <3>3, <3>4, <3>5, SubtreeUp, Zenon
  <2> HIDE DEF S
  <2>3. \A j \in Nat : j \in S
    BY <2>1, <2>2, SetInduction
  <2>4. ASSUME NEW i \in 0 .. k PROVE p \in Subtree(t, w[i])
    <3>1. k - i \in Nat /\ k - i <= k /\ k - (k - i) = i
      BY <1>2
    <3>2. k - i \in S
      BY <2>3, <3>1
    <3> QED  BY <3>1, <3>2 DEF S
  <2> QED  BY <2>4
<1>7. \A i \in 0 .. k : f[i] = w[i]
  <2> DEFINE S == {i \in Nat : i <= k => f[i] = w[i]}
  <2>1. 0 \in S
    BY <1>3, <1>5
  <2>2. ASSUME NEW i \in Nat, i \in S PROVE i + 1 \in S
    <3>1. SUFFICES ASSUME i + 1 <= k PROVE f[i + 1] = w[i + 1]
      OBVIOUS
    <3>2. /\ i <= k /\ i + 1 \in 1 .. k /\ i + 1 \in 1 .. L /\ (i + 1) - 1 = i
          /\ i \in 0 .. k /\ i + 1 \in 0 .. k
      BY <1>2, <3>1
    <3> DEFINE a == w[i]  c == w[i + 1]
    <3>3. f[i + 1] = NextOnPath(t, a, path[i + 1])
      <4>1. f[i] = w[i]
        BY <2>2, <3>2
      <4> QED  BY <1>5, <3>2, <4>1
    <3>4. /\ a \in DOMAIN t /\ c \in DOMAIN t
          /\ IF t[a].name = path[i + 1] THEN c = a
             ELSE c \in Range(t[a].children) /\ t[c].name = path[i + 1]
      BY <1>3, <3>2
    <3> HIDE DEF a, c
    <3>5. a # NoNode
      BY <1>1, <3>4, NoNodeOutside
    <3>6. CASE t[a].name = path[i + 1]
      BY <3>3, <3>4, <3>6 DEF NextOnPath, c
    <3>7. CASE t[a].name # path[i + 1]
      <4>1. c \in Range(t[a].children) /\ t[c].name = path[i + 1]
        BY <3>4, <3>7
      <4>2. f[i + 1] = find_child(t, a, t[c].name)
        BY <3>3, <3>5, <3>7, <4>1 DEF NextOnPath
      <4>3. /\ f[i + 1] \in Range(t[a].children) /\ t[f[i + 1]].name = t[c].name
            /\ f[i + 1] = c \/ t[c].children = <<>> \/ t[f[i + 1]].priority > t[c].priority
        BY <1>1, <3>4, <4>1, <4>2, FirstChildFound
      <4>4. p \in Subtree(t, c)
        BY <1>6, <3>2 DEF c
      <4>5. t[c].children # <<>>
        BY <1>1, <3>4, <4>4, AboveHasChildren, Zenon
      <4>6. ~(t[f[i + 1]].priority > t[c].priority)
        <5>1. ~Outranked(t, c)
          BY <3>4, <4>4
        <5> QED  BY <3>4, <4>1, <4>3, <5>1, Zenon DEF Outranked
      <4> QED  BY <4>3, <4>5, <4>6 DEF c
    <3> QED  BY <3>6, <3>7
  <2> HIDE DEF S
  <2>3. \A i \in Nat : i \in S
    BY <2>1, <2>2, SetInduction
  <2> QED  BY <1>2, <2>3 DEF S
<1>8. m = NextOnPath(t, p, t[n].name)
  <2>1. L \in 1 .. L /\ L - 1 = k /\ k \in 0 .. k
    BY <1>2
  <2> QED  BY <1>2, <1>3, <1>4, <1>5, <1>7, <2>1
<1>9. m = find_child(t, p, t[n].name)
  BY <1>1, <1>8, NoNodeOutside DEF NextOnPath
<1> QED  BY <1>1, <1>9, FirstChildFound

-----------------------------------------------------------------------------
(* add_child. *)

\* What add_child makes of a tree: the new node id is the k-th child of p.
Added(t, u, p, k, id, name, priority) ==
  /\ DOMAIN u = DOMAIN t \cup {id} /\ id \in Nat /\ id \notin DOMAIN t /\ id # Root
  /\ u[id].name = name /\ u[id].priority = priority /\ u[id].children = <<>>
  /\ \A n \in DOMAIN t : u[n].name = t[n].name /\ u[n].priority = t[n].priority
  /\ \A n \in DOMAIN t \ {p} : u[n].children = t[n].children
  /\ k \in 1 .. Len(t[p].children) + 1 /\ OneMore(t[p].children, k, id, u[p].children)

\* add_child: a node with a number of its own, among the children of p by priority.
LEMMA AddChild ==
  ASSUME NEW t, TreeShape(t), NEW p \in DOMAIN t, NEW name \in STRING, NEW priority \in Nat,
         NEW u, u = add_child(t, p, Node(name, priority))
  PROVE  /\ TreeShape(u)
         /\ Added(t, u, p, InsertionPoint(t, p, priority), NewNode(t), name, priority)
<1> DEFINE id == NewNode(t)  k == InsertionPoint(t, p, priority)  ch == t[p].children
           D == DOMAIN t \cup {id}  E == D \ {Root}  r == InsertAt(ch, k, id)
<1>1. IsFiniteSet(DOMAIN t) /\ DOMAIN t \subseteq Nat /\ Root \in DOMAIN t
  BY DEF TreeShape
<1>2. id \in Nat /\ id \notin DOMAIN t
  BY <1>1, NewNodeIsNew
<1>3. ch \in Seq(DOMAIN t \ {Root}) /\ Len(ch) \in Nat
  BY ChildrenOf, Zenon
<1>4. k \in 1 .. Len(ch) + 1
  BY <1>3, InsertedBefore
<1>5. u = [n \in D |-> IF n = id THEN Node(name, priority)
                       ELSE IF n = p THEN [t[p] EXCEPT !.children = r] ELSE t[n]]
  BY DEF add_child, Node
<1> HIDE DEF id, k
<1>6. id # Root /\ id # p
  BY <1>1, <1>2
<1>7. \A n \in DOMAIN t : t[n].children \in Seq(E)
  <2> DEFINE A == DOMAIN t \ {Root}
  <2>1. A \subseteq E
    OBVIOUS
  <2>2. \A n \in DOMAIN t : t[n].children \in Seq(A)
    BY ChildrenOf
  <2> HIDE DEF A, E
  <2> QED  BY <2>1, <2>2, SeqMonotonic
<1>8. r \in Seq(E) /\ OneMore(ch, k, id, r)
  <2>1. ch \in Seq(E) /\ id \in E
    BY <1>6, <1>7
  <2>2. r = InsertAt(ch, k, id)
    OBVIOUS
  <2> HIDE DEF E, ch, r
  <2>3. k \in 1 .. Len(ch) + 1
    BY <1>4 DEF ch
  <2> QED  BY <2>1, <2>2, <2>3, WithOne, Zenon
<1> HIDE DEF r, E
<1> DEFINE R == [name : NodeNames, priority : Nat, children : Seq(E)]
<1>9. \A n \in DOMAIN t : t[n] \in R
  <2> SUFFICES ASSUME NEW n \in DOMAIN t PROVE t[n] \in R
    OBVIOUS
  <2>1. \E S : t[n] \in [name : NodeNames, priority : Nat, children : S]
    BY DEF TreeShape
  <2>2. t[n].children \in Seq(E)
    BY <1>7
  <2> QED  BY <2>1, <2>2
<1>10. /\ u[id] = [name |-> name, priority |-> priority, children |-> <<>>]
       /\ u[p] = [t[p] EXCEPT !.children = r]
       /\ \A n \in DOMAIN t \ {p} : u[n] = t[n]
  BY <1>2, <1>5, <1>6 DEF Node
<1>11. u[p].name = t[p].name /\ u[p].priority = t[p].priority /\ u[p].children = r /\ u[p] \in R
  BY <1>8, <1>9, <1>10
<1>12. DOMAIN u = D
  BY <1>5
<1>13. TreeShape(u)
  <2>1. ASSUME NEW n \in D PROVE u[n] \in R
    <3>1. CASE n = id
      <4> DEFINE e == <<>>
      <4>1. e \in Seq(E) /\ name \in NodeNames
        BY DEF NodeNames
      <4>2. u[n] = [name |-> name, priority |-> priority, children |-> e]
        BY <1>10, <3>1
      <4> HIDE DEF e
      <4> QED  BY <4>1, <4>2
    <3>2. CASE n = p
      BY <1>11, <3>2
    <3>3. CASE n \in DOMAIN t \ {p}
      BY <1>9, <1>10, <3>3
    <3> QED  BY <3>1, <3>2, <3>3
  <2>2. IsFiniteSet(D)
    BY <1>1, FS_AddElement
  <2>3. D \subseteq Nat /\ Root \in D
    BY <1>1, <1>2
  <2> QED  BY <1>12, <2>1, <2>2, <2>3 DEF TreeShape, E
<1>14. \A n \in DOMAIN t : u[n].name = t[n].name /\ u[n].priority = t[n].priority
  BY <1>10, <1>11
<1>15. u[id].name = name /\ u[id].priority = priority /\ u[id].children = <<>>
  BY <1>10
<1>16. Added(t, u, p, k, id, name, priority)
  BY <1>2, <1>4, <1>6, <1>8, <1>10, <1>11, <1>12, <1>14, <1>15, Zenon DEF Added, OneMore
<1> QED  BY <1>13, <1>16 DEF k, id

\* The place that the j-th child of a had before one was inserted at place k of p.
WasAt(t, p, k, a, j, j0) ==
  /\ j0 \in 1 .. Len(t[a].children)
  /\ (j0 = j /\ (a = p => j < k)) \/ (j0 = j - 1 /\ a = p /\ j > k)

\* A child of u is the new one, or was a child of the same parent in t.
LEMMA OldPlace ==
  ASSUME NEW t, TreeShape(t), NEW p \in DOMAIN t, NEW u, NEW k, NEW id, NEW name, NEW priority,
         Added(t, u, p, k, id, name, priority),
         NEW a \in DOMAIN u, NEW j \in DOMAIN u[a].children, NEW x, x = u[a].children[j]
  PROVE  /\ a \in DOMAIN t /\ j \in Nat
         /\ \/ a = p /\ j = k /\ x = id /\ x \notin DOMAIN t
            \/ x # id /\ x \in DOMAIN t /\ \E j0 : WasAt(t, p, k, a, j, j0) /\ x = t[a].children[j0]
<1>1. a # id
  <2>1. DOMAIN u[id].children = {}
    BY DEF Added, OneMore
  <2> QED  BY <2>1
<1>2. a \in DOMAIN t /\ id \notin DOMAIN t
  BY <1>1 DEF Added, OneMore
<1>3. Len(t[a].children) \in Nat /\ DOMAIN t[a].children = 1 .. Len(t[a].children)
  BY <1>2, ChildrenOf, Zenon
<1>4. \A i \in 1 .. Len(t[a].children) : t[a].children[i] \in DOMAIN t
  BY <1>2, ChildAt, Zenon
<1>5. CASE a # p
  <2>1. u[a].children = t[a].children
    BY <1>2, <1>5 DEF Added, OneMore
  <2>2. j \in 1 .. Len(t[a].children) /\ j \in Nat
    BY <1>3, <2>1
  <2>3. WasAt(t, p, k, a, j, j)
    BY <1>5, <2>2 DEF WasAt
  <2> QED  BY <1>2, <1>4, <2>1, <2>2, <2>3
<1>6. CASE a = p
  <2>1. /\ j \in 1 .. Len(t[a].children) + 1 /\ k \in 1 .. Len(t[a].children) + 1
        /\ x = IF j < k THEN t[a].children[j]
               ELSE IF j = k THEN id ELSE t[a].children[j - 1]
    BY <1>6 DEF Added, OneMore
  <2>2. j \in Nat
    BY <1>3, <2>1
  <2>3. CASE j < k
    <3>1. j \in 1 .. Len(t[a].children)
      BY <1>3, <2>1, <2>3
    <3>2. WasAt(t, p, k, a, j, j)
      BY <2>3, <3>1 DEF WasAt
    <3> QED  BY <1>2, <1>4, <2>1, <2>2, <2>3, <3>1, <3>2
  <2>4. CASE j = k
    <3>1. ~(j < k)
      BY <2>2, <2>4
    <3> QED  BY <1>2, <1>6, <2>1, <2>2, <2>4, <3>1
  <2>5. CASE j > k
    <3>1. j - 1 \in 1 .. Len(t[a].children) /\ ~(j < k) /\ j # k
      BY <1>3, <2>1, <2>5
    <3>2. WasAt(t, p, k, a, j, j - 1)
      BY <1>6, <2>5, <3>1 DEF WasAt
    <3> QED  BY <1>2, <1>4, <2>1, <2>2, <3>1, <3>2
  <2> QED  BY <1>3, <2>1, <2>3, <2>4, <2>5
<1> QED  BY <1>5, <1>6

\* The order of the old ones is kept.
LEMMA WasInOrder ==
  ASSUME NEW t, NEW p, NEW k \in Nat, NEW a, Len(t[a].children) \in Nat,
         NEW i \in Nat, NEW j \in Nat, NEW i0, NEW j0,
         WasAt(t, p, k, a, i, i0), WasAt(t, p, k, a, j, j0)
  PROVE  (i0 = j0 => i = j) /\ (i < j => i0 < j0 /\ i0 \in 1 .. j0 - 1)
BY DEF WasAt

\* No child is lost.
LEMMA AddedRange ==
  ASSUME NEW t, TreeShape(t), NEW p \in DOMAIN t, NEW u, NEW k, NEW id, NEW name, NEW priority,
         Added(t, u, p, k, id, name, priority), NEW a \in DOMAIN t, NEW n \in Range(t[a].children)
  PROVE  n \in Range(u[a].children)
<1>1. CASE a # p
  BY <1>1 DEF Added, OneMore
<1>2. CASE a = p
  <2>1. PICK i \in 1 .. Len(t[p].children) : t[p].children[i] = n
    BY <1>2, AmongChildren DEF IsChild
  <2>2. Len(t[p].children) \in Nat /\ k \in Nat
    BY ChildrenOf DEF Added, OneMore
  <2>3. CASE i < k
    <3>1. i \in DOMAIN u[p].children /\ u[p].children[i] = n
      BY <2>1, <2>2, <2>3 DEF Added, OneMore
    <3> QED  BY <1>2, <3>1, Zenon DEF Range
  <2>4. CASE ~(i < k)
    <3>1. i + 1 \in 1 .. Len(t[p].children) + 1 /\ ~(i + 1 < k) /\ i + 1 # k /\ (i + 1) - 1 = i
      BY <2>1, <2>2, <2>4
    <3>2. i + 1 \in DOMAIN u[p].children /\ u[p].children[i + 1] = n
      BY <2>1, <3>1 DEF Added, OneMore
    <3> QED  BY <1>2, <3>2, Zenon DEF Range
  <2> QED  BY <2>3, <2>4
<1> QED  BY <1>1, <1>2

\* A node has one parent and one place among its children.
LEMMA AddOneParent ==
  ASSUME NEW t, TreeShape(t), OneParent(t), NEW p \in DOMAIN t, NEW u, TreeShape(u),
         NEW k, NEW id, NEW name, NEW priority, Added(t, u, p, k, id, name, priority)
  PROVE  OneParent(u)
<1>1. \A a, b \in DOMAIN t : \A i \in DOMAIN t[a].children, j \in DOMAIN t[b].children :
        t[a].children[i] = t[b].children[j] => a = b /\ i = j
  BY Zenon DEF OneParent
<1>2. ASSUME NEW a \in DOMAIN u, NEW b \in DOMAIN u, NEW i \in DOMAIN u[a].children,
             NEW j \in DOMAIN u[b].children, u[a].children[i] = u[b].children[j]
      PROVE  a = b /\ i = j
  <2>1. PICK x : x = u[a].children[i]
    OBVIOUS
  <2>2. x = u[b].children[j]
    BY <1>2, <2>1
  <2>3. /\ a \in DOMAIN t /\ i \in Nat
        /\ \/ a = p /\ i = k /\ x = id /\ x \notin DOMAIN t
           \/ x # id /\ x \in DOMAIN t /\ \E i0 : WasAt(t, p, k, a, i, i0) /\ x = t[a].children[i0]
    BY <2>1, OldPlace
  <2>4. /\ b \in DOMAIN t /\ j \in Nat
        /\ \/ b = p /\ j = k /\ x = id /\ x \notin DOMAIN t
           \/ x # id /\ x \in DOMAIN t /\ \E j0 : WasAt(t, p, k, b, j, j0) /\ x = t[b].children[j0]
    BY <2>2, OldPlace
  <2>5. CASE x = id
    BY <2>3, <2>4, <2>5
  <2>6. CASE x # id
    <3>1. PICK i0 : WasAt(t, p, k, a, i, i0) /\ x = t[a].children[i0]
      BY <2>3, <2>6
    <3>2. PICK j0 : WasAt(t, p, k, b, j, j0) /\ x = t[b].children[j0]
      BY <2>4, <2>6
    <3>3. i0 \in DOMAIN t[a].children /\ j0 \in DOMAIN t[b].children
      BY <2>3, <2>4, <3>1, <3>2, ChildrenOf, Zenon DEF WasAt
    <3>4. a = b /\ i0 = j0
      <4>1. t[a].children[i0] = t[b].children[j0]
        BY <3>1, <3>2
      <4>2. a \in DOMAIN t /\ b \in DOMAIN t
        BY <2>3, <2>4
      <4> QED  BY <1>1, <3>3, <4>1, <4>2, Zenon
    <3>5. k \in Nat /\ Len(t[a].children) \in Nat
      BY <2>3, ChildrenOf DEF Added, OneMore
    <3> QED  BY <2>3, <2>4, <3>1, <3>2, <3>4, <3>5, WasInOrder
  <2> QED  BY <2>5, <2>6
<1>3. ASSUME NEW n \in DOMAIN u \ {Root} PROVE \E a \in DOMAIN u : n \in Range(u[a].children)
  <2>1. p \in DOMAIN u /\ DOMAIN u[p].children = 1 .. Len(t[p].children) + 1
    BY DEF Added, OneMore
  <2>2. Len(t[p].children) \in Nat
    BY ChildrenOf
  <2>3. CASE n = id
    <3>1. k \in DOMAIN u[p].children /\ u[p].children[k] = id
      BY <2>1, <2>2 DEF Added, OneMore
    <3> QED  BY <2>1, <2>3, <3>1, Zenon DEF Range
  <2>4. CASE n # id
    <3>1. n \in DOMAIN t \ {Root}
      BY <2>4 DEF Added, OneMore
    <3>2. PICK a \in DOMAIN t : n \in Range(t[a].children)
      BY <3>1, Zenon DEF OneParent
    <3>3. a \in DOMAIN u
      BY DEF Added, OneMore
    <3>4. n \in Range(u[a].children)
      BY <3>2, AddedRange
    <3> QED  BY <3>3, <3>4
  <2> QED  BY <2>3, <2>4
<1> QED  BY <1>2, <1>3, Zenon DEF OneParent

\* Children stay in descending order of priority; what the new node comes before and
\* has its name has lower priority.
LEMMA AddByPriority ==
  ASSUME NEW t, TreeShape(t), ByPriority(t), NEW p \in DOMAIN t, FirstOfName(t, p),
         NEW u, TreeShape(u), NEW id, NEW name, NEW priority \in Nat,
         NEW k, k = InsertionPoint(t, p, priority), Added(t, u, p, k, id, name, priority)
  PROVE  ByPriority(u)
<1>1. ASSUME NEW a \in DOMAIN t, NEW j \in 1 .. Len(t[a].children), NEW i \in 1 .. j - 1
      PROVE  /\ t[t[a].children[i]].priority >= t[t[a].children[j]].priority
             /\ t[t[a].children[i]].name = t[t[a].children[j]].name
                /\ t[t[a].children[j]].children # <<>>
                => t[t[a].children[i]].priority > t[t[a].children[j]].priority
  <2>1. j \in DOMAIN t[a].children
    BY ChildrenOf
  <2> QED  BY <2>1, Zenon DEF ByPriority
<1>2. /\ \A n \in DOMAIN t : u[n].name = t[n].name /\ u[n].priority = t[n].priority
      /\ \A n \in DOMAIN t \ {p} : u[n].children = t[n].children
      /\ u[id].priority = priority /\ u[id].children = <<>> /\ k \in Nat
  BY DEF Added, OneMore
<1>3. Len(t[p].children) \in Nat /\ t[p].children \in Seq(DOMAIN t \ {Root})
  BY ChildrenOf
<1>4. /\ k \in 1 .. Len(t[p].children) + 1
      /\ \A i \in 1 .. k - 1 : ~(t[t[p].children[i]].priority < priority)
      /\ k <= Len(t[p].children) => t[t[p].children[k]].priority < priority
  BY <1>3, InsertedBefore
<1>5. SUFFICES ASSUME NEW a \in DOMAIN u, NEW j \in DOMAIN u[a].children, NEW i \in 1 .. j - 1
               PROVE  LET x == u[a].children[i]  y == u[a].children[j] IN
                      /\ u[x].priority >= u[y].priority
                      /\ u[x].name = u[y].name /\ u[y].children # <<>>
                           => u[x].priority > u[y].priority
  BY Zenon DEF ByPriority
<1> DEFINE x == u[a].children[i]  y == u[a].children[j]
<1>6. i \in DOMAIN u[a].children /\ i \in Nat /\ j \in Nat /\ i < j
  <2>1. Len(u[a].children) \in Nat /\ DOMAIN u[a].children = 1 .. Len(u[a].children)
    BY ChildrenOf, Zenon
  <2> QED  BY <2>1
<1>10. /\ a \in DOMAIN t
       /\ \/ a = p /\ i = k /\ x = id /\ x \notin DOMAIN t
          \/ x # id /\ x \in DOMAIN t /\ \E i0 : WasAt(t, p, k, a, i, i0) /\ x = t[a].children[i0]
  BY <1>6, OldPlace
<1>11. \/ a = p /\ j = k /\ y = id /\ y \notin DOMAIN t
       \/ y # id /\ y \in DOMAIN t /\ \E j0 : WasAt(t, p, k, a, j, j0) /\ y = t[a].children[j0]
  BY OldPlace
<1>7. CASE x \in DOMAIN t /\ y \in DOMAIN t
  <2>2. PICK i0 : WasAt(t, p, k, a, i, i0) /\ x = t[a].children[i0]
    BY <1>7, <1>10, Zenon
  <2>3. PICK j0 : WasAt(t, p, k, a, j, j0) /\ y = t[a].children[j0]
    BY <1>7, <1>11, Zenon
  <2>8. Len(t[a].children) \in Nat /\ DOMAIN t[a].children = 1 .. Len(t[a].children)
    BY <1>10, ChildrenOf, Zenon
  <2>4. i0 \in 1 .. j0 - 1 /\ j0 \in 1 .. Len(t[a].children)
    BY <1>2, <1>6, <2>2, <2>3, <2>8, WasInOrder DEF WasAt
  <2>5. /\ t[x].priority >= t[y].priority
        /\ t[x].name = t[y].name /\ t[y].children # <<>> => t[x].priority > t[y].priority
    BY <1>1, <1>10, <2>2, <2>3, <2>4, Zenon
  <2>6. y = p => t[x].name # t[y].name
    BY <1>10, <2>2, <2>3, <2>4, <2>8, Zenon DEF FirstOfName
  <2> HIDE DEF x, y
  <2>7. /\ u[x].name = t[x].name /\ u[y].name = t[y].name
        /\ u[x].priority = t[x].priority /\ u[y].priority = t[y].priority
        /\ y # p => u[y].children = t[y].children
    BY <1>2, <1>7
  <2> QED  BY <2>5, <2>6, <2>7 DEF x, y
<1>8. CASE y \notin DOMAIN t
  <2>1. a = p /\ j = k /\ y = id
    BY <1>8, <1>11
  <2>2. i \in 1 .. k - 1 /\ i \in 1 .. Len(t[p].children) + 1 /\ i < k
        /\ i \in 1 .. Len(t[p].children)
    BY <1>3, <1>4, <1>6, <2>1
  <2>3. x = t[p].children[i]
    BY <2>1, <2>2 DEF Added, OneMore
  <2>4. x \in DOMAIN t /\ t[x].priority \in Nat
    BY <2>2, <2>3, ChildAt, ChildrenOf
  <2>5. t[x].priority >= priority
    BY <1>4, <2>2, <2>3, <2>4
  <2> HIDE DEF x, y
  <2> QED  BY <1>2, <2>1, <2>4, <2>5 DEF x, y
<1>9. CASE x \notin DOMAIN t
  <2>1. a = p /\ i = k /\ x = id
    BY <1>9, <1>10
  <2>2. /\ j \in 1 .. Len(t[p].children) + 1 /\ ~(j < k) /\ j # k
        /\ j - 1 \in 1 .. Len(t[p].children) /\ k <= Len(t[p].children) /\ k \in 1 .. Len(t[p].children)
        /\ k = j - 1 \/ k \in 1 .. (j - 1) - 1
    <3>1. j \in 1 .. Len(t[p].children) + 1
      BY <2>1 DEF Added, OneMore
    <3> QED  BY <1>3, <1>4, <1>6, <2>1, <3>1
  <2>3. y = t[p].children[j - 1]
    BY <2>1, <2>2 DEF Added, OneMore
  <2>4. y \in DOMAIN t /\ t[y].priority \in Nat
    BY <2>2, <2>3, ChildAt, ChildrenOf
  <2> DEFINE z == t[p].children[k]
  <2>5. z \in DOMAIN t /\ t[z].priority \in Nat /\ t[z].priority < priority
    BY <1>4, <2>2, ChildAt, ChildrenOf
  <2>6. t[z].priority >= t[y].priority
    <3>1. CASE k = j - 1
      BY <2>3, <2>5, <3>1
    <3>2. CASE k \in 1 .. (j - 1) - 1
      BY <1>1, <2>2, <2>3, <3>2
    <3> QED  BY <2>2, <3>1, <3>2
  <2> HIDE DEF x, y, z
  <2>7. u[x].priority = priority /\ u[y].priority = t[y].priority
    BY <1>2, <2>1, <2>4
  <2>8. u[x].priority > u[y].priority /\ u[x].priority >= u[y].priority
    BY <2>4, <2>5, <2>6, <2>7
  <2> QED  BY <2>8 DEF x, y
<1> QED  BY <1>7, <1>8, <1>9

\* Nodes keep their names, and their children and parents as far as these are left.
KeepsWays(t, u) ==
  /\ \A a \in DOMAIN t : \A n \in Range(t[a].children) :
       n \in DOMAIN u => a \in DOMAIN u /\ n \in Range(u[a].children)
  /\ \A a \in DOMAIN t : a \in DOMAIN u => u[a].name = t[a].name

\* The places after an addition, of the new node at that path.
WithPlace(t, u, pl, path) ==
  [n \in DOMAIN u \ {Root} |-> IF n \in DOMAIN t THEN pl[n] ELSE path]

\* A route stays one when the names of its nodes and the children on it stay; only its
\* part of the path matters.
LEMMA RouteKept ==
  ASSUME NEW t, NEW u, NEW path, NEW other, NEW k \in Nat, NEW p \in DOMAIN u,
         Route(t, path, k, p), \A i \in 1 .. k : other[i] = path[i],
         KeepsWays(t, u)
  PROVE  Route(u, other, k, p)
<1>1. PICK w \in [0 .. k -> DOMAIN t] :
        /\ w[0] = Root /\ w[k] = p
        /\ \A i \in 1 .. k :
             IF t[w[i - 1]].name = path[i] THEN w[i] = w[i - 1]
             ELSE w[i] \in Range(t[w[i - 1]].children) /\ t[w[i]].name = path[i]
  BY Zenon DEF Route
<1>2. \A i \in 0 .. k : w[i] \in DOMAIN u
  <2> DEFINE S == {j \in Nat : j <= k => w[k - j] \in DOMAIN u}
  <2>1. 0 \in S
    BY <1>1
  <2>2. ASSUME NEW j \in Nat, j \in S PROVE j + 1 \in S
    <3>1. SUFFICES ASSUME j + 1 <= k PROVE w[k - (j + 1)] \in DOMAIN u
      OBVIOUS
    <3>2. /\ j <= k /\ k - j \in 1 .. k /\ (k - j) - 1 = k - (j + 1)
          /\ k - j \in 0 .. k /\ k - (j + 1) \in 0 .. k
      BY <3>1
    <3>3. w[k - j] \in DOMAIN u
      BY <2>2, <3>2
    <3>4. w[k - j] = w[k - (j + 1)] \/ w[k - j] \in Range(t[w[k - (j + 1)]].children)
      BY <1>1, <3>2
    <3>5. w[k - (j + 1)] \in DOMAIN t
      BY <1>1, <3>2
    <3> QED  BY <3>3, <3>4, <3>5, Zenon DEF KeepsWays
  <2> HIDE DEF S
  <2>3. \A j \in Nat : j \in S
    BY <2>1, <2>2, SetInduction
  <2>4. ASSUME NEW i \in 0 .. k PROVE w[i] \in DOMAIN u
    <3>1. k - i \in Nat /\ k - i <= k /\ k - (k - i) = i
      OBVIOUS
    <3>2. k - i \in S
      BY <2>3, <3>1
    <3> QED  BY <3>1, <3>2 DEF S
  <2> QED  BY <2>4
<1>3. w \in [0 .. k -> DOMAIN u]
  BY <1>1, <1>2
<1>4. ASSUME NEW i \in 1 .. k
      PROVE  IF u[w[i - 1]].name = other[i] THEN w[i] = w[i - 1]
             ELSE w[i] \in Range(u[w[i - 1]].children) /\ u[w[i]].name = other[i]
  <2>1. i - 1 \in 0 .. k /\ i \in 0 .. k
    OBVIOUS
  <2>2. /\ w[i - 1] \in DOMAIN t /\ w[i] \in DOMAIN t
        /\ w[i - 1] \in DOMAIN u /\ w[i] \in DOMAIN u
    BY <1>1, <1>2, <2>1
  <2>3. /\ other[i] = path[i] /\ u[w[i - 1]].name = t[w[i - 1]].name
        /\ u[w[i]].name = t[w[i]].name
    BY <2>2 DEF KeepsWays
  <2>4. IF t[w[i - 1]].name = path[i] THEN w[i] = w[i - 1]
        ELSE w[i] \in Range(t[w[i - 1]].children) /\ t[w[i]].name = path[i]
    BY <1>1
  <2>5. w[i] \in Range(t[w[i - 1]].children) => w[i] \in Range(u[w[i - 1]].children)
    BY <2>2, Zenon DEF KeepsWays
  <2> QED  BY <2>3, <2>4, <2>5
<1> QED  BY <1>1, <1>3, <1>4, Zenon DEF Route

\* Every node, the new one too, is below the one that its path leads to.
LEMMA AddPlaces ==
  ASSUME NEW t, NEW pl, TreeShape(t), PlacesLead(t, pl), NEW p \in DOMAIN t,
         NEW q \in Seq(STRING), Route(t, q, Len(q), p), NEW u, TreeShape(u),
         NEW k, NEW id, NEW name \in STRING, NEW priority, Added(t, u, p, k, id, name, priority),
         NEW pu, pu = WithPlace(t, u, pl, Append(q, name))
  PROVE  PlacesLead(u, pu)
<1>1. /\ DOMAIN t \subseteq DOMAIN u /\ u[id].name = name
      /\ \A n \in DOMAIN t : u[n].name = t[n].name
  BY DEF Added
<1>2. KeepsWays(t, u)
  <2>1. \A a \in DOMAIN t : \A n \in Range(t[a].children) : n \in Range(u[a].children)
    BY AddedRange
  <2> QED  BY <1>1, <2>1 DEF KeepsWays
<1>4. ASSUME NEW a \in DOMAIN u, NEW n \in Range(u[a].children)
      PROVE  /\ pu[n] \in Seq(STRING) \ {<<>>} /\ Last(pu[n]) = u[n].name
             /\ Route(u, pu[n], Len(pu[n]) - 1, a)
  <2>1. n \in DOMAIN u /\ n # Root /\ \E j \in 1 .. Len(u[a].children) : u[a].children[j] = n
    <3>1. IsChild(u, a, n)
      BY AmongChildren, Zenon
    <3> QED  BY <3>1 DEF IsChild
  <2>2. DOMAIN u[a].children = 1 .. Len(u[a].children)
    BY ChildrenOf, Zenon
  <2>3. PICK j \in DOMAIN u[a].children : n = u[a].children[j]
    BY <2>1, <2>2
  <2>4. /\ a \in DOMAIN t
        /\ \/ a = p /\ j = k /\ n = id /\ n \notin DOMAIN t
           \/ n # id /\ n \in DOMAIN t /\ \E j0 : WasAt(t, p, k, a, j, j0) /\ n = t[a].children[j0]
    BY <2>3, OldPlace
  <2>5. CASE n = id
    <3> DEFINE path == Append(q, name)
    <3>1. pu[n] = path /\ a = p
      BY <2>1, <2>4, <2>5 DEF WithPlace
    <3>2. Len(q) \in Nat
      OBVIOUS
    <3>3. /\ path \in Seq(STRING) \ {<<>>} /\ Len(path) - 1 = Len(q) /\ Last(path) = name
          /\ \A i \in 1 .. Len(q) : path[i] = q[i]
      BY DEF Last
    <3> HIDE DEF path
    <3>4. Route(u, path, Len(q), p)
      BY <1>1, <1>2, <3>2, <3>3, RouteKept
    <3> QED  BY <1>1, <2>5, <3>1, <3>3, <3>4
  <2>6. CASE n # id
    <3>1. PICK j0 : WasAt(t, p, k, a, j, j0) /\ n = t[a].children[j0]
      BY <2>4, <2>6
    <3>2. j0 \in 1 .. Len(t[a].children)
      BY <3>1 DEF WasAt
    <3>3. n \in Range(t[a].children)
      BY <2>4, <3>1, <3>2, ChildAt
    <3> DEFINE path == pl[n]
    <3>4. /\ path \in Seq(STRING) \ {<<>>} /\ Last(path) = t[n].name
          /\ Route(t, path, Len(path) - 1, a)
      BY <2>4, <3>3, Zenon DEF PlacesLead
    <3>5. pu[n] = path /\ n \in DOMAIN t
      BY <2>1, <2>4, <2>6 DEF WithPlace
    <3> HIDE DEF path
    <3>6. Len(path) - 1 \in Nat
      BY <3>4
    <3>7. Route(u, path, Len(path) - 1, a)
      BY <1>2, <3>4, <3>6, RouteKept
    <3> QED  BY <1>1, <3>4, <3>5, <3>7
  <2> QED  BY <2>5, <2>6
<1>5. DOMAIN pu = DOMAIN u \ {Root}
  BY DEF WithPlace
<1> QED  BY <1>4, <1>5, Zenon DEF PlacesLead

\* add_child below a node that find_by_path returned for q.
LEMMA AddKeeps ==
  ASSUME NEW t, NEW pl, TreeInv(t, pl), NEW q \in Seq(STRING),
         NEW p, p = find_by_path(t, q), p # NoNode,
         NEW name \in STRING, NEW priority \in Nat,
         NEW u, u = add_child(t, p, Node(name, priority)),
         NEW pu, pu = WithPlace(t, u, pl, Append(q, name))
  PROVE  TreeInv(u, pu)
<1> DEFINE id == NewNode(t)  k == InsertionPoint(t, p, priority)
<1>1. TreeShape(t) /\ OneParent(t) /\ ByPriority(t) /\ PlacesLead(t, pl)
  BY DEF TreeInv
<1>2. p \in DOMAIN t /\ Route(t, q, Len(q), p) /\ FirstOfName(t, p)
  <2>1. Len(q) \in Nat
    OBVIOUS
  <2> QED  BY <1>1, <2>1, FoundByRoute, Zenon
<1>3. TreeShape(u) /\ Added(t, u, p, k, id, name, priority)
  BY <1>1, <1>2, AddChild
<1>4. k = InsertionPoint(t, p, priority)
  OBVIOUS
<1> HIDE DEF id, k
<1>5. OneParent(u)
  BY <1>1, <1>2, <1>3, AddOneParent, Zenon
<1>6. ByPriority(u)
  BY <1>1, <1>2, <1>3, <1>4, AddByPriority, Zenon
<1>7. PlacesLead(u, pu)
  BY <1>1, <1>2, <1>3, AddPlaces, Zenon
<1> QED  BY <1>3, <1>5, <1>6, <1>7 DEF TreeInv

-----------------------------------------------------------------------------
(* remove_child. *)

\* Vec::remove: one entry less, and the others in their order.
OneLess(s, k, r) ==
  /\ DOMAIN r = 1 .. Len(s) - 1
  /\ \A i \in 1 .. Len(s) - 1 : r[i] = IF i < k THEN s[i] ELSE s[i + 1]

\* A sequence is one over every set that has its entries.
LEMMA SeqOver ==
  ASSUME NEW A, NEW B, NEW s \in Seq(A), \A i \in 1 .. Len(s) : s[i] \in B
  PROVE  s \in Seq(B)
OBVIOUS

\* What remove_child makes of a tree: the k-th child of p goes with what is below it.
Removed(t, u, p, k, T) ==
  /\ k \in 1 .. Len(t[p].children) /\ T = Subtree(t, t[p].children[k])
  /\ DOMAIN u = DOMAIN t \ T
  /\ \A n \in DOMAIN u : u[n].name = t[n].name /\ u[n].priority = t[n].priority
  /\ \A n \in DOMAIN u : n # p => u[n].children = t[n].children
  /\ p \in DOMAIN u => OneLess(t[p].children, k, u[p].children)

\* The place that the j-th child of a had before the k-th child of p went.
StayedAt(t, p, k, a, j, j0) ==
  /\ j0 \in 1 .. Len(t[a].children)
  /\ (j0 = j /\ (a = p => j < k)) \/ (j0 = j + 1 /\ a = p /\ j >= k)

\* A child of u was a child of the same parent in t.
LEMMA StayPlace ==
  ASSUME NEW t, TreeShape(t), NEW p \in DOMAIN t, NEW u, NEW k, NEW T, Removed(t, u, p, k, T),
         NEW a \in DOMAIN u, NEW j \in DOMAIN u[a].children, NEW x, x = u[a].children[j]
  PROVE  j \in Nat /\ \E j0 : StayedAt(t, p, k, a, j, j0) /\ x = t[a].children[j0]
<1>1. a \in DOMAIN t
  BY DEF Removed
<1>2. Len(t[a].children) \in Nat /\ DOMAIN t[a].children = 1 .. Len(t[a].children)
  BY <1>1, ChildrenOf, Zenon
<1>3. CASE a # p
  <2>1. u[a].children = t[a].children
    BY <1>3 DEF Removed
  <2>2. j \in 1 .. Len(t[a].children) /\ j \in Nat
    BY <1>2, <2>1
  <2>3. StayedAt(t, p, k, a, j, j)
    BY <1>3, <2>2 DEF StayedAt
  <2> QED  BY <2>1, <2>2, <2>3
<1>4. CASE a = p
  <2>1. /\ j \in 1 .. Len(t[a].children) - 1 /\ k \in 1 .. Len(t[a].children)
        /\ x = IF j < k THEN t[a].children[j] ELSE t[a].children[j + 1]
    BY <1>4 DEF Removed, OneLess
  <2>2. j \in Nat /\ j \in 1 .. Len(t[a].children) /\ j + 1 \in 1 .. Len(t[a].children)
    BY <1>2, <2>1
  <2>3. CASE j < k
    <3>1. StayedAt(t, p, k, a, j, j)
      BY <2>2, <2>3 DEF StayedAt
    <3> QED  BY <2>1, <2>2, <2>3, <3>1
  <2>4. CASE ~(j < k)
    <3>1. StayedAt(t, p, k, a, j, j + 1)
      BY <1>2, <1>4, <2>1, <2>2, <2>4 DEF StayedAt
    <3> QED  BY <2>1, <2>2, <2>4, <3>1
  <2> QED  BY <2>3, <2>4
<1> QED  BY <1>3, <1>4

\* The order of those that stay is kept.
LEMMA StayInOrder ==
  ASSUME NEW t, NEW p, NEW k \in Nat, NEW a, Len(t[a].children) \in Nat,
         NEW i \in Nat, NEW j \in Nat, NEW i0, NEW j0,
         StayedAt(t, p, k, a, i, i0), StayedAt(t, p, k, a, j, j0)
  PROVE  (i0 = j0 => i = j) /\ (i < j => i0 < j0 /\ i0 \in 1 .. j0 - 1)
BY DEF StayedAt

\* A node that stays keeps its parent, which stays.
LEMMA RemoveKeepsWays ==
  ASSUME NEW t, TreeShape(t), NEW p \in DOMAIN t, NEW u, NEW k, NEW T, Removed(t, u, p, k, T)
  PROVE  KeepsWays(t, u) /\ Root \in DOMAIN u
<1> DEFINE c == t[p].children[k]
<1>1. k \in 1 .. Len(t[p].children) /\ T = Subtree(t, c) /\ DOMAIN u = DOMAIN t \ T
  BY DEF Removed
<1>2. c \in DOMAIN t /\ c # Root
  BY <1>1, ChildAt, Zenon
<1> HIDE DEF c
<1>3. /\ c \in T /\ Closed(t, T)
      /\ T \subseteq DOMAIN t /\ \A m \in T \ {c} : \E y \in T : m \in Range(t[y].children)
  BY <1>1, <1>2, SubtreeOf, Zenon
<1>4. Root \in DOMAIN u
  <2>1. Root \in DOMAIN t
    BY DEF TreeShape
  <2>2. ASSUME NEW y \in T, Root \in Range(t[y].children) PROVE FALSE
    BY <1>3, <2>2, AmongChildren DEF IsChild
  <2> QED  BY <1>1, <1>2, <1>3, <2>1, <2>2
<1>5. ASSUME NEW a \in DOMAIN t, NEW n \in Range(t[a].children), n \in DOMAIN u
      PROVE  a \in DOMAIN u /\ n \in Range(u[a].children)
  <2>1. n \notin T /\ n # c
    BY <1>1, <1>3, <1>5
  <2>2. a \in DOMAIN u
    BY <1>1, <1>3, <2>1 DEF Closed
  <2>3. CASE a # p
    BY <2>2, <2>3 DEF Removed
  <2>4. CASE a = p
    <3>0. n \in Range(t[p].children)
      BY <2>4
    <3>1. PICK i \in 1 .. Len(t[p].children) : t[p].children[i] = n
      <4>1. IsChild(t, p, n)
        BY <3>0, AmongChildren, Zenon
      <4> QED  BY <4>1 DEF IsChild
    <3>2. Len(t[p].children) \in Nat /\ i # k
      BY <2>1, <3>1, ChildrenOf DEF c
    <3>3. CASE i < k
      <4>1. i \in 1 .. Len(t[p].children) - 1
        BY <1>1, <3>2, <3>3
      <4>2. i \in DOMAIN u[p].children /\ u[p].children[i] = n
        BY <2>2, <2>4, <3>1, <3>3, <4>1 DEF Removed, OneLess
      <4> QED  BY <2>2, <2>4, <4>2, Zenon DEF Range
    <3>4. CASE ~(i < k)
      <4>1. i - 1 \in 1 .. Len(t[p].children) - 1 /\ ~(i - 1 < k) /\ (i - 1) + 1 = i
        BY <1>1, <3>2, <3>4
      <4>2. i - 1 \in DOMAIN u[p].children /\ u[p].children[i - 1] = n
        BY <2>2, <2>4, <3>1, <4>1 DEF Removed, OneLess
      <4> QED  BY <2>2, <2>4, <4>2, Zenon DEF Range
    <3> QED  BY <3>3, <3>4
  <2> QED  BY <2>2, <2>3, <2>4
<1>6. \A a \in DOMAIN t : a \in DOMAIN u => u[a].name = t[a].name
  BY DEF Removed
<1> QED  BY <1>4, <1>5, <1>6 DEF KeepsWays

\* The children of a node that stays are those that stay of its children.
LEMMA RemoveShape ==
  ASSUME NEW t, TreeShape(t), OneParent(t), NEW p \in DOMAIN t, NEW u, NEW k, NEW T,
         Removed(t, u, p, k, T),
         \A n \in DOMAIN u : u[n] \in [name : NodeNames, priority : Nat, children : Seq(DOMAIN t \ {Root})]
  PROVE  TreeShape(u)
<1> DEFINE c == t[p].children[k]  D == DOMAIN u \ {Root}
<1>1. k \in 1 .. Len(t[p].children) /\ T = Subtree(t, c) /\ DOMAIN u = DOMAIN t \ T
  BY DEF Removed
<1>2. c \in DOMAIN t /\ c # Root
  BY <1>1, ChildAt, Zenon
<1>3. k \in DOMAIN t[p].children /\ k \in Nat
  BY <1>1, ChildrenOf
<1>4. /\ c \in T /\ T \subseteq DOMAIN t
      /\ \A m \in T \ {c} : \E y \in T : m \in Range(t[y].children)
  <2> HIDE DEF c
  <2> QED  BY <1>1, <1>2, SubtreeOf, Zenon
<1>5. \A a, b \in DOMAIN t : \A i \in DOMAIN t[a].children, j \in DOMAIN t[b].children :
        t[a].children[i] = t[b].children[j] => a = b /\ i = j
  BY Zenon DEF OneParent
<1>6. ASSUME NEW a \in DOMAIN u, NEW j \in DOMAIN u[a].children PROVE u[a].children[j] \in D
  <2>1. PICK x : x = u[a].children[j]
    OBVIOUS
  <2>2. a \in DOMAIN t /\ a \notin T
    BY <1>1
  <2>3. PICK j0 : StayedAt(t, p, k, a, j, j0) /\ x = t[a].children[j0]
    BY <2>1, StayPlace
  <2>4. j0 \in 1 .. Len(t[a].children) /\ DOMAIN t[a].children = 1 .. Len(t[a].children)
    BY <2>2, <2>3, ChildrenOf DEF StayedAt
  <2>5. x \in DOMAIN t /\ x # Root /\ x = t[a].children[j0]
    BY <2>2, <2>3, <2>4, ChildAt
  <2>6. ASSUME x = c PROVE FALSE
    <3>1. t[a].children[j0] = t[p].children[k] /\ j0 \in DOMAIN t[a].children
      BY <2>4, <2>5, <2>6
    <3>2. a = p /\ j0 = k
      BY <1>3, <1>5, <2>2, <3>1, Zenon
    <3>3. Len(t[a].children) \in Nat /\ j \in Nat
      BY <2>1, <2>2, ChildrenOf, StayPlace
    <3> QED  BY <1>3, <2>3, <3>2, <3>3 DEF StayedAt
  <2>7. ASSUME NEW y \in T, x \in Range(t[y].children) PROVE FALSE
    <3>1. y \in DOMAIN t
      BY <1>4
    <3>2. PICK i \in 1 .. Len(t[y].children) : t[y].children[i] = x
      <4>1. IsChild(t, y, x)
        BY <2>7, <3>1, AmongChildren, Zenon
      <4> QED  BY <4>1 DEF IsChild
    <3>3. i \in DOMAIN t[y].children /\ t[y].children[i] = t[a].children[j0]
      BY <2>5, <3>1, <3>2, ChildrenOf
    <3>4. y = a
      BY <1>5, <2>2, <2>4, <3>1, <3>3, Zenon
    <3> QED  BY <2>2, <3>4
  <2>8. x \notin T
    BY <1>4, <2>6, <2>7
  <2> QED  BY <1>1, <2>1, <2>5, <2>8
<1> HIDE DEF D, c
<1> DEFINE A == DOMAIN t \ {Root}
<1>7. ASSUME NEW n \in DOMAIN u
      PROVE  u[n] \in [name : NodeNames, priority : Nat, children : Seq(D)]
  <2>1. u[n] \in [name : NodeNames, priority : Nat, children : Seq(A)]
    OBVIOUS
  <2> HIDE DEF A
  <2>2. u[n].children \in Seq(A) /\ \A i \in 1 .. Len(u[n].children) : u[n].children[i] \in D
    BY <1>6, <2>1
  <2>3. u[n].children \in Seq(D)
    BY <2>2, SeqOver
  <2> QED  BY <2>1, <2>3
<1>8. IsFiniteSet(DOMAIN u) /\ DOMAIN u \subseteq Nat
  <2>1. IsFiniteSet(DOMAIN t) /\ DOMAIN t \subseteq Nat /\ DOMAIN u \subseteq DOMAIN t
    BY <1>1 DEF TreeShape
  <2>2. IsFiniteSet(DOMAIN u)
    BY <2>1, FS_Subset
  <2> QED  BY <2>1, <2>2
<1>9. Root \in DOMAIN u
  BY RemoveKeepsWays
<1> QED  BY <1>7, <1>8, <1>9 DEF TreeShape, D

\* remove_child: those that stay have the parent they had.
LEMMA RemoveOneParent ==
  ASSUME NEW t, TreeShape(t), OneParent(t), NEW p \in DOMAIN t, NEW u,
         NEW k, NEW T, Removed(t, u, p, k, T)
  PROVE  OneParent(u)
<1>1. \A a, b \in DOMAIN t : \A i \in DOMAIN t[a].children, j \in DOMAIN t[b].children :
        t[a].children[i] = t[b].children[j] => a = b /\ i = j
  BY Zenon DEF OneParent
<1>2. ASSUME NEW a \in DOMAIN u, NEW b \in DOMAIN u, NEW i \in DOMAIN u[a].children,
             NEW j \in DOMAIN u[b].children, u[a].children[i] = u[b].children[j]
      PROVE  a = b /\ i = j
  <2>1. PICK x : x = u[a].children[i]
    OBVIOUS
  <2>2. x = u[b].children[j]
    BY <1>2, <2>1
  <2>3. i \in Nat /\ \E i0 : StayedAt(t, p, k, a, i, i0) /\ x = t[a].children[i0]
    BY <2>1, StayPlace
  <2>4. j \in Nat /\ \E j0 : StayedAt(t, p, k, b, j, j0) /\ x = t[b].children[j0]
    BY <2>2, StayPlace
  <2>5. PICK i0 : StayedAt(t, p, k, a, i, i0) /\ x = t[a].children[i0]
    BY <2>3
  <2>6. PICK j0 : StayedAt(t, p, k, b, j, j0) /\ x = t[b].children[j0]
    BY <2>4
  <2>7. a \in DOMAIN t /\ b \in DOMAIN t
    BY DEF Removed
  <2>8. i0 \in DOMAIN t[a].children /\ j0 \in DOMAIN t[b].children
    BY <2>5, <2>6, <2>7, ChildrenOf, Zenon DEF StayedAt
  <2>9. a = b /\ i0 = j0
    <3>1. t[a].children[i0] = t[b].children[j0]
      BY <2>5, <2>6
    <3> QED  BY <1>1, <2>7, <2>8, <3>1, Zenon
  <2>10. k \in Nat /\ Len(t[a].children) \in Nat
    BY <2>7, ChildrenOf DEF Removed
  <2> QED  BY <2>3, <2>4, <2>5, <2>6, <2>9, <2>10, StayInOrder
<1>3. ASSUME NEW n \in DOMAIN u \ {Root} PROVE \E a \in DOMAIN u : n \in Range(u[a].children)
  <2>1. n \in DOMAIN t \ {Root}
    BY DEF Removed
  <2>2. PICK a \in DOMAIN t : n \in Range(t[a].children)
    BY <2>1, Zenon DEF OneParent
  <2>3. KeepsWays(t, u)
    BY RemoveKeepsWays
  <2> QED  BY <2>2, <2>3, Zenon DEF KeepsWays
<1> QED  BY <1>2, <1>3, Zenon DEF OneParent

\* Those that stay are in their order; one of them may have lost its last child.
LEMMA RemoveByPriority ==
  ASSUME NEW t, TreeShape(t), ByPriority(t), NEW p \in DOMAIN t, NEW u, TreeShape(u),
         NEW k, NEW T, Removed(t, u, p, k, T)
  PROVE  ByPriority(u)
<1>1. SUFFICES ASSUME NEW a \in DOMAIN u, NEW j \in DOMAIN u[a].children, NEW i \in 1 .. j - 1
               PROVE  LET x == u[a].children[i]  y == u[a].children[j] IN
                      /\ u[x].priority >= u[y].priority
                      /\ u[x].name = u[y].name /\ u[y].children # <<>>
                           => u[x].priority > u[y].priority
  BY Zenon DEF ByPriority
<1>2. a \in DOMAIN t /\ k \in Nat /\ k \in 1 .. Len(t[p].children)
  BY ChildrenOf DEF Removed
<1>3. Len(t[a].children) \in Nat /\ DOMAIN t[a].children = 1 .. Len(t[a].children)
  BY <1>2, ChildrenOf, Zenon
<1>4. i \in DOMAIN u[a].children /\ i \in Nat /\ j \in Nat /\ i < j
  <2>1. Len(u[a].children) \in Nat /\ DOMAIN u[a].children = 1 .. Len(u[a].children)
    BY ChildrenOf, Zenon
  <2> QED  BY <2>1
<1> DEFINE x == u[a].children[i]  y == u[a].children[j]
<1>5. x \in DOMAIN u /\ y \in DOMAIN u
  <2>1. DOMAIN u[a].children = 1 .. Len(u[a].children)
    BY ChildrenOf, Zenon
  <2> QED  BY <1>4, <2>1, ChildAt
<1>6. PICK i0 : StayedAt(t, p, k, a, i, i0) /\ x = t[a].children[i0]
  BY <1>4, StayPlace
<1>7. PICK j0 : StayedAt(t, p, k, a, j, j0) /\ y = t[a].children[j0]
  BY StayPlace
<1>8. i0 \in 1 .. j0 - 1 /\ j0 \in DOMAIN t[a].children
  BY <1>2, <1>3, <1>4, <1>6, <1>7, StayInOrder DEF StayedAt
<1>9. /\ t[x].priority >= t[y].priority
      /\ t[x].name = t[y].name /\ t[y].children # <<>> => t[x].priority > t[y].priority
  BY <1>2, <1>6, <1>7, <1>8, Zenon DEF ByPriority
<1> HIDE DEF x, y
<1>10. /\ u[x].name = t[x].name /\ u[y].name = t[y].name
       /\ u[x].priority = t[x].priority /\ u[y].priority = t[y].priority
       /\ y # p => u[y].children = t[y].children
  BY <1>5 DEF Removed
<1>11. y = p => t[y].children # <<>>
  BY <1>2
<1> QED  BY <1>9, <1>10, <1>11 DEF x, y

\* remove_child: the way to a node that stays goes by nodes that stay.
LEMMA RemovePlaces ==
  ASSUME NEW t, NEW pl, TreeShape(t), PlacesLead(t, pl), NEW p \in DOMAIN t, NEW u, TreeShape(u),
         NEW k, NEW T, Removed(t, u, p, k, T), NEW pu, pu = [n \in DOMAIN u \ {Root} |-> pl[n]]
  PROVE  PlacesLead(u, pu)
<1>1. KeepsWays(t, u) /\ DOMAIN u \subseteq DOMAIN t /\ \A n \in DOMAIN u : u[n].name = t[n].name
  BY RemoveKeepsWays DEF Removed
<1>2. ASSUME NEW a \in DOMAIN u, NEW n \in Range(u[a].children)
      PROVE  /\ pu[n] \in Seq(STRING) \ {<<>>} /\ Last(pu[n]) = u[n].name
             /\ Route(u, pu[n], Len(pu[n]) - 1, a)
  <2>1. n \in DOMAIN u /\ n # Root /\ \E j \in 1 .. Len(u[a].children) : u[a].children[j] = n
    <3>1. IsChild(u, a, n)
      BY AmongChildren, Zenon
    <3> QED  BY <3>1 DEF IsChild
  <2>2. DOMAIN u[a].children = 1 .. Len(u[a].children)
    BY ChildrenOf, Zenon
  <2>3. PICK j \in DOMAIN u[a].children : n = u[a].children[j]
    BY <2>1, <2>2
  <2>4. PICK j0 : StayedAt(t, p, k, a, j, j0) /\ n = t[a].children[j0]
    BY <2>3, StayPlace
  <2>5. a \in DOMAIN t /\ j0 \in 1 .. Len(t[a].children)
    BY <1>1, <2>4 DEF StayedAt
  <2>6. n \in Range(t[a].children)
    BY <2>4, <2>5, ChildAt
  <2> DEFINE path == pl[n]
  <2>7. /\ path \in Seq(STRING) \ {<<>>} /\ Last(path) = t[n].name
        /\ Route(t, path, Len(path) - 1, a)
    BY <2>5, <2>6, Zenon DEF PlacesLead
  <2>8. pu[n] = path
    BY <2>1
  <2> HIDE DEF path
  <2>9. Len(path) - 1 \in Nat
    BY <2>7
  <2>10. Route(u, path, Len(path) - 1, a)
    BY <1>1, <2>7, <2>9, RouteKept
  <2> QED  BY <1>1, <2>1, <2>7, <2>8, <2>10
<1>3. DOMAIN pu = DOMAIN u \ {Root}
  OBVIOUS
<1> QED  BY <1>2, <1>3, Zenon DEF PlacesLead

\* remove_child of a child that is there.
LEMMA RemoveKeeps ==
  ASSUME NEW t, NEW pl, TreeInv(t, pl), NEW p \in DOMAIN t, NEW name,
         find_child(t, p, name) # NoNode, NEW u, u = remove_child(t, p, name),
         NEW pu, pu = [n \in DOMAIN u \ {Root} |-> pl[n]]
  PROVE  TreeInv(u, pu)
<1> DEFINE k == ChildIndex(t, p, name)  ch == t[p].children  T == Subtree(t, ch[k])
           A == DOMAIN t \ {Root}
<1>1. TreeShape(t) /\ OneParent(t) /\ ByPriority(t) /\ PlacesLead(t, pl)
  BY DEF TreeInv
<1>2. ch \in Seq(A) /\ Len(ch) \in Nat
  BY <1>1, ChildrenOf, Zenon
<1>3. k # 0
  BY DEF find_child
<1>4. k \in 0 .. Len(ch)
  BY <1>2, FirstOfThatName
<1>5. u = [n \in DOMAIN t \ T |-> IF n = p THEN [t[p] EXCEPT !.children = RemoveAt(ch, k)] ELSE t[n]]
  BY <1>3 DEF remove_child
<1> HIDE DEF k, T
<1>6. k \in 1 .. Len(ch)
  BY <1>2, <1>3, <1>4
<1> DEFINE r == RemoveAt(ch, k)  R == [name : NodeNames, priority : Nat, children : Seq(A)]
<1>7. r \in Seq(A) /\ OneLess(ch, k, r)
  <2> HIDE DEF ch, A
  <2>1. /\ r \in Seq(A) /\ DOMAIN r = 1 .. Len(ch) - 1
        /\ \A i \in 1 .. Len(ch) - 1 : r[i] = IF i < k THEN ch[i] ELSE ch[i + 1]
    BY <1>2, <1>6, WithoutOne
  <2> QED  BY <2>1 DEF OneLess
<1>8. \A n \in DOMAIN t : t[n] \in R
  BY <1>1 DEF TreeShape
<1> HIDE DEF r, A
<1>9. DOMAIN u = DOMAIN t \ T /\ \A n \in DOMAIN u : n # p => u[n] = t[n]
  BY <1>5 DEF r
<1>10. p \in DOMAIN u => u[p] = [t[p] EXCEPT !.children = r]
  BY <1>5, <1>9 DEF r
<1>11. p \in DOMAIN u => /\ u[p].name = t[p].name /\ u[p].priority = t[p].priority
                         /\ u[p].children = r /\ u[p] \in R
  BY <1>7, <1>8, <1>10
<1>12. \A n \in DOMAIN u : u[n] \in R
  BY <1>8, <1>9, <1>11
<1>13. Removed(t, u, p, k, T)
  <2>1. /\ \A n \in DOMAIN u : u[n].name = t[n].name /\ u[n].priority = t[n].priority
        /\ \A n \in DOMAIN u : n # p => u[n].children = t[n].children
    BY <1>9, <1>11
  <2>2. p \in DOMAIN u => OneLess(t[p].children, k, u[p].children)
    BY <1>7, <1>11
  <2> QED  BY <1>6, <1>9, <2>1, <2>2 DEF Removed, T
<1>14. TreeShape(u)
  BY <1>1, <1>12, <1>13, RemoveShape, Zenon DEF A
<1>15. OneParent(u)
  BY <1>1, <1>13, RemoveOneParent, Zenon
<1>16. ByPriority(u)
  BY <1>1, <1>13, <1>14, RemoveByPriority, Zenon
<1>17. PlacesLead(u, pu)
  BY <1>1, <1>13, <1>14, RemovePlaces, Zenon
<1> QED  BY <1>14, <1>15, <1>16, <1>17 DEF TreeInv

-----------------------------------------------------------------------------
(* init_default_hierarchy. *)

\* The tree after each container.
IsSeries(t, names, n, f) ==
  f = [i \in 0 .. n |-> IF i = 0 THEN t ELSE create_container(f[i - 1], <<"root">>, names[i])]

\* The recursive function of create_containers exists.
LEMMA SeriesExists ==
  ASSUME NEW t, NEW names
  PROVE  \A n \in Nat : \E f : IsSeries(t, names, n, f)
<1> DEFINE S == {n \in Nat : \E f : IsSeries(t, names, n, f)}
<1>1. 0 \in S
  <2> DEFINE f == [i \in 0 .. 0 |-> t]
  <2>1. IsSeries(t, names, 0, f)
    BY DEF IsSeries
  <2> QED  BY <2>1
<1>2. ASSUME NEW n \in Nat, n \in S PROVE n + 1 \in S
  <2>1. PICK f : IsSeries(t, names, n, f)
    BY <1>2
  <2> DEFINE g == [i \in 0 .. n + 1 |->
                     IF i = n + 1 THEN create_container(f[n], <<"root">>, names[n + 1]) ELSE f[i]]
  <2>2. ASSUME NEW i \in 0 .. n + 1
        PROVE  g[i] = IF i = 0 THEN t ELSE create_container(g[i - 1], <<"root">>, names[i])
    <3>1. CASE i = n + 1
      <4>1. i # 0 /\ i - 1 = n /\ n \in 0 .. n + 1 /\ n # n + 1
        BY <3>1
      <4>2. g[i - 1] = f[n]
        BY <4>1
      <4> QED  BY <3>1, <4>1, <4>2
    <3>2. CASE i # n + 1
      <4>1. i \in 0 .. n /\ g[i] = f[i]
        BY <3>2
      <4>2. f[i] = IF i = 0 THEN t ELSE create_container(f[i - 1], <<"root">>, names[i])
        BY <2>1, <4>1 DEF IsSeries
      <4>3. i # 0 => i - 1 \in 0 .. n + 1 /\ i - 1 # n + 1
        BY <4>1
      <4>4. i # 0 => g[i - 1] = f[i - 1]
        BY <4>3
      <4> QED  BY <4>1, <4>2, <4>4
    <3> QED  BY <3>1, <3>2
  <2>3. IsSeries(t, names, n + 1, g)
    <3>1. g = [i \in 0 .. n + 1 |-> g[i]]
      OBVIOUS
    <3> HIDE DEF g
    <3> QED  BY <2>2, <3>1 DEF IsSeries
  <2> QED  BY <2>3
<1> HIDE DEF S
<1>3. \A n \in Nat : n \in S
  BY <1>1, <1>2, SetInduction
<1> QED  BY <1>3 DEF S

\* create_containers returns the last tree of the series.
LEMMA ContainersInSeries ==
  ASSUME NEW t, NEW names, Len(names) \in Nat
  PROVE  \E f : IsSeries(t, names, Len(names), f) /\ create_containers(t, names) = f[Len(names)]
<1> DEFINE f == CHOOSE g : g = [i \in 0 .. Len(names) |->
                   IF i = 0 THEN t ELSE create_container(g[i - 1], <<"root">>, names[i])]
<1>1. create_containers(t, names) = f[Len(names)]
  BY DEF create_containers
<1>2. \E g : g = [i \in 0 .. Len(names) |->
                   IF i = 0 THEN t ELSE create_container(g[i - 1], <<"root">>, names[i])]
  <2>1. PICK g : IsSeries(t, names, Len(names), g)
    BY SeriesExists, Zenon
  <2> QED  BY <2>1, Zenon DEF IsSeries
<1>3. IsSeries(t, names, Len(names), f)
  BY <1>2, Zenon DEF IsSeries
<1> QED  BY <1>1, <1>3, Zenon

\* find_by_path of no parts is the root.
LEMMA RootFound ==
  ASSUME NEW t PROVE find_by_path(t, <<>>) = Root
<1>1. PICK f : IsWalk(t, <<>>, Len(<<>>), f) /\ find_by_path(t, <<>>) = f[Len(<<>>)]
  BY FindWalks
<1> QED  BY <1>1 DEF IsWalk

\* The places after some containers were added below the root.
WithNames(t, u, pl) ==
  [n \in DOMAIN u \ {Root} |-> IF n \in DOMAIN t THEN pl[n] ELSE <<u[n].name>>]

\* create_container below the root.
LEMMA ContainerKeeps ==
  ASSUME NEW t, NEW pl, TreeInv(t, pl), NEW name \in STRING,
         NEW u, u = create_container(t, <<"root">>, name)
  PROVE  /\ TreeInv(u, WithPlace(t, u, pl, <<name>>)) /\ DOMAIN t \subseteq DOMAIN u
         /\ \A n \in DOMAIN t : u[n].name = t[n].name
         /\ \A n \in DOMAIN u \ DOMAIN t : u[n].name = name
<1> DEFINE q == <<>>
<1>1. q \in Seq(STRING) /\ parent_path(<<"root">>) = q /\ Append(q, name) = <<name>>
  BY DEF parent_path
<1>2. Root = find_by_path(t, q) /\ Root # NoNode
  BY RootFound DEF Root, NoNode
<1>3. u = add_child(t, Root, Node(name, 0))
  BY <1>1, <1>2 DEF create_container, register
<1> HIDE DEF q
<1>4. TreeInv(u, WithPlace(t, u, pl, Append(q, name)))
  <2>1. PICK p, z, pu : p = Root /\ z = 0 /\ pu = WithPlace(t, u, pl, Append(q, name))
    OBVIOUS
  <2>2. z \in Nat /\ p = find_by_path(t, q) /\ p # NoNode /\ u = add_child(t, p, Node(name, z))
    BY <1>2, <1>3, <2>1
  <2>3. TreeInv(u, pu)
    <3>1. q \in Seq(STRING) /\ pu = WithPlace(t, u, pl, Append(q, name))
      BY <1>1, <2>1
    <3> QED  BY <2>2, <3>1, AddKeeps, Zenon
  <2> QED  BY <2>1, <2>3
<1>5. TreeShape(t) /\ Root \in DOMAIN t
  BY DEF TreeInv, TreeShape
<1>6. Added(t, u, Root, InsertionPoint(t, Root, 0), NewNode(t), name, 0)
  <2>1. 0 \in Nat
    OBVIOUS
  <2> QED  BY <1>3, <1>5, <2>1, AddChild, Zenon
<1>7. /\ DOMAIN t \subseteq DOMAIN u /\ \A n \in DOMAIN t : u[n].name = t[n].name
      /\ \A n \in DOMAIN u \ DOMAIN t : u[n].name = name
  BY <1>6 DEF Added
<1> QED  BY <1>1, <1>4, <1>7

\* What is not at a node does not matter.
LEMMA SamePlaces ==
  ASSUME NEW t, NEW pl, TreeInv(t, pl), NEW new, new = [n \in DOMAIN t \ {Root} |-> pl[n]]
  PROVE  TreeInv(t, new)
<1>1. ASSUME NEW a \in DOMAIN t, NEW n \in Range(t[a].children)
      PROVE  /\ new[n] \in Seq(STRING) \ {<<>>} /\ Last(new[n]) = t[n].name
             /\ Route(t, new[n], Len(new[n]) - 1, a)
  <2>1. IsChild(t, a, n)
    BY AmongChildren, Zenon DEF TreeInv
  <2>2. new[n] = pl[n]
    BY <2>1 DEF IsChild
  <2> QED  BY <2>2, Zenon DEF TreeInv, PlacesLead
<1>2. DOMAIN new = DOMAIN t \ {Root}
  OBVIOUS
<1>3. PlacesLead(t, new)
  BY <1>1, <1>2, Zenon DEF PlacesLead
<1> QED  BY <1>3 DEF TreeInv

\* create_containers: one after the other.
LEMMA ContainersKeep ==
  ASSUME NEW t, NEW pl, TreeInv(t, pl), NEW names \in Seq(STRING),
         NEW u, u = create_containers(t, names)
  PROVE  TreeInv(u, WithNames(t, u, pl)) /\ DOMAIN t \subseteq DOMAIN u
<1> DEFINE N == Len(names)
           Good(v) == /\ TreeInv(v, WithNames(t, v, pl)) /\ DOMAIN t \subseteq DOMAIN v
                      /\ \A n \in DOMAIN t : v[n].name = t[n].name
<1>1. N \in Nat /\ \A i \in 1 .. N : names[i] \in STRING
  OBVIOUS
<1>2. PICK f : IsSeries(t, names, N, f) /\ u = f[N]
  BY <1>1, ContainersInSeries, Zenon
<1> HIDE DEF N
<1>3. /\ f[0] = t
      /\ \A i \in 1 .. N : f[i] = create_container(f[i - 1], <<"root">>, names[i])
  <2>1. f[0] = t
    BY <1>1, <1>2 DEF IsSeries
  <2>2. ASSUME NEW i \in 1 .. N PROVE f[i] = create_container(f[i - 1], <<"root">>, names[i])
    BY <1>1, <1>2 DEF IsSeries
  <2> QED  BY <2>1, <2>2
<1> DEFINE S == {i \in Nat : i <= N => Good(f[i])}
<1>4. 0 \in S
  <2>2. TreeInv(t, WithNames(t, t, pl))
    <3>1. WithNames(t, t, pl) = [n \in DOMAIN t \ {Root} |-> pl[n]]
      BY DEF WithNames
    <3> QED  BY <3>1, SamePlaces
  <2> QED  BY <1>3, <2>2
<1>5. ASSUME NEW i \in Nat, i \in S PROVE i + 1 \in S
  <2>1. SUFFICES ASSUME i + 1 <= N PROVE Good(f[i + 1])
    OBVIOUS
  <2>2. i <= N /\ i + 1 \in 1 .. N /\ (i + 1) - 1 = i
    BY <1>1, <2>1
  <2> DEFINE v == f[i]  x == f[i + 1]  name == names[i + 1]
             pv == WithNames(t, v, pl)
  <2>3. Good(v)
    BY <1>5, <2>2
  <2>4. x = create_container(v, <<"root">>, name) /\ name \in STRING
    BY <1>1, <1>3, <2>2
  <2> HIDE DEF v, x, name
  <2>5. /\ TreeInv(x, WithPlace(v, x, pv, <<name>>)) /\ DOMAIN v \subseteq DOMAIN x
        /\ \A n \in DOMAIN v : x[n].name = v[n].name
        /\ \A n \in DOMAIN x \ DOMAIN v : x[n].name = name
    <3>1. TreeInv(v, pv)
      BY <2>3
    <3> HIDE DEF pv
    <3> QED  BY <2>4, <3>1, ContainerKeeps
  <2>6. WithPlace(v, x, pv, <<name>>) = WithNames(t, x, pl)
    <3> DEFINE D == DOMAIN x \ {Root}
    <3>1. ASSUME NEW n \in D
          PROVE  (IF n \in DOMAIN v THEN pv[n] ELSE <<name>>)
                   = IF n \in DOMAIN t THEN pl[n] ELSE <<x[n].name>>
      <4>1. CASE n \in DOMAIN v
        <5>1. pv[n] = IF n \in DOMAIN t THEN pl[n] ELSE <<v[n].name>>
          BY <4>1 DEF WithNames
        <5>2. x[n].name = v[n].name
          BY <2>5, <4>1
        <5> QED  BY <4>1, <5>1, <5>2
      <4>2. CASE n \notin DOMAIN v
        <5>1. n \notin DOMAIN t /\ x[n].name = name
          BY <2>3, <2>5, <4>2
        <5> QED  BY <4>2, <5>1
      <4> QED  BY <4>1, <4>2
    <3> HIDE DEF D, pv
    <3>2. [n \in D |-> IF n \in DOMAIN v THEN pv[n] ELSE <<name>>]
            = [n \in D |-> IF n \in DOMAIN t THEN pl[n] ELSE <<x[n].name>>]
      BY <3>1
    <3> QED  BY <3>2 DEF WithPlace, WithNames, D
  <2>7. DOMAIN t \subseteq DOMAIN x /\ \A n \in DOMAIN t : x[n].name = t[n].name
    BY <2>3, <2>5
  <2> QED  BY <2>5, <2>6, <2>7 DEF x
<1> HIDE DEF S
<1>6. \A i \in Nat : i \in S
  BY <1>4, <1>5, SetInduction
<1>7. Good(f[N])
  BY <1>1, <1>6 DEF S
<1> QED  BY <1>2, <1>7

-----------------------------------------------------------------------------
(* The hierarchy from beginning to end. *)

\* ServiceHierarchy::new: the root.
LEMMA NewTreeHolds ==
  ASSUME NEW pl, DOMAIN pl = {}
  PROVE  TreeInv(NewTree, pl)
<1> DEFINE r == [name |-> "root", priority |-> 0, children |-> <<>>]
<1>1. DOMAIN NewTree = {Root} /\ \A n \in {Root} : NewTree[n] = r
  BY DEF NewTree, Node
<1>2. r.children = <<>> /\ r \in [name : NodeNames, priority : Nat, children : Seq({})]
  <2> DEFINE e == <<>>  S == Seq({})  n == "root"  z == 0
  <2>1. e \in S /\ n \in NodeNames /\ z \in Nat
    BY DEF NodeNames
  <2>2. r = [name |-> n, priority |-> z, children |-> e]
    OBVIOUS
  <2> HIDE DEF r, e, S, n, z
  <2>3. r.children = e /\ r \in [name : NodeNames, priority : Nat, children : S]
    BY <2>1, <2>2
  <2> QED  BY <2>3 DEF e, S
<1>3. {Root} \ {Root} = {} /\ {Root} \subseteq Nat /\ IsFiniteSet({Root})
  <2>1. IsFiniteSet({Root})
    BY FS_Singleton, Zenon
  <2>2. {Root} \ {Root} = {} /\ {Root} \subseteq Nat
    BY DEF Root
  <2> QED  BY <2>1, <2>2
<1>4. DOMAIN r.children = {} /\ Range(r.children) = {}
  BY DEF Range
<1> HIDE DEF r
<1>5. TreeShape(NewTree)
  BY <1>1, <1>2, <1>3 DEF TreeShape
<1>6. OneParent(NewTree)
  BY <1>1, <1>3, <1>4 DEF OneParent
<1>7. ByPriority(NewTree)
  BY <1>1, <1>4 DEF ByPriority
<1>8. PlacesLead(NewTree, pl)
  BY <1>1, <1>3, <1>4 DEF PlacesLead
<1> QED  BY <1>5, <1>6, <1>7, <1>8 DEF TreeInv

\* rsplit_once
LEMMA ParentPath ==
  ASSUME NEW path \in Seq(STRING) PROVE parent_path(path) \in Seq(STRING)
<1>1. CASE Len(path) <= 1
  BY <1>1 DEF parent_path
<1>2. CASE ~(Len(path) <= 1)
  <2>1. parent_path(path) = SubSeq(path, 1, Len(path) - 1)
    BY <1>2 DEF parent_path, Front
  <2>2. SubSeq(path, 1, Len(path) - 1) \in Seq(STRING)
    BY <1>2
  <2> QED  BY <2>1, <2>2
<1> QED  BY <1>1, <1>2

\* register: below the node at the parent path, or nowhere.
LEMMA RegisterKeepsTree ==
  ASSUME NEW t, NEW pl, TreeInv(t, pl), NEW path, parent_path(path) \in Seq(STRING),
         NEW name \in STRING, NEW priority \in Nat, NEW u, u = register(t, path, Node(name, priority)),
         NEW pu, pu = WithPlace(t, u, pl, Append(parent_path(path), name))
  PROVE  TreeInv(u, pu)
<1> DEFINE q == parent_path(path)  p == find_by_path(t, q)
<1>1. q \in Seq(STRING)
  OBVIOUS
<1>2. CASE p = NoNode
  <2>1. u = t
    BY <1>2 DEF register
  <2>2. pu = [n \in DOMAIN t \ {Root} |-> pl[n]]
    BY <2>1 DEF WithPlace
  <2>3. TreeInv(t, pu)
    BY <2>2, SamePlaces, Zenon
  <2> QED  BY <2>1, <2>3
<1>3. CASE p # NoNode
  <2>1. u = add_child(t, p, Node(name, priority)) /\ p = find_by_path(t, q)
    BY <1>3 DEF register
  <2>2. pu = WithPlace(t, u, pl, Append(q, name))
    OBVIOUS
  <2> HIDE DEF p, q
  <2> QED  BY <1>1, <1>3, <2>1, <2>2, AddKeeps, Zenon
<1> QED  BY <1>2, <1>3

\* The hierarchy's types.
LEMMA ShapeTypes ==
  ASSUME NEW t, NEW pl, TreeInv(t, pl)
  PROVE  /\ \A n \in DOMAIN t : t[n].children \in Seq(DOMAIN t)
         /\ DOMAIN pl = DOMAIN t \ {Root}
<1> DEFINE A == DOMAIN t \ {Root}  B == DOMAIN t
<1>1. TreeShape(t) /\ DOMAIN pl = A
  BY DEF TreeInv, PlacesLead
<1>2. \A n \in DOMAIN t : t[n].children \in Seq(A)
  BY <1>1, ChildrenOf
<1>3. A \subseteq B
  OBVIOUS
<1> HIDE DEF A, B
<1>4. \A n \in DOMAIN t : t[n].children \in Seq(B)
  BY <1>2, <1>3, SeqMonotonic
<1> QED  BY <1>1, <1>4 DEF A, B

\* register, hierarchy().register and create_container.
LEMMA PlaceKeeps ==
  ASSUME TreeInv(tree, placed), NEW path, parent_path(path) \in Seq(STRING), NEW name \in STRING,
         NEW priority \in Nat, Place(path, name, priority)
  PROVE  TreeInv(tree', placed')
<1>1. /\ tree' = register(tree, path, Node(name, priority))
      /\ placed' = WithPlace(tree, tree', placed, Append(parent_path(path), name))
  BY DEF Place, WithPlace
<1> QED  BY <1>1, RegisterKeepsTree

\* What the manager and the programs do with the hierarchy are register, remove_child
\* and create_container, and every other step leaves it alone.
LEMMA TreeKept ==
  ASSUME HostTypes, OwnerInStep, TreeInv(tree, placed), [Next]_vars
  PROVE  TreeInv(tree', placed')
<1>1. CASE UNCHANGED treeVars
  BY <1>1 DEF treeVars
<1>2. Names \subseteq STRING /\ uses.names \subseteq STRING
  BY ServiceHostAssumption DEF HostTypes, Names
<1>3. CASE OwnerRegisters
  <2>1. owner.name \in STRING
    BY <1>2, <1>3 DEF OwnerInStep, OwnerRegisters
  <2>2. parent_path(<<"root">>) \in Seq(STRING) /\ 0 \in Nat
    BY DEF parent_path
  <2>3. Place(<<"root">>, owner.name, 0)
    BY <1>3 DEF OwnerRegisters
  <2> QED  BY <2>1, <2>2, <2>3, PlaceKeeps
<1>4. CASE RegisterNode
  <2>1. PICK path \in Paths, n \in uses.names, priority \in Priorities : Place(path, n, priority)
    BY <1>4 DEF RegisterNode
  <2>2. path \in Seq(STRING) /\ n \in STRING /\ priority \in Nat
    BY <1>2, ServiceHostAssumption
  <2> QED  BY <2>1, <2>2, ParentPath, PlaceKeeps
<1>5. CASE CreateContainer
  <2>1. PICK path \in Paths, c \in Range(Containers) : Place(path, c, 0)
    BY <1>5 DEF CreateContainer
  <2>2. path \in Seq(STRING) /\ c \in STRING /\ 0 \in Nat
    BY ServiceHostAssumption DEF Range
  <2> QED  BY <2>1, <2>2, ParentPath, PlaceKeeps
<1>6. CASE init_default_hierarchy
  <2>1. /\ tree' = create_containers(tree, Containers)
        /\ placed' = WithNames(tree, tree', placed)
    BY <1>6 DEF init_default_hierarchy, WithNames
  <2>2. Containers \in Seq(STRING)
    BY ServiceHostAssumption
  <2> QED  BY <2>1, <2>2, ContainersKeep
<1>7. CASE RemoveNode
  <2>1. PICK n \in DOMAIN tree, name \in uses.names \cup Range(Containers) :
          find_child(tree, n, name) # NoNode /\ tree' = remove_child(tree, n, name)
    BY <1>7 DEF RemoveNode
  <2>2. placed' = [m \in DOMAIN tree' \ {Root} |-> placed[m]]
    BY <1>7 DEF RemoveNode
  <2> QED  BY <2>1, <2>2, RemoveKeeps
<1>8. \/ UNCHANGED treeVars
      \/ OwnerRegisters \/ RegisterNode \/ CreateContainer \/ init_default_hierarchy \/ RemoveNode
  <2>1. CASE UNCHANGED vars
    BY <2>1 DEF vars
  <2>2. CASE \E h \in Handlers : Accept(h) \/ Handle(h)
    BY <2>2 DEF Accept, Handle, list_services, get_service_status, call_service,
                start_service, stop_service, Answer, ServerElsewhere
  <2>3. CASE register_service \/ \E s \in Servers : ServerRuns(s)
    BY <2>3 DEF register_service, ServerRuns, Bind, Shutdown, Drained, ServerElsewhere
  <2>4. CASE Dispatch \/ nonrt_dispatcher \/ DropDispatcher \/ \E c \in Callers : Call(c) \/ Send(c)
    BY <2>4 DEF Dispatch, nonrt_dispatcher, DropDispatcher, Receive, NotFound, Found, AnswerCall,
                Call, Send, CallElsewhere
  <2>5. CASE RegistrarCalls \/ RegistrarGoesOn
    BY <2>5 DEF RegistrarCalls, RegistrarGoesOn, RegistrarElsewhere
  <2>6. CASE \/ \E n \in uses.names : register_nonrt(n)
             \/ start_all \/ stop_all \/ ListServices \/ NextService \/ OneService \/ NoMoreServices
    BY <2>6 DEF register_nonrt, start_all, stop_all, ListServices, NextService, OneService,
                NoMoreServices
  <2> QED  BY <2>1, <2>2, <2>3, <2>4, <2>5, <2>6 DEF Next, Owner, OwnerCalls
<1> QED  BY <1>1, <1>3, <1>4, <1>5, <1>6, <1>7, <1>8

\* hierarchy.rs: however services and containers are registered and removed, at
\* whatever paths and with whatever names and priorities, the hierarchy is a tree below
\* its root, children are in the order of their priorities, and what was placed at a
\* path is still below the nodes that the path names.
THEOREM TreeInvAlways == Spec => []TreeInv(tree, placed)
<1>1. Init => TreeInv(tree, placed)
  <2> SUFFICES ASSUME Init PROVE TreeInv(tree, placed)
    OBVIOUS
  <2>1. tree = NewTree /\ DOMAIN placed = {}
    BY DEF Init
  <2> QED  BY <2>1, NewTreeHolds
<1>2. HostInv /\ TreeInv(tree, placed) /\ [Next]_vars => TreeInv(tree, placed)'
  BY TreeKept DEF HostInv
<1> QED  BY <1>1, <1>2, HostInvAlways, PTL DEF Spec

\* The whole type invariant: that of the host, and a hierarchy whose children are all
\* nodes of it and whose nodes below the root have all been placed.
THEOREM TypesAlways == Spec => []TypeOK
<1>1. HostTypes /\ TreeInv(tree, placed) => TypeOK
  BY ShapeTypes DEF TypeOK, TreeTypes
<1> QED  BY <1>1, HostTypesAlways, TreeInvAlways, PTL

\* register, remove_child and find_by_path: a node is found under the path it was
\* placed at, it or the first sibling of its name, which is not of lower priority, with
\* the code's own two exceptions.
THEOREM PlacedAlwaysFound == Spec => []PlacedIsFound
<1>1. TreeInv(tree, placed) => PlacedIsFound
  <2> SUFFICES ASSUME TreeInv(tree, placed), NEW n \in DOMAIN placed
               PROVE  \E p \in DOMAIN tree :
                        /\ n \in Range(tree[p].children)
                        /\ \/ tree[n].name = tree[p].name
                           \/ \E a \in DOMAIN tree : p \in Subtree(tree, a) /\ Outranked(tree, a)
                           \/ LET m == find_by_path(tree, placed[n])
                              IN  /\ m \in Range(tree[p].children) /\ tree[m].name = tree[n].name
                                  /\ tree[m].priority >= tree[n].priority
    BY DEF PlacedIsFound
  <2>1. n \in DOMAIN tree \ {Root}
    BY DEF TreeInv, PlacesLead
  <2>2. PICK p \in DOMAIN tree : n \in Range(tree[p].children)
    BY <2>1, Zenon DEF TreeInv, OneParent
  <2>3. CASE \/ tree[n].name = tree[p].name
             \/ \E a \in DOMAIN tree : p \in Subtree(tree, a) /\ Outranked(tree, a)
    BY <2>2, <2>3, Zenon
  <2>4. CASE /\ tree[n].name # tree[p].name
             /\ \A a \in DOMAIN tree : p \in Subtree(tree, a) => ~Outranked(tree, a)
    <3>1. PICK m : m = find_by_path(tree, placed[n])
      OBVIOUS
    <3>2. /\ m \in Range(tree[p].children) /\ tree[m].name = tree[n].name
          /\ tree[m].priority >= tree[n].priority
      BY <2>2, <2>4, <3>1, PlaceIsFound
    <3> QED  BY <2>2, <3>1, <3>2, Zenon
  <2> QED  BY <2>3, <2>4, Zenon
<1> QED  BY <1>1, TreeInvAlways, PTL

-----------------------------------------------------------------------------
(* The real-time host, which shares no state with the one above. *)

CONSTANTS EventCap, Thresholds, Positions, Offset, Unit, Threshold, MaxWrites, MaxStores
VARIABLES pc, limit, overruns, disabled, read, speed, events, writes, source, target, left, stores,
          loaded, last_synced

Rt == INSTANCE RtHost

\* ServiceA goes on to send in the tick that found it enabled.
SendingIsEnabled == pc = "send" => ~disabled["ServiceA"]

\* What the source held in a coordinate, and what a load makes of it.
Stored(i) == {Rt!ToFixed(p[i]) : p \in Positions \cup {Rt!Origin}}
Loaded(i) == {Rt!from_fixed(n) : n \in Stored(i)}

\* sync_service.rs: a tick may load a position that the gateway never stored, but each of
\* its coordinates is one that was stored, or the initial one, in fixed-point form.
CoordinatesStored ==
  /\ \A i \in Rt!Coords : source[i] \in Stored(i)
  /\ \A i \in DOMAIN loaded : loaded[i] \in Loaded(i)
  /\ \A i \in Rt!Coords : last_synced[i] \in Loaded(i) \cup {0}

\* The types of the state that the two are about.
RtTypes ==
  /\ disabled \in [Rt!Services -> BOOLEAN]
  /\ target \in Positions \cup {Rt!Origin} /\ left \in 0 .. 2
  /\ source \in [Rt!Coords -> UNION {Stored(i) : i \in Rt!Coords}]
  /\ loaded \in Seq(UNION {Loaded(i) : i \in Rt!Coords}) /\ Len(loaded) <= 2

RtInv == RtTypes /\ SendingIsEnabled /\ CoordinatesStored

\* new: both services enabled, the position at the origin.
LEMMA RtInitHolds == Rt!Init => RtInv
<1> SUFFICES ASSUME Rt!Init PROVE RtInv
  OBVIOUS
<1>1. \A i \in Rt!Coords : source[i] \in Stored(i) /\ source[i] = Rt!ToFixed(Rt!Origin[i])
  BY DEF Rt!Init, Rt!Fixed, Stored
<1>2. source \in [Rt!Coords -> UNION {Stored(i) : i \in Rt!Coords}]
  BY <1>1 DEF Rt!Init, Rt!Fixed
<1>3. loaded = <<>> /\ \A i \in Rt!Coords : last_synced[i] = 0
  BY DEF Rt!Init, Rt!Origin
<1>4. RtTypes
  BY <1>2, <1>3 DEF RtTypes, Rt!Init
<1>5. SendingIsEnabled
  BY DEF Rt!Init, SendingIsEnabled
<1> QED  BY <1>1, <1>3, <1>4, <1>5 DEF RtInv, CoordinatesStored

\* update_stats never enables a service.
LEMMA StatsKeep ==
  ASSUME disabled \in [Rt!Services -> BOOLEAN], NEW s \in Rt!Services, Rt!UpdateStats(s)
  PROVE  /\ disabled' \in [Rt!Services -> BOOLEAN]
         /\ \A t \in Rt!Services : disabled[t] => disabled'[t]
<1>1. CASE UNCHANGED disabled
  BY <1>1
<1>2. CASE disabled' = [disabled EXCEPT ![s] = @ \/ overruns[s] + 1 >= limit]
  <2>1. PICK b \in BOOLEAN : b = (disabled[s] \/ overruns[s] + 1 >= limit)
    OBVIOUS
  <2>2. disabled' = [disabled EXCEPT ![s] = b] /\ (disabled[s] => b)
    BY <1>2, <2>1
  <2> QED  BY <2>2
<1> QED  BY <1>1, <1>2 DEF Rt!UpdateStats, Rt!statVars

\* A step of the engine thread that touches neither the statistics nor the positions, or
\* a step of a REST handler.
RtElsewhere == UNCHANGED <<disabled, source, target, left, loaded, last_synced>> /\ pc' # "send"

\* Every step of the real-time host, by what it changes of this.
LEMMA RtStepSplit ==
  ASSUME [Rt!Next]_Rt!vars
  PROVE  \/ RtElsewhere \/ UNCHANGED <<pc, disabled, source, target, left, loaded, last_synced>>
         \/ Rt!TickServiceA \/ Rt!SendSpeed \/ Rt!LoadCoordinate \/ Rt!SyncPosition
         \/ Rt!StoreBegins \/ Rt!StoreGoesOn
<1>1. CASE UNCHANGED Rt!vars
  BY <1>1 DEF Rt!vars, Rt!statVars, Rt!syncVars, Rt!gatewayVars
<1>2. CASE Rt!RunFor \/ Rt!LoopHead \/ Rt!NoMoreEvents \/ Rt!GetSpeed \/ Rt!SetSpeed
  BY <1>2 DEF Rt!RunFor, Rt!LoopHead, Rt!NoMoreEvents, Rt!GetSpeed, Rt!SetSpeed, RtElsewhere,
              Rt!statVars, Rt!syncVars, Rt!gatewayVars
<1>3. CASE Rt!set_rtcheck_config \/ Rt!ProcessEvent \/ Rt!PutSpeed \/ Rt!PostEvent
  BY <1>3 DEF Rt!set_rtcheck_config, Rt!ProcessEvent, Rt!PutSpeed, Rt!PostEvent, Rt!statVars,
              Rt!syncVars, Rt!gatewayVars
<1>4. CASE \E s \in Rt!Services : Rt!SkipDisabled(s)
  BY <1>4 DEF Rt!SkipDisabled, Rt!After, RtElsewhere, Rt!statVars, Rt!syncVars, Rt!gatewayVars
<1> QED  BY <1>1, <1>2, <1>3, <1>4 DEF Rt!Next, Rt!Loop, Rt!Tick

\* load: two coordinates and the third one.
LEMMA ThirdCoordinate ==
  ASSUME NEW S, NEW s \in Seq(S), NEW e \in S, NEW r, r = Append(s, e)
  PROVE  Len(s) = 2 => /\ r[1] = s[1] /\ r[2] = s[2] /\ r[3] = e
                       /\ 1 \in DOMAIN s /\ 2 \in DOMAIN s
<1>1. /\ \A i \in 1 .. Len(s) : Append(s, e)[i] = s[i]
      /\ Append(s, e)[Len(s) + 1] = e /\ DOMAIN s = 1 .. Len(s)
  OBVIOUS
<1> QED  BY <1>1

\* Ticks, and the stores of the gateway between the loads of one.
LEMMA RtStepKeeps == RtInv /\ [Rt!Next]_Rt!vars => RtInv'
<1> SUFFICES ASSUME RtInv, [Rt!Next]_Rt!vars PROVE RtInv'
  OBVIOUS
<1> DEFINE S == UNION {Stored(i) : i \in Rt!Coords}  L == UNION {Loaded(i) : i \in Rt!Coords}
<1>1. /\ disabled \in [Rt!Services -> BOOLEAN]
      /\ target \in Positions \cup {Rt!Origin} /\ left \in 0 .. 2
      /\ source \in [Rt!Coords -> S] /\ loaded \in Seq(L) /\ Len(loaded) <= 2
      /\ \A i \in Rt!Coords : source[i] \in Stored(i)
      /\ \A i \in DOMAIN loaded : loaded[i] \in Loaded(i)
      /\ \A i \in Rt!Coords : last_synced[i] \in Loaded(i) \cup {0}
  BY DEF RtInv, RtTypes, CoordinatesStored
<1>2. \A i \in Rt!Coords : Stored(i) \subseteq S /\ Loaded(i) \subseteq L
  OBVIOUS
<1>3. Rt!Coords = {1, 2, 3}
  BY DEF Rt!Coords
<1>4. \A i \in Rt!Coords : Rt!from_fixed(source[i]) \in Loaded(i)
  BY <1>1 DEF Loaded
<1> HIDE DEF S, L
<1>5. ASSUME /\ disabled' \in [Rt!Services -> BOOLEAN]
             /\ target' \in Positions \cup {Rt!Origin} /\ left' \in 0 .. 2
             /\ source' \in [Rt!Coords -> S] /\ loaded' \in Seq(L) /\ Len(loaded') <= 2
             /\ \A i \in Rt!Coords : source'[i] \in Stored(i)
             /\ \A i \in DOMAIN loaded' : loaded'[i] \in Loaded(i)
             /\ \A i \in Rt!Coords : last_synced'[i] \in Loaded(i) \cup {0},
             SendingIsEnabled'
      PROVE  RtInv'
  BY <1>5 DEF RtInv, RtTypes, CoordinatesStored, S, L
<1>6. CASE RtElsewhere \/ UNCHANGED <<pc, disabled, source, target, left, loaded, last_synced>>
  <2>1. SendingIsEnabled'
    BY <1>6 DEF RtInv, SendingIsEnabled, RtElsewhere
  <2> QED  BY <1>1, <1>5, <1>6, <2>1 DEF RtElsewhere
<1>7. CASE Rt!TickServiceA \/ Rt!SendSpeed
  <2>1. UNCHANGED <<source, target, left, loaded, last_synced>>
    BY <1>7 DEF Rt!TickServiceA, Rt!SendSpeed, Rt!syncVars, Rt!gatewayVars
  <2>2. disabled' \in [Rt!Services -> BOOLEAN]
    <3>1. "ServiceA" \in Rt!Services
      BY DEF Rt!Services
    <3>2. UNCHANGED disabled \/ Rt!UpdateStats("ServiceA")
      BY <1>7 DEF Rt!TickServiceA, Rt!SendSpeed, Rt!statVars
    <3> QED  BY <1>1, <3>1, <3>2, StatsKeep
  <2>3. SendingIsEnabled'
    BY <1>7 DEF Rt!TickServiceA, Rt!SendSpeed, Rt!Ticked, Rt!After, Rt!statVars, SendingIsEnabled
  <2> QED  BY <1>1, <1>5, <2>1, <2>2, <2>3
<1>8. CASE Rt!LoadCoordinate
  <2> DEFINE k == Len(loaded) + 1
  <2>1. /\ UNCHANGED <<pc, disabled, source, target, left, last_synced>> /\ Len(loaded) < 2
        /\ loaded' = Append(loaded, Rt!from_fixed(source[k]))
    BY <1>8 DEF Rt!LoadCoordinate, Rt!statVars, Rt!gatewayVars
  <2>2. k \in Rt!Coords
    BY <1>1, <1>3, <2>1
  <2>3. Rt!from_fixed(source[k]) \in Loaded(k) /\ Rt!from_fixed(source[k]) \in L
    BY <1>2, <1>4, <2>2
  <2>4. /\ loaded' \in Seq(L) /\ Len(loaded') <= 2
        /\ \A i \in DOMAIN loaded' : loaded'[i] \in Loaded(i)
    <3>1. PICK v \in L : v = Rt!from_fixed(source[k]) /\ loaded' = Append(loaded, v)
      BY <2>1, <2>3
    <3>2. loaded' \in Seq(L) /\ Len(loaded') = k /\ loaded'[k] = v
          /\ \A i \in 1 .. Len(loaded) : loaded'[i] = loaded[i]
      BY <1>1, <3>1
    <3>3. ASSUME NEW i \in DOMAIN loaded' PROVE loaded'[i] \in Loaded(i)
      BY <1>1, <2>3, <3>1, <3>2
    <3> QED  BY <1>1, <2>1, <3>2, <3>3
  <2>5. SendingIsEnabled'
    BY <2>1 DEF RtInv, SendingIsEnabled
  <2> QED  BY <1>1, <1>5, <2>1, <2>4, <2>5
<1>9. CASE Rt!SyncPosition
  <2> DEFINE v == Rt!from_fixed(source[3])  new_pos == Append(loaded, v)
  <2>1. /\ UNCHANGED <<source, target, left>> /\ Len(loaded) = 2 /\ loaded' = <<>>
        /\ pc' # "send" /\ Rt!UpdateStats("PositionSync")
        /\ last_synced' = new_pos \/ last_synced' = last_synced
    BY <1>9 DEF Rt!SyncPosition, Rt!gatewayVars, Rt!After
  <2>2. disabled' \in [Rt!Services -> BOOLEAN]
    <3>1. "PositionSync" \in Rt!Services
      BY DEF Rt!Services
    <3> QED  BY <1>1, <2>1, <3>1, StatsKeep
  <2>3. v \in Loaded(3) /\ v \in L
    BY <1>2, <1>3, <1>4
  <2> HIDE DEF v
  <2>4. \A i \in Rt!Coords : new_pos[i] \in Loaded(i)
    <3>1. new_pos[3] = v /\ new_pos[1] = loaded[1] /\ new_pos[2] = loaded[2]
          /\ 1 \in DOMAIN loaded /\ 2 \in DOMAIN loaded
      <4>1. loaded \in Seq(L) /\ Len(loaded) = 2 /\ v \in L
        BY <1>1, <2>1, <2>3
      <4>2. PICK r : r = Append(loaded, v)
        OBVIOUS
      <4> QED  BY <4>1, <4>2, ThirdCoordinate
    <3> HIDE DEF new_pos
    <3> QED  BY <1>1, <1>3, <2>3, <3>1
  <2>5. \A i \in Rt!Coords : last_synced'[i] \in Loaded(i) \cup {0}
    <3> HIDE DEF new_pos
    <3> QED  BY <1>1, <2>1, <2>4
  <2>6. loaded' \in Seq(L) /\ Len(loaded') <= 2 /\ DOMAIN loaded' = {}
    BY <2>1
  <2>7. SendingIsEnabled'
    BY <2>1 DEF SendingIsEnabled
  <2> QED  BY <1>1, <1>5, <2>1, <2>2, <2>5, <2>6, <2>7
<1>10. CASE Rt!StoreBegins \/ Rt!StoreGoesOn
  <2>1. PICK k \in Rt!Coords, p \in Positions \cup {Rt!Origin} :
          source' = [source EXCEPT ![k] = Rt!ToFixed(p[k])]
    BY <1>1, <1>3, <1>10 DEF Rt!StoreBegins, Rt!StoreGoesOn
  <2>2. Rt!ToFixed(p[k]) \in Stored(k) /\ Rt!ToFixed(p[k]) \in S
    BY <1>2, <2>1 DEF Stored
  <2>3. source' \in [Rt!Coords -> S] /\ \A i \in Rt!Coords : source'[i] \in Stored(i)
    BY <1>1, <2>1, <2>2
  <2>4. /\ UNCHANGED <<pc, disabled, loaded, last_synced>>
        /\ target' \in Positions \cup {Rt!Origin} /\ left' \in 0 .. 2
    BY <1>1, <1>10 DEF Rt!StoreBegins, Rt!StoreGoesOn, Rt!statVars, Rt!syncVars
  <2>5. SendingIsEnabled'
    BY <2>4 DEF RtInv, SendingIsEnabled
  <2> QED  BY <1>1, <1>5, <2>3, <2>4, <2>5
<1> QED  BY <1>6, <1>7, <1>8, <1>9, <1>10, RtStepSplit

\* sample_engine.rs, sync_service.rs: the three together are inductive.
THEOREM RtInvAlways == Rt!Spec => []RtInv
<1> QED  BY RtInitHolds, RtStepKeeps, PTL DEF Rt!Spec

\* sync_service.rs: what PositionSync synced is made of coordinates that were stored.
THEOREM SyncedAlwaysStored == Rt!Spec => []CoordinatesStored
<1>1. RtInv => CoordinatesStored
  BY DEF RtInv
<1> QED  BY <1>1, RtInvAlways, PTL

\* tick_rt: a disabled service stays disabled and has no effect any more.
THEOREM DisabledAlwaysInert == Rt!Spec => Rt!DisabledIsInert
<1> DEFINE A == /\ disabled["ServiceA"] => disabled'["ServiceA"] /\ pc' # "send"
                /\ disabled["PositionSync"] => disabled'["PositionSync"] /\ UNCHANGED last_synced
<1>1. RtInv /\ [Rt!Next]_Rt!vars => [A]_Rt!vars
  <2> SUFFICES ASSUME RtInv, [Rt!Next]_Rt!vars PROVE A
    OBVIOUS
  <2>1. disabled \in [Rt!Services -> BOOLEAN] /\ (pc = "send" => ~disabled["ServiceA"])
    BY DEF RtInv, RtTypes, SendingIsEnabled
  <2>2. "ServiceA" \in Rt!Services /\ "PositionSync" \in Rt!Services
    BY DEF Rt!Services
  <2>3. CASE \/ RtElsewhere \/ UNCHANGED <<pc, disabled, source, target, left, loaded, last_synced>>
             \/ Rt!LoadCoordinate \/ Rt!StoreBegins \/ Rt!StoreGoesOn
    BY <2>1, <2>3 DEF RtElsewhere, Rt!LoadCoordinate, Rt!StoreBegins, Rt!StoreGoesOn, Rt!statVars,
                      Rt!syncVars, Rt!Ticked
  <2>4. CASE Rt!TickServiceA \/ Rt!SendSpeed
    <3>1. ~disabled["ServiceA"] /\ UNCHANGED last_synced
      BY <2>1, <2>4 DEF Rt!TickServiceA, Rt!SendSpeed, Rt!Ticked, Rt!syncVars
    <3>2. UNCHANGED disabled \/ Rt!UpdateStats("ServiceA")
      BY <2>4 DEF Rt!TickServiceA, Rt!SendSpeed, Rt!statVars
    <3>3. disabled["PositionSync"] => disabled'["PositionSync"]
      BY <2>1, <2>2, <3>2, StatsKeep
    <3> QED  BY <3>1, <3>3
  <2>5. CASE Rt!SyncPosition
    <3>1. ~disabled["PositionSync"] /\ Rt!UpdateStats("PositionSync") /\ pc' # "send"
      BY <2>5 DEF Rt!SyncPosition, Rt!Ticked, Rt!After
    <3>2. disabled["ServiceA"] => disabled'["ServiceA"]
      BY <2>1, <2>2, <3>1, StatsKeep
    <3> QED  BY <3>1, <3>2
  <2> QED  BY <2>3, <2>4, <2>5, RtStepSplit
<1> QED  BY <1>1, RtInvAlways, PTL DEF Rt!Spec, Rt!DisabledIsInert

=============================================================================
