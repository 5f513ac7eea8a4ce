---------------------------- MODULE MqttGatewayProofs ----------------------------
(***************************************************************************)
(* Proofs about MqttGateway: GatewayInv is inductive, for every capacity   *)
(* of the three channels, every set of messages and any number of lost     *)
(* connections.                                                            *)
(***************************************************************************)
EXTENDS MqttGateway, SequenceTheorems, FiniteSetTheorems, TLAPS

USE CapsAssumption, BoundsAssumption

-----------------------------------------------------------------------------
(* Sequences that hand over their elements. *)

\* The head of the second joins the end of the first.
LEMMA HandOver ==
  ASSUME NEW S, NEW a \in Seq(S), NEW b \in Seq(S), b # <<>>
  PROVE  Append(a, Head(b)) \o Tail(b) = a \o b
OBVIOUS

\* A single element leaves the head of the last,
LEMMA TakeOne ==
  ASSUME NEW S, NEW a \in Seq(S), NEW b \in Seq(S), b # <<>>
  PROVE  a \o <<Head(b)>> \o Tail(b) = a \o <<>> \o b
OBVIOUS

\* .. or joins the end of the one before it.
LEMMA GiveOne ==
  ASSUME NEW S, NEW a \in Seq(S), NEW b \in Seq(S), NEW x \in S
  PROVE  a \o Append(b, x) \o <<>> = a \o b \o <<x>>
OBVIOUS

\* What is appended to the last is appended to all.
LEMMA AppendLast ==
  ASSUME NEW S, NEW a \in Seq(S), NEW b \in Seq(S), NEW x \in S
  PROVE  a \o Append(b, x) = Append(a \o b, x)
OBVIOUS

-----------------------------------------------------------------------------
(* Types. *)

\* The echo of a command is decoded like any message.
LEMMA Decoded ==
  ASSUME NEW m \in Messages \cup {Echo}
  PROVE  decode_events(m) \in Seq(GatewayEvents)
BY DecodeAssumption DEF Echo

\* The initial state: the subscription is queued, nothing else has happened.
LEMMA TypesInit == Init => TypeOK /\ TaskInStep /\ EngineInStep
<1> SUFFICES ASSUME Init PROVE TypeOK /\ TaskInStep /\ EngineInStep
  OBVIOUS
<1>1. {reachable, connected, subscribed, cancelled} \subseteq BOOLEAN
  BY DEF Init
<1>2. {gwProps, engProps} \subseteq PropertyModels
  BY DEF Init, NoProperties, PropertyModels
<1>3. requests \in Seq(Nat) /\ Len(requests) = 1
  BY DEF Init, Subscription
<1>4. TypeOK
  BY <1>1, <1>2, <1>3 DEF Init, TypeOK
<1>5. TaskInStep /\ EngineInStep
  BY <1>3 DEF Init, TaskInStep, EngineInStep
<1> QED  BY <1>4, <1>5

\* The broker, the machines and the client's connection.
LEMMA BrokerTypes ==
  ASSUME TypeOK, TaskInStep, EngineInStep,
         \/ \E m \in Messages : MachineSends(m)
         \/ ConnectionLost \/ BrokerReturns \/ PollConnects \/ PollSends
  PROVE  TypeOK' /\ TaskInStep' /\ EngineInStep'
<1> USE DEF taskVars, engineVars
<1>1. CASE \E m \in Messages : MachineSends(m)
  BY <1>1 DEF TypeOK, TaskInStep, EngineInStep, MachineSends
<1>2. CASE ConnectionLost \/ BrokerReturns \/ PollConnects
  <2>1. {reachable', connected', subscribed', cancelled'} \subseteq BOOLEAN
    <3>1. /\ reachable \in BOOLEAN /\ connected \in BOOLEAN /\ subscribed \in BOOLEAN
          /\ cancelled \in BOOLEAN
      BY DEF TypeOK
    <3>2. CASE ConnectionLost
      BY <3>1, <3>2, Zenon DEF ConnectionLost
    <3>3. CASE BrokerReturns
      BY <3>1, <3>3, Zenon DEF BrokerReturns
    <3>4. CASE PollConnects
      BY <3>1, <3>4, Zenon DEF PollConnects
    <3> QED  BY <1>2, <3>2, <3>3, <3>4
  <2>2. inbox' \in Seq(Messages \cup {Echo})
    <3>1. inbox \in Seq(Messages \cup {Echo}) /\ (inbox' = inbox \/ inbox' = <<>>)
      BY <1>2, Zenon DEF TypeOK, ConnectionLost, BrokerReturns, PollConnects
    <3>2. <<>> \in Seq(Messages \cup {Echo})
      OBVIOUS
    <3> QED  BY <3>1, <3>2, Zenon
  <2>3. outages' \in 0 .. MaxOutages
    <3>1. outages \in 0 .. MaxOutages /\ (outages' = outages \/ (outages < MaxOutages /\ outages' = outages + 1))
      BY <1>2, Zenon DEF TypeOK, ConnectionLost, BrokerReturns, PollConnects
    <3> QED  BY <3>1
  <2> QED
    BY <1>2, <2>1, <2>2, <2>3
    DEF TypeOK, TaskInStep, EngineInStep, ConnectionLost, BrokerReturns, PollConnects
<1>3. CASE PollSends
  <2>1. requests \in Seq(Nat) /\ Len(requests) <= RequestCap /\ requests # <<>>
        /\ requests' = Tail(requests)
    BY <1>3 DEF TypeOK, PollSends
  <2>2. Head(requests) \in Nat /\ requests' \in Seq(Nat) /\ Len(requests') <= RequestCap
    BY <2>1
  <2>3. \A i \in 2 .. Len(requests') : requests'[i] # Subscription
    BY <2>1 DEF TaskInStep
  <2>4. /\ inbox' \in Seq(Messages \cup {Echo})
        /\ published' \in Seq(Nat \ {0})
        /\ subscribed' \in BOOLEAN
    <3>1. /\ inbox \in Seq(Messages \cup {Echo}) /\ published \in Seq(Nat \ {0})
          /\ subscribed \in BOOLEAN
      BY DEF TypeOK
    <3>2. CASE Head(requests) = Subscription
      BY <1>3, <3>1, <3>2 DEF PollSends
    <3>3. CASE Head(requests) # Subscription
      <4>1. /\ inbox' = Append(inbox, Echo) \/ inbox' = inbox
            /\ published' = Append(published, Head(requests)) /\ subscribed' = subscribed
        BY <1>3, <3>3, Zenon DEF PollSends
      <4>2. Head(requests) \in Nat \ {0}
        BY <2>2, <3>3 DEF Subscription
      <4>3. published' \in Seq(Nat \ {0})
        BY <3>1, <4>1, <4>2, AppendProperties
      <4>4. Append(inbox, Echo) \in Seq(Messages \cup {Echo})
        BY <3>1
      <4> QED  BY <3>1, <4>1, <4>3, <4>4, Zenon
    <3> QED  BY <3>2, <3>3
  <2>5. TypeOK'
    BY <1>3, <2>2, <2>4 DEF TypeOK, PollSends
  <2> QED  BY <1>3, <2>3, <2>5 DEF PollSends, TaskInStep, EngineInStep
<1> QED  BY <1>1, <1>2, <1>3

\* The gateway task.
LEMMA TaskTypes ==
  ASSUME TypeOK, TaskInStep, EngineInStep,
         \/ PollReceives \/ TakeCommand \/ Publish \/ ObserveShutdown
         \/ ApplyTelemetry \/ SendEvent \/ SendFails
  PROVE  TypeOK' /\ TaskInStep' /\ EngineInStep'
<1> USE DEF mqttVars, engineVars
<1>1. CASE PollReceives
  <2>1. Head(inbox) \in Messages \cup {Echo} /\ Tail(inbox) \in Seq(Messages \cup {Echo})
    BY <1>1 DEF PollReceives, TypeOK
  <2>2. pending' \in Seq(GatewayEvents)
    BY <1>1, <2>1, Decoded DEF PollReceives
  <2>3. decoded' \in Seq(GatewayEvents)
    BY <1>1, <2>2 DEF PollReceives, TypeOK
  <2>4. TypeOK'
    BY <1>1, <2>1, <2>2, <2>3 DEF PollReceives, TypeOK
  <2> QED  BY <1>1, <2>4 DEF PollReceives, TaskInStep, EngineInStep
<1>2. CASE TakeCommand
  <2>1. Head(commands) \in Nat \ {0} /\ Tail(commands) \in Seq(Nat \ {0})
        /\ Len(Tail(commands)) <= CommandCap
    BY <1>2 DEF TakeCommand, TypeOK
  <2>2. TypeOK'
    BY <1>2, <2>1 DEF TakeCommand, TypeOK
  <2> QED  BY <1>2, <2>1, <2>2 DEF TakeCommand, TaskInStep, EngineInStep, Subscription
<1>3. CASE Publish
  <2>1. requests' \in Seq(Nat) /\ Len(requests') <= RequestCap
    BY <1>3 DEF Publish, TypeOK
  <2>2. \A i \in 2 .. Len(requests') : requests'[i] # Subscription
    BY <1>3 DEF Publish, TypeOK, TaskInStep
  <2>3. TypeOK'
    BY <1>3, <2>1 DEF Publish, TypeOK
  <2> QED  BY <1>3, <2>2, <2>3 DEF Publish, TaskInStep, EngineInStep
<1>4. CASE ObserveShutdown \/ SendFails
  BY <1>4 DEF ObserveShutdown, SendFails, TypeOK, TaskInStep, EngineInStep
<1>5. CASE ApplyTelemetry
  <2>1. pending \in Seq(GatewayEvents) /\ pending # <<>>
    BY <1>5 DEF ApplyTelemetry, TypeOK, TaskInStep
  <2>2. gwProps' \in PropertyModels
    BY <1>5 DEF ApplyTelemetry, TypeOK, apply_telemetry, Updates, PropertyModels
  <2>3. TypeOK'
    BY <1>5, <2>2 DEF ApplyTelemetry, TypeOK
  <2> QED  BY <1>5, <2>1, <2>3 DEF ApplyTelemetry, TaskInStep, EngineInStep
<1>6. CASE SendEvent
  <2>1. pending \in Seq(GatewayEvents) /\ pending # <<>> /\ events \in Seq(GatewayEvents)
    BY <1>6 DEF SendEvent, TypeOK, TaskInStep
  <2>2. Head(pending) \in GatewayEvents /\ Tail(pending) \in Seq(GatewayEvents)
    BY <2>1
  <2>3. events' \in Seq(GatewayEvents) /\ Len(events') <= EventCap
    BY <1>6, <2>1, <2>2 DEF SendEvent, TypeOK
  <2>4. TypeOK'
    BY <1>6, <2>2, <2>3 DEF SendEvent, TypeOK, AfterEvent
  <2> QED  BY <1>6, <2>4 DEF SendEvent, AfterEvent, TaskInStep, EngineInStep
<1> QED  BY <1>1, <1>2, <1>3, <1>4, <1>5, <1>6

\* The engine, the owner of the Gateway and the shutdown token.
LEMMA EngineTypes ==
  ASSUME TypeOK, TaskInStep, EngineInStep,
         \/ EngineReceives \/ React \/ SendCommand \/ EngineEnds \/ StopReturns
         \/ Cancel \/ StopCalled \/ DropGateway
  PROVE  TypeOK' /\ TaskInStep' /\ EngineInStep'
<1> USE DEF mqttVars, taskVars
<1>1. CASE EngineReceives
  <2>1. Head(events) \in GatewayEvents /\ Tail(events) \in Seq(GatewayEvents)
        /\ Len(Tail(events)) <= EventCap
    BY <1>1 DEF EngineReceives, TypeOK
  <2>2. consumed' \in Seq(GatewayEvents)
    BY <1>1, <2>1 DEF EngineReceives, TypeOK
  <2>3. TypeOK'
    BY <1>1, <2>1, <2>2 DEF EngineReceives, TypeOK
  <2> QED  BY <1>1, <2>1, <2>3 DEF EngineReceives, TaskInStep, EngineInStep
<1>2. CASE React
  <2>1. engProps' \in PropertyModels
    BY <1>2 DEF React, TypeOK, apply_telemetry, Updates, PropertyModels
  <2>2. TypeOK'
    BY <1>2, <2>1 DEF React, TypeOK
  <2> QED  BY <1>2, <2>2 DEF React, TaskInStep, EngineInStep
<1>3. CASE SendCommand
  <2>1. /\ issued' \in Seq(Nat \ {0})
        /\ commands' \in Seq(Nat \ {0}) /\ Len(commands') <= CommandCap
    <3>1. /\ issued \in Seq(Nat \ {0}) /\ commands \in Seq(Nat \ {0})
          /\ Len(issued) + 1 \in Nat \ {0} /\ Len(commands) <= CommandCap
      BY DEF TypeOK
    <3> DEFINE x == Len(issued) + 1
    <3>2. \/ /\ Len(commands) < CommandCap
             /\ issued' = Append(issued, x) /\ commands' = Append(commands, x)
          \/ issued' = issued /\ commands' = commands
      BY <1>3 DEF SendCommand
    <3> HIDE DEF x
    <3>3. x \in Nat \ {0}
      BY <3>1 DEF x
    <3>4. Append(issued, x) \in Seq(Nat \ {0}) /\ Append(commands, x) \in Seq(Nat \ {0})
      BY <3>1, <3>3, AppendProperties
    <3>5. Len(Append(commands, x)) = Len(commands) + 1
      BY <3>1, <3>3, AppendProperties
    <3>6. CASE issued' = issued /\ commands' = commands
      BY <3>1, <3>6
    <3>7. CASE /\ Len(commands) < CommandCap
               /\ issued' = Append(issued, x) /\ commands' = Append(commands, x)
      <4>1. Len(commands) \in Nat
        BY <3>1
      <4>2. Len(commands') <= CommandCap
        BY <3>5, <3>7, <4>1
      <4> QED  BY <3>4, <3>7, <4>2, Zenon
    <3> QED  BY <3>2, <3>6, <3>7
  <2>2. TypeOK'
    BY <1>3, <2>1 DEF SendCommand, TypeOK
  <2> QED  BY <1>3, <2>2 DEF SendCommand, TaskInStep, EngineInStep
<1>4. CASE EngineEnds \/ StopReturns \/ Cancel \/ StopCalled \/ DropGateway
  BY <1>4 DEF EngineEnds, StopReturns, Cancel, StopCalled, DropGateway, TypeOK, TaskInStep,
              EngineInStep
<1> QED  BY <1>1, <1>2, <1>3, <1>4

\* Every step keeps the types, the task's and the engine's hands.
LEMMA TypesKept ==
  ASSUME TypeOK, TaskInStep, EngineInStep, [Next]_vars
  PROVE  TypeOK' /\ TaskInStep' /\ EngineInStep'
<1>1. CASE UNCHANGED vars
  BY <1>1 DEF TypeOK, TaskInStep, EngineInStep, vars, mqttVars, taskVars, engineVars
<1> QED  BY <1>1, BrokerTypes, TaskTypes, EngineTypes DEF Next, Poll, HandleMessage, EngineRuns

-----------------------------------------------------------------------------
(* Events. *)

\* Each event is passed on from the message in hand to the channel and from the
\* channel to the engine.
LEMMA EventsKept ==
  ASSUME TypeOK, TaskInStep, EventsInOrder, [Next]_vars
  PROVE  EventsInOrder'
<1>0. /\ decoded \in Seq(GatewayEvents) /\ consumed \in Seq(GatewayEvents)
      /\ events \in Seq(GatewayEvents) /\ pending \in Seq(GatewayEvents)
  BY DEF TypeOK
<1>1. CASE UNCHANGED <<decoded, consumed, events, pending>>
  BY <1>1 DEF EventsInOrder
<1>2. CASE PollReceives
  <2> DEFINE h == consumed \o events
  <2>1. pending = <<>> /\ decoded' = decoded \o pending' /\ consumed' = consumed /\ events' = events
    BY <1>2 DEF PollReceives, TaskInStep, engineVars
  <2>2. h \in Seq(GatewayEvents)
    BY <1>0
  <2>3. decoded = h \o <<>>
    BY <2>1 DEF EventsInOrder
  <2>4. EventsInOrder' <=> decoded' = h \o pending'
    BY <2>1 DEF EventsInOrder
  <2> HIDE DEF h
  <2>5. decoded = h
    BY <2>2, <2>3, ConcatEmptySeq
  <2> QED  BY <2>1, <2>4, <2>5
<1>3. CASE SendEvent
  <2>1. /\ pending # <<>> /\ events' = Append(events, Head(pending)) /\ pending' = Tail(pending)
        /\ decoded' = decoded /\ consumed' = consumed
    BY <1>3 DEF SendEvent, TaskInStep, engineVars
  <2> DEFINE h == consumed \o events  k == consumed \o events'
  <2>2. h \in Seq(GatewayEvents) /\ Head(pending) \in GatewayEvents
    BY <1>0, <2>1
  <2>3. k = Append(h, Head(pending))
    BY <1>0, <2>1, <2>2, AppendLast
  <2>4. (EventsInOrder' <=> decoded = k \o Tail(pending)) /\ decoded = h \o pending
    BY <2>1 DEF EventsInOrder
  <2> HIDE DEF h, k
  <2>5. Append(h, Head(pending)) \o Tail(pending) = h \o pending
    BY <1>0, <2>1, <2>2, HandOver
  <2> QED  BY <2>3, <2>4, <2>5
<1>4. CASE EngineReceives
  <2> DEFINE before == consumed \o events  after == consumed' \o events'
  <2>1. /\ events # <<>> /\ consumed' = Append(consumed, Head(events)) /\ events' = Tail(events)
        /\ decoded' = decoded /\ pending' = pending
    BY <1>4 DEF EngineReceives, taskVars
  <2>2. after = before
    BY <1>0, <2>1, HandOver
  <2>3. (EventsInOrder' <=> decoded' = after \o pending') /\ decoded = before \o pending
    BY DEF EventsInOrder
  <2> HIDE DEF before, after
  <2> QED  BY <2>1, <2>2, <2>3
<1>5. CASE \/ UNCHANGED vars \/ (\E m \in Messages : MachineSends(m)) \/ ConnectionLost
           \/ BrokerReturns \/ PollConnects \/ PollSends \/ TakeCommand \/ Publish
           \/ ObserveShutdown \/ ApplyTelemetry \/ SendFails \/ React \/ SendCommand
           \/ EngineEnds \/ StopReturns \/ Cancel \/ StopCalled \/ DropGateway
  <2>1. UNCHANGED <<decoded, consumed, events, pending>>
    BY <1>5 DEF vars, taskVars, engineVars, MachineSends, ConnectionLost, BrokerReturns,
                PollConnects, PollSends, TakeCommand, Publish, ObserveShutdown, ApplyTelemetry,
                SendFails, React, SendCommand, EngineEnds, StopReturns, Cancel, StopCalled,
                DropGateway
  <2> QED  BY <1>1, <2>1
<1> QED  BY <1>2, <1>3, <1>4, <1>5 DEF Next, Poll, HandleMessage, EngineRuns

-----------------------------------------------------------------------------
(* Commands. *)

\* The commands among the requests are never the subscription.
LEMMA RequestedTyped ==
  ASSUME TypeOK, TaskInStep
  PROVE  Requested \in Seq(Nat \ {0})
<1>1. requests \in Seq(Nat) /\ \A i \in 2 .. Len(requests) : requests[i] # Subscription
  BY DEF TypeOK, TaskInStep
<1> DEFINE n == Len(Requested)
<1>2. Requested \in Seq(Nat) /\ n \in Nat
  BY <1>1 DEF Requested
<1>3. \A i \in 1 .. n : Requested[i] # 0
  BY <1>1 DEF Requested, Subscription
<1>4. Requested \in [1 .. n -> Nat \ {0}]
  BY <1>2, <1>3
<1> QED  BY <1>2, <1>4

\* Each command is passed on from the engine to the channel, the task, the
\* client's requests and the broker; the subscription is none.
LEMMA CommandsKept ==
  ASSUME TypeOK, TaskInStep, CommandsInOrder, [Next]_vars
  PROVE  CommandsInOrder'
<1> DEFINE P == IF task = "publish" THEN <<publishing>> ELSE <<>>
           R == Requested
<1> PICK C : C = Nat \ {0}
  OBVIOUS
<1>0. /\ issued \in Seq(C) /\ published \in Seq(C) /\ commands \in Seq(C) /\ R \in Seq(C)
      /\ P \in Seq(C)
  <2>1. issued \in Seq(C) /\ published \in Seq(C) /\ commands \in Seq(C)
    BY DEF TypeOK
  <2>2. R \in Seq(C)
    BY RequestedTyped
  <2>3. task = "publish" => publishing \in C
    BY DEF TypeOK, TaskInStep, Subscription
  <2>4. P \in Seq(C)
    <3>1. CASE task = "publish"
      BY <2>3, <3>1
    <3>2. CASE task # "publish"
      BY <3>2
    <3> QED  BY <3>1, <3>2
  <2> QED  BY <2>1, <2>2, <2>4
<1>1. requests \in Seq(Nat) /\ \A i \in 2 .. Len(requests) : requests[i] # Subscription
  BY DEF TypeOK, TaskInStep
<1>2. issued = published \o R \o P \o commands /\ (CommandsInOrder' <=> issued' = published' \o R' \o P' \o commands')
  BY DEF CommandsInOrder
<1>3. CASE PollSends
  <2>1. requests # <<>> /\ requests' = Tail(requests) /\ UNCHANGED <<issued, commands, P>>
    BY <1>3 DEF PollSends, taskVars, engineVars
  <2>2. R' = Tail(requests)
    BY <1>1, <2>1 DEF Requested
  <2>3. CASE Head(requests) = Subscription
    BY <1>2, <1>3, <2>1, <2>2, <2>3 DEF PollSends, Requested
  <2>4. CASE Head(requests) # Subscription
    <3>1. R = requests /\ published' = Append(published, Head(requests))
      BY <1>3, <2>1, <2>4 DEF PollSends, Requested
    <3> DEFINE before == published \o R  after == published' \o R'
    <3>2. after = before
      <4> HIDE DEF R
      <4> QED  BY <1>0, <2>1, <2>2, <3>1, HandOver
    <3>3. issued = before \o P \o commands /\ (CommandsInOrder' <=> issued' = after \o P' \o commands')
      BY <1>2
    <3> HIDE DEF before, after, P
    <3> QED  BY <2>1, <3>2, <3>3
  <2> QED  BY <2>3, <2>4
<1>4. CASE TakeCommand
  <2>1. /\ commands # <<>> /\ commands' = Tail(commands) /\ P = <<>> /\ P' = <<Head(commands)>>
        /\ issued' = issued /\ published' = published /\ R' = R
    BY <1>4 DEF TakeCommand, mqttVars, engineVars, Requested
  <2> DEFINE h == published \o R
  <2>2. h \in Seq(C)
    <3> HIDE DEF R
    <3> QED  BY <1>0
  <2>3. issued = h \o <<>> \o commands /\ (CommandsInOrder' <=> issued = h \o <<Head(commands)>> \o Tail(commands))
    BY <1>2, <2>1
  <2> HIDE DEF h
  <2> QED  BY <1>0, <2>1, <2>2, <2>3, TakeOne
<1>5. CASE Publish
  <2>1. /\ P = <<publishing>> /\ P' = <<>> /\ publishing \in C
        /\ UNCHANGED <<issued, published, commands>> /\ requests' = Append(requests, publishing)
    BY <1>5 DEF Publish, TypeOK, TaskInStep, Subscription, engineVars
  <2>2. R' = Append(R, publishing)
    <3>1. publishing \in Nat /\ publishing # Subscription
      BY <1>5 DEF Publish, TypeOK, TaskInStep
    <3>2. CASE requests = <<>>
      BY <2>1, <3>1, <3>2 DEF Requested
    <3>3. CASE requests # <<>>
      BY <1>1, <2>1, <3>1, <3>3 DEF Requested
    <3> QED  BY <3>2, <3>3
  <2> DEFINE before == published \o R \o P  after == published' \o R' \o P'
  <2>3. after = before
    <3> HIDE DEF R, P
    <3> QED  BY <1>0, <2>1, <2>2, GiveOne
  <2>4. issued = before \o commands /\ (CommandsInOrder' <=> issued' = after \o commands')
    BY <1>2
  <2> HIDE DEF before, after
  <2> QED  BY <2>1, <2>3, <2>4
<1>6. CASE SendCommand /\ task # "ended"
  <2> DEFINE h == published \o R \o P  x == Len(issued) + 1
  <2>1. /\ issued' = Append(issued, x) /\ commands' = Append(commands, x)
        /\ published' = published /\ R' = R /\ P' = P
    BY <1>6 DEF SendCommand, mqttVars, taskVars, Requested
  <2>2. h \in Seq(C) /\ x \in C
    <3>1. x \in C
      BY <1>0
    <3> HIDE DEF R, P, x
    <3> QED  BY <1>0, <3>1
  <2>3. issued = h \o commands /\ (CommandsInOrder' <=> issued' = h \o commands')
    BY <1>2, <2>1
  <2> HIDE DEF h, x
  <2>4. h \o Append(commands, x) = Append(h \o commands, x)
    BY <1>0, <2>2, AppendLast
  <2> QED  BY <2>1, <2>3, <2>4
<1>7. CASE \/ UNCHANGED vars \/ (\E m \in Messages : MachineSends(m)) \/ ConnectionLost
           \/ BrokerReturns \/ PollConnects \/ PollReceives \/ ObserveShutdown \/ ApplyTelemetry
           \/ SendEvent \/ SendFails \/ EngineReceives \/ React \/ (SendCommand /\ task = "ended")
           \/ EngineEnds \/ StopReturns \/ Cancel \/ StopCalled \/ DropGateway
  <2>1. UNCHANGED <<issued, published, requests, commands, publishing>>
    BY <1>7 DEF vars, mqttVars, taskVars, engineVars, MachineSends, ConnectionLost, BrokerReturns,
                PollConnects, PollReceives, ObserveShutdown, ApplyTelemetry, SendEvent, SendFails,
                EngineReceives, React, SendCommand, EngineEnds, StopReturns, Cancel, StopCalled,
                DropGateway
  <2>2. task' = "publish" <=> task = "publish"
    BY <1>7 DEF vars, mqttVars, taskVars, engineVars, MachineSends, ConnectionLost, BrokerReturns,
                PollConnects, PollReceives, ObserveShutdown, ApplyTelemetry, SendEvent, SendFails,
                EngineReceives, React, SendCommand, EngineEnds, StopReturns, Cancel, StopCalled,
                DropGateway, AfterEvent
  <2>3. R' = R /\ P' = P
    BY <2>1, <2>2 DEF Requested
  <2> QED  BY <1>2, <2>1, <2>3
<1> QED  BY <1>3, <1>4, <1>5, <1>6, <1>7 DEF Next, Poll, HandleMessage, EngineRuns

\* The alarms are finitely many.
LEMMA AlarmsFinite ==
  ASSUME TypeOK
  PROVE  IsFiniteSet(Alarms) /\ Cardinality(Alarms) \in Nat
<1> DEFINE n == Len(consumed)
<1>1. n \in Nat /\ DOMAIN consumed = 1 .. n
  BY DEF TypeOK
<1> HIDE DEF n
<1>2. IsFiniteSet(1 .. n) /\ Alarms \subseteq 1 .. n
  BY <1>1, FS_Interval DEF Alarms
<1> QED  BY <1>2, FS_Subset, FS_CardinalityType

\* Receiving an event adds it to the alarms if it is one, and to nothing else.
LEMMA AlarmsCounted ==
  ASSUME TypeOK, EngineReceives
  PROVE  /\ Cardinality(Alarms) \in Nat
         /\ Cardinality(Alarms') =
              IF TooFast(evt', SpeedLimit) THEN Cardinality(Alarms) + 1 ELSE Cardinality(Alarms)
<1> DEFINE n == Len(consumed)  e == Head(events)
<1>1. /\ consumed \in Seq(GatewayEvents) /\ n \in Nat /\ DOMAIN consumed = 1 .. n
      /\ evt' = e /\ consumed' = Append(consumed, e)
  BY DEF TypeOK, EngineReceives
<1>2. /\ DOMAIN consumed' = 1 .. n + 1 /\ consumed'[n + 1] = e
      /\ \A i \in 1 .. n : consumed'[i] = consumed[i]
  BY <1>1
<1> HIDE DEF n, e
<1>3. Alarms \subseteq 1 .. n /\ n + 1 \notin Alarms
  BY <1>1 DEF Alarms
<1>4. IsFiniteSet(Alarms) /\ Cardinality(Alarms) \in Nat
  BY AlarmsFinite
<1>5. CASE TooFast(e, SpeedLimit)
  <2>1. Alarms' = Alarms \cup {n + 1}
    BY <1>1, <1>2, <1>5 DEF Alarms
  <2> QED  BY <1>1, <1>3, <1>4, <1>5, <2>1, FS_AddElement
<1>6. CASE ~TooFast(e, SpeedLimit)
  <2>1. Alarms' = Alarms
    BY <1>1, <1>2, <1>6 DEF Alarms
  <2> QED  BY <1>1, <1>4, <1>6, <2>1
<1> QED  BY <1>5, <1>6

\* The engine answers each alarm with one command, except that a gateway that has
\* ended takes none.
LEMMA AlarmsKept ==
  ASSUME TypeOK, OneCommandPerAlarm, [Next]_vars
  PROVE  OneCommandPerAlarm'
<1> DEFINE n == Len(issued)  c == Cardinality(Alarms)  h == AlarmInHand
<1>0. /\ n \in Nat /\ h \in {0, 1} /\ (task = "ended" => n + h <= c) /\ (task # "ended" => n + h = c)
      /\ (OneCommandPerAlarm' <=> /\ task' = "ended" => n' + h' <= c'
                                  /\ task' # "ended" => n' + h' = c')
  BY DEF TypeOK, OneCommandPerAlarm, AlarmInHand
<1>1. task = "ended" => task' = "ended"
  BY DEF Next, Poll, HandleMessage, EngineRuns, vars, taskVars, MachineSends, ConnectionLost,
         BrokerReturns, PollConnects, PollSends, PollReceives, TakeCommand, Publish,
         ObserveShutdown, ApplyTelemetry, SendEvent, SendFails, EngineReceives, React,
         SendCommand, EngineEnds, StopReturns, Cancel, StopCalled, DropGateway
<1>2. CASE EngineReceives
  <2>1. n' = n /\ task' = task /\ h = 0
    BY <1>2 DEF EngineReceives, taskVars, AlarmInHand
  <2>2. /\ h' = IF TooFast(evt', SpeedLimit) THEN 1 ELSE 0
    BY <1>2 DEF EngineReceives, AlarmInHand
  <2>3. c \in Nat /\ c' = IF TooFast(evt', SpeedLimit) THEN c + 1 ELSE c
    BY <1>2, AlarmsCounted
  <2> HIDE DEF n, c, h
  <2>4. CASE TooFast(evt', SpeedLimit)
    BY <1>0, <2>1, <2>2, <2>3, <2>4
  <2>5. CASE ~TooFast(evt', SpeedLimit)
    BY <1>0, <2>1, <2>2, <2>3, <2>5
  <2> QED  BY <2>4, <2>5
<1>3. CASE SendCommand
  <2>1. task' = task /\ h = 1 /\ h' = 0 /\ c' = c
    BY <1>3 DEF SendCommand, taskVars, AlarmInHand, Alarms
  <2>2. CASE task = "ended"
    <3>1. n' = n
      BY <1>3, <2>2 DEF SendCommand
    <3>2. c \in Nat
      BY AlarmsFinite
    <3> HIDE DEF n, c, h
    <3> QED  BY <1>0, <2>1, <2>2, <3>1, <3>2
  <2>3. CASE task # "ended"
    <3>1. n' = n + 1
      BY <1>3, <2>3 DEF SendCommand, TypeOK
    <3> HIDE DEF n, c, h
    <3> QED  BY <1>0, <2>1, <2>3, <3>1
  <2> QED  BY <2>2, <2>3
<1>4. CASE \/ UNCHANGED vars \/ (\E m \in Messages : MachineSends(m)) \/ ConnectionLost
           \/ BrokerReturns \/ PollConnects \/ PollSends \/ PollReceives \/ TakeCommand \/ Publish
           \/ ObserveShutdown \/ ApplyTelemetry \/ SendEvent \/ SendFails \/ React
           \/ EngineEnds \/ StopReturns \/ Cancel \/ StopCalled \/ DropGateway
  <2>1. issued' = issued /\ consumed' = consumed /\ evt' = evt
    BY <1>4 DEF vars, mqttVars, taskVars, engineVars, MachineSends, ConnectionLost, BrokerReturns,
                PollConnects, PollSends, PollReceives, TakeCommand, Publish, ObserveShutdown,
                ApplyTelemetry, SendEvent, SendFails, React, EngineEnds, StopReturns, Cancel,
                StopCalled, DropGateway
  <2>2. h' = h
    BY <1>4, <2>1 DEF AlarmInHand, vars, mqttVars, taskVars, engineVars, MachineSends,
                ConnectionLost, BrokerReturns, PollConnects, PollSends, PollReceives, TakeCommand,
                Publish, ObserveShutdown, ApplyTelemetry, SendEvent, SendFails, React, EngineEnds,
                StopReturns, Cancel, StopCalled, DropGateway
  <2>3. n' = n /\ c' = c /\ c \in Nat
    BY <2>1, AlarmsFinite DEF Alarms
  <2> HIDE DEF n, c, h
  <2> QED  BY <1>0, <1>1, <2>2, <2>3
<1> QED  BY <1>2, <1>3, <1>4 DEF Next, Poll, HandleMessage, EngineRuns

-----------------------------------------------------------------------------
(* The two property models. *)

\* The gateway applies one more event.
LEMMA AppliesLast ==
  ASSUME NEW old, NEW evts \in Seq(GatewayEvents), NEW new \in PropertyModels,
         NEW e \in GatewayEvents, Becomes(old, evts, new)
  PROVE  Becomes(old, evts \o <<e>>, apply_telemetry(new, e))
<1> DEFINE s == evts \o <<e>>  n == Len(evts)  m == apply_telemetry(new, e)
<1> SUFFICES ASSUME NEW k \in Properties
             PROVE  \/ /\ m[k] = old[k]
                       /\ \A i \in DOMAIN s : ~Updates(s[i], k)
                    \/ \E i \in DOMAIN s :
                         /\ Updates(s[i], k) /\ m[k] = s[i].value
                         /\ \A j \in DOMAIN s : j > i => ~Updates(s[j], k)
  BY DEF Becomes
<1>1. /\ n \in Nat /\ DOMAIN evts = 1 .. n /\ DOMAIN s = 1 .. n + 1
      /\ s[n + 1] = e /\ \A i \in 1 .. n : s[i] = evts[i]
  OBVIOUS
<1>2. m[k] = IF Updates(e, k) THEN e.value ELSE new[k]
  BY DEF apply_telemetry, PropertyModels
<1>3. \/ /\ new[k] = old[k]
         /\ \A i \in DOMAIN evts : ~Updates(evts[i], k)
      \/ \E i \in DOMAIN evts :
           /\ Updates(evts[i], k) /\ new[k] = evts[i].value
           /\ \A j \in DOMAIN evts : j > i => ~Updates(evts[j], k)
  BY DEF Becomes
<1> HIDE DEF s, n, m
<1>4. CASE Updates(e, k)
  <2>1. n + 1 \in DOMAIN s /\ \A j \in DOMAIN s : ~(j > n + 1)
    BY <1>1
  <2> QED  BY <1>1, <1>2, <1>4, <2>1
<1>5. CASE ~Updates(e, k)
  BY <1>1, <1>2, <1>3, <1>5
<1> QED  BY <1>4, <1>5

\* The engine applies the first event on the way.
LEMMA AppliesFirst ==
  ASSUME NEW old \in PropertyModels, NEW evts \in Seq(GatewayEvents), NEW new,
         NEW e \in GatewayEvents, Becomes(old, <<e>> \o evts, new)
  PROVE  Becomes(apply_telemetry(old, e), evts, new)
<1> DEFINE s == <<e>> \o evts  n == Len(evts)  m == apply_telemetry(old, e)
<1> SUFFICES ASSUME NEW k \in Properties
             PROVE  \/ /\ new[k] = m[k]
                       /\ \A i \in DOMAIN evts : ~Updates(evts[i], k)
                    \/ \E i \in DOMAIN evts :
                         /\ Updates(evts[i], k) /\ new[k] = evts[i].value
                         /\ \A j \in DOMAIN evts : j > i => ~Updates(evts[j], k)
  BY DEF Becomes
<1>1. /\ n \in Nat /\ DOMAIN evts = 1 .. n /\ DOMAIN s = 1 .. n + 1
      /\ s[1] = e /\ \A i \in 1 .. n : s[i + 1] = evts[i]
  OBVIOUS
<1>2. m[k] = IF Updates(e, k) THEN e.value ELSE old[k]
  BY DEF apply_telemetry, PropertyModels
<1>3. \/ /\ new[k] = old[k]
         /\ \A i \in DOMAIN s : ~Updates(s[i], k)
      \/ \E i \in DOMAIN s :
           /\ Updates(s[i], k) /\ new[k] = s[i].value
           /\ \A j \in DOMAIN s : j > i => ~Updates(s[j], k)
  BY DEF Becomes
<1> HIDE DEF s, n, m
<1>4. CASE \A i \in DOMAIN s : ~Updates(s[i], k)
  <2>1. 1 \in DOMAIN s /\ \A l \in 1 .. n : l + 1 \in DOMAIN s
    BY <1>1
  <2>2. m[k] = old[k]
    BY <1>1, <1>2, <1>4, <2>1
  <2>3. \A l \in DOMAIN evts : ~Updates(evts[l], k)
    BY <1>1, <1>4, <2>1
  <2>4. new[k] = old[k]
    BY <1>3, <1>4
  <2> QED  BY <2>2, <2>3, <2>4
<1>5. ASSUME NEW i \in DOMAIN s, Updates(s[i], k), new[k] = s[i].value,
             \A j \in DOMAIN s : j > i => ~Updates(s[j], k)
      PROVE  \/ /\ new[k] = m[k]
                /\ \A l \in DOMAIN evts : ~Updates(evts[l], k)
             \/ \E l \in DOMAIN evts :
                  /\ Updates(evts[l], k) /\ new[k] = evts[l].value
                  /\ \A j \in DOMAIN evts : j > l => ~Updates(evts[j], k)
  <2>1. CASE i = 1
    <3>1. \A l \in 1 .. n : l + 1 \in DOMAIN s /\ l + 1 > 1
      BY <1>1
    <3> QED  BY <1>1, <1>2, <1>5, <2>1, <3>1
  <2>2. CASE i # 1
    <3>1. i - 1 \in 1 .. n /\ s[i] = evts[i - 1]
      BY <1>1, <2>2
    <3>2. ASSUME NEW j \in 1 .. n, j > i - 1 PROVE ~Updates(evts[j], k)
      <4>1. j + 1 \in DOMAIN s /\ j + 1 > i
        BY <1>1, <3>2
      <4> QED  BY <1>1, <1>5, <4>1
    <3> QED  BY <1>1, <1>5, <3>1, <3>2
  <2> QED  BY <2>1, <2>2
<1> QED  BY <1>3, <1>4, <1>5

\* What the gateway applies joins the events on the way at the end, what the
\* engine applies leaves them at the head, and in between they only move.
LEMMA ModelsKept ==
  ASSUME TypeOK, TaskInStep, EngineInStep, ModelsAgree, [Next]_vars
  PROVE  ModelsAgree'
<1> DEFINE A == IF engine = "react" THEN <<evt>> ELSE <<>>
           B == IF task = "send" \/ (task = "ended" /\ pending # <<>>)
                THEN <<Head(pending)>> ELSE <<>>
<1>0. /\ events \in Seq(GatewayEvents) /\ pending \in Seq(GatewayEvents)
      /\ gwProps \in PropertyModels /\ engProps \in PropertyModels
      /\ engine = "react" => evt \in GatewayEvents
      /\ pending # <<>> => Head(pending) \in GatewayEvents
  BY DEF TypeOK, EngineInStep
<1>1. A \in Seq(GatewayEvents) /\ B \in Seq(GatewayEvents)
  BY <1>0 DEF TaskInStep
<1>2. OnTheWay = A \o events \o B /\ OnTheWay' = A' \o events' \o B'
  BY DEF OnTheWay
<1>3. OnTheWay' = OnTheWay /\ UNCHANGED <<gwProps, engProps>> => ModelsAgree'
  BY DEF ModelsAgree, Becomes
<1>4. CASE ApplyTelemetry
  <2> DEFINE h == A \o events  e == Head(pending)
  <2>1. /\ e \in GatewayEvents /\ A' = A /\ events' = events /\ B = <<>> /\ B' = <<e>>
        /\ gwProps' = apply_telemetry(gwProps, e) /\ engProps' = engProps
    BY <1>0, <1>4 DEF ApplyTelemetry, TaskInStep, engineVars
  <2>2. h \in Seq(GatewayEvents)
    <3> HIDE DEF A
    <3> QED  BY <1>0, <1>1
  <2>3. OnTheWay = h \o <<>> /\ OnTheWay' = h \o <<e>>
    BY <1>2, <2>1
  <2> HIDE DEF h, e
  <2>4. OnTheWay = h
    BY <2>2, <2>3, ConcatEmptySeq
  <2>5. Becomes(engProps, h, gwProps)
    BY <2>4 DEF ModelsAgree
  <2>6. Becomes(engProps, h \o <<e>>, apply_telemetry(gwProps, e))
    BY <1>0, <2>1, <2>2, <2>5, AppliesLast
  <2> QED  BY <2>1, <2>3, <2>6 DEF ModelsAgree
<1>5. CASE SendEvent
  <2> DEFINE e == Head(pending)
  <2>1. /\ e \in GatewayEvents /\ A' = A /\ B = <<e>> /\ B' = <<>> /\ events' = Append(events, e)
        /\ UNCHANGED <<gwProps, engProps>>
    BY <1>0, <1>5 DEF SendEvent, AfterEvent, TaskInStep, engineVars
  <2> HIDE DEF e, A, B
  <2>2. OnTheWay' = OnTheWay
    BY <1>0, <1>1, <1>2, <2>1, GiveOne
  <2> QED  BY <1>3, <2>1, <2>2
<1>6. CASE EngineReceives
  <2> DEFINE before == A \o events  after == A' \o events'
  <2>1. /\ events # <<>> /\ events' = Tail(events) /\ A = <<>> /\ A' = <<Head(events)>> /\ B' = B
        /\ UNCHANGED <<gwProps, engProps>>
    BY <1>6 DEF EngineReceives, taskVars
  <2>2. after = before
    BY <1>0, <2>1
  <2>3. OnTheWay = before \o B /\ OnTheWay' = after \o B'
    BY <1>2
  <2> HIDE DEF before, after, B
  <2> QED  BY <1>3, <2>1, <2>2, <2>3
<1>7. CASE React
  <2> DEFINE s == events \o B
  <2>1. /\ A = <<evt>> /\ A' = <<>> /\ events' = events /\ B' = B /\ evt \in GatewayEvents
        /\ engProps' = apply_telemetry(engProps, evt) /\ gwProps' = gwProps
    BY <1>0, <1>7 DEF React, taskVars
  <2> HIDE DEF A, B
  <2>2. s \in Seq(GatewayEvents)
    BY <1>0, <1>1
  <2>3. A \o events \o B = A \o s /\ <<>> \o events = events
    <3>1. A \in Seq(GatewayEvents) /\ events \in Seq(GatewayEvents) /\ B \in Seq(GatewayEvents)
      BY <1>0, <1>1
    <3> QED  BY ONLY <3>1, ConcatAssociative, ConcatEmptySeq
  <2> HIDE DEF s
  <2>4. OnTheWay = <<evt>> \o s
    BY <1>2, <2>1, <2>3
  <2>5. OnTheWay' = s
    BY <1>2, <2>1, <2>3 DEF s
  <2>6. Becomes(apply_telemetry(engProps, evt), s, gwProps)
    BY <1>0, <2>1, <2>2, <2>4, AppliesFirst DEF ModelsAgree
  <2> QED  BY <2>1, <2>5, <2>6 DEF ModelsAgree
<1>8. CASE \/ UNCHANGED vars \/ (\E m \in Messages : MachineSends(m)) \/ ConnectionLost
           \/ BrokerReturns \/ PollConnects \/ PollSends \/ PollReceives \/ TakeCommand \/ Publish
           \/ ObserveShutdown \/ SendFails \/ SendCommand
           \/ EngineEnds \/ StopReturns \/ Cancel \/ StopCalled \/ DropGateway
  <2>1. UNCHANGED <<events, gwProps, engProps, evt>>
    BY <1>8 DEF vars, mqttVars, taskVars, engineVars, MachineSends, ConnectionLost, BrokerReturns,
                PollConnects, PollSends, PollReceives, TakeCommand, Publish, ObserveShutdown,
                SendFails, SendCommand, EngineEnds, StopReturns, Cancel, StopCalled, DropGateway
  <2>2. A' = A
    BY <1>8, <2>1 DEF vars, mqttVars, taskVars, engineVars, MachineSends, ConnectionLost,
                BrokerReturns, PollConnects, PollSends, PollReceives, TakeCommand, Publish,
                ObserveShutdown, SendFails, SendCommand, EngineEnds, StopReturns, Cancel,
                StopCalled, DropGateway
  <2>3. B' = B
    BY <1>8 DEF TaskInStep, vars, mqttVars, taskVars, engineVars, MachineSends, ConnectionLost,
                BrokerReturns, PollConnects, PollSends, PollReceives, TakeCommand, Publish,
                ObserveShutdown, SendFails, SendCommand, EngineEnds, StopReturns, Cancel,
                StopCalled, DropGateway
  <2> QED  BY <1>2, <1>3, <2>1, <2>2, <2>3
<1> QED  BY <1>4, <1>5, <1>6, <1>7, <1>8 DEF Next, Poll, HandleMessage, EngineRuns

-----------------------------------------------------------------------------
(* The gateway. *)

\* At the start nothing is decoded, accepted or received, and both models are empty.
LEMMA GatewayInvInit == Init => GatewayInv
<1> SUFFICES ASSUME Init PROVE GatewayInv
  OBVIOUS
<1>1. TypeOK /\ TaskInStep /\ EngineInStep
  BY TypesInit
<1>2. EventsInOrder
  BY DEF Init, EventsInOrder
<1>3. ModelsAgree
  <2>1. OnTheWay = <<>>
    BY DEF Init, OnTheWay
  <2> QED  BY <2>1 DEF Init, ModelsAgree, Becomes
<1>4. CommandsInOrder
  <2>1. Requested = <<>>
    BY DEF Init, Requested
  <2> QED  BY <2>1 DEF Init, CommandsInOrder
<1>5. OneCommandPerAlarm
  <2>1. Alarms = {} /\ AlarmInHand = 0
    BY DEF Init, Alarms, AlarmInHand
  <2> QED  BY <2>1, FS_EmptySet DEF Init, OneCommandPerAlarm
<1> QED  BY <1>1, <1>2, <1>3, <1>4, <1>5 DEF GatewayInv

\* Every step of the broker, the gateway task, the engine and the owner keeps the
\* invariant.
LEMMA GatewayInvStep == GatewayInv /\ [Next]_vars => GatewayInv'
  BY TypesKept, EventsKept, ModelsKept, CommandsKept, AlarmsKept DEF GatewayInv

\* GatewayInv holds in every state the gateway and the engine reach.
THEOREM GatewayInvAlways == Spec => []GatewayInv
  BY GatewayInvInit, GatewayInvStep, PTL DEF Spec

\* The three channels stay within their capacities and hold what they should.
THEOREM GatewayTypes == Spec => []TypeOK
<1>1. GatewayInv => TypeOK
  BY DEF GatewayInv
<1> QED  BY <1>1, GatewayInvAlways, PTL

\* gateway.rs, the loop over a message's events: every event that is decoded
\* reaches the engine once and in order, or is in the channel or in hand.
THEOREM EventsAlwaysInOrder == Spec => []EventsInOrder
<1>1. GatewayInv => EventsInOrder
  BY DEF GatewayInv
<1> QED  BY <1>1, GatewayInvAlways, PTL

\* The gateway's property model is the engine's after the events on the way.
THEOREM ModelsAlwaysAgree == Spec => []ModelsAgree
<1>1. GatewayInv => ModelsAgree
  BY DEF GatewayInv
<1> QED  BY <1>1, GatewayInvAlways, PTL

\* Every command the gateway accepted is published once and in order, or on its
\* way, whatever becomes of the connection.
THEOREM CommandsAlwaysInOrder == Spec => []CommandsInOrder
<1>1. GatewayInv => CommandsInOrder
  BY DEF GatewayInv
<1> QED  BY <1>1, GatewayInvAlways, PTL

\* The engine sends one command for each reading above the limit, and the echo of
\* a command causes none.
THEOREM AlwaysOneCommandPerAlarm == Spec => []OneCommandPerAlarm
<1>1. GatewayInv => OneCommandPerAlarm
  BY DEF GatewayInv
<1> QED  BY <1>1, GatewayInvAlways, PTL

=============================================================================
