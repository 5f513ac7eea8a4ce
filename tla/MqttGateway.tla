---------------------------- MODULE MqttGateway ----------------------------
(***************************************************************************)
(* The MQTT gateway task (gateway_old/mqtt/src/gateway.rs) between its     *)
(* MQTT client and an engine that consumes its events and sends commands   *)
(* back (bin/sampleengine.rs; the engine's bin/main.rs has the same loop). *)
(*                                                                         *)
(* One task does everything on the gateway's side: its select! polls the   *)
(* MQTT client, takes commands and watches the shutdown token, and while   *)
(* it awaits room in a channel it does none of the three.  The client's    *)
(* own request channel is emptied only by that polling.                    *)
(*                                                                         *)
(* A command carries the number of the reading it answers, counted over    *)
(* the readings that ask for one: the engine's commands differ in nothing  *)
(* else.                                                                   *)
(***************************************************************************)
EXTENDS MqttDecode, FiniteSets

CONSTANTS
  EventCap,     \* event_channel_capacity
  CommandCap,   \* command_channel_capacity
  RequestCap,   \* capacity of the MQTT client's request channel
  SpeedLimit,   \* the engine's limit
  Messages,     \* the messages machines send
  CommandTopic, \* what commands are published to
  MaxMessages,  \* bound: messages of machines that are delivered
  MaxOutages    \* bound: lost connections

ASSUME CapsAssumption ==
  EventCap \in Nat \ {0} /\ CommandCap \in Nat \ {0} /\ RequestCap \in Nat \ {0}
ASSUME BoundsAssumption == MaxMessages \in Nat /\ MaxOutages \in Nat

\* decode_events returns a Vec<GatewayEvent>, whatever it is given.
ASSUME DecodeAssumption ==
  \A m \in Messages \cup {to_mqtt(CommandTopic)} : decode_events(m) \in Seq(GatewayEvents)

VARIABLES
  reachable, connected, subscribed,  \* the broker, as the client sees it
  inbox,        \* messages delivered to the client and not polled yet
  requests,     \* the client's request channel; 0 is the subscription
  published,    \* the commands the broker has
  task,         \* where the gateway task is
  publishing,   \* the command it publishes
  pending,      \* the events of the message in hand, the next one first
  gwProps,      \* Gateway.properties
  events,       \* events_tx .. events_rx
  commands,     \* commands_tx .. commands_rx
  cancelled,    \* the shutdown token
  engine,       \* where the engine, the owner of the Gateway, is
  evt,          \* the event the engine handles
  engProps,     \* the engine's own property model
  decoded, consumed, issued,  \* history: all events decoded, all received by
                \* the engine, all commands that were accepted
  sent, outages \* counts, for the bounds

mqttVars == <<reachable, connected, subscribed, inbox, requests, published, sent, outages>>
taskVars == <<task, publishing, pending, gwProps, decoded>>
engineVars == <<engine, evt, engProps, consumed, issued, cancelled>>
vars == <<mqttVars, taskVars, engineVars, events, commands>>

Subscription == 0
Echo == to_mqtt(CommandTopic)
NoEvent == [kind |-> "none"]

\* Gateway::start: subscribe() only queues the request; then the task runs.
Init ==
  /\ reachable = TRUE /\ connected = FALSE /\ subscribed = FALSE
  /\ inbox = <<>> /\ requests = <<Subscription>> /\ published = <<>>
  /\ task = "select" /\ publishing = 0 /\ pending = <<>> /\ gwProps = NoProperties
  /\ events = <<>> /\ commands = <<>> /\ cancelled = FALSE
  /\ engine = "recv" /\ evt = NoEvent /\ engProps = NoProperties
  /\ decoded = <<>> /\ consumed = <<>> /\ issued = <<>>
  /\ sent = 0 /\ outages = 0

-----------------------------------------------------------------------------
(* The broker and the machines. *)

MachineSends(m) ==
  /\ connected /\ subscribed /\ sent < MaxMessages
  /\ inbox' = Append(inbox, m)
  /\ sent' = sent + 1
  /\ UNCHANGED <<reachable, connected, subscribed, requests, published, outages,
                 taskVars, engineVars, events, commands>>

\* The client's session is a clean one: what the broker knew of it is gone.
ConnectionLost ==
  /\ connected /\ outages < MaxOutages
  /\ reachable' \in BOOLEAN
  /\ connected' = FALSE /\ subscribed' = FALSE /\ inbox' = <<>>
  /\ outages' = outages + 1
  /\ UNCHANGED <<requests, published, sent, taskVars, engineVars, events, commands>>

BrokerReturns ==
  /\ ~reachable
  /\ reachable' = TRUE
  /\ UNCHANGED <<connected, subscribed, inbox, requests, published, sent, outages,
                 taskVars, engineVars, events, commands>>

-----------------------------------------------------------------------------
(* The gateway task: the three branches of its select!. *)

\* downstream.recv() polls the client: it connects,
PollConnects ==
  /\ task = "select" /\ reachable /\ ~connected
  /\ connected' = TRUE
  /\ UNCHANGED <<reachable, subscribed, inbox, requests, published, sent, outages,
                 taskVars, engineVars, events, commands>>

\* .. sends the next request: the subscription, or a command, whose topic the
\* subscription covers, so that it comes back,
PollSends ==
  /\ task = "select" /\ connected /\ requests # <<>>
  /\ requests' = Tail(requests)
  /\ IF Head(requests) = Subscription
     THEN subscribed' = TRUE /\ UNCHANGED <<published, inbox>>
     ELSE /\ published' = Append(published, Head(requests))
          /\ inbox' = IF subscribed THEN Append(inbox, Echo) ELSE inbox
          /\ UNCHANGED subscribed
  /\ UNCHANGED <<reachable, connected, sent, outages, taskVars, engineVars, events, commands>>

\* .. or returns a message, which is decoded.
PollReceives ==
  /\ task = "select" /\ connected /\ inbox # <<>>
  /\ inbox' = Tail(inbox)
  /\ pending' = decode_events(Head(inbox))
  /\ decoded' = decoded \o pending'
  /\ task' = IF pending' = <<>> THEN "select" ELSE "apply"
  /\ UNCHANGED <<reachable, connected, subscribed, requests, published, sent, outages,
                 publishing, gwProps, engineVars, events, commands>>

\* commands_rx.recv().  (Once every sender is dropped it only logs, each time
\* the select! looks at it.)
TakeCommand ==
  /\ task = "select" /\ commands # <<>>
  /\ publishing' = Head(commands)
  /\ commands' = Tail(commands)
  /\ task' = "publish"
  /\ UNCHANGED <<mqttVars, pending, gwProps, decoded, engineVars, events>>

\* Mutant: a full request channel drops the command.
PublishDrops ==
  /\ task = "publish"
  /\ requests' = IF Len(requests) < RequestCap THEN Append(requests, publishing) ELSE requests
  /\ task' = "select"
  /\ UNCHANGED <<reachable, connected, subscribed, inbox, published, sent, outages,
                 publishing, pending, gwProps, decoded, engineVars, events, commands>>

\* encode_command and client.publish, which awaits room for the request.
Publish ==
  /\ task = "publish" /\ Len(requests) < RequestCap
  /\ requests' = Append(requests, publishing)
  /\ task' = "select"
  /\ UNCHANGED <<reachable, connected, subscribed, inbox, published, sent, outages,
                 publishing, pending, gwProps, decoded, engineVars, events, commands>>

\* Mutant: the token is looked at only with a message in hand.
ObserveShutdownLate ==
  /\ task = "select" /\ cancelled /\ pending # <<>>
  /\ task' = "ended"
  /\ UNCHANGED <<mqttVars, publishing, pending, gwProps, decoded, engineVars, events, commands>>

ObserveShutdown ==
  /\ task = "select" /\ cancelled
  /\ task' = "ended"
  /\ UNCHANGED <<mqttVars, publishing, pending, gwProps, decoded, engineVars, events, commands>>

(* .. and the loop over the events of a message. *)

\* Mutant: the loop only goes on for telemetry.
ApplyTelemetryOnly ==
  /\ task = "apply" /\ Head(pending).kind = "telemetry"
  /\ gwProps' = apply_telemetry(gwProps, Head(pending))
  /\ task' = "send"
  /\ UNCHANGED <<mqttVars, publishing, pending, decoded, engineVars, events, commands>>

\* The property model first, under its write lock.
ApplyTelemetry ==
  /\ task = "apply"
  /\ gwProps' = apply_telemetry(gwProps, Head(pending))
  /\ task' = "send"
  /\ UNCHANGED <<mqttVars, publishing, pending, decoded, engineVars, events, commands>>

AfterEvent(rest) == IF rest = <<>> THEN "select" ELSE "apply"

\* Mutant: a full channel drops the event.
SendEventDrops ==
  /\ task = "send" /\ engine # "dropped"
  /\ events' = IF Len(events) < EventCap THEN Append(events, Head(pending)) ELSE events
  /\ pending' = Tail(pending)
  /\ task' = AfterEvent(pending')
  /\ UNCHANGED <<mqttVars, publishing, gwProps, decoded, engineVars, commands>>

\* events_tx.send(evt).await
SendEvent ==
  /\ task = "send" /\ engine # "dropped" /\ Len(events) < EventCap
  /\ events' = Append(events, Head(pending))
  /\ pending' = Tail(pending)
  /\ task' = AfterEvent(pending')
  /\ UNCHANGED <<mqttVars, publishing, gwProps, decoded, engineVars, commands>>

\* .. fails once the receiver is gone, and that ends the task.
SendFails ==
  /\ task = "send" /\ engine = "dropped"
  /\ task' = "ended"
  /\ UNCHANGED <<mqttVars, publishing, pending, gwProps, decoded, engineVars, events, commands>>

-----------------------------------------------------------------------------
(* The engine. *)

EngineReceives ==
  /\ engine = "recv" /\ events # <<>>
  /\ evt' = Head(events)
  /\ consumed' = Append(consumed, evt')
  /\ events' = Tail(events)
  /\ engine' = "react"
  /\ UNCHANGED <<mqttVars, taskVars, engProps, issued, cancelled, commands>>

\* Mutant: the engine takes any reading above the limit for a speed.
ReactAnyProp ==
  /\ engine = "react"
  /\ engProps' = apply_telemetry(engProps, evt)
  /\ engine' = IF evt.kind = "telemetry" /\ evt.value \in Numbers /\ evt.value > SpeedLimit
               THEN "command" ELSE "recv"
  /\ UNCHANGED <<mqttVars, taskVars, evt, consumed, issued, cancelled, events, commands>>

\* The engine's own property model follows the event; a reading above the
\* limit asks for a command, a structured event is only logged.
React ==
  /\ engine = "react"
  /\ engProps' = apply_telemetry(engProps, evt)
  /\ engine' = IF TooFast(evt, SpeedLimit) THEN "command" ELSE "recv"
  /\ UNCHANGED <<mqttVars, taskVars, evt, consumed, issued, cancelled, events, commands>>

\* let _ = cmd_tx.send(cmd).await: it awaits room, or fails when the task ended.
SendCommand ==
  /\ engine = "command"
  /\ \/ /\ task # "ended" /\ Len(commands) < CommandCap
        /\ issued' = Append(issued, Len(issued) + 1)
        /\ commands' = Append(commands, Len(issued) + 1)
     \/ task = "ended" /\ UNCHANGED <<issued, commands>>
  /\ engine' = "recv"
  /\ UNCHANGED <<mqttVars, taskVars, evt, engProps, consumed, cancelled, events>>

\* The task and its sender are gone and the channel is empty: recv is None.
EngineEnds ==
  /\ engine = "recv" /\ task = "ended" /\ events = <<>>
  /\ engine' = "stopped"
  /\ UNCHANGED <<mqttVars, taskVars, evt, engProps, consumed, issued, cancelled, events, commands>>

\* shutdown_token().cancel(), by whoever has a clone of the token.
Cancel ==
  /\ ~cancelled
  /\ cancelled' = TRUE
  /\ UNCHANGED <<mqttVars, taskVars, engine, evt, engProps, consumed, issued, events, commands>>

\* Gateway::stop(self): the owner cancels and awaits the task.  It still has
\* the receiver, but receives no more.
StopCalled ==
  /\ engine = "recv"
  /\ cancelled' = TRUE
  /\ engine' = "stopping"
  /\ UNCHANGED <<mqttVars, taskVars, evt, engProps, consumed, issued, events, commands>>

StopReturns ==
  /\ engine = "stopping" /\ task = "ended"
  /\ engine' = "stopped"
  /\ UNCHANGED <<mqttVars, taskVars, evt, engProps, consumed, issued, cancelled, events, commands>>

\* The owner drops the Gateway: the receiver goes, the task is detached.
DropGateway ==
  /\ engine = "recv"
  /\ engine' = "dropped"
  /\ UNCHANGED <<mqttVars, taskVars, evt, engProps, consumed, issued, cancelled, events, commands>>

-----------------------------------------------------------------------------
Poll == PollConnects \/ PollSends \/ PollReceives
HandleMessage == ApplyTelemetry \/ SendEvent \/ SendFails
EngineRuns == EngineReceives \/ React \/ SendCommand \/ EngineEnds \/ StopReturns

Next ==
  \/ \E m \in Messages : MachineSends(m)
  \/ ConnectionLost \/ BrokerReturns
  \/ Poll \/ TakeCommand \/ Publish \/ ObserveShutdown \/ HandleMessage
  \/ EngineRuns \/ Cancel \/ StopCalled \/ DropGateway

Spec == Init /\ [][Next]_vars

\* The runtime polls a task that can go on; select! picks among its ready
\* branches at random, so that none that is ready again and again is passed
\* over for ever.  Nothing is assumed of the broker, the machines or the owner.
FairSpec ==
  /\ Spec
  /\ WF_vars(HandleMessage) /\ WF_vars(Publish) /\ WF_vars(EngineRuns)
  /\ SF_vars(Poll) /\ SF_vars(TakeCommand) /\ SF_vars(ObserveShutdown)

-----------------------------------------------------------------------------
(* Properties. *)

TypeOK ==
  /\ {reachable, connected, subscribed, cancelled} \subseteq BOOLEAN
  /\ inbox \in Seq(Messages \cup {Echo})
  /\ requests \in Seq(Nat) /\ Len(requests) <= RequestCap
  /\ published \in Seq(Nat \ {0}) /\ issued \in Seq(Nat \ {0})
  /\ task \in {"select", "publish", "apply", "send", "ended"}
  /\ publishing \in Nat
  /\ {pending, events, decoded, consumed} \subseteq Seq(GatewayEvents)
  /\ Len(events) <= EventCap
  /\ commands \in Seq(Nat \ {0}) /\ Len(commands) <= CommandCap
  /\ engine \in {"recv", "react", "command", "stopping", "stopped", "dropped"}
  /\ evt \in GatewayEvents \cup {NoEvent}
  /\ {gwProps, engProps} \subseteq PropertyModels
  /\ sent \in 0 .. MaxMessages /\ outages \in 0 .. MaxOutages

\* The gateway's loop, its channel and the engine: every decoded event reaches
\* the engine once and in order; what has not is in the channel or in hand.
EventsInOrder == decoded = consumed \o events \o pending

\* The events that the gateway has applied and the engine has not.
OnTheWay ==
  (IF engine = "react" THEN <<evt>> ELSE <<>>) \o events
    \o (IF task = "send" \/ (task = "ended" /\ pending # <<>>) THEN <<Head(pending)>> ELSE <<>>)

\* new is what old becomes by evts: each property has the value of the last event
\* that sets it, or its old one.
Becomes(old, evts, new) ==
  \A k \in Properties :
    \/ /\ new[k] = old[k]
       /\ \A i \in DOMAIN evts : ~Updates(evts[i], k)
    \/ \E i \in DOMAIN evts :
         /\ Updates(evts[i], k) /\ new[k] = evts[i].value
         /\ \A j \in DOMAIN evts : j > i => ~Updates(evts[j], k)

\* The two property models of one process (gateway.rs:103-106 and
\* sampleengine.rs:75) never disagree on anything but the events on the way:
\* the gateway's is the engine's after the events it has yet to apply.
ModelsAgree == Becomes(engProps, OnTheWay, gwProps)

\* The commands among the client's requests; the subscription, if it is still
\* there, is the first one.
Requested ==
  IF requests # <<>> /\ Head(requests) = Subscription THEN Tail(requests) ELSE requests

\* Engine, command channel, gateway and client: every accepted command is
\* published once and in order, or still on its way, across lost connections.
CommandsInOrder ==
  issued = published \o Requested
             \o (IF task = "publish" THEN <<publishing>> ELSE <<>>) \o commands

\* The readings above the limit that the engine has received, and whether the one
\* it handles is one of them and has no command yet.
Alarms == {i \in DOMAIN consumed : TooFast(consumed[i], SpeedLimit)}
AlarmInHand ==
  IF engine = "command" \/ (engine = "react" /\ TooFast(evt, SpeedLimit)) THEN 1 ELSE 0

\* One command for each reading above the limit and none for anything else: the
\* echo of a command, which the subscription delivers, never causes another.
OneCommandPerAlarm ==
  IF task = "ended" THEN Len(issued) + AlarmInHand <= Cardinality(Alarms)
                    ELSE Len(issued) + AlarmInHand = Cardinality(Alarms)

\* The two ways in which gateway and engine can wait for each other: each for
\* room in the channel the other should empty; the task for room in the request
\* channel that only its own polling empties.
EventsBlocked == task = "send" /\ Len(events) = EventCap
RequestsBlocked == task = "publish" /\ Len(requests) = RequestCap
Jammed ==
  \/ EventsBlocked /\ engine = "command" /\ Len(commands) = CommandCap
  \/ RequestsBlocked

\* An engine that goes on receiving gets every event the gateway decoded, unless
\* the two jam: there is no third way to lose the flow of events.
DeliversUnlessJammed ==
  []~Jammed =>
    []((events # <<>> \/ task \in {"apply", "send"}) =>
         <>((events = <<>> /\ task \notin {"apply", "send"})
              \/ engine \in {"stopping", "stopped", "dropped"}))

\* Gateway::stop returns, unless the task is blocked on a full channel when it
\* is called: then nobody empties the channel and nobody looks at the token.
StopReturnsUnlessBlocked ==
  (engine = "stopping") ~> (engine = "stopped" \/ EventsBlocked \/ RequestsBlocked)

\* downstreaminterface.rs:75-78: a poll error is retried, "keep trying".  Once
\* the broker stays reachable the client is polled again and again, or the
\* gateway has ended.
KeepsPolling == <>[]reachable => []<>(task \in {"select", "ended"})

-----------------------------------------------------------------------------
(* The inductive invariant. *)

\* The task has events in hand exactly while it handles a message, and a command
\* while it publishes; the subscription is the first request or sent.
TaskInStep ==
  /\ task \in {"select", "publish"} => pending = <<>>
  /\ task \in {"apply", "send"} => pending # <<>>
  /\ task = "publish" => publishing # Subscription
  /\ \A i \in 2 .. Len(requests) : requests[i] # Subscription

\* The engine's event is one it received.
EngineInStep == engine = "react" => evt \in GatewayEvents

GatewayInv ==
  /\ TypeOK /\ TaskInStep /\ EngineInStep
  /\ EventsInOrder /\ ModelsAgree /\ CommandsInOrder /\ OneCommandPerAlarm

=============================================================================
