--------------------------- MODULE MCMqttGateway ---------------------------
(* Instances of MqttGateway with one belt and readings of 1 and 2. *)
EXTENDS MqttGateway

CONSTANTS belt

Topic(p) == [asset |-> belt, prop |-> p]
Item(p, d) == [topic |-> Topic(p), data |-> d]
Message(env, form, evts, items) ==
  [topic |-> Topic("other"), utf8 |-> TRUE, envelope |-> env, form |-> form,
   events |-> evts, items |-> items]

\* A tuple list: a position and a speed that is too high.
Alarm == Message(FALSE, "tuple", <<>>, <<Item("position", 2), Item("speed", 2)>>)
\* A tuple list: a speed, an item without data, a speed in another spelling.
Slow == Message(FALSE, "tuple", <<>>,
                <<Item("speed", 1), Item("speed", Absent), Item("rpm", 2)>>)
\* Envelopes, one of a schema the gateway does not know.
Failure == Message(TRUE, "array",
                   <<[kind |-> "machine_failure", schema |-> "v0"],
                     [kind |-> "machine_failure", schema |-> "ft.events.v1"]>>, <<>>)
\* An envelope topic with nothing but telemetry in it, in one JSON object.
Fallback == Message(TRUE, "object", <<>>, <<[topic |-> Absent, data |-> Text]>>)
\* A reading with neither topic nor key.
Raw == Message(FALSE, "tuple", <<>>, <<[topic |-> Absent, data |-> Absent]>>)

MixedMessages == {Alarm, Slow, Failure, Fallback, Raw}
AlarmMessages == {Alarm}

MCCommandTopic == Topic("other")

=============================================================================
