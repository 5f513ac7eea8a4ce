----------------------------- MODULE MqttDecode -----------------------------
(***************************************************************************)
(* What one MQTT message means to the gateway: the structured and the      *)
(* telemetry decoding (upstreaminterface.rs, models/parser.rs) and what a  *)
(* telemetry event does to a property model (models/properties).           *)
(*                                                                         *)
(* A topic is a record of an asset and the class of its last segment:      *)
(*   "speed"     ends in "/speed", exactly                                 *)
(*   "rpm"       any other spelling SpeedProperty accepts (RPM, Speed ..)  *)
(*   "position"  what PositionProperty accepts                             *)
(*   "other"     everything else, topics without a "/" included            *)
(* A message is a record with the fields                                   *)
(*   topic, utf8  its topic; does its payload decode as UTF-8              *)
(*   envelope     does should_try_structured accept it: the topic has the  *)
(*                configured prefix or, without one, the payload the three *)
(*                marker words                                             *)
(*   form         "blank", "object", "array", "string" (JSON) or "tuple"   *)
(*                (anything else)                                          *)
(*   events       the envelopes WireEventPayload reads: [kind, schema]     *)
(*   items        the items of a telemetry payload: [topic, data], where   *)
(*                either may be absent                                     *)
(***************************************************************************)
EXTENDS Integers, Sequences, SequencesExt

CONSTANTS
  Assets,     \* asset ids
  Numbers,    \* numeric readings
  Text, Blank,  \* data that is no number; data that is only white space
  Absent      \* a missing field, an unknown property

Props == {"speed", "rpm", "position", "other"}
Topics == [asset : Assets, prop : Props]
Readings == Numbers \cup {Text, Blank}

\* GatewayEvent: telemetry, or one of the two structured events.
Telemetry == [kind : {"telemetry"}, topic : Topics, value : Readings]
Structured == [kind : {"machine_failure", "counter_deviation"}]
GatewayEvents == Telemetry \cup Structured

-----------------------------------------------------------------------------
(* models/parser.rs *)

HasData(item) == item.data # Absent
HasText(item) == item.data \notin {Absent, Blank}

Sample(m, item) ==
  [kind |-> "telemetry",
   topic |-> IF item.topic = Absent THEN m.topic ELSE item.topic,
   value |-> item.data]

SamplesOf(m, items) == [i \in DOMAIN items |-> Sample(m, items[i])]

\* parse_payload and parse_json_payload.  JsonPayload is untagged and its first
\* variant takes any JSON value, so an array is never seen as an array: it is
\* neither a string nor an object and yields nothing.  A JSON string is one
\* reading of the message's own topic.
parse_payload(m) ==
  CASE m.form = "blank"  -> <<>>
    [] m.form = "string" -> SamplesOf(m, [i \in 1 .. 1 |-> [m.items[1] EXCEPT !.topic = Absent]])
    [] m.form = "object" -> SamplesOf(m, SelectSeq(SubSeq(m.items, 1, 1), HasData))
    [] m.form = "array"  -> <<>>
    [] m.form = "tuple"  -> SamplesOf(m, SelectSeq(m.items, HasText))

-----------------------------------------------------------------------------
(* upstreaminterface.rs *)

IsV1(env) == env.schema = "ft.events.v1"

\* decode_structured: the envelopes of the one schema it knows, in order.
decode_structured(m) ==
  IF m.envelope /\ m.form \in {"object", "array"}
  THEN LET known == SelectSeq(m.events, IsV1)
       IN  [i \in DOMAIN known |-> [kind |-> known[i].kind]]
  ELSE <<>>

\* decode_events: structured when that yields anything, else telemetry.
decode_events(m) ==
  IF ~m.utf8 THEN <<>>
  ELSE IF decode_structured(m) # <<>> THEN decode_structured(m)
  ELSE parse_payload(m)

-----------------------------------------------------------------------------
(* models/properties: the last known reading of each asset's properties. *)

Properties == Assets \X {"position", "speed"}
PropertyModels == [Properties -> Numbers \cup {Absent}]

NoProperties == [k \in Properties |-> Absent]

\* Whose readings each property takes, by its split_asset_and_prop.
TracksPosition(topic) == topic.prop = "position"
TracksSpeed(topic) == topic.prop \in {"speed", "rpm"}
Tracks(topic, prop) ==
  IF prop = "position" THEN TracksPosition(topic) ELSE TracksSpeed(topic)

\* Does event e set property k?  Readings that are no number are ignored.
Updates(e, k) ==
  /\ e.kind = "telemetry" /\ e.value \in Numbers
  /\ k[1] = e.topic.asset /\ Tracks(e.topic, k[2])

\* PropertyModel::apply_telemetry
apply_telemetry(pm, e) == [k \in DOMAIN pm |-> IF Updates(e, k) THEN e.value ELSE pm[k]]

\* Command::to_mqtt: a JSON object with the command as its data object, and
\* none of the marker words of an envelope.
to_mqtt(topic) ==
  [topic |-> topic, utf8 |-> TRUE, envelope |-> FALSE, form |-> "object",
   events |-> <<>>, items |-> <<[topic |-> Absent, data |-> Text]>>]

\* The engine's reaction: only a topic that ends in "/speed" and a number above
\* the limit ask for a command.
TooFast(e, limit) ==
  /\ e.kind = "telemetry"
  /\ e.topic.prop = "speed"
  /\ e.value \in Numbers
  /\ e.value > limit

=============================================================================
