-------------------------------- MODULE RtHost --------------------------------
(***************************************************************************)
(* The real-time host (services/servicemanagement: sample_engine.rs,       *)
(* manager.rs; services/rtservices): one thread runs the engine loop and   *)
(* ticks the real-time services ServiceA and PositionSyncService under the *)
(* overrun guard.  It shares the speed property and the event channel with *)
(* the REST handlers, and the source position, three atomics, with the     *)
(* gateway's thread.  A step is one access to something shared.            *)
(*                                                                         *)
(* Speeds are floating-point numbers that the loop keeps raising.  Here a  *)
(* speed is the client write it goes back to (0: the initial one), which   *)
(* raising it does not change.                                             *)
(***************************************************************************)
EXTENDS Integers, Sequences, FiniteSetsExt

CONSTANTS
  EventCap,    \* capacity of the event channel (1024)
  Thresholds,  \* the values of disable_after_overruns in use
  Positions,   \* positions that the gateway stores
  Offset,      \* the offset of the fixed-point form (10^6)
  Unit,        \* the grain of the fixed-point form (10^-3)
  Threshold,   \* a larger change of the position is synced
  MaxWrites,   \* bound on the writes of REST clients
  MaxStores    \* bound on the gateway's stores

ASSUME RtHostAssumption ==
  /\ EventCap \in Nat \ {0} /\ Unit \in Nat \ {0}
  /\ Offset \in Nat /\ Threshold \in Nat /\ Positions \subseteq [1 .. 3 -> Int]
  /\ Thresholds \subseteq Nat /\ Thresholds # {} /\ IsFiniteSet(Thresholds)
  /\ MaxWrites \in Nat /\ MaxStores \in Nat

VARIABLES
  pc,            \* where the engine thread is
  limit,         \* config.rt_check_config.disable_after_overruns
  overruns, disabled,  \* stats of each service
  read,          \* the speed read by the engine thread, 0 when it is done with it
  speed,         \* Properties::speed
  events,        \* the event channel
  writes,        \* number of writes of REST clients so far
  source,        \* AtomicPosition: x, y, z in fixed-point form
  target,        \* the position whose store is under way, or the last one stored
  left,          \* how many of its coordinates are still to be stored
  stores,        \* number of stores so far
  loaded,        \* coordinates that the tick under way has loaded
  last_synced    \* PositionSyncService::last_synced

statVars == <<overruns, disabled>>
speedVars == <<read, speed, events>>
syncVars == <<loaded, last_synced>>
gatewayVars == <<source, target, left, stores>>
vars == <<pc, limit, statVars, speedVars, writes, syncVars, gatewayVars>>

\* The registered services, ticked in this order.
Services == {"ServiceA", "PositionSync"}
Coords == 1 .. 3
Speeds == 0 .. MaxWrites
Custom == -1   \* an event that is not a SetSpeed

\* to_fixed: a negative sum saturates to zero, the rest is truncated.
ToFixed(v) == IF v + Offset < 0 THEN 0 ELSE (v + Offset) \div Unit
from_fixed(n) == n * Unit - Offset
Fixed(p) == [i \in Coords |-> ToFixed(p[i])]
Origin == [i \in Coords |-> 0]

TypeOK ==
  /\ pc \in {"idle", "head", "send", "events", "get", "set"} \cup Services
  /\ limit \in Thresholds
  /\ overruns \in [Services -> Nat] /\ disabled \in [Services -> BOOLEAN]
  /\ read \in Speeds /\ speed \in Speeds /\ writes \in Speeds
  /\ events \in Seq(Speeds \cup {Custom}) /\ Len(events) <= EventCap
  /\ source \in [Coords -> Nat] /\ target \in Positions \cup {Origin}
  /\ left \in 0 .. 2 /\ stores \in 0 .. MaxStores
  /\ loaded \in Seq(Int) /\ Len(loaded) <= 2
  /\ last_synced \in [Coords -> Int]

Init ==
  /\ pc = "idle" /\ limit \in Thresholds
  /\ overruns = [s \in Services |-> 0] /\ disabled = [s \in Services |-> FALSE]
  /\ read = 0 /\ speed = 0 /\ events = <<>> /\ writes = 0
  /\ source = Fixed(Origin) /\ target = Origin /\ left = 0 /\ stores = 0
  /\ loaded = <<>> /\ last_synced = Origin

-----------------------------------------------------------------------------
(* The owner of the engine, while the loop does not run. *)

\* start_all and stop_all change nothing here: neither service has an init or a
\* shutdown of its own, statistics are not reset, and run_for does not ask whether
\* the manager runs.
set_rtcheck_config ==
  /\ pc = "idle"
  /\ limit' \in Thresholds
  /\ UNCHANGED <<pc, statVars, speedVars, writes, syncVars, gatewayVars>>

\* run_for starts.
RunFor ==
  /\ pc = "idle"
  /\ pc' = "head"
  /\ UNCHANGED <<limit, statVars, speedVars, writes, syncVars, gatewayVars>>

-----------------------------------------------------------------------------
(* One round of the loop: tick_rt, process_events, raise the speed. *)

\* The run time is over, or another round.
LoopHead ==
  /\ pc = "head"
  /\ pc' \in {"idle", "ServiceA"}
  /\ UNCHANGED <<limit, statVars, speedVars, writes, syncVars, gatewayVars>>

After(s) == IF s = "ServiceA" THEN "PositionSync" ELSE "events"

\* update_stats: the tick kept its budget, or overran it.
UpdateStats(s) ==
  \/ UNCHANGED statVars
  \/ /\ overruns' = [overruns EXCEPT ![s] = @ + 1]
     /\ disabled' = [disabled EXCEPT ![s] = @ \/ overruns[s] + 1 >= limit]

\* Mutant: a disabled service is ticked all the same.
TickedAlways(s) == pc = s

Ticked(s) == pc = s /\ ~disabled[s]

SkipDisabled(s) ==
  /\ pc = s /\ disabled[s]
  /\ pc' = After(s)
  /\ UNCHANGED <<limit, statVars, speedVars, writes, syncVars, gatewayVars>>

\* ServiceA::tick, which reads the speed and on every 50th call goes on to send
\* an event; on which calls is left open.
TickServiceA ==
  /\ Ticked("ServiceA")
  /\ \/ pc' = "send" /\ read' = speed /\ UNCHANGED statVars
     \/ pc' = After("ServiceA") /\ UNCHANGED read /\ UpdateStats("ServiceA")
  /\ UNCHANGED <<limit, speed, events, writes, syncVars, gatewayVars>>

\* The rest of that tick: try_send, whose failure is ignored.
SendSpeed ==
  /\ pc = "send"
  /\ events' = IF Len(events) < EventCap THEN Append(events, read) ELSE events
  /\ UpdateStats("ServiceA")
  /\ read' = 0
  /\ pc' = After("ServiceA")
  /\ UNCHANGED <<limit, speed, writes, syncVars, gatewayVars>>

\* load: the coordinates one after the other.
LoadCoordinate ==
  /\ Ticked("PositionSync") /\ Len(loaded) < 2
  /\ loaded' = Append(loaded, from_fixed(source[Len(loaded) + 1]))
  /\ UNCHANGED <<pc, limit, statVars, speedVars, writes, last_synced, gatewayVars>>

Distance(a, b) == IF a < b THEN b - a ELSE a - b

\* Mutant: changed only if every coordinate is.
AllChanged(p, q) == {\A i \in Coords : Distance(p[i], q[i]) > Threshold}

\* position_changed; at the threshold itself, rounding decides.
position_changed(p, q) ==
  IF \E i \in Coords : Distance(p[i], q[i]) > Threshold THEN {TRUE}
  ELSE IF \E i \in Coords : Distance(p[i], q[i]) = Threshold THEN BOOLEAN
  ELSE {FALSE}

\* The last load, and the rest of PositionSyncService::tick.
SyncPosition ==
  LET new_pos == Append(loaded, from_fixed(source[3])) IN
  /\ Ticked("PositionSync") /\ Len(loaded) = 2
  /\ \E changed \in position_changed(new_pos, last_synced) :
       last_synced' = IF changed THEN new_pos ELSE last_synced
  /\ loaded' = <<>>
  /\ UpdateStats("PositionSync")
  /\ pc' = After("PositionSync")
  /\ UNCHANGED <<limit, speedVars, writes, gatewayVars>>

\* Mutant: one event in each round.
ProcessOneEvent ==
  /\ pc = "events" /\ events # <<>>
  /\ speed' = IF Head(events) = Custom THEN speed ELSE Head(events)
  /\ events' = Tail(events)
  /\ pc' = "get"
  /\ UNCHANGED <<limit, statVars, read, writes, syncVars, gatewayVars>>

\* process_events goes on until the channel is empty.
ProcessEvent ==
  /\ pc = "events" /\ events # <<>>
  /\ speed' = IF Head(events) = Custom THEN speed ELSE Head(events)
  /\ events' = Tail(events)
  /\ UNCHANGED <<pc, limit, statVars, read, writes, syncVars, gatewayVars>>

NoMoreEvents ==
  /\ pc = "events" /\ events = <<>>
  /\ pc' = "get"
  /\ UNCHANGED <<limit, statVars, speedVars, writes, syncVars, gatewayVars>>

\* get_speed and set_speed with a slightly higher one; then sleep.
GetSpeed ==
  /\ pc = "get"
  /\ read' = speed
  /\ pc' = "set"
  /\ UNCHANGED <<limit, statVars, speed, events, writes, syncVars, gatewayVars>>

SetSpeed ==
  /\ pc = "set"
  /\ speed' = read /\ read' = 0
  /\ pc' = "head"
  /\ UNCHANGED <<limit, statVars, events, writes, syncVars, gatewayVars>>

-----------------------------------------------------------------------------
(* REST handlers, and the gateway's thread. *)

\* PUT /properties/speed
PutSpeed ==
  /\ writes < MaxWrites
  /\ speed' = writes + 1 /\ writes' = writes + 1
  /\ UNCHANGED <<pc, limit, statVars, read, events, syncVars, gatewayVars>>

\* POST /events: refused when the channel is full.
PostEvent ==
  /\ writes < MaxWrites /\ Len(events) < EventCap
  /\ \E e \in {writes + 1, Custom} : events' = Append(events, e)
  /\ writes' = writes + 1
  /\ UNCHANGED <<pc, limit, statVars, read, speed, syncVars, gatewayVars>>

\* store: the coordinates one after the other.
StoreBegins ==
  /\ left = 0 /\ stores < MaxStores
  /\ \E p \in Positions :
       /\ target' = p
       /\ source' = [source EXCEPT ![1] = ToFixed(p[1])]
  /\ left' = 2 /\ stores' = stores + 1
  /\ UNCHANGED <<pc, limit, statVars, speedVars, writes, syncVars>>

StoreGoesOn ==
  /\ left > 0
  /\ source' = [source EXCEPT ![4 - left] = ToFixed(target[4 - left])]
  /\ left' = left - 1
  /\ UNCHANGED <<pc, limit, statVars, speedVars, writes, syncVars, target, stores>>

-----------------------------------------------------------------------------
Tick ==
  \/ \E s \in Services : SkipDisabled(s)
  \/ TickServiceA \/ SendSpeed \/ LoadCoordinate \/ SyncPosition
Loop == LoopHead \/ Tick \/ ProcessEvent \/ NoMoreEvents \/ GetSpeed \/ SetSpeed

Next ==
  \/ set_rtcheck_config \/ RunFor \/ Loop
  \/ PutSpeed \/ PostEvent \/ StoreBegins \/ StoreGoesOn

\* The engine thread and the gateway's thread run; nobody has to call run_for.
Spec == Init /\ [][Next]_vars /\ WF_vars(Loop) /\ WF_vars(StoreGoesOn)

-----------------------------------------------------------------------------
(* Properties. *)

\* tick_rt: a disabled service stays so and has no effect any more, under
\* another limit and in later calls of run_for.
DisabledIsInert ==
  [][ /\ disabled["ServiceA"] => disabled'["ServiceA"] /\ pc' # "send"
      /\ disabled["PositionSync"] => disabled'["PositionSync"] /\ UNCHANGED last_synced ]_vars

\* The speed has four writers: PUT, events, ServiceA's events, and the loop, the
\* last two with a speed they read earlier.  A write can be lost to them, but once
\* the clients are silent they do not take turns with old speeds for ever.
SpeedSettles == <>[][UNCHANGED speed]_vars

\* PositionSync: as long as it is ticked, what it synced comes within the threshold
\* of the source, though it may read positions that never existed.
PositionCatchesUp ==
  ([]<>Ticked("PositionSync"))
    => <>[](\A i \in Coords : Distance(from_fixed(source[i]), last_synced[i]) <= Threshold)

=============================================================================
