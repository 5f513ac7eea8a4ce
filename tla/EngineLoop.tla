----------------------------- MODULE EngineLoop -----------------------------
(***************************************************************************)
(* The engine program around the event queue (bin/mainold.rs): a producer  *)
(* task moves the mock gateway and try_pushes one event per move; the main *)
(* loop synchronises the gateway's position into the database, then lets   *)
(* the workflow engine try_pop and handle up to a budget of events, then   *)
(* sleeps.  Ctrl+C is a branch of the select! that drives an iteration.    *)
(*                                                                         *)
(* A position is the number of the move that led to it, and so is the      *)
(* event of that move; 0 is the start position and an empty database.      *)
(***************************************************************************)
EXTENDS Naturals, Sequences, SequencesExt

CONSTANTS
  Capacity,     \* of the event queue
  MaxPerTick,   \* the argument of WorkflowEngine::with_budget
  MaxMoves,     \* bound: moves of the gateway
  MaxFaults,    \* bound: failed synchronisations
  None, Producer, Engine

ASSUME BoundsAssumption ==
  /\ Capacity \in Nat \ {0} /\ MaxPerTick \in Nat /\ MaxMoves \in Nat /\ MaxFaults \in Nat
ASSUME NamesAssumption ==
  /\ None \notin 1 .. MaxMoves /\ None \notin {Producer, Engine} /\ Producer # Engine

VARIABLES
  buf, head, tail, len, lock, permit, waiters, pc, op, item, ret,  \* EventQueue
  gateway,      \* MockGateway.pos
  database,     \* MockDatabase.stored
  producer,     \* where the producer task is
  engine,       \* where the main loop is
  sample,       \* the position PositionMapping read
  left,         \* iterations left of WorkflowEngine::tick
  handled,      \* the events handle_event has seen, in order
  dropped,      \* the events try_push refused
  faults        \* failed synchronisations so far

queueVars == <<buf, head, tail, len, lock, permit, waiters, pc, op, item, ret>>
loopVars == <<gateway, database, producer, engine, sample, left, handled, dropped, faults>>
vars == <<queueVars, loopVars>>

TaskOps == [t \in {Producer, Engine} |-> IF t = Producer THEN {"try_push"} ELSE {"try_pop"}]

Queue == INSTANCE EventQueue
           WITH Tasks <- {Producer, Engine}, Events <- 1 .. MaxMoves, Ops <- TaskOps

\* Mutant: with_budget takes its argument as it is.
TickBudgetRaw == MaxPerTick

\* WorkflowEngine::with_budget: at least one event per tick.
TickBudget == IF MaxPerTick = 0 THEN 1 ELSE MaxPerTick

Init ==
  /\ Queue!Init
  /\ gateway = 0 /\ database = 0 /\ sample = 0
  /\ producer = "move"
  /\ engine = "read"
  /\ left = 0
  /\ handled = <<>>
  /\ dropped = {}
  /\ faults = 0

Running == engine # "stopped"

-----------------------------------------------------------------------------
(* The producer task. *)

\* gw.simulate_move().await
Move ==
  /\ Running /\ producer = "move" /\ gateway < MaxMoves
  /\ gateway' = gateway + 1
  /\ producer' = "push"
  /\ UNCHANGED <<queueVars, database, engine, sample, left, handled, dropped, faults>>

\* q.try_push(Event::new(..)) begins
ProducerCalls ==
  /\ Running /\ producer = "push"
  /\ Queue!Call(Producer, "try_push", gateway)
  /\ producer' = "pushing"
  /\ UNCHANGED <<gateway, database, engine, sample, left, handled, dropped, faults>>

\* let _ = try_push(..): a refused event is dropped; then sleep and loop.
ProducerReturns ==
  /\ Running /\ producer = "pushing" /\ pc[Producer] = "idle"
  /\ dropped' = IF ret[Producer] = "Ok" THEN dropped ELSE dropped \cup {gateway}
  /\ producer' = "move"
  /\ UNCHANGED <<queueVars, gateway, database, engine, sample, left, handled, faults>>

-----------------------------------------------------------------------------
(* The main loop. *)

\* PositionMapping::sync_gateway_to_db reads the gateway.
SyncRead ==
  /\ engine = "read"
  /\ sample' = gateway
  /\ engine' = "write"
  /\ UNCHANGED <<queueVars, gateway, database, producer, left, handled, dropped, faults>>

\* try_set_position succeeds, or fails and is only logged; the workflow engine
\* ticks in both cases.
SyncWrite ==
  /\ engine = "write"
  /\ \/ database' = sample /\ UNCHANGED faults
     \/ faults < MaxFaults /\ faults' = faults + 1 /\ UNCHANGED database
  /\ engine' = "tick"
  /\ left' = TickBudget
  /\ UNCHANGED <<queueVars, gateway, producer, sample, handled, dropped>>

\* WorkflowEngine::tick calls try_pop while it has budget.
TickCalls ==
  /\ engine = "tick" /\ left > 0
  /\ Queue!Call(Engine, "try_pop", None)
  /\ engine' = "popping"
  /\ UNCHANGED <<gateway, database, producer, sample, left, handled, dropped, faults>>

\* Ok: handle the event.  Empty or Busy: this tick is over.
TickReturns ==
  /\ engine = "popping" /\ pc[Engine] = "idle"
  /\ engine' = IF ret[Engine] = "Ok" THEN "handle" ELSE "sleep"
  /\ UNCHANGED <<queueVars, gateway, database, producer, sample, left, handled, dropped, faults>>

HandleEvent ==
  /\ engine = "handle"
  /\ handled' = Append(handled, item[Engine])
  /\ left' = left - 1
  /\ engine' = "tick"
  /\ UNCHANGED <<queueVars, gateway, database, producer, sample, dropped, faults>>

TickExhausted ==
  /\ engine = "tick" /\ left = 0
  /\ engine' = "sleep"
  /\ UNCHANGED <<queueVars, gateway, database, producer, sample, left, handled, dropped, faults>>

\* Mutant: the next iteration skips the synchroniser.
NextIterationNoSync ==
  /\ engine = "sleep"
  /\ engine' = "tick"
  /\ left' = TickBudget
  /\ UNCHANGED <<queueVars, gateway, database, producer, sample, handled, dropped, faults>>

NextIteration ==
  /\ engine = "sleep"
  /\ engine' = "read"
  /\ UNCHANGED <<queueVars, gateway, database, producer, sample, left, handled, dropped, faults>>

\* Mutant: an iteration may be dropped anywhere.
CtrlCAnywhere ==
  /\ Running
  /\ engine' = "stopped"
  /\ UNCHANGED <<queueVars, gateway, database, producer, sample, left, handled, dropped, faults>>

\* select! drops the iteration where it is suspended: at the gateway's lock or
\* in the sleep.  Neither try_pop nor handle_event ever suspends.
CtrlC ==
  /\ engine \in {"read", "sleep"}
  /\ engine' = "stopped"
  /\ UNCHANGED <<queueVars, gateway, database, producer, sample, left, handled, dropped, faults>>

-----------------------------------------------------------------------------
ProducerRuns ==
  \/ ProducerCalls
  \/ Running /\ Queue!Step(Producer) /\ UNCHANGED loopVars
  \/ ProducerReturns

EngineRuns ==
  \/ SyncRead \/ SyncWrite
  \/ TickCalls \/ TickReturns \/ HandleEvent \/ TickExhausted
  \/ Running /\ Queue!Step(Engine) /\ UNCHANGED loopVars
  \/ NextIteration

Next == Move \/ ProducerRuns \/ EngineRuns \/ CtrlC

\* Both tasks are polled whenever they are ready; nothing forces a further move
\* or a Ctrl+C.
Spec == Init /\ [][Next]_vars /\ WF_vars(ProducerRuns) /\ WF_vars(EngineRuns)

-----------------------------------------------------------------------------
(* Properties. *)

TypeOK ==
  /\ gateway \in 0 .. MaxMoves /\ database \in 0 .. MaxMoves /\ sample \in 0 .. MaxMoves
  /\ producer \in {"move", "push", "pushing"}
  /\ engine \in {"read", "write", "tick", "popping", "handle", "sleep", "stopped"}
  /\ left \in 0 .. TickBudget
  /\ handled \in Seq(1 .. MaxMoves)
  /\ dropped \subseteq 1 .. MaxMoves
  /\ faults \in 0 .. MaxFaults
  /\ Queue!QueueInv

\* The events on their way through the engine, in the order of their moves.
InEngine ==
  IF engine = "handle" \/ (engine = "popping" /\ ret[Engine] = "Ok")
  THEN <<item[Engine]>> ELSE <<>>

InProducer ==
  IF producer = "push" \/ (producer = "pushing" /\ ret[Producer] # "Ok")
  THEN <<gateway>> ELSE <<>>

Pipeline == handled \o InEngine \o Queue!Contents \o InProducer

\* try_push, try_pop, tick and Ctrl+C together: every move's event is handled,
\* in the engine's hand, queued, in the producer's hand or dropped, in the
\* order of the moves and exactly once; shutting down loses none in between.
EventsAccountedFor ==
  /\ \A i \in 2 .. Len(Pipeline) : Pipeline[i - 1] < Pipeline[i]
  /\ ToSet(Pipeline) \cap dropped = {}
  /\ ToSet(Pipeline) \cup dropped = 1 .. gateway

\* Every queued event is handled, at most TickBudget per tick, unless the
\* engine is stopped.
QueuedIsHandled ==
  \A n \in 1 .. MaxMoves :
    n \in ToSet(Queue!Contents) ~> n \in ToSet(handled) \/ ~Running

\* Synchronizer::tick: failed synchronisations are made good by later ones; the
\* database ends with the gateway's last position, dropped events or not.
DatabaseCatchesUp == <>[](database = gateway \/ ~Running)

-----------------------------------------------------------------------------
(* The inductive invariant. *)

\* Where the two tasks are and what their calls of the queue say.
CallsInStep ==
  /\ producer # "pushing" => pc[Producer] = "idle"
  /\ producer = "pushing" => item[Producer] = gateway /\ op[Producer] = "try_push"
  /\ producer \in {"push", "pushing"} => gateway > 0
  /\ engine # "popping" => pc[Engine] = "idle"
  /\ engine = "popping" => op[Engine] = "try_pop"
  /\ engine \in {"popping", "handle"} => left > 0
  /\ engine = "handle" \/ (engine = "popping" /\ ret[Engine] = "Ok") => item[Engine] # None

\* Not only neighbours are in the order of their moves.
PipelineOrdered == \A i, j \in DOMAIN Pipeline : i < j => Pipeline[i] < Pipeline[j]

EngineInv == TypeOK /\ CallsInStep /\ PipelineOrdered /\ EventsAccountedFor

=============================================================================
