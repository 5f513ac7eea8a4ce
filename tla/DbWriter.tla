------------------------------- MODULE DbWriter -------------------------------
(***************************************************************************)
(* The database writer service (services/nonrtservices/src/services/       *)
(* db_writer.rs).  Each start makes a new channel and spawns a new worker; *)
(* stop signals the worker and does not wait for it, so that the workers   *)
(* of several starts may run side by side.  Operations come from the owner *)
(* of the service (submit, try_submit) and from tasks that hold a clone of *)
(* the channel's sender (sender()), which outlives the stop.               *)
(***************************************************************************)
EXTENDS Integers, Sequences, FiniteSets

CONSTANTS
  Clients,    \* tasks that may hold a cloned sender
  Capacity,   \* channel_capacity
  BatchSize,  \* batch_size
  MaxStarts,  \* bound on the number of starts
  MaxOps      \* bound on the number of operations

\* mpsc::channel panics on zero; with_batch_size takes any size.
ASSUME CapacityAssumption == Capacity \in Nat \ {0}
ASSUME BatchSizeAssumption == BatchSize \in Nat
ASSUME BoundsAssumption == MaxStarts \in Nat /\ MaxOps \in Nat
ASSUME ClientsAssumption == "owner" \notin Clients

\* The starts of the service, and 0 for none; likewise the operations.
Starts == 1 .. MaxStarts
Ops == 1 .. MaxOps

VARIABLES
  owner,     \* what the owner is doing: "idle", "submit", or "gone" after a drop
  offered,   \* the operation whose submit is waiting, per client and the owner
  running,   \* status.running
  write_tx,  \* the start whose channel the service sends to, or 0
  starts,    \* number of starts so far
  clone,     \* the start whose sender a client holds, or 0
  chan,      \* the channel of each start
  signalled, \* has the shutdown channel of a start fired
  worker,    \* "none", "run" or "ended"
  batch,     \* the worker's batch
  accepted,  \* history: operations each channel accepted
  written,   \* history: operations each worker processed
  ops        \* number of operations so far

ownerVars == <<owner, running, write_tx, starts>>
clientVars == <<clone, offered>>
workVars == <<signalled, worker, batch, written>>
chanVars == <<chan, accepted>>
vars == <<ownerVars, clientVars, workVars, chanVars, ops>>

Owner == "owner"
Callers == Clients \cup {Owner}

TypeOK ==
  /\ owner \in {"idle", "submit", "gone"}
  /\ offered \in [Callers -> 0 .. MaxOps]
  /\ running \in BOOLEAN
  /\ write_tx \in 0 .. MaxStarts /\ starts \in 0 .. MaxStarts
  /\ clone \in [Clients -> 0 .. MaxStarts]
  /\ chan \in [Starts -> Seq(Ops)] /\ \A g \in Starts : Len(chan[g]) <= Capacity
  /\ signalled \in [Starts -> BOOLEAN]
  /\ worker \in [Starts -> {"none", "run", "ended"}]
  /\ batch \in [Starts -> Seq(Ops)]
  /\ accepted \in [Starts -> Seq(Ops)] /\ written \in [Starts -> Seq(Ops)]
  /\ ops \in 0 .. MaxOps

Init ==
  /\ owner = "idle" /\ offered = [c \in Callers |-> 0]
  /\ running = FALSE /\ write_tx = 0 /\ starts = 0
  /\ clone = [c \in Clients |-> 0]
  /\ chan = [g \in Starts |-> <<>>] /\ accepted = [g \in Starts |-> <<>>]
  /\ signalled = [g \in Starts |-> FALSE]
  /\ worker = [g \in Starts |-> "none"]
  /\ batch = [g \in Starts |-> <<>>] /\ written = [g \in Starts |-> <<>>]
  /\ ops = 0

-----------------------------------------------------------------------------
(* The owner. *)

\* start: AlreadyRunning, or a new channel and a new worker.
Start ==
  /\ owner = "idle" /\ ~running /\ starts < MaxStarts
  /\ starts' = starts + 1
  /\ write_tx' = starts + 1
  /\ worker' = [worker EXCEPT ![starts + 1] = "run"]
  /\ running' = TRUE
  /\ UNCHANGED <<owner, clientVars, signalled, batch, written, chanVars, ops>>

\* Mutant: the shutdown signal is not sent; the sender is dropped all the same.
StopUnsignalled ==
  /\ owner = "idle" /\ running
  /\ write_tx' = 0
  /\ running' = FALSE
  /\ UNCHANGED <<owner, starts, clientVars, workVars, chanVars, ops>>

\* stop: NotRunning, or signal the worker and drop the sender.  It returns
\* while the worker may still be at work.
Stop ==
  /\ owner = "idle" /\ running
  /\ signalled' = [signalled EXCEPT ![write_tx] = TRUE]
  /\ write_tx' = 0
  /\ running' = FALSE
  /\ UNCHANGED <<owner, starts, clientVars, worker, batch, written, chanVars, ops>>

\* The service is dropped: so are both senders, and a dropped oneshot sender
\* completes the worker's shutdown branch like a signal.
DropService ==
  /\ owner = "idle"
  /\ owner' = "gone"
  /\ signalled' = IF write_tx = 0 THEN signalled ELSE [signalled EXCEPT ![write_tx] = TRUE]
  /\ write_tx' = 0
  /\ UNCHANGED <<running, starts, clientVars, worker, batch, written, chanVars, ops>>

HasRoom(g) == Len(chan[g]) < Capacity
Closed(g) == worker[g] = "ended"

Enqueue(g, op) ==
  /\ chan' = [chan EXCEPT ![g] = Append(@, op)]
  /\ accepted' = [accepted EXCEPT ![g] = Append(@, op)]

\* try_submit: NotRunning and a full or closed channel change nothing.
TrySubmit ==
  /\ owner = "idle" /\ write_tx # 0 /\ ops < MaxOps
  /\ HasRoom(write_tx) /\ ~Closed(write_tx)
  /\ Enqueue(write_tx, ops + 1)
  /\ ops' = ops + 1
  /\ UNCHANGED <<ownerVars, clientVars, workVars>>

\* submit: the owner waits for room and does nothing else in the meantime.
Submit ==
  /\ owner = "idle" /\ write_tx # 0 /\ ops < MaxOps
  /\ owner' = "submit"
  /\ offered' = [offered EXCEPT ![Owner] = ops + 1]
  /\ ops' = ops + 1
  /\ UNCHANGED <<running, write_tx, starts, clone, workVars, chanVars>>

\* The end of a send by c on the channel of g: room for it, or no receiver.
SendEnds(c, g) ==
  /\ \/ HasRoom(g) /\ ~Closed(g) /\ Enqueue(g, offered[c])
     \/ Closed(g) /\ UNCHANGED chanVars
  /\ offered' = [offered EXCEPT ![c] = 0]

SubmitEnds ==
  /\ owner = "submit"
  /\ SendEnds(Owner, write_tx)
  /\ owner' = "idle"
  /\ UNCHANGED <<running, write_tx, starts, clone, workVars, ops>>

-----------------------------------------------------------------------------
(* Holders of a cloned sender. *)

\* sender(): None while the service is stopped.
GetSender(c) ==
  /\ owner = "idle" /\ write_tx # 0 /\ clone[c] = 0
  /\ clone' = [clone EXCEPT ![c] = write_tx]
  /\ UNCHANGED <<ownerVars, offered, workVars, chanVars, ops>>

Send(c) ==
  /\ clone[c] # 0 /\ offered[c] = 0 /\ ops < MaxOps
  /\ offered' = [offered EXCEPT ![c] = ops + 1]
  /\ ops' = ops + 1
  /\ UNCHANGED <<ownerVars, clone, workVars, chanVars>>

ClientSendEnds(c) ==
  /\ offered[c] # 0
  /\ SendEnds(c, clone[c])
  /\ UNCHANGED <<ownerVars, clone, workVars, ops>>

DropSender(c) ==
  /\ clone[c] # 0 /\ offered[c] = 0
  /\ clone' = [clone EXCEPT ![c] = 0]
  /\ UNCHANGED <<ownerVars, offered, workVars, chanVars, ops>>

-----------------------------------------------------------------------------
(* The worker of start g. *)

\* process_batch, the last thing a worker does.
EndWorker(g) ==
  /\ written' = [written EXCEPT ![g] = @ \o batch[g]]
  /\ batch' = [batch EXCEPT ![g] = <<>>]
  /\ worker' = [worker EXCEPT ![g] = "ended"]

\* Mutant: the worker leaves only once it has nothing to do.
ShutdownWhenIdle(g) ==
  /\ worker[g] = "run" /\ signalled[g] /\ chan[g] = <<>> /\ batch[g] = <<>>
  /\ EndWorker(g)
  /\ UNCHANGED <<ownerVars, clientVars, signalled, chanVars, ops>>

\* The shutdown branch of select!, which may win although operations are
\* queued.  The receiver goes with the worker, and what is queued with it.
Shutdown(g) ==
  /\ worker[g] = "run" /\ signalled[g]
  /\ EndWorker(g)
  /\ UNCHANGED <<ownerVars, clientVars, signalled, chanVars, ops>>

\* Mutant: the batch is not cleared after it was processed.
ReceiveUncleared(g) ==
  LET full == Append(batch[g], Head(chan[g])) IN
  /\ worker[g] = "run" /\ chan[g] # <<>>
  /\ chan' = [chan EXCEPT ![g] = Tail(@)]
  /\ batch' = [batch EXCEPT ![g] = full]
  /\ written' = IF Len(full) >= BatchSize
                THEN [written EXCEPT ![g] = @ \o full] ELSE written
  /\ UNCHANGED <<ownerVars, clientVars, signalled, worker, accepted, ops>>

\* Mutant: the comparison that fills a batch is strict.
ReceiveStrict(g) ==
  LET full == Append(batch[g], Head(chan[g])) IN
  /\ worker[g] = "run" /\ chan[g] # <<>>
  /\ chan' = [chan EXCEPT ![g] = Tail(@)]
  /\ IF Len(full) > BatchSize
     THEN /\ written' = [written EXCEPT ![g] = @ \o full]
          /\ batch' = [batch EXCEPT ![g] = <<>>]
     ELSE /\ batch' = [batch EXCEPT ![g] = full]
          /\ UNCHANGED written
  /\ UNCHANGED <<ownerVars, clientVars, signalled, worker, accepted, ops>>

\* Mutant: a full batch waits for the shutdown.
ReceiveUntilFull(g) ==
  /\ worker[g] = "run" /\ chan[g] # <<>> /\ Len(batch[g]) < BatchSize
  /\ chan' = [chan EXCEPT ![g] = Tail(@)]
  /\ batch' = [batch EXCEPT ![g] = Append(@, Head(chan[g]))]
  /\ UNCHANGED <<ownerVars, clientVars, signalled, worker, written, accepted, ops>>

\* The recv branch with an operation: into the batch, which is processed and
\* cleared when it is full.
Receive(g) ==
  LET full == Append(batch[g], Head(chan[g])) IN
  /\ worker[g] = "run" /\ chan[g] # <<>>
  /\ chan' = [chan EXCEPT ![g] = Tail(@)]
  /\ IF Len(full) >= BatchSize
     THEN /\ written' = [written EXCEPT ![g] = @ \o full]
          /\ batch' = [batch EXCEPT ![g] = <<>>]
     ELSE /\ batch' = [batch EXCEPT ![g] = full]
          /\ UNCHANGED written
  /\ UNCHANGED <<ownerVars, clientVars, signalled, worker, accepted, ops>>

\* The recv branch with None: every sender of the channel is gone and it is empty.
ChannelEnds(g) ==
  /\ worker[g] = "run" /\ chan[g] = <<>>
  /\ write_tx # g /\ \A c \in Clients : clone[c] # g
  /\ EndWorker(g)
  /\ UNCHANGED <<ownerVars, clientVars, signalled, chanVars, ops>>

-----------------------------------------------------------------------------
Service == Start \/ Stop \/ DropService \/ TrySubmit \/ Submit
Work(g) == Shutdown(g) \/ Receive(g) \/ ChannelEnds(g)

Next ==
  \/ Service \/ SubmitEnds
  \/ \E c \in Clients : GetSender(c) \/ Send(c) \/ ClientSendEnds(c) \/ DropSender(c)
  \/ \E g \in Starts : Work(g)

Spec == Init /\ [][Next]_vars

\* The runtime polls the workers and the tasks whose send can end; select! picks
\* a ready branch at random, so that a branch that stays ready is taken; a
\* send that waits is served in turn (the channel's permits are first come
\* first served).  Nobody has to call anything, stop included.
FairSpec ==
  /\ Spec
  /\ \A g \in Starts : WF_vars(Work(g)) /\ WF_vars(Shutdown(g))
  /\ SF_vars(SubmitEnds)
  /\ \A c \in Clients : SF_vars(ClientSendEnds(c))

-----------------------------------------------------------------------------
(* Properties. *)

\* Channel, batch and process_batch: every accepted operation is processed once
\* and in order; what is not yet processed is in the batch or the channel, and
\* what a worker leaves unprocessed when it ends is what was in the channel.
OpsAccountedFor ==
  \A g \in Starts : accepted[g] = written[g] \o batch[g] \o chan[g]

\* A worker keeps less than a batch back, and nothing once it has ended: at most
\* Capacity + BatchSize - 1 accepted operations are not processed yet, and the
\* end of a worker loses at most Capacity.
BatchBelowSize ==
  \A g \in Starts :
    /\ worker[g] # "run" => batch[g] = <<>>
    /\ batch[g] # <<>> => Len(batch[g]) < BatchSize

\* start and stop in any order, with workers left over from earlier starts: while
\* the service says that it runs, the worker of the last start serves the channel
\* that submit sends to; every other worker has been told to end.
OneWorkerServes ==
  \A g \in Starts :
    IF running /\ owner # "gone" /\ g = starts
    THEN write_tx = g /\ worker[g] = "run" /\ ~signalled[g]
    ELSE worker[g] = "run" => signalled[g]

\* What makes these inductive: the operations offered, and the service's channel.
CallersInStep ==
  /\ owner = "submit" <=> offered[Owner] # 0
  /\ owner = "submit" => write_tx # 0
  /\ \A c \in Clients : offered[c] # 0 => clone[c] # 0

ServiceInStep ==
  /\ write_tx = IF running /\ owner # "gone" THEN starts ELSE 0
  /\ running => starts # 0
  /\ \A g \in Starts : g > starts => worker[g] = "none" /\ ~signalled[g]

DbWriterInv ==
  /\ TypeOK /\ OpsAccountedFor /\ BatchBelowSize /\ OneWorkerServes
  /\ CallersInStep /\ ServiceInStep

\* stop: the worker it signals ends, whoever still holds a sender.
WorkersEnd == \A g \in Starts : signalled[g] ~> worker[g] = "ended"

\* submit and send: nobody waits for ever on a full channel, for the worker goes
\* on receiving, or ends and closes the channel.
SendersReleased == \A c \in Callers : offered[c] # 0 ~> offered[c] = 0

=============================================================================
