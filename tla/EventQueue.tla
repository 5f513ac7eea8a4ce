----------------------------- MODULE EventQueue -----------------------------
(***************************************************************************)
(* The engine's event queue (eventsystem/eventqueue.rs): a ring buffer     *)
(* behind a tokio Mutex, with two tokio Notify objects that wake the       *)
(* awaiting callers.  Tasks run on several worker threads: every step that *)
(* another thread can observe (taking the mutex, changing the ring,        *)
(* notifying, releasing the mutex, awaiting a notification) is an action   *)
(* of its own.                                                             *)
(*                                                                         *)
(* A call runs through these program counters:                             *)
(*   idle -> lock|trylock -> locked -> notify -> unlock -> idle            *)
(*                            locked -> await -> (sleep ->) lock           *)
(***************************************************************************)
EXTENDS Naturals, Sequences

CONSTANTS
  Capacity,   \* number of slots of the ring
  Events,     \* the events
  Tasks,      \* the tasks that call the queue
  Ops,        \* Ops[t]: the operations task t calls
  None        \* an empty slot, no event, no task

PushOps == {"push", "try_push"}
PopOps == {"pop", "try_pop"}
OpNames == PushOps \cup PopOps
Notifies == {"not_empty", "not_full"}

\* EventQueue::new asserts capacity > 0.
ASSUME CapacityAssumption == Capacity \in Nat \ {0}
ASSUME NoneAssumption == None \notin Events /\ None \notin Tasks
ASSUME OpsAssumption == Ops \in [Tasks -> SUBSET OpNames]

VARIABLES
  buf,        \* RingState.buf, indexed from 0
  head,       \* RingState.head: slot of the oldest event
  tail,       \* RingState.tail: slot of the next event
  len,        \* RingState.len
  lock,       \* the task that holds EventQueue.inner, or None
  permit,     \* permit[n] = 1: Notify n has a stored wake-up
  waiters,    \* waiters[n]: tasks registered with Notify n, first come first
  pc,         \* where each task is in its call
  op,         \* the operation of each task's last call
  item,       \* the event it pushes, or the one its pop returned
  ret         \* "pending", or the result of the last call

ringVars == <<buf, head, tail, len>>
notifyVars == <<permit, waiters>>
callVars == <<op, item, ret>>
vars == <<buf, head, tail, len, lock, permit, waiters, pc, op, item, ret>>

Slots == 0 .. Capacity - 1

TypeOK ==
  /\ buf \in [Slots -> Events \cup {None}]
  /\ head \in Slots
  /\ tail \in Slots
  /\ len \in 0 .. Capacity
  /\ lock \in Tasks \cup {None}
  /\ permit \in [Notifies -> {0, 1}]
  /\ waiters \in [Notifies -> Seq(Tasks)]
  /\ pc \in [Tasks -> {"idle", "lock", "trylock", "locked", "notify",
                       "unlock", "await", "sleep"}]
  /\ op \in [Tasks -> OpNames \cup {"none"}]
  /\ item \in [Tasks -> Events \cup {None}]
  /\ ret \in [Tasks -> {"none", "pending", "Ok", "Full", "Empty", "Busy"}]

-----------------------------------------------------------------------------
(* The ring buffer, RingState. *)

IsFull == len = Capacity
IsEmpty == len = 0

RingPush(e) ==
  /\ buf' = [buf EXCEPT ![tail] = e]
  /\ tail' = (tail + 1) % Capacity
  /\ len' = len + 1
  /\ UNCHANGED head

\* Mutant: the event is copied out of its slot, not taken.
RingPopNoTake ==
  /\ head' = (head + 1) % Capacity
  /\ len' = len - 1
  /\ UNCHANGED <<buf, tail>>

RingPop ==
  /\ buf' = [buf EXCEPT ![head] = None]
  /\ head' = (head + 1) % Capacity
  /\ len' = len - 1
  /\ UNCHANGED tail

-----------------------------------------------------------------------------
(* The Notify objects.  notify_one wakes the first registered waiter;      *)
(* without one it stores a wake-up, and at most one is ever stored.        *)

\* Mutant: every operation signals not_full.
SignalsNotFull(o) == "not_full"

\* The Notify a finished operation signals, and the one a blocked one awaits.
Signals(o) == IF o \in PushOps THEN "not_empty" ELSE "not_full"
Awaits(o) == IF o \in PushOps THEN "not_full" ELSE "not_empty"

NotifyOne(t, n) ==
  IF waiters[n] = <<>>
  THEN /\ permit' = [permit EXCEPT ![n] = 1]
       /\ pc' = [pc EXCEPT ![t] = "unlock"]
       /\ UNCHANGED waiters
  ELSE /\ pc' = [pc EXCEPT ![t] = "unlock", ![Head(waiters[n])] = "lock"]
       /\ waiters' = [waiters EXCEPT ![n] = Tail(@)]
       /\ UNCHANGED permit

-----------------------------------------------------------------------------
(* The operations. *)

Init ==
  /\ buf = [i \in Slots |-> None]
  /\ head = 0 /\ tail = 0 /\ len = 0
  /\ lock = None
  /\ permit = [n \in Notifies |-> 0]
  /\ waiters = [n \in Notifies |-> <<>>]
  /\ pc = [t \in Tasks |-> "idle"]
  /\ op = [t \in Tasks |-> "none"]
  /\ item = [t \in Tasks |-> None]
  /\ ret = [t \in Tasks |-> "none"]

\* A task calls one of its operations; the pushes bring an event.
Call(t, o, e) ==
  /\ pc[t] = "idle"
  /\ IF o \in PushOps THEN e # None ELSE e = None
  /\ pc' = [pc EXCEPT ![t] = IF o \in {"push", "pop"} THEN "lock" ELSE "trylock"]
  /\ op' = [op EXCEPT ![t] = o]
  /\ item' = [item EXCEPT ![t] = e]
  /\ ret' = [ret EXCEPT ![t] = "pending"]
  /\ UNCHANGED <<ringVars, lock, notifyVars>>

\* inner.lock().await
Lock(t) ==
  /\ pc[t] = "lock"
  /\ lock = None
  /\ lock' = t
  /\ pc' = [pc EXCEPT ![t] = "locked"]
  /\ UNCHANGED <<ringVars, notifyVars, callVars>>

\* inner.try_lock(): the mutex, or Busy at once.
TryLock(t) ==
  /\ pc[t] = "trylock"
  /\ IF lock = None
     THEN /\ lock' = t
          /\ pc' = [pc EXCEPT ![t] = "locked"]
          /\ UNCHANGED ret
     ELSE /\ pc' = [pc EXCEPT ![t] = "idle"]
          /\ ret' = [ret EXCEPT ![t] = "Busy"]
          /\ UNCHANGED lock
  /\ UNCHANGED <<ringVars, notifyVars, op, item>>

\* Mutant: the push does not notify.
PushLockedSilent(t) ==
  /\ pc[t] = "locked" /\ op[t] \in PushOps
  /\ ~IsFull
  /\ RingPush(item[t])
  /\ pc' = [pc EXCEPT ![t] = "unlock"]
  /\ ret' = [ret EXCEPT ![t] = "Ok"]
  /\ UNCHANGED <<lock, notifyVars, op, item>>

\* push and try_push with room, mutex held.
PushLocked(t) ==
  /\ pc[t] = "locked" /\ op[t] \in PushOps
  /\ ~IsFull
  /\ RingPush(item[t])
  /\ pc' = [pc EXCEPT ![t] = "notify"]
  /\ ret' = [ret EXCEPT ![t] = "Ok"]
  /\ UNCHANGED <<lock, notifyVars, op, item>>

\* Mutant: the ring advances before the slot is read.
PopLockedSwapped(t) ==
  /\ pc[t] = "locked" /\ op[t] \in PopOps
  /\ ~IsEmpty
  /\ RingPop
  /\ item' = [item EXCEPT ![t] = buf[head']]
  /\ pc' = [pc EXCEPT ![t] = "notify"]
  /\ ret' = [ret EXCEPT ![t] = "Ok"]
  /\ UNCHANGED <<lock, notifyVars, op>>

\* pop and try_pop with an event, mutex held.  take().expect() panics on an
\* empty slot; WindowOccupied excludes it.
PopLocked(t) ==
  /\ pc[t] = "locked" /\ op[t] \in PopOps
  /\ ~IsEmpty
  /\ item' = [item EXCEPT ![t] = buf[head]]
  /\ RingPop
  /\ pc' = [pc EXCEPT ![t] = "notify"]
  /\ ret' = [ret EXCEPT ![t] = "Ok"]
  /\ UNCHANGED <<lock, notifyVars, op>>

\* A full ring (push) or an empty one (pop): the try operation reports it,
\* the awaiting one releases the mutex and goes to await a notification.
Blocked(t) ==
  /\ pc[t] = "locked"
  /\ \/ op[t] \in PushOps /\ IsFull
     \/ op[t] \in PopOps /\ IsEmpty
  /\ lock' = None
  /\ CASE op[t] = "try_push" -> /\ ret' = [ret EXCEPT ![t] = "Full"]
                                /\ pc' = [pc EXCEPT ![t] = "idle"]
       [] op[t] = "try_pop"  -> /\ ret' = [ret EXCEPT ![t] = "Empty"]
                                /\ pc' = [pc EXCEPT ![t] = "idle"]
       [] OTHER              -> /\ pc' = [pc EXCEPT ![t] = "await"]
                                /\ UNCHANGED ret
  /\ UNCHANGED <<ringVars, notifyVars, op, item>>

\* notify_one(), called with the mutex still held.
Notify(t) ==
  /\ pc[t] = "notify"
  /\ NotifyOne(t, Signals(op[t]))
  /\ UNCHANGED <<ringVars, lock, callVars>>

\* The guard is dropped and the call returns.
Unlock(t) ==
  /\ pc[t] = "unlock"
  /\ lock' = None
  /\ pc' = [pc EXCEPT ![t] = "idle"]
  /\ UNCHANGED <<ringVars, notifyVars, callVars>>

\* notified().await, not holding the mutex: consume a stored wake-up and loop,
\* or register and sleep.
Await(t) ==
  LET n == Awaits(op[t]) IN
  /\ pc[t] = "await"
  /\ IF permit[n] = 1
     THEN /\ permit' = [permit EXCEPT ![n] = 0]
          /\ pc' = [pc EXCEPT ![t] = "lock"]
          /\ UNCHANGED waiters
     ELSE /\ waiters' = [waiters EXCEPT ![n] = Append(@, t)]
          /\ pc' = [pc EXCEPT ![t] = "sleep"]
          /\ UNCHANGED permit
  /\ UNCHANGED <<ringVars, lock, callVars>>

Step(t) ==
  \/ Lock(t) \/ TryLock(t)
  \/ PushLocked(t) \/ PopLocked(t) \/ Blocked(t)
  \/ Notify(t) \/ Unlock(t) \/ Await(t)

Next ==
  \E t \in Tasks :
    \/ \E o \in Ops[t], e \in Events \cup {None} : Call(t, o, e)
    \/ Step(t)

Spec == Init /\ [][Next]_vars

\* A task that started a call runs on (the runtime polls every ready task);
\* the tokio mutex hands itself over first come first served, so a task that
\* waits for it is not passed over forever.  Nothing makes a task call again.
Fairness == \A t \in Tasks : WF_vars(Step(t)) /\ SF_vars(Lock(t))

FairSpec == Spec /\ Fairness

-----------------------------------------------------------------------------
(* Properties. *)

\* The slot k places after head.
SlotAt(k) == IF head + k < Capacity THEN head + k ELSE head + k - Capacity

\* RingState: tail sits len slots after head, and exactly the len slots from
\* head on hold events: take().expect("ringbuffer slot empty") never panics
\* and push never overwrites an event that was not popped.
WindowOccupied ==
  /\ tail = SlotAt(IF len = Capacity THEN 0 ELSE len)
  /\ \A k \in Slots : buf[SlotAt(k)] # None <=> k < len

\* The mutex: exactly the task that holds it is between lock() and the drop
\* of the guard.
MutexHeld == \A t \in Tasks : lock = t <=> pc[t] \in {"locked", "notify", "unlock"}

\* The tasks asleep on a Notify are those registered with it, each once.
WaitersAsleep ==
  \A n \in Notifies :
    /\ \A i \in DOMAIN waiters[n] :
         pc[waiters[n][i]] = "sleep" /\ Awaits(op[waiters[n][i]]) = n
    /\ \A i, j \in DOMAIN waiters[n] : waiters[n][i] = waiters[n][j] => i = j
    /\ \A t \in Tasks : pc[t] = "sleep" /\ Awaits(op[t]) = n
                          => \E i \in DOMAIN waiters[n] : waiters[n][i] = t

\* What a call in progress has recorded of itself.
CallsRecorded ==
  \A t \in Tasks :
    /\ ret[t] = "pending" <=> pc[t] \in {"lock", "trylock", "locked", "await", "sleep"}
    /\ pc[t] # "idle" => op[t] \in Ops[t]
    /\ pc[t] \in {"await", "sleep"} => op[t] \in {"push", "pop"}
    /\ pc[t] = "trylock" => op[t] \in {"try_push", "try_pop"}
    /\ pc[t] # "idle" /\ op[t] \in PushOps => item[t] \in Events

\* The inductive invariant: the ring, the mutex, the waiters' queues and the
\* callers' records agree at every step of every interleaving.
QueueInv ==
  /\ TypeOK
  /\ WindowOccupied
  /\ MutexHeld
  /\ WaitersAsleep
  /\ CallsRecorded

\* The condition an operation waits for.
CanProceed(o) == IF o \in PushOps THEN ~IsFull ELSE ~IsEmpty

\* A task that is about to signal Notify n.
Signalling(n) == \E t \in Tasks : pc[t] = "notify" /\ Signals(op[t]) = n

\* At most one task awaits push and at most one awaits pop.
SingleAwaiters ==
  \A s, t \in Tasks : \A o \in {"push", "pop"} : o \in Ops[s] /\ o \in Ops[t] => s = t

\* push and pop: no wake-up is lost.  A task asleep although its condition
\* holds has its notify_one still to come, from a task that is holding the
\* mutex right now; a task about to await has it to come or stored.
NoLostWakeup ==
  \A t \in Tasks :
    CanProceed(op[t]) =>
      /\ pc[t] = "sleep" => Signalling(Awaits(op[t]))
      /\ pc[t] = "await" => Signalling(Awaits(op[t])) \/ permit[Awaits(op[t])] = 1

\* push ("waits until there is capacity") and pop ("waits until there is at
\* least one event"): no caller sleeps forever on a condition that holds.
SleeperWakes ==
  \A t \in Tasks : []<>~(pc[t] = "sleep" /\ CanProceed(op[t]))

\* The events in the ring, oldest first: the refinement mapping.
Contents == [k \in 1 .. len |-> buf[SlotAt(k - 1)]]

Fifo == INSTANCE BoundedFifo WITH queue <- Contents

\* Seen from its callers, the queue is a bounded FIFO: events leave in the
\* order they entered, once each, and Full, Empty and Busy are reported only
\* by the try operations and only when they are true.
ImplementsFifo == Fifo!Spec

=============================================================================
