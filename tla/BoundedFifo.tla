---------------------------- MODULE BoundedFifo ----------------------------
(***************************************************************************)
(* What the event queue of the digital-twin engine promises its callers,   *)
(* without the ring buffer, the mutex or the wake-ups that realise it.     *)
(* A call is pending from Call until one step decides it:                  *)
(*   - the awaiting calls "push" and "pop" end only with "Ok": they wait   *)
(*     for room, or for an event, and never report Full, Empty or Busy;    *)
(*   - "try_push" and "try_pop" may be refused: Full only when the queue   *)
(*     really is full, Empty only when it really is empty, Busy whenever   *)
(*     another call is in the way.                                         *)
(* Events come out in the order they went in, each exactly once.           *)
(***************************************************************************)
EXTENDS Naturals, Sequences

CONSTANTS
  Capacity,   \* how many events the queue holds
  Events,     \* the events
  Tasks,      \* the tasks that call the queue
  Ops,        \* Ops[t]: the operations task t calls
  None        \* no event

VARIABLES
  queue,      \* the queued events, oldest first
  op,         \* op[t]: the operation of t's last call
  item,       \* item[t]: the event t pushes, or the event its pop returned
  ret         \* ret[t]: "pending" during a call, then its result

fifoVars == <<queue, op, item, ret>>

Init ==
  /\ queue = <<>>
  /\ op = [t \in Tasks |-> "none"]
  /\ item = [t \in Tasks |-> None]
  /\ ret = [t \in Tasks |-> "none"]

Call(t, o, e) ==
  /\ ret[t] # "pending"
  /\ op' = [op EXCEPT ![t] = o]
  /\ item' = [item EXCEPT ![t] = e]
  /\ ret' = [ret EXCEPT ![t] = "pending"]
  /\ UNCHANGED queue

Enqueue(t) ==
  /\ ret[t] = "pending" /\ op[t] \in {"push", "try_push"}
  /\ Len(queue) < Capacity
  /\ queue' = Append(queue, item[t])
  /\ ret' = [ret EXCEPT ![t] = "Ok"]
  /\ UNCHANGED <<op, item>>

Dequeue(t) ==
  /\ ret[t] = "pending" /\ op[t] \in {"pop", "try_pop"}
  /\ queue # <<>>
  /\ item' = [item EXCEPT ![t] = Head(queue)]
  /\ queue' = Tail(queue)
  /\ ret' = [ret EXCEPT ![t] = "Ok"]
  /\ UNCHANGED op

Refuse(t) ==
  /\ ret[t] = "pending"
  /\ \/ /\ op[t] = "try_push" /\ Len(queue) = Capacity
        /\ ret' = [ret EXCEPT ![t] = "Full"]
     \/ /\ op[t] = "try_pop" /\ queue = <<>>
        /\ ret' = [ret EXCEPT ![t] = "Empty"]
     \/ /\ op[t] \in {"try_push", "try_pop"}
        /\ ret' = [ret EXCEPT ![t] = "Busy"]
  /\ UNCHANGED <<queue, op, item>>

Next ==
  \E t \in Tasks :
    \/ \E o \in Ops[t], e \in Events \cup {None} : Call(t, o, e)
    \/ Enqueue(t)
    \/ Dequeue(t)
    \/ Refuse(t)

Spec == Init /\ [][Next]_fifoVars

=============================================================================
