-------------------------- MODULE EventQueueProofs --------------------------
(***************************************************************************)
(* What EventQueue guarantees for every capacity, every set of tasks and   *)
(* every set of operations the tasks call.                                 *)
(***************************************************************************)
EXTENDS EventQueue, SequenceTheorems, TLAPS

\* The wrap of a slot index, (i + 1) % capacity in RingState, without %.
LEMMA NextSlot ==
  ASSUME NEW i \in Slots
  PROVE  (i + 1) % Capacity = IF i + 1 = Capacity THEN 0 ELSE i + 1
  BY CapacityAssumption, Z3 DEF Slots

\* The slots reached from head are slots, and distinct offsets reach distinct ones.
LEMMA SlotAtInjective ==
  ASSUME head \in Slots, NEW i \in Slots, NEW j \in Slots
  PROVE  SlotAt(i) \in Slots /\ (SlotAt(i) = SlotAt(j) => i = j)
  BY CapacityAssumption DEF Slots, SlotAt

\* Initially the ring is empty, the mutex free, nobody waits and nobody calls.
LEMMA QueueInvInit == Init => QueueInv
<1> SUFFICES ASSUME Init PROVE QueueInv
  OBVIOUS
<1> USE CapacityAssumption, NoneAssumption, OpsAssumption
<1>1. TypeOK
  BY DEF Init, TypeOK, Slots, OpNames, PushOps, PopOps, Notifies
<1>2. WindowOccupied
  BY DEF Init, WindowOccupied, SlotAt, Slots
<1>3. MutexHeld /\ CallsRecorded
  BY DEF Init, MutexHeld, CallsRecorded
<1>4. WaitersAsleep
  BY DEF Init, WaitersAsleep, Notifies
<1> QED
  BY <1>1, <1>2, <1>3, <1>4 DEF QueueInv

\* RingState::push on a ring that is not full keeps its window.
LEMMA RingPushKeepsWindow ==
  ASSUME TypeOK, WindowOccupied, NEW e \in Events, ~IsFull, RingPush(e)
  PROVE  WindowOccupied' /\ head' \in Slots /\ tail' \in Slots
         /\ len' \in 0 .. Capacity /\ buf' \in [Slots -> Events \cup {None}]
<1> USE CapacityAssumption DEF Slots
<1>0. /\ head \in Slots /\ tail \in Slots /\ len \in 0 .. Capacity
      /\ buf \in [Slots -> Events \cup {None}]
  BY DEF TypeOK
<1>1. tail' = IF tail + 1 = Capacity THEN 0 ELSE tail + 1
  BY <1>0, NextSlot DEF RingPush
<1>2. head' = head /\ len' = len + 1 /\ len < Capacity
  BY <1>0 DEF RingPush, IsFull
<1>3. buf' = [buf EXCEPT ![tail] = e] /\ buf' \in [Slots -> Events \cup {None}]
  BY <1>0 DEF RingPush
<1>4. tail = SlotAt(len)
  BY <1>2 DEF WindowOccupied
<1>5. tail' = SlotAt(IF len = Capacity THEN 0 ELSE len)'
  BY <1>0, <1>1, <1>2, <1>4 DEF SlotAt
<1>6. ASSUME NEW k \in Slots PROVE buf'[SlotAt(k)'] # None <=> k < len'
  <2>1. SlotAt(k)' = SlotAt(k)
    BY <1>2 DEF SlotAt
  <2>2. SlotAt(k) \in Slots /\ (SlotAt(k) = tail => k = len)
    BY <1>0, <1>2, <1>4, SlotAtInjective
  <2>3. buf[SlotAt(k)] # None <=> k < len
    BY DEF WindowOccupied
  <2>4. k = len => SlotAt(k) = tail
    BY <1>4
  <2> QED
    BY <1>0, <1>2, <1>3, <2>1, <2>2, <2>3, <2>4, NoneAssumption
<1>7. WindowOccupied'
  BY <1>5, <1>6 DEF WindowOccupied
<1> QED
  BY <1>0, <1>1, <1>2, <1>3, <1>7

\* RingState::pop on a ring that is not empty keeps its window, and the slot it
\* takes holds an event.
LEMMA RingPopKeepsWindow ==
  ASSUME TypeOK, WindowOccupied, ~IsEmpty, RingPop
  PROVE  WindowOccupied' /\ head' \in Slots /\ tail' \in Slots
         /\ len' \in 0 .. Capacity /\ buf' \in [Slots -> Events \cup {None}]
         /\ buf[head] \in Events
<1> USE CapacityAssumption DEF Slots
<1>0. /\ head \in Slots /\ tail \in Slots /\ len \in 0 .. Capacity
      /\ buf \in [Slots -> Events \cup {None}]
  BY DEF TypeOK
<1>1. head' = IF head + 1 = Capacity THEN 0 ELSE head + 1
  BY <1>0, NextSlot DEF RingPop
<1>2. tail' = tail /\ len' = len - 1 /\ len > 0
  BY <1>0 DEF RingPop, IsEmpty
<1>3. buf' = [buf EXCEPT ![head] = None] /\ buf' \in [Slots -> Events \cup {None}]
  BY <1>0 DEF RingPop
<1>4. tail' = SlotAt(IF len = Capacity THEN 0 ELSE len)'
  <2>1. tail = SlotAt(IF len = Capacity THEN 0 ELSE len)
    BY DEF WindowOccupied
  <2> QED
    BY <1>0, <1>1, <1>2, <2>1 DEF SlotAt
<1>5. ASSUME NEW k \in Slots PROVE buf'[SlotAt(k)'] # None <=> k < len'
  <2>1. CASE k + 1 < Capacity
    <3>1. SlotAt(k)' = SlotAt(k + 1) /\ SlotAt(k + 1) \in Slots /\ SlotAt(k + 1) # head
      BY <1>0, <1>1, <2>1 DEF SlotAt
    <3>2. buf[SlotAt(k + 1)] # None <=> k + 1 < len
      BY <2>1 DEF WindowOccupied
    <3>3. buf'[SlotAt(k + 1)] = buf[SlotAt(k + 1)]
      BY <1>0, <1>3, <3>1
    <3> QED
      BY <1>0, <1>2, <3>1, <3>2, <3>3
  <2>2. CASE k + 1 = Capacity
    <3>1. SlotAt(k)' = head
      BY <1>0, <1>1, <2>2 DEF SlotAt
    <3> QED
      BY <1>0, <1>2, <1>3, <2>2, <3>1
  <2> QED
    BY <2>1, <2>2
<1>6. buf[head] \in Events
  <2>1. SlotAt(0) = head
    BY <1>0 DEF SlotAt
  <2>2. buf[SlotAt(0)] # None <=> 0 < len
    BY DEF WindowOccupied
  <2> QED
    BY <1>0, <1>2, <2>1, <2>2
<1>7. WindowOccupied'
  BY <1>4, <1>5 DEF WindowOccupied
<1> QED
  BY <1>0, <1>1, <1>2, <1>3, <1>6, <1>7

\* A step that leaves the ring alone keeps its window.
LEMMA RingUntouched ==
  ASSUME WindowOccupied, UNCHANGED ringVars
  PROVE  WindowOccupied'
  BY DEF WindowOccupied, SlotAt, ringVars, Slots

\* A step that puts no task to sleep and wakes none keeps the waiters' queues.
LEMMA SleepersUntouched ==
  ASSUME TypeOK, WaitersAsleep, waiters' = waiters, op' = op,
         \A s \in Tasks : pc'[s] = "sleep" <=> pc[s] = "sleep"
  PROVE  WaitersAsleep'
<1>1. \A n \in Notifies : \A i \in DOMAIN waiters[n] : waiters[n][i] \in Tasks
  BY DEF TypeOK
<1> QED
  BY <1>1 DEF WaitersAsleep

\* A call that starts takes neither the mutex nor a place among the waiters.
LEMMA CallKeepsInv ==
  ASSUME QueueInv, NEW t \in Tasks, NEW o \in Ops[t],
         NEW e \in Events \cup {None}, Call(t, o, e)
  PROVE  QueueInv'
<1> USE OpsAssumption, NoneAssumption DEF QueueInv, Call, ringVars, notifyVars
<1>0. o \in OpNames
  OBVIOUS
<1>1. TypeOK'
  BY <1>0 DEF TypeOK
<1>2. WindowOccupied'
  BY RingUntouched
<1>3. MutexHeld'
  BY DEF MutexHeld, TypeOK
<1>4. WaitersAsleep'
  BY DEF WaitersAsleep, TypeOK
<1>5. CallsRecorded'
  BY <1>0 DEF CallsRecorded, TypeOK, OpNames, PushOps, PopOps
<1> QED
  BY <1>1, <1>2, <1>3, <1>4, <1>5 DEF QueueInv

\* lock() and try_lock(): the mutex goes to one task, and only when it is free.
LEMMA LockKeepsInv ==
  ASSUME QueueInv, NEW t \in Tasks, Lock(t) \/ TryLock(t)
  PROVE  QueueInv'
<1> USE NoneAssumption DEF QueueInv, Lock, TryLock, ringVars, notifyVars, callVars
<1>1. TypeOK'
  BY DEF TypeOK
<1>2. WindowOccupied'
  BY RingUntouched
<1>3. MutexHeld'
  BY DEF MutexHeld, TypeOK
<1>4. WaitersAsleep'
  BY DEF WaitersAsleep, TypeOK
<1>5. CallsRecorded'
  BY DEF CallsRecorded, TypeOK
<1> QED
  BY <1>1, <1>2, <1>3, <1>4, <1>5 DEF QueueInv

\* The guarded part of push and try_push with room.
LEMMA PushLockedKeepsInv ==
  ASSUME QueueInv, NEW t \in Tasks, PushLocked(t)
  PROVE  QueueInv'
<1> USE DEF QueueInv, PushLocked, notifyVars
<1>0. item[t] \in Events
  BY DEF CallsRecorded
<1>1. /\ WindowOccupied' /\ head' \in Slots /\ tail' \in Slots
      /\ len' \in 0 .. Capacity /\ buf' \in [Slots -> Events \cup {None}]
  BY <1>0, RingPushKeepsWindow
<1>2. TypeOK'
  BY <1>1 DEF TypeOK
<1>3. MutexHeld'
  BY DEF MutexHeld, TypeOK
<1>4. WaitersAsleep'
  BY DEF WaitersAsleep, TypeOK
<1>5. CallsRecorded'
  BY DEF CallsRecorded, TypeOK
<1> QED
  BY <1>1, <1>2, <1>3, <1>4, <1>5 DEF QueueInv

\* The guarded part of pop and try_pop with an event.
LEMMA PopLockedKeepsInv ==
  ASSUME QueueInv, NEW t \in Tasks, PopLocked(t)
  PROVE  QueueInv'
<1> USE DEF QueueInv, PopLocked, notifyVars
<1>1. /\ WindowOccupied' /\ head' \in Slots /\ tail' \in Slots
      /\ len' \in 0 .. Capacity /\ buf' \in [Slots -> Events \cup {None}]
      /\ buf[head] \in Events
  BY RingPopKeepsWindow
<1>2. TypeOK'
  BY <1>1 DEF TypeOK
<1>3. MutexHeld'
  BY DEF MutexHeld, TypeOK
<1>4. WaitersAsleep'
  BY DEF WaitersAsleep, TypeOK
<1>5. CallsRecorded'
  BY <1>1 DEF CallsRecorded, TypeOK
<1> QED
  BY <1>1, <1>2, <1>3, <1>4, <1>5 DEF QueueInv

\* A full or empty ring: the mutex is released, nothing else changes.
LEMMA BlockedKeepsInv ==
  ASSUME QueueInv, NEW t \in Tasks, Blocked(t)
  PROVE  QueueInv'
<1> USE NoneAssumption DEF QueueInv, ringVars, notifyVars
<1>0. /\ pc[t] = "locked" /\ lock' = None
      /\ UNCHANGED <<ringVars, notifyVars, op, item>>
      /\ \/ pc' = [pc EXCEPT ![t] = "idle"] /\ ret' = [ret EXCEPT ![t] = "Full"]
         \/ pc' = [pc EXCEPT ![t] = "idle"] /\ ret' = [ret EXCEPT ![t] = "Empty"]
         \/ /\ pc' = [pc EXCEPT ![t] = "await"] /\ ret' = ret
            /\ op[t] # "try_push" /\ op[t] # "try_pop" /\ op[t] \in PushOps \cup PopOps
  <2>1. CASE op[t] = "try_push"
    BY <2>1 DEF Blocked
  <2>2. CASE op[t] = "try_pop"
    BY <2>2 DEF Blocked
  <2>3. CASE op[t] # "try_push" /\ op[t] # "try_pop"
    BY <2>3 DEF Blocked
  <2> QED
    BY <2>1, <2>2, <2>3
<1>1. TypeOK'
  BY <1>0 DEF TypeOK
<1>2. WindowOccupied'
  BY <1>0, RingUntouched
<1>3. MutexHeld'
  BY <1>0 DEF MutexHeld, TypeOK
<1>4. WaitersAsleep'
  <2>1. \A s \in Tasks : pc'[s] = "sleep" <=> pc[s] = "sleep"
    BY <1>0 DEF TypeOK
  <2> QED
    BY <1>0, <2>1, SleepersUntouched
<1>5. CallsRecorded'
  BY <1>0 DEF CallsRecorded, TypeOK, PushOps, PopOps
<1> QED
  BY <1>1, <1>2, <1>3, <1>4, <1>5 DEF QueueInv

\* Dropping the guard.
LEMMA UnlockKeepsInv ==
  ASSUME QueueInv, NEW t \in Tasks, Unlock(t)
  PROVE  QueueInv'
<1> USE NoneAssumption DEF QueueInv, Unlock, ringVars, notifyVars, callVars
<1>1. TypeOK'
  BY DEF TypeOK
<1>2. WindowOccupied'
  BY RingUntouched
<1>3. MutexHeld'
  BY DEF MutexHeld, TypeOK
<1>4. WaitersAsleep'
  BY DEF WaitersAsleep, TypeOK
<1>5. CallsRecorded'
  BY DEF CallsRecorded, TypeOK
<1> QED
  BY <1>1, <1>2, <1>3, <1>4, <1>5 DEF QueueInv

\* notify_one(): the first waiter, asleep until now, goes back to the mutex.
LEMMA NotifyKeepsInv ==
  ASSUME QueueInv, NEW t \in Tasks, Notify(t)
  PROVE  QueueInv'
<1> DEFINE n == Signals(op[t])
<1> USE DEF QueueInv, ringVars, callVars
<1>0. n \in Notifies /\ pc[t] = "notify" /\ UNCHANGED <<ringVars, lock, callVars>>
  BY DEF Notify, Signals, Notifies
<1>1. CASE waiters[n] = <<>>
  <2>1. /\ permit' = [permit EXCEPT ![n] = 1] /\ waiters' = waiters
        /\ pc' = [pc EXCEPT ![t] = "unlock"]
    BY <1>1 DEF Notify, NotifyOne
  <2>2. TypeOK'
    BY <1>0, <2>1 DEF TypeOK
  <2>3. WindowOccupied'
    BY <1>0, RingUntouched
  <2>4. MutexHeld'
    BY <1>0, <2>1 DEF MutexHeld, TypeOK
  <2>5. WaitersAsleep'
    BY <1>0, <2>1 DEF WaitersAsleep, TypeOK
  <2>6. CallsRecorded'
    BY <1>0, <2>1 DEF CallsRecorded, TypeOK
  <2> QED
    BY <2>2, <2>3, <2>4, <2>5, <2>6 DEF QueueInv
<1>2. CASE waiters[n] # <<>>
  <2> DEFINE w == Head(waiters[n])
  <2>1. /\ permit' = permit /\ waiters' = [waiters EXCEPT ![n] = Tail(@)]
        /\ pc' = [pc EXCEPT ![t] = "unlock", ![w] = "lock"]
    BY <1>2 DEF Notify, NotifyOne
  <2>2. waiters[n] \in Seq(Tasks) /\ w = waiters[n][1] /\ 1 \in DOMAIN waiters[n]
    BY <1>0, <1>2 DEF TypeOK
  <2>3. w \in Tasks /\ pc[w] = "sleep" /\ Awaits(op[w]) = n /\ w # t
    BY <1>0, <2>2 DEF WaitersAsleep, TypeOK
  <2>3a. /\ pc'[t] = "unlock" /\ pc'[w] = "lock"
        /\ \A s \in Tasks : s # t /\ s # w => pc'[s] = pc[s]
    BY <2>1, <2>3 DEF TypeOK
  <2>4. TypeOK'
    <3>1. waiters' \in [Notifies -> Seq(Tasks)]
      BY <1>0, <1>2, <2>1, <2>2 DEF TypeOK
    <3> QED
      BY <1>0, <2>1, <2>3, <3>1 DEF TypeOK
  <2>5. WindowOccupied'
    BY <1>0, RingUntouched
  <2>6. MutexHeld'
    BY <1>0, <2>1, <2>3 DEF MutexHeld, TypeOK
  <2>7. WaitersAsleep'
    <3> SUFFICES ASSUME NEW m \in Notifies
                 PROVE  /\ \A i \in DOMAIN waiters'[m] :
                             pc'[waiters'[m][i]] = "sleep" /\ Awaits(op[waiters'[m][i]]) = m
                        /\ \A i, j \in DOMAIN waiters'[m] : waiters'[m][i] = waiters'[m][j] => i = j
                        /\ \A s \in Tasks : pc'[s] = "sleep" /\ Awaits(op[s]) = m
                              => \E i \in DOMAIN waiters'[m] : waiters'[m][i] = s
      BY <1>0 DEF WaitersAsleep
    <3>1. CASE m # n
      <4>1. waiters'[m] = waiters[m] /\ waiters[m] \in Seq(Tasks)
        BY <2>1, <3>1 DEF TypeOK
      <4>2. \A i \in DOMAIN waiters[m] :
               waiters[m][i] \in Tasks /\ waiters[m][i] # t /\ waiters[m][i] # w
        BY <1>0, <2>3, <3>1, <4>1 DEF WaitersAsleep
      <4> QED
        BY <2>3a, <4>1, <4>2 DEF WaitersAsleep
    <3>2. CASE m = n
      <4>1. /\ waiters'[n] = Tail(waiters[n])
            /\ DOMAIN Tail(waiters[n]) = 1 .. Len(waiters[n]) - 1
            /\ DOMAIN waiters[n] = 1 .. Len(waiters[n])
            /\ \A i \in 1 .. Len(waiters[n]) - 1 : Tail(waiters[n])[i] = waiters[n][i + 1]
            /\ Len(waiters[n]) \in Nat \ {0}
        BY <1>0, <1>2, <2>1, <2>2 DEF TypeOK
      <4>2. \A i \in 1 .. Len(waiters[n]) - 1 :
               /\ waiters[n][i + 1] # w /\ pc[waiters[n][i + 1]] = "sleep"
               /\ waiters[n][i + 1] # t /\ Awaits(op[waiters[n][i + 1]]) = n
               /\ waiters[n][i + 1] \in Tasks
        BY <1>0, <2>2, <4>1 DEF WaitersAsleep
      <4>3. \A i \in DOMAIN waiters'[n] :
              pc'[waiters'[n][i]] = "sleep" /\ Awaits(op[waiters'[n][i]]) = n
        BY <2>3a, <4>1, <4>2
      <4>4. \A i, j \in DOMAIN waiters'[n] : waiters'[n][i] = waiters'[n][j] => i = j
        <5> SUFFICES ASSUME NEW i \in DOMAIN waiters'[n], NEW j \in DOMAIN waiters'[n],
                            waiters'[n][i] = waiters'[n][j]
                     PROVE  i = j
          OBVIOUS
        <5>1. i + 1 \in DOMAIN waiters[n] /\ j + 1 \in DOMAIN waiters[n]
              /\ waiters[n][i + 1] = waiters[n][j + 1] /\ i \in Nat /\ j \in Nat
          BY <4>1
        <5>2. i + 1 = j + 1
          BY <1>0, <5>1 DEF WaitersAsleep
        <5> QED
          BY <5>1, <5>2
      <4>5. ASSUME NEW s \in Tasks, pc'[s] = "sleep", Awaits(op[s]) = n
            PROVE  \E i \in DOMAIN waiters'[n] : waiters'[n][i] = s
        <5>1. pc[s] = "sleep" /\ s # w
          BY <2>1, <2>3, <4>5 DEF TypeOK
        <5>2. PICK i \in DOMAIN waiters[n] : waiters[n][i] = s
          BY <1>0, <4>5, <5>1 DEF WaitersAsleep
        <5>3. i - 1 \in DOMAIN waiters'[n] /\ waiters'[n][i - 1] = s
          BY <2>2, <4>1, <5>1, <5>2
        <5> QED
          BY <5>3
      <4> QED
        BY <3>2, <4>3, <4>4, <4>5
    <3> QED
      BY <3>1, <3>2
  <2>8. CallsRecorded'
    BY <1>0, <2>1, <2>3 DEF CallsRecorded, TypeOK
  <2> QED
    BY <2>4, <2>5, <2>6, <2>7, <2>8 DEF QueueInv
<1> QED
  BY <1>1, <1>2

\* notified().await: the task goes back to the mutex, or joins the waiters once.
LEMMA AwaitKeepsInv ==
  ASSUME QueueInv, NEW t \in Tasks, Await(t)
  PROVE  QueueInv'
<1> DEFINE n == Awaits(op[t])
<1> USE DEF QueueInv, ringVars, callVars
<1>0. n \in Notifies /\ pc[t] = "await" /\ UNCHANGED <<ringVars, lock, callVars>>
  BY DEF Await, Awaits, Notifies
<1>1. CASE permit[n] = 1
  <2>1. /\ permit' = [permit EXCEPT ![n] = 0] /\ waiters' = waiters
        /\ pc' = [pc EXCEPT ![t] = "lock"]
    BY <1>1 DEF Await
  <2>2. TypeOK'
    BY <1>0, <2>1 DEF TypeOK
  <2>3. WindowOccupied'
    BY <1>0, RingUntouched
  <2>4. MutexHeld'
    BY <1>0, <2>1 DEF MutexHeld, TypeOK
  <2>5. WaitersAsleep'
    <3>1. \A s \in Tasks : pc'[s] = "sleep" <=> pc[s] = "sleep"
      BY <1>0, <2>1 DEF TypeOK
    <3> QED
      BY <1>0, <2>1, <3>1, SleepersUntouched
  <2>6. CallsRecorded'
    BY <1>0, <2>1 DEF CallsRecorded, TypeOK
  <2> QED
    BY <2>2, <2>3, <2>4, <2>5, <2>6 DEF QueueInv
<1>2. CASE permit[n] # 1
  <2>1. /\ permit' = permit /\ waiters' = [waiters EXCEPT ![n] = Append(@, t)]
        /\ pc' = [pc EXCEPT ![t] = "sleep"]
    BY <1>2 DEF Await
  <2>2. /\ waiters[n] \in Seq(Tasks) /\ waiters'[n] = Append(waiters[n], t)
        /\ waiters' \in [Notifies -> Seq(Tasks)]
        /\ \A m \in Notifies : m # n => waiters'[m] = waiters[m]
    BY <1>0, <2>1 DEF TypeOK
  <2>3. TypeOK'
    BY <1>0, <2>1, <2>2 DEF TypeOK
  <2>4. WindowOccupied'
    BY <1>0, RingUntouched
  <2>5. MutexHeld'
    BY <1>0, <2>1 DEF MutexHeld, TypeOK
  <2>6. WaitersAsleep'
    <3>1. pc'[t] = "sleep" /\ \A s \in Tasks : s # t => pc'[s] = pc[s]
      BY <2>1 DEF TypeOK
    <3>2. \A m \in Notifies : \A i \in DOMAIN waiters[m] :
             waiters[m][i] \in Tasks /\ waiters[m][i] # t
      BY <1>0 DEF WaitersAsleep, TypeOK
    <3> SUFFICES ASSUME NEW m \in Notifies
                 PROVE  /\ \A i \in DOMAIN waiters'[m] :
                             pc'[waiters'[m][i]] = "sleep" /\ Awaits(op[waiters'[m][i]]) = m
                        /\ \A i, j \in DOMAIN waiters'[m] : waiters'[m][i] = waiters'[m][j] => i = j
                        /\ \A s \in Tasks : pc'[s] = "sleep" /\ Awaits(op[s]) = m
                              => \E i \in DOMAIN waiters'[m] : waiters'[m][i] = s
      BY <1>0 DEF WaitersAsleep
    <3>3. CASE m # n
      <4>1. waiters'[m] = waiters[m] /\ Awaits(op[t]) # m
        BY <2>2, <3>3
      <4> QED
        BY <3>1, <3>2, <4>1 DEF WaitersAsleep
    <3>4. CASE m = n
      <4>1. /\ DOMAIN waiters[n] = 1 .. Len(waiters[n]) /\ Len(waiters[n]) \in Nat
            /\ DOMAIN waiters'[n] = 1 .. Len(waiters[n]) + 1
            /\ \A i \in 1 .. Len(waiters[n]) : waiters'[n][i] = waiters[n][i]
            /\ waiters'[n][Len(waiters[n]) + 1] = t
        BY <2>2
      <4>2. \A i \in DOMAIN waiters'[n] :
              pc'[waiters'[n][i]] = "sleep" /\ Awaits(op[waiters'[n][i]]) = n
        <5> SUFFICES ASSUME NEW i \in DOMAIN waiters'[n]
                     PROVE  pc'[waiters'[n][i]] = "sleep" /\ Awaits(op[waiters'[n][i]]) = n
          OBVIOUS
        <5>1. CASE i = Len(waiters[n]) + 1
          BY <3>1, <4>1, <5>1
        <5>2. CASE i \in DOMAIN waiters[n]
          BY <1>0, <3>1, <3>2, <4>1, <5>2 DEF WaitersAsleep
        <5> QED
          BY <4>1, <5>1, <5>2
      <4>3. \A i, j \in DOMAIN waiters'[n] : waiters'[n][i] = waiters'[n][j] => i = j
        <5> SUFFICES ASSUME NEW i \in DOMAIN waiters'[n], NEW j \in DOMAIN waiters'[n],
                            waiters'[n][i] = waiters'[n][j]
                     PROVE  i = j
          OBVIOUS
        <5>1. CASE i \in DOMAIN waiters[n] /\ j \in DOMAIN waiters[n]
          BY <1>0, <4>1, <5>1 DEF WaitersAsleep
        <5>2. CASE i = Len(waiters[n]) + 1 \/ j = Len(waiters[n]) + 1
          BY <1>0, <3>2, <4>1, <5>2
        <5> QED
          BY <4>1, <5>1, <5>2
      <4>4. ASSUME NEW s \in Tasks, pc'[s] = "sleep", Awaits(op[s]) = n
            PROVE  \E i \in DOMAIN waiters'[n] : waiters'[n][i] = s
        <5>1. CASE s = t
          BY <4>1, <5>1
        <5>2. CASE s # t
          <6>1. PICK i \in DOMAIN waiters[n] : waiters[n][i] = s
            BY <1>0, <3>1, <4>4, <5>2 DEF WaitersAsleep
          <6> QED
            BY <4>1, <6>1
        <5> QED
          BY <5>1, <5>2
      <4> QED
        BY <3>4, <4>2, <4>3, <4>4
    <3> QED
      BY <3>3, <3>4
  <2>7. CallsRecorded'
    BY <1>0, <2>1 DEF CallsRecorded, TypeOK
  <2> QED
    BY <2>3, <2>4, <2>5, <2>6, <2>7 DEF QueueInv
<1> QED
  BY <1>1, <1>2

\* Every step of the specification keeps the inductive invariant.
LEMMA QueueInvStep == QueueInv /\ [Next]_vars => QueueInv'
<1> SUFFICES ASSUME QueueInv, [Next]_vars PROVE QueueInv'
  OBVIOUS
<1>1. CASE UNCHANGED vars
  <2>1. TypeOK'
    BY <1>1 DEF QueueInv, TypeOK, vars
  <2>2. WindowOccupied'
    BY <1>1, RingUntouched DEF QueueInv, vars, ringVars
  <2>3. MutexHeld' /\ CallsRecorded'
    BY <1>1 DEF QueueInv, MutexHeld, CallsRecorded, vars
  <2>4. WaitersAsleep'
    BY <1>1, SleepersUntouched DEF QueueInv, vars
  <2> QED
    BY <2>1, <2>2, <2>3, <2>4 DEF QueueInv
<1>2. ASSUME NEW t \in Tasks, NEW o \in Ops[t], NEW e \in Events \cup {None}, Call(t, o, e)
      PROVE  QueueInv'
  BY <1>2, CallKeepsInv
<1>3. ASSUME NEW t \in Tasks, Step(t)
      PROVE  QueueInv'
  BY <1>3, LockKeepsInv, PushLockedKeepsInv, PopLockedKeepsInv, BlockedKeepsInv,
     NotifyKeepsInv, UnlockKeepsInv, AwaitKeepsInv DEF Step
<1> QED
  BY <1>1, <1>2, <1>3 DEF Next

\* In every behaviour of EventQueue, whatever the capacity and however the
\* tasks interleave, ring, mutex, waiters and callers' records agree.
THEOREM QueueInvAlways == Spec => []QueueInv
  BY QueueInvInit, QueueInvStep, PTL DEF Spec

\* Every variable keeps its type: head, tail and len stay within the ring.
THEOREM TypeCorrect == Spec => []TypeOK
<1>1. QueueInv => TypeOK
  BY DEF QueueInv
<1> QED
  BY <1>1, QueueInvAlways, PTL

\* RingState::pop never finds the slot at head empty, so its expect() never
\* panics, and RingState::push never overwrites an event.
THEOREM RingWindowSafe == Spec => []WindowOccupied
<1>1. QueueInv => WindowOccupied
  BY DEF QueueInv
<1> QED
  BY <1>1, QueueInvAlways, PTL

-----------------------------------------------------------------------------
(* Wake-ups. *)

\* With single awaiters, a task that awaits or sleeps on a Notify is the only one.
LEMMA OnlyAwaiter ==
  ASSUME QueueInv, SingleAwaiters, NEW s \in Tasks, NEW t \in Tasks,
         pc[s] \in {"await", "sleep"}, pc[t] \in {"await", "sleep"},
         Awaits(op[s]) = Awaits(op[t])
  PROVE  s = t
<1>1. op[s] \in {"push", "pop"} /\ op[t] \in {"push", "pop"}
      /\ op[s] \in Ops[s] /\ op[t] \in Ops[t]
  BY DEF QueueInv, CallsRecorded
<1>2. op[s] = op[t]
  BY <1>1 DEF Awaits, PushOps
<1> QED
  BY <1>1, <1>2 DEF SingleAwaiters

\* A step that takes no task out of "notify", lets none into "await" or "sleep",
\* makes no condition true and keeps the stored wake-ups loses none.
LEMMA WakeupsUntouched ==
  ASSUME QueueInv, NoLostWakeup, NEW u \in Tasks, NEW c, pc' = [pc EXCEPT ![u] = c],
         pc[u] # "notify", c \notin {"await", "sleep"},
         \A s \in Tasks : s # u => op'[s] = op[s],
         len' = len, permit' = permit
  PROVE  NoLostWakeup'
<1>1. \A s \in Tasks : s # u => pc'[s] = pc[s] /\ op'[s] = op[s]
  BY DEF QueueInv, TypeOK
<1>2. pc'[u] = c
  BY DEF QueueInv, TypeOK
<1> SUFFICES ASSUME NEW t \in Tasks, CanProceed(op[t])', pc'[t] \in {"await", "sleep"}
             PROVE  /\ pc'[t] = "sleep" => Signalling(Awaits(op[t]))'
                    /\ pc'[t] = "await" => Signalling(Awaits(op[t]))' \/ permit'[Awaits(op'[t])] = 1
  BY DEF NoLostWakeup
<1>3. t # u /\ pc'[t] = pc[t] /\ op'[t] = op[t]
  BY <1>1, <1>2
<1>4. CanProceed(op[t])
  BY <1>3 DEF CanProceed, IsFull, IsEmpty
<1>5. Signalling(Awaits(op[t])) => Signalling(Awaits(op[t]))'
  BY <1>1, <1>3 DEF Signalling
<1> QED
  BY <1>3, <1>4, <1>5 DEF NoLostWakeup

\* Changing the ring is announced: the task that did it stands at "notify".
LEMMA RingStepLosesNoWakeup ==
  ASSUME QueueInv, NoLostWakeup, NEW u \in Tasks, PushLocked(u) \/ PopLocked(u)
  PROVE  NoLostWakeup'
<1>1. /\ pc[u] = "locked" /\ pc' = [pc EXCEPT ![u] = "notify"] /\ op' = op
      /\ permit' = permit
  BY DEF PushLocked, PopLocked, notifyVars
<1>2. pc'[u] = "notify" /\ \A s \in Tasks : s # u => pc'[s] = pc[s]
  BY <1>1 DEF QueueInv, TypeOK
<1> SUFFICES ASSUME NEW t \in Tasks, CanProceed(op[t])', pc'[t] \in {"await", "sleep"}
             PROVE  /\ pc'[t] = "sleep" => Signalling(Awaits(op[t]))'
                    /\ pc'[t] = "await" => Signalling(Awaits(op[t]))' \/ permit'[Awaits(op'[t])] = 1
  BY DEF NoLostWakeup
<1>3. t # u /\ pc'[t] = pc[t] /\ op[t] \in {"push", "pop"}
  BY <1>2 DEF QueueInv, CallsRecorded
<1>4. CASE Signals(op[u]) = Awaits(op[t])
  BY <1>1, <1>2, <1>4 DEF Signalling
<1>5. CASE Signals(op[u]) # Awaits(op[t])
  <2>1. CanProceed(op[t])
    <3>1. CASE PushLocked(u)
      <4>1. op[t] \in PushOps /\ ~IsFull
        BY <1>3, <1>5, <3>1 DEF PushLocked, Signals, Awaits, PushOps
      <4> QED
        BY <4>1 DEF CanProceed
    <3>2. CASE PopLocked(u)
      <4>1. op[t] \notin PushOps /\ ~IsEmpty
        BY <1>3, <1>5, <3>2 DEF PopLocked, Signals, Awaits, PushOps, PopOps
      <4> QED
        BY <4>1 DEF CanProceed
    <3> QED
      BY <3>1, <3>2
  <2>2. Signalling(Awaits(op[t])) => Signalling(Awaits(op[t]))'
    BY <1>1, <1>2 DEF Signalling
  <2> QED
    BY <1>1, <1>3, <2>1, <2>2 DEF NoLostWakeup
<1> QED
  BY <1>4, <1>5

\* notify_one() reaches the single task that awaits it: it is the first waiter,
\* or it finds the stored wake-up.
LEMMA NotifyLosesNoWakeup ==
  ASSUME QueueInv, SingleAwaiters, NoLostWakeup, NEW u \in Tasks, Notify(u)
  PROVE  NoLostWakeup'
<1> DEFINE n == Signals(op[u])
<1>1. /\ pc[u] = "notify" /\ n \in Notifies
      /\ op' = op /\ len' = len
  BY DEF Notify, Signals, Notifies, ringVars, callVars
<1> SUFFICES ASSUME NEW t \in Tasks, CanProceed(op[t])', pc'[t] \in {"await", "sleep"}
             PROVE  /\ pc'[t] = "sleep" => Signalling(Awaits(op[t]))'
                    /\ pc'[t] = "await" => Signalling(Awaits(op[t]))' \/ permit'[Awaits(op'[t])] = 1
  BY DEF NoLostWakeup
<1>2. CanProceed(op[t])
  BY <1>1 DEF CanProceed, IsFull, IsEmpty
<1>3. CASE waiters[n] = <<>>
  <2>1. permit' = [permit EXCEPT ![n] = 1] /\ pc' = [pc EXCEPT ![u] = "unlock"]
    BY <1>3 DEF Notify, NotifyOne
  <2>2. permit'[n] = 1 /\ \A m \in Notifies : m # n => permit'[m] = permit[m]
    BY <1>1, <2>1 DEF QueueInv, TypeOK
  <2>3. t # u /\ pc'[t] = pc[t] /\ \A s \in Tasks : s # u => pc'[s] = pc[s]
    BY <2>1 DEF QueueInv, TypeOK
  <2>4. CASE Awaits(op[t]) = n
    <3>1. pc[t] # "sleep"
      BY <1>1, <1>3, <2>4 DEF QueueInv, WaitersAsleep
    <3> QED
      BY <1>1, <2>2, <2>3, <2>4, <3>1
  <2>5. CASE Awaits(op[t]) # n
    <3>1. Signalling(Awaits(op[t])) => Signalling(Awaits(op[t]))'
      BY <1>1, <2>3, <2>5 DEF Signalling
    <3>2. Awaits(op[t]) \in Notifies
      BY DEF Awaits, Notifies
    <3> QED
      BY <1>1, <1>2, <2>2, <2>3, <2>5, <3>1, <3>2 DEF NoLostWakeup
  <2> QED
    BY <2>4, <2>5
<1>4. CASE waiters[n] # <<>>
  <2> DEFINE w == Head(waiters[n])
  <2>1. permit' = permit /\ pc' = [pc EXCEPT ![u] = "unlock", ![w] = "lock"]
    BY <1>4 DEF Notify, NotifyOne
  <2>2. waiters[n] \in Seq(Tasks) /\ w = waiters[n][1] /\ 1 \in DOMAIN waiters[n]
    BY <1>1, <1>4 DEF QueueInv, TypeOK
  <2>3. w \in Tasks /\ pc[w] = "sleep" /\ Awaits(op[w]) = n /\ w # u
    BY <1>1, <2>2 DEF QueueInv, WaitersAsleep
  <2>4. /\ pc'[w] = "lock" /\ pc'[u] = "unlock"
        /\ \A s \in Tasks : s # u /\ s # w => pc'[s] = pc[s]
    BY <2>1, <2>3 DEF QueueInv, TypeOK
  <2>5. t # u /\ t # w /\ pc'[t] = pc[t]
    BY <2>4
  <2>6. Awaits(op[t]) # n
    BY <2>3, <2>5, OnlyAwaiter
  <2>7. Signalling(Awaits(op[t])) => Signalling(Awaits(op[t]))'
    BY <1>1, <2>3, <2>4, <2>6 DEF Signalling
  <2> QED
    BY <1>1, <1>2, <2>1, <2>5, <2>7 DEF NoLostWakeup
<1> QED
  BY <1>3, <1>4

\* notified().await consumes a stored wake-up only for the task it was meant for.
LEMMA AwaitLosesNoWakeup ==
  ASSUME QueueInv, SingleAwaiters, NoLostWakeup, NEW u \in Tasks, Await(u)
  PROVE  NoLostWakeup'
<1> DEFINE n == Awaits(op[u])
<1>1. /\ pc[u] = "await" /\ n \in Notifies
      /\ op' = op /\ len' = len
  BY DEF Await, Awaits, Notifies, ringVars, callVars
<1> SUFFICES ASSUME NEW t \in Tasks, CanProceed(op[t])', pc'[t] \in {"await", "sleep"}
             PROVE  /\ pc'[t] = "sleep" => Signalling(Awaits(op[t]))'
                    /\ pc'[t] = "await" => Signalling(Awaits(op[t]))' \/ permit'[Awaits(op'[t])] = 1
  BY DEF NoLostWakeup
<1>2. CanProceed(op[t]) /\ Awaits(op[t]) \in Notifies
  BY <1>1 DEF CanProceed, IsFull, IsEmpty, Awaits, Notifies
<1>3. \A s \in Tasks : s # u => pc'[s] = pc[s]
  BY DEF Await, QueueInv, TypeOK
<1>4. Signalling(Awaits(op[t])) => Signalling(Awaits(op[t]))'
  BY <1>1, <1>3 DEF Signalling
<1>5. CASE t = u
  <2>1. permit[n] # 1 /\ pc'[t] = "sleep"
    BY <1>1, <1>5 DEF Await, QueueInv, TypeOK
  <2> QED
    BY <1>1, <1>2, <1>4, <1>5, <2>1 DEF NoLostWakeup
<1>6. CASE t # u
  <2>1. Awaits(op[t]) # n /\ pc'[t] = pc[t]
    BY <1>1, <1>3, <1>6, OnlyAwaiter
  <2>2. permit'[Awaits(op[t])] = permit[Awaits(op[t])]
    BY <1>2, <2>1 DEF Await, QueueInv, TypeOK
  <2> QED
    BY <1>1, <1>2, <1>4, <2>1, <2>2 DEF NoLostWakeup
<1> QED
  BY <1>5, <1>6

\* A task that goes to await a notification has just seen its condition false.
LEMMA BlockedLosesNoWakeup ==
  ASSUME QueueInv, NoLostWakeup, NEW u \in Tasks, Blocked(u)
  PROVE  NoLostWakeup'
<1>1. /\ pc[u] = "locked" /\ op' = op /\ len' = len /\ permit' = permit
      /\ \/ op[u] \in PushOps /\ IsFull
         \/ op[u] \in PopOps /\ IsEmpty
  BY DEF Blocked, ringVars, notifyVars
<1>2. \A s \in Tasks : s # u => pc'[s] = pc[s]
  <2>1. CASE op[u] = "try_push"
    BY <2>1 DEF Blocked, QueueInv, TypeOK
  <2>2. CASE op[u] = "try_pop"
    BY <2>2 DEF Blocked, QueueInv, TypeOK
  <2>3. CASE op[u] # "try_push" /\ op[u] # "try_pop"
    BY <2>3 DEF Blocked, QueueInv, TypeOK
  <2> QED
    BY <2>1, <2>2, <2>3
<1>3. ~CanProceed(op[u])
  BY <1>1 DEF CanProceed, PushOps, PopOps
<1> SUFFICES ASSUME NEW t \in Tasks, CanProceed(op[t])', pc'[t] \in {"await", "sleep"}
             PROVE  /\ pc'[t] = "sleep" => Signalling(Awaits(op[t]))'
                    /\ pc'[t] = "await" => Signalling(Awaits(op[t]))' \/ permit'[Awaits(op'[t])] = 1
  BY DEF NoLostWakeup
<1>4. CanProceed(op[t])
  BY <1>1 DEF CanProceed, IsFull, IsEmpty
<1>5. Signalling(Awaits(op[t])) => Signalling(Awaits(op[t]))'
  BY <1>1, <1>2 DEF Signalling
<1> QED
  BY <1>1, <1>2, <1>3, <1>4, <1>5 DEF NoLostWakeup

\* No step loses a wake-up when awaiters are single.
LEMMA NoLostWakeupStep ==
  SingleAwaiters /\ QueueInv /\ NoLostWakeup /\ [Next]_vars => NoLostWakeup'
<1> SUFFICES ASSUME SingleAwaiters, QueueInv, NoLostWakeup, [Next]_vars
             PROVE  NoLostWakeup'
  OBVIOUS
<1>1. CASE UNCHANGED vars
  BY <1>1 DEF NoLostWakeup, Signalling, CanProceed, IsFull, IsEmpty, vars
<1>2. ASSUME NEW u \in Tasks, NEW o \in Ops[u], NEW e \in Events \cup {None}, Call(u, o, e)
      PROVE  NoLostWakeup'
  <2>1. \A s \in Tasks : s # u => op'[s] = op[s]
    BY <1>2 DEF Call, QueueInv, TypeOK
  <2>2. (IF o \in {"push", "pop"} THEN "lock" ELSE "trylock") \notin {"await", "sleep"}
    OBVIOUS
  <2> QED
    BY <1>2, <2>1, <2>2, WakeupsUntouched DEF Call, ringVars, notifyVars
<1>3. ASSUME NEW u \in Tasks, Lock(u)
      PROVE  NoLostWakeup'
  <2>1. "locked" \notin {"await", "sleep"}
    OBVIOUS
  <2> QED
    BY <1>3, <2>1, WakeupsUntouched DEF Lock, ringVars, notifyVars, callVars
<1>4. ASSUME NEW u \in Tasks, TryLock(u)
      PROVE  NoLostWakeup'
  <2>1. CASE lock = None
    BY <1>4, <2>1, WakeupsUntouched DEF TryLock, ringVars, notifyVars
  <2>2. CASE lock # None
    BY <1>4, <2>2, WakeupsUntouched DEF TryLock, ringVars, notifyVars
  <2> QED
    BY <2>1, <2>2
<1>5. ASSUME NEW u \in Tasks, Unlock(u)
      PROVE  NoLostWakeup'
  <2>1. "idle" \notin {"await", "sleep"}
    OBVIOUS
  <2> QED
    BY <1>5, <2>1, WakeupsUntouched DEF Unlock, ringVars, notifyVars, callVars
<1>6. ASSUME NEW u \in Tasks, Step(u)
      PROVE  NoLostWakeup'
  BY <1>3, <1>4, <1>5, <1>6, RingStepLosesNoWakeup, BlockedLosesNoWakeup,
     NotifyLosesNoWakeup, AwaitLosesNoWakeup DEF Step
<1> QED
  BY <1>1, <1>2, <1>6 DEF Next

\* push and pop: when at most one task awaits each, no interleaving with any
\* number of try_push and try_pop callers, at any capacity, loses a wake-up.
THEOREM WakeupsSafe ==
  ASSUME SingleAwaiters
  PROVE  Spec => []NoLostWakeup
<1>1. Init => NoLostWakeup
  BY DEF Init, NoLostWakeup
<1>2. QueueInv /\ NoLostWakeup /\ [Next]_vars => NoLostWakeup'
  BY NoLostWakeupStep
<1> QED
  BY <1>1, <1>2, QueueInvAlways, PTL DEF Spec

-----------------------------------------------------------------------------
(* The ring implements the bounded FIFO. *)

\* The contents of the ring are a sequence of len events.
LEMMA ContentsSeq ==
  ASSUME QueueInv
  PROVE  /\ Contents \in Seq(Events) /\ Len(Contents) = len
         /\ \A k \in 1 .. len : Contents[k] = buf[SlotAt(k - 1)]
<1>1. len \in 0 .. Capacity /\ head \in Slots /\ buf \in [Slots -> Events \cup {None}]
  BY DEF QueueInv, TypeOK
<1>2. \A k \in 1 .. len : buf[SlotAt(k - 1)] \in Events
  <2> SUFFICES ASSUME NEW k \in 1 .. len PROVE buf[SlotAt(k - 1)] \in Events
    OBVIOUS
  <2>1. k - 1 \in Slots /\ k - 1 < len
    BY <1>1, CapacityAssumption DEF Slots
  <2>2. SlotAt(k - 1) \in Slots /\ buf[SlotAt(k - 1)] # None
    BY <1>1, <2>1, SlotAtInjective DEF QueueInv, WindowOccupied
  <2> QED
    BY <1>1, <2>2
<1> QED
  BY <1>1, <1>2, CapacityAssumption DEF Contents

\* RingState::push appends to the contents.
LEMMA PushAppends ==
  ASSUME QueueInv, QueueInv', NEW e \in Events, ~IsFull, RingPush(e)
  PROVE  Contents' = Append(Contents, e)
<1>1. /\ head \in Slots /\ tail \in Slots /\ len \in 0 .. Capacity /\ len < Capacity
      /\ buf \in [Slots -> Events \cup {None}]
  BY CapacityAssumption DEF QueueInv, TypeOK, IsFull
<1>2. head' = head /\ len' = len + 1 /\ buf' = [buf EXCEPT ![tail] = e] /\ tail = SlotAt(len)
  BY <1>1 DEF RingPush, QueueInv, WindowOccupied
<1>3. /\ Contents \in Seq(Events) /\ Len(Contents) = len
      /\ \A k \in 1 .. len : Contents[k] = buf[SlotAt(k - 1)]
  BY ContentsSeq
<1>4. ASSUME NEW k \in 1 .. len + 1
      PROVE  buf'[SlotAt(k - 1)'] = Append(Contents, e)[k]
  <2>1. k - 1 \in Slots /\ len \in Slots /\ SlotAt(k - 1)' = SlotAt(k - 1)
    BY <1>1, <1>2, CapacityAssumption DEF Slots, SlotAt
  <2>2. SlotAt(k - 1) \in Slots /\ (SlotAt(k - 1) = tail => k - 1 = len)
    BY <1>1, <1>2, <2>1, SlotAtInjective
  <2>3. CASE k = len + 1
    BY <1>1, <1>2, <1>3, <2>1, <2>2, <2>3
  <2>4. CASE k \in 1 .. len
    BY <1>1, <1>2, <1>3, <2>1, <2>2, <2>4
  <2>5. k = len + 1 \/ k \in 1 .. len
    BY <1>1
  <2> QED
    BY <2>3, <2>4, <2>5
<1>5. Contents' = [k \in 1 .. len + 1 |-> buf'[SlotAt(k - 1)']]
  BY <1>2 DEF Contents
<1>6. Append(Contents, e) = [k \in 1 .. len + 1 |-> Append(Contents, e)[k]]
  <2>1. Append(Contents, e) \in Seq(Events) /\ Len(Append(Contents, e)) = len + 1
    BY <1>3, AppendProperties
  <2> QED
    BY <2>1, LenProperties
<1> QED
  BY <1>4, <1>5, <1>6

\* RingState::pop returns the oldest event and removes it from the contents.
LEMMA PopTakesHead ==
  ASSUME QueueInv, ~IsEmpty, RingPop
  PROVE  /\ Contents # <<>> /\ buf[head] = Head(Contents)
         /\ Contents' = Tail(Contents)
<1>1. /\ head \in Slots /\ len \in 0 .. Capacity /\ len > 0
      /\ buf \in [Slots -> Events \cup {None}]
  BY CapacityAssumption DEF QueueInv, TypeOK, IsEmpty
<1>2. /\ head' = IF head + 1 = Capacity THEN 0 ELSE head + 1
      /\ len' = len - 1 /\ buf' = [buf EXCEPT ![head] = None]
  BY <1>1, NextSlot DEF RingPop
<1>3. /\ Contents \in Seq(Events) /\ Len(Contents) = len
      /\ \A k \in 1 .. len : Contents[k] = buf[SlotAt(k - 1)]
  BY ContentsSeq
<1>4. SlotAt(0) = head
  BY <1>1, CapacityAssumption DEF SlotAt, Slots
<1>5. ASSUME NEW k \in 1 .. len - 1
      PROVE  buf'[SlotAt(k - 1)'] = Contents[k + 1]
  <2>1. SlotAt(k - 1)' = SlotAt(k) /\ k \in Slots /\ 0 \in Slots
    BY <1>1, <1>2, CapacityAssumption DEF SlotAt, Slots
  <2>2. SlotAt(k) \in Slots /\ SlotAt(k) # head
    BY <1>1, <1>4, <2>1, SlotAtInjective
  <2>3. Contents[k + 1] = buf[SlotAt(k)]
    BY <1>1, <1>3
  <2> QED
    BY <1>1, <1>2, <2>1, <2>2, <2>3
<1>6. Contents' = [k \in 1 .. len - 1 |-> buf'[SlotAt(k - 1)']]
  BY <1>2 DEF Contents
<1>7. Contents' = [k \in 1 .. len - 1 |-> Contents[k + 1]]
  BY <1>5, <1>6
<1>8. Tail(Contents) = [k \in 1 .. len - 1 |-> Contents[k + 1]]
  <2>1. /\ Tail(Contents) \in Seq(Events) /\ Len(Tail(Contents)) = len - 1
        /\ \A k \in 1 .. len - 1 : Tail(Contents)[k] = Contents[k + 1]
    BY <1>1, <1>3, HeadTailProperties
  <2>2. Tail(Contents) = [k \in 1 .. len - 1 |-> Tail(Contents)[k]]
    BY <2>1, LenProperties
  <2> QED
    BY <2>1, <2>2
<1> QED
  BY <1>1, <1>3, <1>4, <1>7, <1>8

\* A step that leaves the ring alone leaves its contents alone.
LEMMA ContentsUntouched ==
  ASSUME UNCHANGED ringVars
  PROVE  Contents' = Contents
  BY DEF ringVars, Contents, SlotAt

\* The initial ring is the empty queue.
LEMMA FifoInit == Init => Fifo!Init
<1> SUFFICES ASSUME Init PROVE Contents = <<>>
  BY DEF Init, Fifo!Init
<1>1. Contents = [k \in 1 .. 0 |-> buf[SlotAt(k - 1)]]
  BY DEF Init, Contents
<1> QED
  BY <1>1

\* Every step of the ring is a step of the bounded FIFO or leaves it unchanged:
\* a call is decided by the step that changes the ring or finds it full, empty
\* or locked, and by no other.
LEMMA FifoStep ==
  QueueInv /\ QueueInv' /\ [Next]_vars => [Fifo!Next]_(Fifo!fifoVars)
<1> SUFFICES ASSUME QueueInv, QueueInv', [Next]_vars
             PROVE  [Fifo!Next]_(Fifo!fifoVars)
  OBVIOUS
<1>1. CASE UNCHANGED vars
  BY <1>1, ContentsUntouched DEF vars, ringVars, Fifo!fifoVars
<1>2. ASSUME NEW t \in Tasks, NEW o \in Ops[t], NEW e \in Events \cup {None}, Call(t, o, e)
      PROVE  Fifo!Next
  <2>1. ret[t] # "pending"
    BY <1>2 DEF Call, QueueInv, CallsRecorded
  <2>2. Fifo!Call(t, o, e)
    BY <1>2, <2>1, ContentsUntouched DEF Call, ringVars, Fifo!Call
  <2> QED
    BY <2>2 DEF Fifo!Next
<1>3. ASSUME NEW t \in Tasks, Lock(t) \/ Notify(t) \/ Unlock(t) \/ Await(t)
      PROVE  UNCHANGED Fifo!fifoVars
  <2>1. UNCHANGED ringVars /\ UNCHANGED callVars
    BY <1>3 DEF Lock, Notify, Unlock, Await
  <2> QED
    BY <2>1, ContentsUntouched DEF callVars, Fifo!fifoVars
<1>4. ASSUME NEW t \in Tasks, PushLocked(t)
      PROVE  Fifo!Next
  <2>1. item[t] \in Events /\ ret[t] = "pending" /\ op[t] \in PushOps
    BY <1>4 DEF PushLocked, QueueInv, CallsRecorded
  <2>2. Contents' = Append(Contents, item[t])
    BY <1>4, <2>1, PushAppends DEF PushLocked
  <2>3. Len(Contents) < Capacity
    BY <1>4, ContentsSeq, CapacityAssumption DEF PushLocked, IsFull, QueueInv, TypeOK
  <2>4. Fifo!Enqueue(t)
    BY <1>4, <2>1, <2>2, <2>3 DEF PushLocked, PushOps, Fifo!Enqueue
  <2> QED
    BY <2>4 DEF Fifo!Next
<1>5. ASSUME NEW t \in Tasks, PopLocked(t)
      PROVE  Fifo!Next
  <2>1. ret[t] = "pending" /\ op[t] \in PopOps
    BY <1>5 DEF PopLocked, QueueInv, CallsRecorded
  <2>2. Contents # <<>> /\ buf[head] = Head(Contents) /\ Contents' = Tail(Contents)
    BY <1>5, PopTakesHead DEF PopLocked
  <2>3. Fifo!Dequeue(t)
    BY <1>5, <2>1, <2>2 DEF PopLocked, PopOps, Fifo!Dequeue
  <2> QED
    BY <2>3 DEF Fifo!Next
<1>6. ASSUME NEW t \in Tasks, TryLock(t)
      PROVE  [Fifo!Next]_(Fifo!fifoVars)
  <2>1. Contents' = Contents
    BY <1>6, ContentsUntouched DEF TryLock
  <2>2. CASE lock = None
    BY <1>6, <2>1, <2>2 DEF TryLock, Fifo!fifoVars
  <2>3. CASE lock # None
    <3>1. ret[t] = "pending" /\ op[t] \in {"try_push", "try_pop"}
      BY <1>6 DEF TryLock, QueueInv, CallsRecorded
    <3>2. Fifo!Refuse(t)
      BY <1>6, <2>1, <2>3, <3>1 DEF TryLock, Fifo!Refuse
    <3> QED
      BY <3>2 DEF Fifo!Next
  <2> QED
    BY <2>2, <2>3
<1>7. ASSUME NEW t \in Tasks, Blocked(t)
      PROVE  [Fifo!Next]_(Fifo!fifoVars)
  <2>1. Contents' = Contents /\ op' = op /\ item' = item
    BY <1>7, ContentsUntouched DEF Blocked
  <2>2. ret[t] = "pending"
    BY <1>7 DEF Blocked, QueueInv, CallsRecorded
  <2>3. CASE op[t] = "try_push"
    <3>1. Len(Contents) = Capacity /\ ret' = [ret EXCEPT ![t] = "Full"]
      BY <1>7, <2>3, ContentsSeq DEF Blocked, IsFull, PushOps, PopOps
    <3>2. Fifo!Refuse(t)
      BY <2>1, <2>2, <2>3, <3>1 DEF Fifo!Refuse
    <3> QED
      BY <3>2 DEF Fifo!Next
  <2>4. CASE op[t] = "try_pop"
    <3>1. len = 0 /\ ret' = [ret EXCEPT ![t] = "Empty"]
      BY <1>7, <2>4 DEF Blocked, IsEmpty, PushOps, PopOps
    <3>2. Contents = <<>>
      BY <3>1, ContentsSeq, EmptySeq
    <3>3. Fifo!Refuse(t)
      BY <2>1, <2>2, <2>4, <3>1, <3>2 DEF Fifo!Refuse
    <3> QED
      BY <3>3 DEF Fifo!Next
  <2>5. CASE op[t] # "try_push" /\ op[t] # "try_pop"
    BY <1>7, <2>1, <2>5 DEF Blocked, Fifo!fifoVars
  <2> QED
    BY <2>3, <2>4, <2>5
<1> QED
  BY <1>1, <1>2, <1>3, <1>4, <1>5, <1>6, <1>7 DEF Next, Step

\* The ring buffer behind its mutex implements the bounded FIFO queue: every
\* event leaves once, in the order of the pushes that returned Ok, and the
\* awaiting operations never report an error.
THEOREM RingImplementsFifo == Spec => ImplementsFifo
<1>1. Spec => Fifo!Init
  BY FifoInit DEF Spec
<1>2. Spec => [][Fifo!Next]_(Fifo!fifoVars)
  BY FifoStep, QueueInvAlways, PTL DEF Spec
<1> QED
  BY <1>1, <1>2 DEF ImplementsFifo, Fifo!Spec

=============================================================================
