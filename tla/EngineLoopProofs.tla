---------------------------- MODULE EngineLoopProofs ----------------------------
(***************************************************************************)
(* Proofs about EngineLoop: EngineInv is inductive, for every capacity of    *)
(* the queue and every budget.  What the queue does is taken from the      *)
(* lemmas of EventQueueProofs, instantiated for the two tasks.             *)
(***************************************************************************)
EXTENDS EngineLoop, SequenceTheorems, TLAPS

QP == INSTANCE EventQueueProofs
        WITH Tasks <- {Producer, Engine}, Events <- 1 .. MaxMoves, Ops <- TaskOps

USE BoundsAssumption, NamesAssumption

-----------------------------------------------------------------------------
(* The queue and its lemmas. *)

\* The queue of the engine program satisfies the assumptions of EventQueue.
LEMMA QueueAssumptions == QP!CapacityAssumption /\ QP!NoneAssumption /\ QP!OpsAssumption
BY DEF QP!CapacityAssumption, QP!NoneAssumption, QP!OpsAssumption, TaskOps, QP!OpNames,
       QP!PushOps, QP!PopOps

\* It is the queue that the lemmas are about.
LEMMA SameInv == Queue!QueueInv <=> QP!QueueInv
BY DEF Queue!QueueInv, Queue!TypeOK, Queue!Slots, Queue!Notifies, Queue!OpNames, Queue!PushOps,
       Queue!PopOps, Queue!WindowOccupied, Queue!SlotAt, Queue!MutexHeld, Queue!WaitersAsleep,
       Queue!Awaits, Queue!CallsRecorded,
       QP!QueueInv, QP!TypeOK, QP!Slots, QP!Notifies, QP!OpNames, QP!PushOps,
       QP!PopOps, QP!WindowOccupied, QP!SlotAt, QP!MutexHeld, QP!WaitersAsleep,
       QP!Awaits, QP!CallsRecorded

\* It starts as the lemmas say: empty, with no call under way.
LEMMA SameInit == Queue!Init <=> QP!Init
BY DEF Queue!Init, Queue!Slots, Queue!Notifies, QP!Init, QP!Slots, QP!Notifies

\* A call of try_push or try_pop is a call of the lemmas.
LEMMA SameCall ==
  ASSUME NEW t, NEW o, NEW e
  PROVE  Queue!Call(t, o, e) <=> QP!Call(t, o, e)
BY DEF Queue!Call, Queue!PushOps, Queue!ringVars, Queue!notifyVars,
       QP!Call, QP!PushOps, QP!ringVars, QP!notifyVars

\* A step of a call is a step of the lemmas.
LEMMA SameStep ==
  ASSUME NEW t
  PROVE  Queue!Step(t) <=> QP!Step(t)
<1> USE DEF Queue!ringVars, Queue!notifyVars, Queue!callVars, Queue!PushOps, Queue!PopOps,
            Queue!IsFull, Queue!IsEmpty, Queue!RingPush, Queue!RingPop,
            QP!ringVars, QP!notifyVars, QP!callVars, QP!PushOps, QP!PopOps,
            QP!IsFull, QP!IsEmpty, QP!RingPush, QP!RingPop
<1>1. Queue!Lock(t) <=> QP!Lock(t)  BY DEF Queue!Lock, QP!Lock
<1>2. Queue!TryLock(t) <=> QP!TryLock(t)  BY DEF Queue!TryLock, QP!TryLock
<1>3. Queue!PushLocked(t) <=> QP!PushLocked(t)  BY DEF Queue!PushLocked, QP!PushLocked
<1>4. Queue!PopLocked(t) <=> QP!PopLocked(t)  BY DEF Queue!PopLocked, QP!PopLocked
<1>5. Queue!Blocked(t) <=> QP!Blocked(t)  BY DEF Queue!Blocked, QP!Blocked
<1>6. Queue!Notify(t) <=> QP!Notify(t)
  BY DEF Queue!Notify, QP!Notify, Queue!NotifyOne, QP!NotifyOne, Queue!Signals, QP!Signals
<1>7. Queue!Unlock(t) <=> QP!Unlock(t)  BY DEF Queue!Unlock, QP!Unlock
<1>8. Queue!Await(t) <=> QP!Await(t)
  BY DEF Queue!Await, QP!Await, Queue!Awaits, QP!Awaits
<1> QED  BY <1>1, <1>2, <1>3, <1>4, <1>5, <1>6, <1>7, <1>8 DEF Queue!Step, QP!Step

\* The events in the ring are those of the lemmas, before and after a step.
LEMMA SameContents == Queue!Contents = QP!Contents /\ Queue!Contents' = (QP!Contents)'
BY DEF Queue!Contents, QP!Contents, Queue!SlotAt, QP!SlotAt

\* What a step of task t does to the queue and to the two calls.
QueueEffect(t) ==
  /\ op' = op
  /\ \A s \in {Producer, Engine} \ {t} :
       item'[s] = item[s] /\ ret'[s] = ret[s] /\ (pc[s] = "idle" => pc'[s] = "idle")
  /\ pc[t] # "idle"
  /\ \/ /\ op[t] \in {"push", "try_push"} /\ ret[t] # "Ok" /\ ret'[t] = "Ok" /\ item'[t] = item[t]
        /\ Queue!Contents' = Append(Queue!Contents, item[t])
     \/ /\ op[t] \in {"pop", "try_pop"} /\ ret[t] # "Ok" /\ ret'[t] = "Ok"
        /\ Queue!Contents # <<>> /\ item'[t] = Head(Queue!Contents)
        /\ Queue!Contents' = Tail(Queue!Contents)
     \/ /\ ret'[t] = "Ok" <=> ret[t] = "Ok"
        /\ item'[t] = item[t] /\ Queue!Contents' = Queue!Contents

\* The queue's steps have no other effect.
LEMMA StepEffect ==
  ASSUME Queue!QueueInv, Queue!QueueInv', NEW t \in {Producer, Engine}, Queue!Step(t)
  PROVE  QueueEffect(t)
<1>0. QP!QueueInv /\ (QP!QueueInv)' /\ QP!Step(t)
  <2>1. (Queue!QueueInv)' <=> (QP!QueueInv)'
    BY SameInv, PTL
  <2> QED  BY <2>1, SameInv, SameStep
<1>1. /\ pc \in [{Producer, Engine} -> {"idle", "lock", "trylock", "locked", "notify",
                                         "unlock", "await", "sleep"}]
      /\ DOMAIN ret = {Producer, Engine} /\ DOMAIN item = {Producer, Engine}
      /\ item \in [{Producer, Engine} -> 1 .. MaxMoves \cup {None}]
      /\ ret \in [{Producer, Engine} -> {"none", "pending", "Ok", "Full", "Empty", "Busy"}]
      /\ waiters \in [QP!Notifies -> Seq({Producer, Engine})]
      /\ QP!WaitersAsleep /\ QP!CallsRecorded
  BY <1>0 DEF QP!QueueInv, QP!TypeOK
<1>2. Queue!Contents = QP!Contents /\ Queue!Contents' = (QP!Contents)'
  BY SameContents
<1>3. UNCHANGED QP!ringVars => Queue!Contents' = Queue!Contents
  BY <1>2, QueueAssumptions, QP!ContentsUntouched
<1>4. CASE QP!PushLocked(t)
  <2>1. /\ pc[t] = "locked" /\ op[t] \in {"push", "try_push"} /\ ~QP!IsFull /\ QP!RingPush(item[t])
        /\ pc' = [pc EXCEPT ![t] = "notify"] /\ ret' = [ret EXCEPT ![t] = "Ok"]
        /\ op' = op /\ item' = item
    BY <1>4 DEF QP!PushLocked, QP!PushOps
  <2>2. item[t] \in 1 .. MaxMoves /\ ret[t] = "pending"
    BY <1>1, <2>1 DEF QP!CallsRecorded, QP!PushOps
  <2>3. Queue!Contents' = Append(Queue!Contents, item[t])
    BY <1>0, <1>2, <2>1, <2>2, QueueAssumptions, QP!PushAppends
  <2> QED  BY <1>1, <2>1, <2>2, <2>3 DEF QueueEffect
<1>5. CASE QP!PopLocked(t)
  <2>1. /\ pc[t] = "locked" /\ op[t] \in {"pop", "try_pop"} /\ ~QP!IsEmpty /\ QP!RingPop
        /\ pc' = [pc EXCEPT ![t] = "notify"] /\ ret' = [ret EXCEPT ![t] = "Ok"]
        /\ op' = op /\ item' = [item EXCEPT ![t] = buf[head]]
    BY <1>5 DEF QP!PopLocked, QP!PopOps
  <2>2. ret[t] = "pending"
    BY <1>1, <2>1 DEF QP!CallsRecorded
  <2>3. /\ Queue!Contents # <<>> /\ buf[head] = Head(Queue!Contents)
        /\ Queue!Contents' = Tail(Queue!Contents)
    BY <1>0, <1>2, <2>1, QueueAssumptions, QP!PopTakesHead
  <2> QED  BY <1>1, <2>1, <2>2, <2>3 DEF QueueEffect
<1>6. CASE QP!Lock(t) \/ QP!TryLock(t) \/ QP!Unlock(t)
  <2>1. /\ UNCHANGED QP!ringVars /\ op' = op /\ item' = item /\ pc[t] # "idle"
        /\ \E c : pc' = [pc EXCEPT ![t] = c]
        /\ ret' = ret \/ (ret' = [ret EXCEPT ![t] = "Busy"] /\ pc[t] = "trylock")
    BY <1>6 DEF QP!Lock, QP!TryLock, QP!Unlock, QP!ringVars, QP!callVars
  <2>2. pc[t] = "trylock" => ret[t] = "pending"
    BY <1>1 DEF QP!CallsRecorded
  <2> QED  BY <1>1, <1>3, <2>1, <2>2 DEF QueueEffect
<1>7. CASE QP!Blocked(t)
  <2>1. /\ UNCHANGED QP!ringVars /\ op' = op /\ item' = item /\ pc[t] = "locked"
        /\ \E c : pc' = [pc EXCEPT ![t] = c]
        /\ ret' = ret \/ ret' = [ret EXCEPT ![t] = "Full"] \/ ret' = [ret EXCEPT ![t] = "Empty"]
    BY <1>7 DEF QP!Blocked
  <2>2. ret[t] = "pending"
    BY <1>1, <2>1 DEF QP!CallsRecorded
  <2> QED  BY <1>1, <1>3, <2>1, <2>2 DEF QueueEffect
<1>8. CASE QP!Notify(t)
  <2> DEFINE n == QP!Signals(op[t])
  <2>1. /\ UNCHANGED QP!ringVars /\ op' = op /\ item' = item /\ ret' = ret /\ pc[t] = "notify"
        /\ \/ pc' = [pc EXCEPT ![t] = "unlock"]
           \/ waiters[n] # <<>> /\ pc' = [pc EXCEPT ![t] = "unlock", ![Head(waiters[n])] = "lock"]
    BY <1>8 DEF QP!Notify, QP!NotifyOne, QP!callVars
  <2>2. n \in QP!Notifies
    BY DEF QP!Signals, QP!Notifies
  <2>3. waiters[n] # <<>> => pc[Head(waiters[n])] = "sleep"
    <3>1. waiters[n] \in Seq({Producer, Engine})
      BY <1>1, <2>2
    <3>2. waiters[n] # <<>> => 1 \in DOMAIN waiters[n] /\ Head(waiters[n]) = waiters[n][1]
      BY <3>1
    <3> QED  BY <1>1, <2>2, <3>2 DEF QP!WaitersAsleep
  <2> HIDE DEF n
  <2> QED  BY <1>1, <1>3, <2>1, <2>3 DEF QueueEffect
<1>9. CASE QP!Await(t)
  <2>1. /\ UNCHANGED QP!ringVars /\ op' = op /\ item' = item /\ ret' = ret /\ pc[t] = "await"
        /\ \E c : pc' = [pc EXCEPT ![t] = c]
    BY <1>9 DEF QP!Await, QP!callVars
  <2> QED  BY <1>1, <1>3, <2>1 DEF QueueEffect
<1> QED  BY <1>0, <1>4, <1>5, <1>6, <1>7, <1>8, <1>9 DEF QP!Step

-----------------------------------------------------------------------------
(* The pipeline. *)

\* A sequence of moves in their order.
Ordered(s) == \A i, j \in DOMAIN s : i < j => s[i] < s[j]

\* A sequence and its first element.
LEMMA HeadFirst ==
  ASSUME NEW S, NEW s \in Seq(S), s # <<>>
  PROVE  s = <<Head(s)>> \o Tail(s)
OBVIOUS

\* The elements of a sequence with one more at its end.
LEMMA ToSetOneMore ==
  ASSUME NEW s \in Seq(Nat), NEW g \in Nat
  PROVE  ToSet(s \o <<g>>) = ToSet(s) \cup {g}
<1> DEFINE t == s \o <<g>>  n == Len(s)
<1>1. /\ n \in Nat /\ DOMAIN s = 1 .. n /\ DOMAIN t = 1 .. n + 1
      /\ \A i \in 1 .. n : t[i] = s[i]
      /\ t[n + 1] = g
  OBVIOUS
<1> HIDE DEF t, n
<1>2. 1 .. n + 1 = (1 .. n) \cup {n + 1}
  BY <1>1
<1>3. ASSUME NEW x \in ToSet(t) PROVE x \in ToSet(s) \cup {g}
  <2>1. PICK i \in DOMAIN t : x = t[i]
    BY DEF ToSet
  <2>2. CASE i \in 1 .. n
    BY <1>1, <2>1, <2>2 DEF ToSet
  <2>3. CASE i = n + 1
    BY <1>1, <2>1, <2>3
  <2> QED  BY <1>1, <1>2, <2>2, <2>3
<1>4. ASSUME NEW x \in ToSet(s) PROVE x \in ToSet(t)
  <2>1. PICK i \in DOMAIN s : x = s[i]
    BY DEF ToSet
  <2>2. i \in DOMAIN t /\ t[i] = x
    BY <1>1, <1>2, <2>1
  <2> QED  BY <2>2 DEF ToSet
<1>5. g \in ToSet(t)
  <2>1. n + 1 \in DOMAIN t
    BY <1>1
  <2> QED  BY <1>1, <2>1 DEF ToSet
<1> QED  BY <1>3, <1>4, <1>5 DEF t

\* One more move at the end.
LEMMA OneMore ==
  ASSUME NEW s \in Seq(Nat), NEW g \in Nat, Ordered(s), \A x \in ToSet(s) : x < g
  PROVE  Ordered(s \o <<g>>) /\ ToSet(s \o <<g>>) = ToSet(s) \cup {g}
<1> DEFINE t == s \o <<g>>  n == Len(s)
<1>1. /\ n \in Nat /\ DOMAIN s = 1 .. n /\ DOMAIN t = 1 .. n + 1
      /\ \A i \in 1 .. n : t[i] = s[i] /\ s[i] \in Nat
      /\ t[n + 1] = g
  OBVIOUS
<1> HIDE DEF t, n
<1>2. \A i \in 1 .. n : s[i] < g
  BY <1>1 DEF ToSet
<1>3. Ordered(t)
  BY <1>1, <1>2 DEF Ordered
<1>4. ToSet(t) = ToSet(s) \cup {g}
  BY ToSetOneMore DEF t
<1> QED  BY <1>3, <1>4 DEF t

\* The last move taken away.
LEMMA OneLess ==
  ASSUME NEW s \in Seq(Nat), NEW g \in Nat, Ordered(s \o <<g>>)
  PROVE  Ordered(s) /\ g \notin ToSet(s) /\ ToSet(s \o <<g>>) = ToSet(s) \cup {g}
<1> DEFINE t == s \o <<g>>  n == Len(s)
<1>1. /\ n \in Nat /\ DOMAIN s = 1 .. n /\ DOMAIN t = 1 .. n + 1
      /\ \A i \in 1 .. n : t[i] = s[i] /\ s[i] \in Nat
      /\ t[n + 1] = g
  OBVIOUS
<1>2. Ordered(t)
  OBVIOUS
<1> HIDE DEF t, n
<1>3. \A i \in 1 .. n : s[i] < g
  BY <1>1, <1>2 DEF Ordered
<1>4. Ordered(s)
  BY <1>1, <1>2 DEF Ordered
<1>5. ToSet(t) = ToSet(s) \cup {g}
  BY ToSetOneMore DEF t
<1>6. \A i \in 1 .. n : s[i] # g
  BY <1>1, <1>3
<1>7. g \notin ToSet(s)
  BY <1>1, <1>6 DEF ToSet
<1> QED  BY <1>4, <1>5, <1>7 DEF t

-----------------------------------------------------------------------------
(* The two tasks keep the queue's invariant. *)

\* What the tasks do to the queue are steps and calls of it.
LEMMA QueueKept ==
  ASSUME Queue!QueueInv,
         \/ UNCHANGED queueVars
         \/ Queue!Step(Producer) \/ Queue!Step(Engine)
         \/ gateway \in 1 .. MaxMoves /\ Queue!Call(Producer, "try_push", gateway)
         \/ Queue!Call(Engine, "try_pop", None)
  PROVE  Queue!QueueInv'
<1>1. QP!QueueInv /\ (Queue!QueueInv' <=> (QP!QueueInv)')
  <2>1. Queue!QueueInv' <=> (QP!QueueInv)'
    BY SameInv, PTL
  <2> QED  BY <2>1, SameInv
<1>2. [QP!Next]_(QP!vars)
  <2>1. CASE UNCHANGED queueVars
    BY <2>1 DEF queueVars, QP!vars
  <2>2. CASE Queue!Step(Producer) \/ Queue!Step(Engine)
    BY <2>2, SameStep DEF QP!Next
  <2>3. CASE gateway \in 1 .. MaxMoves /\ Queue!Call(Producer, "try_push", gateway)
    <3>1. QP!Call(Producer, "try_push", gateway) /\ "try_push" \in TaskOps[Producer]
      BY <2>3, SameCall DEF TaskOps
    <3> QED  BY <2>3, <3>1 DEF QP!Next
  <2>4. CASE Queue!Call(Engine, "try_pop", None)
    <3>1. QP!Call(Engine, "try_pop", None) /\ "try_pop" \in TaskOps[Engine]
      BY <2>4, SameCall DEF TaskOps
    <3> QED  BY <3>1 DEF QP!Next
  <2> QED  BY <2>1, <2>2, <2>3, <2>4
<1> QED  BY <1>1, <1>2, QueueAssumptions, QP!QueueInvStep

\* The queue holds moves, and a call's item, result and counter have their types.
LEMMA QueueTyped ==
  ASSUME Queue!QueueInv
  PROVE  /\ Queue!Contents \in Seq(1 .. MaxMoves)
         /\ item \in [{Producer, Engine} -> 1 .. MaxMoves \cup {None}]
         /\ DOMAIN pc = {Producer, Engine} /\ DOMAIN op = {Producer, Engine}
         /\ DOMAIN ret = {Producer, Engine}
         /\ pc[Producer] = "idle" => ret[Producer] # "pending"
<1>1. QP!QueueInv
  BY SameInv
<1>2. Queue!Contents \in Seq(1 .. MaxMoves)
  BY <1>1, SameContents, QueueAssumptions, QP!ContentsSeq
<1> QED  BY <1>1, <1>2 DEF QP!QueueInv, QP!TypeOK, QP!CallsRecorded

\* A call starts with no result yet and leaves the other task's call alone.
LEMMA CallEffect ==
  ASSUME Queue!QueueInv, NEW t \in {Producer, Engine}, NEW o \in {"try_push", "try_pop"}, NEW e,
         Queue!Call(t, o, e)
  PROVE  /\ pc[t] = "idle" /\ op'[t] = o /\ item'[t] = e /\ ret'[t] = "pending"
         /\ \A s \in {Producer, Engine} \ {t} :
              pc'[s] = pc[s] /\ op'[s] = op[s] /\ item'[s] = item[s] /\ ret'[s] = ret[s]
         /\ Queue!Contents' = Queue!Contents
<1>1. UNCHANGED QP!ringVars
  BY SameCall DEF QP!Call, QP!ringVars
<1>2. Queue!Contents' = Queue!Contents
  BY <1>1, SameContents, QueueAssumptions, QP!ContentsUntouched
<1> QED  BY <1>2, QueueTyped DEF Queue!Call

\* A step of the queue on behalf of one task: the mock gateway, the main loop
\* and the other task's call are where they were.
LEMMA StepTypes ==
  ASSUME TypeOK, CallsInStep, NEW t \in {Producer, Engine}, Queue!Step(t), UNCHANGED loopVars
  PROVE  /\ TypeOK' /\ CallsInStep' /\ QueueEffect(t)
         /\ t = Producer => producer = "pushing"
         /\ t = Engine => engine = "popping"
<1>1. Queue!QueueInv /\ Queue!QueueInv'
  BY QueueKept DEF TypeOK
<1>2. QueueEffect(t)
  BY <1>1, StepEffect
<1>3. TypeOK'
  BY <1>1 DEF TypeOK, loopVars
<1>4. (t = Producer => producer = "pushing") /\ (t = Engine => engine = "popping")
  BY <1>2 DEF QueueEffect, CallsInStep
<1>5. CallsInStep'
  <2>1. Queue!Contents # <<>> => Head(Queue!Contents) \in 1 .. MaxMoves
    BY <1>1, QueueTyped
  <2>2. CASE t = Producer
    <3>1. item'[Producer] = item[Producer]
      BY <1>2, <1>4, <2>2 DEF QueueEffect, CallsInStep
    <3> QED  BY <1>2, <1>4, <2>2, <3>1 DEF QueueEffect, CallsInStep, loopVars
  <2>3. CASE t = Engine
    <3>1. ret'[Engine] = "Ok" => item'[Engine] # None
      BY <1>2, <1>4, <2>1, <2>3 DEF QueueEffect, CallsInStep
    <3> QED  BY <1>2, <1>4, <2>3, <3>1 DEF QueueEffect, CallsInStep, loopVars
  <2> QED  BY <2>2, <2>3
<1> QED  BY <1>2, <1>3, <1>4, <1>5

\* Every step of the program keeps the types and keeps the tasks and their
\* calls in step.
LEMMA TypesKept ==
  ASSUME TypeOK, CallsInStep, [Next]_vars
  PROVE  TypeOK' /\ CallsInStep'
<1>0. Queue!QueueInv /\ TickBudget \in Nat \ {0}
  BY DEF TypeOK, TickBudget
<1> USE DEF queueVars, loopVars
<1>1. CASE \/ UNCHANGED vars \/ Move \/ ProducerReturns \/ SyncRead \/ SyncWrite \/ TickReturns
           \/ HandleEvent \/ TickExhausted \/ NextIteration \/ CtrlC
  <2>0. UNCHANGED queueVars
    BY <1>1 DEF vars, Move, ProducerReturns, SyncRead, SyncWrite, TickReturns, HandleEvent,
                TickExhausted, NextIteration, CtrlC
  <2>1. Queue!QueueInv'
    BY <1>0, <2>0, QueueKept
  <2>2. CASE UNCHANGED vars
    BY <2>1, <2>2 DEF TypeOK, CallsInStep, vars
  <2>3. CASE Move
    BY <2>1, <2>3 DEF TypeOK, CallsInStep, Move
  <2>4. CASE ProducerReturns
    BY <2>1, <2>4 DEF TypeOK, CallsInStep, ProducerReturns
  <2>5. CASE SyncRead
    BY <2>1, <2>5 DEF TypeOK, CallsInStep, SyncRead
  <2>6. CASE SyncWrite
    BY <1>0, <2>1, <2>6 DEF TypeOK, CallsInStep, SyncWrite, TickBudget
  <2>7. CASE TickReturns
    BY <2>1, <2>7 DEF TypeOK, CallsInStep, TickReturns
  <2>8. CASE HandleEvent
    <3>1. item[Engine] \in 1 .. MaxMoves
      BY <1>0, <2>8, QueueTyped DEF HandleEvent, CallsInStep
    <3>2. handled' \in Seq(1 .. MaxMoves)
      BY <2>8, <3>1 DEF TypeOK, HandleEvent
    <3>3. left' \in 0 .. TickBudget
      BY <1>0, <2>8 DEF TypeOK, CallsInStep, HandleEvent
    <3> QED  BY <2>1, <2>8, <3>2, <3>3 DEF TypeOK, CallsInStep, HandleEvent
  <2>9. CASE TickExhausted \/ NextIteration \/ CtrlC
    BY <2>1, <2>9 DEF TypeOK, CallsInStep, TickExhausted, NextIteration, CtrlC
  <2> QED  BY <1>1, <2>2, <2>3, <2>4, <2>5, <2>6, <2>7, <2>8, <2>9
<1>2. CASE ProducerCalls
  <2>1. gateway \in 1 .. MaxMoves
    BY <1>2 DEF ProducerCalls, TypeOK, CallsInStep
  <2>2. Queue!QueueInv'
    BY <1>0, <1>2, <2>1, QueueKept DEF ProducerCalls
  <2>3. TypeOK'
    BY <1>2, <2>2 DEF TypeOK, ProducerCalls
  <2>4. CallsInStep'
    BY <1>0, <1>2, <2>1, CallEffect DEF CallsInStep, ProducerCalls
  <2> QED  BY <2>3, <2>4
<1>3. CASE TickCalls
  <2>1. Queue!QueueInv'
    BY <1>0, <1>3, QueueKept DEF TickCalls
  <2>2. TypeOK'
    BY <1>3, <2>1 DEF TypeOK, TickCalls
  <2>3. CallsInStep'
    BY <1>0, <1>3, CallEffect DEF CallsInStep, TickCalls
  <2> QED  BY <2>2, <2>3
<1>4. CASE \E t \in {Producer, Engine} : Queue!Step(t) /\ UNCHANGED loopVars
  BY <1>4, StepTypes
<1> QED
  BY <1>1, <1>2, <1>3, <1>4 DEF Next, ProducerRuns, EngineRuns

-----------------------------------------------------------------------------
(* The pipeline of a move's event. *)

PartsTyped ==
  /\ handled \in Seq(Nat) /\ InEngine \in Seq(Nat)
  /\ Queue!Contents \in Seq(Nat) /\ InProducer \in Seq(Nat)

\* The parts of the pipeline are sequences of moves.
LEMMA PipelineTyped == TypeOK /\ CallsInStep => PartsTyped
<1> SUFFICES ASSUME TypeOK, CallsInStep PROVE PartsTyped
  OBVIOUS
<1>1. /\ Queue!Contents \in Seq(1 .. MaxMoves)
      /\ item \in [{Producer, Engine} -> 1 .. MaxMoves \cup {None}]
  BY QueueTyped DEF TypeOK
<1>2. InEngine \in Seq(Nat)
  BY <1>1 DEF InEngine, CallsInStep
<1>3. InProducer \in Seq(Nat)
  BY DEF InProducer, TypeOK
<1>4. handled \in Seq(1 .. MaxMoves)
  BY DEF TypeOK
<1> QED  BY <1>1, <1>2, <1>3, <1>4 DEF PartsTyped

\* A pipeline p holds, in their order and exactly once, the moves up to g that
\* are not in d.
Accounted(p, d, g) == Ordered(p) /\ ToSet(p) \cap d = {} /\ ToSet(p) \cup d = 1 .. g

\* That is what the invariant says of the pipeline.
LEMMA AccountedIs ==
  TypeOK /\ CallsInStep =>
    (PipelineOrdered /\ EventsAccountedFor <=> Accounted(Pipeline, dropped, gateway))
<1> SUFFICES ASSUME TypeOK, CallsInStep
             PROVE  PipelineOrdered /\ EventsAccountedFor <=> Accounted(Pipeline, dropped, gateway)
  OBVIOUS
<1>1. Pipeline \in Seq(Nat)
  BY PipelineTyped DEF Pipeline, PartsTyped
<1>2. Ordered(Pipeline) => \A i \in 2 .. Len(Pipeline) : Pipeline[i - 1] < Pipeline[i]
  BY <1>1 DEF Ordered
<1> QED  BY <1>2 DEF PipelineOrdered, EventsAccountedFor, Accounted, Ordered

\* An event that is popped goes from the ring's head to the engine's hand.
LEMMA PopInLine ==
  ASSUME NEW S, NEW h \in Seq(S), NEW c \in Seq(S), c # <<>>
  PROVE  h \o <<Head(c)>> \o Tail(c) = h \o <<>> \o c
OBVIOUS

\* An event that is pushed goes from the producer's hand to the ring's end.
LEMMA PushInLine ==
  ASSUME NEW S, NEW h \in Seq(S), NEW c \in Seq(S), NEW x \in S
  PROVE  h \o Append(c, x) \o <<>> = h \o c \o <<x>>
OBVIOUS

\* An event that is handled goes from the engine's hand to the handled ones.
LEMMA HandleInLine ==
  ASSUME NEW S, NEW h \in Seq(S), NEW x \in S
  PROVE  Append(h, x) \o <<>> = h \o <<x>>
OBVIOUS

\* A step of the queue moves an event along the pipeline or leaves it where it is.
LEMMA StepKeepsPipeline ==
  ASSUME TypeOK, CallsInStep, NEW t \in {Producer, Engine}, Queue!Step(t), UNCHANGED loopVars
  PROVE  Pipeline' = Pipeline
<1> DEFINE C == Queue!Contents
<1>0. handled \in Seq(Nat) /\ InEngine \in Seq(Nat) /\ C \in Seq(Nat) /\ InProducer \in Seq(Nat)
  BY PipelineTyped DEF PartsTyped
<1>1. /\ QueueEffect(t) /\ UNCHANGED loopVars
      /\ t = Producer => producer = "pushing"
      /\ t = Engine => engine = "popping"
  BY StepTypes
<1>2. Pipeline' = handled \o InEngine' \o C' \o InProducer' /\ Pipeline = handled \o InEngine \o C \o InProducer
  BY DEF Pipeline, loopVars
<1>3. CASE t = Producer
  <2>1. InEngine' = InEngine
    BY <1>1, <1>3 DEF InEngine, QueueEffect, loopVars
  <2>2. CASE ret[Producer] # "Ok" /\ ret'[Producer] = "Ok"
    <3>1. InProducer = <<gateway>> /\ InProducer' = <<>>
      BY <1>1, <1>3, <2>2 DEF InProducer, loopVars
    <3>2. C' = Append(C, gateway) /\ gateway \in Nat
      BY <1>1, <1>3, <2>2 DEF QueueEffect, CallsInStep, TypeOK
    <3> DEFINE h == handled \o InEngine
    <3>3. h \in Seq(Nat)
      BY <1>0
    <3>4. Pipeline' = h \o C' \o <<>> /\ Pipeline = h \o C \o <<gateway>>
      BY <1>2, <2>1, <3>1
    <3> HIDE DEF h, C
    <3> QED  BY <1>0, <3>2, <3>3, <3>4, PushInLine
  <2>3. CASE ~(ret[Producer] # "Ok" /\ ret'[Producer] = "Ok")
    <3>1. C' = C /\ (ret'[Producer] = "Ok" <=> ret[Producer] = "Ok")
      BY <1>1, <1>3, <2>3 DEF QueueEffect, CallsInStep
    <3>2. InProducer' = InProducer
      BY <3>1 DEF InProducer, loopVars
    <3> QED  BY <1>2, <2>1, <3>1, <3>2
  <2> QED  BY <2>2, <2>3
<1>4. CASE t = Engine
  <2>1. InProducer' = InProducer
    BY <1>1, <1>4 DEF InProducer, QueueEffect, loopVars
  <2>2. CASE ret[Engine] # "Ok" /\ ret'[Engine] = "Ok"
    <3>1. C # <<>> /\ item'[Engine] = Head(C) /\ C' = Tail(C)
      BY <1>1, <1>4, <2>2 DEF QueueEffect, CallsInStep
    <3>2. InEngine = <<>> /\ InEngine' = <<Head(C)>>
      BY <1>1, <1>4, <2>2, <3>1 DEF InEngine, loopVars
    <3> DEFINE before == handled \o InEngine \o C  after == handled \o InEngine' \o C'
    <3>3. before = after
      <4> HIDE DEF C
      <4> QED  BY <1>0, <3>1, <3>2, PopInLine
    <3>4. Pipeline' = after \o InProducer' /\ Pipeline = before \o InProducer
      BY <1>2
    <3> HIDE DEF before, after
    <3> QED  BY <2>1, <3>3, <3>4
  <2>3. CASE ~(ret[Engine] # "Ok" /\ ret'[Engine] = "Ok")
    <3>1. C' = C /\ item'[Engine] = item[Engine] /\ (ret'[Engine] = "Ok" <=> ret[Engine] = "Ok")
      BY <1>1, <1>4, <2>3 DEF QueueEffect, CallsInStep
    <3>2. InEngine' = InEngine
      BY <3>1 DEF InEngine, loopVars
    <3> QED  BY <1>2, <2>1, <3>1, <3>2
  <2> QED  BY <2>2, <2>3
<1> QED  BY <1>3, <1>4

\* Handling an event and starting or ending a call leave the pipeline as it is;
\* only a new move and a refused event change it.
LEMMA LoopKeepsPipeline ==
  ASSUME TypeOK, CallsInStep,
         \/ UNCHANGED vars \/ ProducerCalls \/ SyncRead \/ SyncWrite \/ TickCalls \/ TickReturns
         \/ HandleEvent \/ TickExhausted \/ NextIteration \/ CtrlC
         \/ ProducerReturns /\ ret[Producer] = "Ok"
  PROVE  Pipeline' = Pipeline /\ dropped' = dropped /\ gateway' = gateway
<1> DEFINE C == Queue!Contents
<1> USE DEF queueVars
<1>0. /\ handled \in Seq(Nat) /\ C \in Seq(Nat) /\ Queue!QueueInv
  BY PipelineTyped DEF PartsTyped, TypeOK
<1>1. UNCHANGED queueVars => C' = C
  BY DEF Queue!Contents, Queue!SlotAt
<1>2. CASE HandleEvent
  <2>1. InEngine = <<item[Engine]>> /\ InEngine' = <<>> /\ InProducer' = InProducer
    BY <1>2 DEF InEngine, InProducer, HandleEvent
  <2>2. item[Engine] \in Nat
    <3>1. item[Engine] \in 1 .. MaxMoves \cup {None} /\ item[Engine] # None
      BY <1>0, <1>2, QueueTyped DEF HandleEvent, CallsInStep
    <3> QED  BY <3>1
  <2> DEFINE before == handled \o InEngine  after == handled' \o InEngine'
  <2>3. after = before
    BY <1>0, <1>2, <2>1, <2>2, HandleInLine DEF HandleEvent
  <2>4. C' = C
    BY <1>1, <1>2 DEF HandleEvent
  <2>5. Pipeline' = after \o C' \o InProducer' /\ Pipeline = before \o C \o InProducer
    BY DEF Pipeline
  <2> HIDE DEF before, after, C
  <2>6. Pipeline' = Pipeline
    BY <2>1, <2>3, <2>4, <2>5
  <2> QED  BY <1>2, <2>6 DEF HandleEvent
<1>3. CASE ProducerCalls
  <2>1. /\ ret'[Producer] = "pending" /\ ret'[Engine] = ret[Engine] /\ item'[Engine] = item[Engine]
        /\ C' = C
    BY <1>0, <1>3, CallEffect DEF ProducerCalls
  <2>2. InEngine' = InEngine /\ InProducer' = InProducer
    BY <1>3, <2>1 DEF InEngine, InProducer, ProducerCalls
  <2> QED  BY <1>3, <2>1, <2>2 DEF Pipeline, ProducerCalls
<1>4. CASE TickCalls
  <2>1. ret'[Engine] = "pending" /\ ret'[Producer] = ret[Producer] /\ C' = C
    BY <1>0, <1>4, CallEffect DEF TickCalls
  <2>2. InEngine' = InEngine /\ InProducer' = InProducer
    BY <1>4, <2>1 DEF InEngine, InProducer, TickCalls
  <2> QED  BY <1>4, <2>1, <2>2 DEF Pipeline, TickCalls
<1>5. CASE \/ UNCHANGED vars \/ SyncRead \/ SyncWrite \/ TickReturns \/ TickExhausted
           \/ NextIteration \/ CtrlC \/ (ProducerReturns /\ ret[Producer] = "Ok")
  <2>1. UNCHANGED <<queueVars, handled, dropped, gateway>>
    BY <1>5 DEF vars, loopVars, SyncRead, SyncWrite, TickReturns, TickExhausted, NextIteration,
                CtrlC, ProducerReturns
  <2>2. InEngine' = InEngine
    BY <1>5, <2>1 DEF InEngine, vars, loopVars, SyncRead, SyncWrite, TickReturns, TickExhausted,
                NextIteration, CtrlC, ProducerReturns
  <2>3. InProducer' = InProducer
    BY <1>5, <2>1 DEF InProducer, vars, loopVars, SyncRead, SyncWrite, TickReturns, TickExhausted,
                NextIteration, CtrlC, ProducerReturns
  <2> QED  BY <1>1, <2>1, <2>2, <2>3 DEF Pipeline
<1> QED  BY <1>2, <1>3, <1>4, <1>5

\* The gateway's move joins the end of the pipeline.
LEMMA MoveKeepsAccount ==
  ASSUME TypeOK, CallsInStep, Accounted(Pipeline, dropped, gateway), Move
  PROVE  Accounted(Pipeline, dropped, gateway)'
<1> DEFINE p == Pipeline  g == gateway + 1
<1>1. p \in Seq(Nat) /\ g \in Nat /\ gateway \in Nat
  BY PipelineTyped DEF Pipeline, PartsTyped, TypeOK
<1>2. Pipeline' = p \o <<g>>
  <2>1. /\ handled' = handled /\ InEngine' = InEngine /\ Queue!Contents' = Queue!Contents
    BY DEF Move, InEngine, Queue!Contents, Queue!SlotAt, queueVars
  <2>2. InProducer = <<>> /\ InProducer' = <<g>>
    BY DEF Move, InProducer
  <2> DEFINE q == handled \o InEngine \o Queue!Contents
  <2>3. q \in Seq(Nat)
    BY PipelineTyped DEF PartsTyped
  <2>4. Pipeline = q \o <<>> /\ Pipeline' = q \o <<g>>
    BY <2>1, <2>2 DEF Pipeline
  <2> HIDE DEF q, g
  <2>5. q \o <<>> = q
    BY <2>3, ConcatEmptySeq
  <2> QED  BY <2>4, <2>5
<1>3. Ordered(p) /\ ToSet(p) \cap dropped = {} /\ ToSet(p) \cup dropped = 1 .. gateway
  BY DEF Accounted
<1>4. \A x \in ToSet(p) : x < g
  BY <1>1, <1>3
<1> HIDE DEF p
<1>5. Ordered(p \o <<g>>) /\ ToSet(p \o <<g>>) = ToSet(p) \cup {g}
  BY <1>1, <1>3, <1>4, OneMore
<1>6. g \notin dropped
  BY <1>1, <1>3
<1>7. 1 .. g = (1 .. gateway) \cup {g}
  BY <1>1
<1>8. dropped' = dropped /\ gateway' = g
  BY DEF Move
<1> HIDE DEF g
<1>9. Accounted(p \o <<g>>, dropped, g)
  BY <1>3, <1>5, <1>6, <1>7 DEF Accounted
<1> QED  BY <1>2, <1>8, <1>9

\* An event that try_push refused leaves the end of the pipeline.
LEMMA DropKeepsAccount ==
  ASSUME TypeOK, CallsInStep, Accounted(Pipeline, dropped, gateway),
         ProducerReturns, ret[Producer] # "Ok"
  PROVE  Accounted(Pipeline, dropped, gateway)'
<1> DEFINE q == handled \o InEngine \o Queue!Contents
<1>1. q \in Seq(Nat) /\ gateway \in Nat
  BY PipelineTyped DEF PartsTyped, TypeOK
<1>2. Pipeline = q \o <<gateway>> /\ Pipeline' = q
  <2>1. /\ handled' = handled /\ InEngine' = InEngine /\ Queue!Contents' = Queue!Contents
    BY DEF ProducerReturns, InEngine, Queue!Contents, Queue!SlotAt, queueVars
  <2>2. InProducer = <<gateway>> /\ InProducer' = <<>>
    BY DEF ProducerReturns, InProducer
  <2>3. Pipeline = q \o <<gateway>> /\ Pipeline' = q \o <<>>
    BY <2>1, <2>2 DEF Pipeline
  <2> HIDE DEF q
  <2>4. q \o <<>> = q
    BY <1>1, ConcatEmptySeq
  <2> QED  BY <2>3, <2>4
<1>3. dropped' = dropped \cup {gateway} /\ gateway' = gateway
  BY DEF ProducerReturns
<1> HIDE DEF q
<1>4. /\ Ordered(q \o <<gateway>>) /\ ToSet(q \o <<gateway>>) \cap dropped = {}
      /\ ToSet(q \o <<gateway>>) \cup dropped = 1 .. gateway
  BY <1>2 DEF Accounted
<1>5. /\ Ordered(q) /\ gateway \notin ToSet(q)
      /\ ToSet(q \o <<gateway>>) = ToSet(q) \cup {gateway}
  BY <1>1, <1>4, OneLess
<1>6. Accounted(q, dropped \cup {gateway}, gateway)
  BY <1>4, <1>5 DEF Accounted
<1> QED  BY <1>2, <1>3, <1>6

-----------------------------------------------------------------------------
(* The engine program. *)

\* The program starts with no move, an empty queue and nothing handled.
LEMMA EngineInvInit == Init => EngineInv
<1> SUFFICES ASSUME Init PROVE EngineInv
  OBVIOUS
<1>1. QP!QueueInv /\ Queue!QueueInv
  BY SameInit, SameInv, QueueAssumptions, QP!QueueInvInit DEF Init
<1>2. TypeOK
  BY <1>1 DEF Init, TypeOK, TickBudget
<1>3. CallsInStep
  BY DEF Init, CallsInStep, Queue!Init
<1>4. Pipeline = <<>>
  <2>1. Queue!Contents = <<>> /\ InEngine = <<>> /\ InProducer = <<>> /\ handled = <<>>
    BY DEF Init, Queue!Init, Queue!Contents, InEngine, InProducer
  <2> QED  BY <2>1 DEF Pipeline
<1>5. Accounted(Pipeline, dropped, gateway)
  BY <1>4 DEF Accounted, Ordered, ToSet, Init
<1> QED  BY <1>2, <1>3, <1>5, AccountedIs DEF EngineInv

\* Every step of the producer, the main loop, the queue and Ctrl+C keeps the
\* invariant.
LEMMA EngineInvStep == EngineInv /\ [Next]_vars => EngineInv'
<1> SUFFICES ASSUME EngineInv, [Next]_vars PROVE EngineInv'
  OBVIOUS
<1>1. TypeOK /\ CallsInStep /\ Accounted(Pipeline, dropped, gateway)
  BY AccountedIs DEF EngineInv
<1>2. TypeOK' /\ CallsInStep'
  BY <1>1, TypesKept
<1>3. Accounted(Pipeline, dropped, gateway)'
  <2>1. CASE Move
    BY <1>1, <2>1, MoveKeepsAccount
  <2>2. CASE ProducerReturns /\ ret[Producer] # "Ok"
    BY <1>1, <2>2, DropKeepsAccount
  <2>3. CASE \/ UNCHANGED vars \/ ProducerCalls \/ SyncRead \/ SyncWrite \/ TickCalls \/ TickReturns
             \/ HandleEvent \/ TickExhausted \/ NextIteration \/ CtrlC
             \/ ProducerReturns /\ ret[Producer] = "Ok"
    <3>1. Pipeline' = Pipeline /\ dropped' = dropped /\ gateway' = gateway
      BY <1>1, <2>3, LoopKeepsPipeline
    <3> QED  BY <1>1, <3>1
  <2>4. CASE \E t \in {Producer, Engine} : Queue!Step(t) /\ UNCHANGED loopVars
    <3>1. Pipeline' = Pipeline
      BY <1>1, <2>4, StepKeepsPipeline
    <3>2. dropped' = dropped /\ gateway' = gateway
      BY <2>4 DEF loopVars
    <3> QED  BY <1>1, <3>1, <3>2
  <2> QED  BY <2>1, <2>2, <2>3, <2>4 DEF Next, ProducerRuns, EngineRuns
<1>4. PipelineOrdered' /\ EventsAccountedFor'
  BY <1>2, <1>3, AccountedIs, PTL
<1> QED  BY <1>2, <1>4 DEF EngineInv

\* EngineInv holds in every state the engine program reaches, for every queue
\* capacity, every budget of tick and any number of moves and failed
\* synchronisations.
THEOREM EngineInvAlways == Spec => []EngineInv
  BY EngineInvInit, EngineInvStep, PTL DEF Spec

\* The tick's budget, the positions and the queue keep their types.
THEOREM EngineTypes == Spec => []TypeOK
<1>1. EngineInv => TypeOK
  BY DEF EngineInv
<1> QED  BY <1>1, EngineInvAlways, PTL

\* try_push, try_pop, tick and Ctrl+C lose, repeat and reorder no event: each
\* move's event is handled, on its way, or was refused by try_push.
THEOREM EventsAlwaysAccountedFor == Spec => []EventsAccountedFor
<1>1. EngineInv => EventsAccountedFor
  BY DEF EngineInv
<1> QED  BY <1>1, EngineInvAlways, PTL

=============================================================================
