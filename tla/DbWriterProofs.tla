---------------------------- MODULE DbWriterProofs ----------------------------
(***************************************************************************)
(* Proofs about DbWriter: DbWriterInv is inductive, for every capacity,    *)
(* batch size and set of clients, and for any number of starts and         *)
(* operations.                                                             *)
(***************************************************************************)
EXTENDS DbWriter, SequenceTheorems, TLAPS

USE CapacityAssumption, BatchSizeAssumption, BoundsAssumption, ClientsAssumption

\* An operation that enters the channel is the last of all.
LEMMA AppendLast ==
  ASSUME NEW S, NEW s \in Seq(S), NEW t \in Seq(S), NEW u \in Seq(S), NEW x \in S
  PROVE  s \o t \o Append(u, x) = Append(s \o t \o u, x)
<1>1. s \o t \in Seq(S)  OBVIOUS
<1> DEFINE r == s \o t
<1>2. r \in Seq(S)  BY <1>1
<1>3. r \o Append(u, x) = Append(r \o u, x)
  <2> HIDE DEF r
  <2> QED  BY <1>2
<1>4. QED  BY <1>3

\* An operation received moves from the channel's head to the batch's end.
LEMMA HeadToBatch ==
  ASSUME NEW S, NEW t \in Seq(S), NEW u \in Seq(S), u # <<>>
  PROVE  Append(t, Head(u)) \o Tail(u) = t \o u
OBVIOUS

\* Processing the batch does not change the order of what is accepted.
LEMMA FlushBatch ==
  ASSUME NEW S, NEW s \in Seq(S), NEW t \in Seq(S), NEW u \in Seq(S)
  PROVE  s \o t \o <<>> \o u = s \o t \o u
<1>1. s \o t \in Seq(S)  OBVIOUS
<1>2. s \o t \o <<>> = s \o t  BY <1>1, ConcatEmptySeq
<1>3. QED  BY <1>2

-----------------------------------------------------------------------------

\* new: no channel, no worker, no operation.
LEMMA InitInv == Init => DbWriterInv
<1> SUFFICES ASSUME Init PROVE DbWriterInv  OBVIOUS
<1>1. TypeOK
  <2>1. <<>> \in Seq(Ops) /\ Len(<<>>) = 0 /\ 0 <= Capacity  OBVIOUS
  <2>2. 0 \in 0 .. MaxOps /\ 0 \in 0 .. MaxStarts  OBVIOUS
  <2>3. QED  BY <2>1, <2>2 DEF Init, TypeOK
<1>2. OpsAccountedFor  BY DEF Init, OpsAccountedFor
<1>3. BatchBelowSize /\ OneWorkerServes
  BY DEF Init, BatchBelowSize, OneWorkerServes, Starts
<1>4. CallersInStep /\ ServiceInStep
  BY DEF Init, CallersInStep, ServiceInStep, Callers, Owner, Starts
<1>5. QED  BY <1>1, <1>2, <1>3, <1>4 DEF DbWriterInv

\* The types of the sequences of one start.
LEMMA SeqTypes ==
  ASSUME TypeOK, NEW g \in Starts
  PROVE  /\ chan[g] \in Seq(Ops) /\ batch[g] \in Seq(Ops)
         /\ accepted[g] \in Seq(Ops) /\ written[g] \in Seq(Ops)
         /\ Len(chan[g]) <= Capacity
BY DEF TypeOK

\* What a send adds to a channel with room for it.
LEMMA EnqueueKeeps ==
  ASSUME DbWriterInv, NEW g \in Starts, NEW o \in Ops, HasRoom(g), Enqueue(g, o),
         UNCHANGED <<written, batch>>
  PROVE  /\ OpsAccountedFor'
         /\ chan' \in [Starts -> Seq(Ops)] /\ accepted' \in [Starts -> Seq(Ops)]
         /\ \A h \in Starts : Len(chan'[h]) <= Capacity
<1>0. /\ TypeOK /\ OpsAccountedFor
      /\ chan \in [Starts -> Seq(Ops)] /\ accepted \in [Starts -> Seq(Ops)]
  BY DEF DbWriterInv, TypeOK
<1>1. /\ chan' = [chan EXCEPT ![g] = Append(@, o)]
      /\ accepted' = [accepted EXCEPT ![g] = Append(@, o)]
  BY DEF Enqueue
<1>2. /\ Append(chan[g], o) \in Seq(Ops) /\ Append(accepted[g], o) \in Seq(Ops)
      /\ Len(Append(chan[g], o)) <= Capacity
  BY <1>0, SeqTypes DEF HasRoom
<1>3. ASSUME NEW h \in Starts
      PROVE  /\ accepted'[h] = written'[h] \o batch'[h] \o chan'[h]
             /\ Len(chan'[h]) <= Capacity
  <2>1. CASE h = g
    <3>1. accepted[g] = written[g] \o batch[g] \o chan[g]  BY <1>0 DEF OpsAccountedFor
    <3>2. written[g] \o batch[g] \o Append(chan[g], o)
            = Append(written[g] \o batch[g] \o chan[g], o)
      <4> DEFINE w == written[g]
                 b == batch[g]
                 q == chan[g]
      <4>1. w \in Seq(Ops) /\ b \in Seq(Ops) /\ q \in Seq(Ops)  BY <1>0, SeqTypes
      <4> HIDE DEF w, b, q
      <4>2. w \o b \o Append(q, o) = Append(w \o b \o q, o)  BY <4>1, AppendLast
      <4>3. QED  BY <4>2 DEF w, b, q
    <3>3. chan'[g] = Append(chan[g], o) /\ accepted'[g] = Append(accepted[g], o)
      BY <1>0, <1>1
    <3>4. QED  BY <1>2, <2>1, <3>1, <3>2, <3>3
  <2>2. CASE h # g
    <3>1. chan'[h] = chan[h] /\ accepted'[h] = accepted[h]  BY <1>0, <1>1, <2>2
    <3>2. QED  BY <1>0, <3>1, SeqTypes DEF OpsAccountedFor
  <2>3. QED  BY <2>1, <2>2
<1>4. chan' \in [Starts -> Seq(Ops)] /\ accepted' \in [Starts -> Seq(Ops)]
  BY <1>0, <1>1, <1>2
<1>5. QED  BY <1>3, <1>4 DEF OpsAccountedFor

\* The end of a send, of the owner or of a client.
LEMMA SendKeeps ==
  ASSUME DbWriterInv, NEW g \in Starts, NEW c \in Callers, offered[c] # 0,
         SendEnds(c, g), UNCHANGED workVars
  PROVE  /\ OpsAccountedFor'
         /\ chan' \in [Starts -> Seq(Ops)] /\ accepted' \in [Starts -> Seq(Ops)]
         /\ \A h \in Starts : Len(chan'[h]) <= Capacity
         /\ offered' \in [Callers -> 0 .. MaxOps]
         /\ offered' = [offered EXCEPT ![c] = 0]
<1>0. /\ TypeOK /\ OpsAccountedFor /\ offered \in [Callers -> 0 .. MaxOps]
      /\ chan \in [Starts -> Seq(Ops)] /\ accepted \in [Starts -> Seq(Ops)]
      /\ \A h \in Starts : Len(chan[h]) <= Capacity
  BY DEF DbWriterInv, TypeOK
<1>1. offered' = [offered EXCEPT ![c] = 0] /\ offered' \in [Callers -> 0 .. MaxOps]
  BY <1>0 DEF SendEnds
<1>2. offered[c] \in Ops  BY <1>0 DEF Ops
<1>3. UNCHANGED <<written, batch>>  BY DEF workVars
<1>4. CASE HasRoom(g) /\ Enqueue(g, offered[c])
  BY <1>1, <1>2, <1>3, <1>4, EnqueueKeeps
<1>5. CASE UNCHANGED chanVars
  BY <1>0, <1>1, <1>3, <1>5 DEF chanVars, OpsAccountedFor
<1>6. QED  BY <1>4, <1>5 DEF SendEnds

\* The end of a worker, which processes its batch.
LEMMA EndKeeps ==
  ASSUME DbWriterInv, NEW g \in Starts, worker[g] = "run", signalled[g],
         EndWorker(g), UNCHANGED <<ownerVars, clientVars, signalled, chanVars, ops>>
  PROVE  DbWriterInv'
<1>0. /\ TypeOK /\ OpsAccountedFor /\ BatchBelowSize /\ OneWorkerServes
      /\ written \in [Starts -> Seq(Ops)] /\ batch \in [Starts -> Seq(Ops)]
      /\ worker \in [Starts -> {"none", "run", "ended"}]
  BY DEF DbWriterInv, TypeOK
<1>1. /\ written' = [written EXCEPT ![g] = @ \o batch[g]]
      /\ batch' = [batch EXCEPT ![g] = <<>>]
      /\ worker' = [worker EXCEPT ![g] = "ended"]
      /\ UNCHANGED <<owner, running, write_tx, starts, clone, offered, signalled,
                     chan, accepted, ops>>
  BY DEF EndWorker, ownerVars, clientVars, chanVars
<1>2. TypeOK'
  <2>1. written[g] \o batch[g] \in Seq(Ops) /\ <<>> \in Seq(Ops)
    BY <1>0, SeqTypes
  <2>2. /\ written' \in [Starts -> Seq(Ops)] /\ batch' \in [Starts -> Seq(Ops)]
        /\ worker' \in [Starts -> {"none", "run", "ended"}]
    BY <1>0, <1>1, <2>1
  <2>3. QED  BY <1>0, <1>1, <2>2 DEF TypeOK
<1>3. OpsAccountedFor'
  <2> SUFFICES ASSUME NEW h \in Starts
               PROVE  accepted'[h] = written'[h] \o batch'[h] \o chan'[h]
    BY DEF OpsAccountedFor
  <2>1. accepted[h] = written[h] \o batch[h] \o chan[h]  BY <1>0 DEF OpsAccountedFor
  <2>2. CASE h = g
    <3>1. written'[g] = written[g] \o batch[g] /\ batch'[g] = <<>>  BY <1>0, <1>1
    <3>2. written[g] \o batch[g] \o <<>> \o chan[g] = written[g] \o batch[g] \o chan[g]
      BY <1>0, SeqTypes, FlushBatch
    <3>3. QED  BY <1>1, <2>1, <2>2, <3>1, <3>2
  <2>3. CASE h # g  BY <1>0, <1>1, <2>1, <2>3
  <2>4. QED  BY <2>2, <2>3
<1>4. BatchBelowSize'  BY <1>0, <1>1 DEF BatchBelowSize
<1>5. OneWorkerServes'  BY <1>0, <1>1 DEF OneWorkerServes
<1>6. CallersInStep' /\ ServiceInStep'
  BY <1>0, <1>1 DEF DbWriterInv, CallersInStep, ServiceInStep
<1>7. QED  BY <1>2, <1>3, <1>4, <1>5, <1>6 DEF DbWriterInv

\* A worker that receives an operation.
LEMMA ReceiveKeeps ==
  ASSUME DbWriterInv, NEW g \in Starts, Receive(g)
  PROVE  DbWriterInv'
<1> DEFINE full == Append(batch[g], Head(chan[g]))
<1>0. /\ TypeOK /\ OpsAccountedFor /\ BatchBelowSize /\ OneWorkerServes
      /\ CallersInStep /\ ServiceInStep
      /\ written \in [Starts -> Seq(Ops)] /\ batch \in [Starts -> Seq(Ops)]
      /\ chan \in [Starts -> Seq(Ops)]
      /\ \A h \in Starts : Len(chan[h]) <= Capacity
  BY DEF DbWriterInv, TypeOK
<1>1. /\ worker[g] = "run" /\ chan[g] # <<>>
      /\ chan' = [chan EXCEPT ![g] = Tail(@)]
      /\ \/ /\ Len(full) >= BatchSize
            /\ written' = [written EXCEPT ![g] = @ \o full]
            /\ batch' = [batch EXCEPT ![g] = <<>>]
         \/ /\ ~(Len(full) >= BatchSize)
            /\ written' = written
            /\ batch' = [batch EXCEPT ![g] = full]
      /\ UNCHANGED <<owner, running, write_tx, starts, clone, offered, signalled,
                     worker, accepted, ops>>
  BY DEF Receive, ownerVars, clientVars
<1>2. /\ chan[g] \in Seq(Ops) /\ batch[g] \in Seq(Ops) /\ written[g] \in Seq(Ops)
      /\ Head(chan[g]) \in Ops /\ Tail(chan[g]) \in Seq(Ops)
      /\ Len(Tail(chan[g])) <= Capacity
      /\ full \in Seq(Ops) /\ <<>> \in Seq(Ops)
  BY <1>0, <1>1, SeqTypes
<1>3. written[g] \o full \in Seq(Ops)
  <2> HIDE DEF full
  <2> QED  BY <1>2
<1>4. written[g] \o full \o Tail(chan[g]) = written[g] \o batch[g] \o chan[g]
  <2> DEFINE w == written[g]
             b == batch[g]
             q == chan[g]
             r == Tail(chan[g])
  <2>0. w \in Seq(Ops) /\ r \in Seq(Ops)  BY <1>2
  <2>1. w \in Seq(Ops) /\ b \in Seq(Ops) /\ q \in Seq(Ops)  BY <1>2
  <2>2. full \o r = b \o q  BY <1>1, <1>2, HeadToBatch
  <2> HIDE DEF w, b, q, r, full
  <2>3. full \in Seq(Ops)  BY <1>2
  <2>4. (w \o full) \o r = w \o (full \o r)  BY ONLY <2>0, <2>3, ConcatAssociative
  <2>5. (w \o b) \o q = w \o (b \o q)  BY ONLY <2>1, ConcatAssociative
  <2>6. w \o full \o r = w \o b \o q  BY ONLY <2>2, <2>4, <2>5, Zenon
  <2>7. QED  BY <2>6 DEF w, b, q, r
<1>5. written[g] \o full \o <<>> \o Tail(chan[g]) = written[g] \o full \o Tail(chan[g])
  <2> DEFINE q == Tail(chan[g])
             w == written[g]
  <2>1. w \in Seq(Ops) /\ full \in Seq(Ops) /\ q \in Seq(Ops)  BY <1>2
  <2> HIDE DEF w, q, full
  <2>2. w \o full \o <<>> \o q = w \o full \o q  BY <2>1, FlushBatch
  <2>3. QED  BY <2>2 DEF w, q
<1> HIDE DEF full
<1>6. TypeOK'
  <2>1. /\ chan' \in [Starts -> Seq(Ops)]
        /\ \A h \in Starts : Len(chan'[h]) <= Capacity
    BY <1>0, <1>1, <1>2
  <2>2. written' \in [Starts -> Seq(Ops)] /\ batch' \in [Starts -> Seq(Ops)]
    BY <1>0, <1>1, <1>2, <1>3
  <2>3. QED  BY <1>0, <1>1, <2>1, <2>2 DEF TypeOK
<1>7. OpsAccountedFor'
  <2> SUFFICES ASSUME NEW h \in Starts
               PROVE  accepted'[h] = written'[h] \o batch'[h] \o chan'[h]
    BY DEF OpsAccountedFor
  <2>1. accepted[h] = written[h] \o batch[h] \o chan[h]  BY <1>0 DEF OpsAccountedFor
  <2>2. CASE h = g
    <3>1. chan'[g] = Tail(chan[g])  BY <1>0, <1>1
    <3>2. CASE Len(full) >= BatchSize
      <4>1. written'[g] = written[g] \o full /\ batch'[g] = <<>>  BY <1>0, <1>1, <3>2
      <4>2. QED  BY <1>1, <1>4, <1>5, <2>1, <2>2, <3>1, <4>1
    <3>3. CASE ~(Len(full) >= BatchSize)
      <4>1. written'[g] = written[g] /\ batch'[g] = full  BY <1>0, <1>1, <3>3
      <4>2. QED  BY <1>1, <1>4, <2>1, <2>2, <3>1, <4>1
    <3>4. QED  BY <3>2, <3>3
  <2>3. CASE h # g
    <3>1. written'[h] = written[h] /\ batch'[h] = batch[h] /\ chan'[h] = chan[h]
      BY <1>0, <1>1, <2>3
    <3>2. QED  BY <1>1, <2>1, <3>1
  <2>4. QED  BY <2>2, <2>3
<1>8. BatchBelowSize'
  <2> SUFFICES ASSUME NEW h \in Starts
               PROVE  /\ worker'[h] # "run" => batch'[h] = <<>>
                      /\ batch'[h] # <<>> => Len(batch'[h]) < BatchSize
    BY DEF BatchBelowSize
  <2>1. Len(full) \in Nat  BY <1>2
  <2>2. CASE h = g  BY <1>0, <1>1, <2>1, <2>2
  <2>3. CASE h # g  BY <1>0, <1>1, <2>3 DEF BatchBelowSize
  <2>4. QED  BY <2>2, <2>3
<1>9. OneWorkerServes' /\ CallersInStep' /\ ServiceInStep'
  BY <1>0, <1>1 DEF OneWorkerServes, CallersInStep, ServiceInStep
<1>10. QED  BY <1>6, <1>7, <1>8, <1>9 DEF DbWriterInv

\* Steps that touch no channel and no batch keep both accounts.
LEMMA AccountsKept ==
  ASSUME DbWriterInv, UNCHANGED <<chan, accepted, written, batch>>
  PROVE  OpsAccountedFor'
BY DEF DbWriterInv, OpsAccountedFor

\* Every call on the service, and every step of its workers, keeps the invariant.
LEMMA StepInv == DbWriterInv /\ [Next]_vars => DbWriterInv'
<1> SUFFICES ASSUME DbWriterInv, [Next]_vars PROVE DbWriterInv'  OBVIOUS
<1> USE DEF Owner
<1>0. /\ TypeOK /\ OpsAccountedFor /\ BatchBelowSize /\ OneWorkerServes
      /\ CallersInStep /\ ServiceInStep
      /\ starts \in 0 .. MaxStarts /\ write_tx \in 0 .. MaxStarts /\ ops \in 0 .. MaxOps
      /\ offered \in [Callers -> 0 .. MaxOps] /\ clone \in [Clients -> 0 .. MaxStarts]
      /\ worker \in [Starts -> {"none", "run", "ended"}]
      /\ signalled \in [Starts -> BOOLEAN]
      /\ Owner \in Callers /\ Clients \subseteq Callers
  BY DEF DbWriterInv, TypeOK, Callers
<1>1. CASE UNCHANGED vars
  BY <1>0, <1>1 DEF vars, ownerVars, clientVars, workVars, chanVars, TypeOK, OpsAccountedFor,
     BatchBelowSize, OneWorkerServes, CallersInStep, ServiceInStep, DbWriterInv
<1>2. CASE Start
  <2>1. /\ owner = "idle" /\ ~running /\ starts < MaxStarts
        /\ starts' = starts + 1 /\ write_tx' = starts + 1 /\ running' = TRUE
        /\ worker' = [worker EXCEPT ![starts + 1] = "run"]
        /\ UNCHANGED <<owner, clone, offered, signalled, batch, written, chan, accepted, ops>>
    BY <1>2 DEF Start, clientVars, chanVars
  <2>2. starts + 1 \in Starts /\ starts + 1 \in 0 .. MaxStarts /\ starts + 1 > starts
    BY <1>0, <2>1 DEF Starts
  <2>3. TypeOK'  BY <1>0, <2>1, <2>2 DEF TypeOK
  <2>4. BatchBelowSize'
    <3>1. \A g \in Starts : worker'[g] # "run" => worker[g] # "run"  BY <1>0, <2>1, <2>2
    <3>2. QED  BY <1>0, <2>1, <3>1 DEF BatchBelowSize
  <2>5. OneWorkerServes'
    <3> SUFFICES ASSUME NEW g \in Starts
                 PROVE  IF g = starts + 1
                        THEN worker'[g] = "run" /\ ~signalled'[g]
                        ELSE worker'[g] = "run" => signalled'[g]
      BY <2>1 DEF OneWorkerServes
    <3>1. CASE g = starts + 1  BY <1>0, <2>1, <2>2, <3>1 DEF ServiceInStep
    <3>2. CASE g # starts + 1  BY <1>0, <2>1, <2>2, <3>2 DEF OneWorkerServes
    <3>3. QED  BY <3>1, <3>2
  <2>6. CallersInStep'  BY <1>0, <2>1 DEF CallersInStep
  <2>7. ServiceInStep'
    <3>1. \A g \in Starts : g > starts + 1 => g > starts /\ g # starts + 1
      BY <1>0 DEF Starts
    <3>2. QED  BY <1>0, <2>1, <2>2, <3>1 DEF ServiceInStep
  <2>8. QED  BY <2>1, <2>3, <2>4, <2>5, <2>6, <2>7, AccountsKept DEF DbWriterInv
<1>3. CASE Stop
  <2>1. /\ owner = "idle" /\ running /\ write_tx' = 0 /\ running' = FALSE
        /\ signalled' = [signalled EXCEPT ![write_tx] = TRUE]
        /\ UNCHANGED <<owner, starts, clone, offered, worker, batch, written, chan, accepted, ops>>
    BY <1>3 DEF Stop, clientVars, chanVars
  <2>2. write_tx = starts /\ starts \in Starts
    BY <1>0, <2>1 DEF ServiceInStep, Starts
  <2>3. TypeOK'
    <3>1. signalled' \in [Starts -> BOOLEAN]
      <4>1. signalled \in [Starts -> BOOLEAN] /\ TRUE \in BOOLEAN  BY <1>0
      <4>2. QED  BY ONLY <2>1, <2>2, <4>1
    <3>2. 0 \in 0 .. MaxStarts /\ FALSE \in BOOLEAN  OBVIOUS
    <3>3. QED  BY <1>0, <2>1, <3>1, <3>2 DEF TypeOK
  <2>4. BatchBelowSize'  BY <1>0, <2>1 DEF BatchBelowSize
  <2>5. OneWorkerServes'  BY <1>0, <2>1, <2>2 DEF OneWorkerServes
  <2>6. CallersInStep'  BY <1>0, <2>1 DEF CallersInStep
  <2>7. ServiceInStep'  BY <1>0, <2>1, <2>2 DEF ServiceInStep, Starts
  <2>8. QED  BY <2>1, <2>3, <2>4, <2>5, <2>6, <2>7, AccountsKept DEF DbWriterInv
<1>4. CASE DropService
  <2>1. /\ owner = "idle" /\ owner' = "gone" /\ write_tx' = 0
        /\ signalled' = IF write_tx = 0 THEN signalled
                        ELSE [signalled EXCEPT ![write_tx] = TRUE]
        /\ UNCHANGED <<running, starts, clone, offered, worker, batch, written, chan, accepted, ops>>
    BY <1>4 DEF DropService, clientVars, chanVars
  <2>2. write_tx # 0 => write_tx = starts /\ starts \in Starts /\ running
    BY <1>0 DEF ServiceInStep, Starts
  <2>3. TypeOK'  BY <1>0, <2>1, <2>2 DEF TypeOK
  <2>4. BatchBelowSize'  BY <1>0, <2>1 DEF BatchBelowSize
  <2>5. OneWorkerServes'
    <3>1. running => write_tx = starts /\ starts # 0  BY <1>0, <2>1 DEF ServiceInStep
    <3>2. QED  BY <1>0, <2>1, <2>2, <3>1 DEF OneWorkerServes
  <2>6. CallersInStep'  BY <1>0, <2>1 DEF CallersInStep
  <2>7. ServiceInStep'  BY <1>0, <2>1, <2>2 DEF ServiceInStep, Starts
  <2>8. QED  BY <2>1, <2>3, <2>4, <2>5, <2>6, <2>7, AccountsKept DEF DbWriterInv
<1>5. CASE TrySubmit
  <2>1. /\ write_tx # 0 /\ ops < MaxOps /\ HasRoom(write_tx) /\ Enqueue(write_tx, ops + 1)
        /\ ops' = ops + 1
        /\ UNCHANGED <<owner, running, write_tx, starts, clone, offered, signalled, worker,
                       batch, written>>
    BY <1>5 DEF TrySubmit, ownerVars, clientVars, workVars
  <2>2. write_tx \in Starts /\ ops + 1 \in Ops /\ ops + 1 \in 0 .. MaxOps
    BY <1>0, <2>1 DEF Starts, Ops
  <2>3. /\ OpsAccountedFor'
        /\ chan' \in [Starts -> Seq(Ops)] /\ accepted' \in [Starts -> Seq(Ops)]
        /\ \A h \in Starts : Len(chan'[h]) <= Capacity
    BY <2>1, <2>2, EnqueueKeeps
  <2>4. TypeOK'  BY <1>0, <2>1, <2>2, <2>3 DEF TypeOK
  <2>5. BatchBelowSize' /\ OneWorkerServes' /\ CallersInStep' /\ ServiceInStep'
    BY <1>0, <2>1 DEF BatchBelowSize, OneWorkerServes, CallersInStep, ServiceInStep
  <2>6. QED  BY <2>3, <2>4, <2>5 DEF DbWriterInv
<1>6. CASE Submit
  <2>1. /\ owner = "idle" /\ write_tx # 0 /\ ops < MaxOps /\ owner' = "submit"
        /\ offered' = [offered EXCEPT ![Owner] = ops + 1] /\ ops' = ops + 1
        /\ UNCHANGED <<running, write_tx, starts, clone, signalled, worker, batch, written,
                       chan, accepted>>
    BY <1>6 DEF Submit, workVars, chanVars
  <2>2. ops + 1 \in 0 .. MaxOps /\ ops + 1 # 0  BY <1>0, <2>1
  <2>3. TypeOK'  BY <1>0, <2>1, <2>2 DEF TypeOK
  <2>4. CallersInStep'
    <3>1. offered'[Owner] # 0 /\ \A c \in Clients : offered'[c] = offered[c]
      BY <1>0, <2>1, <2>2
    <3>2. QED  BY <1>0, <2>1, <3>1 DEF CallersInStep
  <2>5. BatchBelowSize' /\ OneWorkerServes' /\ ServiceInStep'
    BY <1>0, <2>1 DEF BatchBelowSize, OneWorkerServes, ServiceInStep
  <2>6. QED  BY <2>1, <2>3, <2>4, <2>5, AccountsKept DEF DbWriterInv
<1>7. CASE SubmitEnds
  <2>1. /\ owner = "submit" /\ SendEnds(Owner, write_tx) /\ owner' = "idle"
        /\ UNCHANGED <<running, write_tx, starts, clone, ops>> /\ UNCHANGED workVars
        /\ UNCHANGED <<signalled, worker, batch, written>>
    BY <1>7 DEF SubmitEnds, workVars
  <2>2. write_tx \in Starts /\ offered[Owner] # 0
    BY <1>0, <2>1 DEF CallersInStep, Starts
  <2>3. /\ OpsAccountedFor'
        /\ chan' \in [Starts -> Seq(Ops)] /\ accepted' \in [Starts -> Seq(Ops)]
        /\ \A h \in Starts : Len(chan'[h]) <= Capacity
        /\ offered' \in [Callers -> 0 .. MaxOps]
        /\ offered' = [offered EXCEPT ![Owner] = 0]
    BY <1>0, <2>1, <2>2, SendKeeps
  <2>4. TypeOK'  BY <1>0, <2>1, <2>3 DEF TypeOK
  <2>5. CallersInStep'
    <3>1. offered'[Owner] = 0 /\ \A c \in Clients : offered'[c] = offered[c]
      BY <1>0, <2>3
    <3>2. QED  BY <1>0, <2>1, <3>1 DEF CallersInStep
  <2>6. BatchBelowSize' /\ OneWorkerServes' /\ ServiceInStep'
    BY <1>0, <2>1 DEF BatchBelowSize, OneWorkerServes, ServiceInStep
  <2>7. QED  BY <2>3, <2>4, <2>5, <2>6 DEF DbWriterInv
<1>8. ASSUME NEW c \in Clients, GetSender(c)
      PROVE  DbWriterInv'
  <2>1. /\ write_tx # 0 /\ clone' = [clone EXCEPT ![c] = write_tx]
        /\ UNCHANGED <<owner, running, write_tx, starts, offered, signalled, worker, batch,
                       written, chan, accepted, ops>>
    BY <1>8 DEF GetSender, ownerVars, workVars, chanVars
  <2>2. TypeOK'  BY <1>0, <2>1 DEF TypeOK
  <2>3. CallersInStep'  BY <1>0, <2>1 DEF CallersInStep
  <2>4. BatchBelowSize' /\ OneWorkerServes' /\ ServiceInStep'
    BY <1>0, <2>1 DEF BatchBelowSize, OneWorkerServes, ServiceInStep
  <2>5. QED  BY <2>1, <2>2, <2>3, <2>4, AccountsKept DEF DbWriterInv
<1>9. ASSUME NEW c \in Clients, Send(c)
      PROVE  DbWriterInv'
  <2>1. /\ clone[c] # 0 /\ ops < MaxOps
        /\ offered' = [offered EXCEPT ![c] = ops + 1] /\ ops' = ops + 1
        /\ UNCHANGED <<owner, running, write_tx, starts, clone, signalled, worker, batch,
                       written, chan, accepted>>
    BY <1>9 DEF Send, ownerVars, workVars, chanVars
  <2>2. ops + 1 \in 0 .. MaxOps /\ c \in Callers /\ c # Owner  BY <1>0, <2>1
  <2>3. TypeOK'  BY <1>0, <2>1, <2>2 DEF TypeOK
  <2>4. CallersInStep'
    <3>1. offered'[Owner] = offered[Owner]  BY <1>0, <2>1, <2>2
    <3>2. \A d \in Clients : d # c => offered'[d] = offered[d]  BY <1>0, <2>1
    <3>3. QED  BY <1>0, <2>1, <3>1, <3>2 DEF CallersInStep
  <2>5. BatchBelowSize' /\ OneWorkerServes' /\ ServiceInStep'
    BY <1>0, <2>1 DEF BatchBelowSize, OneWorkerServes, ServiceInStep
  <2>6. QED  BY <2>1, <2>3, <2>4, <2>5, AccountsKept DEF DbWriterInv
<1>10. ASSUME NEW c \in Clients, ClientSendEnds(c)
       PROVE  DbWriterInv'
  <2>1. /\ offered[c] # 0 /\ SendEnds(c, clone[c]) /\ UNCHANGED workVars
        /\ UNCHANGED <<owner, running, write_tx, starts, clone, signalled, worker, batch,
                       written, ops>>
    BY <1>10 DEF ClientSendEnds, ownerVars, workVars
  <2>2. clone[c] \in Starts /\ c \in Callers /\ c # Owner
    BY <1>0, <2>1 DEF CallersInStep, Starts
  <2>3. /\ OpsAccountedFor'
        /\ chan' \in [Starts -> Seq(Ops)] /\ accepted' \in [Starts -> Seq(Ops)]
        /\ \A h \in Starts : Len(chan'[h]) <= Capacity
        /\ offered' \in [Callers -> 0 .. MaxOps]
        /\ offered' = [offered EXCEPT ![c] = 0]
    BY <2>1, <2>2, SendKeeps
  <2>4. TypeOK'  BY <1>0, <2>1, <2>3 DEF TypeOK
  <2>5. CallersInStep'
    <3>1. offered'[Owner] = offered[Owner]  BY <1>0, <2>2, <2>3
    <3>2. \A d \in Clients : offered'[d] # 0 => offered[d] # 0  BY <1>0, <2>3
    <3>3. QED  BY <1>0, <2>1, <3>1, <3>2 DEF CallersInStep
  <2>6. BatchBelowSize' /\ OneWorkerServes' /\ ServiceInStep'
    BY <1>0, <2>1 DEF BatchBelowSize, OneWorkerServes, ServiceInStep
  <2>7. QED  BY <2>3, <2>4, <2>5, <2>6 DEF DbWriterInv
<1>11. ASSUME NEW c \in Clients, DropSender(c)
       PROVE  DbWriterInv'
  <2>1. /\ offered[c] = 0 /\ clone' = [clone EXCEPT ![c] = 0]
        /\ UNCHANGED <<owner, running, write_tx, starts, offered, signalled, worker, batch,
                       written, chan, accepted, ops>>
    BY <1>11 DEF DropSender, ownerVars, workVars, chanVars
  <2>2. TypeOK'  BY <1>0, <2>1 DEF TypeOK
  <2>3. CallersInStep'  BY <1>0, <2>1 DEF CallersInStep
  <2>4. BatchBelowSize' /\ OneWorkerServes' /\ ServiceInStep'
    BY <1>0, <2>1 DEF BatchBelowSize, OneWorkerServes, ServiceInStep
  <2>5. QED  BY <2>1, <2>2, <2>3, <2>4, AccountsKept DEF DbWriterInv
<1>12. ASSUME NEW g \in Starts, Work(g)
       PROVE  DbWriterInv'
  <2>1. CASE Shutdown(g)  BY <2>1, EndKeeps DEF Shutdown
  <2>2. CASE Receive(g)  BY <2>2, ReceiveKeeps
  <2>3. CASE ChannelEnds(g)
    <3>1. signalled[g]
      BY <1>0, <2>3 DEF ChannelEnds, OneWorkerServes, ServiceInStep
    <3>2. QED  BY <2>3, <3>1, EndKeeps DEF ChannelEnds
  <2>4. QED  BY <1>12, <2>1, <2>2, <2>3 DEF Work
<1>13. QED
  BY <1>1, <1>2, <1>3, <1>4, <1>5, <1>6, <1>7, <1>8, <1>9, <1>10, <1>11, <1>12
  DEF Next, Service

-----------------------------------------------------------------------------

\* The invariant of the writer service, its owner, the holders of its sender and
\* the workers of all its starts.
THEOREM DbWriterInvAlways == Spec => []DbWriterInv
<1>1. QED  BY InitInv, StepInv, PTL DEF Spec

\* Types: in particular, no channel holds more than its capacity.
THEOREM TypeOKAlways == Spec => []TypeOK
<1>1. DbWriterInv => TypeOK  BY DEF DbWriterInv
<1>2. QED  BY <1>1, DbWriterInvAlways, PTL

\* submit, worker and process_batch: no accepted operation is lost, duplicated or
\* reordered while its worker runs.
THEOREM OpsAccountedForAlways == Spec => []OpsAccountedFor
<1>1. DbWriterInv => OpsAccountedFor  BY DEF DbWriterInv
<1>2. QED  BY <1>1, DbWriterInvAlways, PTL

\* The worker's batch: less than batch_size is kept back, nothing after the end.
THEOREM BatchBelowSizeAlways == Spec => []BatchBelowSize
<1>1. DbWriterInv => BatchBelowSize  BY DEF DbWriterInv
<1>2. QED  BY <1>1, DbWriterInvAlways, PTL

\* start and stop: the last start's worker serves the service's channel, every
\* other one has been told to end.
THEOREM OneWorkerServesAlways == Spec => []OneWorkerServes
<1>1. DbWriterInv => OneWorkerServes  BY DEF DbWriterInv
<1>2. QED  BY <1>1, DbWriterInvAlways, PTL

=============================================================================
