-------------------------- MODULE ConnectorPoolProofs --------------------------
(***************************************************************************)
(* Proofs about ConnectorPool: PoolInv is inductive, for every set of      *)
(* clients, every max_size and min_size and any number of connections.     *)
(***************************************************************************)
EXTENDS ConnectorPool, FiniteSetTheorems, SequenceTheorems, TLAPS

USE SizesAssumption, NoneAssumption

\* The parts of PoolInv that say where connections are.
ConnInv == TypeOK /\ OwnersDistinct /\ OpenIsOwned /\ NoStateLeaks /\ ConnsInStep

-----------------------------------------------------------------------------
(* The semaphore. *)

\* The number of permits is a natural number, and so is the number of holders.
LEMMA HoldersCounted ==
  ASSUME TypeOK, IsFiniteSet(Holders)
  PROVE  Cardinality(Holders) \in Nat /\ WarmerHolds \in {0, 1} /\ permits \in Nat
BY FS_CardinalityType DEF TypeOK, WarmerHolds

\* A client takes a permit.
LEMMA PermitTaken ==
  ASSUME PoolInv, NEW c \in Clients \ Holders, Holders' = Holders \cup {c},
         permits > 0, permits' = permits - 1, WarmerHolds' = WarmerHolds
  PROVE  IsFiniteSet(Holders)' /\ PermitsAccountedFor' /\ permits' \in 0 .. MaxSize
<1>1. IsFiniteSet(Holders') /\ Cardinality(Holders') = Cardinality(Holders) + 1
  BY FS_AddElement DEF PoolInv
<1>2. Cardinality(Holders) \in Nat /\ WarmerHolds \in {0, 1} /\ permits \in Nat
  BY HoldersCounted DEF PoolInv
<1> QED  BY <1>1, <1>2 DEF PoolInv, PermitsAccountedFor

\* A client gives its permit back.
LEMMA PermitFreed ==
  ASSUME PoolInv, NEW c \in Holders, Holders' = Holders \ {c},
         permits' = permits + 1, WarmerHolds' = WarmerHolds
  PROVE  IsFiniteSet(Holders)' /\ PermitsAccountedFor' /\ permits' \in 0 .. MaxSize
<1>1. /\ IsFiniteSet(Holders') /\ Cardinality(Holders') = Cardinality(Holders) - 1
      /\ Cardinality(Holders') \in Nat
  BY FS_RemoveElement, FS_CardinalityType DEF PoolInv
<1>2. Cardinality(Holders) \in Nat /\ WarmerHolds \in {0, 1} /\ permits \in Nat
  BY HoldersCounted DEF PoolInv
<1> QED  BY <1>1, <1>2 DEF PoolInv, PermitsAccountedFor

\* Nobody but the prewarm task takes or frees a permit.
LEMMA PermitOfWarmer ==
  ASSUME PoolInv, Holders' = Holders, WarmerHolds' \in {0, 1}, permits' \in Int,
         permits' + WarmerHolds' = permits + WarmerHolds, permits' >= 0
  PROVE  IsFiniteSet(Holders)' /\ PermitsAccountedFor' /\ permits' \in 0 .. MaxSize
<1>1. Cardinality(Holders) \in Nat /\ WarmerHolds \in {0, 1} /\ permits \in Nat
  BY HoldersCounted DEF PoolInv
<1>2. IsFiniteSet(Holders') /\ Cardinality(Holders') = Cardinality(Holders)
  BY DEF PoolInv
<1>3. permits + Cardinality(Holders) + WarmerHolds = MaxSize
  BY DEF PoolInv, PermitsAccountedFor
<1> DEFINE q == permits'  v == WarmerHolds'  w == WarmerHolds  n == Cardinality(Holders)
<1>4. /\ q \in Nat /\ v \in Nat /\ w \in Nat /\ n \in Nat /\ permits \in Nat
      /\ q + v = permits + w /\ permits + n + w = MaxSize
  <2>1. q \in Nat OBVIOUS
  <2>2. v \in Nat OBVIOUS
  <2>3. w \in Nat BY <1>1
  <2>4. n \in Nat BY <1>1
  <2>5. q + v = permits + w OBVIOUS
  <2>6. permits + n + w = MaxSize BY <1>3
  <2> QED BY <1>1, <2>1, <2>2, <2>3, <2>4, <2>5, <2>6
<1>5. q + n + v = MaxSize /\ q \in 0 .. MaxSize
  <2> HIDE DEF q, v, w, n
  <2> QED  BY <1>4
<1> QED  BY <1>2, <1>5 DEF PermitsAccountedFor

\* Every step of every client, disposal and prewarm task keeps the permits.
LEMMA PermitsKept ==
  ASSUME PoolInv, [Next]_vars
  PROVE  IsFiniteSet(Holders)' /\ PermitsAccountedFor' /\ permits' \in 0 .. MaxSize
<1> DEFINE Goal == IsFiniteSet(Holders)' /\ PermitsAccountedFor' /\ permits' \in 0 .. MaxSize
<1>0. /\ pc \in [Clients -> {"out", "wait", "take", "check", "connect", "using", "release"}]
      /\ permits \in Nat /\ WarmerHolds \in {0, 1}
  BY DEF PoolInv, TypeOK, WarmerHolds
<1> USE <1>0
<1>1. ASSUME UNCHANGED <<pc, permits, warmer>>  PROVE Goal
  BY <1>1, PermitOfWarmer DEF Holders, WarmerHolds
<1>2. ASSUME NEW c \in Clients, AcquirePermit(c)  PROVE Goal
  <2>1. Holders' = Holders \cup {c} /\ c \notin Holders
    BY <1>2 DEF AcquirePermit, Goto, Holders
  <2> QED  BY <1>2, <2>1, PermitTaken DEF AcquirePermit, WarmerHolds, warmVars
<1>3. ASSUME NEW c \in Clients,
             CheckoutFails(c) \/ DropSession(c) \/ ReleaseReturns(c)
      PROVE  Goal
  <2>1. pc[c] \in {"take", "check", "connect", "using", "release"} /\ pc' = [pc EXCEPT ![c] = "out"]
        /\ permits' = permits + 1 /\ warmer' = warmer
    BY <1>3 DEF CheckoutFails, DropSession, ReleaseReturns, Goto, warmVars
  <2>2. Holders' = Holders \ {c} /\ c \in Holders
    BY <2>1 DEF Holders
  <2> QED  BY <2>1, <2>2, PermitFreed DEF WarmerHolds
<1>4. ASSUME NEW c \in Clients,
             \/ Checkout(c) \/ CheckoutTimesOut(c) \/ TakeIdle(c) \/ ReuseConn(c)
             \/ ReplaceConn(c) \/ Connect(c) \/ Release(c)
      PROVE  Goal
  <2>1. \E p \in {"out", "wait", "check", "connect", "using", "release"} :
          /\ pc' = [pc EXCEPT ![c] = p] /\ permits' = permits /\ warmer' = warmer
          /\ p \in {"out", "wait"} <=> pc[c] \in {"out", "wait"}
    BY <1>4 DEF Checkout, CheckoutTimesOut, TakeIdle, ReuseConn, ReplaceConn, Connect, Release,
                Goto, warmVars
  <2>2. Holders' = Holders
    BY <2>1 DEF Holders
  <2> QED  BY <2>1, <2>2, PermitOfWarmer DEF WarmerHolds
<1>5. ASSUME Prewarm  PROVE Goal
  <2>1. Holders' = Holders
    BY <1>5 DEF Prewarm, PrewarmLooks, PrewarmTries, PrewarmConnects, PrewarmFails,
                PrewarmReturns, PrewarmSleeps, clientVars, Holders
  <2>2. /\ permits' \in Int /\ permits' >= 0 /\ WarmerHolds' \in {0, 1}
        /\ permits' + WarmerHolds' = permits + WarmerHolds
    BY <1>5 DEF Prewarm, PrewarmLooks, PrewarmTries, PrewarmConnects, PrewarmFails,
                PrewarmReturns, PrewarmSleeps, WarmerHolds
  <2> QED  BY <2>1, <2>2, PermitOfWarmer
<1>6. ASSUME NEW c \in Clients, Use(c)  PROVE Goal
  BY <1>1, <1>6 DEF Use, clientVars, warmVars
<1>7. ASSUME NEW k \in Conns, Dispose(k) \/ Breaks(k) \/ Expires(k)  PROVE Goal
  BY <1>1, <1>7 DEF Dispose, DisposeReset, DisposeClose, DisposeReturn, Breaks, Expires,
                    clientVars, warmVars
<1>8. CASE UNCHANGED vars
  BY <1>1, <1>8 DEF vars, clientVars, warmVars
<1> QED  BY <1>2, <1>3, <1>4, <1>5, <1>6, <1>7, <1>8 DEF Next, SessionStep, Checks

-----------------------------------------------------------------------------
(* The connections. *)

\* The stack after its top was taken.
LEMMA PopIdle ==
  ASSUME idle \in Seq(Conns), idle # <<>>
  PROVE  /\ Front(idle) \in Seq(Conns) /\ Len(Front(idle)) = Len(idle) - 1
         /\ \A i \in 1 .. Len(idle) - 1 : Front(idle)[i] = idle[i]
         /\ Len(idle) \in DOMAIN idle /\ DOMAIN Front(idle) = 1 .. Len(idle) - 1
         /\ DOMAIN idle = 1 .. Len(idle) /\ Last(idle) = idle[Len(idle)] /\ Last(idle) \in Conns
<1> DEFINE n == Len(idle)
<1>1. n \in Nat \ {0} /\ DOMAIN idle = 1 .. n /\ \A i \in 1 .. n : idle[i] \in Conns
  BY EmptySeq, LenProperties
<1>2. n - 1 \in Nat /\ \A i \in 1 .. n - 1 : idle[i] \in Conns
  BY <1>1
<1> HIDE DEF n
<1>3. /\ SubSeq(idle, 1, n - 1) \in Seq(Conns) /\ Len(SubSeq(idle, 1, n - 1)) = n - 1
      /\ \A i \in 1 .. n - 1 : SubSeq(idle, 1, n - 1)[i] = idle[i]
  BY <1>1, <1>2, SubSeqProperties
<1>4. Front(idle) = SubSeq(idle, 1, n - 1) /\ Last(idle) = idle[n]
  BY DEF Front, Last, n
<1>5. DOMAIN Front(idle) = 1 .. n - 1
  BY <1>3, <1>4, LenProperties
<1> QED  BY <1>1, <1>3, <1>4, <1>5 DEF n

\* The stack after a connection was put back.
LEMMA PushIdle ==
  ASSUME idle \in Seq(Conns), NEW k \in Conns
  PROVE  /\ Append(idle, k) \in Seq(Conns)
         /\ DOMAIN Append(idle, k) = 1 .. Len(idle) + 1 /\ DOMAIN idle = 1 .. Len(idle)
         /\ \A i \in 1 .. Len(idle) : Append(idle, k)[i] = idle[i]
         /\ Append(idle, k)[Len(idle) + 1] = k /\ Len(idle) \in Nat
OBVIOUS

\* Steps of a client that move it without moving a connection.
LEMMA ClientMoves ==
  ASSUME ConnInv, permits' \in 0 .. MaxSize, NEW c \in Clients,
         Checkout(c) \/ AcquirePermit(c) \/ CheckoutTimesOut(c) \/ ReuseConn(c)
         \/ ReleaseReturns(c)
  PROVE  ConnInv'
<1>1. /\ UNCHANGED <<idle, nextId, connVars, conn, disposal, warmVars>>
      /\ \E p \in {"out", "wait", "take", "using"} :
           /\ pc' = [pc EXCEPT ![c] = p]
           /\ p = "using" => pc[c] = "check"
           /\ p # "using" => conn[c] = None
  BY DEF ConnInv, ConnsInStep, Checkout, AcquirePermit, CheckoutTimesOut, ReuseConn,
         ReleaseReturns, Goto
<1> USE DEF connVars, warmVars
<1>2. TypeOK'  BY <1>1 DEF ConnInv, TypeOK
<1>3. OwnersDistinct'  BY <1>1 DEF ConnInv, TypeOK, OwnersDistinct
<1>4. OpenIsOwned'  BY <1>1 DEF ConnInv, TypeOK, OpenIsOwned, Owned
<1>5. NoStateLeaks'  BY <1>1 DEF ConnInv, TypeOK, NoStateLeaks, ConnsInStep
<1>6. ConnsInStep'  BY <1>1 DEF ConnInv, TypeOK, ConnsInStep
<1> QED  BY <1>2, <1>3, <1>4, <1>5, <1>6 DEF ConnInv

\* A checkout takes the top of the stack, if there is one.
LEMMA TakeIdleKeeps ==
  ASSUME ConnInv, NEW c \in Clients, TakeIdle(c)
  PROVE  ConnInv'
<1>1. /\ UNCHANGED <<permits, nextId, connVars, disposal, warmVars>> /\ pc[c] = "take"
      /\ idle \in Seq(Conns) /\ conn \in [Clients -> Conns \cup {None}]
      /\ pc \in [Clients -> {"out", "wait", "take", "check", "connect", "using", "release"}]
      /\ conn[c] = None
  BY DEF TakeIdle, ConnInv, TypeOK, ConnsInStep
<1> USE DEF connVars, warmVars
<1>2. CASE idle = <<>>
  <2>1. pc' = [pc EXCEPT ![c] = "connect"] /\ UNCHANGED <<idle, conn>>
    BY <1>2 DEF TakeIdle, Goto
  <2>2. TypeOK'  BY <1>1, <2>1 DEF ConnInv, TypeOK
  <2>3. OwnersDistinct'  BY <1>1, <2>1 DEF ConnInv, OwnersDistinct
  <2>4. OpenIsOwned'  BY <1>1, <2>1 DEF ConnInv, OpenIsOwned, Owned
  <2>5. NoStateLeaks'  BY <1>1, <2>1 DEF ConnInv, NoStateLeaks
  <2>6. ConnsInStep'  BY <1>1, <2>1 DEF ConnInv, ConnsInStep
  <2> QED  BY <2>2, <2>3, <2>4, <2>5, <2>6 DEF ConnInv
<1>3. CASE idle # <<>>
  <2> DEFINE k == Last(idle)
             n == Len(idle)
  <2>1. /\ pc' = [pc EXCEPT ![c] = "check"] /\ conn' = [conn EXCEPT ![c] = k]
        /\ idle' = Front(idle)
    BY <1>3 DEF TakeIdle, Goto
  <2>2. /\ idle' \in Seq(Conns) /\ DOMAIN idle' = 1 .. n - 1 /\ DOMAIN idle = 1 .. n
        /\ n \in Nat \ {0} /\ k = idle[n] /\ k \in Conns
        /\ \A i \in 1 .. n - 1 : idle'[i] = idle[i]
    BY <1>1, <1>3, <2>1, PopIdle
  <2> HIDE DEF k, n
  <2>3. TypeOK'  BY <1>1, <2>1, <2>2 DEF ConnInv, TypeOK
  <2>4. OwnersDistinct'  BY <1>1, <2>1, <2>2 DEF ConnInv, OwnersDistinct
  <2>5. OpenIsOwned'
    <3> SUFFICES ASSUME NEW h \in Conns PROVE Owned(h)' <=> Owned(h)
      BY <1>1 DEF ConnInv, OpenIsOwned
    <3>1. CASE h = k
      BY <1>1, <2>1, <2>2, <3>1 DEF Owned
    <3>2. CASE h # k
      <4>1. (\E i \in DOMAIN idle' : idle'[i] = h) <=> (\E i \in DOMAIN idle : idle[i] = h)
        BY <2>2, <3>2
      <4>2. (\E d \in Clients : conn'[d] = h) <=> (\E d \in Clients : conn[d] = h)
        BY <1>1, <2>1, <3>2
      <4> QED  BY <1>1, <4>1, <4>2 DEF Owned
    <3> QED  BY <3>1, <3>2
  <2>6. NoStateLeaks'  BY <1>1, <2>1 DEF ConnInv, NoStateLeaks
  <2>7. ConnsInStep'  BY <1>1, <2>1, <2>2 DEF ConnInv, ConnsInStep
  <2> QED  BY <2>3, <2>4, <2>5, <2>6, <2>7 DEF ConnInv
<1> QED  BY <1>2, <1>3

\* A connection that is not used again is closed, and a new one is to be made.
LEMMA ReplaceConnKeeps ==
  ASSUME ConnInv, NEW c \in Clients, ReplaceConn(c)
  PROVE  ConnInv'
<1> DEFINE k == conn[c]
<1>1. /\ pc[c] = "check" /\ k \in Conns /\ k # None
      /\ conn' = [conn EXCEPT ![c] = None] /\ pc' = [pc EXCEPT ![c] = "connect"]
      /\ open' = open \ {k} /\ dirty' = dirty \ {k}
      /\ broken' = broken \ {k} /\ expired' = expired \ {k}
      /\ UNCHANGED <<permits, idle, nextId, disposal, warmVars>>
  BY DEF ReplaceConn, Discard, Goto, ConnInv, TypeOK, ConnsInStep
<1> HIDE DEF k
<1> USE DEF warmVars
<1>2. TypeOK'  BY <1>1 DEF ConnInv, TypeOK
<1>3. OwnersDistinct'  BY <1>1 DEF ConnInv, TypeOK, OwnersDistinct
<1>4. OpenIsOwned'
  BY <1>1 DEF ConnInv, TypeOK, OwnersDistinct, OpenIsOwned, Owned, k
<1>5. NoStateLeaks'  BY <1>1 DEF ConnInv, TypeOK, NoStateLeaks, k
<1>6. ConnsInStep'  BY <1>1 DEF ConnInv, TypeOK, ConnsInStep
<1> QED  BY <1>2, <1>3, <1>4, <1>5, <1>6 DEF ConnInv

\* The number that next_id gives was never a connection.
LEMMA NextIdIsFresh ==
  ASSUME ConnInv, nextId \in Conns
  PROVE  /\ nextId \notin open \cup dirty \cup broken \cup expired
         /\ ~Owned(nextId)
BY DEF ConnInv, TypeOK, OpenIsOwned

\* A session begins with a connection of its own.
LEMMA ConnectKeeps ==
  ASSUME ConnInv, NEW c \in Clients, Connect(c)
  PROVE  ConnInv'
<1>1. /\ pc[c] = "connect" /\ nextId \in Conns /\ nextId # None /\ conn[c] = None
      /\ conn' = [conn EXCEPT ![c] = nextId] /\ pc' = [pc EXCEPT ![c] = "using"]
      /\ nextId' = nextId + 1 /\ open' = open \cup {nextId}
      /\ UNCHANGED <<permits, idle, dirty, broken, expired, disposal, warmVars>>
  BY DEF Connect, NewConn, Goto, ConnInv, TypeOK, ConnsInStep
<1>2. nextId \notin open \cup dirty \cup broken \cup expired /\ ~Owned(nextId)
  BY <1>1, NextIdIsFresh
<1> USE DEF warmVars
<1>3. TypeOK'  BY <1>1 DEF ConnInv, TypeOK, Conns
<1>4. OwnersDistinct'  BY <1>1, <1>2 DEF ConnInv, TypeOK, OwnersDistinct, Owned
<1>5. OpenIsOwned'
  <2> SUFFICES ASSUME NEW h \in Conns PROVE h \in open' <=> Owned(h)'
    BY DEF OpenIsOwned
  <2>1. CASE h = nextId
    BY <1>1, <2>1 DEF ConnInv, TypeOK, Owned
  <2>2. CASE h # nextId
    <3>1. (\E d \in Clients : conn'[d] = h) <=> (\E d \in Clients : conn[d] = h)
      BY <1>1, <2>2 DEF ConnInv, TypeOK
    <3> QED  BY <1>1, <2>2, <3>1 DEF ConnInv, OpenIsOwned, Owned
  <2> QED  BY <2>1, <2>2
<1>6. NoStateLeaks'  BY <1>1, <1>2 DEF ConnInv, TypeOK, NoStateLeaks
<1>7. ConnsInStep'  BY <1>1 DEF ConnInv, TypeOK, ConnsInStep
<1> QED  BY <1>3, <1>4, <1>5, <1>6, <1>7 DEF ConnInv

\* A checkout that fails drops the connection it had taken, if any.
LEMMA FailedCheckoutKeeps ==
  ASSUME ConnInv, permits' \in 0 .. MaxSize, NEW c \in Clients, CheckoutFails(c)
  PROVE  ConnInv'
<1> DEFINE k == conn[c]
<1>1. /\ pc[c] \in {"take", "check", "connect"}
      /\ conn' = [conn EXCEPT ![c] = None] /\ pc' = [pc EXCEPT ![c] = "out"]
      /\ open' = open \ {k} /\ dirty' = dirty \ {k}
      /\ broken' = broken \ {k} /\ expired' = expired \ {k}
      /\ UNCHANGED <<idle, nextId, disposal, warmVars>>
  BY DEF CheckoutFails, Discard, Goto, ConnInv, TypeOK, connVars, Conns
<1> HIDE DEF k
<1> USE DEF warmVars
<1>2. TypeOK'  BY <1>1 DEF ConnInv, TypeOK
<1>3. OwnersDistinct'  BY <1>1 DEF ConnInv, TypeOK, OwnersDistinct
<1>4. OpenIsOwned'
  BY <1>1 DEF ConnInv, TypeOK, OwnersDistinct, OpenIsOwned, Owned, k
<1>5. NoStateLeaks'  BY <1>1 DEF ConnInv, TypeOK, NoStateLeaks, k
<1>6. ConnsInStep'  BY <1>1 DEF ConnInv, TypeOK, ConnsInStep
<1> QED  BY <1>2, <1>3, <1>4, <1>5, <1>6 DEF ConnInv

\* A session leaves state in its own connection only.
LEMMA UseKeeps ==
  ASSUME ConnInv, NEW c \in Clients, Use(c)
  PROVE  ConnInv'
<1>1. /\ pc[c] = "using" /\ conn[c] \in open /\ dirty' = dirty \cup {conn[c]}
      /\ UNCHANGED <<permits, idle, nextId, open, broken, expired, pc, conn, disposal, warmVars>>
  BY DEF Use, clientVars, ConnInv, TypeOK, ConnsInStep, OpenIsOwned, Owned
<1> USE DEF warmVars
<1>2. TypeOK'  BY <1>1 DEF ConnInv, TypeOK
<1>3. OwnersDistinct'  BY <1>1 DEF ConnInv, OwnersDistinct
<1>4. OpenIsOwned'  BY <1>1 DEF ConnInv, OpenIsOwned, Owned
<1>5. NoStateLeaks'  BY <1>1 DEF ConnInv, NoStateLeaks
<1>6. ConnsInStep'  BY <1>1 DEF ConnInv, ConnsInStep
<1> QED  BY <1>2, <1>3, <1>4, <1>5, <1>6 DEF ConnInv

\* A session is given back: its connection is to be reset, by release(), which
\* keeps hold of it, or by the task of a dropped session.
LEMMA GivenBack ==
  ASSUME ConnInv, permits' \in 0 .. MaxSize, NEW c \in Clients, Release(c) \/ DropSession(c)
  PROVE  ConnInv'
<1> DEFINE k == conn[c]
<1>1. /\ pc[c] = "using" /\ k \in Conns /\ k # None
      /\ disposal' = [disposal EXCEPT ![k] = "reset"]
      /\ \/ pc' = [pc EXCEPT ![c] = "release"] /\ conn' = conn
         \/ pc' = [pc EXCEPT ![c] = "out"] /\ conn' = [conn EXCEPT ![c] = None]
      /\ UNCHANGED <<idle, nextId, connVars, warmVars>>
  BY DEF Release, DropSession, Goto, ConnInv, TypeOK, ConnsInStep
<1> HIDE DEF k
<1> USE DEF connVars, warmVars
<1>2. TypeOK'  BY <1>1 DEF ConnInv, TypeOK
<1>3. OwnersDistinct'  BY <1>1 DEF ConnInv, TypeOK, OwnersDistinct, k
<1>4. OpenIsOwned'  BY <1>1 DEF ConnInv, TypeOK, OpenIsOwned, Owned, k
<1>5. NoStateLeaks'  BY <1>1 DEF ConnInv, TypeOK, NoStateLeaks, k
<1>6. ConnsInStep'  BY <1>1 DEF ConnInv, TypeOK, ConnsInStep
<1> QED  BY <1>2, <1>3, <1>4, <1>5, <1>6 DEF ConnInv

\* The reset succeeds: the connection is clean before it can become idle.
LEMMA DisposeResetKeeps ==
  ASSUME ConnInv, NEW k \in Conns, DisposeReset(k)
  PROVE  ConnInv'
<1>1. /\ disposal[k] = "reset" /\ dirty' = dirty \ {k}
      /\ disposal' = [disposal EXCEPT ![k] = "return"]
      /\ UNCHANGED <<permits, idle, nextId, open, broken, expired, pc, conn, warmVars>>
  BY DEF DisposeReset, clientVars
<1> USE DEF warmVars
<1>2. TypeOK'  BY <1>1 DEF ConnInv, TypeOK
<1>3. OwnersDistinct'  BY <1>1 DEF ConnInv, TypeOK, OwnersDistinct
<1>4. OpenIsOwned'  BY <1>1 DEF ConnInv, TypeOK, OpenIsOwned, Owned
<1>5. NoStateLeaks'  BY <1>1 DEF ConnInv, TypeOK, NoStateLeaks
<1>6. ConnsInStep'  BY <1>1 DEF ConnInv, ConnsInStep
<1> QED  BY <1>2, <1>3, <1>4, <1>5, <1>6 DEF ConnInv

\* The connection is closed instead.
LEMMA DisposeCloseKeeps ==
  ASSUME ConnInv, NEW k \in Conns, DisposeClose(k)
  PROVE  ConnInv'
<1>1. /\ disposal[k] # "none" /\ disposal' = [disposal EXCEPT ![k] = "none"]
      /\ conn' = [c \in Clients |-> IF conn[c] = k THEN None ELSE conn[c]]
      /\ open' = open \ {k} /\ dirty' = dirty \ {k}
      /\ broken' = broken \ {k} /\ expired' = expired \ {k} /\ k # None
      /\ UNCHANGED <<permits, idle, nextId, pc, warmVars>>
  BY DEF DisposeClose, Disposed, Discard
<1> USE DEF warmVars
<1>2. TypeOK'  BY <1>1 DEF ConnInv, TypeOK
<1>3. OwnersDistinct'  BY <1>1 DEF ConnInv, TypeOK, OwnersDistinct
<1>4. OpenIsOwned'  BY <1>1 DEF ConnInv, TypeOK, OwnersDistinct, OpenIsOwned, Owned
<1>5. NoStateLeaks'  BY <1>1 DEF ConnInv, TypeOK, NoStateLeaks
<1>6. ConnsInStep'  BY <1>1 DEF ConnInv, TypeOK, ConnsInStep, OwnersDistinct
<1> QED  BY <1>2, <1>3, <1>4, <1>5, <1>6 DEF ConnInv

\* A clean connection goes back onto the stack.
LEMMA DisposeReturnKeeps ==
  ASSUME ConnInv, NEW k \in Conns, DisposeReturn(k)
  PROVE  ConnInv'
<1> DEFINE n == Len(idle)
<1>1. /\ disposal[k] = "return" /\ disposal' = [disposal EXCEPT ![k] = "none"]
      /\ conn' = [c \in Clients |-> IF conn[c] = k THEN None ELSE conn[c]]
      /\ expired' = expired \ {k} /\ k # None
      /\ UNCHANGED <<permits, nextId, open, dirty, broken, pc, warmVars>>
  BY DEF DisposeReturn, Disposed
<1>2. /\ idle' \in Seq(Conns) /\ DOMAIN idle' = 1 .. n + 1 /\ DOMAIN idle = 1 .. n
      /\ \A i \in 1 .. n : idle'[i] = idle[i]
      /\ idle'[n + 1] = k /\ n \in Nat
  BY PushIdle DEF DisposeReturn, ConnInv, TypeOK
<1> HIDE DEF n
<1> USE DEF warmVars
<1>3. TypeOK'  BY <1>1, <1>2 DEF ConnInv, TypeOK
<1>4. OwnersDistinct'  BY <1>1, <1>2 DEF ConnInv, TypeOK, OwnersDistinct
<1>5. OpenIsOwned'
  <2> SUFFICES ASSUME NEW h \in Conns PROVE Owned(h)' <=> Owned(h)
    BY <1>1 DEF ConnInv, OpenIsOwned
  <2>1. CASE h = k
    BY <1>1, <1>2, <2>1 DEF Owned
  <2>2. CASE h # k
    <3>1. (\E i \in DOMAIN idle' : idle'[i] = h) <=> (\E i \in DOMAIN idle : idle[i] = h)
      BY <1>2, <2>2
    <3>2. (\E d \in Clients : conn'[d] = h) <=> (\E d \in Clients : conn[d] = h)
      BY <1>1, <2>2
    <3> QED  BY <1>1, <2>2, <3>1, <3>2 DEF ConnInv, TypeOK, Owned
  <2> QED  BY <2>1, <2>2
<1>6. NoStateLeaks'  BY <1>1 DEF ConnInv, TypeOK, OwnersDistinct, NoStateLeaks
<1>7. ConnsInStep'  BY <1>1 DEF ConnInv, TypeOK, ConnsInStep, OwnersDistinct
<1> QED  BY <1>3, <1>4, <1>5, <1>6, <1>7 DEF ConnInv

\* The prewarm task looks at the stack, takes a permit, fails or goes to sleep:
\* no connection moves.
LEMMA PrewarmMoves ==
  ASSUME ConnInv, permits' \in 0 .. MaxSize,
         PrewarmLooks \/ PrewarmTries \/ PrewarmFails \/ PrewarmSleeps
  PROVE  ConnInv'
<1>1. /\ UNCHANGED <<idle, nextId, connVars, clientVars, disposal, warming>>
      /\ warming = None /\ warmer \in {"sleep", "add", "connect"}
      /\ warmer' \in {"sleep", "add", "connect"}
  BY DEF PrewarmLooks, PrewarmTries, PrewarmFails, PrewarmSleeps, ConnInv, ConnsInStep
<1>2. toAdd' \in 0 .. MinSize /\ (warmer' = "connect" => toAdd' > 0)
  <2>1. Len(idle) \in Nat /\ toAdd \in 0 .. MinSize
    BY LenProperties DEF ConnInv, TypeOK
  <2> QED  BY <2>1 DEF PrewarmLooks, PrewarmTries, PrewarmFails, PrewarmSleeps, ConnInv, ConnsInStep
<1> USE DEF connVars, clientVars
<1>3. TypeOK'  BY <1>1, <1>2 DEF ConnInv, TypeOK
<1>4. OwnersDistinct'  BY <1>1 DEF ConnInv, OwnersDistinct
<1>5. OpenIsOwned'  BY <1>1 DEF ConnInv, OpenIsOwned, Owned
<1>6. NoStateLeaks'  BY <1>1 DEF ConnInv, NoStateLeaks
<1>7. ConnsInStep'  BY <1>1, <1>2 DEF ConnInv, ConnsInStep
<1> QED  BY <1>3, <1>4, <1>5, <1>6, <1>7 DEF ConnInv

\* It makes a connection of its own.
LEMMA PrewarmConnectsKeeps ==
  ASSUME ConnInv, PrewarmConnects
  PROVE  ConnInv'
<1>1. /\ warmer = "connect" /\ warmer' = "return" /\ warming = None /\ warming' = nextId
      /\ nextId \in Conns /\ nextId # None
      /\ nextId' = nextId + 1 /\ open' = open \cup {nextId}
      /\ UNCHANGED <<permits, idle, dirty, broken, expired, pc, conn, disposal, toAdd>>
  BY DEF PrewarmConnects, NewConn, clientVars, ConnInv, ConnsInStep
<1>2. nextId \notin open \cup dirty \cup broken \cup expired /\ ~Owned(nextId)
  BY <1>1, NextIdIsFresh
<1>3. TypeOK'  BY <1>1 DEF ConnInv, TypeOK, Conns
<1>4. OwnersDistinct'  BY <1>1, <1>2 DEF ConnInv, TypeOK, OwnersDistinct, Owned
<1>5. OpenIsOwned'  BY <1>1, <1>2 DEF ConnInv, OpenIsOwned, Owned
<1>6. NoStateLeaks'  BY <1>1 DEF ConnInv, NoStateLeaks
<1>7. ConnsInStep'  BY <1>1 DEF ConnInv, ConnsInStep
<1> QED  BY <1>3, <1>4, <1>5, <1>6, <1>7 DEF ConnInv

\* It puts its connection onto the stack.
LEMMA PrewarmReturnsKeeps ==
  ASSUME ConnInv, permits' \in 0 .. MaxSize, PrewarmReturns
  PROVE  ConnInv'
<1> DEFINE n == Len(idle)
           k == warming
<1>1. /\ k \in Conns /\ k # None /\ warmer = "return" /\ warmer' = "add"
      /\ warming' = None /\ toAdd' = toAdd - 1 /\ toAdd > 0
      /\ UNCHANGED <<nextId, open, dirty, broken, expired, pc, conn, disposal>>
  BY DEF PrewarmReturns, connVars, clientVars, ConnInv, TypeOK, ConnsInStep
<1>2. /\ idle' \in Seq(Conns) /\ DOMAIN idle' = 1 .. n + 1 /\ DOMAIN idle = 1 .. n
      /\ \A i \in 1 .. n : idle'[i] = idle[i]
      /\ idle'[n + 1] = k /\ n \in Nat
  BY <1>1, PushIdle DEF PrewarmReturns, ConnInv, TypeOK
<1> HIDE DEF n
<1>3. TypeOK'  BY <1>1, <1>2 DEF ConnInv, TypeOK
<1>4. OwnersDistinct'  BY <1>1, <1>2 DEF ConnInv, TypeOK, OwnersDistinct
<1>5. OpenIsOwned'
  <2> SUFFICES ASSUME NEW h \in Conns PROVE Owned(h)' <=> Owned(h)
    BY <1>1 DEF ConnInv, OpenIsOwned
  <2>1. CASE h = k
    BY <1>1, <1>2, <2>1 DEF Owned
  <2>2. CASE h # k
    <3>1. (\E i \in DOMAIN idle' : idle'[i] = h) <=> (\E i \in DOMAIN idle : idle[i] = h)
      BY <1>2, <2>2
    <3> QED  BY <1>1, <2>2, <3>1 DEF Owned
  <2> QED  BY <2>1, <2>2
<1>6. NoStateLeaks'  BY <1>1 DEF ConnInv, NoStateLeaks
<1>7. ConnsInStep'  BY <1>1 DEF ConnInv, TypeOK, ConnsInStep
<1> QED  BY <1>3, <1>4, <1>5, <1>6, <1>7 DEF ConnInv

\* A connection breaks or ages where it is.
LEMMA ServerKeeps ==
  ASSUME ConnInv, NEW k \in Conns, Breaks(k) \/ Expires(k)
  PROVE  ConnInv'
<1>1. /\ UNCHANGED <<permits, idle, nextId, open, dirty, clientVars, disposal, warmVars>>
      /\ broken' \subseteq broken \cup open /\ expired' \subseteq expired \cup open
  BY DEF Breaks, Expires
<1> USE DEF clientVars, warmVars
<1>2. TypeOK'  BY <1>1 DEF ConnInv, TypeOK
<1>3. OwnersDistinct'  BY <1>1 DEF ConnInv, OwnersDistinct
<1>4. OpenIsOwned'  BY <1>1 DEF ConnInv, OpenIsOwned, Owned
<1>5. NoStateLeaks'  BY <1>1 DEF ConnInv, NoStateLeaks
<1>6. ConnsInStep'  BY <1>1 DEF ConnInv, ConnsInStep
<1> QED  BY <1>2, <1>3, <1>4, <1>5, <1>6 DEF ConnInv

\* Every step of every client, disposal and prewarm task, and of the server.
LEMMA ConnsKept ==
  ASSUME ConnInv, permits' \in 0 .. MaxSize, [Next]_vars
  PROVE  ConnInv'
<1>1. ASSUME NEW c \in Clients, SessionStep(c)  PROVE ConnInv'
  BY <1>1, ClientMoves, TakeIdleKeeps, ReplaceConnKeeps, ConnectKeeps, FailedCheckoutKeeps,
     UseKeeps, GivenBack DEF SessionStep, Checks
<1>2. ASSUME NEW k \in Conns, Dispose(k) \/ Breaks(k) \/ Expires(k)  PROVE ConnInv'
  BY <1>2, DisposeResetKeeps, DisposeCloseKeeps, DisposeReturnKeeps, ServerKeeps DEF Dispose
<1>3. CASE Prewarm
  BY <1>3, PrewarmMoves, PrewarmConnectsKeeps, PrewarmReturnsKeeps DEF Prewarm
<1>4. CASE UNCHANGED vars
  BY <1>4 DEF vars, connVars, clientVars, warmVars, ConnInv, TypeOK, OwnersDistinct,
              OpenIsOwned, Owned, NoStateLeaks, ConnsInStep
<1> QED  BY <1>1, <1>2, <1>3, <1>4 DEF Next

-----------------------------------------------------------------------------
(* The theorems. *)

\* A pool that Connector::new just made: all permits free, no connection.
LEMMA PoolInitInv == Init => PoolInv
<1> SUFFICES ASSUME Init PROVE PoolInv
  OBVIOUS
<1>1. TypeOK
  BY DEF Init, TypeOK
<1>2. Holders = {} /\ WarmerHolds = 0
  BY DEF Init, Holders, WarmerHolds
<1>3. IsFiniteSet(Holders) /\ PermitsAccountedFor
  BY <1>2, FS_EmptySet DEF Init, PermitsAccountedFor
<1>4. OwnersDistinct /\ OpenIsOwned /\ NoStateLeaks /\ ConnsInStep
  BY DEF Init, OwnersDistinct, OpenIsOwned, Owned, NoStateLeaks, ConnsInStep
<1> QED  BY <1>1, <1>3, <1>4 DEF PoolInv

\* PoolInv is an invariant of the pool: every interleaving of checkouts, releases,
\* drops, disposals and the prewarm task keeps it.
THEOREM PoolInvAlways == Spec => []PoolInv
<1>1. PoolInv /\ [Next]_vars => PoolInv'
  BY PermitsKept, ConnsKept DEF PoolInv, ConnInv
<1> QED  BY <1>1, PoolInitInv, PTL DEF Spec

\* Every variable of the pool keeps its type; permits stay within 0 .. max_size.
THEOREM PoolTypes == Spec => []TypeOK
BY PoolInvAlways, PTL DEF PoolInv

\* No path of session(), release(), Drop or try_add_one loses a permit or frees
\* one twice.
THEOREM PermitsAlwaysAccountedFor == Spec => []PermitsAccountedFor
BY PoolInvAlways, PTL DEF PoolInv

\* No session sees state that an earlier one left in its connection.
THEOREM StateNeverLeaks == Spec => []NoStateLeaks
BY PoolInvAlways, PTL DEF PoolInv

\* The owners of PoolInv, counted the way OneOwner counts them.
LEMMA OwnersCounted ==
  ASSUME PoolInv, NEW k \in Conns
  PROVE  Cardinality(Places(k)) = IF k \in open THEN 1 ELSE 0
<1>1. CASE k \notin open
  <2>1. Places(k) = {}
    BY <1>1 DEF PoolInv, OpenIsOwned, Owned, Places
  <2> QED  BY <1>1, <2>1, FS_EmptySet
<1>2. CASE k \in open
  <2>0. Owned(k) /\ k # None
    BY <1>2 DEF PoolInv, OpenIsOwned
  <2>1. \E p : Places(k) = {p}
    <3>1. ASSUME NEW i \in DOMAIN idle, idle[i] = k  PROVE Places(k) = {<<"idle", i>>}
      BY <3>1 DEF PoolInv, OwnersDistinct, Places
    <3>2. ASSUME NEW c \in Clients, conn[c] = k, pc[c] # "release"
          PROVE  Places(k) = {<<"client", c>>}
      BY <2>0, <3>2 DEF PoolInv, OwnersDistinct, Places
    <3>3. ASSUME disposal[k] # "none"  PROVE Places(k) = {<<"disposal", disposal[k]>>}
      BY <2>0, <3>3 DEF PoolInv, OwnersDistinct, Places
    <3>4. ASSUME warming = k  PROVE Places(k) = {<<"warmer", k>>}
      BY <2>0, <3>4 DEF PoolInv, OwnersDistinct, Places
    <3>5. ASSUME NEW c \in Clients, conn[c] = k, pc[c] = "release"  PROVE disposal[k] # "none"
      BY <2>0, <3>5 DEF PoolInv, OwnersDistinct
    <3> QED  BY <2>0, <3>1, <3>2, <3>3, <3>4, <3>5 DEF Owned
  <2> QED  BY <1>2, <2>1, FS_Singleton
<1> QED  BY <1>1, <1>2

\* Every open connection is in exactly one place, and a closed one in none: no two
\* sessions share a connection and none is leaked.
THEOREM OneOwnerAlways == Spec => []OneOwner
<1>1. PoolInv => OneOwner
  BY OwnersCounted DEF OneOwner
<1> QED  BY <1>1, PoolInvAlways, PTL

=============================================================================
