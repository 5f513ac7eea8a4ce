--------------------------- MODULE ConnectorPool ---------------------------
(***************************************************************************)
(* The connection pool (databases/abstractdatabase/src/client/             *)
(* connector.rs): a semaphore of max_size permits, a stack of idle         *)
(* connections, sessions that are checked out and given back, and an       *)
(* optional prewarm task.  A session is given back by release(), which     *)
(* awaits the reset of its connection and then frees its permit, or by     *)
(* being dropped, which frees the permit at once and leaves the reset to a *)
(* task of its own.  Futures can be dropped where they await.              *)
(*                                                                         *)
(* A connection is the number next_id gives it.                            *)
(***************************************************************************)
EXTENDS Naturals, Sequences, FiniteSets, SequencesExt

CONSTANTS
  Clients,    \* tasks that use sessions, one at a time
  MaxSize,    \* ConnectorConfig.max_size
  MinSize,    \* ConnectorConfig.min_size
  MaxConns,   \* bound: connections ever made
  None        \* no connection

Conns == 1 .. MaxConns

ASSUME SizesAssumption == MaxSize \in Nat /\ MinSize \in Nat /\ MaxConns \in Nat
ASSUME NoneAssumption == None \notin Conns

VARIABLES
  permits,    \* free permits of the semaphore
  idle,       \* Connector.idle, the most recent one last
  nextId,     \* Connector.next_id
  open,       \* connections that are neither closed nor dropped
  dirty,      \* connections with session state that was not reset
  broken,     \* connections that do not work any more
  expired,    \* connections unused for longer than max_idle
  pc,         \* where each client is
  conn,       \* the connection each client has
  disposal,   \* the step a connection that is given back is at
  warmer,     \* where the prewarm task is
  warming,    \* its connection
  toAdd       \* how many it still adds in this round

connVars == <<open, dirty, broken, expired>>
clientVars == <<pc, conn>>
warmVars == <<warmer, warming, toAdd>>
vars == <<permits, idle, nextId, connVars, clientVars, disposal, warmVars>>

TypeOK ==
  /\ permits \in 0 .. MaxSize
  /\ idle \in Seq(Conns)
  /\ nextId \in 1 .. MaxConns + 1
  /\ {open, dirty, broken, expired} \subseteq SUBSET (1 .. nextId - 1)
  /\ pc \in [Clients -> {"out", "wait", "take", "check", "connect", "using", "release"}]
  /\ conn \in [Clients -> Conns \cup {None}]
  /\ disposal \in [Conns -> {"none", "reset", "return"}]
  /\ warmer \in {"off", "sleep", "add", "connect", "return"}
  /\ warming \in Conns \cup {None}
  /\ toAdd \in 0 .. MinSize

\* Connector::new, and start_prewarm, which does nothing for a min_size of 0.
Init ==
  /\ permits = MaxSize /\ idle = <<>> /\ nextId = 1
  /\ open = {} /\ dirty = {} /\ broken = {} /\ expired = {}
  /\ pc = [c \in Clients |-> "out"] /\ conn = [c \in Clients |-> None]
  /\ disposal = [k \in Conns |-> "none"]
  /\ warmer = IF MinSize = 0 THEN "off" ELSE "sleep"
  /\ warming = None /\ toAdd = 0

Goto(c, p) == pc' = [pc EXCEPT ![c] = p]

\* Close or drop a connection.
Discard(k) ==
  /\ open' = open \ {k}
  /\ dirty' = dirty \ {k}
  /\ broken' = broken \ {k}
  /\ expired' = expired \ {k}

-----------------------------------------------------------------------------
(* Connector::session *)

Checkout(c) ==
  /\ pc[c] = "out"
  /\ Goto(c, "wait")
  /\ UNCHANGED <<permits, idle, nextId, connVars, conn, disposal, warmVars>>

AcquirePermit(c) ==
  /\ pc[c] = "wait" /\ permits > 0
  /\ permits' = permits - 1
  /\ Goto(c, "take")
  /\ UNCHANGED <<idle, nextId, connVars, conn, disposal, warmVars>>

\* checkout_timeout
CheckoutTimesOut(c) ==
  /\ pc[c] = "wait"
  /\ Goto(c, "out")
  /\ UNCHANGED <<permits, idle, nextId, connVars, conn, disposal, warmVars>>

\* Mutant: the connection is not popped.
TakeIdlePeeks(c) ==
  /\ pc[c] = "take"
  /\ IF idle = <<>>
     THEN Goto(c, "connect") /\ UNCHANGED conn
     ELSE conn' = [conn EXCEPT ![c] = Last(idle)] /\ Goto(c, "check")
  /\ UNCHANGED <<permits, idle, nextId, connVars, disposal, warmVars>>

TakeIdle(c) ==
  /\ pc[c] = "take"
  /\ IF idle = <<>>
     THEN Goto(c, "connect") /\ UNCHANGED <<idle, conn>>
     ELSE /\ conn' = [conn EXCEPT ![c] = Last(idle)]
          /\ idle' = Front(idle)
          /\ Goto(c, "check")
  /\ UNCHANGED <<permits, nextId, connVars, disposal, warmVars>>

\* Neither should_recycle nor a failed is_healthy: the session begins.
ReuseConn(c) ==
  /\ pc[c] = "check" /\ conn[c] \notin expired \cup broken
  /\ Goto(c, "using")
  /\ UNCHANGED <<permits, idle, nextId, connVars, conn, disposal, warmVars>>

\* Otherwise it is closed and replaced.  A ping can fail for other reasons than
\* a broken connection.
ReplaceConn(c) ==
  /\ pc[c] = "check"
  /\ Discard(conn[c])
  /\ conn' = [conn EXCEPT ![c] = None]
  /\ Goto(c, "connect")
  /\ UNCHANGED <<permits, idle, nextId, disposal, warmVars>>

NewConn ==
  /\ nextId \in Conns
  /\ nextId' = nextId + 1
  /\ open' = open \cup {nextId}
  /\ UNCHANGED <<dirty, broken, expired>>

Connect(c) ==
  /\ pc[c] = "connect"
  /\ NewConn
  /\ conn' = [conn EXCEPT ![c] = nextId]
  /\ Goto(c, "using")
  /\ UNCHANGED <<permits, idle, disposal, warmVars>>

\* Mutant: the permit of a checkout that fails is not freed.
CheckoutFailsKeeps(c) ==
  /\ pc[c] \in {"take", "check", "connect"}
  /\ IF conn[c] = None THEN UNCHANGED connVars ELSE Discard(conn[c])
  /\ conn' = [conn EXCEPT ![c] = None]
  /\ Goto(c, "out")
  /\ UNCHANGED <<permits, idle, nextId, disposal, warmVars>>

\* connect fails, or the caller drops the future: the permit, and a connection
\* that was taken, are dropped with it.
CheckoutFails(c) ==
  /\ pc[c] \in {"take", "check", "connect"}
  /\ IF conn[c] = None THEN UNCHANGED connVars ELSE Discard(conn[c])
  /\ conn' = [conn EXCEPT ![c] = None]
  /\ permits' = permits + 1
  /\ Goto(c, "out")
  /\ UNCHANGED <<idle, nextId, disposal, warmVars>>

-----------------------------------------------------------------------------
(* Session *)

\* The client works with conn_mut and leaves session state behind.
Use(c) ==
  /\ pc[c] = "using"
  /\ dirty' = dirty \cup {conn[c]}
  /\ UNCHANGED <<permits, idle, nextId, open, broken, expired, clientVars, disposal, warmVars>>

\* release(self): the client, and its permit, wait for the disposal.
Release(c) ==
  /\ pc[c] = "using"
  /\ disposal' = [disposal EXCEPT ![conn[c]] = "reset"]
  /\ Goto(c, "release")
  /\ UNCHANGED <<permits, idle, nextId, connVars, conn, warmVars>>

\* Drop: the connection moves to a task; then the permit is dropped.
DropSession(c) ==
  /\ pc[c] = "using"
  /\ disposal' = [disposal EXCEPT ![conn[c]] = "reset"]
  /\ conn' = [conn EXCEPT ![c] = None]
  /\ permits' = permits + 1
  /\ Goto(c, "out")
  /\ UNCHANGED <<idle, nextId, connVars, warmVars>>

\* Mutant: the reset is skipped.
DisposeResetSkipped(k) ==
  /\ disposal[k] = "reset" /\ k \notin broken \cup expired
  /\ disposal' = [disposal EXCEPT ![k] = "return"]
  /\ UNCHANGED <<permits, idle, nextId, connVars, clientVars, warmVars>>

\* release_inner and the task of a dropped session: reset and is_healthy succeed
\* and the connection is not to be recycled,
DisposeReset(k) ==
  /\ disposal[k] = "reset" /\ k \notin broken \cup expired
  /\ dirty' = dirty \ {k}
  /\ disposal' = [disposal EXCEPT ![k] = "return"]
  /\ UNCHANGED <<permits, idle, nextId, open, broken, expired, clientVars, warmVars>>

\* The disposal of k is over, and whoever awaits it can go on.
Disposed(k) ==
  /\ disposal' = [disposal EXCEPT ![k] = "none"]
  /\ conn' = [c \in Clients |-> IF conn[c] = k THEN None ELSE conn[c]]

\* Mutant: release() is not woken when its connection is closed.
DisposeCloseSilent(k) ==
  /\ disposal[k] # "none"
  /\ disposal[k] = "return" => \E c \in Clients : conn[c] = k
  /\ Discard(k)
  /\ disposal' = [disposal EXCEPT ![k] = "none"]
  /\ UNCHANGED <<permits, idle, nextId, clientVars, warmVars>>

\* .. or not; or the future of release() is dropped, and the connection with it.
DisposeClose(k) ==
  /\ disposal[k] # "none"
  /\ disposal[k] = "return" => \E c \in Clients : conn[c] = k
  /\ Discard(k)
  /\ Disposed(k)
  /\ UNCHANGED <<permits, idle, nextId, pc, warmVars>>

\* return_idle
DisposeReturn(k) ==
  /\ disposal[k] = "return"
  /\ idle' = Append(idle, k)
  /\ expired' = expired \ {k}
  /\ Disposed(k)
  /\ UNCHANGED <<permits, nextId, open, dirty, broken, pc, warmVars>>

\* release() is over: the Session is dropped, with nothing left but its permit.
ReleaseReturns(c) ==
  /\ pc[c] = "release" /\ conn[c] = None
  /\ permits' = permits + 1
  /\ Goto(c, "out")
  /\ UNCHANGED <<idle, nextId, connVars, conn, disposal, warmVars>>

-----------------------------------------------------------------------------
(* start_prewarm and try_add_one *)

PrewarmLooks ==
  /\ warmer = "sleep" /\ Len(idle) < MinSize
  /\ toAdd' = MinSize - Len(idle)
  /\ warmer' = "add"
  /\ UNCHANGED <<permits, idle, nextId, connVars, clientVars, disposal, warming>>

\* At capacity nothing is added.
PrewarmTries ==
  /\ warmer = "add" /\ toAdd > 0
  /\ IF permits > 0
     THEN permits' = permits - 1 /\ warmer' = "connect" /\ UNCHANGED toAdd
     ELSE toAdd' = toAdd - 1 /\ UNCHANGED <<permits, warmer>>
  /\ UNCHANGED <<idle, nextId, connVars, clientVars, disposal, warming>>

PrewarmConnects ==
  /\ warmer = "connect"
  /\ NewConn
  /\ warming' = nextId
  /\ warmer' = "return"
  /\ UNCHANGED <<permits, idle, clientVars, disposal, toAdd>>

PrewarmFails ==
  /\ warmer = "connect"
  /\ permits' = permits + 1 /\ toAdd' = toAdd - 1 /\ warmer' = "add"
  /\ UNCHANGED <<idle, nextId, connVars, clientVars, disposal, warming>>

\* The connection becomes idle and its permit is dropped.
PrewarmReturns ==
  /\ warmer = "return"
  /\ idle' = Append(idle, warming)
  /\ permits' = permits + 1
  /\ warming' = None /\ toAdd' = toAdd - 1 /\ warmer' = "add"
  /\ UNCHANGED <<nextId, connVars, clientVars, disposal>>

PrewarmSleeps ==
  /\ warmer = "add" /\ toAdd = 0
  /\ warmer' = "sleep"
  /\ UNCHANGED <<permits, idle, nextId, connVars, clientVars, disposal, warming, toAdd>>

-----------------------------------------------------------------------------
(* The server, and time. *)

Breaks(k) ==
  /\ k \in open \ broken
  /\ broken' = broken \cup {k}
  /\ UNCHANGED <<permits, idle, nextId, open, dirty, expired, clientVars, disposal, warmVars>>

\* last_used is set when a connection is made or returned, not while it is used.
Expires(k) ==
  /\ k \in open \ expired
  /\ expired' = expired \cup {k}
  /\ UNCHANGED <<permits, idle, nextId, open, dirty, broken, clientVars, disposal, warmVars>>

-----------------------------------------------------------------------------
Checks(c) == AcquirePermit(c) \/ TakeIdle(c) \/ ReuseConn(c) \/ ReplaceConn(c) \/ Connect(c)
SessionStep(c) ==
  \/ Checkout(c) \/ Checks(c) \/ CheckoutTimesOut(c) \/ CheckoutFails(c)
  \/ Use(c) \/ Release(c) \/ DropSession(c) \/ ReleaseReturns(c)

Dispose(k) == DisposeReset(k) \/ DisposeClose(k) \/ DisposeReturn(k)
Prewarm ==
  PrewarmLooks \/ PrewarmTries \/ PrewarmConnects \/ PrewarmFails \/ PrewarmReturns \/ PrewarmSleeps

Next ==
  \/ \E c \in Clients : SessionStep(c)
  \/ \E k \in Conns : Dispose(k) \/ Breaks(k) \/ Expires(k)
  \/ Prewarm

Spec == Init /\ [][Next]_vars

\* The runtime polls every task that is ready; what connect, reset and ping wait
\* for answers or fails.  A client that has a session may keep it.
FairSpec ==
  /\ Spec
  /\ \A c \in Clients :
       WF_vars(TakeIdle(c) \/ ReuseConn(c) \/ ReplaceConn(c) \/ Connect(c)
               \/ CheckoutFails(c) \/ ReleaseReturns(c))
  /\ \A k \in Conns : WF_vars(Dispose(k))
  /\ WF_vars(Prewarm)

-----------------------------------------------------------------------------
(* Properties. *)

\* Who holds a permit: checkouts under way, sessions, the prewarm task.
Holders == {c \in Clients : pc[c] \in {"take", "check", "connect", "using", "release"}}
WarmerHolds == IF warmer \in {"connect", "return"} THEN 1 ELSE 0

\* The permit through every path of checkout, release, drop and prewarm, with
\* their failures: none is lost and none is freed twice, so that at most max_size
\* sessions exist at a time.
PermitsAccountedFor == permits + Cardinality(Holders) + WarmerHolds = MaxSize

\* The places where connections are kept, one for each entry.
Places(k) ==
  {<<"idle", i>> : i \in {j \in DOMAIN idle : idle[j] = k}}
  \cup {<<"client", c>> : c \in {d \in Clients : conn[d] = k /\ pc[d] # "release"}}
  \cup {<<"disposal", d>> : d \in {disposal[k]} \ {"none"}}
  \cup {<<"warmer", w>> : w \in {warming} \cap {k}}

\* Hand-over between idle stack, sessions, disposal tasks and prewarm: an open
\* connection is in exactly one of them, so that no two sessions share one and
\* none is leaked; a closed one is in none.
OneOwner ==
  \A k \in Conns : Cardinality(Places(k)) = IF k \in open THEN 1 ELSE 0

\* A session never sees what another one left in its connection: whatever is
\* dirty is in a session that made it so, or still to be reset.
NoStateLeaks ==
  \A k \in dirty :
    \/ \E c \in Clients : conn[c] = k /\ pc[c] = "using"
    \/ disposal[k] = "reset"

\* A permit always comes back: a client that holds one without a session gets
\* its session or gives up, and release() ends.
CheckoutEnds ==
  \A c \in Clients :
    pc[c] \in {"take", "check", "connect", "release"} ~> pc[c] \in {"out", "using"}

-----------------------------------------------------------------------------
(* The inductive invariant. *)

\* No two places hold the same connection; a client keeps hold of the one that
\* its release() disposes of.
OwnersDistinct ==
  /\ \A i, j \in DOMAIN idle : idle[i] = idle[j] => i = j
  /\ \A c, d \in Clients : conn[c] # None /\ conn[c] = conn[d] => c = d
  /\ \A i \in DOMAIN idle :
       /\ disposal[idle[i]] = "none" /\ idle[i] # warming
       /\ \A c \in Clients : idle[i] # conn[c]
  /\ \A c \in Clients : conn[c] # None =>
       /\ conn[c] # warming
       /\ disposal[conn[c]] # "none" <=> pc[c] = "release"
  /\ warming # None => disposal[warming] = "none"

Owned(k) ==
  \/ \E i \in DOMAIN idle : idle[i] = k
  \/ \E c \in Clients : conn[c] = k
  \/ disposal[k] # "none"
  \/ warming = k

OpenIsOwned == \A k \in Conns : k \in open <=> Owned(k)

\* At which steps a client and the prewarm task have a connection.
ConnsInStep ==
  /\ \A c \in Clients :
       /\ pc[c] \in {"check", "using"} => conn[c] # None
       /\ pc[c] \in {"out", "wait", "take", "connect"} => conn[c] = None
  /\ warming # None <=> warmer = "return"
  /\ warmer \in {"connect", "return"} => toAdd > 0

PoolInv ==
  /\ TypeOK /\ IsFiniteSet(Holders)
  /\ PermitsAccountedFor /\ OwnersDistinct /\ OpenIsOwned /\ NoStateLeaks /\ ConnsInStep

=============================================================================
