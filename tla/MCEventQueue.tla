---------------------------- MODULE MCEventQueue ----------------------------
(* Small instances of EventQueue. *)
EXTENDS EventQueue, TLC

CONSTANTS p1, c1, c2, e1, e2

\* A producer that uses both pushes, an awaiting consumer, and a try_pop
\* consumer (as WorkflowEngine::tick) that takes events from under it.
MixedOps == (p1 :> {"push", "try_push"}) @@ (c1 :> {"pop"}) @@ (c2 :> {"try_pop"})

\* Two awaiting consumers share the queue.
TwoPoppersOps == (p1 :> {"push"}) @@ (c1 :> {"pop"}) @@ (c2 :> {"pop"})

=============================================================================
