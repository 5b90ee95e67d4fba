--------------------------- MODULE MCReconciliation ---------------------------
(* Reconciliation with one handler and the worker in one replica. *)
EXTENDS Reconciliation, TLC

CONSTANTS r1, handler, worker, open

MCHome == (handler :> r1) @@ (worker :> r1)
MCOnce == open :> 1
MCTwice == open :> 2

\* Everything but the history variables answered and handled, which no step
\* reads and about which this run asks nothing but their type.
MCView == <<serializerVars, dedupVars, ledgerVars, pc, job, at, work, deliveries,
            recVars>>
=============================================================================
