---------------------------- MODULE EngineReplicas ----------------------------
(* The execution-engine processes that share one database. *)
EXTENDS Naturals

CONSTANT Replica
=============================================================================
