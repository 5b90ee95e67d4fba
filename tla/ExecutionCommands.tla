--------------------------- MODULE ExecutionCommands ---------------------------
(***************************************************************************)
(* The execution commands of one account and symbol, and their order legs. *)
(***************************************************************************)
EXTENDS EngineReplicas

CONSTANTS Command,    \* execution keys
          Bracketed,  \* commands whose entry is followed by a protective exit
          Closing     \* commands that flatten the position

ASSUME CommandAssumption ==
  /\ Bracketed \subseteq Command
  /\ Closing \subseteq Command
  /\ Bracketed \intersect Closing = {}

\* _order_idempotency_key: one key per command and leg.
Leg == (Command \X {"primary"}) \union (Bracketed \X {"exit"})

Primary(c) == <<c, "primary">>
Exit(c) == <<c, "exit">>
=============================================================================
