---------------------------- MODULE ExecutionDedup ----------------------------
(***************************************************************************)
(* ExecutionDeduplicator: one ExecutionDecisionLog row per command is the  *)
(* claim arbiter across processes, and a memory cache per replica answers  *)
(* repeated claims without a query.  Scoring may have written the row as   *)
(* "pending" before the command arrives.  Each method that touches the row *)
(* is one transaction.                                                     *)
(***************************************************************************)
EXTENDS ExecutionCommands

CONSTANT ReclaimSettings  \* settings of EXECUTION_DEDUP_ALLOW_STALE_EXECUTING_RECLAIM

ASSUME DedupAssumption == ReclaimSettings \subseteq BOOLEAN

VARIABLES decision,  \* decision[c]: status of the row of c
          stale,     \* stale[c]: the row's ts is older than the TTL
          memory,    \* memory[r]: keys cached by replica r and not expired
          reclaim    \* the deployment's setting, fixed at the start

dedupVars == <<decision, stale, memory, reclaim>>

Decision == {"absent", "pending", "executing", "executed", "rejected"}

\* How a handled command ended, as mark_executed is told: success, a failure
\* is_retryable_failure lets the relay retry, or a terminal policy block.
Outcome == {"success", "retryable", "blocked"}

DedupTypeOK ==
  /\ decision \in [Command -> Decision]
  /\ stale \in [Command -> BOOLEAN]
  /\ memory \in [Replica -> SUBSET Command]
  /\ reclaim \in BOOLEAN

DedupInit ==
  /\ decision \in [Command -> {"absent", "pending"}]
  /\ stale = [c \in Command |-> FALSE]
  /\ memory = [r \in Replica |-> {}]
  /\ reclaim \in ReclaimSettings

\* _claim_database: insert the missing row, or take over a pending one, or a
\* stale executing one when the operator allows it.
ClaimableMutant(c) == decision[c] \in {"absent", "pending", "executing"}
Claimable(c) ==
  \/ decision[c] \in {"absent", "pending"}
  \/ decision[c] = "executing" /\ stale[c] /\ reclaim

ClaimDatabase(c) ==
  /\ Claimable(c)
  /\ decision' = [decision EXCEPT ![c] = "executing"]
  /\ stale' = [stale EXCEPT ![c] = FALSE]

\* claim_execution: the memory check is only a fast path.
ClaimExecution(r, c) ==
  /\ c \notin memory[r]
  /\ ClaimDatabase(c)
  /\ memory' = [memory EXCEPT ![r] = @ \union {c}]
  /\ UNCHANGED reclaim

\* The commit of the claim raised, although it was or was not applied.
ClaimRaises(r, c) ==
  /\ c \notin memory[r]
  /\ ClaimDatabase(c) \/ UNCHANGED <<decision, stale>>
  /\ UNCHANGED <<memory, reclaim>>

IsDuplicate(r, c) == c \in memory[r] \/ ~Claimable(c)

\* _store_database writes whatever status the row has; its ts is not touched.
DecisionAfter(outcome) ==
  CASE outcome = "success" -> "executed"
    [] outcome = "retryable" -> "pending"
    [] outcome = "blocked" -> "rejected"

\* mark_executed.  "stored" is FALSE when the database write failed, which is
\* logged and swallowed; the memory step follows either way.
MarkExecuted(r, c, outcome, stored) ==
  /\ decision' = IF stored THEN [decision EXCEPT ![c] = DecisionAfter(outcome)] ELSE decision
  /\ memory' = [memory EXCEPT ![r] = IF outcome = "retryable" THEN @ \ {c} ELSE @ \union {c}]
  /\ UNCHANGED <<stale, reclaim>>

\* The TTL of a cached key runs out.
MemoryExpires(r, c) ==
  /\ c \in memory[r]
  /\ memory' = [memory EXCEPT ![r] = @ \ {c}]
  /\ UNCHANGED <<decision, stale, reclaim>>

\* The claim of an unfinished command becomes older than the TTL, which only
\* a reclaim ever looks at.
GoesStale(c) ==
  /\ reclaim
  /\ decision[c] = "executing" /\ ~stale[c]
  /\ stale' = [stale EXCEPT ![c] = TRUE]
  /\ UNCHANGED <<decision, memory, reclaim>>

\* A crashed replica forgets its cache.
ForgetMemory(r) ==
  /\ memory' = [memory EXCEPT ![r] = {}]
  /\ UNCHANGED <<decision, stale, reclaim>>
=============================================================================
