------------------------------- MODULE Outbox -------------------------------
(***************************************************************************)
(* The transactional outbox table of lib_application/outbox.py and the     *)
(* operations of OutboxStore.  Each operation runs in one database         *)
(* transaction that locks the rows it writes, so each is one atomic step.  *)
(*                                                                         *)
(* A row carries the columns that decide delivery.  The two timestamps the *)
(* claim query compares with the clock are kept as the outcome of the      *)
(* comparison: "available" is available_at <= now, and "leased" is         *)
(* claimed_at >= now - lease_seconds.  Time passing turns the first TRUE   *)
(* and the second FALSE at any moment, so every timing is covered.         *)
(***************************************************************************)
EXTENDS Naturals, Sequences, FiniteSets

CONSTANTS Event,        \* outbox rows; one per event_key, which is unique
          Command,      \* the rows on an execution-command topic
          Consumer,     \* the names written to claim_owner
          NoOwner,      \* claim_owner IS NULL
          MaxAttempts,  \* max_attempts of every row
          MaxAudit      \* bound: redrive requests recorded per row

ASSUME OutboxAssumption ==
  /\ Command \subseteq Event
  /\ NoOwner \notin Consumer
  /\ MaxAttempts \in Nat \ {0}
  /\ MaxAudit \in Nat

VARIABLES outbox,  \* outbox[e]: the row of e
          audit,   \* audit[e]: the row's redrive_audit column
          grants   \* history: how many times the row of e has been claimed

outboxVars == <<outbox, audit, grants>>

Status == {"absent", "pending", "in_progress", "failed", "published", "dead_letter"}
FailureClass == {"none", "transient", "permanent"}

Row == [status : Status,
        claim_owner : Consumer \union {NoOwner},
        attempts : Nat,
        available : BOOLEAN,
        leased : BOOLEAN,
        failure_class : FailureClass,
        redrive_generation : Nat]

AuditEntry == [requested_generation : Nat,
               generation : Nat,
               outcome : {"queued", "rejected_state", "rejected_generation"}]

\* An OutboxRecord: what claim_batch hands to the relay about a claimed row.
\* "grant" is history: which claim of the row produced the record.
Record == [event_id : Event,
           claim_owner : Consumer,
           attempts : Nat,
           redrive_generation : Nat,
           grant : Nat]

OutboxTypeOK ==
  /\ outbox \in [Event -> Row]
  /\ audit \in [Event -> Seq(AuditEntry)]
  /\ grants \in [Event -> Nat]

AbsentRow == [status |-> "absent",
              claim_owner |-> NoOwner,
              attempts |-> 0,
              available |-> FALSE,
              leased |-> FALSE,
              failure_class |-> "none",
              redrive_generation |-> 0]

OutboxInit ==
  /\ outbox = [e \in Event |-> AbsentRow]
  /\ audit = [e \in Event |-> << >>]
  /\ grants = [e \in Event |-> 0]

-----------------------------------------------------------------------------
(* enqueue / enqueue_on_session: an existing event_key keeps its row.      *)

EnqueueOnSession(e) ==
  /\ outbox[e].status = "absent"
  /\ \E now \in BOOLEAN :
       outbox' = [outbox EXCEPT ![e] = [AbsentRow EXCEPT !.status = "pending",
                                                         !.available = now]]
  /\ UNCHANGED <<audit, grants>>

-----------------------------------------------------------------------------
(* claim_batch.                                                            *)

\* Mutant: the claim query forgets the rows of dead workers.
DeliverableMutant(e) ==
  outbox[e].available /\ outbox[e].status \in {"pending", "failed"}

\* The filter of the claim query, without the ordering clause.
Deliverable(e) ==
  /\ outbox[e].available
  /\ \/ outbox[e].status \in {"pending", "failed"}
     \/ outbox[e].status = "in_progress" /\ ~outbox[e].leased

\* The record returned for row e claimed in this step.
ClaimedRecord(e, consumer) ==
  [event_id |-> e,
   claim_owner |-> consumer,
   attempts |-> outbox[e].attempts + 1,
   redrive_generation |-> outbox[e].redrive_generation,
   grant |-> grants[e] + 1]

\* The rows of S become in_progress under consumer; attempts counts the claim.
ClaimBatch(S, consumer) ==
  /\ outbox' = [e \in Event |->
                  IF e \in S
                  THEN [outbox[e] EXCEPT !.status = "in_progress",
                                         !.claim_owner = consumer,
                                         !.leased = TRUE,
                                         !.attempts = @ + 1]
                  ELSE outbox[e]]
  /\ grants' = [e \in Event |-> IF e \in S THEN grants[e] + 1 ELSE grants[e]]
  /\ UNCHANGED audit

-----------------------------------------------------------------------------
(* mark_published and mark_failed: both update WHERE the row still carries *)
(* the record's owner and attempt number, and report whether it did.       *)

\* Mutant: the fence compares the owner only.
FencedMutant(r) ==
  /\ outbox[r.event_id].status = "in_progress"
  /\ outbox[r.event_id].claim_owner = r.claim_owner

Fenced(r) ==
  /\ outbox[r.event_id].status = "in_progress"
  /\ outbox[r.event_id].claim_owner = r.claim_owner
  /\ outbox[r.event_id].attempts = r.attempts

Released(row) == [row EXCEPT !.claim_owner = NoOwner, !.leased = FALSE]

MarkPublished(r) ==
  /\ outbox' = IF Fenced(r)
               THEN [outbox EXCEPT ![r.event_id] =
                       [Released(@) EXCEPT !.status = "published",
                                           !.failure_class = "none"]]
               ELSE outbox
  /\ UNCHANGED <<audit, grants>>

\* Mutants: one attempt too many; a status outside ck_outbox_status.
StatusAfterFailureMutant(e, class) ==
  IF class = "permanent" \/ outbox[e].attempts > MaxAttempts
  THEN "dead_letter" ELSE "failed"
StatusAfterFailureMutant2(e, class) ==
  IF class = "permanent" \/ outbox[e].attempts >= MaxAttempts
  THEN "dead" ELSE "failed"

StatusAfterFailure(e, class) ==
  IF class = "permanent" \/ outbox[e].attempts >= MaxAttempts
  THEN "dead_letter" ELSE "failed"

MarkFailed(r, class) ==
  /\ outbox' = IF Fenced(r)
               THEN [outbox EXCEPT ![r.event_id] =
                       [Released(@) EXCEPT
                          !.status = StatusAfterFailure(r.event_id, class),
                          !.available = FALSE,
                          !.failure_class = class]]
               ELSE outbox
  /\ UNCHANGED <<audit, grants>>

-----------------------------------------------------------------------------
(* redrive_dead_letter: the operator names the generation they observed.   *)

\* Mutant: the generation is not compared.
RedriveOutcomeMutant(e, expected) ==
  IF outbox[e].status # "dead_letter" THEN "rejected_state" ELSE "queued"

RedriveOutcome(e, expected) ==
  IF outbox[e].status # "dead_letter" THEN "rejected_state"
  ELSE IF outbox[e].redrive_generation # expected THEN "rejected_generation"
  ELSE "queued"

RedriveDeadLetter(e, expected) ==
  LET outcome == RedriveOutcome(e, expected)
      generation == outbox[e].redrive_generation + (IF outcome = "queued" THEN 1 ELSE 0)
  IN  /\ e \in Command
      /\ outbox[e].status # "absent"
      /\ Len(audit[e]) < MaxAudit
      /\ audit' = [audit EXCEPT ![e] =
                     Append(@, [requested_generation |-> expected,
                                generation |-> generation,
                                outcome |-> outcome])]
      /\ outbox' = IF outcome = "queued"
                   THEN [outbox EXCEPT ![e] =
                           [AbsentRow EXCEPT !.status = "pending",
                                             !.available = TRUE,
                                             !.redrive_generation = generation]]
                   ELSE outbox
      /\ UNCHANGED grants

-----------------------------------------------------------------------------
(* The clock.                                                              *)

\* available_at is reached: the backoff of a failed row, or the start delay
\* of a new one, is over.
BecomesAvailable(e) ==
  /\ outbox[e].status \in {"pending", "failed"}
  /\ ~outbox[e].available
  /\ outbox' = [outbox EXCEPT ![e].available = TRUE]
  /\ UNCHANGED <<audit, grants>>

\* claimed_at falls behind now - lease_seconds.
LeaseLapses(e) ==
  /\ outbox[e].status = "in_progress"
  /\ outbox[e].leased
  /\ outbox' = [outbox EXCEPT ![e].leased = FALSE]
  /\ UNCHANGED <<audit, grants>>

=============================================================================
