-------------------------- MODULE OutboxRelayProofs --------------------------
(***************************************************************************)
(* Proofs about OutboxRelay, for any set of rows, workers and consumer     *)
(* names and any value of the bounds.                                      *)
(***************************************************************************)
EXTENDS OutboxRelay, TLAPS

(* A leaf that names no prover is for Zenon, which does most of them at    *)
(* once, and for SMT where Zenon gives up.                                 *)
USE ZenonT(30), SMTT(60)

USE OutboxAssumption, RelayAssumption

(* TypeOK is inductive: every step of the store and of the relay keeps     *)
(* every column in its range.                                              *)
LEMMA TypeInit == Init => TypeOK
  BY SMTT(60) DEF Init, OutboxInit, TypeOK, OutboxTypeOK, Row, AbsentRow, Status, FailureClass

LEMMA RecordFields == ASSUME NEW r \in Record
  PROVE /\ r.event_id \in Event
        /\ r.claim_owner \in Consumer
        /\ r.attempts \in Nat
        /\ r.redrive_generation \in Nat
        /\ r.grant \in Nat
  BY DEF Record

LEMMA ReleasedRow == ASSUME NEW row \in Row, NEW s \in Status, NEW c \in FailureClass
  PROVE /\ [Released(row) EXCEPT !.status = s, !.failure_class = c] \in Row
        /\ [Released(row) EXCEPT !.status = s, !.available = FALSE, !.failure_class = c] \in Row
  BY DEF Released, Row

LEMMA ClaimedRow == ASSUME NEW row \in Row, NEW c \in Consumer
  PROVE [row EXCEPT !.status = "in_progress", !.claim_owner = c,
                    !.leased = TRUE, !.attempts = @ + 1] \in Row
<1>1. row.attempts + 1 \in Nat
  BY SMTT(60) DEF Row
<1>2. /\ row.claim_owner \in Consumer \union {NoOwner}
      /\ row.available \in BOOLEAN
      /\ row.failure_class \in FailureClass
      /\ row.redrive_generation \in Nat
  BY DEF Row
<1>3. "in_progress" \in Status
  BY DEF Status
<1> QED BY <1>1, <1>2, <1>3 DEF Row

(* The clock changes one Boolean column of one row.                        *)
LEMMA ClockTypes ==
  ASSUME outbox \in [Event -> Row], NEW e \in Event, BecomesAvailable(e) \/ LeaseLapses(e)
  PROVE  outbox' \in [Event -> Row]
<1>1. /\ [outbox[e] EXCEPT !.available = TRUE] \in Row
      /\ [outbox[e] EXCEPT !.leased = FALSE] \in Row
  BY DEF Row
<1>2. \/ outbox' = [outbox EXCEPT ![e] = [outbox[e] EXCEPT !.available = TRUE]]
      \/ outbox' = [outbox EXCEPT ![e] = [outbox[e] EXCEPT !.leased = FALSE]]
  BY DEF BecomesAvailable, LeaseLapses
<1> QED BY <1>1, <1>2

LEMMA TypeNext == TypeOK /\ [Next]_vars => TypeOK'
<1> SUFFICES ASSUME TypeOK, [Next]_vars PROVE TypeOK'
  OBVIOUS
<1> USE DEF TypeOK, OutboxTypeOK
<1>1. ASSUME NEW e \in Event, Enqueue(e) PROVE TypeOK'
  <2> PICK now \in BOOLEAN :
         outbox' = [outbox EXCEPT ![e] = [AbsentRow EXCEPT !.status = "pending",
                                                           !.available = now]]
    BY <1>1 DEF Enqueue, EnqueueOnSession
  <2>1. [AbsentRow EXCEPT !.status = "pending", !.available = now] \in Row
    BY DEF Row, AbsentRow, Status, FailureClass
  <2> QED BY <1>1, <2>1 DEF Enqueue, EnqueueOnSession, relayVars
<1>2. ASSUME NEW e \in Event, Backoff(e) PROVE TypeOK'
  <2>1. outbox' \in [Event -> Row]
    BY <1>2, ClockTypes DEF Backoff
  <2> QED BY <1>2, <2>1 DEF Backoff, BecomesAvailable, relayVars
<1>3. ASSUME NEW e \in Event, LeaseOfDeadWorker(e) PROVE TypeOK'
  <2>1. outbox' \in [Event -> Row]
    BY <1>3, ClockTypes DEF LeaseOfDeadWorker
  <2> QED BY <1>3, <2>1 DEF LeaseOfDeadWorker, LeaseLapses, relayVars
<1>4. ASSUME NEW e \in Event, LeaseOfSlowWorker(e) PROVE TypeOK'
  <2>1. outbox' \in [Event -> Row]
    BY <1>4, ClockTypes DEF LeaseOfSlowWorker
  <2> QED BY <1>4, <2>1, SMTT(60) DEF LeaseOfSlowWorker, LeaseLapses
<1>5. ASSUME NEW e \in Event, NEW x \in 0..MaxAudit, Redrive(e, x) PROVE TypeOK'
  <2> DEFINE outcome == RedriveOutcome(e, x)
             generation == outbox[e].redrive_generation + (IF outcome = "queued" THEN 1 ELSE 0)
             entry == [requested_generation |-> x, generation |-> generation, outcome |-> outcome]
             fresh == [AbsentRow EXCEPT !.status = "pending", !.available = TRUE,
                                        !.redrive_generation = generation]
  <2>1. /\ audit' = [audit EXCEPT ![e] = Append(@, entry)]
        /\ outbox' = IF outcome = "queued" THEN [outbox EXCEPT ![e] = fresh] ELSE outbox
    BY <1>5 DEF Redrive, RedriveDeadLetter
  <2>a. generation \in Nat
    BY SMTT(60) DEF Row
  <2>b. fresh \in Row
    BY <2>a DEF Row, AbsentRow, Status, FailureClass
  <2>c. entry \in AuditEntry
    BY <2>a, SMTT(60) DEF AuditEntry, RedriveOutcome
  <2>d. outbox' \in [Event -> Row]
    BY <2>1, <2>b
  <2>2. audit' \in [Event -> Seq(AuditEntry)]
    BY <2>1, <2>c, SMTT(60)
  <2> QED BY <1>5, <2>d, <2>2 DEF Redrive, RedriveDeadLetter, relayVars
<1>6. ASSUME NEW w \in Worker, Claim(w) PROVE TypeOK'
  <2> PICK S \in SUBSET {e \in Event : Deliverable(e)} :
         /\ ClaimBatch(S, ConsumerName[w])
         /\ batch' = [batch EXCEPT ![w] = {ClaimedRecord(e, ConsumerName[w]) : e \in S}]
    BY <1>6 DEF Claim
  <2>1. outbox' \in [Event -> Row]
    BY ClaimedRow DEF ClaimBatch
  <2>2. \A e \in S : ClaimedRecord(e, ConsumerName[w]) \in Record
    BY SMTT(60) DEF ClaimedRecord, Record, Row
  <2>3. batch' \in [Worker -> SUBSET Record]
    BY <2>2, SMTT(60)
  <2>4. /\ grants' = [e \in Event |-> IF e \in S THEN grants[e] + 1 ELSE grants[e]]
        /\ audit' = audit
    BY DEF ClaimBatch
  <2>5. grants' \in [Event -> Nat]
    <3> HIDE DEF TypeOK
    <3>1. grants \in [Event -> Nat]
      BY DEF TypeOK
    <3> QED BY <2>4, <3>1, SMTT(60)
  <2> QED BY <1>6, <2>1, <2>3, <2>4, <2>5 DEF Claim
<1>7. ASSUME NEW w \in Worker, Deliver(w) PROVE TypeOK'
  <2> PICK r \in batch[w], outcome \in Outcome, reached \in BOOLEAN :
         /\ batch' = [batch EXCEPT ![w] = @ \ {r}]
         /\ posted' = [posted EXCEPT ![w] = {[record |-> r, outcome |-> outcome]}]
         /\ accepted' = IF reached THEN accepted \union {r.event_id} ELSE accepted
    BY <1>7 DEF Deliver
  <2>1. r \in Record
    OBVIOUS
  <2>2. accepted' \subseteq Event
    BY <2>1, RecordFields
  <2> QED BY <1>7, <2>1, <2>2, SMTT(60) DEF Deliver, outboxVars
<1>8. ASSUME NEW w \in Worker, Complete(w) PROVE TypeOK'
  <2> PICK p \in posted[w] : IF p.outcome = "ok" THEN MarkPublished(p.record)
                             ELSE MarkFailed(p.record, p.outcome)
    BY <1>8 DEF Complete
  <2>1. p.record \in Record /\ p.outcome \in Outcome
    BY SMTT(60)
  <2>2. p.record.event_id \in Event
    BY <2>1, RecordFields
  <2>3. outbox' \in [Event -> Row]
    <3>1. CASE p.outcome = "ok"
      <4> DEFINE row == [Released(outbox[p.record.event_id]) EXCEPT
                           !.status = "published", !.failure_class = "none"]
      <4>1. row \in Row
        BY <2>2, ReleasedRow DEF Status, FailureClass
      <4>2. outbox' = IF Fenced(p.record) THEN [outbox EXCEPT ![p.record.event_id] = row]
                      ELSE outbox
        BY <3>1, <2>2 DEF MarkPublished
      <4> QED BY <4>1, <4>2
    <3>2. CASE p.outcome # "ok"
      <4> DEFINE row == [Released(outbox[p.record.event_id]) EXCEPT
                           !.status = StatusAfterFailure(p.record.event_id, p.outcome),
                           !.available = FALSE, !.failure_class = p.outcome]
      <4>1. row \in Row
        BY <2>1, <2>2, <3>2, ReleasedRow DEF StatusAfterFailure, Status, FailureClass, Outcome
      <4>2. outbox' = IF Fenced(p.record) THEN [outbox EXCEPT ![p.record.event_id] = row]
                      ELSE outbox
        BY <3>2, <2>2 DEF MarkFailed
      <4> QED BY <4>1, <4>2
    <3> QED BY <3>1, <3>2
  <2>4. UNCHANGED <<audit, grants>>
    BY DEF MarkPublished, MarkFailed
  <2> QED BY <1>8, <2>3, <2>4 DEF Complete
<1>9. ASSUME NEW w \in Worker, Abort(w) PROVE TypeOK'
  BY <1>9, SMTT(60) DEF Abort, outboxVars
<1>10. CASE UNCHANGED vars
  BY <1>10 DEF vars, outboxVars, relayVars
<1> QED BY <1>1, <1>2, <1>3, <1>4, <1>5, <1>6, <1>7, <1>8, <1>9, <1>10 DEF Next

THEOREM TypeCorrect == Spec => []TypeOK
  BY TypeInit, TypeNext, PTL DEF Spec

-----------------------------------------------------------------------------
(* The fence.  A held record is never ahead of its row, and within one     *)
(* redrive generation its attempt number identifies its claim.             *)

Behind(r) ==
  /\ r.redrive_generation <= outbox[r.event_id].redrive_generation
  /\ r.redrive_generation = outbox[r.event_id].redrive_generation =>
       /\ r.attempts <= outbox[r.event_id].attempts
       /\ r.attempts = outbox[r.event_id].attempts => r.grant = grants[r.event_id]

HeldRecordsBehind == \A w \in Worker : \A r \in Held(w) : Behind(r)

(* A row that was never enqueued has its initial columns.                  *)
AbsentIsFresh == \A e \in Event : outbox[e].status = "absent" => outbox[e] = AbsentRow

(* How a step may move a row: into a later redrive generation, or, within  *)
(* the generation, to a higher attempt number or with the claim unchanged. *)
RowAdvances(e) ==
  \/ outbox'[e].redrive_generation > outbox[e].redrive_generation
  \/ /\ outbox'[e].redrive_generation = outbox[e].redrive_generation
     /\ \/ outbox'[e].attempts = outbox[e].attempts /\ grants'[e] = grants[e]
        \/ outbox'[e].attempts > outbox[e].attempts

(* What a claim does to a row, column by column.                           *)
LEMMA ClaimEffect ==
  ASSUME outbox \in [Event -> Row], NEW S, NEW c \in Consumer, ClaimBatch(S, c), NEW e \in Event
  PROVE  IF e \in S
         THEN /\ outbox'[e].status = "in_progress"
              /\ outbox'[e].claim_owner = c /\ outbox'[e].leased
              /\ outbox'[e].attempts = outbox[e].attempts + 1
              /\ outbox'[e].redrive_generation = outbox[e].redrive_generation
              /\ grants'[e] = grants[e] + 1
         ELSE outbox'[e] = outbox[e] /\ grants'[e] = grants[e]
<1> DEFINE claimed == [outbox[e] EXCEPT !.status = "in_progress", !.claim_owner = c,
                                        !.leased = TRUE, !.attempts = @ + 1]
<1>1. outbox'[e] = IF e \in S THEN claimed ELSE outbox[e]
  BY DEF ClaimBatch
<1>2. grants'[e] = IF e \in S THEN grants[e] + 1 ELSE grants[e]
  BY DEF ClaimBatch
<1>3. /\ claimed.status = "in_progress"
      /\ claimed.claim_owner = c /\ claimed.leased
      /\ claimed.attempts = outbox[e].attempts + 1
      /\ claimed.redrive_generation = outbox[e].redrive_generation
  BY DEF Row
<1> QED BY <1>1, <1>2, <1>3

(* What a completion does to a row: nothing, or, for the fenced record's   *)
(* row, it is published, failed or dead-lettered with its claim numbers.   *)
LEMMA PublishEffect ==
  ASSUME outbox \in [Event -> Row], NEW r, MarkPublished(r), NEW e \in Event
  PROVE  /\ grants' = grants
         /\ \/ outbox'[e] = outbox[e] /\ ~(e = r.event_id /\ Fenced(r))
            \/ /\ e = r.event_id
               /\ Fenced(r)
               /\ outbox'[e].attempts = outbox[e].attempts
               /\ outbox'[e].redrive_generation = outbox[e].redrive_generation
               /\ outbox'[e].status = "published"
<1> DEFINE done(row) == [Released(row) EXCEPT !.status = "published", !.failure_class = "none"]
<1>1. \A row \in Row : /\ done(row).status = "published"
                      /\ done(row).attempts = row.attempts
                      /\ done(row).redrive_generation = row.redrive_generation
  BY DEF Released, Row
<1>2. outbox' = IF Fenced(r) THEN [outbox EXCEPT ![r.event_id] = done(@)] ELSE outbox
  BY DEF MarkPublished
<1>3. grants' = grants
  BY DEF MarkPublished
<1> HIDE DEF done
<1> QED BY <1>1, <1>2, <1>3

LEMMA FailEffect ==
  ASSUME outbox \in [Event -> Row], NEW r, NEW class, MarkFailed(r, class), NEW e \in Event
  PROVE  /\ grants' = grants
         /\ \/ outbox'[e] = outbox[e] /\ ~(e = r.event_id /\ Fenced(r))
            \/ /\ e = r.event_id
               /\ Fenced(r)
               /\ outbox'[e].attempts = outbox[e].attempts
               /\ outbox'[e].redrive_generation = outbox[e].redrive_generation
               /\ outbox'[e].status = StatusAfterFailure(e, class)
<1> DEFINE done(row) == [Released(row) EXCEPT
                           !.status = StatusAfterFailure(r.event_id, class),
                           !.available = FALSE, !.failure_class = class]
<1>1. \A row \in Row : /\ done(row).status = StatusAfterFailure(r.event_id, class)
                      /\ done(row).attempts = row.attempts
                      /\ done(row).redrive_generation = row.redrive_generation
  BY DEF Released, Row
<1>2. outbox' = IF Fenced(r) THEN [outbox EXCEPT ![r.event_id] = done(@)] ELSE outbox
  BY DEF MarkFailed
<1>3. grants' = grants
  BY DEF MarkFailed
<1> HIDE DEF done
<1> QED BY <1>1, <1>2, <1>3, SMTT(60)

LEMMA RowsAdvance ==
  ASSUME TypeOK, AbsentIsFresh, [Next]_vars, NEW e \in Event
  PROVE  RowAdvances(e)
<1> /\ outbox \in [Event -> Row]
    /\ grants \in [Event -> Nat]
  BY DEF TypeOK, OutboxTypeOK
<1> /\ outbox[e].attempts \in Nat
    /\ outbox[e].redrive_generation \in Nat
  BY DEF Row
<1>1. ASSUME NEW f \in Event, Enqueue(f) PROVE RowAdvances(e)
  BY <1>1, SMTT(60) DEF Enqueue, EnqueueOnSession, AbsentIsFresh, AbsentRow, RowAdvances
<1>2. ASSUME NEW f \in Event, Backoff(f) PROVE RowAdvances(e)
  BY <1>2 DEF Backoff, BecomesAvailable, RowAdvances, Row
<1>3. ASSUME NEW f \in Event, LeaseOfDeadWorker(f) \/ LeaseOfSlowWorker(f)
      PROVE  RowAdvances(e)
  BY <1>3, SMTT(60) DEF LeaseOfDeadWorker, LeaseOfSlowWorker, LeaseLapses, RowAdvances, Row
<1>4. ASSUME NEW f \in Event, NEW x \in 0..MaxAudit, Redrive(f, x) PROVE RowAdvances(e)
  BY <1>4, SMTT(60) DEF Redrive, RedriveDeadLetter, AbsentRow, RowAdvances
<1>5. ASSUME NEW w \in Worker, Claim(w) PROVE RowAdvances(e)
  <2> PICK S \in SUBSET {f \in Event : Deliverable(f)} : ClaimBatch(S, ConsumerName[w])
    BY <1>5 DEF Claim
  <2> QED BY ClaimEffect, SMTT(60) DEF RowAdvances
<1>6. ASSUME NEW w \in Worker, Complete(w) PROVE RowAdvances(e)
  <2> PICK p \in posted[w] : MarkPublished(p.record) \/ MarkFailed(p.record, p.outcome)
    BY <1>6 DEF Complete
  <2> QED BY PublishEffect, FailEffect DEF RowAdvances
<1>7. ASSUME UNCHANGED outboxVars PROVE RowAdvances(e)
  BY <1>7 DEF outboxVars, RowAdvances
<1> QED BY <1>1, <1>2, <1>3, <1>4, <1>5, <1>6, <1>7 DEF Next, Deliver, Abort, vars

LEMMA AdvanceKeepsBehind ==
  ASSUME TypeOK, TypeOK', NEW r \in Record, Behind(r), RowAdvances(r.event_id)
  PROVE  Behind(r)'
<1> /\ r.event_id \in Event
    /\ r.attempts \in Nat
    /\ r.redrive_generation \in Nat
  BY RecordFields
<1> /\ outbox[r.event_id].attempts \in Nat
    /\ outbox[r.event_id].redrive_generation \in Nat
    /\ outbox'[r.event_id].attempts \in Nat
    /\ outbox'[r.event_id].redrive_generation \in Nat
  BY DEF TypeOK, OutboxTypeOK, Row
<1> QED BY DEF Behind, RowAdvances

(* No step creates an absent row: enqueued rows stay enqueued.             *)
LEMMA AbsentUntouched ==
  ASSUME TypeOK, [Next]_vars, NEW e \in Event, outbox'[e].status = "absent"
  PROVE  outbox'[e] = outbox[e]
<1> outbox \in [Event -> Row]
  BY DEF TypeOK, OutboxTypeOK
<1>1. ASSUME NEW f \in Event, Enqueue(f) PROVE outbox'[e] = outbox[e]
  BY <1>1 DEF Enqueue, EnqueueOnSession, AbsentRow
<1>2. ASSUME NEW f \in Event, Backoff(f) PROVE outbox'[e] = outbox[e]
  BY <1>2 DEF Backoff, BecomesAvailable, Row
<1>3. ASSUME NEW f \in Event, LeaseOfDeadWorker(f) \/ LeaseOfSlowWorker(f)
      PROVE  outbox'[e] = outbox[e]
  BY <1>3, SMTT(60) DEF LeaseOfDeadWorker, LeaseOfSlowWorker, LeaseLapses, Row
<1>4. ASSUME NEW f \in Event, NEW x \in 0..MaxAudit, Redrive(f, x)
      PROVE  outbox'[e] = outbox[e]
  BY <1>4 DEF Redrive, RedriveDeadLetter, AbsentRow
<1>5. ASSUME NEW w \in Worker, Claim(w) PROVE outbox'[e] = outbox[e]
  BY <1>5, ClaimEffect DEF Claim
<1>6. ASSUME NEW w \in Worker, Complete(w) PROVE outbox'[e] = outbox[e]
  <2> PICK p \in posted[w] : MarkPublished(p.record) \/ MarkFailed(p.record, p.outcome)
    BY <1>6 DEF Complete
  <2> QED BY PublishEffect, FailEffect DEF StatusAfterFailure
<1>7. ASSUME UNCHANGED outboxVars PROVE outbox'[e] = outbox[e]
  BY <1>7 DEF outboxVars
<1> QED BY <1>1, <1>2, <1>3, <1>4, <1>5, <1>6, <1>7 DEF Next, Deliver, Abort, vars

LEMMA AbsentFreshNext == TypeOK /\ AbsentIsFresh /\ [Next]_vars => AbsentIsFresh'
  BY AbsentUntouched DEF AbsentIsFresh, AbsentRow

(* The records held after a step: those held before, and those of the      *)
(* batch a Claim returns.                                                  *)
LEMMA HeldAfterStep ==
  ASSUME TypeOK, [Next]_vars, NEW w \in Worker, NEW r \in Held(w)'
  PROVE  \/ r \in Held(w)
         \/ \E S \in SUBSET Event, e \in Event :
              /\ ClaimBatch(S, ConsumerName[w])
              /\ e \in S
              /\ r = ClaimedRecord(e, ConsumerName[w])
<1> batch \in [Worker -> SUBSET Record] /\ DOMAIN posted = Worker
  BY DEF TypeOK
<1>1. ASSUME UNCHANGED <<batch, posted>> PROVE r \in Held(w)
  BY <1>1 DEF Held
<1>2. ASSUME NEW v \in Worker, Deliver(v) PROVE r \in Held(w)
  BY <1>2, SMTT(60) DEF Deliver, Held
<1>3. ASSUME NEW v \in Worker, Complete(v) PROVE r \in Held(w)
  BY <1>3 DEF Complete, Held
<1>4. ASSUME NEW v \in Worker, Abort(v) PROVE r \in Held(w)
  BY <1>4 DEF Abort, Held
<1>5. ASSUME NEW v \in Worker, Claim(v), r \notin Held(w)
      PROVE  \E S \in SUBSET Event, e \in Event :
                /\ ClaimBatch(S, ConsumerName[w])
                /\ e \in S
                /\ r = ClaimedRecord(e, ConsumerName[w])
  <2> PICK S \in SUBSET {e \in Event : Deliverable(e)} :
         /\ ClaimBatch(S, ConsumerName[v])
         /\ batch' = [batch EXCEPT ![v] = {ClaimedRecord(e, ConsumerName[v]) : e \in S}]
    BY <1>5 DEF Claim
  <2>1. posted' = posted
    BY <1>5 DEF Claim
  <2>2. v = w /\ r \in {ClaimedRecord(e, ConsumerName[w]) : e \in S}
    BY <1>5, <2>1 DEF Held
  <2> QED BY <2>2
<1> QED
  BY <1>1, <1>2, <1>3, <1>4, <1>5 DEF Next, Enqueue, Backoff, LeaseOfDeadWorker,
     LeaseOfSlowWorker, Redrive, relayVars, vars

LEMMA HeldAreRecords == ASSUME TypeOK, NEW w \in Worker PROVE Held(w) \subseteq Record
  BY SMTT(60) DEF TypeOK, Held

LEMMA BehindNext ==
  TypeOK /\ AbsentIsFresh /\ HeldRecordsBehind /\ [Next]_vars => HeldRecordsBehind'
<1> SUFFICES ASSUME TypeOK, AbsentIsFresh, HeldRecordsBehind, [Next]_vars,
                    NEW w \in Worker, NEW r \in Held(w)'
             PROVE  Behind(r)'
  BY DEF HeldRecordsBehind
<1>0. TypeOK'
  BY TypeNext
<1>1. CASE r \in Held(w)
  <2>1. r \in Record /\ Behind(r)
    BY <1>1, HeldAreRecords DEF HeldRecordsBehind
  <2>2. RowAdvances(r.event_id)
    BY <2>1, RecordFields, RowsAdvance
  <2> QED BY <1>0, <2>1, <2>2, AdvanceKeepsBehind
<1>2. ASSUME NEW S \in SUBSET Event, NEW e \in Event, ClaimBatch(S, ConsumerName[w]),
             e \in S, r = ClaimedRecord(e, ConsumerName[w])
      PROVE  Behind(r)'
  <2>1. /\ r.event_id = e
        /\ r.attempts = outbox[e].attempts + 1
        /\ r.redrive_generation = outbox[e].redrive_generation
        /\ r.grant = grants[e] + 1
    BY <1>2 DEF ClaimedRecord
  <2>2. outbox \in [Event -> Row] /\ outbox[e].attempts \in Nat
        /\ outbox[e].redrive_generation \in Nat
    BY DEF TypeOK, OutboxTypeOK, Row
  <2>3. /\ outbox'[e].attempts = outbox[e].attempts + 1
        /\ outbox'[e].redrive_generation = outbox[e].redrive_generation
        /\ grants'[e] = grants[e] + 1
    BY <1>2, <2>2, ClaimEffect, SMTT(60)
  <2> QED BY <2>1, <2>2, <2>3, SMTT(60) DEF Behind
<1> QED BY <1>1, <1>2, HeldAfterStep

(* The claim fence of mark_published and mark_failed is exact between two  *)
(* redrives, for any number of workers sharing any consumer names.         *)
THEOREM FenceCorrect == Spec => []FenceExactInGeneration
<1> DEFINE IInv == TypeOK /\ AbsentIsFresh /\ HeldRecordsBehind
<1>1. Init => IInv
  <2> SUFFICES ASSUME Init PROVE AbsentIsFresh /\ HeldRecordsBehind
    BY TypeInit
  <2>1. AbsentIsFresh
    BY DEF Init, OutboxInit, AbsentIsFresh
  <2>2. HeldRecordsBehind
    BY DEF Init, HeldRecordsBehind, Held
  <2> QED BY <2>1, <2>2
<1>2. IInv /\ [Next]_vars => IInv'
  BY TypeNext, AbsentFreshNext, BehindNext
<1>3. IInv => FenceExactInGeneration
  BY DEF HeldRecordsBehind, Behind, FenceExactInGeneration, Fenced
<1> QED BY <1>1, <1>2, <1>3, PTL DEF Spec

-----------------------------------------------------------------------------
(* At-least-once delivery.  A record whose POST was answered "ok" names an *)
(* accepted event, and only such a record publishes its row.               *)

OkWasAccepted ==
  \A w \in Worker : \A p \in posted[w] :
    p.outcome = "ok" => p.record.event_id \in accepted

LEMMA OkAcceptedNext == TypeOK /\ OkWasAccepted /\ [Next]_vars => OkWasAccepted'
<1> SUFFICES ASSUME TypeOK, OkWasAccepted, [Next]_vars PROVE OkWasAccepted'
  OBVIOUS
<1> DOMAIN posted = Worker
  BY DEF TypeOK
<1>1. ASSUME UNCHANGED <<posted, accepted>> PROVE OkWasAccepted'
  BY <1>1 DEF OkWasAccepted
<1>2. ASSUME NEW w \in Worker, Deliver(w) PROVE OkWasAccepted'
  BY <1>2, SMTT(60) DEF Deliver, OkWasAccepted
<1>3. ASSUME NEW w \in Worker, Complete(w) \/ Abort(w) PROVE OkWasAccepted'
  BY <1>3 DEF Complete, Abort, OkWasAccepted
<1> QED
  BY <1>1, <1>2, <1>3 DEF Next, Enqueue, Backoff, LeaseOfDeadWorker, LeaseOfSlowWorker,
     Redrive, Claim, relayVars, vars

(* How a row becomes published, failed or dead-lettered: only by the       *)
(* completion of a fenced record.                                          *)
CompletedBy(p, e) ==
  /\ e = p.record.event_id
  /\ outbox[e].status = "in_progress"
  /\ \/ p.outcome = "ok" /\ outbox'[e].status = "published"
     \/ p.outcome # "ok" /\ outbox'[e].status = StatusAfterFailure(e, p.outcome)

LEMMA SettledByCompletion ==
  ASSUME TypeOK, [Next]_vars, NEW e \in Event,
         outbox'[e].status \in {"published", "failed", "dead_letter"}
  PROVE  \/ outbox'[e].status = outbox[e].status
         \/ \E w \in Worker : \E p \in posted[w] : CompletedBy(p, e)
<1> DEFINE Same == outbox'[e].status = outbox[e].status
<1> outbox \in [Event -> Row]
  BY DEF TypeOK, OutboxTypeOK
<1>1. ASSUME NEW f \in Event, Enqueue(f) PROVE Same
  BY <1>1 DEF Enqueue, EnqueueOnSession, AbsentRow
<1>2. ASSUME NEW f \in Event, Backoff(f) PROVE Same
  BY <1>2 DEF Backoff, BecomesAvailable, Row
<1>3. ASSUME NEW f \in Event, LeaseOfDeadWorker(f) \/ LeaseOfSlowWorker(f) PROVE Same
  BY <1>3, SMTT(60) DEF LeaseOfDeadWorker, LeaseOfSlowWorker, LeaseLapses, Row
<1>4. ASSUME NEW f \in Event, NEW x \in 0..MaxAudit, Redrive(f, x) PROVE Same
  BY <1>4 DEF Redrive, RedriveDeadLetter, AbsentRow
<1>5. ASSUME NEW w \in Worker, Claim(w) PROVE Same
  BY <1>5, ClaimEffect DEF Claim
<1>6. ASSUME NEW w \in Worker, Complete(w)
      PROVE  Same \/ \E p \in posted[w] : CompletedBy(p, e)
  <2> PICK p \in posted[w] : IF p.outcome = "ok" THEN MarkPublished(p.record)
                             ELSE MarkFailed(p.record, p.outcome)
    BY <1>6 DEF Complete
  <2>1. CASE p.outcome = "ok"
    BY <2>1, PublishEffect, SMTT(60) DEF CompletedBy, Fenced
  <2>2. CASE p.outcome # "ok"
    BY <2>2, FailEffect, SMTT(60) DEF CompletedBy, Fenced
  <2> QED BY <2>1, <2>2
<1>7. ASSUME UNCHANGED outboxVars PROVE Same
  BY <1>7 DEF outboxVars
<1> QED BY <1>1, <1>2, <1>3, <1>4, <1>5, <1>6, <1>7 DEF Next, Deliver, Abort, vars

(* No command is lost: a published row was accepted by its consumer.       *)
THEOREM NothingPublishedUndelivered == Spec => []PublishedWasAccepted
<1> DEFINE IInv == TypeOK /\ OkWasAccepted /\ PublishedWasAccepted
<1>1. Init => IInv
  BY TypeInit, SMTT(60) DEF Init, OutboxInit, AbsentRow, OkWasAccepted, PublishedWasAccepted
<1>2. IInv /\ [Next]_vars => IInv'
  <2> SUFFICES ASSUME IInv, [Next]_vars PROVE IInv'
    OBVIOUS
  <2>1. TypeOK' /\ OkWasAccepted'
    BY TypeNext, OkAcceptedNext
  <2>2. accepted \subseteq accepted'
    BY DEF Next, Enqueue, Backoff, LeaseOfDeadWorker, LeaseOfSlowWorker, Redrive, Claim,
       Deliver, Complete, Abort, relayVars, vars
  <2>3. ASSUME NEW e \in Event, outbox'[e].status = "published" PROVE e \in accepted
    <3>1. CASE outbox[e].status = "published"
      BY <3>1 DEF PublishedWasAccepted
    <3>2. ASSUME NEW w \in Worker, NEW p \in posted[w], CompletedBy(p, e) PROVE e \in accepted
      BY <2>3, <3>2 DEF CompletedBy, StatusAfterFailure, OkWasAccepted
    <3> QED BY <2>3, <3>1, <3>2, SettledByCompletion
  <2> QED BY <2>1, <2>2, <2>3 DEF PublishedWasAccepted
<1>3. IInv => PublishedWasAccepted
  OBVIOUS
<1> QED BY <1>1, <1>2, <1>3, PTL DEF Spec

-----------------------------------------------------------------------------
(* The retry budget.  The claim a row carries is in doubt once nobody who  *)
(* holds it is sure to complete it in time: only such a claim is followed  *)
(* by another one without a failure in between, and every one was paid for *)
(* by a crash or by a lapse under a live worker.                           *)

Doubtful(e) ==
  outbox[e].status = "in_progress" /\ (~outbox[e].leased \/ Abandoned(e))

Waiting(e) == outbox[e].status \in {"absent", "pending", "failed"}

Allowance(e) == outbox[e].redrive_generation * MaxAttempts + crashes + slow

BudgetOf(e) ==
  /\ grants[e] <= outbox[e].attempts + Allowance(e)
  /\ grants[e] <= MaxAttempts + Allowance(e)
  /\ Doubtful(e) => grants[e] < MaxAttempts + Allowance(e)
  /\ Waiting(e) => outbox[e].attempts < MaxAttempts

(* The record of the claim a row carries passes the fence: a completion    *)
(* that is refused never loses the latest claim.                           *)
CurrentFenced ==
  \A w \in Worker : \A r \in Held(w) :
    /\ r.grant <= grants[r.event_id]
    /\ (r.grant = grants[r.event_id] /\ outbox[r.event_id].status = "in_progress")
         => Fenced(r)

OnePosted == \A w \in Worker : \A p, q \in posted[w] : p = q

BudgetInv ==
  /\ TypeOK /\ AbsentIsFresh /\ OnePosted /\ CurrentFenced
  /\ \A e \in Event : BudgetOf(e)

LEMMA RowParts ==
  ASSUME TypeOK, NEW e \in Event
  PROVE  /\ outbox[e].attempts \in Nat /\ outbox[e].redrive_generation \in Nat
         /\ grants[e] \in Nat /\ crashes \in Nat /\ slow \in Nat
         /\ Allowance(e) \in Nat
<1>1. /\ outbox[e].attempts \in Nat /\ outbox[e].redrive_generation \in Nat
      /\ grants[e] \in Nat /\ crashes \in Nat /\ slow \in Nat
  BY DEF TypeOK, OutboxTypeOK, Row
<1>2. outbox[e].redrive_generation * MaxAttempts \in Nat
  BY <1>1, SMTT(60)
<1> QED BY <1>1, <1>2, SMTT(60) DEF Allowance

LEMMA OnePostedNext == TypeOK /\ OnePosted /\ [Next]_vars => OnePosted'
<1> SUFFICES ASSUME TypeOK, OnePosted, [Next]_vars PROVE OnePosted'
  OBVIOUS
<1> DOMAIN posted = Worker
  BY DEF TypeOK
<1>1. ASSUME UNCHANGED posted PROVE OnePosted'
  BY <1>1 DEF OnePosted
<1>2. ASSUME NEW w \in Worker, Deliver(w) PROVE OnePosted'
  BY <1>2, SMTT(60) DEF Deliver, OnePosted
<1>3. ASSUME NEW w \in Worker, Complete(w) \/ Abort(w) PROVE OnePosted'
  BY <1>3, SMTT(60) DEF Complete, Abort, OnePosted
<1> QED
  BY <1>1, <1>2, <1>3 DEF Next, Enqueue, Backoff, LeaseOfDeadWorker, LeaseOfSlowWorker,
     Redrive, Claim, relayVars, vars

(* What a step that claims nothing does to a row in the hands of a relay:  *)
(* it leaves the claim alone, or completes it.                             *)
ClaimKept(e) ==
  /\ grants'[e] = grants[e]
  /\ outbox'[e].status = "in_progress" =>
       /\ outbox[e].status = "in_progress"
       /\ outbox'[e].claim_owner = outbox[e].claim_owner
       /\ outbox'[e].attempts = outbox[e].attempts

LEMMA ClaimsKept ==
  ASSUME TypeOK, [Next]_vars, NEW e \in Event, \A w \in Worker : ~Claim(w)
  PROVE  ClaimKept(e)
<1> outbox \in [Event -> Row]
  BY DEF TypeOK, OutboxTypeOK
<1>1. ASSUME NEW f \in Event, Enqueue(f) PROVE ClaimKept(e)
  BY <1>1, SMTT(60) DEF Enqueue, EnqueueOnSession, AbsentRow, ClaimKept
<1>2. ASSUME NEW f \in Event, Backoff(f) PROVE ClaimKept(e)
  BY <1>2, SMTT(60) DEF Backoff, BecomesAvailable, ClaimKept, Row
<1>3. ASSUME NEW f \in Event, LeaseOfDeadWorker(f) \/ LeaseOfSlowWorker(f)
      PROVE  ClaimKept(e)
  BY <1>3, SMTT(60) DEF LeaseOfDeadWorker, LeaseOfSlowWorker, LeaseLapses, ClaimKept, Row
<1>4. ASSUME NEW f \in Event, NEW x \in 0..MaxAudit, Redrive(f, x) PROVE ClaimKept(e)
  BY <1>4, SMTT(60) DEF Redrive, RedriveDeadLetter, AbsentRow, ClaimKept
<1>5. ASSUME NEW w \in Worker, Complete(w) PROVE ClaimKept(e)
  <2> PICK p \in posted[w] : MarkPublished(p.record) \/ MarkFailed(p.record, p.outcome)
    BY <1>5 DEF Complete
  <2> QED BY PublishEffect, FailEffect, SMTT(60) DEF ClaimKept, StatusAfterFailure
<1>6. ASSUME UNCHANGED outboxVars PROVE ClaimKept(e)
  BY <1>6 DEF outboxVars, ClaimKept
<1> QED BY <1>1, <1>2, <1>3, <1>4, <1>5, <1>6 DEF Next, Deliver, Abort, vars

LEMMA CurrentFencedNext ==
  ASSUME TypeOK, CurrentFenced, [Next]_vars
  PROVE  CurrentFenced'
<1> DEFINE Good(r) == /\ r.grant <= grants[r.event_id]
                      /\ (/\ r.grant = grants[r.event_id]
                          /\ outbox[r.event_id].status = "in_progress") => Fenced(r)
<1>1. \A w \in Worker : \A r \in Held(w) : Good(r)
  BY DEF CurrentFenced
<1>2. SUFFICES ASSUME NEW w \in Worker, NEW r \in Held(w)' PROVE Good(r)'
  BY DEF CurrentFenced
<1>3. outbox \in [Event -> Row] /\ grants \in [Event -> Nat]
      /\ ConsumerName \in [Worker -> Consumer]
  BY DEF TypeOK, OutboxTypeOK
<1>4. ASSUME NEW S \in SUBSET Event, NEW e \in Event, ClaimBatch(S, ConsumerName[w]),
             e \in S, r = ClaimedRecord(e, ConsumerName[w])
      PROVE  Good(r)'
  <2>1. /\ r.event_id = e /\ r.claim_owner = ConsumerName[w]
        /\ r.attempts = outbox[e].attempts + 1
        /\ r.grant = grants[e] + 1
    BY <1>4 DEF ClaimedRecord
  <2>2. /\ outbox'[e].claim_owner = ConsumerName[w]
        /\ outbox'[e].attempts = outbox[e].attempts + 1
        /\ grants'[e] = grants[e] + 1
    BY <1>3, <1>4, ClaimEffect, SMTT(60)
  <2> QED BY <1>3, <2>1, <2>2, SMTT(60) DEF Fenced
<1>5. CASE r \in Held(w)
  <2>1. r \in Record /\ Good(r)
    BY <1>1, <1>5, HeldAreRecords
  <2>2. r.event_id \in Event /\ r.grant \in Nat
    BY <2>1, RecordFields
  <2>3. ASSUME NEW v \in Worker, Claim(v) PROVE Good(r)'
    <3> PICK S \in SUBSET {e \in Event : Deliverable(e)} : ClaimBatch(S, ConsumerName[v])
      BY <2>3 DEF Claim
    <3>1. IF r.event_id \in S THEN grants'[r.event_id] = grants[r.event_id] + 1
          ELSE outbox'[r.event_id] = outbox[r.event_id]
               /\ grants'[r.event_id] = grants[r.event_id]
      BY <1>3, <2>2, ClaimEffect, SMTT(60)
    <3> QED BY <1>3, <2>1, <2>2, <3>1, SMTT(60) DEF Fenced
  <2>4. CASE \A v \in Worker : ~Claim(v)
    <3>1. ClaimKept(r.event_id)
      BY <2>2, <2>4, ClaimsKept
    <3> QED BY <2>1, <3>1, SMTT(60) DEF ClaimKept, Fenced
  <2> QED BY <2>3, <2>4
<1> QED BY <1>2, <1>4, <1>5, HeldAfterStep

(* A step that neither claims nor redrives the row: it may only cast doubt *)
(* on its claim at the price of a crash or of a lapse.                     *)
LEMMA BudgetKept ==
  ASSUME TypeOK, TypeOK', NEW e \in Event, BudgetOf(e),
         grants'[e] = grants[e],
         outbox'[e].attempts = outbox[e].attempts,
         outbox'[e].redrive_generation = outbox[e].redrive_generation,
         Waiting(e)' => Waiting(e) \/ outbox[e].attempts < MaxAttempts,
         crashes' + slow' >= crashes + slow,
         Doubtful(e)' => Doubtful(e) \/ crashes' + slow' > crashes + slow
  PROVE  BudgetOf(e)'
<1> DEFINE spent == outbox[e].redrive_generation * MaxAttempts
<1>1. /\ crashes \in Nat /\ slow \in Nat /\ crashes' \in Nat /\ slow' \in Nat
      /\ outbox[e].attempts \in Nat /\ grants[e] \in Nat /\ Allowance(e) \in Nat
      /\ outbox[e].redrive_generation \in Nat
  BY RowParts DEF TypeOK
<1>2. spent \in Nat /\ MaxAttempts \in Nat
  BY <1>1, SMTT(60)
<1>3. Allowance(e) = spent + crashes + slow /\ Allowance(e)' = spent + crashes' + slow'
  BY DEF Allowance
<1> HIDE DEF spent
<1>4. Allowance(e)' \in Nat /\ Allowance(e)' >= Allowance(e)
      /\ (crashes' + slow' > crashes + slow => Allowance(e)' > Allowance(e))
  BY <1>1, <1>2, <1>3, SMTT(60)
<1>5. Doubtful(e)' => Doubtful(e) \/ Allowance(e)' > Allowance(e)
  BY <1>4
<1> QED BY <1>1, <1>2, <1>4, <1>5, SMTT(60) DEF BudgetOf

(* A row that nobody claims and whose holders stay keeps its doubt.        *)
LEMMA SameDoubt ==
  ASSUME NEW e, outbox'[e].status = "in_progress" => outbox'[e] = outbox[e],
         grants'[e] = grants[e], \A w \in Worker : Held(w)' = Held(w)
  PROVE  Doubtful(e)' => Doubtful(e)
<1>1. Abandoned(e)' => Abandoned(e)
  BY DEF Abandoned
<1> QED BY <1>1 DEF Doubtful

LEMMA BudgetNext ==
  ASSUME BudgetInv, [Next]_vars, NEW e \in Event
  PROVE  BudgetOf(e)'
<1>0. /\ TypeOK /\ TypeOK' /\ BudgetOf(e)
      /\ outbox \in [Event -> Row] /\ outbox[e] \in Row
      /\ crashes \in Nat /\ slow \in Nat
  BY TypeNext DEF BudgetInv, TypeOK, OutboxTypeOK
<1>i. /\ outbox[e].attempts \in Nat /\ outbox[e].redrive_generation \in Nat
      /\ grants[e] \in Nat /\ Allowance(e) \in Nat /\ MaxAttempts \in Nat \ {0}
  BY <1>0, RowParts
<1>s. crashes + slow >= crashes + slow
  BY <1>0, SMTT(60)
<1>1. ASSUME NEW f \in Event, Enqueue(f) PROVE BudgetOf(e)'
  <2>1. /\ grants'[e] = grants[e]
        /\ outbox'[e].attempts = outbox[e].attempts
        /\ outbox'[e].redrive_generation = outbox[e].redrive_generation
        /\ outbox'[e].status = "in_progress" => outbox'[e] = outbox[e]
        /\ Waiting(e)' => Waiting(e)
    BY <1>0, <1>1, SMTT(60) DEF Enqueue, EnqueueOnSession, BudgetInv, AbsentIsFresh,
       AbsentRow, Waiting
  <2>2. \A w \in Worker : Held(w)' = Held(w)
    BY <1>1 DEF Enqueue, relayVars, Held
  <2>3. crashes' = crashes /\ slow' = slow
    BY <1>1 DEF Enqueue, relayVars
  <2> QED BY <1>0, <1>s, <2>1, <2>2, <2>3, SameDoubt, BudgetKept
<1>2. ASSUME NEW f \in Event, Backoff(f) PROVE BudgetOf(e)'
  <2>1. /\ grants'[e] = grants[e]
        /\ outbox'[e].attempts = outbox[e].attempts
        /\ outbox'[e].redrive_generation = outbox[e].redrive_generation
        /\ outbox'[e].status = "in_progress" => outbox'[e] = outbox[e]
        /\ Waiting(e)' => Waiting(e)
    BY <1>0, <1>2, SMTT(60) DEF Backoff, BecomesAvailable, Row, Waiting
  <2>2. \A w \in Worker : Held(w)' = Held(w)
    BY <1>2 DEF Backoff, relayVars, Held
  <2>3. crashes' = crashes /\ slow' = slow
    BY <1>2 DEF Backoff, relayVars
  <2> QED BY <1>0, <1>s, <2>1, <2>2, <2>3, SameDoubt, BudgetKept
<1>3. ASSUME NEW f \in Event, LeaseOfDeadWorker(f) \/ LeaseOfSlowWorker(f)
      PROVE  BudgetOf(e)'
  <2>1. /\ grants'[e] = grants[e]
        /\ outbox'[e].attempts = outbox[e].attempts
        /\ outbox'[e].redrive_generation = outbox[e].redrive_generation
        /\ outbox'[e].status = outbox[e].status
        /\ e # f => outbox'[e] = outbox[e]
    BY <1>0, <1>3, SMTT(60) DEF LeaseOfDeadWorker, LeaseOfSlowWorker, LeaseLapses, Row
  <2>2. \A w \in Worker : Held(w)' = Held(w)
    BY <1>3 DEF LeaseOfDeadWorker, LeaseOfSlowWorker, relayVars, Held
  <2>3. CASE LeaseOfDeadWorker(f)
    <3>1. crashes' = crashes /\ slow' = slow
      BY <2>3 DEF LeaseOfDeadWorker, relayVars
    <3>2. Doubtful(e)' => Doubtful(e)
      <4>1. CASE e = f
        BY <2>1, <2>3, <4>1 DEF LeaseOfDeadWorker, Doubtful
      <4>2. CASE e # f
        BY <2>1, <2>2, <4>2, SameDoubt
      <4> QED BY <4>1, <4>2
    <3> QED BY <1>0, <1>s, <2>1, <3>1, <3>2, BudgetKept DEF Waiting
  <2>4. CASE LeaseOfSlowWorker(f)
    <3>1. crashes' = crashes /\ slow' = slow + 1
      BY <2>4 DEF LeaseOfSlowWorker
    <3>2. crashes' + slow' > crashes + slow /\ crashes' + slow' >= crashes + slow
      BY <1>0, <3>1, SMTT(60)
    <3> QED BY <1>0, <2>1, <3>2, BudgetKept DEF Waiting
  <2> QED BY <1>3, <2>3, <2>4
<1>4. ASSUME NEW f \in Event, NEW x \in 0..MaxAudit, Redrive(f, x) PROVE BudgetOf(e)'
  <2>2. \A w \in Worker : Held(w)' = Held(w)
    BY <1>4 DEF Redrive, relayVars, Held
  <2>3. crashes' = crashes /\ slow' = slow /\ grants' = grants
    BY <1>4 DEF Redrive, RedriveDeadLetter, relayVars
  <2>4. CASE outbox'[e] = outbox[e]
    BY <1>0, <1>s, <2>2, <2>3, <2>4, SameDoubt, BudgetKept DEF Waiting
  <2>5. CASE outbox'[e] # outbox[e]
    <3>1. /\ outbox'[e].status = "pending" /\ outbox'[e].attempts = 0
          /\ outbox'[e].redrive_generation = outbox[e].redrive_generation + 1
      BY <1>0, <1>4, <2>5, SMTT(60) DEF Redrive, RedriveDeadLetter, AbsentRow
    <3>2. ~Doubtful(e)'
      BY <3>1 DEF Doubtful
    <3>3. Allowance(e)' = Allowance(e) + MaxAttempts
      BY <1>0, <1>i, <2>3, <3>1, SMTT(60) DEF Allowance
    <3> QED BY <1>0, <1>i, <2>3, <3>1, <3>2, <3>3, SMTT(60) DEF BudgetOf
  <2> QED BY <2>4, <2>5
<1>5. ASSUME NEW w \in Worker, Claim(w) PROVE BudgetOf(e)'
  <2>1. PICK S \in SUBSET {f \in Event : Deliverable(f)} :
          /\ ClaimBatch(S, ConsumerName[w])
          /\ batch' = [batch EXCEPT ![w] = {ClaimedRecord(f, ConsumerName[w]) : f \in S}]
    BY <1>5 DEF Claim
  <2>2. /\ Held(w) = {} /\ crashes' = crashes /\ slow' = slow /\ posted' = posted
        /\ DOMAIN batch = Worker
    BY <1>0, <1>5 DEF Claim, TypeOK
  <2>3. CASE e \in S
    <3>1. /\ outbox'[e].status = "in_progress" /\ outbox'[e].leased
          /\ outbox'[e].attempts = outbox[e].attempts + 1
          /\ outbox'[e].redrive_generation = outbox[e].redrive_generation
          /\ grants'[e] = grants[e] + 1
      BY <1>0, <2>1, <2>3, ClaimEffect, SMTT(60)
    <3>2. ~Doubtful(e)' /\ ~Waiting(e)'
      <4>1. ClaimedRecord(e, ConsumerName[w]) \in Held(w)'
        BY <2>1, <2>2, <2>3 DEF Held
      <4>2. /\ ClaimedRecord(e, ConsumerName[w]).event_id = e
            /\ ClaimedRecord(e, ConsumerName[w]).grant = grants'[e]
        BY <3>1 DEF ClaimedRecord
      <4>3. ~Abandoned(e)'
        BY <4>1, <4>2 DEF Abandoned
      <4> QED BY <3>1, <4>3 DEF Doubtful, Waiting
    <3>3. Allowance(e)' = Allowance(e)
      BY <2>2, <3>1 DEF Allowance
    <3>4. Waiting(e) \/ Doubtful(e)
      BY <2>1, <2>3 DEF Deliverable, Waiting, Doubtful
    <3>5. grants[e] < MaxAttempts + Allowance(e)
      BY <1>0, <1>i, <3>4, SMTT(60) DEF BudgetOf
    <3> QED BY <1>0, <1>i, <3>1, <3>2, <3>3, <3>5, SMTT(60) DEF BudgetOf
  <2>4. CASE e \notin S
    <3>1. outbox'[e] = outbox[e] /\ grants'[e] = grants[e]
      BY <1>0, <2>1, <2>4, ClaimEffect, SMTT(60)
    <3>2. \A v \in Worker : Held(v) \subseteq Held(v)'
      BY <2>1, <2>2, SMTT(60) DEF Held
    <3>3. Doubtful(e)' => Doubtful(e)
      BY <3>1, <3>2 DEF Doubtful, Abandoned
    <3> QED BY <1>0, <1>s, <2>2, <3>1, <3>3, BudgetKept DEF Waiting
  <2> QED BY <2>3, <2>4
<1>6. ASSUME NEW w \in Worker, Deliver(w) PROVE BudgetOf(e)'
  <2>1. outbox' = outbox /\ grants' = grants /\ crashes' = crashes /\ slow' = slow
    BY <1>6 DEF Deliver, outboxVars
  <2>2. \A v \in Worker : Held(v)' = Held(v)
    <3>1. PICK r \in batch[w], outcome \in Outcome :
            /\ batch' = [batch EXCEPT ![w] = @ \ {r}]
            /\ posted' = [posted EXCEPT ![w] = {[record |-> r, outcome |-> outcome]}]
      BY <1>6 DEF Deliver
    <3>2. posted[w] = {} /\ DOMAIN batch = Worker /\ DOMAIN posted = Worker
      BY <1>0, <1>6 DEF Deliver, TypeOK
    <3>3. Held(w)' = Held(w)
      <4> DEFINE one == [record |-> r, outcome |-> outcome]
      <4>0. posted'[w] = {one} /\ one.record = r /\ batch'[w] = batch[w] \ {r}
        BY <3>1, <3>2
      <4> HIDE DEF one
      <4>1. {p.record : p \in posted'[w]} = {r}
        BY <4>0
      <4>2. {p.record : p \in posted[w]} = {}
        BY <3>2
      <4> QED BY <4>0, <4>1, <4>2 DEF Held
    <3>4. \A v \in Worker \ {w} : batch'[v] = batch[v] /\ posted'[v] = posted[v]
      BY <3>1, <3>2
    <3> QED BY <3>3, <3>4 DEF Held
  <2> QED BY <1>0, <1>s, <2>1, <2>2, SameDoubt, BudgetKept DEF Waiting
<1>7. ASSUME NEW w \in Worker, Complete(w) PROVE BudgetOf(e)'
  <2>1. PICK p \in posted[w] : IF p.outcome = "ok" THEN MarkPublished(p.record)
                               ELSE MarkFailed(p.record, p.outcome)
    BY <1>7 DEF Complete
  <2>2. /\ crashes' = crashes /\ slow' = slow /\ batch' = batch
        /\ posted' = [posted EXCEPT ![w] = {}] /\ DOMAIN posted = Worker
    BY <1>0, <1>7 DEF Complete, TypeOK
  <2>3. /\ grants' = grants
        /\ outbox'[e].attempts = outbox[e].attempts
        /\ outbox'[e].redrive_generation = outbox[e].redrive_generation
    BY <1>0, <2>1, PublishEffect, FailEffect
  <2>4. Waiting(e)' => Waiting(e) \/ outbox[e].attempts < MaxAttempts
    <3>1. CASE p.outcome = "ok"
      BY <1>0, <2>1, <3>1, PublishEffect DEF Waiting
    <3>2. CASE p.outcome # "ok"
      BY <1>0, <1>i, <2>1, <3>2, FailEffect, SMTT(60) DEF Waiting, StatusAfterFailure
    <3> QED BY <3>1, <3>2
  <2>5. ASSUME Doubtful(e)' PROVE Doubtful(e)
    <3>1. outbox'[e].status = "in_progress"
      BY <2>5 DEF Doubtful
    <3>2. outbox'[e] = outbox[e]
      BY <1>0, <2>1, <3>1, PublishEffect, FailEffect, SMTT(60) DEF StatusAfterFailure
    <3>3. CASE ~outbox[e].leased
      BY <3>1, <3>2, <3>3 DEF Doubtful
    <3>4. CASE Abandoned(e)'
      <4>1. \A v \in Worker : \A r \in Held(v) : r = p.record \/ r \in Held(v)'
        BY <2>2, SMTT(60) DEF Held, BudgetInv, OnePosted
      <4>2. ~(p.record.event_id = e /\ p.record.grant = grants[e])
        <5> SUFFICES ASSUME p.record.event_id = e, p.record.grant = grants[e] PROVE FALSE
          OBVIOUS
        <5>1. Fenced(p.record)
          BY <3>1, <3>2 DEF BudgetInv, CurrentFenced, Held
        <5>2. outbox'[e].status # "in_progress"
          BY <1>0, <2>1, <5>1, PublishEffect, FailEffect, SMTT(60) DEF StatusAfterFailure
        <5> QED BY <3>1, <5>2
      <4>3. Abandoned(e)
        BY <2>3, <3>4, <4>1, <4>2 DEF Abandoned
      <4> QED BY <3>1, <3>2, <4>3 DEF Doubtful
    <3> QED BY <2>5, <3>2, <3>3, <3>4 DEF Doubtful
  <2> QED BY <1>0, <1>s, <2>2, <2>3, <2>4, <2>5, BudgetKept
<1>8. ASSUME NEW w \in Worker, Abort(w) PROVE BudgetOf(e)'
  <2>1. outbox' = outbox /\ grants' = grants /\ crashes' = crashes + 1 /\ slow' = slow
    BY <1>8 DEF Abort, outboxVars
  <2>2. crashes' + slow' > crashes + slow /\ crashes' + slow' >= crashes + slow
    BY <1>0, <2>1, SMTT(60)
  <2> QED BY <1>0, <2>1, <2>2, BudgetKept DEF Waiting
<1>9. CASE UNCHANGED vars
  <2>1. outbox' = outbox /\ grants' = grants /\ crashes' = crashes /\ slow' = slow
    BY <1>9 DEF vars, outboxVars, relayVars
  <2>2. \A v \in Worker : Held(v)' = Held(v)
    BY <1>9 DEF vars, relayVars, Held
  <2> QED BY <1>0, <1>s, <2>1, <2>2, SameDoubt, BudgetKept DEF Waiting
<1> QED BY <1>1, <1>2, <1>3, <1>4, <1>5, <1>6, <1>7, <1>8, <1>9 DEF Next

(* The retry budget of claim_batch and mark_failed, for any number of      *)
(* workers, crashes, lapses and redrives: every claim of a row beyond      *)
(* MaxAttempts per generation answers a crash or a lapsed lease.           *)
THEOREM RetryBudgetRespected == Spec => []RetryBudget
<1>1. Init => BudgetInv
  <2> SUFFICES ASSUME Init PROVE BudgetInv
    OBVIOUS
  <2>1. TypeOK /\ AbsentIsFresh
    BY TypeInit DEF Init, OutboxInit, AbsentIsFresh
  <2>2. OnePosted /\ CurrentFenced
    BY SMTT(60) DEF Init, OnePosted, CurrentFenced, Held
  <2>3. ASSUME NEW e \in Event PROVE BudgetOf(e)
    <3>1. /\ outbox[e].status = "absent" /\ outbox[e].attempts = 0 /\ grants[e] = 0
      BY DEF Init, OutboxInit, AbsentRow
    <3>2. Allowance(e) \in Nat /\ MaxAttempts \in Nat \ {0}
      BY <2>1, RowParts
    <3>3. ~Doubtful(e)
      BY <3>1 DEF Doubtful
    <3> QED BY <3>1, <3>2, <3>3, SMTT(60) DEF BudgetOf
  <2> QED BY <2>1, <2>2, <2>3 DEF BudgetInv
<1>2. BudgetInv /\ [Next]_vars => BudgetInv'
  <2> SUFFICES ASSUME BudgetInv, [Next]_vars PROVE BudgetInv'
    OBVIOUS
  <2>1. TypeOK' /\ AbsentIsFresh' /\ OnePosted'
    BY TypeNext, AbsentFreshNext, OnePostedNext DEF BudgetInv
  <2>2. CurrentFenced'
    BY CurrentFencedNext DEF BudgetInv
  <2>3. \A e \in Event : BudgetOf(e)'
    BY BudgetNext
  <2> QED BY <2>1, <2>2, <2>3 DEF BudgetInv
<1>3. BudgetInv => RetryBudget
  <2> SUFFICES ASSUME BudgetInv, NEW e \in Event
               PROVE  grants[e] <= (outbox[e].redrive_generation + 1) * MaxAttempts
                                     + crashes + slow
    BY DEF RetryBudget
  <2>1. TypeOK /\ grants[e] <= MaxAttempts + Allowance(e)
    BY DEF BudgetInv, BudgetOf
  <2>2. /\ outbox[e].redrive_generation \in Nat /\ grants[e] \in Nat
        /\ crashes \in Nat /\ slow \in Nat
    BY <2>1, RowParts
  <2> QED BY <2>1, <2>2, SMTT(60) DEF Allowance
<1> QED BY <1>1, <1>2, <1>3, PTL DEF Spec

(* A published row keeps every column: late completions, lapsed leases and *)
(* redrive requests leave it alone.                                        *)
THEOREM PublishedFinal == Spec => PublishedIsFinal
<1>1. ASSUME TypeOK, [Next]_vars, NEW e \in Event, outbox[e].status = "published"
      PROVE  outbox'[e] = outbox[e]
  <2> outbox \in [Event -> Row]
    BY <1>1 DEF TypeOK, OutboxTypeOK
  <2>1. ASSUME NEW f \in Event, \/ Enqueue(f) \/ Backoff(f)
                               \/ LeaseOfDeadWorker(f) \/ LeaseOfSlowWorker(f)
        PROVE  outbox'[e] = outbox[e]
    BY <1>1, <2>1 DEF Enqueue, EnqueueOnSession, Backoff, BecomesAvailable,
       LeaseOfDeadWorker, LeaseOfSlowWorker, LeaseLapses
  <2>2. ASSUME NEW f \in Event, NEW x \in 0..MaxAudit, Redrive(f, x)
        PROVE  outbox'[e] = outbox[e]
    BY <1>1, <2>2 DEF Redrive, RedriveDeadLetter, RedriveOutcome
  <2>3. ASSUME NEW w \in Worker, Claim(w) PROVE outbox'[e] = outbox[e]
    BY <1>1, <2>3, ClaimEffect, SMTT(60) DEF Claim, Deliverable
  <2>4. ASSUME NEW w \in Worker, Complete(w) PROVE outbox'[e] = outbox[e]
    <3> PICK p \in posted[w] : MarkPublished(p.record) \/ MarkFailed(p.record, p.outcome)
      BY <2>4 DEF Complete
    <3> QED BY <1>1, PublishEffect, FailEffect, SMTT(60) DEF Fenced
  <2>5. ASSUME UNCHANGED outboxVars PROVE outbox'[e] = outbox[e]
    BY <2>5 DEF outboxVars
  <2> QED BY <1>1, <2>1, <2>2, <2>3, <2>4, <2>5 DEF Next, Deliver, Abort, vars
<1>2. TypeOK /\ [Next]_vars =>
        [\A e \in Event : outbox[e].status = "published" => outbox'[e] = outbox[e]]_vars
  BY <1>1
<1> QED BY <1>2, TypeCorrect, PTL DEF Spec, PublishedIsFinal

-----------------------------------------------------------------------------
(* Redrive.  Every generation a row has reached was acquired by exactly    *)
(* one audited request.                                                    *)

LEMMA OnlyRedriveTouchesAudit ==
  ASSUME TypeOK, AbsentIsFresh, [Next]_vars, NEW e \in Event
  PROVE  \/ /\ audit'[e] = audit[e]
            /\ outbox'[e].redrive_generation = outbox[e].redrive_generation
         \/ \E x \in 0..MaxAudit : Redrive(e, x)
<1> DEFINE Same == /\ audit'[e] = audit[e]
                   /\ outbox'[e].redrive_generation = outbox[e].redrive_generation
<1> outbox \in [Event -> Row] /\ audit \in [Event -> Seq(AuditEntry)]
  BY DEF TypeOK, OutboxTypeOK
<1>1. ASSUME NEW f \in Event, Enqueue(f) PROVE Same
  BY <1>1, SMTT(60) DEF Enqueue, EnqueueOnSession, AbsentRow, AbsentIsFresh
<1>2. ASSUME NEW f \in Event, Backoff(f) PROVE Same
  BY <1>2 DEF Backoff, BecomesAvailable, Row
<1>3. ASSUME NEW f \in Event, LeaseOfDeadWorker(f) \/ LeaseOfSlowWorker(f) PROVE Same
  <2>1. LeaseLapses(f)
    BY <1>3 DEF LeaseOfDeadWorker, LeaseOfSlowWorker
  <2> QED BY <2>1 DEF LeaseLapses, Row
<1>4. ASSUME NEW f \in Event, f # e, NEW x \in 0..MaxAudit, Redrive(f, x) PROVE Same
  BY <1>4 DEF Redrive, RedriveDeadLetter
<1>5. ASSUME NEW w \in Worker, Claim(w) PROVE Same
  <2>1. audit' = audit
    BY <1>5 DEF Claim, ClaimBatch
  <2> QED BY <1>5, <2>1, ClaimEffect DEF Claim
<1>6. ASSUME NEW w \in Worker, Complete(w) PROVE Same
  <2> PICK p \in posted[w] : MarkPublished(p.record) \/ MarkFailed(p.record, p.outcome)
    BY <1>6 DEF Complete
  <2>1. audit' = audit
    BY DEF MarkPublished, MarkFailed
  <2> QED BY <2>1, PublishEffect, FailEffect
<1>7. ASSUME UNCHANGED outboxVars PROVE Same
  BY <1>7 DEF outboxVars
<1> QED BY <1>1, <1>2, <1>3, <1>4, <1>5, <1>6, <1>7 DEF Next, Deliver, Abort, vars

LEMMA RedriveKeepsAudit ==
  ASSUME TypeOK, NEW e \in Event, NEW x \in 0..MaxAudit, RowAudited(e), Redrive(e, x)
  PROVE  RowAudited(e)'
<1> DEFINE outcome == RedriveOutcome(e, x)
           old == outbox[e].redrive_generation
           new == old + (IF outcome = "queued" THEN 1 ELSE 0)
           entry == [requested_generation |-> x, generation |-> new, outcome |-> outcome]
           n == Len(audit[e])
<1>0. /\ audit[e] \in Seq(AuditEntry)
      /\ n \in Nat
      /\ old \in Nat
      /\ x \in Nat
      /\ \A i \in 1..n : audit[e][i] \in AuditEntry
  BY SMTT(60) DEF TypeOK, OutboxTypeOK, Row
<1>1. audit'[e] = Append(audit[e], entry)
  BY DEF Redrive, RedriveDeadLetter, TypeOK, OutboxTypeOK
<1>2. /\ Len(audit'[e]) = n + 1
      /\ \A i \in 1..n : audit'[e][i] = audit[e][i]
      /\ audit'[e][n + 1] = entry
  BY <1>0, <1>1, SMTT(60)
<1>3. outbox'[e].redrive_generation = new
  <2>1. outcome # "queued" => outbox' = outbox
    BY DEF Redrive, RedriveDeadLetter
  <2>2. outcome = "queued" => outbox'[e] = [AbsentRow EXCEPT !.status = "pending",
                                              !.available = TRUE, !.redrive_generation = new]
    BY DEF Redrive, RedriveDeadLetter, TypeOK, OutboxTypeOK
  <2>3. \A g : [AbsentRow EXCEPT !.status = "pending", !.available = TRUE,
                                 !.redrive_generation = g].redrive_generation = g
    BY DEF AbsentRow
  <2>4. outcome # "queued" => new = old
    BY <1>0, SMTT(60)
  <2> HIDE DEF new, outcome
  <2> QED BY <2>1, <2>2, <2>3, <2>4
<1>4. /\ outcome = "queued" => x = old /\ new = x + 1
      /\ outcome # "queued" => new = old
      /\ new \in Nat
  BY <1>0, SMTT(60) DEF RedriveOutcome
<1>5. \A i \in 1..n : audit[e][i].generation \in Nat
  BY <1>0 DEF AuditEntry
<1>6. entry.generation = new /\ entry.requested_generation = x /\ entry.outcome = outcome
  OBVIOUS
<1>7. \A i \in 1..(n + 1) : i \in 1..n \/ i = n + 1
  BY <1>0, SMTT(60)
<1>a. \A i \in 1..n : audit[e][i].outcome = "queued" =>
        /\ audit[e][i].generation = audit[e][i].requested_generation + 1
        /\ audit[e][i].generation <= old
  BY DEF RowAudited, Queued
<1>b. \A i, j \in 1..n :
        i < j /\ audit[e][i].outcome = "queued" /\ audit[e][j].outcome = "queued" =>
          audit[e][i].generation < audit[e][j].generation
  BY DEF RowAudited, Queued
<1>c. \A k \in 1..old : \E i \in 1..n : audit[e][i].outcome = "queued" /\ audit[e][i].generation = k
  BY DEF RowAudited, Queued
<1>d. old <= new
  BY <1>0, <1>4, SMTT(60)
<1> HIDE DEF outcome, entry, n, old, new
<1>8. ASSUME NEW i \in 1..(n + 1), audit'[e][i].outcome = "queued"
      PROVE  /\ audit'[e][i].generation = audit'[e][i].requested_generation + 1
             /\ audit'[e][i].generation <= new
  <2>1. CASE i \in 1..n
    <3>1. audit'[e][i] = audit[e][i]
      BY <2>1, <1>2
    <3>2. /\ audit[e][i].generation = audit[e][i].requested_generation + 1
          /\ audit[e][i].generation <= old
      BY <2>1, <3>1, <1>8, <1>a
    <3>3. audit[e][i].generation \in Nat
      BY <2>1, <1>5
    <3>4. audit[e][i].generation <= new
      BY <3>2, <3>3, <1>0, <1>4, <1>d, SMTT(60)
    <3> QED BY <3>1, <3>2, <3>4
  <2>2. CASE i = n + 1
    <3>1. audit'[e][i] = entry
      BY <2>2, <1>2
    <3> QED BY <3>1, <1>4, <1>6, <1>8, SMTT(60)
  <2> QED BY <2>1, <2>2, <1>7
<1>9. ASSUME NEW i \in 1..(n + 1), NEW j \in 1..(n + 1), i < j,
             audit'[e][i].outcome = "queued", audit'[e][j].outcome = "queued"
      PROVE  audit'[e][i].generation < audit'[e][j].generation
  <2>1. i \in 1..n
    BY <1>0, <1>9, SMTT(60)
  <2>2. CASE j \in 1..n
    BY <2>1, <2>2, <1>2, <1>9, <1>b
  <2>3. CASE j = n + 1
    <3>1. /\ audit'[e][i] = audit[e][i]
          /\ audit'[e][j] = entry
      BY <2>1, <2>3, <1>2
    <3>2. audit[e][i].generation <= old /\ audit[e][i].generation \in Nat
      BY <2>1, <3>1, <1>5, <1>9, <1>a
    <3>3. new = old + 1
      BY <3>1, <1>4, <1>6, <1>9
    <3>4. audit[e][i].generation < new
      BY <3>2, <3>3, <1>0, SMTT(60)
    <3> QED BY <3>1, <3>4, <1>6
  <2> QED BY <2>2, <2>3, <1>7
<1>10. ASSUME NEW k \in 1..new
       PROVE  \E i \in 1..(n + 1) : audit'[e][i].outcome = "queued" /\ audit'[e][i].generation = k
  <2>1. CASE k \in 1..old
    <3> PICK i \in 1..n : audit[e][i].outcome = "queued" /\ audit[e][i].generation = k
      BY <2>1, <1>c
    <3>1. i \in 1..(n + 1)
      BY <1>0, SMTT(60)
    <3> QED BY <3>1, <1>2
  <2>2. CASE k \notin 1..old
    <3>1. outcome = "queued" /\ k = new
      BY <2>2, <1>0, <1>4, SMTT(60)
    <3>2. n + 1 \in 1..(n + 1)
      BY <1>0, SMTT(60)
    <3> QED BY <3>1, <3>2, <1>2, <1>6
  <2> QED BY <2>1, <2>2
<1> QED BY <1>2, <1>3, <1>8, <1>9, <1>10 DEF RowAudited, Queued

(* Every redrive generation of a row was acquired by exactly one audited   *)
(* operator request, whatever requests race.                               *)
THEOREM RedriveAuditComplete == Spec => []RedriveAudited
<1> DEFINE IInv == TypeOK /\ AbsentIsFresh /\ RedriveAudited
<1>1. Init => IInv
  BY TypeInit, SMTT(60) DEF Init, OutboxInit, AbsentRow, AbsentIsFresh, RowAudited, RedriveAudited
<1>2. IInv /\ [Next]_vars => IInv'
  <2> SUFFICES ASSUME IInv, [Next]_vars, NEW e \in Event PROVE RowAudited(e)'
    BY TypeNext, AbsentFreshNext DEF RedriveAudited
  <2>1. CASE /\ audit'[e] = audit[e]
             /\ outbox'[e].redrive_generation = outbox[e].redrive_generation
    BY <2>1, SMTT(60) DEF RedriveAudited, RowAudited, Queued
  <2> QED BY <2>1, OnlyRedriveTouchesAudit, RedriveKeepsAudit DEF RedriveAudited
<1> QED BY <1>1, <1>2, PTL DEF Spec

-----------------------------------------------------------------------------
(* The outbox with its relay implements the safety part of EventDelivery,  *)
(* for any number of rows and workers: every step maps to a step of the    *)
(* contract or to none.                                                    *)

(* A record a worker still holds names a row that was enqueued, so what    *)
(* reaches the consumer was requested.                                     *)
HeldWasEnqueued ==
  \A w \in Worker : \A r \in Held(w) : outbox[r.event_id].status # "absent"

LEMMA HeldWasEnqueuedNext ==
  TypeOK /\ HeldWasEnqueued /\ [Next]_vars => HeldWasEnqueued'
<1> SUFFICES ASSUME TypeOK, HeldWasEnqueued, [Next]_vars, NEW w \in Worker,
                    NEW r \in Held(w)', outbox'[r.event_id].status = "absent"
             PROVE  FALSE
  BY DEF HeldWasEnqueued
<1>1. CASE r \in Held(w)
  <2>1. r.event_id \in Event
    BY <1>1, HeldAreRecords, RecordFields
  <2> QED BY <1>1, <2>1, AbsentUntouched DEF HeldWasEnqueued
<1>2. ASSUME NEW S \in SUBSET Event, NEW e \in Event, ClaimBatch(S, ConsumerName[w]),
             e \in S, r = ClaimedRecord(e, ConsumerName[w])
      PROVE  FALSE
  <2>1. r.event_id = e /\ ConsumerName[w] \in Consumer /\ outbox \in [Event -> Row]
    BY <1>2 DEF ClaimedRecord, TypeOK, OutboxTypeOK
  <2> QED BY <1>2, <2>1, ClaimEffect
<1> QED BY <1>1, <1>2, HeldAfterStep

-----------------------------------------------------------------------------
stages == [e \in Event |-> StageOf(e)]

LEMMA StageOfStatus == ASSUME TypeOK, NEW e \in Event
  PROVE /\ StageOf(e) = "absent" <=> outbox[e].status = "absent"
        /\ StageOf(e) = "delivered" <=> outbox[e].status = "published"
        /\ StageOf(e) = "given_up" <=> outbox[e].status = "dead_letter"
        /\ StageOf(e) = "due" <=> outbox[e].status \in {"pending", "in_progress", "failed"}
<1>1. outbox[e].status \in Status
  BY DEF TypeOK, OutboxTypeOK, Row
<1> QED BY <1>1 DEF StageOf, Status

(* A step that moves at most one row between stages.                       *)
LEMMA OneStageMoves ==
  ASSUME TypeOK, TypeOK', NEW f \in Event,
         \A e \in Event \ {f} : outbox'[e].status = outbox[e].status
  PROVE  stages' = [stages EXCEPT ![f] = StageOf(f)']
<1>1. \A e \in Event \ {f} : StageOf(e)' = StageOf(e)
  BY DEF StageOf
<1>2. stages' = [e \in Event |-> StageOf(e)']
  BY DEF stages
<1> QED BY <1>1, <1>2 DEF stages

LEMMA NoStageMoves ==
  ASSUME TypeOK, TypeOK', \A e \in Event : StageOf(e)' = StageOf(e)
  PROVE  stages' = stages
<1>1. stages' = [e \in Event |-> StageOf(e)']
  BY DEF stages
<1> QED BY <1>1 DEF stages

(* One step per action of the relay.                                       *)
LEMMA ContractStep ==
  ASSUME TypeOK, TypeOK', OkWasAccepted, HeldWasEnqueued, [Next]_vars
  PROVE  [D!ContractNext]_(D!contractVars)
<1> DEFINE Stutter == stages' = stages /\ accepted' = accepted
           Step == [D!ContractNext]_(D!contractVars)
<1> outbox \in [Event -> Row] /\ outbox' \in [Event -> Row]
  BY DEF TypeOK, OutboxTypeOK
<1>0. Stutter => Step
  BY DEF D!contractVars, stages
<1>1. ASSUME NEW e \in Event, Enqueue(e) PROVE Step
  <2>1. \A f \in Event \ {e} : outbox'[f].status = outbox[f].status
    BY <1>1 DEF Enqueue, EnqueueOnSession
  <2>2. outbox[e].status = "absent" /\ outbox'[e].status = "pending"
    BY <1>1 DEF Enqueue, EnqueueOnSession, AbsentRow
  <2>3. StageOf(e) = "absent" /\ StageOf(e)' = "due"
    BY <2>2 DEF StageOf
  <2>4. accepted' = accepted
    BY <1>1 DEF Enqueue, relayVars
  <2>5. stages' = [stages EXCEPT ![e] = "due"] /\ stages[e] = "absent"
    BY <2>1, <2>3, OneStageMoves DEF stages
  <2>6. D!Request(e)
    BY <2>4, <2>5 DEF D!Request, D!Moves, stages
  <2> QED BY <2>6 DEF D!ContractNext
<1>2. ASSUME NEW e \in Event, Backoff(e) \/ LeaseOfDeadWorker(e) \/ LeaseOfSlowWorker(e)
      PROVE  Step
  <2>1. \A f \in Event : outbox'[f].status = outbox[f].status
    BY <1>2, SMTT(60) DEF Backoff, LeaseOfDeadWorker, LeaseOfSlowWorker, BecomesAvailable,
       LeaseLapses, Row
  <2>2. \A f \in Event : StageOf(f)' = StageOf(f)
    BY <2>1 DEF StageOf
  <2>3. accepted' = accepted
    BY <1>2 DEF Backoff, LeaseOfDeadWorker, LeaseOfSlowWorker, relayVars
  <2> QED BY <2>2, <2>3, NoStageMoves, <1>0
<1>3. ASSUME NEW e \in Event, NEW x \in 0..MaxAudit, Redrive(e, x) PROVE Step
  <2>1. accepted' = accepted
    BY <1>3 DEF Redrive, relayVars
  <2>2. CASE outbox' = outbox
    <3>1. \A f \in Event : StageOf(f)' = StageOf(f)
      BY <2>2 DEF StageOf
    <3> QED BY <3>1, <2>1, NoStageMoves, <1>0
  <2>3. CASE outbox' # outbox
    <3>1. RedriveOutcome(e, x) = "queued"
      BY <1>3, <2>3 DEF Redrive, RedriveDeadLetter
    <3>2. outbox[e].status = "dead_letter"
      BY <3>1 DEF RedriveOutcome
    <3>3. outbox'[e].status = "pending"
      BY <1>3, <3>1 DEF Redrive, RedriveDeadLetter, AbsentRow
    <3>4. \A f \in Event \ {e} : outbox'[f].status = outbox[f].status
      BY <1>3, <3>1 DEF Redrive, RedriveDeadLetter
    <3>5. StageOf(e) = "given_up" /\ StageOf(e)' = "due"
      BY <3>2, <3>3 DEF StageOf
    <3>6. stages' = [stages EXCEPT ![e] = "due"] /\ stages[e] = "given_up"
      BY <3>4, <3>5, OneStageMoves DEF stages
    <3>7. D!Revive(e)
      BY <2>1, <3>6 DEF D!Revive, D!Moves, stages
    <3> QED BY <3>7 DEF D!ContractNext
  <2> QED BY <2>2, <2>3
<1>4. ASSUME NEW w \in Worker, Claim(w) PROVE Step
  <2> PICK S \in SUBSET {e \in Event : Deliverable(e)} : ClaimBatch(S, ConsumerName[w])
    BY <1>4 DEF Claim
  <2>1. ConsumerName[w] \in Consumer /\ accepted' = accepted
    BY <1>4 DEF Claim
  <2>2. ASSUME NEW e \in Event PROVE StageOf(e)' = StageOf(e)
    <3>1. CASE e \in S
      <4>1. outbox'[e].status = "in_progress"
        BY <2>1, <3>1, ClaimEffect
      <4>2. outbox[e].status \in {"pending", "failed", "in_progress"}
        BY <3>1 DEF Deliverable
      <4> QED BY <4>1, <4>2 DEF StageOf
    <3>2. CASE e \notin S
      <4>1. outbox'[e] = outbox[e]
        BY <2>1, <3>2, ClaimEffect
      <4> QED BY <4>1 DEF StageOf
    <3> QED BY <3>1, <3>2
  <2> QED BY <2>1, <2>2, NoStageMoves, <1>0
<1>5. ASSUME NEW w \in Worker, Deliver(w) PROVE Step
  <2> PICK r \in batch[w] :
         accepted' = accepted \/ accepted' = accepted \union {r.event_id}
    BY <1>5 DEF Deliver
  <2>1. outbox' = outbox
    BY <1>5 DEF Deliver, outboxVars
  <2>2. stages' = stages
    <3>1. \A f \in Event : StageOf(f)' = StageOf(f)
      BY <2>1 DEF StageOf
    <3> QED BY <3>1, NoStageMoves
  <2>3. CASE accepted' = accepted \union {r.event_id}
    <3>1. r \in Held(w) /\ r \in Record
      BY HeldAreRecords DEF Held
    <3>2. r.event_id \in Event /\ outbox[r.event_id].status # "absent"
      BY <3>1, RecordFields DEF HeldWasEnqueued
    <3>3. StageOf(r.event_id) # "absent"
      BY <3>2, StageOfStatus
    <3>4. D!Consume(r.event_id)
      BY <2>2, <2>3, <3>2, <3>3 DEF D!Consume, stages
    <3> QED BY <3>2, <3>4 DEF D!ContractNext
  <2>4. CASE accepted' = accepted
    BY <2>2, <2>4, <1>0
  <2> QED BY <2>3, <2>4
<1>6. ASSUME NEW w \in Worker, Complete(w) PROVE Step
  <2> PICK p \in posted[w] : IF p.outcome = "ok" THEN MarkPublished(p.record)
                             ELSE MarkFailed(p.record, p.outcome)
    BY <1>6 DEF Complete
  <2> DEFINE f == p.record.event_id
  <2>1. p \in [record : Record, outcome : Outcome]
    BY DEF TypeOK
  <2>2. f \in Event
    BY <2>1, RecordFields
  <2>3. accepted' = accepted
    BY <1>6 DEF Complete
  <2>4. CASE outbox' = outbox
    <3>1. \A e \in Event : StageOf(e)' = StageOf(e)
      BY <2>4 DEF StageOf
    <3> QED BY <3>1, <2>3, NoStageMoves, <1>0
  <2>5. CASE outbox' # outbox /\ p.outcome = "ok"
    <3>1. Fenced(p.record)
      BY <2>5 DEF MarkPublished
    <3>2. \A e \in Event \ {f} : outbox'[e].status = outbox[e].status
      BY <2>5, PublishEffect
    <3>3. outbox[f].status = "in_progress"
      BY <3>1 DEF Fenced
    <3>4. outbox'[f].status = "published"
      BY <2>2, <2>5, <3>1, ZenonT(60) DEF MarkPublished, Released, Row
    <3>5. StageOf(f) = "due" /\ StageOf(f)' = "delivered"
      BY <3>3, <3>4 DEF StageOf
    <3>6. stages' = [stages EXCEPT ![f] = "delivered"] /\ stages[f] = "due"
      BY <2>2, <3>2, <3>5, OneStageMoves DEF stages
    <3>7. f \in accepted
      BY <2>5 DEF OkWasAccepted
    <3>8. D!Settle(f)
      BY <2>3, <3>6, <3>7 DEF D!Settle, D!Confirm, D!Moves, stages
    <3> QED BY <2>2, <3>8 DEF D!ContractNext
  <2>6. CASE outbox' # outbox /\ p.outcome # "ok"
    <3>1. Fenced(p.record) /\ MarkFailed(p.record, p.outcome)
      BY <2>6 DEF MarkFailed
    <3>2. \A e \in Event \ {f} : outbox'[e].status = outbox[e].status
      BY <3>1, FailEffect
    <3>3. outbox[f].status = "in_progress"
      BY <3>1 DEF Fenced
    <3>4. outbox'[f].status \in {"failed", "dead_letter"}
      BY <2>2, <2>6, <3>1 DEF MarkFailed, StatusAfterFailure, Released, Row
    <3>5. StageOf(f) = "due" /\ StageOf(f)' \in {"due", "given_up"}
      BY <3>3, <3>4 DEF StageOf
    <3>6. stages' = [stages EXCEPT ![f] = StageOf(f)'] /\ stages[f] = "due"
      BY <2>2, <3>2, <3>5, OneStageMoves DEF stages
    <3>7. CASE StageOf(f)' = "due"
      <4>1. stages' = stages
        BY <2>2, <3>6, <3>7 DEF stages
      <4> QED BY <2>3, <4>1, <1>0
    <3>8. CASE StageOf(f)' = "given_up"
      <4>1. D!Settle(f)
        BY <2>3, <3>6, <3>8 DEF D!Settle, D!GiveUp, D!Moves, stages
      <4> QED BY <2>2, <4>1 DEF D!ContractNext
    <3> QED BY <3>5, <3>7, <3>8
  <2> QED BY <2>4, <2>5, <2>6
<1>7. ASSUME UNCHANGED <<outbox, accepted>> PROVE Step
  <2>1. \A e \in Event : StageOf(e)' = StageOf(e)
    BY <1>7 DEF StageOf
  <2> QED BY <2>1, <1>7, NoStageMoves, <1>0
<1> QED BY <1>1, <1>2, <1>3, <1>4, <1>5, <1>6, <1>7
        DEF Next, Abort, vars, outboxVars, relayVars

(* The delivery contract without its liveness: an event is consumed only   *)
(* after it was requested, reported delivered only after it was consumed,  *)
(* and given up or revived only from the stage the contract allows.        *)
THEOREM DeliverySafe == Spec => D!ContractSafety
<1> DEFINE IInv == TypeOK /\ OkWasAccepted /\ HeldWasEnqueued
<1>1. Init => IInv
  BY TypeInit DEF Init, OkWasAccepted, HeldWasEnqueued, Held
<1>2. IInv /\ [Next]_vars => IInv'
  BY TypeNext, OkAcceptedNext, HeldWasEnqueuedNext
<1>3. Init => D!ContractInit
  BY SMTT(60) DEF Init, OutboxInit, AbsentRow, D!ContractInit, StageOf
<1>4. IInv /\ [Next]_vars => [D!ContractNext]_(D!contractVars)
  BY <1>2, ContractStep
<1> QED BY <1>1, <1>2, <1>3, <1>4, PTL DEF Spec, D!ContractSafety
==============================================================================
