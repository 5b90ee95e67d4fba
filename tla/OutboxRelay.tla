----------------------------- MODULE OutboxRelay -----------------------------
(***************************************************************************)
(* The scoring engine's outbox relay (scoring_engine/outbox_relay.py):     *)
(* concurrent OutboxRelayWorkers that claim a batch, post each record to   *)
(* the execution engine and record the outcome.  The claim, the POST and   *)
(* the completion are separate steps, because the row is not locked        *)
(* between them: a lease may lapse, another worker may claim, an operator  *)
(* may redrive, or the process may die anywhere in between.                *)
(*                                                                         *)
(* The execution engine is external to this module: a POST is answered     *)
(* "ok", "transient" or "permanent", and a failed one may still have been  *)
(* accepted (a lost response, or a 2xx whose body does not decode).        *)
(***************************************************************************)
EXTENDS Outbox

CONSTANTS Worker,        \* relay processes: the inline relay, a relay command, restarts
          ConsumerName,  \* ConsumerName[w]: the name worker w claims under
          BatchLimit,    \* limit of one claim
          MaxCrashes,    \* bound: relay processes that die or abort a drain
          MaxSlow        \* bound: leases that lapse under a live worker

ASSUME RelayAssumption ==
  /\ ConsumerName \in [Worker -> Consumer]
  /\ BatchLimit \in Nat \ {0}
  /\ MaxCrashes \in Nat
  /\ MaxSlow \in Nat

VARIABLES batch,     \* batch[w]: claimed records of w not posted yet
          posted,    \* posted[w]: records of w posted and not completed (at most one)
          accepted,  \* history: events the consumer has accepted
          crashes,   \* counter for MaxCrashes
          slow       \* counter for MaxSlow

relayVars == <<batch, posted, accepted, crashes, slow>>
vars == <<outboxVars, relayVars>>

Outcome == {"ok", "transient", "permanent"}

TypeOK ==
  /\ OutboxTypeOK
  /\ batch \in [Worker -> SUBSET Record]
  /\ posted \in [Worker -> SUBSET [record : Record, outcome : Outcome]]
  /\ accepted \subseteq Event
  /\ crashes \in Nat
  /\ slow \in Nat

Init ==
  /\ OutboxInit
  /\ batch = [w \in Worker |-> {}]
  /\ posted = [w \in Worker |-> {}]
  /\ accepted = {}
  /\ crashes = 0
  /\ slow = 0

\* The records worker w still means to complete.
Held(w) == batch[w] \union {p.record : p \in posted[w]}

\* No live worker holds the claim the row of e carries.
Abandoned(e) ==
  \A w \in Worker : \A r \in Held(w) : r.event_id = e => r.grant # grants[e]

-----------------------------------------------------------------------------
(* The dispatcher commits the scoring decision and its command together.   *)
Enqueue(e) ==
  /\ EnqueueOnSession(e)
  /\ UNCHANGED relayVars

(* drain_once, first step.  SKIP LOCKED and the limit leave some of the    *)
(* deliverable rows out; an empty batch is claimed only if there is none.  *)
Claim(w) ==
  /\ Held(w) = {}
  /\ \E S \in SUBSET {e \in Event : Deliverable(e)} :
       /\ Cardinality(S) <= BatchLimit
       /\ S = {} => \A e \in Event : ~Deliverable(e)
       /\ ClaimBatch(S, ConsumerName[w])
       /\ batch' = [batch EXCEPT ![w] = {ClaimedRecord(e, ConsumerName[w]) : e \in S}]
  /\ UNCHANGED <<posted, accepted, crashes, slow>>

(* _deliver: one record of the batch is posted, and retried by             *)
(* retry_async, until there is an outcome.  A row on a topic without a     *)
(* consumer fails permanently without being posted.                        *)
Deliver(w) ==
  /\ posted[w] = {}
  /\ \E r \in batch[w], outcome \in Outcome, reached \in BOOLEAN :
       /\ r.event_id \notin Command => outcome = "permanent" /\ ~reached
       /\ outcome = "ok" => reached
       /\ batch' = [batch EXCEPT ![w] = @ \ {r}]
       /\ posted' = [posted EXCEPT ![w] = {[record |-> r, outcome |-> outcome]}]
       /\ accepted' = IF reached THEN accepted \union {r.event_id} ELSE accepted
  /\ UNCHANGED <<outboxVars, crashes, slow>>

\* Mutant: only a permanent failure is treated as a failure.
CompleteMutant(w) ==
  /\ \E p \in posted[w] :
       IF p.outcome # "permanent"
       THEN MarkPublished(p.record)
       ELSE MarkFailed(p.record, p.outcome)
  /\ posted' = [posted EXCEPT ![w] = {}]
  /\ UNCHANGED <<batch, accepted, crashes, slow>>

(* drain_once, completion of the posted record.  A lost claim is only      *)
(* logged; the loop goes on with the next record.                          *)
Complete(w) ==
  /\ \E p \in posted[w] :
       IF p.outcome = "ok"
       THEN MarkPublished(p.record)
       ELSE MarkFailed(p.record, p.outcome)
  /\ posted' = [posted EXCEPT ![w] = {}]
  /\ UNCHANGED <<batch, accepted, crashes, slow>>

(* The worker dies and is restarted, or a database error ends the drain:   *)
(* the claimed rows stay in_progress until their lease lapses.             *)
Abort(w) ==
  /\ crashes < MaxCrashes
  /\ Held(w) # {}
  /\ crashes' = crashes + 1
  /\ batch' = [batch EXCEPT ![w] = {}]
  /\ posted' = [posted EXCEPT ![w] = {}]
  /\ UNCHANGED <<outboxVars, accepted, slow>>

-----------------------------------------------------------------------------
(* POST /admin/outbox/dead-letters/{event_id}/redrive.                     *)
Redrive(e, expected) ==
  /\ RedriveDeadLetter(e, expected)
  /\ UNCHANGED relayVars

Backoff(e) ==
  /\ BecomesAvailable(e)
  /\ UNCHANGED relayVars

LeaseOfDeadWorker(e) ==
  /\ Abandoned(e)
  /\ LeaseLapses(e)
  /\ UNCHANGED relayVars

LeaseOfSlowWorker(e) ==
  /\ ~Abandoned(e)
  /\ slow < MaxSlow
  /\ slow' = slow + 1
  /\ LeaseLapses(e)
  /\ UNCHANGED <<batch, posted, accepted, crashes>>

Next ==
  \/ \E e \in Event :
       \/ Enqueue(e)
       \/ Backoff(e)
       \/ LeaseOfDeadWorker(e)
       \/ LeaseOfSlowWorker(e)
       \/ \E expected \in 0..MaxAudit : Redrive(e, expected)
  \/ \E w \in Worker : Claim(w) \/ Deliver(w) \/ Complete(w) \/ Abort(w)

Spec == Init /\ [][Next]_vars

(* run_forever polls every poll_interval_seconds whatever happened to the  *)
(* last drain, a delivery ends by the HTTP timeout, and clocks advance.  A *)
(* worker is at one of the three steps of its drain at a time.             *)
DrainStep(w) == Claim(w) \/ Deliver(w) \/ Complete(w)
Fairness ==
  /\ \A w \in Worker : WF_vars(DrainStep(w))
  /\ \A e \in Event : WF_vars(Backoff(e)) /\ WF_vars(LeaseOfDeadWorker(e))

FairSpec == Spec /\ Fairness

-----------------------------------------------------------------------------
(* A published row was accepted by the consumer at least once: the relay   *)
(* never drops a command, whatever completes late or is completed twice.   *)
PublishedWasAccepted ==
  \A e \in Event : outbox[e].status = "published" => e \in accepted

(* mark_published / mark_failed within one redrive generation: a record    *)
(* that passes the (owner, attempts) fence belongs to the row's latest     *)
(* claim, although every worker claims under the same name.                *)
FenceExactInGeneration ==
  \A w \in Worker : \A r \in Held(w) :
    /\ Fenced(r)
    /\ r.redrive_generation = outbox[r.event_id].redrive_generation
    => r.grant = grants[r.event_id]

(* The docstrings of mark_published and mark_failed: only the caller that  *)
(* "still owns the exact claim generation" completes the row.              *)
FenceExact ==
  \A w \in Worker : \A r \in Held(w) :
    Fenced(r) => r.grant = grants[r.event_id]

(* The retry budget of claim_batch and mark_failed, over the row's whole   *)
(* life: it is claimed at most MaxAttempts times per redrive generation.   *)
(* Only a lapsed lease is claimed beyond that, since the limit is compared *)
(* when a delivery fails, so each relay that died and each lease that      *)
(* lapsed under a live worker costs the row at most one further claim.     *)
RetryBudget ==
  \A e \in Event :
    grants[e] <= (outbox[e].redrive_generation + 1) * MaxAttempts + crashes + slow

(* The audit trail of redrive_dead_letter accounts for the row: every      *)
(* generation up to the row's was acquired by exactly one recorded         *)
(* request, which named the generation before it, so two operators never   *)
(* both acquire one generation.                                            *)
Queued(e, i) == audit[e][i].outcome = "queued"
RowAudited(e) ==
  /\ \A i \in 1..Len(audit[e]) : Queued(e, i) =>
       /\ audit[e][i].generation = audit[e][i].requested_generation + 1
       /\ audit[e][i].generation <= outbox[e].redrive_generation
  /\ \A i, j \in 1..Len(audit[e]) :
       i < j /\ Queued(e, i) /\ Queued(e, j) =>
         audit[e][i].generation < audit[e][j].generation
  /\ \A k \in 1..outbox[e].redrive_generation :
       \E i \in 1..Len(audit[e]) : Queued(e, i) /\ audit[e][i].generation = k
RedriveAudited == \A e \in Event : RowAudited(e)

(* A published row is never claimed, failed or redriven again.             *)
PublishedIsFinal ==
  [][\A e \in Event : outbox[e].status = "published" => outbox'[e] = outbox[e]]_vars

-----------------------------------------------------------------------------
(* The delivery contract.  A claimed or backing-off row is still due: that *)
(* a worker holds it, or how often it was tried, is not visible outside.   *)
StageOf(e) ==
  CASE outbox[e].status = "absent" -> "absent"
    [] outbox[e].status = "published" -> "delivered"
    [] outbox[e].status = "dead_letter" -> "given_up"
    [] OTHER -> "due"

D == INSTANCE EventDelivery
       WITH stage <- [e \in Event |-> StageOf(e)], consumed <- accepted

(* The outbox with its relay implements EventDelivery: with any number of  *)
(* workers, crashes, lapsed leases and redrives, an event is handed over   *)
(* at least once before it counts as delivered, and is never forgotten.    *)
DeliveryContract == D!Contract
=============================================================================
