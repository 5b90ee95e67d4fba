----------------------------- MODULE SignalRelay -----------------------------
(* Delivery of one indicator worker's signals: DurableSignalRelay of          *)
(* runtime_journal.py with the ordered mode of claim_batch, run by the        *)
(* SignalDeliveryLoop thread of signal_delivery.py. The events of the         *)
(* worker's partition are 1..n in creation order. The scoring engine that     *)
(* receives them is external; a failed POST may still have reached it.        *)
EXTENDS Outbox

CONSTANTS
  SignalConsumer,   \* claim owner of this worker's relay
  MaxPasses,        \* max_passes_per_wake
  MaxLoopDeaths     \* bound: processes that die or whose loop fails

ASSUME SignalAssumption ==
  /\ Event \subseteq Nat
  /\ SignalConsumer \in Consumer
  /\ MaxPasses \in Nat \ {0}
  /\ MaxLoopDeaths \in Nat

VARIABLES
  loop,      \* the delivery thread: [at, passes, records, outcome]
  wake,      \* _wake_event
  owed,      \* a signal is committed and wake() not called yet
  received,  \* history: events scoring has received
  deaths     \* counter for MaxLoopDeaths

signalVars == <<outboxVars, loop, wake, owed, received, deaths>>

Waiting == [at |-> "wait", passes |-> 0, records |-> {}, outcome |-> "none"]

SignalInit ==
  /\ OutboxInit
  /\ loop = Waiting
  /\ wake = TRUE
  /\ owed = FALSE
  /\ received = {}
  /\ deaths = 0

(* The relay keeps well-typed rows and thread state.                          *)
SignalTypeOK ==
  /\ OutboxTypeOK
  /\ loop \in [at : {"wait", "claim", "drained", "post", "complete"},
              passes : 0..(MaxPasses - 1),
              records : SUBSET Record,
              outcome : {"none", "ok", "transient"}]
  /\ wake \in BOOLEAN /\ owed \in BOOLEAN
  /\ received \subseteq Event
  /\ deaths \in 0..MaxLoopDeaths

Older(e) == {o \in Event : o < e}

(* A bar transition commits its signal; deliver_after_commit follows.         *)
Emit(e) ==
  /\ ~owed
  /\ outbox[e].status = "absent" /\ \A o \in Older(e) : outbox[o].status # "absent"
  /\ outbox' = [outbox EXCEPT ![e] = [AbsentRow EXCEPT !.status = "pending",
                                                       !.available = TRUE]]
  /\ owed' = TRUE
  /\ UNCHANGED <<audit, grants, loop, wake, received, deaths>>

Wake ==
  /\ owed
  /\ wake' = TRUE
  /\ owed' = FALSE
  /\ UNCHANGED <<outboxVars, loop, received, deaths>>

-----------------------------------------------------------------------------
(* _run: the wait ends by a wake or by the idle interval; the event is        *)
(* cleared before the drain starts.                                           *)
StartDrain ==
  /\ loop.at = "wait"
  /\ wake' = FALSE
  /\ loop' = [loop EXCEPT !.at = "claim"]
  /\ UNCHANGED <<outboxVars, owed, received, deaths>>

\* Mutant: any deliverable row of the partition.
ClaimableMutant(e) == Deliverable(e)

(* claim_batch(preserve_ordering=True): no older row that is not published.   *)
Claimable(e) ==
  /\ Deliverable(e)
  /\ \A o \in Older(e) : outbox[o].status = "published"

ClaimNext ==
  /\ loop.at = "claim"
  /\ LET S == {e \in Event : Claimable(e)} IN
       IF S = {}
       THEN loop' = [loop EXCEPT !.at = "drained"] /\ UNCHANGED outboxVars
       ELSE \E e \in S :
              /\ ClaimBatch({e}, SignalConsumer)
              /\ loop' = [loop EXCEPT !.at = "post",
                                      !.records = {ClaimedRecord(e, SignalConsumer)}]
  /\ UNCHANGED <<wake, owed, received, deaths>>

\* Mutant: the wake event is cleared when the drain ends.
EndDrainMutant ==
  /\ loop.at = "drained"
  /\ loop' = Waiting /\ wake' = FALSE
  /\ UNCHANGED <<outboxVars, owed, received, deaths>>

(* An empty pass has published its backlog and ends the drain.                *)
EndDrain ==
  /\ loop.at = "drained"
  /\ loop' = Waiting
  /\ UNCHANGED <<outboxVars, wake, owed, received, deaths>>

PostSignal ==
  /\ loop.at = "post"
  /\ \E r \in loop.records, outcome \in {"ok", "transient"}, reached \in BOOLEAN :
       /\ outcome = "ok" => reached
       /\ received' = IF reached THEN received \cup {r.event_id} ELSE received
       /\ loop' = [loop EXCEPT !.at = "complete", !.outcome = outcome]
  /\ UNCHANGED <<outboxVars, wake, owed, deaths>>

\* Mutant: the pass cap is off by one and does not re-arm the wake.
CompletePassMutant ==
  /\ loop.at = "complete"
  /\ \E r \in loop.records :
       IF loop.outcome = "ok" THEN MarkPublished(r) ELSE MarkFailed(r, "transient")
  /\ loop' = IF loop.outcome = "ok" /\ loop.passes <= MaxPasses
             THEN [Waiting EXCEPT !.at = "claim", !.passes = loop.passes + 1]
             ELSE Waiting
  /\ UNCHANGED <<wake, owed, received, deaths>>

(* The rest of a pass. drain() goes on while passes deliver, up to the cap,   *)
(* which re-arms the wake; a failed pass ends the drain.                      *)
CompletePass ==
  /\ loop.at = "complete"
  /\ \E r \in loop.records :
       IF loop.outcome = "ok" THEN MarkPublished(r) ELSE MarkFailed(r, "transient")
  /\ \/ /\ loop.outcome = "ok" /\ loop.passes + 1 < MaxPasses
        /\ loop' = [Waiting EXCEPT !.at = "claim", !.passes = loop.passes + 1]
        /\ UNCHANGED wake
     \/ /\ loop.outcome = "ok" /\ loop.passes + 1 = MaxPasses
        /\ loop' = Waiting /\ wake' = TRUE
     \/ /\ loop.outcome # "ok"
        /\ loop' = Waiting /\ UNCHANGED wake
  /\ UNCHANGED <<owed, received, deaths>>

(* The process dies, or a pass raises and the main loop exits; the supervisor *)
(* starts a new worker, whose start() wakes its loop.                         *)
WorkerRestarts ==
  /\ deaths < MaxLoopDeaths
  /\ deaths' = deaths + 1
  /\ loop' = Waiting /\ wake' = TRUE /\ owed' = FALSE
  /\ UNCHANGED <<outboxVars, received>>

(* Clocks: backoff ends; the lease of a claim nobody holds lapses. A lease    *)
(* that lapses under the live thread changes nothing, since only this thread  *)
(* claims the partition.                                                      *)
SignalBackoff(e) == BecomesAvailable(e) /\ UNCHANGED <<loop, wake, owed, received, deaths>>

SignalLease(e) ==
  /\ LeaseLapses(e)
  /\ UNCHANGED <<loop, wake, owed, received, deaths>>

LoopStep == StartDrain \/ ClaimNext \/ EndDrain \/ PostSignal \/ CompletePass

SignalNext ==
  \/ LoopStep \/ Wake \/ WorkerRestarts
  \/ \E e \in Event : Emit(e) \/ SignalBackoff(e) \/ SignalLease(e)

SignalSpec == SignalInit /\ [][SignalNext]_signalVars

-----------------------------------------------------------------------------
(* Order: scoring receives a signal only when every older signal of the       *)
(* worker has been published. In particular nothing overtakes a failed, a     *)
(* leased or a dead-lettered signal, over crashes and restarts.               *)
DeliveredInOrder ==
  \A e \in received : \A o \in Older(e) : outbox[o].status = "published"

(* No wake is lost: when the thread goes to wait for its idle interval with   *)
(* no wake armed, the oldest undelivered signal is not one that has never     *)
(* been tried. (Retries and abandoned claims are what idle passes are for.)   *)
NoWakeLost ==
  loop.at = "wait" /\ ~wake /\ ~owed =>
    \A e \in Event : Claimable(e) => outbox[e].attempts > 0

(* A signal that was committed is delivered, unless a dead letter ahead of it *)
(* (or itself) stops the partition for good.                                  *)
DeliveredOrBlocked ==
  <>[](\A e \in Event :
         \/ outbox[e].status \in {"absent", "published"}
         \/ \E o \in Older(e) \cup {e} : outbox[o].status = "dead_letter")
=============================================================================
