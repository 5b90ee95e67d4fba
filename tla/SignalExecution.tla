--------------------------- MODULE SignalExecution ---------------------------
(***************************************************************************)
(* One /execute-command request from delivery to HTTP answer, in any       *)
(* number of concurrent handlers and replicas: api.execute_command,        *)
(* ExecutionEngine.handle_signal, the dispatch and risk gates, and         *)
(* OrderExecutor.execute, on top of the account serializer, the dedup      *)
(* claim and the order ledger.  Broker accounts are live: the local paper  *)
(* lifecycle is a component of its own.                                    *)
(*                                                                         *)
(* Every await, every commit and every broker call is a step boundary, so  *)
(* handlers interleave and a replica can crash at each of them.  A         *)
(* database write may raise, and one that raised was committed or not.     *)
(***************************************************************************)
EXTENDS AccountSerializer, ExecutionDedup, OrderLedger

CONSTANTS NoCommand,     \* an idle handler's command
          LostReply,     \* how adapters report a submission without a reply
          MaxDeliveries  \* bound: MaxDeliveries[c] requests for c

ASSUME ExecutionAssumption ==
  /\ NoCommand \notin Command
  /\ LostReply \subseteq {"raises", "pending", "rejected"}
  /\ MaxDeliveries \in [Command -> Nat]

VARIABLES pc, job, at,  \* step, command and leg of each handler
          work,         \* the handler's local variables
          deliveries,   \* deliveries[c]: requests made for c
          answered,     \* history: the answers given for c
          handled       \* history: commands that reached _finalize_result

handlerVars == <<pc, job, at, work, deliveries, answered, handled>>
vars == <<serializerVars, dedupVars, ledgerVars, handlerVars>>

Step == {"idle", "enter", "claim", "gate", "cancel", "create", "persist", "abort", "submit",
         "reply", "unknown", "unknown_row", "fills", "resolve", "resolve_row",
         "aggregate", "finalize", "leave"}

Local == [res : Result, fills : 0..Lots, replay : BOOLEAN,
          filled : BOOLEAN,  \* some order result so far has a fill
          doubt : BOOLEAN,   \* some order result so far is submission_unknown
          todo : SUBSET Leg, \* resting orders still to cancel
          outcome : Outcome \union {"none", "duplicate", "raised"}]

NoWork == [res |-> RejectedResult, fills |-> 0, replay |-> FALSE, filled |-> FALSE,
           doubt |-> FALSE, todo |-> {}, outcome |-> "none"]

Cur(t) == <<job[t], at[t]>>

TypeOK ==
  /\ SerializerTypeOK /\ DedupTypeOK /\ LedgerTypeOK
  /\ pc \in [Task -> Step]
  /\ job \in [Task -> Command \union {NoCommand}]
  /\ at \in [Task -> {"primary", "exit"}]
  /\ \A t \in Task : job[t] # NoCommand => Cur(t) \in Leg
  /\ work \in [Task -> Local]
  /\ deliveries \in [Command -> Nat]
  /\ answered \in [Command -> SUBSET {"ok", "duplicate", "retry", "error"}]
  /\ handled \subseteq Command

Init ==
  /\ SerializerInit /\ DedupInit /\ LedgerInit
  /\ pc = [t \in Task |-> "idle"]
  /\ job = [t \in Task |-> NoCommand]
  /\ at = [t \in Task |-> "primary"]
  /\ work = [t \in Task |-> NoWork]
  /\ deliveries = [c \in Command |-> 0]
  /\ answered = [c \in Command |-> {}]
  /\ handled = {}

-----------------------------------------------------------------------------
(* Control flow shared by the steps *)

Goto(t, s) == pc' = [pc EXCEPT ![t] = s]

\* Handler bookkeeping that only delivery and the answer touch.
unmoved == <<job, deliveries, answered, handled>>

\* An exception inside the body of the handler: _short_circuit_result with the
\* command's real execution mode, hence a retryable failure.
Raise(t) ==
  /\ work' = [work EXCEPT ![t] = [NoWork EXCEPT !.outcome = "retryable"]]
  /\ Goto(t, "finalize")
  /\ UNCHANGED at

\* results.append(result), then the exit leg if the entry filled, else on.
NextLegMutant(t, res) ==
  LET more == at[t] = "primary" /\ job[t] \in Bracketed
  IN /\ work' = [work EXCEPT ![t] = [NoWork EXCEPT !.filled = work[t].filled \/ res.qty > 0,
                                                   !.doubt = work[t].doubt \/ res.unknown]]
     /\ at' = [at EXCEPT ![t] = IF more THEN "exit" ELSE @]
     /\ Goto(t, IF more THEN "create" ELSE "aggregate")
NextLeg(t, res) ==
  LET anyFill == work[t].filled \/ res.qty > 0
      more == at[t] = "primary" /\ job[t] \in Bracketed /\ anyFill
  IN /\ work' = [work EXCEPT ![t] = [NoWork EXCEPT !.filled = anyFill,
                                                   !.doubt = work[t].doubt \/ res.unknown]]
     /\ at' = [at EXCEPT ![t] = IF more THEN "exit" ELSE @]
     /\ Goto(t, IF more THEN "create" ELSE "aggregate")

-----------------------------------------------------------------------------
(* The request arrives and enters the account's serialized section *)

Deliver(t, c) ==
  /\ pc[t] = "idle"
  /\ deliveries[c] < MaxDeliveries[c]
  /\ deliveries' = [deliveries EXCEPT ![c] = @ + 1]
  /\ job' = [job EXCEPT ![t] = c]
  /\ at' = [at EXCEPT ![t] = "primary"]
  /\ work' = [work EXCEPT ![t] = NoWork]
  /\ Goto(t, "enter")
  /\ UNCHANGED <<serializerVars, dedupVars, ledgerVars, answered, handled>>

Answer(t, a) ==
  /\ answered' = [answered EXCEPT ![job[t]] = @ \union {a}]
  /\ job' = [job EXCEPT ![t] = NoCommand]
  /\ at' = [at EXCEPT ![t] = "primary"]
  /\ work' = [work EXCEPT ![t] = NoWork]
  /\ Goto(t, "idle")
  /\ UNCHANGED <<deliveries, handled>>

\* hold() raises: the account is busy, or the lock server is unreachable.
EnterBusy(t) ==
  /\ pc[t] = "enter" /\ phase[t] = "idle"
  /\ \/ ~CanLock(t) /\ Answer(t, "retry")
     \/ Answer(t, "error")
  /\ UNCHANGED <<serializerVars, dedupVars, ledgerVars>>

EnterLock(t) ==
  /\ pc[t] = "enter" /\ TryLock(t)
  /\ UNCHANGED <<dedupVars, ledgerVars, handlerVars>>

EnterClaim(t) ==
  /\ pc[t] = "enter" /\ ClaimGeneration(t)
  /\ Goto(t, "claim")
  /\ UNCHANGED <<dedupVars, ledgerVars, at, work, unmoved>>

EnterFails(t) ==
  /\ pc[t] = "enter" /\ ClaimFails(t)
  /\ work' = [work EXCEPT ![t].outcome = "raised"]
  /\ Goto(t, "leave")
  /\ UNCHANGED <<dedupVars, ledgerVars, at, unmoved>>

-----------------------------------------------------------------------------
(* Dedup claim and gates *)

\* claim_dispatch_execution.  It runs outside the handler's try block: a
\* database error propagates to the API.
Claim(t) ==
  /\ pc[t] = "claim"
  /\ \/ /\ ClaimExecution(Home[t], job[t])
        /\ Goto(t, "gate")
        /\ UNCHANGED work
     \/ /\ IsDuplicate(Home[t], job[t])
        /\ work' = [work EXCEPT ![t].outcome = "duplicate"]
        /\ Goto(t, "leave")
        /\ UNCHANGED dedupVars
     \/ /\ ClaimRaises(Home[t], job[t])
        /\ work' = [work EXCEPT ![t].outcome = "raised"]
        /\ Goto(t, "leave")
  /\ UNCHANGED <<serializerVars, ledgerVars, at, unmoved>>

RestingOrders(t) == {l \in Leg : tracked[Home[t]][l] # "none"}

\* Resolution, account, freshness, breaker, policy, sizing and risk gates: they
\* stop the command with a no-op, a terminal block or a transient failure, or
\* let it build its orders.
Gate(t) ==
  /\ pc[t] = "gate"
  /\ \/ \E o \in Outcome : /\ work' = [work EXCEPT ![t].outcome = o]
                           /\ Goto(t, "finalize")
     \/ IF job[t] \in Closing
        THEN /\ work' = [work EXCEPT ![t].todo = RestingOrders(t)]
             /\ Goto(t, "cancel")
        ELSE Goto(t, "create") /\ UNCHANGED work
  /\ UNCHANGED <<serializerVars, dedupVars, ledgerVars, at, unmoved>>

\* _cancel_resting_orders, one order: the venue cancels it or not, and says so
\* or not; the row is closed only after a confirmed cancel.
CancelAtVenue(t, l) ==
  venue[l].state = "open" /\ tracked[Home[t]][l] = "venue"

CancelOneMutant(t) ==
  /\ pc[t] = "cancel"
  /\ \E l \in work[t].todo :
       /\ work' = [work EXCEPT ![t].todo = @ \ {l}]
       /\ Untrack(Home[t], l)
       /\ \/ CanCancelWorking(l, tracked[Home[t]][l]) /\ CancelWorking(l)
          \/ UNCHANGED <<canonical, pending>>
  /\ UNCHANGED <<serializerVars, dedupVars, submissions, venue, pc, at, unmoved>>
CancelOneMutant2(t) ==
  /\ pc[t] = "cancel"
  /\ \E l \in work[t].todo :
       /\ CancelAtVenue(t, l)
       /\ work' = [work EXCEPT ![t].todo = @ \ {l}]
       /\ venue' = [venue EXCEPT ![l].state = "canceled"]
       /\ Untrack(Home[t], l)
       /\ \/ CanCancelWorking(l, "venue") /\ CancelWorking(l)
          \/ UNCHANGED <<canonical, pending>>
  /\ UNCHANGED <<serializerVars, dedupVars, submissions, pc, at, unmoved>>
CancelOne(t) ==
  /\ pc[t] = "cancel"
  /\ \E l \in work[t].todo :
       /\ work' = [work EXCEPT ![t].todo = @ \ {l}]
       /\ \/ UNCHANGED <<canonical, pending, tracked, venue>>
          \/ /\ CancelAtVenue(t, l)
             /\ venue' = [venue EXCEPT ![l].state = "canceled"]
             /\ UNCHANGED <<canonical, pending, tracked>>
          \/ /\ CancelAtVenue(t, l)
             /\ venue' = [venue EXCEPT ![l].state = "canceled"]
             /\ Untrack(Home[t], l)
             /\ \/ CanCancelWorking(l, "venue") /\ CancelWorking(l)
                \/ UNCHANGED <<canonical, pending>>
  /\ UNCHANGED <<serializerVars, dedupVars, submissions, pc, at, unmoved>>

CancelDone(t) ==
  /\ pc[t] = "cancel" /\ work[t].todo = {}
  /\ Goto(t, "create")
  /\ UNCHANGED <<serializerVars, dedupVars, ledgerVars, at, work, unmoved>>

-----------------------------------------------------------------------------
(* _submit_intent: persist, submit, resolve one leg *)

\* create_order.  "same" says that this attempt is sized like the recorded one.
\* A collision raises, and the caller turns any exception into a rejected
\* result; a reused attempt is answered from the ledger.
Create(t, same) ==
  LET l == Cur(t) IN
  /\ pc[t] = "create"
  /\ \/ /\ CreateOutcome(l, same) = "fresh"
        /\ CreateOrder(l)
        /\ Goto(t, "persist")
        /\ UNCHANGED <<at, work>>
     \/ /\ CreateOutcome(l, same) = "reused"
        /\ IF canonical[l].state = "submission_unknown"
           THEN NextLeg(t, UnknownResult)
           ELSE /\ work' = [work EXCEPT ![t].res = DurableResult(l),
                                        ![t].fills = canonical[l].fills,
                                        ![t].replay = TRUE]
                /\ Goto(t, "resolve")
                /\ UNCHANGED at
        /\ UNCHANGED canonical
     \/ /\ CreateOutcome(l, same) = "collision"
        /\ NextLeg(t, RejectedResult)
        /\ UNCHANGED canonical
  /\ UNCHANGED <<serializerVars, dedupVars, pending, venue, tracked, submissions, unmoved>>

\* The database raises, here or while a replay reads and applies the ledger.
CreateFails(t) ==
  /\ pc[t] = "create"
  /\ \/ UNCHANGED canonical
     \/ CreateOutcome(Cur(t), TRUE) = "fresh" /\ CreateOrder(Cur(t))
  /\ NextLeg(t, RejectedResult)
  /\ UNCHANGED <<serializerVars, dedupVars, pending, venue, tracked, submissions, unmoved>>

PersistMutant(t) ==
  /\ pc[t] = "persist"
  /\ PersistRow(Cur(t)) \/ UNCHANGED pending
  /\ Goto(t, "submit")
  /\ UNCHANGED <<serializerVars, dedupVars, canonical, venue, tracked, submissions,
                 at, work, unmoved>>
Persist(t) ==
  /\ pc[t] = "persist"
  /\ \/ PersistRow(Cur(t)) /\ Goto(t, "submit")
     \/ Goto(t, "abort") /\ (PersistRow(Cur(t)) \/ UNCHANGED pending)
  /\ UNCHANGED <<serializerVars, dedupVars, canonical, venue, tracked, submissions,
                 at, work, unmoved>>

Abort(t) ==
  /\ pc[t] = "abort"
  /\ \/ AbortPreSubmission(Cur(t)) /\ NextLeg(t, RejectedResult)
     \/ Raise(t) /\ (AbortPreSubmission(Cur(t)) \/ UNCHANGED canonical)
  /\ UNCHANGED <<serializerVars, dedupVars, pending, venue, tracked, submissions, unmoved>>

\* The request leaves the process; it reaches the venue or is lost.
SubmitMutant(t) ==
  /\ pc[t] = "submit"
  /\ submissions' = [submissions EXCEPT ![Cur(t)] = @ + 1]
  /\ VenueAccepts(Cur(t)) \/ UNCHANGED venue
  /\ pc' \in {[pc EXCEPT ![t] = "reply"], [pc EXCEPT ![t] = "submit"]}
  /\ UNCHANGED <<serializerVars, dedupVars, canonical, pending, tracked, at, work, unmoved>>
Submit(t) ==
  /\ pc[t] = "submit"
  /\ submissions' = [submissions EXCEPT ![Cur(t)] = @ + 1]
  /\ VenueAccepts(Cur(t)) \/ UNCHANGED venue
  /\ Goto(t, "reply")
  /\ UNCHANGED <<serializerVars, dedupVars, canonical, pending, tracked, at, work, unmoved>>

\* The adapter reports what the venue did, or has no reply: it then raises,
\* reports a pending order without an id, or reports a rejection.
ReplyMutant(t) ==
  LET l == Cur(t)
      Report(res) == work' = [work EXCEPT ![t].res = res] /\ Goto(t, "fills") IN
  /\ pc[t] = "reply"
  /\ \/ venue[l].state # "none" /\ Report(VenueResult(l))
     \/ "rejected" \in LostReply /\ Report(RejectedResult)
     \/ "pending" \in LostReply /\ Report([RejectedResult EXCEPT !.status = "PENDING"])
     \/ "raises" \in LostReply /\ Report(RejectedResult)
  /\ UNCHANGED <<serializerVars, dedupVars, ledgerVars, at, unmoved>>
Reply(t) ==
  LET l == Cur(t)
      Report(res) == work' = [work EXCEPT ![t].res = res] /\ Goto(t, "fills") IN
  /\ pc[t] = "reply"
  /\ \/ venue[l].state # "none" /\ Report(VenueResult(l))
     \/ "rejected" \in LostReply /\ Report(RejectedResult)
     \/ "pending" \in LostReply /\ Report([RejectedResult EXCEPT !.status = "PENDING"])
     \/ "raises" \in LostReply /\ Goto(t, "unknown") /\ UNCHANGED work
  /\ UNCHANGED <<serializerVars, dedupVars, ledgerVars, at, unmoved>>

\* The exception handler of the submit call: canonical first, then the row.
MarkUnknownMutant(t) ==
  /\ pc[t] = "unknown"
  /\ AbortPreSubmission(Cur(t)) /\ NextLeg(t, RejectedResult)
  /\ UNCHANGED <<serializerVars, dedupVars, pending, venue, tracked, submissions, unmoved>>
MarkUnknown(t) ==
  /\ pc[t] = "unknown"
  /\ \/ MarkCanonicalUnknown(Cur(t)) /\ Goto(t, "unknown_row") /\ UNCHANGED <<at, work>>
     \/ Raise(t) /\ (MarkCanonicalUnknown(Cur(t)) \/ UNCHANGED canonical)
  /\ UNCHANGED <<serializerVars, dedupVars, pending, venue, tracked, submissions, unmoved>>

MarkUnknownRow(t) ==
  /\ pc[t] = "unknown_row"
  /\ \/ /\ MarkRowUnknown(Cur(t))
        /\ TrackUnknown(Home[t], Cur(t))
        /\ NextLeg(t, UnknownResult)
     \/ Raise(t) /\ (MarkRowUnknown(Cur(t)) \/ UNCHANGED pending) /\ UNCHANGED tracked
  /\ UNCHANGED <<serializerVars, dedupVars, canonical, venue, submissions, unmoved>>

\* persistence_failed: the row stays as it is and the order stays tracked.
KeepForRecovery(t) ==
  /\ IF work[t].replay THEN Untrack(Home[t], Cur(t))
     ELSE Track(Home[t], Cur(t), work[t].res.ref)
  /\ NextLeg(t, work[t].res)

\* A reported fill needs the venue's exact trades, as of now.
FetchFills(t) ==
  /\ pc[t] = "fills"
  /\ \/ /\ work[t].res.qty = 0
        /\ Goto(t, "resolve")
        /\ UNCHANGED <<tracked, at, work>>
     \/ /\ work[t].res.qty > 0
        /\ work' = [work EXCEPT ![t].fills = venue[Cur(t)].qty]
        /\ Goto(t, "resolve")
        /\ UNCHANGED <<tracked, at>>
     \/ work[t].res.qty > 0 /\ KeepForRecovery(t)
  /\ UNCHANGED <<serializerVars, dedupVars, canonical, pending, venue, submissions, unmoved>>

\* resolve_order, first commit.
ResolveCanonicalMutant(t) ==
  /\ pc[t] = "resolve"
  /\ ApplyBrokerResult(Cur(t), work[t].res, work[t].fills) \/ UNCHANGED canonical
  /\ Goto(t, "resolve_row")
  /\ UNCHANGED <<serializerVars, dedupVars, tracked, pending, venue, submissions,
                 at, work, unmoved>>
ResolveCanonical(t) ==
  /\ pc[t] = "resolve"
  /\ \/ /\ ApplyBrokerResult(Cur(t), work[t].res, work[t].fills)
        /\ Goto(t, "resolve_row")
        /\ UNCHANGED <<tracked, at, work>>
     \/ /\ KeepForRecovery(t)
        /\ \/ ApplyBrokerResult(Cur(t), work[t].res, work[t].fills)
           \/ UNCHANGED canonical
  /\ UNCHANGED <<serializerVars, dedupVars, pending, venue, submissions, unmoved>>

\* resolve_order, second commit, and the cache: a terminal order is dropped.
ResolvePending(t) ==
  /\ pc[t] = "resolve_row"
  /\ \/ /\ ResolveRow(Cur(t), work[t].res)
        /\ IF work[t].replay \/ work[t].res.status \in TerminalStatus
           THEN Untrack(Home[t], Cur(t))
           ELSE Track(Home[t], Cur(t), work[t].res.ref)
        /\ NextLeg(t, work[t].res)
     \/ KeepForRecovery(t) /\ (ResolveRow(Cur(t), work[t].res) \/ UNCHANGED pending)
  /\ UNCHANGED <<serializerVars, dedupVars, canonical, venue, submissions, unmoved>>

-----------------------------------------------------------------------------
(* Result, dedup mark, release, answer *)

\* aggregate_order_results and is_retryable_failure.
AggregateOutcome(filled, doubt) ==
  IF doubt THEN "blocked" ELSE IF filled THEN "success" ELSE "retryable"

\* The account refresh and the post-trade checks may still raise.
Aggregate(t) ==
  /\ pc[t] = "aggregate"
  /\ \/ /\ work' = [work EXCEPT ![t].outcome = AggregateOutcome(work[t].filled, work[t].doubt)]
        /\ Goto(t, "finalize")
        /\ UNCHANGED at
     \/ Raise(t)
  /\ UNCHANGED <<serializerVars, dedupVars, ledgerVars, unmoved>>

Finalize(t) ==
  /\ pc[t] = "finalize"
  /\ \E stored \in BOOLEAN : MarkExecuted(Home[t], job[t], work[t].outcome, stored)
  /\ handled' = handled \union {job[t]}
  /\ Goto(t, "leave")
  /\ UNCHANGED <<serializerVars, ledgerVars, at, work, job, deliveries, answered>>

LeaveRow(t) ==
  /\ pc[t] = "leave" /\ Leave(t)
  /\ UNCHANGED <<dedupVars, ledgerVars, handlerVars>>

\* An error while releasing replaces the result: the API answers 500.
HttpAnswer(outcome, ending) ==
  CASE ending # "clean" \/ outcome = "raised" -> "error"
    [] outcome = "duplicate" -> "duplicate"
    [] outcome = "retryable" -> "retry"
    [] OTHER -> "ok"

LeaveUnlock(t) ==
  /\ pc[t] = "leave" /\ Unlock(t)
  /\ Answer(t, HttpAnswer(work[t].outcome, EndingOf(t)))
  /\ UNCHANGED <<dedupVars, ledgerVars>>

-----------------------------------------------------------------------------
(* Environment and specification *)

Environment ==
  \/ \E t \in Task : LoseSession(t) /\ UNCHANGED <<dedupVars, ledgerVars, handlerVars>>
  \/ \E r \in Replica, c \in Command :
       MemoryExpires(r, c) /\ UNCHANGED <<serializerVars, ledgerVars, handlerVars>>
  \/ \E c \in Command : GoesStale(c) /\ UNCHANGED <<serializerVars, ledgerVars, handlerVars>>
  \/ \E l \in Leg : VenueProgress(l) /\ UNCHANGED <<serializerVars, dedupVars, handlerVars>>

\* A replica dies with the requests it serves and starts again.
Crash(r) ==
  /\ CrashReplica(r)
  /\ ForgetMemory(r)
  /\ tracked' = [tracked EXCEPT ![r] = Rehydrated]
  /\ pc' = [t \in Task |-> IF t \in Residents(r) THEN "idle" ELSE pc[t]]
  /\ job' = [t \in Task |-> IF t \in Residents(r) THEN NoCommand ELSE job[t]]
  /\ at' = [t \in Task |-> IF t \in Residents(r) THEN "primary" ELSE at[t]]
  /\ work' = [t \in Task |-> IF t \in Residents(r) THEN NoWork ELSE work[t]]
  /\ UNCHANGED <<canonical, pending, venue, submissions, deliveries, answered, handled>>

HandlerStep(t) ==
  \/ EnterBusy(t) \/ EnterLock(t) \/ EnterClaim(t) \/ EnterFails(t)
  \/ Claim(t) \/ Gate(t) \/ CancelOne(t) \/ CancelDone(t)
  \/ (\E same \in BOOLEAN : Create(t, same)) \/ CreateFails(t) \/ Persist(t) \/ Abort(t) \/ Submit(t) \/ Reply(t)
  \/ MarkUnknown(t) \/ MarkUnknownRow(t) \/ FetchFills(t)
  \/ ResolveCanonical(t) \/ ResolvePending(t)
  \/ Aggregate(t) \/ Finalize(t) \/ LeaveRow(t) \/ LeaveUnlock(t)

Next ==
  \/ \E t \in Task : HandlerStep(t)
  \/ \E t \in Task, c \in Command : Deliver(t, c)
  \/ Environment
  \/ \E r \in Replica : Crash(r)

Spec == Init /\ [][Next]_vars

\* A request the server accepted keeps being scheduled until it is answered.
FairSpec == Spec /\ \A t \in Task : WF_vars(HandlerStep(t))
-----------------------------------------------------------------------------
(* Properties *)

\* However often a command is delivered, by however many replicas, through
\* crashes, dropped lock sessions and failed writes, a leg is sent to the
\* venue at most once: create_order, the primary key of pending_orders and
\* the refusal to resubmit an unknown order together make execution safe.
SubmittedOnce == \A l \in Leg : submissions[l] <= 1

\* "A pre-submission abort proves that no broker I/O occurred": the marker on
\* which _existing_order_ref revives an attempt is never on a sent order.
AbortedNeverSent ==
  \A l \in Leg : canonical[l].state = "rejected" /\ canonical[l].abort => submissions[l] = 0

\* A sent order is always recoverable after a crash: its row exists, and the
\* row is closed only when the canonical order is closed too (the order of
\* the two commits in resolve_order).
SentIsRecoverable ==
  \A l \in Leg : submissions[l] > 0 =>
    \/ pending[l].status \in Recoverable
    \/ pending[l].status # "absent" /\ canonical[l].state \in TerminalState

\* The recovery row never claims a fill the execution ledger does not have,
\* and the ledger never has a fill the venue did not make.
LedgerBetweenRowAndVenue ==
  \A l \in Leg :
    /\ pending[l].status = "filled" => canonical[l].fills = Lots
    /\ canonical[l].state = "filled" => canonical[l].fills = Lots
    /\ canonical[l].fills <= venue[l].qty

\* A closed recovery row means a dead order: with adapters that raise when a
\* reply is lost, no row is filled, cancelled, rejected or expired while the
\* venue still works the order.  A close in particular closes a row "only
\* once the venue confirmed the cancel" (_cancel_durable_resting_order).
ClosedRowIsDead ==
  \A l \in Leg : pending[l].status \notin Recoverable => venue[l].state # "open"

\* Protective exits are sent only after the entry has really traded: execute()
\* sizes them to filled_qty, including when the entry is replayed.
ExitAfterFill ==
  \A c \in Bracketed : submissions[Exit(c)] > 0 => venue[Primary(c)].qty > 0

\* Handlers between their dedup claim and their dedup mark.
Executing(c) ==
  {t \in Task : job[t] = c /\ pc[t] \notin {"idle", "enter", "claim", "leave"}}

\* Without stale reclaim the dedup row alone keeps a command to one handler,
\* even when two handlers are inside the account section.
OneExecutor ==
  ~reclaim => \A c \in Command : \A t, u \in Executing(c) : t = u

\* Executions are append-only and a filled order stays filled, whatever late
\* or stale result is applied to it.
FillsNeverLost ==
  [][\A l \in Leg : /\ canonical'[l].fills >= canonical[l].fills
                    /\ canonical[l].state = "filled" => canonical'[l].state = "filled"]_vars

\* Once a command is recorded as executed or rejected no redelivery reopens it
\* (claim_execution, mark_executed; stale reclaim off).
DecisionFinal ==
  [][~reclaim => \A c \in Command : decision[c] \in {"executed", "rejected"}
                                      => decision'[c] = decision[c]]_vars

\* Every request is answered or dies with its replica, so that its handler is
\* idle again: no step of the handler waits for another handler.
RequestsEnd == \A t \in Task : []<>(pc[t] = "idle")

\* What order_executor.py says of a lost acknowledgement: it "cannot prove
\* rejection".  A canonical rejection means the venue does not hold the order.
RejectedMeansRefused ==
  \A l \in Leg : canonical[l].state = "rejected" => venue[l].state \in {"none", "refused"}

\* What execution_result.py says of a duplicate: "the original was already
\* handled".
DuplicateMeansHandled ==
  \A c \in Command : "duplicate" \in answered[c] => c \in handled

\* What test_ambiguous_submit_is_persisted_and_never_resubmitted says of a
\* replay of the same order: the result is submission_unknown again.
UnknownReplayReported ==
  [][\A t \in Task : Create(t, TRUE) /\ canonical[Cur(t)].state = "submission_unknown"
                      => work'[t].doubt]_vars

\* What execute() says before a close: "Cancel this context's resting orders
\* for the symbol first", here for the orders this replica knows to be working.
CloseSeesResting ==
  [][\A t \in Task : pc[t] = "gate" /\ pc'[t] = "cancel"
       => {l \in Leg : pending[l].status = "working"} \subseteq work'[t].todo]_vars
=============================================================================
