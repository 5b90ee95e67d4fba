----------------------------- MODULE OrderLedger -----------------------------
(***************************************************************************)
(* The durable record of an order leg, the venue that holds the order, and *)
(* each replica's memory of it.                                            *)
(*                                                                         *)
(* canonical: the intent/order pair and its executions, written by         *)
(*   CanonicalExecutionStore under one idempotency key per leg.            *)
(* pending: the recovery row of PendingOrderRepository, whose primary key  *)
(*   is derived from the same key; rows are never deleted.                 *)
(* tracked: ReconciliationTracker.pending_orders_cache.                    *)
(* venue: the exchange (external).                                         *)
(*                                                                         *)
(* Every store method is one transaction and one step.  create_order, the  *)
(* abort and apply_broker_result read without a row lock: for them this    *)
(* assumes that no second handler of the command is in the same method.    *)
(* Quantities are whole lots; prices, fees and identities are dropped, so  *)
(* "the fills match the reported economics" compares quantities.           *)
(***************************************************************************)
EXTENDS ExecutionCommands

CONSTANT Lots  \* quantity of every order

ASSUME LedgerAssumption == Lots \in Nat \ {0}

VARIABLES canonical, pending, venue, tracked,
          submissions  \* history: broker submissions made for the leg

ledgerVars == <<canonical, pending, venue, tracked, submissions>>

OrderState == {"none", "new", "submission_unknown", "working", "partially_filled",
               "filled", "canceled", "rejected"}
TerminalState == {"filled", "canceled", "rejected"}
BrokerStatus == {"PENDING", "WORKING", "PARTIALLY_FILLED", "FILLED", "CANCELLED",
                 "REJECTED", "EXPIRED"}
TerminalStatus == {"FILLED", "CANCELLED", "REJECTED", "EXPIRED"}
RowStatus == {"absent", "pending", "submission_unknown", "submitted", "working",
              "partially_filled", "filled", "cancelled", "rejected", "expired"}
Recoverable == {"pending", "submission_unknown", "submitted", "working", "partially_filled"}
Cancellable == {"pending", "submitted", "working", "partially_filled"}

\* A broker order id: none yet, the venue's, or the local "pre-" identity.
Ref == {"none", "venue", "local"}

\* "abort" and "unknown" are the pre_submission_abort and submission_unknown
\* entries of the intent's payload; "fills" is the quantity in executions.
Canonical == [state : OrderState, abort : BOOLEAN, unknown : BOOLEAN,
              ref : Ref, fills : 0..Lots]
PendingRow == [status : RowStatus, ref : Ref]
VenueOrder == [state : {"none", "refused", "open", "done", "canceled"}, qty : 0..Lots]

\* A BrokerOrderResult.
Result == [status : BrokerStatus, qty : 0..Lots, ref : Ref, unknown : BOOLEAN]

LedgerTypeOK ==
  /\ canonical \in [Leg -> Canonical]
  /\ pending \in [Leg -> PendingRow]
  /\ venue \in [Leg -> VenueOrder]
  /\ tracked \in [Replica -> [Leg -> Ref \union {"unknown"}]]
  /\ submissions \in [Leg -> Nat]

LedgerInit ==
  /\ canonical = [l \in Leg |-> [state |-> "none", abort |-> FALSE, unknown |-> FALSE,
                                 ref |-> "none", fills |-> 0]]
  /\ pending = [l \in Leg |-> [status |-> "absent", ref |-> "none"]]
  /\ venue = [l \in Leg |-> [state |-> "none", qty |-> 0]]
  /\ tracked = [r \in Replica |-> [l \in Leg |-> "none"]]
  /\ submissions = [l \in Leg |-> 0]

RejectedResult == [status |-> "REJECTED", qty |-> 0, ref |-> "none", unknown |-> FALSE]
UnknownResult == [status |-> "PENDING", qty |-> 0, ref |-> "none", unknown |-> TRUE]

-----------------------------------------------------------------------------
(* CanonicalExecutionStore *)

\* What create_order finds under the leg's key.  "same" says whether this
\* attempt was sized exactly like the recorded one.  _identity_payload strips
\* the abort entry before comparing, but not the submission_unknown entry.
CreateOutcome(l, same) ==
  IF canonical[l].state = "none" THEN "fresh"
  ELSE IF ~same \/ canonical[l].unknown THEN "collision"
  ELSE IF /\ canonical[l].state = "rejected" /\ canonical[l].abort
          /\ canonical[l].ref = "none" /\ canonical[l].fills = 0 THEN "fresh"
  ELSE "reused"

\* The insert, or the revival of an aborted attempt under its old identity.
CreateOrder(l) ==
  canonical' = [canonical EXCEPT ![l].state = "new", ![l].abort = FALSE]

CanAbort(l) == canonical[l].state = "new" /\ canonical[l].ref = "none" /\ canonical[l].fills = 0

AbortPreSubmission(l) ==
  /\ CanAbort(l)
  /\ canonical' = [canonical EXCEPT ![l].state = "rejected", ![l].abort = TRUE]

CanMarkUnknown(l) == canonical[l].state \in {"new", "submission_unknown"}

MarkCanonicalUnknown(l) ==
  /\ CanMarkUnknown(l)
  /\ canonical' = [canonical EXCEPT ![l].state = "submission_unknown", ![l].unknown = TRUE]

\* _ORDER_STATE and _DURABLE_ORDER_STATUS.
OrderStateOf ==
  [PENDING |-> "new", WORKING |-> "working", PARTIALLY_FILLED |-> "partially_filled",
   FILLED |-> "filled", CANCELLED |-> "canceled", REJECTED |-> "rejected",
   EXPIRED |-> "canceled"]
DurableStatusOf ==
  [new |-> "PENDING", submission_unknown |-> "PENDING", working |-> "WORKING",
   partially_filled |-> "PARTIALLY_FILLED", filled |-> "FILLED",
   canceled |-> "CANCELLED", rejected |-> "REJECTED"]

\* read_durable_result.
DurableResult(l) == [status |-> DurableStatusOf[canonical[l].state],
                     qty |-> canonical[l].fills, ref |-> canonical[l].ref,
                     unknown |-> FALSE]

\* apply_broker_result raises instead of regressing a filled order, dropping
\* recorded executions, changing the broker reference, or recording a fill
\* whose trades do not add up to the reported quantity.
Applicable(l, res, fills) ==
  /\ canonical[l].state = "filled" /\ res.status # "FILLED" => fills > 0
  /\ canonical[l].fills > 0 /\ fills = 0 => res.status \in {"PARTIALLY_FILLED", "FILLED"}
  /\ res.ref # "none" /\ canonical[l].ref # "none" => res.ref = canonical[l].ref
  /\ res.qty > 0 => fills = res.qty

LargerOf(a, b) == IF a > b THEN a ELSE b

\* Trades are appended under their trade id, so a replayed subset adds nothing.
ApplyBrokerResultMutant(l, res, fills) ==
  /\ Applicable(l, res, fills)
  /\ canonical' = [canonical EXCEPT
       ![l].state = IF @ = "filled" THEN "filled" ELSE OrderStateOf[res.status],
       ![l].ref = IF res.ref = "none" THEN @ ELSE res.ref,
       ![l].fills = @ + fills]
ApplyBrokerResultMutant2(l, res, fills) ==
  canonical' = [canonical EXCEPT ![l].state = OrderStateOf[res.status],
                                 ![l].fills = fills,
                                 ![l].ref = IF res.ref = "none" THEN @ ELSE res.ref]
ApplyBrokerResult(l, res, fills) ==
  /\ Applicable(l, res, fills)
  /\ canonical' = [canonical EXCEPT
       ![l].state = IF @ = "filled" THEN "filled" ELSE OrderStateOf[res.status],
       ![l].ref = IF res.ref = "none" THEN @ ELSE res.ref,
       ![l].fills = LargerOf(@, fills)]

-----------------------------------------------------------------------------
(* PendingOrderRepository *)

\* A plain INSERT: the primary key refuses a second row for the leg.
CanPersist(l) == pending[l].status = "absent"

PersistRow(l) ==
  /\ CanPersist(l)
  /\ pending' = [pending EXCEPT ![l] = [status |-> "pending", ref |-> "none"]]

RowStatusOf ==
  [PENDING |-> "submitted", WORKING |-> "working", PARTIALLY_FILLED |-> "partially_filled",
   FILLED |-> "filled", CANCELLED |-> "cancelled", REJECTED |-> "rejected",
   EXPIRED |-> "expired"]

ResolveRow(l, res) ==
  /\ pending[l].status # "absent"
  /\ pending' = [pending EXCEPT ![l] = [status |-> RowStatusOf[res.status], ref |-> res.ref]]

MarkRowUnknown(l) ==
  /\ pending[l].status # "absent"
  /\ pending' = [pending EXCEPT ![l].status = "submission_unknown"]

\* cancel_working closes the row and its order in one transaction.  "key" is
\* the identity the caller has for it, matched against both id columns.
CanCancelWorking(l, key) ==
  /\ pending[l].status \in Cancellable
  /\ key = "local" \/ pending[l].ref = key

CancelWorking(l) ==
  /\ pending' = [pending EXCEPT ![l].status = "cancelled"]
  /\ canonical' = [canonical EXCEPT ![l].state = IF @ \in TerminalState THEN @ ELSE "canceled"]

-----------------------------------------------------------------------------
(* ReconciliationTracker's cache *)

\* The key an order is cached under: the venue's id or the local one.  An
\* "unknown" entry has the local key and the status submission_unknown.
Track(r, l, ref) ==
  tracked' = [tracked EXCEPT ![r][l] = IF ref = "none" THEN "local" ELSE ref]

TrackUnknown(r, l) == tracked' = [tracked EXCEPT ![r][l] = "unknown"]

Untrack(r, l) == tracked' = [tracked EXCEPT ![r][l] = "none"]

\* restore_pending_orders when a replica starts.
Rehydrated ==
  [l \in Leg |-> CASE pending[l].status \notin Recoverable -> "none"
                   [] pending[l].status = "submission_unknown" -> "unknown"
                   [] OTHER -> IF pending[l].ref = "none" THEN "local" ELSE pending[l].ref]

-----------------------------------------------------------------------------
(* The venue (external) *)

\* An order arrives: it is refused, rests, or fills at once in part or whole.
VenueAccepts(l) ==
  \E o \in {[state |-> "refused", qty |-> 0], [state |-> "done", qty |-> Lots]}
           \union {[state |-> "open", qty |-> q] : q \in 0..(Lots - 1)} :
    venue' = [venue EXCEPT ![l] = o]

\* A resting order fills some more, or the venue ends it unfilled.
VenueProgress(l) ==
  /\ venue[l].state = "open"
  /\ \/ venue' = [venue EXCEPT ![l] = [state |-> IF @.qty + 1 = Lots THEN "done" ELSE "open",
                                       qty |-> @.qty + 1]]
     \/ venue' = [venue EXCEPT ![l].state = "canceled"]
  /\ UNCHANGED <<canonical, pending, tracked, submissions>>

\* What an adapter reports of an order the venue knows.
VenueResult(l) ==
  LET o == venue[l] IN
  [status |-> CASE o.state = "refused" -> "REJECTED"
                [] o.state = "canceled" -> "CANCELLED"
                [] o.state = "done" -> "FILLED"
                [] OTHER -> IF o.qty = 0 THEN "WORKING" ELSE "PARTIALLY_FILLED",
   qty |-> o.qty,
   ref |-> IF o.state = "refused" THEN "none" ELSE "venue",
   unknown |-> FALSE]
=============================================================================
