--------------------------- MODULE Reconciliation ---------------------------
(***************************************************************************)
(* ReconciliationWorker beside the command handlers, for one live account: *)
(* the periodic task that compares the tracked orders of the account with  *)
(* the venue's book and settles the recovery rows of orders that are gone. *)
(*                                                                         *)
(* One cycle holds the account serializer, reads the venue's open orders,  *)
(* merges the recovery rows with its replica's cache, and asks the venue   *)
(* for each tracked order missing from the book.  A definitive answer is   *)
(* written to the canonical ledger and then to the row.  Any exception     *)
(* ends the cycle.  Positions, findings and the breaker a failed cycle     *)
(* opens do not feed back into the orders and are left out.                *)
(***************************************************************************)
EXTENDS SignalExecution

CONSTANTS Worker,          \* the worker, a task beside the handlers
          ClientIdInBook,  \* the adapter lists open orders with their client id
          ClientIdLookup,  \* the adapter has get_order_by_client_order_id
          NotFoundResult   \* the adapter answers "not found" instead of raising

ASSUME ReconciliationAssumption ==
  /\ Worker \in Task
  /\ {ClientIdInBook, ClientIdLookup, NotFoundResult} \subseteq BOOLEAN

VARIABLES sweep,    \* the worker's step and local variables
          context,  \* an order of this account was routed since the start
          synced    \* _terminal_synced_order_ids

recVars == <<sweep, context, synced>>
allVars == <<vars, recVars>>

Handlers == Task \ {Worker}

\* A tracked order as the cycle sees it: its leg, the id it is keyed by, and
\* whether its status is submission_unknown.
Entry == [leg : Leg, key : {"local", "venue"}, unknown : BOOLEAN]

SweepStep == {"idle", "enter", "book", "classify", "lookup", "fills", "apply", "resolve", "leave"}

\* "cur" is the entry being settled; "due", for the properties only, holds
\* the legs a faultless cycle has to close, and "fault" tells it had a fault.
Sweep == [step : SweepStep, book : SUBSET Leg, todo : SUBSET Entry, cur : SUBSET Entry,
          res : Result, fills : 0..Lots, due : SUBSET Leg, fault : BOOLEAN]

NoSweep == [step |-> "idle", book |-> {}, todo |-> {}, cur |-> {}, res |-> RejectedResult,
            fills |-> 0, due |-> {}, fault |-> FALSE]

RecTypeOK ==
  /\ TypeOK
  /\ sweep \in Sweep
  /\ context \in BOOLEAN
  /\ synced \subseteq (Leg \X {"local", "venue"})

RecInit == Init /\ sweep = NoSweep /\ context = FALSE /\ synced = {}

-----------------------------------------------------------------------------
(* Handlers.  _track_reconciliation_context runs among the gates, once the  *)
(* broker is connected.                                                     *)

Routed(t) ==
  IF pc[t] # "gate" THEN context' = context
  ELSE IF pc'[t] = "finalize" THEN context' \in {context, TRUE}
  ELSE context' = TRUE

Handler(t) == HandlerStep(t) /\ Routed(t) /\ UNCHANGED <<sweep, synced>>

-----------------------------------------------------------------------------
(* One cycle: reconcile_once *)

At(s) == sweep.step = s

Go(s) == sweep' = [sweep EXCEPT !.step = s]

\* The except branch of the cycle.
Abandon == sweep' = [NoSweep EXCEPT !.step = "leave", !.due = sweep.due, !.fault = TRUE]

ordersKept == <<dedupVars, ledgerVars, handlerVars, context>>

\* A busy account is skipped until the next cycle.
SweepEnter ==
  /\ \/ At("idle") /\ context /\ TryLock(Worker) /\ Go("enter")
     \/ At("enter") /\ ClaimGeneration(Worker) /\ Go("book")
     \/ At("enter") /\ ClaimFails(Worker) /\ Abandon
  /\ UNCHANGED <<ordersKept, synced>>

\* Rows the venue has nothing more to say about, known by the venue's id.
Settleable == {l \in Leg : /\ pending[l].status \in Recoverable
                           /\ pending[l].ref = "venue" /\ venue[l].state # "open"}

\* get_open_orders raises, or swallows the error into an empty list, or works.
SweepBook ==
  /\ At("book")
  /\ \/ Abandon
     \/ \E b \in {{}, {l \in Leg : venue[l].state = "open"}} :
          sweep' = [sweep EXCEPT !.step = "classify", !.book = b, !.due = Settleable]
  /\ UNCHANGED <<serializerVars, ordersKept, synced>>

KeyOf(ref) == IF ref = "venue" THEN "venue" ELSE "local"

\* pending_orders_for_account: the rows, overlaid with the replica's cache.
RowEntries ==
  {[leg |-> l, key |-> KeyOf(pending[l].ref), unknown |-> pending[l].status = "submission_unknown"] :
     l \in {m \in Leg : pending[m].status \in Recoverable}}
CacheEntries ==
  {[leg |-> l, key |-> KeyOf(tracked[Home[Worker]][l]),
    unknown |-> tracked[Home[Worker]][l] = "unknown"] :
     l \in {m \in Leg : tracked[Home[Worker]][m] # "none"}}
TrackedOrders ==
  CacheEntries \union {e \in RowEntries : \A c \in CacheEntries : c.leg # e.leg \/ c.key # e.key}

\* classify_reconciliation, orders only: no identity of the entry is in the book.
InBook(e) == e.leg \in sweep.book /\ (e.key = "venue" \/ ClientIdInBook)

SweepClassify ==
  /\ At("classify")
  /\ \/ Abandon
     \/ sweep' = [sweep EXCEPT !.step = "lookup", !.todo = {e \in TrackedOrders : ~InBook(e)}]
  /\ UNCHANGED <<serializerVars, ordersKept, synced>>

ExpiredResult(key) == [status |-> "EXPIRED", qty |-> 0, ref |-> key, unknown |-> FALSE]

\* _stale_order_terminal_result for a live account: the results that settle
\* the entry.  The lookup may also fail, which settles nothing.
DefinitiveMutant(e) == IF e.unknown THEN {} ELSE {ExpiredResult(e.key)}
Definitive(e) ==
  IF e.unknown
  THEN IF ClientIdLookup /\ venue[e.leg].state \notin {"none", "refused"}
       THEN {VenueResult(e.leg)} ELSE {}
  ELSE IF e.key = "venue"
  THEN {r \in {VenueResult(e.leg)} : r.status \in TerminalStatus}
  ELSE IF NotFoundResult THEN {ExpiredResult(e.key)} ELSE {}

\* One finding of _sync_stale_pending_orders.
SweepLookup ==
  /\ At("lookup")
  /\ \E e \in sweep.todo :
       LET rest == sweep.todo \ {e} IN
       \/ /\ <<e.leg, e.key>> \in synced
          /\ sweep' = [sweep EXCEPT !.todo = rest]
       \/ /\ <<e.leg, e.key>> \notin synced
          /\ Definitive(e) = {}
          /\ sweep' = [sweep EXCEPT !.todo = rest]
       \/ /\ <<e.leg, e.key>> \notin synced
          /\ sweep' = [sweep EXCEPT !.todo = rest, !.fault = TRUE]
       \/ \E r \in Definitive(e) :
            /\ <<e.leg, e.key>> \notin synced
            /\ sweep' = [sweep EXCEPT !.todo = rest, !.cur = {e}, !.res = r, !.fills = 0,
                                      !.step = IF r.qty > 0 THEN "fills" ELSE "apply"]
  /\ UNCHANGED <<serializerVars, ordersKept, synced>>

Current == CHOOSE e \in sweep.cur : TRUE

SweepFills ==
  /\ At("fills")
  /\ \/ sweep' = [sweep EXCEPT !.step = "apply", !.fills = venue[Current.leg].qty]
     \/ Abandon
  /\ UNCHANGED <<serializerVars, ordersKept, synced>>

\* apply_broker_result commits, raises, or raises after its commit.
SweepApply ==
  LET applied == ApplyBrokerResult(Current.leg, sweep.res, sweep.fills) IN
  /\ At("apply")
  /\ \/ applied /\ Go("resolve")
     \/ (applied \/ UNCHANGED canonical) /\ Abandon
  /\ UNCHANGED <<serializerVars, dedupVars, handlerVars, pending, venue, tracked, submissions,
                 context, synced>>

\* PendingOrderRepository.resolve, then the key is remembered; the cache entry
\* stays.
SweepResolveMutant ==
  LET e == Current IN
  /\ At("resolve")
  /\ sweep' = [sweep EXCEPT !.step = "lookup", !.cur = {}]
  /\ synced' = synced \union {<<e.leg, e.key>>}
  /\ UNCHANGED <<serializerVars, dedupVars, handlerVars, ledgerVars, context>>
SweepResolve ==
  LET e == Current IN
  /\ At("resolve")
  /\ \/ /\ ResolveRow(e.leg, sweep.res)
        /\ sweep' = [sweep EXCEPT !.step = "lookup", !.cur = {}]
        /\ synced' = synced \union {<<e.leg, e.key>>}
     \/ /\ ResolveRow(e.leg, sweep.res) \/ UNCHANGED pending
        /\ Abandon
        /\ UNCHANGED synced
  /\ UNCHANGED <<serializerVars, dedupVars, handlerVars, canonical, venue, tracked, submissions,
                 context>>

\* Positions are synced, findings are emitted, the account is released.
SweepLeave ==
  /\ \/ At("lookup") /\ sweep.todo = {} /\ Go("leave") /\ UNCHANGED serializerVars
     \/ At("leave") /\ Leave(Worker) /\ UNCHANGED sweep
     \/ At("leave") /\ Unlock(Worker) /\ sweep' = NoSweep
  /\ UNCHANGED <<ordersKept, synced>>

SweepStepOf ==
  SweepEnter \/ SweepBook \/ SweepClassify \/ SweepLookup \/ SweepFills \/ SweepApply
  \/ SweepResolve \/ SweepLeave

-----------------------------------------------------------------------------
(* A restarted process has no live context before new traffic routes one.   *)
RecCrash(r) ==
  /\ Crash(r)
  /\ IF r = Home[Worker] THEN sweep' = NoSweep /\ context' = FALSE /\ synced' = {}
     ELSE UNCHANGED recVars

RecNext ==
  \/ \E t \in Handlers : Handler(t)
  \/ \E t \in Handlers, c \in Command : Deliver(t, c) /\ UNCHANGED recVars
  \/ SweepStepOf
  \/ Environment /\ UNCHANGED recVars
  \/ \E r \in Replica : RecCrash(r)

RecSpec == RecInit /\ [][RecNext]_allVars
-----------------------------------------------------------------------------
(* Properties *)

\* A cycle that met no fault has closed the recovery row of every order that
\* was known by the venue's id and finished when the cycle read the book, so
\* the row does not flag missing_broker_open_order forever.
CycleSettles ==
  At("leave") /\ ~sweep.fault => \A l \in sweep.due : pending[l].status \notin Recoverable

\* The worker closes a recovery row only when the venue has finished with the
\* order, whatever the handlers wrote before and whatever order it asked in.
SweepClosesDead ==
  [][\A l \in Leg : At("resolve") /\ ~At("resolve")' /\ pending'[l] # pending[l]
        /\ pending'[l].status \notin Recoverable => venue[l].state # "open"]_allVars

\* What _stale_order_terminal_result promises for live accounts: an order is
\* settled only "on a definitive broker response", and order-unknown is one
\* because the broker "definitively reports it does not know the order".  So
\* one recorded as expired neither rests at the venue nor traded there.
ExpiredNeverTraded ==
  \A l \in Leg : pending[l].status = "expired" => venue[l].state # "open" /\ venue[l].qty = 0
=============================================================================
