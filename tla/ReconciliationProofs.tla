------------------------ MODULE ReconciliationProofs ------------------------
(***************************************************************************)
(* The safety of the reconciliation worker beside the command handlers,    *)
(* for any number of replicas, handlers, commands, cycles, crashes and     *)
(* faults: what SignalExecutionProofs shows of the handlers alone still    *)
(* holds, what the worker may close, and what it has to.                   *)
(***************************************************************************)
EXTENDS SignalExecutionProofs, Reconciliation

(* A leaf that names no prover is for Zenon, which does most of them at    *)
(* once, and for SMT where Zenon gives up.                                 *)
USE ZenonT(30), SMTT(60)

USE SerializerAssumption, CommandAssumption, DedupAssumption, LedgerAssumption,
    ExecutionAssumption, ReconciliationAssumption

-----------------------------------------------------------------------------
(* The reconciliation worker beside the handlers.  Every other step of the *)
(* composition is a step of SignalExecution that leaves the cycle alone or *)
(* ends it with its replica; a step of the cycle uses the serializer as    *)
(* everybody does and writes one canonical order or one recovery row.      *)

LEMMA RecSteps ==
  ASSUME [RecNext]_allVars
  PROVE  \/ [Next]_vars /\ sweep' \in {sweep, NoSweep} /\ synced' \in {synced, {}}
            /\ context' \in {context, TRUE, FALSE}
         \/ SweepStepOf
<1>1. ASSUME NEW t \in Handlers, Handler(t)
      PROVE  Next /\ UNCHANGED <<sweep, synced>> /\ context' \in {context, TRUE}
  <2>1. HandlerStep(t) /\ UNCHANGED <<sweep, synced>> /\ t \in Task
    BY <1>1 DEF Handler, Handlers
  <2>2. context' \in {context, TRUE}
    BY <1>1 DEF Handler, Routed
  <2> QED BY <2>1, <2>2 DEF Next
<1>2. ASSUME NEW t \in Handlers, NEW c \in Command, Deliver(t, c), UNCHANGED recVars
      PROVE  Next /\ UNCHANGED <<sweep, synced, context>>
  <2>1. t \in Task /\ UNCHANGED <<sweep, synced, context>>
    BY <1>2 DEF Handlers, recVars
  <2> QED BY <1>2, <2>1 DEF Next
<1>3. ASSUME Environment, UNCHANGED recVars PROVE Next /\ UNCHANGED <<sweep, synced, context>>
  BY <1>3 DEF Next, recVars
<1>4. ASSUME NEW r \in Replica, RecCrash(r)
      PROVE  /\ Next /\ sweep' \in {sweep, NoSweep} /\ synced' \in {synced, {}}
             /\ context' \in {context, FALSE}
  <2>1. /\ Crash(r) /\ sweep' \in {sweep, NoSweep} /\ synced' \in {synced, {}}
        /\ context' \in {context, FALSE}
    BY <1>4 DEF RecCrash, recVars
  <2> QED BY <2>1 DEF Next
<1>5. ASSUME UNCHANGED allVars PROVE UNCHANGED vars /\ UNCHANGED <<sweep, synced, context>>
  BY <1>5 DEF allVars, recVars
<1> QED BY <1>1, <1>2, <1>3, <1>4, <1>5 DEF RecNext

(* Only a crash ends a cycle from outside, and it writes no row.           *)
LEMMA CycleCut ==
  ASSUME [RecNext]_allVars, ~SweepStepOf, sweep' # sweep PROVE pending' = pending
<1>1. ASSUME NEW r \in Replica, RecCrash(r) PROVE pending' = pending
  BY <1>1 DEF RecCrash, Crash
<1>2. ASSUME NEW t \in Handlers, Handler(t) PROVE FALSE
  BY <1>2 DEF Handler
<1> QED BY <1>1, <1>2 DEF RecNext, allVars, recVars

(* What a step of the cycle writes outside the cycle.                      *)
LEMMA SweepWrites ==
  ASSUME SweepStepOf
  PROVE  /\ UNCHANGED <<dedupVars, handlerVars, venue, tracked, submissions, context>>
         /\ [SerializerNext]_serializerVars
         /\ \/ UNCHANGED <<canonical, pending>>
            \/ /\ At("apply") /\ ApplyBrokerResult(Current.leg, sweep.res, sweep.fills)
               /\ UNCHANGED pending
            \/ /\ At("resolve") /\ ResolveRow(Current.leg, sweep.res)
               /\ UNCHANGED canonical
<1> DEFINE Quiet == UNCHANGED <<dedupVars, handlerVars, venue, tracked, submissions, context>>
<1>1. CASE SweepEnter
  <2>1. Quiet /\ UNCHANGED <<canonical, pending>>
    BY <1>1 DEF SweepEnter, ordersKept, ledgerVars
  <2>2. TryLock(Worker) \/ ClaimGeneration(Worker) \/ ClaimFails(Worker)
    BY <1>1 DEF SweepEnter
  <2>3. SerializerNext
    BY <2>2 DEF SerializerNext, HoldStep
  <2> QED BY <2>1, <2>3
<1>2. CASE SweepBook \/ SweepClassify \/ SweepLookup \/ SweepFills
  <2>1. UNCHANGED <<serializerVars, ordersKept>>
    BY <1>2, ZenonT(60) DEF SweepBook, SweepClassify, SweepLookup, SweepFills
  <2> QED BY <2>1 DEF ordersKept, ledgerVars
<1>3. CASE SweepApply
  BY <1>3, ZenonT(60) DEF SweepApply, Quiet
<1>4. CASE SweepResolve
  BY <1>4, ZenonT(60) DEF SweepResolve, Quiet
<1>5. CASE SweepLeave
  <2>1. Quiet /\ UNCHANGED <<canonical, pending>>
    BY <1>5 DEF SweepLeave, ordersKept, ledgerVars
  <2>2. UNCHANGED serializerVars \/ Leave(Worker) \/ Unlock(Worker)
    BY <1>5 DEF SweepLeave
  <2>3. [SerializerNext]_serializerVars
    BY <2>2 DEF SerializerNext, HoldStep
  <2> QED BY <2>1, <2>3
<1> QED BY <1>1, <1>2, <1>3, <1>4, <1>5 DEF SweepStepOf

(* The worker uses the serializer as AccountSerializer specifies it, so    *)
(* what is proved of the serializer holds with the worker among the        *)
(* writers: it overlaps a handler only after a dropped lock session.       *)
THEOREM WorkerUsesSerializer == RecSpec => SerializerSpec
<1>1. RecInit => SerializerInit
  BY DEF RecInit, Init
<1>2. [RecNext]_allVars => [SerializerNext]_serializerVars
  BY RecSteps, SweepWrites, SerializerStep
<1> QED BY <1>1, <1>2, PTL DEF RecSpec, SerializerSpec

-----------------------------------------------------------------------------
(* Types of the cycle.  While it settles an order it has the entry of it.  *)

Settling == {"fills", "apply", "resolve"}

SweepTypeOK ==
  /\ sweep \in Sweep
  /\ context \in BOOLEAN
  /\ synced \subseteq (Leg \X {"local", "venue"})
  /\ sweep.step \in Settling => \E e \in Entry : sweep.cur = {e}

RecTypeInv == ExecutionTypeInv /\ SweepTypeOK

LEMMA SettledEntry ==
  ASSUME SweepTypeOK, sweep.step \in Settling
  PROVE  /\ Current \in Entry /\ sweep.cur = {Current}
         /\ Current.leg \in Leg /\ Current.key \in {"local", "venue"}
<1>1. PICK e \in Entry : sweep.cur = {e}
  BY DEF SweepTypeOK
<1>2. Current \in sweep.cur
  BY <1>1 DEF Current
<1>3. Current = e
  BY <1>1, <1>2
<1> QED BY <1>1, <1>3 DEF Entry

LEMMA SweepFields ==
  ASSUME NEW s \in Sweep
  PROVE  /\ s.step \in SweepStep /\ s.book \subseteq Leg /\ s.todo \subseteq Entry
         /\ s.cur \subseteq Entry /\ s.res \in Result /\ s.fills \in 0..Lots
         /\ s.due \subseteq Leg /\ s.fault \in BOOLEAN
  BY DEF Sweep

LEMMA AnswersTyped ==
  ASSUME LedgerTypeOK, NEW e \in Entry, NEW r \in Definitive(e)
  PROVE  r \in Result
<1>1. e.leg \in Leg /\ e.key \in {"local", "venue"}
  BY DEF Entry
<1>2. VenueResult(e.leg) \in Result
  BY <1>1, ReportsTyped
<1>3. ExpiredResult(e.key) \in Result
  BY <1>1, SMTT(60) DEF ExpiredResult, Result, BrokerStatus, Ref
<1>4. r = VenueResult(e.leg) \/ r = ExpiredResult(e.key)
  BY DEF Definitive
<1> QED BY <1>2, <1>3, <1>4

LEMMA EntriesTyped == TrackedOrders \subseteq Entry
<1>0. ASSUME NEW l \in Leg, NEW ref, NEW u \in BOOLEAN
      PROVE  [leg |-> l, key |-> KeyOf(ref), unknown |-> u] \in Entry
  BY DEF KeyOf, Entry
<1>1. ASSUME NEW e \in RowEntries PROVE e \in Entry
  <2>1. PICK l \in Leg : e = [leg |-> l, key |-> KeyOf(pending[l].ref),
                              unknown |-> pending[l].status = "submission_unknown"]
    BY <1>1, ZenonT(60) DEF RowEntries
  <2>2. (pending[l].status = "submission_unknown") \in BOOLEAN
    OBVIOUS
  <2> QED BY <1>0, <2>1, <2>2, ZenonT(60)
<1>2. ASSUME NEW e \in CacheEntries PROVE e \in Entry
  <2>1. PICK l \in Leg : e = [leg |-> l, key |-> KeyOf(tracked[Home[Worker]][l]),
                              unknown |-> tracked[Home[Worker]][l] = "unknown"]
    BY <1>2, ZenonT(60) DEF CacheEntries
  <2>2. (tracked[Home[Worker]][l] = "unknown") \in BOOLEAN
    OBVIOUS
  <2> QED BY <1>0, <2>1, <2>2, ZenonT(60)
<1> QED BY <1>1, <1>2 DEF TrackedOrders

LEMMA NoSweepTyped ==
  /\ NoSweep \in Sweep /\ NoSweep.step \notin Settling
  /\ sweep \in Sweep /\ Abandon => sweep' \in Sweep /\ sweep'.step \notin Settling
<1>1. NoSweep \in Sweep /\ NoSweep.step \notin Settling
  BY Results, SMTT(60) DEF NoSweep, Sweep, SweepStep, Settling
<1>2. ASSUME sweep \in Sweep, Abandon PROVE sweep' \in Sweep /\ sweep'.step \notin Settling
  <2>1. sweep.due \subseteq Leg
    BY <1>2, SweepFields
  <2> QED BY <1>1, <1>2, <2>1 DEF Abandon, NoSweep, Sweep, SweepStep, Settling
<1> QED BY <1>1, <1>2

LEMMA SweepTypeNext ==
  ASSUME LedgerTypeOK, SweepTypeOK, SweepStepOf
  PROVE  SweepTypeOK'
<1> DEFINE Goal == sweep' \in Sweep /\ (sweep'.step \in Settling => \E e \in Entry : sweep'.cur = {e})
<1> sweep \in Sweep
  BY DEF SweepTypeOK
<1> /\ sweep.book \subseteq Leg /\ sweep.todo \subseteq Entry /\ sweep.cur \subseteq Entry
    /\ sweep.res \in Result /\ sweep.fills \in 0..Lots /\ sweep.due \subseteq Leg
    /\ sweep.fault \in BOOLEAN
  BY SweepFields
<1>0. Abandon => Goal
  BY NoSweepTyped
<1>a. ASSUME NEW s \in SweepStep \ Settling, Go(s) PROVE Goal
  BY <1>a DEF Go, Sweep
<1>1. ASSUME SweepEnter PROVE Goal
  <2>1. Go("enter") \/ Go("book") \/ Abandon
    BY <1>1 DEF SweepEnter
  <2> QED BY <1>0, <1>a, <2>1 DEF SweepStep, Settling
<1>2. ASSUME SweepBook PROVE Goal
  <2>1. CASE Abandon
    BY <1>0, <2>1
  <2>2. CASE ~Abandon
    <3>1. PICK b \in SUBSET Leg, d \in SUBSET Leg :
            sweep' = [sweep EXCEPT !.step = "classify", !.book = b, !.due = d]
      BY <1>2, <2>2 DEF SweepBook, Settleable
    <3> QED BY <3>1 DEF Sweep, SweepStep, Settling
  <2> QED BY <2>1, <2>2
<1>3. ASSUME SweepClassify PROVE Goal
  <2>1. CASE Abandon
    BY <1>0, <2>1
  <2>2. CASE ~Abandon
    <3>1. PICK d \in SUBSET Entry : sweep' = [sweep EXCEPT !.step = "lookup", !.todo = d]
      BY <1>3, <2>2, EntriesTyped DEF SweepClassify
    <3> QED BY <3>1 DEF Sweep, SweepStep, Settling
  <2> QED BY <2>1, <2>2
<1>4. ASSUME SweepLookup PROVE Goal
  <2>0. sweep.step = "lookup"
    BY <1>4 DEF SweepLookup, At
  <2>1. PICK e \in sweep.todo :
          \/ sweep' = [sweep EXCEPT !.todo = sweep.todo \ {e}]
          \/ sweep' = [sweep EXCEPT !.todo = sweep.todo \ {e}, !.fault = TRUE]
          \/ \E r \in Definitive(e) :
               sweep' = [sweep EXCEPT !.todo = sweep.todo \ {e}, !.cur = {e}, !.res = r, !.fills = 0,
                                      !.step = IF r.qty > 0 THEN "fills" ELSE "apply"]
    BY <1>4 DEF SweepLookup
  <2>2. CASE \/ sweep' = [sweep EXCEPT !.todo = sweep.todo \ {e}]
             \/ sweep' = [sweep EXCEPT !.todo = sweep.todo \ {e}, !.fault = TRUE]
    <3>1. sweep'.step = "lookup"
      BY <2>0, <2>2 DEF Sweep
    <3>2. sweep' \in Sweep
      BY <2>2, ZenonT(60) DEF Sweep
    <3> QED BY <3>1, <3>2 DEF Settling
  <2>3. ASSUME NEW r \in Definitive(e),
               sweep' = [sweep EXCEPT !.todo = sweep.todo \ {e}, !.cur = {e}, !.res = r, !.fills = 0,
                                      !.step = IF r.qty > 0 THEN "fills" ELSE "apply"]
        PROVE  Goal
    <3>1. r \in Result /\ e \in Entry
      BY <2>1, AnswersTyped
    <3>2. PICK s \in {"fills", "apply"} : s = IF r.qty > 0 THEN "fills" ELSE "apply"
      OBVIOUS
    <3>3. sweep' = [sweep EXCEPT !.todo = sweep.todo \ {e}, !.cur = {e}, !.res = r, !.fills = 0,
                                 !.step = s]
      BY <2>3, <3>2
    <3>4. s \in SweepStep
      BY DEF SweepStep
    <3>5. 0 \in 0..Lots /\ {e} \subseteq Entry /\ sweep.todo \ {e} \subseteq Entry
      BY <3>1, SMTT(60)
    <3>6. sweep' \in Sweep
      BY <3>1, <3>3, <3>4, <3>5, ZenonT(60) DEF Sweep
    <3>7. sweep'.cur = {e}
      BY <3>3 DEF Sweep
    <3> QED BY <3>1, <3>6, <3>7
  <2> QED BY <2>1, <2>2, <2>3
<1>5. ASSUME SweepFills PROVE Goal
  <2>1. CASE Abandon
    BY <1>0, <2>1
  <2>2. CASE sweep' = [sweep EXCEPT !.step = "apply", !.fills = venue[Current.leg].qty]
    <3>1. Current.leg \in Leg
      BY <1>5, SettledEntry DEF SweepFills, At, Settling
    <3>2. venue[Current.leg].qty \in 0..Lots
      BY <3>1 DEF LedgerTypeOK, VenueOrder
    <3>3. \E e \in Entry : sweep.cur = {e}
      BY <1>5 DEF SweepTypeOK, SweepFills, At, Settling
    <3> QED BY <2>2, <3>2, <3>3 DEF Sweep, SweepStep
  <2> QED BY <1>5, <2>1, <2>2 DEF SweepFills
<1>6. ASSUME SweepApply PROVE Goal
  <2>1. CASE Abandon
    BY <1>0, <2>1
  <2>2. CASE Go("resolve")
    <3>3. \E e \in Entry : sweep.cur = {e}
      BY <1>6 DEF SweepTypeOK, SweepApply, At, Settling
    <3> QED BY <2>2, <3>3 DEF Go, Sweep, SweepStep
  <2> QED BY <1>6, <2>1, <2>2 DEF SweepApply
<1>7. ASSUME SweepResolve PROVE Goal
  <2>1. CASE Abandon
    BY <1>0, <2>1
  <2>2. CASE sweep' = [sweep EXCEPT !.step = "lookup", !.cur = {}]
    BY <2>2 DEF Sweep, SweepStep, Settling
  <2> QED BY <1>7, <2>1, <2>2 DEF SweepResolve
<1>8. ASSUME SweepLeave PROVE Goal
  <2>1. Go("leave") \/ UNCHANGED sweep \/ sweep' = NoSweep
    BY <1>8 DEF SweepLeave
  <2> QED BY <1>8, <1>a, <2>1, NoSweepTyped DEF SweepTypeOK, SweepStep, Settling
<1>9. Goal
  BY <1>1, <1>2, <1>3, <1>4, <1>5, <1>6, <1>7, <1>8 DEF SweepStepOf
<1>10. synced' \subseteq (Leg \X {"local", "venue"})
  <2>1. CASE SweepResolve /\ synced' # synced
    <3>1. synced' = synced \union {<<Current.leg, Current.key>>} /\ sweep.step \in Settling
      BY <2>1 DEF SweepResolve, At, Settling
    <3> QED BY <3>1, SettledEntry, SMTT(60) DEF SweepTypeOK
  <2>2. CASE ~(SweepResolve /\ synced' # synced)
    <3>1. UNCHANGED synced
      BY <2>2, ZenonT(60) DEF SweepStepOf, SweepEnter, SweepBook, SweepClassify, SweepLookup,
         SweepFills, SweepApply, SweepLeave
    <3> QED BY <3>1 DEF SweepTypeOK
  <2> QED BY <2>1, <2>2
<1> QED BY <1>9, <1>10, SweepWrites DEF SweepTypeOK

(* A step of the cycle writes through the store methods the handlers use.  *)
LEMMA SweepStores ==
  ASSUME RecTypeInv, SweepStepOf
  PROVE  /\ (\E l \in Leg : CanonicalWrite(l)) \/ UNCHANGED canonical
         /\ (\E l \in Leg : RowWrite(l)) \/ UNCHANGED pending
<1>1. SweepTypeOK /\ sweep.res \in Result /\ sweep.fills \in 0..Lots
  BY SweepFields DEF RecTypeInv, SweepTypeOK
<1>2. At("apply") \/ At("resolve") => Current.leg \in Leg
  BY <1>1, SettledEntry DEF At, Settling
<1>3. ASSUME At("apply"), ApplyBrokerResult(Current.leg, sweep.res, sweep.fills)
      PROVE  \E l \in Leg : CanonicalWrite(l)
  BY <1>1, <1>2, <1>3, ZenonT(60) DEF CanonicalWrite
<1>4. ASSUME At("resolve"), ResolveRow(Current.leg, sweep.res) PROVE \E l \in Leg : RowWrite(l)
  BY <1>1, <1>2, <1>4, ZenonT(60) DEF RowWrite
<1> QED BY <1>3, <1>4, SweepWrites

LEMMA RecTypeNext ==
  ASSUME RecTypeInv, [RecNext]_allVars PROVE RecTypeInv'
<1> /\ ExecutionTypeInv /\ SweepTypeOK /\ LedgerTypeOK /\ HandlerTypeOK /\ UnderWay
    /\ OpenIsUnfilled /\ SerializerTypeOK /\ DedupTypeOK
  BY TypeParts DEF RecTypeInv, ExecutionTypeInv
<1>1. CASE /\ [Next]_vars /\ sweep' \in {sweep, NoSweep} /\ synced' \in {synced, {}}
           /\ context' \in {context, TRUE, FALSE}
  <2>1. SweepTypeOK'
    <3>1. CASE sweep' = sweep
      BY <1>1, <3>1 DEF SweepTypeOK
    <3>2. CASE sweep' = NoSweep
      BY <1>1, <3>2, NoSweepTyped DEF SweepTypeOK
    <3> QED BY <1>1, <3>1, <3>2
  <2> QED BY <1>1, <2>1, ExecutionTypeNext DEF RecTypeInv
<1>2. CASE SweepStepOf
  <2>1. SerializerTypeOK'
    BY <1>2, SweepWrites, SerializerTypeNext
  <2>2. UNCHANGED <<dedupVars, handlerVars, venue, tracked, submissions>>
    BY <1>2, SweepWrites
  <2>3. canonical' \in [Leg -> Canonical]
    BY <1>2, SweepStores, CanonicalTyped DEF LedgerTypeOK
  <2>4. pending' \in [Leg -> PendingRow]
    BY <1>2, SweepStores, PendingTyped DEF LedgerTypeOK
  <2>5. LedgerTypeOK' /\ OpenIsUnfilled'
    BY <2>2, <2>3, <2>4 DEF LedgerTypeOK, OpenIsUnfilled
  <2>6. DedupTypeOK'
    BY <2>2 DEF DedupTypeOK, dedupVars
  <2>7. HandlerTypeOK' /\ UnderWay'
    BY <2>2 DEF HandlerTypeOK, UnderWay, handlerVars, Cur
  <2>8. TypeOK'
    BY <2>1, <2>5, <2>6, <2>7 DEF TypeOK, HandlerTypeOK
  <2> QED BY <1>2, <2>5, <2>7, <2>8, SweepTypeNext DEF RecTypeInv, ExecutionTypeInv
<1> QED BY <1>1, <1>2, RecSteps

LEMMA RecTypeInit == RecInit => RecTypeInv
<1>1. RecInit => ExecutionTypeInv
  BY ExecutionTypeInit DEF RecInit
<1>2. RecInit => SweepTypeOK
  BY NoSweepTyped DEF RecInit, SweepTypeOK
<1> QED BY <1>1, <1>2 DEF RecTypeInv

(* Every variable of the composition keeps its type, whatever the adapter  *)
(* can look up and however it answers for an order it does not know.       *)
THEOREM RecTypeSafe == RecSpec => []RecTypeOK
<1>1. RecTypeInv /\ [RecNext]_allVars => RecTypeInv'
  BY RecTypeNext
<1>2. RecTypeInv => RecTypeOK
  BY DEF RecTypeInv, ExecutionTypeInv, SweepTypeOK, RecTypeOK
<1> QED BY <1>1, <1>2, RecTypeInit, PTL DEF RecSpec

(* The worker never submits and never deletes a row, so a leg is sent at   *)
(* most once also while it runs.                                           *)
LEMMA RecOneSubmission ==
  ASSUME RecTypeInv, RecTypeInv', OneSubmission, [RecNext]_allVars PROVE OneSubmission'
<1> ExecutionTypeInv /\ ExecutionTypeInv' /\ LedgerTypeOK
  BY TypeParts DEF RecTypeInv, ExecutionTypeInv
<1>1. CASE [Next]_vars
  BY <1>1, OneSubmissionNext
<1>2. CASE SweepStepOf
  <2>1. UNCHANGED <<handlerVars, submissions>>
    BY <1>2, SweepWrites
  <2>2. \A l \in Leg : AboutToSubmit(l)' = AboutToSubmit(l)
    BY <2>1 DEF AboutToSubmit, Cur, handlerVars
  <2>3. \A l \in Leg : pending[l].status # "absent" => pending'[l].status # "absent"
    BY <1>2, SweepStores, PendingTyped
  <2> QED BY <2>1, <2>2, <2>3 DEF OneSubmission
<1> QED BY <1>1, <1>2, RecSteps

LEMMA RecOneSubmissionAlways == RecSpec => [](RecTypeInv /\ OneSubmission)
<1>1. RecInit => OneSubmission
  BY SMTT(60) DEF RecInit, Init, LedgerInit, OneSubmission, AboutToSubmit
<1>2. RecTypeInv /\ OneSubmission /\ [RecNext]_allVars => RecTypeInv' /\ OneSubmission'
  BY RecTypeNext, RecOneSubmission
<1> QED BY <1>1, <1>2, RecTypeInit, PTL DEF RecSpec

(* Beside the worker too, a leg is sent to the venue at most once: the     *)
(* worker settles orders, it never places one.                             *)
THEOREM WorkerNeverResubmits == RecSpec => []SubmittedOnce
<1>1. OneSubmission => SubmittedOnce
  BY DEF OneSubmission, SubmittedOnce
<1> QED BY <1>1, RecOneSubmissionAlways, PTL

-----------------------------------------------------------------------------
(* What the worker settles.  With an adapter that raises for an order it   *)
(* does not know, the worker acts on an answer of the venue only: for an   *)
(* order that was sent, whose end, if the answer names one, is final, and  *)
(* whose trades it fetched.  That makes its writes as safe as a handler's, *)
(* with no help from the serializer.                                       *)

Settled ==
  sweep.step \in Settling =>
    /\ submissions[Current.leg] > 0
    /\ sweep.res.status \in TerminalStatus => Gone(Current.leg)
    /\ sweep.fills <= venue[Current.leg].qty
    /\ sweep.res.status = "FILLED" => sweep.res.qty = Lots
    /\ At("resolve") /\ sweep.res.status = "FILLED" => canonical[Current.leg].fills = Lots

OrdersInv == AttemptInv /\ FillsInv /\ DeadInv

(* What the venue answers for an entry of the cycle.                       *)
LEMMA AnswerSettles ==
  ASSUME ExecutionTypeInv, AttemptInv, FillsInv, ~NotFoundResult, NEW e \in Entry,
         NEW r \in Definitive(e)
  PROVE  /\ submissions[e.leg] > 0
         /\ r.status \in TerminalStatus => Gone(e.leg)
         /\ r.status = "FILLED" => r.qty = Lots
<1> LedgerTypeOK
  BY TypeParts DEF ExecutionTypeInv
<1>1. PICK l \in Leg : l = e.leg
  BY DEF Entry
<1>2. Attempt(l) /\ LegFills(l) /\ venue[l] \in VenueOrder /\ submissions[l] \in Nat
  BY DEF AttemptInv, FillsInv, LedgerTypeOK
<1>3. r = VenueResult(l) /\ (venue[l].state # "none" \/ r.status \in TerminalStatus)
  BY <1>1 DEF Definitive
<1>4. VenueResult(l).status \in TerminalStatus => venue[l].state \in {"refused", "canceled", "done"}
  BY DEF VenueResult, TerminalStatus
<1>5. VenueResult(l).status = "FILLED" => venue[l].state = "done" /\ VenueResult(l).qty = venue[l].qty
  BY DEF VenueResult
<1>6. venue[l].state # "none"
  BY <1>3, <1>4
<1>7. submissions[l] > 0
  BY <1>2, <1>6, SMTT(60) DEF Attempt
<1> QED BY <1>1, <1>2, <1>3, <1>4, <1>5, <1>7 DEF Gone, LegFills

(* Applying the answer to the canonical order.                             *)
LEMMA SweepApplied ==
  ASSUME RecTypeInv, OrdersInv, Settled, At("apply"),
         ApplyBrokerResult(Current.leg, sweep.res, sweep.fills)
  PROVE  /\ \A l \in Leg : /\ canonical'[l].abort = canonical[l].abort
                           /\ canonical'[l].fills >= canonical[l].fills
                           /\ canonical'[l].fills <= venue[l].qty
                           /\ canonical'[l].state = "filled" => canonical'[l].fills = Lots
                           /\ \/ canonical'[l] = canonical[l]
                              \/ /\ submissions[l] > 0 /\ canonical'[l].state # "none"
                                 /\ canonical'[l].state \in TerminalState
                                      => canonical[l].state \in TerminalState \/ Gone(l)
         /\ sweep.res.status = "FILLED" => canonical'[Current.leg].fills = Lots
<1> SweepTypeOK /\ LedgerTypeOK /\ FillsInv
  BY TypeParts DEF RecTypeInv, ExecutionTypeInv, OrdersInv
<1>1. PICK k \in Leg : k = Current.leg
  BY SettledEntry DEF At, Settling
<1>2. sweep.res.status \in BrokerStatus /\ sweep.fills \in 0..Lots
  BY SweepFields, ResultFields DEF SweepTypeOK
<1>3. /\ submissions[k] > 0
      /\ sweep.res.status \in TerminalStatus => Gone(k)
      /\ sweep.fills <= venue[k].qty
      /\ sweep.res.status = "FILLED" => sweep.res.qty = Lots
  BY <1>1 DEF Settled, At, Settling
<1>4. \A l \in Leg : canonical[l] \in Canonical /\ canonical[l].fills \in 0..Lots /\ LegFills(l)
  BY DEF LedgerTypeOK, Canonical, FillsInv
<1>5. ApplyBrokerResult(k, sweep.res, sweep.fills)
  BY <1>1
<1>6. /\ canonical'[k].fills = LargerOf(canonical[k].fills, sweep.fills)
      /\ canonical'[k].abort = canonical[k].abort
      /\ canonical'[k].state = IF canonical[k].state = "filled" THEN "filled"
                               ELSE OrderStateOf[sweep.res.status]
      /\ \A l \in Leg \ {k} : canonical'[l] = canonical[l]
  BY <1>5, SMTT(60) DEF ApplyBrokerResult, LedgerTypeOK, Canonical
<1>7. canonical'[k].fills >= canonical[k].fills /\ canonical'[k].fills <= venue[k].qty
  <2>1. canonical[k].fills <= venue[k].qty
    BY <1>4 DEF LegFills
  <2> QED BY <1>2, <1>3, <1>4, <1>6, <2>1, SMTT(60) DEF LargerOf
<1>8. sweep.res.status = "FILLED" => sweep.fills = Lots
  BY <1>3, <1>5, SMTT(60) DEF ApplyBrokerResult, Applicable
<1>9. sweep.res.status = "FILLED" => canonical'[k].fills = Lots
  BY <1>2, <1>4, <1>6, <1>8, SMTT(60) DEF LargerOf
<1>10. canonical'[k].state = "filled" => canonical'[k].fills = Lots
  <2>1. CASE canonical[k].state = "filled"
    <3>1. canonical[k].fills = Lots
      BY <1>4, <2>1 DEF LegFills
    <3> QED BY <1>2, <1>4, <1>6, <3>1, SMTT(60) DEF LargerOf
  <2>2. CASE canonical[k].state # "filled"
    BY <1>2, <1>6, <1>9, <2>2, StateTable
  <2> QED BY <2>1, <2>2
<1>11. canonical'[k].state # "none"
  BY <1>2, <1>6, StateTable
<1>12. canonical'[k].state \in TerminalState => canonical[k].state \in TerminalState \/ Gone(k)
  <2>1. OrderStateOf[sweep.res.status] \in TerminalState => sweep.res.status \in TerminalStatus
    BY <1>2, SMTT(60) DEF OrderStateOf, TerminalState, TerminalStatus, BrokerStatus
  <2> QED BY <1>3, <1>6, <2>1 DEF TerminalState
<1>13. ASSUME NEW l \in Leg \ {k}
       PROVE  /\ canonical'[l] = canonical[l] /\ canonical'[l].fills >= canonical[l].fills
              /\ canonical'[l].fills <= venue[l].qty
              /\ canonical'[l].state = "filled" => canonical'[l].fills = Lots
  BY <1>4, <1>6, SMTT(60) DEF LegFills
<1>14. \A l \in Leg : l = k \/ l \in Leg \ {k}
  OBVIOUS
<1> QED BY <1>1, <1>3, <1>6, <1>7, <1>9, <1>10, <1>11, <1>12, <1>13, <1>14

LEMMA AttemptSweep ==
  ASSUME RecTypeInv, OrdersInv, Settled, SweepStepOf PROVE AttemptInv'
<1> LedgerTypeOK /\ AttemptInv
  BY TypeParts DEF RecTypeInv, ExecutionTypeInv, OrdersInv
<1>0. UNCHANGED <<handlerVars, venue, submissions>>
  BY SweepWrites
<1>1. ASSUME NEW l \in Leg
      PROVE  /\ canonical'[l].abort = canonical[l].abort
             /\ \/ canonical'[l] = canonical[l]
                \/ submissions[l] > 0 /\ canonical'[l].state # "none"
  <2>1. CASE UNCHANGED canonical
    BY <2>1
  <2>2. CASE At("apply") /\ ApplyBrokerResult(Current.leg, sweep.res, sweep.fills)
    BY <2>2, SweepApplied
  <2> QED BY <2>1, <2>2, SweepWrites
<1>2. ASSUME NEW l \in Leg PROVE Attempt(l)'
  <2>1. InHand(l)' = InHand(l)
    BY <1>0 DEF InHand, Cur, handlerVars
  <2>2. Attempt(l) /\ submissions'[l] = submissions[l] /\ venue'[l] = venue[l]
    BY <1>0 DEF AttemptInv
  <2> QED BY <1>1, <2>1, <2>2, AttemptKept
<1>3. ASSUME NEW t \in Task PROVE Placed(t)'
  BY <1>0 DEF AttemptInv, Placed, Cur, handlerVars
<1> QED BY <1>2, <1>3 DEF AttemptInv

(* Settling the recovery row.                                              *)
LEMMA SweepRowSettled ==
  ASSUME RecTypeInv, Settled, At("resolve"), ResolveRow(Current.leg, sweep.res), NEW l \in Leg
  PROVE  \/ pending'[l] = pending[l]
         \/ /\ pending'[l].status = "filled" => canonical[l].fills = Lots
            /\ pending'[l].status \notin Recoverable => Gone(l)
<1> SweepTypeOK /\ LedgerTypeOK
  BY TypeParts DEF RecTypeInv, ExecutionTypeInv
<1>1. PICK k \in Leg : k = Current.leg
  BY SettledEntry DEF At, Settling
<1>2. sweep.res.status \in BrokerStatus
  BY SweepFields, ResultFields DEF SweepTypeOK
<1>3. ResolveRow(k, sweep.res)
  BY <1>1
<1>4. CASE l # k
  BY <1>3, <1>4 DEF ResolveRow, LedgerTypeOK
<1>5. CASE l = k
  <2>1. pending'[l].status = RowStatusOf[sweep.res.status]
    BY <1>3, <1>5, SMTT(60) DEF ResolveRow, LedgerTypeOK
  <2>2. /\ RowStatusOf[sweep.res.status] = "filled" => sweep.res.status = "FILLED"
        /\ RowStatusOf[sweep.res.status] \notin Recoverable => sweep.res.status \in TerminalStatus
    BY <1>2, SMTT(60) DEF RowStatusOf, Recoverable, TerminalStatus, BrokerStatus
  <2> QED BY <1>1, <1>5, <2>1, <2>2 DEF Settled, At, Settling
<1> QED BY <1>4, <1>5

LEMMA FillsSweep ==
  ASSUME RecTypeInv, OrdersInv, Settled, SweepStepOf PROVE FillsInv'
<1> LedgerTypeOK /\ HandlerTypeOK /\ UnderWay /\ FillsInv
  BY TypeParts DEF RecTypeInv, ExecutionTypeInv, OrdersInv
<1>0. UNCHANGED <<handlerVars, venue>>
  BY SweepWrites
<1>1. ASSUME NEW l \in Leg
      PROVE  /\ canonical'[l].fills >= canonical[l].fills
             /\ canonical'[l].fills <= venue[l].qty
             /\ canonical'[l].state = "filled" => canonical'[l].fills = Lots
  <2>1. CASE UNCHANGED canonical
    BY <2>1, SMTT(60) DEF FillsInv, LegFills, LedgerTypeOK, Canonical
  <2>2. CASE At("apply") /\ ApplyBrokerResult(Current.leg, sweep.res, sweep.fills)
    BY <2>2, SweepApplied
  <2> QED BY <2>1, <2>2, SweepWrites
<1>2. ASSUME NEW l \in Leg, canonical[l].fills = Lots PROVE canonical'[l].fills = Lots
  <2>1. canonical' \in [Leg -> Canonical]
    BY SweepStores, CanonicalTyped DEF LedgerTypeOK
  <2>2. canonical'[l].fills \in 0..Lots
    BY <2>1 DEF Canonical
  <2> QED BY <1>1, <1>2, <2>2, SMTT(60)
<1>3. ASSUME NEW l \in Leg, pending'[l].status = "filled" PROVE canonical'[l].fills = Lots
  <2>1. pending[l].status = "filled" => canonical[l].fills = Lots
    BY DEF FillsInv, LegFills
  <2>2. CASE UNCHANGED pending
    BY <1>2, <1>3, <2>1, <2>2
  <2>3. CASE At("resolve") /\ ResolveRow(Current.leg, sweep.res)
    BY <1>2, <1>3, <2>1, <2>3, SweepRowSettled
  <2> QED BY <2>2, <2>3, SweepWrites
<1>4. ASSUME NEW l \in Leg PROVE LegFills(l)'
  BY <1>0, <1>1, <1>3 DEF FillsInv, LegFills
<1>5. ASSUME NEW t \in Task PROVE Carried(t)'
  <2>1. Carried(t) /\ pc' = pc /\ work' = work /\ Cur(t)' = Cur(t)
    BY <1>0 DEF FillsInv, Cur, handlerVars
  <2>2. pc[t] # "idle" => Cur(t) \in Leg
    BY CurLeg
  <2> QED BY <1>0, <1>2, <2>1, <2>2 DEF Carried
<1> QED BY <1>4, <1>5 DEF FillsInv

LEMMA DeadSweep ==
  ASSUME RecTypeInv, OrdersInv, Settled, SweepStepOf PROVE DeadInv'
<1> LedgerTypeOK /\ DeadInv
  BY TypeParts DEF RecTypeInv, ExecutionTypeInv, OrdersInv
<1>0. UNCHANGED <<handlerVars, venue, submissions>>
  BY SweepWrites
<1>1. \A l \in Leg : Gone(l)' = Gone(l)
  BY <1>0 DEF Gone
<1>2. ASSUME NEW l \in Leg PROVE LegDead(l)'
  <2>0. LegDead(l)
    BY DEF DeadInv
  <2>1. ASSUME Honest, canonical'[l].state \in TerminalState PROVE canonical'[l].abort \/ Gone(l)
    <3>1. CASE canonical'[l] = canonical[l]
      BY <2>0, <2>1, <3>1 DEF LegDead
    <3>2. CASE /\ canonical'[l].abort = canonical[l].abort
               /\ canonical[l].state \in TerminalState \/ Gone(l)
      BY <2>0, <2>1, <3>2 DEF LegDead
    <3> QED BY <2>1, <3>1, <3>2, SweepWrites, SweepApplied
  <2>2. ASSUME Honest, pending'[l].status \notin Recoverable \union {"absent"} PROVE Gone(l)
    <3>1. CASE pending'[l] = pending[l]
      BY <2>0, <2>2, <3>1 DEF LegDead
    <3>2. CASE pending'[l] # pending[l]
      BY <2>2, <3>2, SweepWrites, SweepRowSettled
    <3> QED BY <3>1, <3>2
  <2> QED BY <1>1, <2>1, <2>2 DEF LegDead, Honest
<1>3. ASSUME NEW t \in Task PROVE Reported(t)' /\ EntryTraded(t)'
  <2>1. /\ Reported(t) /\ EntryTraded(t) /\ pc' = pc /\ work' = work /\ at' = at /\ job' = job
        /\ Cur(t)' = Cur(t)
    BY <1>0 DEF DeadInv, Cur, handlerVars
  <2>2. Gone(Cur(t))' = Gone(Cur(t))
    BY <1>0, <2>1 DEF Gone
  <2> QED BY <1>0, <2>1, <2>2 DEF Reported, EntryTraded, Primary
<1>4. ExitAfterFill'
  BY <1>0 DEF DeadInv, ExitAfterFill
<1> QED BY <1>2, <1>3, <1>4 DEF DeadInv

LEMMA SettledNext ==
  ASSUME RecTypeInv, RecTypeInv', OrdersInv, FillsInv', Settled, ~NotFoundResult,
         [RecNext]_allVars
  PROVE  Settled'
<1> /\ ExecutionTypeInv /\ SweepTypeOK /\ LedgerTypeOK /\ LedgerTypeOK'
    /\ AttemptInv /\ FillsInv /\ sweep \in Sweep
  BY TypeParts DEF RecTypeInv, ExecutionTypeInv, OrdersInv, SweepTypeOK, TypeOK
<1> SUFFICES ASSUME sweep'.step \in Settling PROVE Settled'
  BY DEF Settled
<1>1. CASE /\ [Next]_vars /\ sweep' \in {sweep, NoSweep}
  <2>1. sweep' = sweep
    BY <1>1, NoSweepTyped
  <2>2. PICK k \in Leg : k = Current.leg
    BY <2>1, SettledEntry
  <2>3. Current' = Current
    BY <2>1 DEF Current
  <2>4. /\ submissions[k] > 0
        /\ sweep.res.status \in TerminalStatus => Gone(k)
        /\ sweep.fills <= venue[k].qty
        /\ sweep.res.status = "FILLED" => sweep.res.qty = Lots
        /\ At("resolve") /\ sweep.res.status = "FILLED" => canonical[k].fills = Lots
    BY <2>1, <2>2 DEF Settled
  <2>5. submissions'[k] > 0
    <3>1. CASE \A t \in Task : ~Submit(t)
      BY <1>1, <2>4, <3>1, RowsStay
    <3>2. ASSUME NEW t \in Task, Submit(t) PROVE submissions'[k] > 0
      <4>1. submissions' = [submissions EXCEPT ![Cur(t)] = @ + 1]
        BY <3>2 DEF Submit
      <4>2. submissions \in [Leg -> Nat] /\ submissions[k] \in Nat
        BY DEF LedgerTypeOK
      <4>3. submissions'[k] = submissions[k] \/ submissions'[k] = submissions[k] + 1
        BY <4>1, <4>2
      <4> QED BY <2>4, <4>2, <4>3, SMTT(60)
    <3> QED BY <3>1, <3>2
  <2>6. Gone(k) => Gone(k)'
    BY <1>1, VenueForward
  <2>7. sweep.fills <= venue'[k].qty
    <3>1. venue'[k].qty >= venue[k].qty
      BY <1>1, VenueGrows
    <3>2. sweep.fills \in Nat /\ venue[k].qty \in Nat /\ venue'[k].qty \in Nat
      BY SweepFields, SMTT(60) DEF LedgerTypeOK, VenueOrder
    <3> QED BY <2>4, <3>1, <3>2, SMTT(60)
  <2>8. canonical[k].fills = Lots => canonical'[k].fills = Lots
    <3>1. canonical'[k].fills >= canonical[k].fills
      BY <1>1, FillsKeptNext
    <3>2. canonical'[k].fills \in 0..Lots
      BY DEF LedgerTypeOK, Canonical
    <3> QED BY <3>1, <3>2, SMTT(60)
  <2> HIDE DEF Current
  <2> QED BY <2>1, <2>2, <2>3, <2>4, <2>5, <2>6, <2>7, <2>8 DEF Settled, At, Gone
<1>2. CASE SweepStepOf
  <2>0. UNCHANGED <<venue, submissions>> /\ \A l \in Leg : Gone(l)' = Gone(l)
    BY <1>2, SweepWrites DEF Gone
  <2>1. ASSUME NEW e, NEW r \in Definitive(e), e \in sweep.todo,
               sweep' = [sweep EXCEPT !.todo = sweep.todo \ {e}, !.cur = {e}, !.res = r, !.fills = 0,
                                      !.step = IF r.qty > 0 THEN "fills" ELSE "apply"]
        PROVE  Settled'
    <3>1. e \in Entry /\ e.leg \in Leg
      BY <2>1, SweepFields DEF Entry
    <3>2. sweep'.cur = {e} /\ sweep'.res = r /\ sweep'.fills = 0 /\ sweep'.step # "resolve"
      BY <2>1 DEF Sweep
    <3>3. Current' = e
      BY <3>2 DEF Current
    <3>4. venue'[e.leg].qty \in Nat
      BY <3>1, SMTT(60) DEF LedgerTypeOK, VenueOrder
    <3>5. 0 <= venue'[e.leg].qty
      BY <3>4, SMTT(60)
    <3>6. /\ submissions'[e.leg] > 0
          /\ r.status \in TerminalStatus => Gone(e.leg)'
          /\ r.status = "FILLED" => r.qty = Lots
      BY <2>0, <3>1, AnswerSettles
    <3>7. Gone(Current.leg)' = Gone(e.leg)'
      BY <3>3 DEF Gone
    <3> HIDE DEF Current
    <3> QED BY <3>2, <3>3, <3>5, <3>6, <3>7 DEF Settled, At
  <2>2. CASE SweepLookup
    <3>1. sweep.step = "lookup"
      BY <2>2 DEF SweepLookup, At
    <3>2. PICK e \in sweep.todo :
            \/ sweep' = [sweep EXCEPT !.todo = sweep.todo \ {e}]
            \/ sweep' = [sweep EXCEPT !.todo = sweep.todo \ {e}, !.fault = TRUE]
            \/ \E r \in Definitive(e) :
                 sweep' = [sweep EXCEPT !.todo = sweep.todo \ {e}, !.cur = {e}, !.res = r, !.fills = 0,
                                        !.step = IF r.qty > 0 THEN "fills" ELSE "apply"]
      BY <2>2 DEF SweepLookup
    <3>3. CASE \/ sweep' = [sweep EXCEPT !.todo = sweep.todo \ {e}]
               \/ sweep' = [sweep EXCEPT !.todo = sweep.todo \ {e}, !.fault = TRUE]
      <4>1. sweep'.step = "lookup"
        BY <3>1, <3>3 DEF Sweep
      <4> QED BY <4>1 DEF Settling
    <3> QED BY <2>1, <3>2, <3>3
  <2>3. CASE sweep.step \in Settling /\ sweep'.cur = sweep.cur /\ sweep'.res = sweep.res
             /\ (sweep'.fills = sweep.fills \/ sweep'.fills = venue[Current.leg].qty)
             /\ (sweep'.step # "resolve" \/ SweepApply)
    <3>1. PICK k \in Leg : k = Current.leg
      BY <2>3, SettledEntry
    <3>2. Current' = Current
      BY <2>3 DEF Current
    <3>3. /\ submissions[k] > 0
          /\ sweep.res.status \in TerminalStatus => Gone(k)
          /\ sweep.fills <= venue[k].qty
          /\ sweep.res.status = "FILLED" => sweep.res.qty = Lots
      BY <2>3, <3>1 DEF Settled
    <3>4. sweep'.fills <= venue'[k].qty
      <4>1. venue[k].qty \in Nat
        BY SMTT(60) DEF LedgerTypeOK, VenueOrder
      <4> QED BY <2>0, <2>3, <3>1, <3>3, <4>1, SMTT(60)
    <3>5. ASSUME sweep'.step = "resolve", sweep'.res.status = "FILLED"
          PROVE  canonical'[k].fills = Lots
      <4>1. ~Abandon
        BY NoSweepTyped
      <4>2. At("apply") /\ ApplyBrokerResult(Current.leg, sweep.res, sweep.fills)
        BY <2>3, <3>5, <4>1 DEF SweepApply
      <4> QED BY <2>3, <3>1, <3>5, <4>2, SweepApplied
    <3>6. Gone(Current.leg)' = Gone(k)
      BY <2>0, <3>1, <3>2 DEF Gone
    <3> HIDE DEF Current
    <3> QED BY <2>0, <2>3, <3>1, <3>2, <3>3, <3>4, <3>5, <3>6 DEF Settled, At
  <2>4. CASE SweepFills
    <3>1. ~Abandon
      BY NoSweepTyped
    <3>2. /\ sweep.step = "fills"
          /\ sweep' = [sweep EXCEPT !.step = "apply", !.fills = venue[Current.leg].qty]
      BY <2>4, <3>1 DEF SweepFills, At
    <3>3. /\ sweep'.cur = sweep.cur /\ sweep'.res = sweep.res /\ sweep'.step = "apply"
          /\ sweep'.fills = venue[Current.leg].qty
      BY <3>2 DEF Sweep
    <3> QED BY <2>3, <3>2, <3>3 DEF Settling
  <2>5. CASE SweepApply
    <3>1. ~Abandon
      BY NoSweepTyped
    <3>2. sweep.step = "apply" /\ sweep' = [sweep EXCEPT !.step = "resolve"]
      BY <2>5, <3>1 DEF SweepApply, At, Go
    <3>3. sweep'.cur = sweep.cur /\ sweep'.res = sweep.res /\ sweep'.fills = sweep.fills
      BY <3>2 DEF Sweep
    <3> QED BY <2>3, <2>5, <3>2, <3>3 DEF Settling
  <2>6. CASE SweepEnter \/ SweepBook \/ SweepClassify \/ SweepResolve \/ SweepLeave
    <3>1. ~Abandon /\ sweep' # NoSweep
      BY NoSweepTyped
    <3>2. ASSUME NEW s \in SweepStep \ Settling, Go(s) PROVE FALSE
      BY <3>2 DEF Go, Sweep
    <3>3. {"enter", "book", "leave"} \subseteq SweepStep \ Settling
      BY DEF SweepStep, Settling
    <3>4. CASE SweepEnter
      <4>1. Go("enter") \/ Go("book")
        BY <3>1, <3>4 DEF SweepEnter
      <4> QED BY <3>2, <3>3, <4>1
    <3>5. CASE SweepBook
      <4>1. \E b : sweep' = [sweep EXCEPT !.step = "classify", !.book = b, !.due = Settleable]
        BY <3>1, <3>5 DEF SweepBook
      <4> QED BY <4>1 DEF Sweep, Settling
    <3>6. CASE SweepClassify
      <4>1. \E d : sweep' = [sweep EXCEPT !.step = "lookup", !.todo = d]
        BY <3>1, <3>6 DEF SweepClassify
      <4> QED BY <4>1 DEF Sweep, Settling
    <3>7. CASE SweepResolve
      <4>1. sweep' = [sweep EXCEPT !.step = "lookup", !.cur = {}]
        BY <3>1, <3>7 DEF SweepResolve
      <4> QED BY <4>1 DEF Sweep, Settling
    <3>8. CASE SweepLeave
      <4>1. Go("leave") \/ (At("leave") /\ UNCHANGED sweep)
        BY <3>1, <3>8 DEF SweepLeave
      <4> QED BY <3>2, <3>3, <4>1 DEF At, Settling
    <3> QED BY <2>6, <3>4, <3>5, <3>6, <3>7, <3>8
  <2> QED BY <1>2, <2>2, <2>4, <2>5, <2>6 DEF SweepStepOf
<1> QED BY <1>1, <1>2, RecSteps

LEMMA OrdersNext ==
  ASSUME RecTypeInv, OrdersInv, Settled, [RecNext]_allVars PROVE OrdersInv'
<1> ExecutionTypeInv /\ AttemptInv /\ FillsInv /\ DeadInv
  BY DEF RecTypeInv, OrdersInv
<1>1. CASE [Next]_vars
  BY <1>1, AttemptNext, FillsNext, DeadNext DEF OrdersInv
<1>2. CASE SweepStepOf
  BY <1>2, AttemptSweep, FillsSweep, DeadSweep DEF OrdersInv
<1> QED BY <1>1, <1>2, RecSteps

LEMMA OrdersAlways ==
  ASSUME ~NotFoundResult
  PROVE  RecSpec => [](RecTypeInv /\ OrdersInv /\ Settled)
<1>1. RecInit => OrdersInv /\ Settled
  <2>1. RecInit => OrdersInv
    BY AttemptInit, FillsInit, DeadInit DEF RecInit, OrdersInv
  <2>2. RecInit => Settled
    BY NoSweepTyped DEF RecInit, Settled
  <2> QED BY <2>1, <2>2
<1>2. RecTypeInv /\ OrdersInv /\ Settled /\ [RecNext]_allVars
        => RecTypeInv' /\ OrdersInv' /\ Settled'
  <2> SUFFICES ASSUME RecTypeInv, OrdersInv, Settled, [RecNext]_allVars
               PROVE  RecTypeInv' /\ OrdersInv' /\ Settled'
    OBVIOUS
  <2>1. RecTypeInv' /\ OrdersInv'
    BY RecTypeNext, OrdersNext
  <2>2. FillsInv'
    BY <2>1 DEF OrdersInv
  <2> QED BY <2>1, <2>2, SettledNext
<1> QED BY <1>1, <1>2, RecTypeInit, PTL DEF RecSpec

(* What the handlers keep between the ledger, the rows and the venue, they *)
(* keep with the worker beside them, however its cycle interleaves with    *)
(* theirs and also when a dropped session lets the two overlap: no attempt *)
(* marked as aborted was sent, no ledger records more than the venue       *)
(* traded, and no exit goes out before its entry traded.  An adapter that  *)
(* answers "not found" for a local id (NotFoundResult) is left out: with   *)
(* it the worker takes the answer for an end that never was.               *)
THEOREM WorkerKeepsLedgers ==
  ~NotFoundResult => (RecSpec => [](AbortedNeverSent /\ LedgerBetweenRowAndVenue /\ ExitAfterFill))
<1> SUFFICES ASSUME ~NotFoundResult
             PROVE  RecSpec => [](AbortedNeverSent /\ LedgerBetweenRowAndVenue /\ ExitAfterFill)
  OBVIOUS
<1>1. RecTypeInv /\ OrdersInv => AbortedNeverSent
  BY AbortUnsent DEF RecTypeInv, OrdersInv
<1>2. OrdersInv => LedgerBetweenRowAndVenue
  BY DEF OrdersInv, FillsInv, LegFills, LedgerBetweenRowAndVenue
<1>3. OrdersInv => ExitAfterFill
  BY DEF OrdersInv, DeadInv
<1> QED BY <1>1, <1>2, <1>3, OrdersAlways, PTL

(* The worker closes a recovery row only when the venue has finished with  *)
(* the order: between its question and its write the answer cannot go      *)
(* stale, because an end is final.                                         *)
THEOREM WorkerClosesDead == ~NotFoundResult => (RecSpec => SweepClosesDead)
<1> SUFFICES ASSUME ~NotFoundResult PROVE RecSpec => SweepClosesDead
  OBVIOUS
<1> DEFINE Closes == \A l \in Leg : At("resolve") /\ ~At("resolve")' /\ pending'[l] # pending[l]
                        /\ pending'[l].status \notin Recoverable => venue[l].state # "open"
<1>1. RecTypeInv /\ OrdersInv /\ Settled /\ [RecNext]_allVars => [Closes]_allVars
  <2> SUFFICES ASSUME RecTypeInv, Settled, [RecNext]_allVars, NEW l \in Leg, At("resolve"),
                      ~At("resolve")', pending'[l] # pending[l],
                      pending'[l].status \notin Recoverable
               PROVE  venue[l].state # "open"
    OBVIOUS
  <2>1. CASE SweepStepOf
    <3>1. ResolveRow(Current.leg, sweep.res)
      BY <2>1, SweepWrites DEF At
    <3> QED BY <3>1, SweepRowSettled DEF Gone
  <2>2. CASE ~SweepStepOf
    <3>1. sweep' # sweep
      BY DEF At
    <3>2. pending' = pending
      BY <2>2, <3>1, CycleCut
    <3> QED BY <3>2
  <2> QED BY <2>1, <2>2
<1>2. RecSpec => [][RecNext]_allVars
  BY DEF RecSpec
<1>3. SweepClosesDead <=> [][Closes]_allVars
  BY DEF SweepClosesDead
<1> QED BY <1>1, <1>2, <1>3, OrdersAlways, PTL

(* With adapters that raise or report a pending order when a reply is lost *)
(* no row is closed while the venue still works its order, whoever closed  *)
(* it.                                                                     *)
THEOREM WorkerLeavesNoOrphan ==
  ~NotFoundResult /\ "rejected" \notin LostReply => (RecSpec => []ClosedRowIsDead)
<1> SUFFICES ASSUME ~NotFoundResult, Honest PROVE RecSpec => []ClosedRowIsDead
  BY DEF Honest
<1>1. RecTypeInv /\ OrdersInv /\ OneSubmission => ClosedRowIsDead
  BY DeadRows DEF RecTypeInv, OrdersInv
<1> QED BY <1>1, OrdersAlways, RecOneSubmissionAlways, PTL

-----------------------------------------------------------------------------
(* The worker is one more writer of the section.                           *)

Enclosed ==
  /\ InSection
  /\ sweep.step # "idle" => phase[Worker] # "idle"
  /\ pc[Worker] = "idle"

LEMMA EnclosedNext ==
  ASSUME RecTypeInv, Enclosed, [RecNext]_allVars PROVE Enclosed'
<1> SerializerTypeOK /\ HandlerTypeOK /\ sweep \in Sweep
  BY TypeParts DEF RecTypeInv, ExecutionTypeInv, SweepTypeOK
<1> USE DEF Enclosed, InSection
<1>1. ASSUME NEW t \in Handlers, Handler(t) PROVE Enclosed'
  <2>1. t \in Task /\ t # Worker /\ HandlerStep(t) /\ UNCHANGED sweep
    BY <1>1 DEF Handler, Handlers
  <2>2. \A u \in Task \ {t} : pc'[u] = pc[u]
    BY <2>1, OthersStay
  <2>3. /\ pc'[t] \in Body => phase'[t] # "idle"
        /\ \A u \in Task \ {t} : phase'[u] = phase[u]
    BY <2>1, HandlerPhase
  <2> QED BY <2>1, <2>2, <2>3
<1>2. ASSUME NEW t \in Handlers, NEW c \in Command, Deliver(t, c), UNCHANGED recVars
      PROVE  Enclosed'
  <2>1. t \in Task /\ t # Worker /\ UNCHANGED <<sweep, phase>> /\ pc' = [pc EXCEPT ![t] = "enter"]
    BY <1>2 DEF Deliver, Goto, Handlers, recVars, serializerVars
  <2> QED BY <2>1 DEF HandlerTypeOK, Body
<1>3. ASSUME Environment, UNCHANGED recVars PROVE Enclosed'
  <2>1. UNCHANGED <<phase, pc, sweep>>
    BY <1>3 DEF Environment, recVars, LoseSession, handlerVars, serializerVars
  <2> QED BY <2>1
<1>4. ASSUME NEW r \in Replica, RecCrash(r) PROVE Enclosed'
  <2>1. /\ phase' = [u \in Task |-> IF u \in Residents(r) THEN "idle" ELSE phase[u]]
        /\ pc' = [u \in Task |-> IF u \in Residents(r) THEN "idle" ELSE pc[u]]
    BY <1>4 DEF RecCrash, Crash, CrashReplica
  <2>2. Worker \in Residents(r) => sweep' = NoSweep
    BY <1>4 DEF RecCrash, Residents
  <2>3. Worker \notin Residents(r) => sweep' = sweep
    BY <1>4 DEF RecCrash, Residents, recVars
  <2> QED BY <2>1, <2>2, <2>3, SMTT(60) DEF NoSweep, Body
<1>5. ASSUME SweepStepOf PROVE Enclosed'
  <2>1. UNCHANGED pc /\ \A u \in Task \ {Worker} : phase'[u] = phase[u]
    <3>1. UNCHANGED pc
      BY <1>5, SweepWrites DEF handlerVars
    <3>2. \/ UNCHANGED serializerVars \/ TryLock(Worker) \/ ClaimGeneration(Worker)
          \/ ClaimFails(Worker) \/ Leave(Worker) \/ Unlock(Worker)
      BY <1>5, ZenonT(60) DEF SweepStepOf, SweepEnter, SweepBook, SweepClassify, SweepLookup,
         SweepFills, SweepApply, SweepResolve, SweepLeave
    <3>3. UNCHANGED phase \/ \E s : phase' = [phase EXCEPT ![Worker] = s]
      BY <3>2 DEF TryLock, ClaimGeneration, ClaimFails, Leave, ReleaseGeneration, Unlock,
         serializerVars
    <3>4. phase \in [Task -> Phase]
      BY DEF SerializerTypeOK
    <3> QED BY <3>1, <3>3, <3>4
  <2>2. sweep'.step # "idle" => phase'[Worker] # "idle"
    <3>1. CASE SweepEnter
      <4>1. phase'[Worker] \in {"locked", "held", "released"}
        BY <3>1 DEF SweepEnter, TryLock, ClaimGeneration, ClaimFails, SerializerTypeOK
      <4> QED BY <4>1
    <3>2. CASE SweepLeave
      <4>1. CASE UNCHANGED serializerVars /\ At("lookup")
        BY <4>1 DEF At, serializerVars
      <4>2. CASE Leave(Worker)
        BY <4>2 DEF Leave, ReleaseGeneration, SerializerTypeOK
      <4>3. CASE sweep' = NoSweep
        BY <4>3 DEF NoSweep
      <4> QED BY <3>2, <4>1, <4>2, <4>3 DEF SweepLeave
    <3>3. CASE ~SweepEnter /\ ~SweepLeave
      <4>1. UNCHANGED serializerVars /\ sweep.step # "idle"
        BY <1>5, <3>3, ZenonT(60) DEF SweepStepOf, SweepBook, SweepClassify, SweepLookup,
           SweepFills, SweepApply, SweepResolve, At
      <4> QED BY <4>1 DEF serializerVars
    <3> QED BY <3>1, <3>2, <3>3
  <2> QED BY <2>1, <2>2 DEF Body
<1>6. ASSUME UNCHANGED allVars PROVE Enclosed'
  BY <1>6 DEF allVars, vars, recVars, handlerVars, serializerVars
<1> QED BY <1>1, <1>2, <1>3, <1>4, <1>5, <1>6 DEF RecNext

(* Nobody else is inside while one writer is.                              *)
LEMMA Alone ==
  ASSUME LockHolds, Enclosed, losses = 0
  PROVE  /\ \A t, u \in Task : pc[t] \in Body /\ pc[u] \in Body => t = u
         /\ \A t \in Task : pc[t] \in Body => sweep.step = "idle"
<1>1. ASSUME NEW t \in Task, pc[t] \in Body PROVE advisory = t /\ t # Worker
  BY <1>1 DEF LockHolds, Enclosed, InSection, Body
<1>2. sweep.step # "idle" => advisory = Worker
  BY DEF LockHolds, Enclosed, InSection
<1> QED BY <1>1, <1>2

-----------------------------------------------------------------------------
(* The worker's cycle.  The rows it has to close are of orders the venue   *)
(* has finished; until one is closed its entry is still to be asked for,   *)
(* or is the one being settled, and the answer to it ends the order.       *)

SweepKept ==
  /\ sweep.step \in {"lookup"} \union Settling =>
       \A e \in sweep.todo : e.unknown => canonical[e.leg].unknown /\ e.key = "local"
  /\ sweep.step \in Settling =>
       /\ Closed(Current.leg) \/ Current.key = "venue" \/ (~sweep.fault /\ Current.leg \in sweep.due)
            => sweep.res.status \in TerminalStatus
       /\ sweep.res.ref = "venue" => Known(Current.leg)
  /\ At("resolve") /\ sweep.res.status \in TerminalStatus
       => canonical[Current.leg].state \in TerminalState
  /\ \A l \in Leg : <<l, "venue">> \in synced => Closed(l)

VenueEntry(l) == [leg |-> l, key |-> "venue", unknown |-> FALSE]

Ahead(l) ==
  /\ pending[l].status \in Recoverable /\ pending[l].ref = "venue"
  /\ \/ At("classify") /\ l \notin sweep.book
     \/ At("lookup") /\ VenueEntry(l) \in sweep.todo
     \/ sweep.step \in Settling /\ VenueEntry(l) \in sweep.todo \union {Current}

Going == {"classify", "lookup", "leave"} \union Settling

Cycle ==
  sweep.step \in Going /\ ~sweep.fault
    => \A l \in sweep.due : Finished(l) /\ (Closed(l) \/ Ahead(l))

Kept == RowsKept /\ SweepKept /\ Cycle

LEMMA SweepFrame ==
  ASSUME SweepTypeOK, SweepKept, Cycle, UNCHANGED <<sweep, synced, canonical, pending>>,
         \A l \in Leg : (Known(l) => Known(l)') /\ (Finished(l) => Finished(l)')
  PROVE  SweepKept' /\ Cycle'
<1> HIDE DEF Current
<1>1. Current' = Current /\ \A l : Closed(l)' = Closed(l)
  BY DEF Current, Closed
<1>2. sweep.step \in Settling => Current.leg \in Leg
  BY SettledEntry
<1>3. sweep.step \in Settling /\ Known(Current.leg) => Known(Current.leg)'
  <2>1. ASSUME sweep.step \in Settling, NEW k \in Leg, k = Current.leg, Known(k)
        PROVE  Known(Current.leg)'
    BY <1>1, <2>1 DEF Known
  <2> QED BY <1>2, <2>1
<1>4. SweepKept'
  BY <1>1, <1>3 DEF SweepKept, At, Closed
<1>5. \A l : Ahead(l)' = Ahead(l)
  BY <1>1 DEF Ahead, At
<1>6. sweep.due \subseteq Leg
  BY SweepFields DEF SweepTypeOK
<1>7. Cycle'
  BY <1>1, <1>5, <1>6 DEF Cycle
<1> QED BY <1>4, <1>7

LEMMA IdleFrame ==
  ASSUME SweepKept, sweep'.step = "idle", synced' \subseteq synced,
         \A l \in Leg : Closed(l) => Closed(l)'
  PROVE  SweepKept' /\ Cycle'
<1>1. sweep'.step \notin {"lookup"} \union Settling /\ sweep'.step \notin Going /\ ~At("resolve")'
  BY DEF Settling, Going, At
<1>2. \A l \in Leg : <<l, "venue">> \in synced' => Closed(l)'
  BY DEF SweepKept
<1> QED BY <1>1, <1>2 DEF SweepKept, Cycle

(* Steps beside the cycle.                                                 *)
LEMMA KeptHandlers ==
  ASSUME RecTypeInv, OrdersInv, LockHolds, Enclosed, losses = 0, Kept,
         NEW t \in Handlers, Handler(t)
  PROVE  Kept'
<1> /\ ExecutionTypeInv /\ AttemptInv /\ HandlerTypeOK /\ SweepTypeOK /\ InSection
    /\ RowsKept /\ (\A l \in Leg : RowKept(l)) /\ InPlace(t) /\ SweepKept /\ Cycle
  BY TypeParts DEF RecTypeInv, ExecutionTypeInv, OrdersInv, Kept, RowsKept, Handlers, Enclosed
<1>0. t \in Task /\ HandlerStep(t) /\ UNCHANGED <<sweep, synced>>
  BY DEF Handler, Handlers
<1>1. RowsKept'
  BY <1>0, RowsKeptHandler
<1>2. CASE pc[t] \in Body
  <2>1. sweep.step = "idle"
    BY <1>0, <1>2, Alone
  <2>2. \A l \in Leg : Closed(l) => Closed(l)'
    BY <1>0, ClosedStays
  <2>3. SweepKept' /\ Cycle'
    BY <1>0, <2>1, <2>2, IdleFrame
  <2> QED BY <1>1, <2>3 DEF Kept
<1>3. CASE pc[t] \notin Body
  <2>1. UNCHANGED <<canonical, pending, venue>>
    BY <1>0, <1>3, OutsideWrites DEF ledgerVars
  <2>2. \A l \in Leg : (Known(l) => Known(l)') /\ (Finished(l) => Finished(l)')
    BY <2>1 DEF Known, Finished
  <2>3. SweepKept' /\ Cycle'
    BY <1>0, <2>1, <2>2, SweepFrame
  <2> QED BY <1>1, <2>3 DEF Kept
<1> QED BY <1>2, <1>3

LEMMA KeptRest ==
  ASSUME RecTypeInv, Kept, losses = 0, losses' = 0,
         \/ \E t \in Handlers, c \in Command : Deliver(t, c) /\ UNCHANGED recVars
         \/ Environment /\ UNCHANGED recVars
         \/ \E r \in Replica : RecCrash(r)
         \/ UNCHANGED allVars
  PROVE  Kept'
<1> ExecutionTypeInv /\ SweepTypeOK /\ RowsKept /\ SweepKept /\ Cycle
  BY DEF RecTypeInv, Kept
<1>1. /\ \/ \E t \in Task, c \in Command : Deliver(t, c)
         \/ Environment
         \/ \E r \in Replica : Crash(r)
         \/ UNCHANGED vars
      /\ UNCHANGED <<sweep, synced>> \/ (sweep' = NoSweep /\ synced' = {})
  BY DEF Handlers, RecCrash, recVars, allVars
<1>2. Moved
  BY <1>1, RestMoves
<1>3. RowsKept'
  BY <1>2, RowsFrame
<1>4. /\ UNCHANGED <<canonical, pending>>
      /\ \A l \in Leg : (Known(l) => Known(l)') /\ (Finished(l) => Finished(l)')
  BY <1>2 DEF Moved
<1>5. CASE UNCHANGED <<sweep, synced>>
  BY <1>3, <1>4, <1>5, SweepFrame DEF Kept
<1>6. CASE sweep' = NoSweep /\ synced' = {}
  <2>1. sweep'.step = "idle" /\ \A l \in Leg : Closed(l) => Closed(l)'
    BY <1>4, <1>6 DEF NoSweep, Closed
  <2> QED BY <1>3, <1>6, <2>1, IdleFrame DEF Kept
<1> QED BY <1>1, <1>5, <1>6

(* The steps of the cycle.                                                 *)
LEMMA KeptSweepRows ==
  ASSUME RecTypeInv, OrdersInv, Settled, LockHolds, Enclosed, losses = 0, Kept, SweepStepOf
  PROVE  /\ \A l \in Leg : RowKept(l)' /\ (Closed(l) => Closed(l)')
         /\ \A t \in Task : InPlace(t)'
         /\ \A l \in Leg : canonical'[l].unknown = canonical[l].unknown
<1> /\ ExecutionTypeInv /\ LedgerTypeOK /\ HandlerTypeOK /\ UnderWay /\ SweepTypeOK
    /\ (\A l \in Leg : RowKept(l)) /\ (\A u \in Task : InPlace(u)) /\ SweepKept
  BY TypeParts DEF RecTypeInv, ExecutionTypeInv, Kept, RowsKept
<1>0. UNCHANGED <<venue, tracked, submissions, pc, job, at, work>>
  BY SweepWrites DEF handlerVars
<1>1. sweep.res \in Result /\ sweep.fills \in 0..Lots
  BY SweepFields DEF SweepTypeOK
<1>2. ASSUME sweep.step # "idle", NEW t \in Task PROVE InPlace(t)'
  <2>1. pc[t] \notin Body
    BY <1>2, Alone
  <2> QED BY <1>0, <2>1, AwayOutside, Outside
<1>3. CASE UNCHANGED <<canonical, pending>>
  <2>1. \A l \in Leg : RowKept(l)'
    BY <1>0, <1>3, LedgerStill
  <2>2. \A l \in Leg : (Known(l) => Known(l)') /\ (Closed(l) => Closed(l)')
    BY <1>0, <1>3 DEF Known, Closed
  <2>3. \A t \in Task : InPlace(t)'
    BY <1>0, <1>3, <2>2, InPlaceFrame
  <2> QED BY <1>3, <2>1, <2>2, <2>3
<1>4. CASE /\ At("apply") /\ ApplyBrokerResult(Current.leg, sweep.res, sweep.fills)
           /\ UNCHANGED pending
  <2>0. sweep.step \in Settling /\ sweep.step # "idle"
    BY <1>4 DEF At, Settling
  <2>1. PICK k \in Leg : k = Current.leg
    BY <2>0, SettledEntry
  <2>2. /\ Closed(k) => sweep.res.status \in TerminalStatus
        /\ sweep.res.ref = "venue" => Known(k)
    BY <2>0, <2>1 DEF SweepKept
  <2>3. ApplyBrokerResult(k, sweep.res, sweep.fills)
    BY <1>4, <2>1
  <2>4. (\A l \in Leg : RowKept(l)') /\ \A l \in Leg : canonical'[l].unknown = canonical[l].unknown
    BY <1>0, <1>1, <1>4, <2>2, <2>3, KeptApplied
  <2>5. \A l \in Leg : Closed(l) => Closed(l)'
    BY <1>4 DEF Closed
  <2> QED BY <1>2, <2>0, <2>4, <2>5
<1>5. CASE /\ At("resolve") /\ ResolveRow(Current.leg, sweep.res)
           /\ UNCHANGED canonical
  <2>0. sweep.step \in Settling /\ sweep.step # "idle"
    BY <1>5 DEF At, Settling
  <2>1. PICK k \in Leg : k = Current.leg
    BY <2>0, SettledEntry
  <2>2. /\ Closed(k) => sweep.res.status \in TerminalStatus
        /\ sweep.res.ref = "venue" => Known(k)
    BY <2>0, <2>1 DEF SweepKept
  <2>3. ResolveRow(k, sweep.res)
    BY <1>5, <2>1
  <2>4. sweep.res.status \in TerminalStatus
          => /\ submissions[k] > 0 /\ canonical[k].state \in TerminalState
             /\ canonical[k].unknown => venue[k].state # "open"
    BY <1>5, <2>0, <2>1 DEF Settled, Gone, SweepKept
  <2>5. /\ \A l \in Leg : RowKept(l)'
        /\ \A l \in Leg \ {k} : pending'[l] = pending[l]
        /\ Closed(k)' <=> sweep.res.status \in TerminalStatus
    BY <1>0, <1>1, <1>5, <2>2, <2>3, <2>4, KeptSettled
  <2>6. ASSUME NEW l \in Leg, Closed(l) PROVE Closed(l)'
    <3>1. CASE l = k
      BY <2>2, <2>5, <2>6, <3>1
    <3>2. CASE l # k
      BY <2>5, <2>6, <3>2 DEF Closed
    <3> QED BY <3>1, <3>2
  <2> QED BY <1>2, <1>5, <2>0, <2>5, <2>6
<1> QED BY <1>3, <1>4, <1>5, SweepWrites

LEMMA Abandoned ==
  ASSUME SweepTypeOK, SweepKept, Abandon, UNCHANGED synced, \A l \in Leg : Closed(l) => Closed(l)'
  PROVE  SweepKept' /\ Cycle'
<1>1. sweep'.step = "leave" /\ sweep'.fault
  BY DEF Abandon, NoSweep
<1>2. sweep'.step \notin {"lookup"} \union Settling /\ ~At("resolve")'
  BY <1>1 DEF Settling, At
<1>3. \A l \in Leg : <<l, "venue">> \in synced' => Closed(l)'
  BY DEF SweepKept
<1> QED BY <1>1, <1>2, <1>3 DEF SweepKept, Cycle

(* What is asked for.                                                      *)
LEMMA TrackedKept ==
  ASSUME LedgerTypeOK, \A l \in Leg : RowKept(l)
  PROVE  /\ \A e \in TrackedOrders : e.unknown => canonical[e.leg].unknown /\ e.key = "local"
         /\ \A l \in Leg : pending[l].status \in Recoverable /\ pending[l].ref = "venue"
                             => VenueEntry(l) \in TrackedOrders
<1> Home[Worker] \in Replica
  OBVIOUS
<1> DEFINE Cached(l) == [leg |-> l, key |-> KeyOf(tracked[Home[Worker]][l]),
                         unknown |-> tracked[Home[Worker]][l] = "unknown"]
           Stored(l) == [leg |-> l, key |-> KeyOf(pending[l].ref),
                         unknown |-> pending[l].status = "submission_unknown"]
<1>1. \A e \in CacheEntries : \E l \in Leg : e = Cached(l)
  BY DEF CacheEntries
<1>2. \A e \in RowEntries : \E l \in Leg : e = Stored(l)
  BY DEF RowEntries
<1>3. ASSUME NEW l \in Leg
      PROVE  /\ Cached(l).leg = l /\ Cached(l).key = KeyOf(tracked[Home[Worker]][l])
             /\ Cached(l).unknown = (tracked[Home[Worker]][l] = "unknown")
             /\ Stored(l).leg = l /\ Stored(l).key = KeyOf(pending[l].ref)
             /\ Stored(l).unknown = (pending[l].status = "submission_unknown")
  OBVIOUS
<1>4. ASSUME NEW l \in Leg
      PROVE  /\ tracked[Home[Worker]][l] = "unknown"
                  => canonical[l].unknown /\ KeyOf(tracked[Home[Worker]][l]) = "local"
             /\ pending[l].status = "submission_unknown"
                  => canonical[l].unknown /\ KeyOf(pending[l].ref) = "local"
  <2>1. RowKept(l)
    OBVIOUS
  <2>2. KeyOf("unknown") = "local" /\ KeyOf("none") = "local"
    BY DEF KeyOf
  <2> QED BY <2>1, <2>2 DEF RowKept
<1>5. ASSUME NEW e \in TrackedOrders, e.unknown PROVE canonical[e.leg].unknown /\ e.key = "local"
  <2>1. PICK l \in Leg : e = Cached(l) \/ e = Stored(l)
    BY <1>1, <1>2 DEF TrackedOrders
  <2>2. CASE e = Cached(l)
    <3>1. e.leg = l /\ e.key = KeyOf(tracked[Home[Worker]][l]) /\ tracked[Home[Worker]][l] = "unknown"
      BY <1>3, <1>5, <2>2
    <3> QED BY <1>4, <3>1
  <2>3. CASE e = Stored(l)
    <3>1. e.leg = l /\ e.key = KeyOf(pending[l].ref) /\ pending[l].status = "submission_unknown"
      BY <1>3, <1>5, <2>3
    <3> QED BY <1>4, <3>1
  <2> QED BY <2>1, <2>2, <2>3
<1>6. ASSUME NEW l \in Leg, pending[l].status \in Recoverable, pending[l].ref = "venue"
      PROVE  VenueEntry(l) \in TrackedOrders
  <2>1. pending[l].status # "submission_unknown"
    <3>1. RowKept(l)
      OBVIOUS
    <3> QED BY <1>6, <3>1 DEF RowKept
  <2>2. Stored(l) = VenueEntry(l)
    BY <1>6, <2>1 DEF KeyOf, VenueEntry
  <2>3. VenueEntry(l) \in RowEntries
    BY <1>6, <2>2 DEF RowEntries
  <2>4. ASSUME NEW c \in CacheEntries, c.leg = l, c.key = "venue" PROVE c = VenueEntry(l)
    <3>1. PICK k \in Leg : c = Cached(k)
      BY <1>1
    <3>2. k = l
      BY <2>4, <3>1
    <3>3. tracked[Home[Worker]][l] = "venue"
      BY <2>4, <3>1, <3>2 DEF KeyOf
    <3> QED BY <3>1, <3>2, <3>3 DEF KeyOf, VenueEntry
  <2>5. VenueEntry(l).leg = l /\ VenueEntry(l).key = "venue"
    BY DEF VenueEntry
  <2> QED BY <2>3, <2>4, <2>5 DEF TrackedOrders
<1> QED BY <1>5, <1>6

(* What a lookup carries away: an end, when the row is closed already,     *)
(* the order is known by the venue's id or it had finished in time.        *)
LEMMA AnswerKept ==
  ASSUME LedgerTypeOK, \A l \in Leg : RowKept(l), ~NotFoundResult, NEW e \in Entry,
         e.unknown => canonical[e.leg].unknown /\ e.key = "local", NEW r \in Definitive(e)
  PROVE  /\ Closed(e.leg) \/ e.key = "venue" \/ Finished(e.leg) => r.status \in TerminalStatus
         /\ r.ref = "venue" => Known(e.leg)
<1>1. PICK l \in Leg : l = e.leg
  BY DEF Entry
<1>2. venue[l] \in VenueOrder /\ RowKept(l)
  BY DEF LedgerTypeOK
<1>3. r = VenueResult(l)
  BY <1>1 DEF Definitive
<1>4. Finished(l) => VenueResult(l).status \in TerminalStatus
  BY DEF VenueResult, TerminalStatus, Finished
<1>5. /\ VenueResult(l).ref = "venue" => venue[l].state # "refused"
      /\ VenueResult(l).status \in TerminalStatus => venue[l].state # "none"
  BY DEF VenueResult, TerminalStatus
<1>6. CASE e.unknown
  <2>1. venue[l].state \notin {"none", "refused"} /\ canonical[l].unknown
    BY <1>1, <1>6 DEF Definitive
  <2>2. Closed(l) => Finished(l)
    BY <1>2, <2>1 DEF RowKept, Finished, VenueOrder
  <2>3. e.key # "venue"
    BY <1>6
  <2> QED BY <1>1, <1>3, <1>4, <2>1, <2>2, <2>3 DEF Known
<1>7. CASE ~e.unknown
  <2>1. r.status \in TerminalStatus
    BY <1>3, <1>7 DEF Definitive
  <2> QED BY <1>1, <1>3, <1>5, <2>1 DEF Known
<1> QED BY <1>6, <1>7

LEMMA VenueAnswers ==
  ASSUME NEW l \in Leg, Finished(l) PROVE Definitive(VenueEntry(l)) # {}
<1>1. VenueEntry(l).leg = l /\ VenueEntry(l).key = "venue" /\ ~VenueEntry(l).unknown
  BY DEF VenueEntry
<1>2. VenueResult(l).status \in TerminalStatus
  BY DEF VenueResult, TerminalStatus, Finished
<1>3. VenueResult(l) \in Definitive(VenueEntry(l))
  BY <1>1, <1>2 DEF Definitive
<1> QED BY <1>3

LEMMA KeptRead ==
  ASSUME SweepTypeOK, LedgerTypeOK, \A l \in Leg : RowKept(l), SweepKept, Cycle,
         SweepEnter \/ SweepBook \/ SweepClassify
  PROVE  SweepKept' /\ Cycle'
<1> sweep \in Sweep
  BY DEF SweepTypeOK
<1>0. UNCHANGED <<canonical, pending, venue, synced>>
  BY DEF SweepEnter, SweepBook, SweepClassify, ordersKept, ledgerVars
<1>1. \A l \in Leg : (Closed(l) => Closed(l)') /\ (Finished(l) => Finished(l)')
  BY <1>0 DEF Closed, Finished
<1>2. \A l \in Leg : <<l, "venue">> \in synced' => Closed(l)'
  BY <1>0, <1>1 DEF SweepKept
<1>3. CASE Abandon
  BY <1>0, <1>1, <1>3, Abandoned
<1>4. CASE Go("enter") \/ Go("book")
  <2>1. sweep'.step \in {"enter", "book"}
    BY <1>4 DEF Go, Sweep
  <2>2. sweep'.step \notin {"lookup"} \union Settling /\ sweep'.step \notin Going /\ ~At("resolve")'
    BY <2>1 DEF Settling, Going, At
  <2> QED BY <1>2, <2>2 DEF SweepKept, Cycle
<1>5. ASSUME NEW b \in {{}, {l \in Leg : venue[l].state = "open"}},
             sweep' = [sweep EXCEPT !.step = "classify", !.book = b, !.due = Settleable]
      PROVE  SweepKept' /\ Cycle'
  <2>1. sweep'.step = "classify" /\ sweep'.book = b /\ sweep'.due = Settleable
    BY <1>5 DEF Sweep
  <2>2. sweep'.step \notin {"lookup"} \union Settling /\ ~At("resolve")'
    BY <2>1 DEF Settling, At
  <2>3. ASSUME NEW l \in Settleable PROVE Finished(l)' /\ Ahead(l)'
    <3>1. /\ l \in Leg /\ pending[l].status \in Recoverable /\ pending[l].ref = "venue"
          /\ venue[l].state # "open"
      BY <2>3 DEF Settleable
    <3>2. venue[l].state \in {"none", "refused", "open", "done", "canceled"} /\ Known(l)
      BY <3>1 DEF LedgerTypeOK, VenueOrder, RowKept
    <3>3. Finished(l)
      BY <3>1, <3>2 DEF Known, Finished
    <3>4. l \notin b
      BY <3>1, <1>5
    <3> QED BY <1>0, <1>1, <2>1, <3>1, <3>3, <3>4 DEF Ahead, At
  <2> QED BY <1>2, <2>1, <2>2, <2>3 DEF SweepKept, Cycle
<1>6. ASSUME At("classify"),
             sweep' = [sweep EXCEPT !.step = "lookup", !.todo = {e \in TrackedOrders : ~InBook(e)}]
      PROVE  SweepKept' /\ Cycle'
  <2>1. /\ sweep'.step = "lookup" /\ sweep'.todo = {e \in TrackedOrders : ~InBook(e)}
        /\ sweep'.due = sweep.due /\ sweep'.fault = sweep.fault
    BY <1>6 DEF Sweep
  <2>2. sweep'.step \notin Settling /\ ~At("resolve")'
    BY <2>1 DEF Settling, At
  <2>3. \A e \in sweep'.todo : e.unknown => canonical'[e.leg].unknown /\ e.key = "local"
    BY <1>0, <2>1, TrackedKept
  <2>4. SweepKept'
    BY <1>2, <2>2, <2>3 DEF SweepKept
  <2>5. ASSUME ~sweep.fault, NEW l \in sweep.due PROVE Finished(l)' /\ (Closed(l)' \/ Ahead(l)')
    <3>1. l \in Leg /\ Finished(l) /\ (Closed(l) \/ Ahead(l))
      BY <1>6, <2>5, SweepFields DEF Cycle, Going, At
    <3>2. ASSUME Ahead(l) PROVE Ahead(l)'
      <4>1. l \notin sweep.book /\ pending[l].status \in Recoverable /\ pending[l].ref = "venue"
        BY <1>6, <3>2 DEF Ahead, At, Settling
      <4>2. VenueEntry(l) \in TrackedOrders
        BY <3>1, <4>1, TrackedKept
      <4>3. ~InBook(VenueEntry(l))
        BY <4>1 DEF InBook, VenueEntry
      <4>4. VenueEntry(l) \in sweep'.todo
        BY <2>1, <4>2, <4>3
      <4> QED BY <1>0, <2>1, <4>1, <4>4 DEF Ahead, At, VenueEntry
    <3> QED BY <1>1, <3>1, <3>2
  <2> QED BY <2>1, <2>4, <2>5 DEF Cycle
<1>7. CASE SweepEnter
  BY <1>3, <1>4, <1>7 DEF SweepEnter
<1>8. CASE SweepBook
  BY <1>3, <1>5, <1>8 DEF SweepBook
<1>9. CASE SweepClassify
  BY <1>3, <1>6, <1>9 DEF SweepClassify
<1> QED BY <1>7, <1>8, <1>9

(* An entry that has been dealt with.                                      *)
LEMMA KeptLookup ==
  ASSUME SweepTypeOK, LedgerTypeOK, \A l \in Leg : RowKept(l), SweepKept, Cycle, ~NotFoundResult,
         SweepLookup
  PROVE  SweepKept' /\ Cycle'
<1> sweep \in Sweep
  BY DEF SweepTypeOK
<1>0. UNCHANGED <<canonical, pending, venue, synced>> /\ sweep.step = "lookup"
  BY DEF SweepLookup, ordersKept, ledgerVars, At
<1>1. \A l \in Leg : Closed(l)' = Closed(l) /\ Finished(l)' = Finished(l) /\ Known(l)' = Known(l)
  BY <1>0 DEF Closed, Finished, Known
<1>2. \A l \in Leg : <<l, "venue">> \in synced' => Closed(l)'
  BY <1>0, <1>1 DEF SweepKept
<1>3. \A e \in sweep.todo : e \in Entry /\ (e.unknown => canonical[e.leg].unknown /\ e.key = "local")
  BY <1>0, SweepFields DEF SweepKept
<1>4. PICK e \in sweep.todo :
        \/ sweep' = [sweep EXCEPT !.todo = sweep.todo \ {e}]
           /\ (<<e.leg, e.key>> \in synced \/ Definitive(e) = {})
        \/ sweep' = [sweep EXCEPT !.todo = sweep.todo \ {e}, !.fault = TRUE]
        \/ \E r \in Definitive(e) :
             sweep' = [sweep EXCEPT !.todo = sweep.todo \ {e}, !.cur = {e}, !.res = r, !.fills = 0,
                                    !.step = IF r.qty > 0 THEN "fills" ELSE "apply"]
  BY DEF SweepLookup
<1>5. sweep'.todo = sweep.todo \ {e} /\ sweep'.due = sweep.due
  BY <1>4 DEF Sweep
<1>6. \A d \in sweep'.todo : d.unknown => canonical'[d.leg].unknown /\ d.key = "local"
  BY <1>0, <1>3, <1>5
<1>7. ASSUME ~sweep.fault, NEW l \in sweep.due
      PROVE  /\ l \in Leg /\ Finished(l)'
             /\ Closed(l)' \/ (/\ pending'[l].status \in Recoverable /\ pending'[l].ref = "venue"
                               /\ VenueEntry(l) \in sweep.todo)
  <2>1. l \in Leg /\ Finished(l) /\ (Closed(l) \/ Ahead(l))
    BY <1>0, <1>7, SweepFields DEF Cycle, Going
  <2> QED BY <1>0, <1>1, <2>1 DEF Ahead, At, Settling
<1>8. CASE sweep' = [sweep EXCEPT !.todo = sweep.todo \ {e}, !.fault = TRUE]
  <2>1. sweep'.step = "lookup" /\ sweep'.fault
    BY <1>0, <1>8 DEF Sweep
  <2>2. sweep'.step \notin Settling /\ ~At("resolve")'
    BY <2>1 DEF Settling, At
  <2> QED BY <1>2, <1>6, <2>1, <2>2 DEF SweepKept, Cycle
<1>9. CASE /\ sweep' = [sweep EXCEPT !.todo = sweep.todo \ {e}]
           /\ <<e.leg, e.key>> \in synced \/ Definitive(e) = {}
  <2>1. sweep'.step = "lookup" /\ sweep'.fault = sweep.fault
    BY <1>0, <1>9 DEF Sweep
  <2>2. sweep'.step \notin Settling /\ ~At("resolve")'
    BY <2>1 DEF Settling, At
  <2>3. SweepKept'
    BY <1>2, <1>6, <2>2 DEF SweepKept
  <2>4. ASSUME ~sweep.fault, NEW l \in sweep.due PROVE Finished(l)' /\ (Closed(l)' \/ Ahead(l)')
    <3>1. CASE e = VenueEntry(l)
      <4>1. l \in Leg /\ Finished(l)
        BY <1>1, <1>7, <2>4
      <4>2. Definitive(e) # {}
        BY <3>1, <4>1, VenueAnswers
      <4>3. <<l, "venue">> \in synced
        BY <1>9, <3>1, <4>2 DEF VenueEntry
      <4> QED BY <1>0, <1>2, <1>7, <2>4, <4>1, <4>3
    <3>2. CASE e # VenueEntry(l)
      <4>1. VenueEntry(l) \in sweep.todo => VenueEntry(l) \in sweep'.todo
        BY <1>5, <3>2
      <4>2. VenueEntry(l)' = VenueEntry(l)
        BY DEF VenueEntry
      <4> QED BY <1>7, <2>1, <2>4, <4>1, <4>2 DEF Ahead, At
    <3> QED BY <3>1, <3>2
  <2> QED BY <1>5, <2>1, <2>3, <2>4 DEF Cycle
<1>10. ASSUME NEW r \in Definitive(e),
              sweep' = [sweep EXCEPT !.todo = sweep.todo \ {e}, !.cur = {e}, !.res = r, !.fills = 0,
                                     !.step = IF r.qty > 0 THEN "fills" ELSE "apply"]
       PROVE  SweepKept' /\ Cycle'
  <2>1. /\ sweep'.cur = {e} /\ sweep'.res = r /\ sweep'.fault = sweep.fault
        /\ sweep'.step \in {"fills", "apply"}
    BY <1>10 DEF Sweep
  <2>2. sweep'.step \in Settling /\ ~At("resolve")'
    BY <2>1 DEF Settling, At
  <2>3. Current' = e
    BY <2>1 DEF Current
  <2>4. PICK k \in Leg : k = e.leg
    BY <1>3 DEF Entry
  <2>5. /\ Closed(k) \/ e.key = "venue" \/ Finished(k) => r.status \in TerminalStatus
        /\ r.ref = "venue" => Known(k)
    BY <1>3, <1>10, <2>4, AnswerKept
  <2>6. ~sweep.fault /\ k \in sweep.due => Finished(k)
    BY <1>1, <1>7
  <2> HIDE DEF Current
  <2>7. SweepKept'
    <3>1. /\ Closed(k)' \/ e.key = "venue" \/ (~sweep'.fault /\ k \in sweep'.due)
               => r.status \in TerminalStatus
          /\ r.ref = "venue" => Known(k)'
      BY <1>1, <1>5, <2>1, <2>5, <2>6
    <3>2. Closed(Current.leg)' = Closed(k)' /\ Known(Current.leg)' = Known(k)'
      BY <2>3, <2>4 DEF Closed, Known
    <3> QED BY <1>2, <1>6, <2>1, <2>2, <2>3, <2>4, <3>1, <3>2 DEF SweepKept
  <2>8. ASSUME ~sweep.fault, NEW l \in sweep.due PROVE Finished(l)' /\ (Closed(l)' \/ Ahead(l)')
    <3>1. VenueEntry(l) \in sweep.todo => VenueEntry(l) \in sweep'.todo \union {Current'}
      BY <1>5, <2>3
    <3>2. VenueEntry(l)' = VenueEntry(l)
      BY DEF VenueEntry
    <3> QED BY <1>7, <2>2, <2>8, <3>1, <3>2 DEF Ahead
  <2> QED BY <1>5, <2>1, <2>7, <2>8 DEF Cycle
<1> QED BY <1>4, <1>8, <1>9, <1>10

(* Settling an order: its trades, the canonical order, then the row.       *)
LEMMA KeptSettling ==
  ASSUME RecTypeInv, OrdersInv, Settled, LockHolds, Enclosed, losses = 0, Kept,
         SweepFills \/ SweepApply
  PROVE  SweepKept' /\ Cycle'
<1> /\ SweepTypeOK /\ sweep \in Sweep /\ LedgerTypeOK /\ SweepKept /\ Cycle
    /\ (\A l \in Leg : RowKept(l)) /\ SweepStepOf
  BY TypeParts DEF RecTypeInv, ExecutionTypeInv, SweepTypeOK, Kept, RowsKept, SweepStepOf
<1>0. UNCHANGED <<pending, venue, tracked, submissions, synced>> /\ sweep.step \in Settling
  BY DEF SweepFills, SweepApply, ordersKept, ledgerVars, At, Settling
<1>1. \A l : Closed(l)' = Closed(l) /\ Finished(l)' = Finished(l) /\ Known(l)' = Known(l)
  BY <1>0 DEF Closed, Finished, Known
<1>2. \A l \in Leg : canonical'[l].unknown = canonical[l].unknown
  BY KeptSweepRows
<1>3. CASE Abandon
  BY <1>0, <1>1, <1>3, Abandoned
<1>4. ASSUME sweep'.step \in {"apply", "resolve"}, sweep'.todo = sweep.todo, sweep'.cur = sweep.cur,
             sweep'.res = sweep.res, sweep'.due = sweep.due, sweep'.fault = sweep.fault,
             sweep'.step = "resolve" /\ sweep.res.status \in TerminalStatus
               => canonical'[Current.leg].state \in TerminalState
      PROVE  SweepKept' /\ Cycle'
  <2>1. Current' = Current
    BY <1>4 DEF Current
  <2> HIDE DEF Current
  <2>2. sweep'.step \in Settling
    BY <1>4 DEF Settling
  <2>3. \A e \in sweep.todo : e.unknown => canonical'[e.leg].unknown /\ e.key = "local"
    <3>1. \A e \in sweep.todo : e.leg \in Leg
      BY SweepFields DEF Entry
    <3> QED BY <1>0, <1>2, <3>1 DEF SweepKept
  <2>4. Closed(Current.leg)' = Closed(Current.leg) /\ Known(Current.leg)' = Known(Current.leg)
    BY <1>1, <2>1 DEF Closed, Known
  <2>5. /\ Closed(Current.leg)' \/ Current.key = "venue" \/ (~sweep.fault /\ Current.leg \in sweep.due)
             => sweep.res.status \in TerminalStatus
        /\ sweep.res.ref = "venue" => Known(Current.leg)'
    BY <1>0, <2>4 DEF SweepKept
  <2>6. \A l \in Leg : <<l, "venue">> \in synced' => Closed(l)'
    BY <1>0, <1>1 DEF SweepKept
  <2>7. SweepKept'
    BY <1>4, <2>1, <2>2, <2>3, <2>5, <2>6 DEF SweepKept, At
  <2>8. ASSUME ~sweep.fault, NEW l \in sweep.due PROVE Finished(l)' /\ (Closed(l)' \/ Ahead(l)')
    <3>1. Finished(l) /\ (Closed(l) \/ Ahead(l))
      BY <1>0, <2>8 DEF Cycle, Going
    <3>2. Ahead(l) => Ahead(l)'
      <4>1. ~At("classify") /\ ~At("lookup")
        BY <1>0 DEF At, Settling
      <4>2. VenueEntry(l)' = VenueEntry(l)
        BY DEF VenueEntry
      <4> QED BY <1>0, <1>4, <2>1, <2>2, <4>1, <4>2 DEF Ahead
    <3> QED BY <1>1, <3>1, <3>2
  <2> QED BY <1>4, <2>7, <2>8 DEF Cycle
<1>5. CASE SweepFills
  <2>1. CASE sweep' = [sweep EXCEPT !.step = "apply", !.fills = venue[Current.leg].qty]
    <3>1. /\ sweep'.step = "apply" /\ sweep'.todo = sweep.todo /\ sweep'.cur = sweep.cur
          /\ sweep'.res = sweep.res /\ sweep'.due = sweep.due /\ sweep'.fault = sweep.fault
      BY <2>1 DEF Sweep
    <3> QED BY <1>4, <3>1
  <2> QED BY <1>3, <1>5, <2>1 DEF SweepFills
<1>6. CASE SweepApply
  <2>1. CASE ApplyBrokerResult(Current.leg, sweep.res, sweep.fills) /\ Go("resolve")
    <3>1. /\ sweep'.step = "resolve" /\ sweep'.todo = sweep.todo /\ sweep'.cur = sweep.cur
          /\ sweep'.res = sweep.res /\ sweep'.due = sweep.due /\ sweep'.fault = sweep.fault
      BY <2>1 DEF Go, Sweep
    <3>2. PICK k \in Leg : k = Current.leg
      BY <1>0, SettledEntry
    <3>3. /\ Closed(k) => sweep.res.status \in TerminalStatus
          /\ sweep.res.ref = "venue" => Known(k)
      BY <1>0, <3>2 DEF SweepKept
    <3>4. sweep.res \in Result /\ sweep.fills \in 0..Lots
      BY SweepFields
    <3>5. ApplyBrokerResult(k, sweep.res, sweep.fills)
      BY <2>1, <3>2
    <3>6. sweep.res.status \in TerminalStatus => canonical'[k].state \in TerminalState
      BY <1>0, <3>3, <3>4, <3>5, KeptApplied
    <3> QED BY <1>4, <3>1, <3>2, <3>6
  <2> QED BY <1>3, <1>6, <2>1 DEF SweepApply
<1> QED BY <1>5, <1>6

LEMMA KeptResolve ==
  ASSUME RecTypeInv, OrdersInv, Settled, LockHolds, Enclosed, losses = 0, Kept, SweepResolve
  PROVE  SweepKept' /\ Cycle'
<1> /\ SweepTypeOK /\ sweep \in Sweep /\ LedgerTypeOK /\ SweepKept /\ Cycle
    /\ (\A l \in Leg : RowKept(l)) /\ SweepStepOf
  BY TypeParts DEF RecTypeInv, ExecutionTypeInv, SweepTypeOK, Kept, RowsKept, SweepStepOf
<1>0. UNCHANGED <<canonical, venue, tracked, submissions>> /\ sweep.step = "resolve"
  BY DEF SweepResolve, At
<1>1. \A l \in Leg : Closed(l) => Closed(l)'
  BY KeptSweepRows
<1>2. CASE Abandon /\ UNCHANGED synced
  BY <1>1, <1>2, Abandoned
<1>3. CASE /\ ResolveRow(Current.leg, sweep.res)
           /\ sweep' = [sweep EXCEPT !.step = "lookup", !.cur = {}]
           /\ synced' = synced \union {<<Current.leg, Current.key>>}
  <2>0. sweep.step \in Settling
    BY <1>0 DEF Settling
  <2>1. PICK k \in Leg : k = Current.leg
    BY <2>0, SettledEntry
  <2>2. /\ sweep'.step = "lookup" /\ sweep'.todo = sweep.todo /\ sweep'.due = sweep.due
        /\ sweep'.fault = sweep.fault
    BY <1>3 DEF Sweep
  <2> HIDE DEF Current
  <2>3. /\ Closed(k) \/ Current.key = "venue" \/ (~sweep.fault /\ k \in sweep.due)
             => sweep.res.status \in TerminalStatus
        /\ sweep.res.ref = "venue" => Known(k)
    BY <2>0, <2>1 DEF SweepKept
  <2>4. sweep.res.status \in TerminalStatus
          => /\ submissions[k] > 0 /\ canonical[k].state \in TerminalState
             /\ canonical[k].unknown => venue[k].state # "open"
    BY <1>0, <2>0, <2>1 DEF Settled, Gone, SweepKept, At
  <2>5. sweep.res \in Result /\ ResolveRow(k, sweep.res)
    BY <1>3, <2>1, SweepFields
  <2>6. /\ \A l \in Leg \ {k} : pending'[l] = pending[l]
        /\ Closed(k)' <=> sweep.res.status \in TerminalStatus
    BY <1>0, <2>3, <2>4, <2>5, KeptSettled
  <2>7. sweep'.step \notin Settling /\ ~At("resolve")'
    BY <2>2 DEF Settling, At
  <2>8. \A e \in sweep'.todo : e.unknown => canonical'[e.leg].unknown /\ e.key = "local"
    BY <1>0, <2>0, <2>2 DEF SweepKept
  <2>9. ASSUME NEW l \in Leg, <<l, "venue">> \in synced' PROVE Closed(l)'
    <3>1. CASE <<l, "venue">> \in synced
      BY <1>1, <3>1 DEF SweepKept
    <3>2. CASE <<l, "venue">> = <<Current.leg, Current.key>>
      <4>1. l = k /\ Current.key = "venue"
        BY <2>1, <3>2
      <4> QED BY <2>3, <2>6, <4>1
    <3> QED BY <1>3, <2>9, <3>1, <3>2
  <2>10. SweepKept'
    BY <2>7, <2>8, <2>9 DEF SweepKept
  <2>11. ASSUME ~sweep.fault, NEW l \in sweep.due PROVE Finished(l)' /\ (Closed(l)' \/ Ahead(l)')
    <3>1. l \in Leg /\ Finished(l) /\ (Closed(l) \/ Ahead(l))
      BY <2>0, <2>11, SweepFields DEF Cycle, Going
    <3>2. Finished(l)'
      BY <1>0, <3>1 DEF Finished
    <3>3. CASE l = k
      BY <2>3, <2>6, <2>11, <3>2, <3>3
    <3>4. CASE l # k
      <4>1. pending'[l] = pending[l]
        BY <2>6, <3>1, <3>4
      <4>0. VenueEntry(l).leg = l /\ VenueEntry(l)' = VenueEntry(l)
        BY DEF VenueEntry
      <4>2. VenueEntry(l) # Current /\ VenueEntry(l)' = VenueEntry(l)
        BY <2>1, <3>4, <4>0
      <4>3. Ahead(l) => Ahead(l)'
        BY <1>0, <2>0, <2>2, <4>1, <4>2 DEF Ahead, At
      <4> QED BY <1>1, <3>1, <3>2, <4>3
    <3> QED BY <3>3, <3>4
  <2> QED BY <2>2, <2>10, <2>11 DEF Cycle
<1> QED BY <1>2, <1>3 DEF SweepResolve

LEMMA KeptLeave ==
  ASSUME SweepTypeOK, SweepKept, Cycle, SweepLeave
  PROVE  SweepKept' /\ Cycle'
<1> sweep \in Sweep
  BY DEF SweepTypeOK
<1>0. UNCHANGED <<canonical, pending, venue, synced>>
  BY DEF SweepLeave, ordersKept, ledgerVars
<1>1. \A l \in Leg : Closed(l)' = Closed(l) /\ Finished(l)' = Finished(l) /\ Known(l)' = Known(l)
  BY <1>0 DEF Closed, Finished, Known
<1>2. CASE At("lookup") /\ sweep.todo = {} /\ Go("leave")
  <2>1. sweep'.step = "leave" /\ sweep'.due = sweep.due /\ sweep'.fault = sweep.fault
    BY <1>2 DEF Go, Sweep
  <2>2. sweep'.step \notin {"lookup"} \union Settling /\ ~At("resolve")'
    BY <2>1 DEF Settling, At
  <2>3. \A l \in Leg : <<l, "venue">> \in synced' => Closed(l)'
    BY <1>0, <1>1 DEF SweepKept
  <2>4. ASSUME ~sweep.fault, NEW l \in sweep.due PROVE Finished(l)' /\ Closed(l)'
    <3>1. l \in Leg /\ Finished(l) /\ (Closed(l) \/ Ahead(l))
      BY <1>2, <2>4, SweepFields DEF Cycle, Going, At
    <3>2. ~Ahead(l)
      BY <1>2 DEF Ahead, At, Settling
    <3> QED BY <1>1, <3>1, <3>2
  <2> QED BY <2>1, <2>2, <2>3, <2>4 DEF SweepKept, Cycle
<1>3. CASE UNCHANGED sweep
  BY <1>0, <1>1, <1>3, SweepFrame
<1>4. CASE sweep' = NoSweep
  <2>1. sweep'.step = "idle"
    BY <1>4 DEF NoSweep
  <2> QED BY <1>0, <1>1, <2>1, IdleFrame
<1> QED BY <1>2, <1>3, <1>4 DEF SweepLeave

LEMMA KeptSweep ==
  ASSUME RecTypeInv, OrdersInv, Settled, ~NotFoundResult, LockHolds, Enclosed, losses = 0, Kept,
         SweepStepOf
  PROVE  Kept'
<1> /\ SweepTypeOK /\ LedgerTypeOK /\ SweepKept /\ Cycle /\ (\A l \in Leg : RowKept(l))
  BY TypeParts DEF RecTypeInv, ExecutionTypeInv, Kept, RowsKept
<1>1. (\A l \in Leg : RowKept(l)') /\ (\A t \in Task : InPlace(t)')
  BY KeptSweepRows
<1>2. SweepKept' /\ Cycle'
  BY KeptRead, KeptLookup, KeptSettling, KeptResolve, KeptLeave DEF SweepStepOf
<1> QED BY <1>1, <1>2 DEF Kept, RowsKept

-----------------------------------------------------------------------------
(* Behaviours that drop no session: what is kept is kept by every step.    *)

KeptInv == LockHolds /\ Enclosed /\ (losses = 0 => Kept)

LEMMA KeptInit == RecInit => KeptInv
<1> SUFFICES ASSUME RecInit PROVE KeptInv
  OBVIOUS
<1>1. Init /\ sweep.step = "idle" /\ synced = {} /\ pc[Worker] = "idle"
  BY DEF RecInit, NoSweep, Init
<1>2. LockHolds /\ InSection /\ (losses = 0 => RowsKept)
  BY <1>1, RowsInit DEF RowsInv
<1>3. Enclosed
  BY <1>1, <1>2 DEF Enclosed
<1>4. SweepKept /\ Cycle
  BY <1>1 DEF SweepKept, Cycle, Settling, Going, At
<1> QED BY <1>2, <1>3, <1>4 DEF KeptInv, Kept

LEMMA KeptNext ==
  ASSUME RecTypeInv, OrdersInv, Settled, ~NotFoundResult, KeptInv, [RecNext]_allVars
  PROVE  KeptInv'
<1> SerializerTypeOK /\ LockHolds /\ Enclosed
  BY TypeParts DEF RecTypeInv, ExecutionTypeInv, KeptInv
<1>1. [SerializerNext]_serializerVars
  BY RecSteps, SweepWrites, SerializerStep
<1>2. LockHolds' /\ (losses' = 0 => losses = 0)
  BY <1>1, LockHoldsNext
<1>3. Enclosed'
  BY EnclosedNext
<1>4. ASSUME losses' = 0 PROVE Kept'
  <2>1. losses = 0 /\ Kept
    BY <1>2, <1>4 DEF KeptInv
  <2>2. ASSUME NEW t \in Handlers, Handler(t) PROVE Kept'
    BY <2>1, <2>2, KeptHandlers
  <2>3. CASE SweepStepOf
    BY <2>1, <2>3, KeptSweep
  <2>4. CASE \/ \E t \in Handlers, c \in Command : Deliver(t, c) /\ UNCHANGED recVars
             \/ Environment /\ UNCHANGED recVars
             \/ \E r \in Replica : RecCrash(r)
             \/ UNCHANGED allVars
    BY <1>4, <2>1, <2>4, KeptRest
  <2> QED BY <2>2, <2>3, <2>4 DEF RecNext
<1> QED BY <1>2, <1>3, <1>4 DEF KeptInv

LEMMA KeptAlways ==
  ASSUME ~NotFoundResult PROVE RecSpec => []KeptInv
<1>1. RecTypeInv /\ OrdersInv /\ Settled /\ KeptInv /\ [RecNext]_allVars => KeptInv'
  BY KeptNext
<1> QED BY <1>1, KeptInit, OrdersAlways, PTL DEF RecSpec

(* As long as no lock session was dropped, the account belongs to one      *)
(* writer: two handlers are never both past their entry, and none is while *)
(* the worker is in its cycle, through crashes of replicas and failed      *)
(* claims of the generation row.                                           *)
THEOREM OneWriter ==
  RecSpec => [](losses = 0 =>
    /\ \A t, u \in Task : pc[t] \in Body /\ pc[u] \in Body => t = u
    /\ \A t \in Task : pc[t] \in Body => sweep.step = "idle")
<1> DEFINE Single == losses = 0 =>
                       /\ \A t, u \in Task : pc[t] \in Body /\ pc[u] \in Body => t = u
                       /\ \A t \in Task : pc[t] \in Body => sweep.step = "idle"
<1>1. RecInit => LockHolds /\ Enclosed
  BY KeptInit DEF KeptInv
<1>2. RecTypeInv /\ LockHolds /\ Enclosed /\ [RecNext]_allVars => LockHolds' /\ Enclosed'
  <2> SUFFICES ASSUME RecTypeInv, LockHolds, Enclosed, [RecNext]_allVars
               PROVE  LockHolds' /\ Enclosed'
    OBVIOUS
  <2>1. SerializerTypeOK
    BY TypeParts DEF RecTypeInv, ExecutionTypeInv
  <2>2. [SerializerNext]_serializerVars
    BY RecSteps, SweepWrites, SerializerStep
  <2> QED BY <2>1, <2>2, LockHoldsNext, EnclosedNext
<1>3. RecTypeInv /\ [RecNext]_allVars => RecTypeInv'
  BY RecTypeNext
<1>4. LockHolds /\ Enclosed => Single
  BY Alone
<1> HIDE DEF Single
<1>5. RecSpec => []Single
  BY <1>1, <1>2, <1>3, <1>4, RecTypeInit, PTL DEF RecSpec
<1> QED BY <1>5 DEF Single

(* While no session is dropped, an order that was sent is always           *)
(* recoverable, with the worker beside the handlers and also when stale    *)
(* commands are reclaimed: its row exists, and the row is closed only      *)
(* after the canonical order is, whoever of the two closed it and wherever *)
(* a crash cut one of them short.                                          *)
THEOREM WorkerKeepsRecoverable ==
  ~NotFoundResult => (RecSpec => [](losses = 0 => SentIsRecoverable))
<1> SUFFICES ASSUME ~NotFoundResult PROVE RecSpec => [](losses = 0 => SentIsRecoverable)
  OBVIOUS
<1>1. KeptInv => (losses = 0 => SentIsRecoverable)
  BY DEF KeptInv, Kept, RowsKept, RowKept, Closed, SentIsRecoverable
<1> QED BY <1>1, KeptAlways, PTL

(* While no session is dropped, a cycle that met no fault has closed the   *)
(* recovery row of every order that was known by the venue's id and had    *)
(* finished when the cycle read the book: no classification, cached entry  *)
(* or remembered key makes it pass such an order by.                       *)
THEOREM CycleClosesFinished ==
  ~NotFoundResult => (RecSpec => [](losses = 0 => CycleSettles))
<1> SUFFICES ASSUME ~NotFoundResult PROVE RecSpec => [](losses = 0 => CycleSettles)
  OBVIOUS
<1>1. KeptInv => (losses = 0 => CycleSettles)
  <2> SUFFICES ASSUME Kept, At("leave"), ~sweep.fault, NEW l \in sweep.due
               PROVE  pending[l].status \notin Recoverable
    BY DEF KeptInv, CycleSettles
  <2>1. Closed(l) \/ Ahead(l)
    BY DEF Kept, Cycle, Going, At
  <2>2. ~Ahead(l)
    BY DEF Ahead, At, Settling
  <2> QED BY <2>1, <2>2 DEF Closed
<1> QED BY <1>1, KeptAlways, PTL
=============================================================================
