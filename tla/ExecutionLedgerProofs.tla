------------------------ MODULE ExecutionLedgerProofs ------------------------
(***************************************************************************)
(* What the canonical ledger and the recovery rows say of the venue, for   *)
(* any number of replicas, handlers, commands, deliveries, crashes,        *)
(* dropped lock sessions and lost replies.                                 *)
(***************************************************************************)
EXTENDS ExecutionTypeProofs

(* A leaf that names no prover is for Zenon, which does most of them at    *)
(* once, and for SMT where Zenon gives up.                                 *)
USE ZenonT(30), SMTT(60)

USE SerializerAssumption, CommandAssumption, DedupAssumption, LedgerAssumption,
    ExecutionAssumption

(* What the state table makes of a broker status.                          *)
LEMMA StateTable ==
  /\ OrderStateOf["PENDING"] = "new"
  /\ \A s \in BrokerStatus : /\ OrderStateOf[s] # "none"
                             /\ OrderStateOf[s] = "filled" => s = "FILLED"
BY SMTT(60) DEF OrderStateOf, BrokerStatus

LEMMA CanonicalKeeps ==
  ASSUME LedgerTypeOK, NEW l \in Leg, CanonicalWrite(l)
  PROVE  \A k \in Leg : /\ canonical'[k].fills >= canonical[k].fills
                        /\ canonical[k].state = "filled" => canonical'[k].state = "filled"
<1> \A k \in Leg : canonical[k] \in Canonical /\ canonical[k].fills \in Nat
  BY SMTT(60) DEF LedgerTypeOK, Canonical
<1> USE DEF LedgerTypeOK
<1>1. CASE canonical[l].state \in {"none", "rejected"} /\ CreateOrder(l)
  BY <1>1, SMTT(60) DEF CreateOrder, Canonical
<1>2. CASE AbortPreSubmission(l)
  BY <1>2, SMTT(60) DEF AbortPreSubmission, CanAbort, Canonical
<1>3. CASE MarkCanonicalUnknown(l)
  BY <1>3, SMTT(60) DEF MarkCanonicalUnknown, CanMarkUnknown, Canonical
<1>4. CASE CancelWorking(l)
  BY <1>4, SMTT(60) DEF CancelWorking, TerminalState, Canonical
<1>5. ASSUME NEW res \in Result, NEW fills \in 0..Lots, ApplyBrokerResult(l, res, fills)
      PROVE  \A k \in Leg : /\ canonical'[k].fills >= canonical[k].fills
                            /\ canonical[k].state = "filled" => canonical'[k].state = "filled"
  <2>1. \A k \in Leg \ {l} : canonical'[k] = canonical[k]
    BY <1>5 DEF ApplyBrokerResult
  <2>2. /\ canonical'[l].fills = LargerOf(canonical[l].fills, fills)
        /\ canonical[l].state = "filled" => canonical'[l].state = "filled"
    BY <1>5, SMTT(60) DEF ApplyBrokerResult, Canonical
  <2>3. canonical'[l].fills >= canonical[l].fills
    BY <2>2, SMTT(60) DEF LargerOf
  <2> QED BY <2>1, <2>2, <2>3, SMTT(60)
<1>6. CASE UNCHANGED canonical
  BY <1>6, SMTT(60)
<1> QED BY <1>1, <1>2, <1>3, <1>4, <1>5, <1>6 DEF CanonicalWrite

LEMMA FillsKeptNext ==
  ASSUME ExecutionTypeInv, [Next]_vars
  PROVE  \A k \in Leg : /\ canonical'[k].fills >= canonical[k].fills
                        /\ canonical[k].state = "filled" => canonical'[k].state = "filled"
<1> HandlerTypeOK /\ UnderWay /\ LedgerTypeOK
  BY TypeParts DEF ExecutionTypeInv
<1> \A k \in Leg : canonical[k].fills \in Nat
  BY SMTT(60) DEF LedgerTypeOK, Canonical
<1>1. ASSUME NEW t \in Task, Recording(t) PROVE \E l \in Leg : CanonicalWrite(l)
  BY <1>1, RecordingWrites
<1>2. ASSUME NEW l \in Leg, VenueProgress(l) PROVE UNCHANGED canonical
  BY <1>2 DEF VenueProgress
<1>3. ASSUME NEW r \in Replica, Crash(r) PROVE UNCHANGED canonical
  BY <1>3 DEF Crash
<1>4. ASSUME UNCHANGED ledgerVars PROVE UNCHANGED canonical
  BY <1>4 DEF ledgerVars
<1>5. (\E l \in Leg : CanonicalWrite(l)) \/ UNCHANGED canonical
  BY <1>1, <1>2, <1>3, <1>4, LedgerWriters
<1> QED BY <1>5, CanonicalKeeps, SMTT(60)

(* Executions are append-only, and a filled order stays filled, whatever   *)
(* late or stale result is applied to it.                                  *)
THEOREM FillsKept == Spec => FillsNeverLost
<1>1. ExecutionTypeInv /\ [Next]_vars
        => [\A l \in Leg : /\ canonical'[l].fills >= canonical[l].fills
                           /\ canonical[l].state = "filled" => canonical'[l].state = "filled"]_vars
  BY FillsKeptNext
<1> QED BY <1>1, ExecutionTypes, PTL DEF Spec, FillsNeverLost

-----------------------------------------------------------------------------
(* An aborted attempt was never sent.  While a handler has an attempt in   *)
(* hand, create_order keeps every other handler from taking it up; after   *)
(* it was sent, no handler has it in hand, so none can abort it.           *)

InHand(l) == {t \in Task : pc[t] \in {"persist", "abort", "submit"} /\ Cur(t) = l}

Attempt(l) ==
  /\ \A t, u \in InHand(l) : t = u
  /\ InHand(l) # {} => /\ canonical[l].state = "new" /\ ~canonical[l].abort
                       /\ submissions[l] = 0
  /\ submissions[l] > 0 => ~canonical[l].abort /\ canonical[l].state # "none"
  /\ submissions[l] = 0 =>
       /\ venue[l].state = "none" /\ venue[l].qty = 0
       /\ \/ canonical[l].state \in {"none", "new"}
          \/ /\ canonical[l].state = "rejected" /\ canonical[l].abort
             /\ canonical[l].ref = "none" /\ canonical[l].fills = 0

(* A handler past its submission knows of one, and a handler that replays  *)
(* an attempt that was not sent replays it as pending.                     *)
Placed(t) ==
  /\ pc[t] \in {"reply", "unknown", "unknown_row", "fills"} => submissions[Cur(t)] > 0
  /\ pc[t] \in {"resolve", "resolve_row"}
       => submissions[Cur(t)] > 0 \/ work[t].res.status = "PENDING"

AttemptInv == (\A l \in Leg : Attempt(l)) /\ (\A t \in Task : Placed(t))

(* Steps that leave the attempt as it is, or find it sent.                 *)
LEMMA AttemptKept ==
  ASSUME LedgerTypeOK, NEW l \in Leg, Attempt(l), InHand(l)' \subseteq InHand(l),
         submissions'[l] = submissions[l], canonical'[l].abort = canonical[l].abort,
         \/ canonical'[l] = canonical[l] /\ venue'[l] = venue[l]
         \/ submissions[l] > 0 /\ canonical'[l].state # "none"
  PROVE  Attempt(l)'
<1> submissions[l] \in Nat
  BY DEF LedgerTypeOK
<1> QED BY SMTT(60) DEF Attempt

LEMMA OthersStay ==
  ASSUME HandlerTypeOK, NEW t \in Task, HandlerStep(t), NEW u \in Task, u # t
  PROVE  pc'[u] = pc[u] /\ job'[u] = job[u] /\ at'[u] = at[u] /\ work'[u] = work[u]
<1> USE DEF HandlerTypeOK, Goto, unmoved
<1>a. ASSUME NEW res, NextLeg(t, res)
      PROVE  pc'[u] = pc[u] /\ at'[u] = at[u] /\ work'[u] = work[u]
  BY <1>a DEF NextLeg
<1>b. ASSUME Raise(t) PROVE pc'[u] = pc[u] /\ at'[u] = at[u] /\ work'[u] = work[u]
  BY <1>b DEF Raise
<1>c. ASSUME NEW a, Answer(t, a)
      PROVE  pc'[u] = pc[u] /\ job'[u] = job[u] /\ at'[u] = at[u] /\ work'[u] = work[u]
  BY <1>c DEF Answer
<1>d. ASSUME KeepForRecovery(t) PROVE pc'[u] = pc[u] /\ at'[u] = at[u] /\ work'[u] = work[u]
  BY <1>d, <1>a DEF KeepForRecovery
<1>1. CASE EnterBusy(t) \/ LeaveUnlock(t)
  BY <1>1, <1>c DEF EnterBusy, LeaveUnlock
<1>2. CASE EnterLock(t) \/ LeaveRow(t)
  BY <1>2 DEF EnterLock, LeaveRow, handlerVars
<1>3. CASE EnterClaim(t) \/ EnterFails(t) \/ Claim(t) \/ Gate(t)
  BY <1>3 DEF EnterClaim, EnterFails, Claim, Gate
<1>4. CASE CancelOne(t)
  BY <1>4 DEF CancelOne
<1>5. CASE CancelDone(t) \/ Persist(t) \/ Submit(t) \/ Finalize(t)
  BY <1>5 DEF CancelDone, Persist, Submit, Finalize
<1>6. CASE Reply(t)
  BY <1>6 DEF Reply
<1>7. ASSUME NEW same \in BOOLEAN, Create(t, same)
      PROVE  pc'[u] = pc[u] /\ job'[u] = job[u] /\ at'[u] = at[u] /\ work'[u] = work[u]
  BY <1>7, <1>a DEF Create
<1>8. CASE CreateFails(t) \/ Abort(t)
  BY <1>8, <1>a, <1>b, ZenonT(60) DEF CreateFails, Abort
<1>9. CASE MarkUnknown(t) \/ MarkUnknownRow(t)
  BY <1>9, <1>a, <1>b DEF MarkUnknown, MarkUnknownRow
<1>10. CASE FetchFills(t) \/ ResolveCanonical(t) \/ ResolvePending(t)
  BY <1>10, <1>a, <1>d DEF FetchFills, ResolveCanonical, ResolvePending
<1>11. CASE Aggregate(t)
  BY <1>11, <1>b DEF Aggregate
<1> QED BY <1>1, <1>2, <1>3, <1>4, <1>5, <1>6, <1>7, <1>8, <1>9, <1>10, <1>11 DEF HandlerStep

Hands == {"persist", "abort", "submit"}
Sent == {"reply", "unknown", "unknown_row", "fills"}
Resolving == {"resolve", "resolve_row"}
Away == Step \ (Hands \union Sent \union Resolving)

(* Where the moving handler may have an attempt in hand after its step.    *)
LEMMA HandsMove ==
  ASSUME HandlerTypeOK, NEW t \in Task, HandlerStep(t), NEW l \in Leg
  PROVE  /\ InHand(l)' \subseteq InHand(l) \union {t}
         /\ pc'[t] \notin Hands => InHand(l)' \subseteq InHand(l) \ {t}
         /\ Cur(t)' # l => InHand(l)' \subseteq InHand(l) \ {t}
<1>1. ASSUME NEW u \in Task, u # t PROVE u \in InHand(l)' => u \in InHand(l)
  <2>1. pc'[u] = pc[u] /\ job'[u] = job[u] /\ at'[u] = at[u]
    BY <1>1, OthersStay
  <2> QED BY <2>1 DEF InHand, Cur
<1>2. InHand(l)' \subseteq Task
  BY DEF InHand
<1>3. t \in InHand(l)' => pc'[t] \in Hands /\ Cur(t)' = l
  BY DEF InHand, Hands
<1> QED BY <1>1, <1>2, <1>3

(* A step of one handler that touches one leg.                             *)
LEMMA AttemptMove ==
  ASSUME ExecutionTypeInv, AttemptInv, NEW t \in Task, HandlerStep(t), NEW k \in Leg,
         Attempt(k)', Placed(t)', submissions'[k] >= submissions[k],
         pc'[t] \notin Hands \/ Cur(t)' = k,
         \A l \in Leg \ {k} : /\ canonical'[l] = canonical[l] /\ venue'[l] = venue[l]
                              /\ submissions'[l] = submissions[l]
  PROVE  AttemptInv'
<1> HandlerTypeOK /\ UnderWay /\ LedgerTypeOK
  BY TypeParts DEF ExecutionTypeInv
<1>1. ASSUME NEW l \in Leg PROVE Attempt(l)'
  <2>1. CASE l = k
    BY <2>1
  <2>2. CASE l # k
    <3>1. InHand(l)' \subseteq InHand(l)
      BY <2>2, HandsMove
    <3>2. Attempt(l) /\ submissions'[l] = submissions[l] /\ canonical'[l] = canonical[l]
          /\ venue'[l] = venue[l]
      BY <2>2 DEF AttemptInv
    <3> QED BY <3>1, <3>2, AttemptKept
  <2> QED BY <2>1, <2>2
<1>2. ASSUME NEW u \in Task PROVE Placed(u)'
  <2>1. CASE u = t
    BY <2>1
  <2>2. CASE u # t
    <3>1. pc'[u] = pc[u] /\ Cur(u)' = Cur(u) /\ work'[u] = work[u]
      BY <2>2, OthersStay DEF Cur
    <3>2. pc[u] # "idle" => submissions[Cur(u)] \in Nat /\ submissions'[Cur(u)] >= submissions[Cur(u)]
      <4>1. pc[u] # "idle" => Cur(u) \in Leg
        BY CurLeg
      <4>2. \A l \in Leg : submissions[l] \in Nat
        BY DEF LedgerTypeOK
      <4>3. \A l \in Leg : submissions'[l] >= submissions[l]
        BY <4>2, SMTT(60)
      <4> QED BY <4>1, <4>2, <4>3
    <3>3. Placed(u)
      BY DEF AttemptInv
    <3>4. submissions' \in [Leg -> Nat]
      <4>1. [Next]_vars
        BY DEF Next
      <4> QED BY <4>1, ExecutionTypeNext, TypeParts DEF ExecutionTypeInv, TypeOK, LedgerTypeOK
    <3>5. pc[u] # "idle" => Cur(u) \in Leg
      BY CurLeg
    <3>6. pc[u] # "idle" /\ submissions[Cur(u)] > 0 => submissions'[Cur(u)] > 0
      BY <3>2, <3>4, <3>5, SMTT(60)
    <3>7. pc[u] \in Sent \union Resolving => pc[u] # "idle"
      BY DEF Sent, Resolving
    <3>8. submissions[Cur(u)]' = submissions'[Cur(u)]
      BY <3>1
    <3> QED BY <3>1, <3>3, <3>6, <3>7, <3>8 DEF Placed, Sent, Resolving
  <2> QED BY <2>1, <2>2
<1> QED BY <1>1, <1>2 DEF AttemptInv

(* A step that leaves the order path and the tables of the attempt.        *)
LEMMA AttemptQuiet ==
  ASSUME ExecutionTypeInv, AttemptInv, NEW t \in Task, HandlerStep(t), pc'[t] \in Away,
         UNCHANGED <<canonical, venue, submissions>>, NEW k \in Leg
  PROVE  AttemptInv'
<1> HandlerTypeOK /\ UnderWay /\ LedgerTypeOK
  BY TypeParts DEF ExecutionTypeInv
<1>1. pc'[t] \notin Hands
  BY DEF Away
<1>2. Placed(t)'
  BY DEF Placed, Away, Sent, Resolving
<1>3. InHand(k)' \subseteq InHand(k)
  BY <1>1, HandsMove
<1>4. Attempt(k)'
  BY <1>3, AttemptKept DEF AttemptInv
<1>5. submissions'[k] >= submissions[k]
  BY SMTT(60) DEF LedgerTypeOK
<1> QED BY <1>1, <1>2, <1>4, <1>5, AttemptMove

LEMMA WhereNext ==
  ASSUME HandlerTypeOK, NEW t \in Task
  PROVE  /\ \A s \in Step : Goto(t, s) => pc'[t] = s
         /\ \A res : NextLeg(t, res) => pc'[t] \in Away
         /\ Raise(t) => pc'[t] \in Away
         /\ \A a : Answer(t, a) => pc'[t] \in Away
         /\ KeepForRecovery(t) => pc'[t] \in Away
<1> USE DEF HandlerTypeOK, Goto, Away, Hands, Sent, Resolving, Step
<1>1. ASSUME NEW res, NextLeg(t, res) PROVE pc'[t] \in Away
  BY <1>1 DEF NextLeg
<1>2. Raise(t) => pc'[t] \in Away
  BY DEF Raise
<1>3. ASSUME NEW a, Answer(t, a) PROVE pc'[t] \in Away
  BY <1>3 DEF Answer
<1>4. KeepForRecovery(t) => pc'[t] \in Away
  BY <1>1 DEF KeepForRecovery
<1>5. \A s \in Step : Goto(t, s) => pc'[t] = s
  OBVIOUS
<1> QED BY <1>1, <1>2, <1>3, <1>4, <1>5

(* Creating an attempt: nobody has it in hand and it was never sent.       *)
LEMMA AttemptCreated ==
  ASSUME ExecutionTypeInv, AttemptInv, NEW t \in Task, HandlerStep(t), NEW k \in Leg,
         k = Cur(t), NEW same \in BOOLEAN, CreateOutcome(k, same) = "fresh", CreateOrder(k),
         UNCHANGED <<venue, submissions>>,
         \/ pc'[t] \in Away
         \/ pc'[t] \in Hands /\ Cur(t)' = k
  PROVE  AttemptInv'
<1> HandlerTypeOK /\ UnderWay /\ LedgerTypeOK /\ Attempt(k)
  BY TypeParts DEF ExecutionTypeInv, AttemptInv
<1> submissions[k] \in Nat /\ canonical[k] \in Canonical
  BY DEF LedgerTypeOK
<1>1. /\ \/ canonical[k].state = "none"
         \/ canonical[k].state = "rejected" /\ canonical[k].abort
  BY DEF CreateOutcome
<1>2. submissions[k] = 0 /\ InHand(k) = {}
  BY <1>1, SMTT(60) DEF Attempt
<1>3. canonical'[k].state = "new" /\ ~canonical'[k].abort
      /\ \A l \in Leg \ {k} : canonical'[l] = canonical[l]
  BY DEF CreateOrder, LedgerTypeOK, Canonical
<1>4. InHand(k)' \subseteq {t}
  BY <1>2, HandsMove
<1>5. submissions'[k] = 0 /\ venue'[k] = venue[k]
  BY <1>2
<1>6. Attempt(k)'
  BY <1>2, <1>3, <1>4, <1>5 DEF Attempt
<1>7. Placed(t)'
  BY DEF Placed, Away, Hands, Sent, Resolving
<1>8. submissions'[k] >= submissions[k]
  BY <1>2, <1>5, SMTT(60)
<1> QED BY <1>3, <1>6, <1>7, <1>8, AttemptMove DEF Away

(* Applying a result: the attempt was sent, or it stays new.               *)
LEMMA AttemptApplied ==
  ASSUME ExecutionTypeInv, AttemptInv, NEW t \in Task, HandlerStep(t), NEW k \in Leg,
         k = Cur(t), pc[t] = "resolve", ApplyBrokerResult(k, work[t].res, work[t].fills),
         UNCHANGED <<venue, submissions>>,
         \/ pc'[t] \in Away
         \/ pc'[t] \in Resolving /\ Cur(t)' = k /\ work'[t] = work[t]
  PROVE  AttemptInv'
<1> HandlerTypeOK /\ UnderWay /\ LedgerTypeOK /\ Attempt(k) /\ Placed(t)
  BY TypeParts DEF ExecutionTypeInv, AttemptInv
<1> submissions[k] \in Nat /\ canonical[k] \in Canonical
  BY DEF LedgerTypeOK
<1>1. submissions[k] > 0 \/ work[t].res.status = "PENDING"
  BY DEF Placed
<1>2. /\ canonical'[k].state = IF canonical[k].state = "filled" THEN "filled"
                               ELSE OrderStateOf[work[t].res.status]
      /\ canonical'[k].abort = canonical[k].abort
      /\ \A l \in Leg \ {k} : canonical'[l] = canonical[l]
  BY DEF ApplyBrokerResult, LedgerTypeOK, Canonical
<1>3. pc'[t] \notin Hands
  BY DEF Away, Resolving, Hands
<1>4. InHand(k)' \subseteq InHand(k)
  BY <1>3, HandsMove
<1>5. CASE submissions[k] > 0
  <2>1. work[t].res.status \in BrokerStatus
    BY LocalFields, ResultFields, SMTT(60) DEF HandlerTypeOK
  <2>2. canonical'[k].state # "none"
    BY <1>2, <2>1, StateTable
  <2>3. Attempt(k)'
    BY <1>2, <1>4, <1>5, <2>2, AttemptKept, ZenonT(60)
  <2>4. Placed(t)'
    BY <1>5 DEF Placed, Away, Hands, Sent, Resolving
  <2> QED BY <1>2, <1>3, <2>3, <2>4, AttemptMove, SMTT(60)
<1>6. CASE submissions[k] = 0
  <2>1. work[t].res.status = "PENDING" /\ canonical[k].state # "filled"
    BY <1>1, <1>6, SMTT(60) DEF Attempt
  <2>2. canonical'[k].state = "new"
    BY <1>2, <2>1, StateTable, ZenonT(60)
  <2>3. Attempt(k)'
    BY <1>2, <1>4, <1>6, <2>2, ZenonT(60) DEF Attempt
  <2>4. Placed(t)'
    BY <2>1 DEF Placed, Away, Hands, Sent, Resolving
  <2> QED BY <1>2, <1>3, <1>6, <2>3, <2>4, AttemptMove, SMTT(60)
<1> QED BY <1>5, <1>6, SMTT(60)

(* One step per action of the handler.                                     *)
LEMMA AttemptStep ==
  ASSUME ExecutionTypeInv, AttemptInv, NEW t \in Task, HandlerStep(t)
  PROVE  AttemptInv'
<1> HandlerTypeOK /\ UnderWay /\ LedgerTypeOK
  BY TypeParts DEF ExecutionTypeInv
<1>0. pc[t] # "idle"
  <2>1. EnterBusy(t) \/ EnterLock(t) \/ EnterClaim(t) \/ EnterFails(t) => pc[t] # "idle"
    BY DEF EnterBusy, EnterLock, EnterClaim, EnterFails
  <2>2. Claim(t) \/ Gate(t) \/ CancelOne(t) \/ CancelDone(t) \/ Persist(t) => pc[t] # "idle"
    BY DEF Claim, Gate, CancelOne, CancelDone, Persist
  <2>3. (\E same \in BOOLEAN : Create(t, same)) \/ CreateFails(t) \/ Abort(t) \/ Submit(t)
        => pc[t] # "idle"
    BY ZenonT(60) DEF Create, CreateFails, Abort, Submit
  <2>4. Reply(t) \/ MarkUnknown(t) \/ MarkUnknownRow(t) \/ FetchFills(t) \/ ResolveCanonical(t)
        => pc[t] # "idle"
    BY DEF Reply, MarkUnknown, MarkUnknownRow, FetchFills, ResolveCanonical
  <2>5. ResolvePending(t) \/ Aggregate(t) \/ Finalize(t) \/ LeaveRow(t) \/ LeaveUnlock(t)
        => pc[t] # "idle"
    BY DEF ResolvePending, Aggregate, Finalize, LeaveRow, LeaveUnlock
  <2> QED BY <2>1, <2>2, <2>3, <2>4, <2>5 DEF HandlerStep
<1>k. PICK k \in Leg : k = Cur(t)
  BY <1>0, CurLeg
<1>a. Attempt(k) /\ Placed(t)
  BY DEF AttemptInv
<1>b. submissions[k] \in Nat /\ canonical[k] \in Canonical
  BY DEF LedgerTypeOK
<1>q. ASSUME pc'[t] \in Away, UNCHANGED <<canonical, venue, submissions>> PROVE AttemptInv'
  BY <1>q, <1>k, AttemptQuiet
<1>p. ASSUME UNCHANGED <<at, job>> PROVE Cur(t)' = k
  BY <1>p, <1>k DEF Cur
<1>g. \A s \in Step : Goto(t, s) => pc'[t] = s
  BY WhereNext
<1>away. /\ \A s \in {"enter", "claim", "leave", "gate", "cancel", "create", "finalize"} :
              s \in Away /\ s \in Step
  BY DEF Away, Hands, Sent, Resolving, Step
<1>1. CASE EnterBusy(t) \/ LeaveUnlock(t)
  <2>1. pc'[t] \in Away
    BY <1>1, WhereNext DEF EnterBusy, LeaveUnlock
  <2> QED BY <1>1, <1>q, <2>1 DEF EnterBusy, LeaveUnlock, ledgerVars
<1>2. CASE EnterLock(t) \/ LeaveRow(t)
  <2>1. pc'[t] \in Away
    BY <1>2, <1>away DEF EnterLock, LeaveRow, handlerVars
  <2> QED BY <1>2, <1>q, <2>1 DEF EnterLock, LeaveRow, ledgerVars
<1>3. CASE EnterClaim(t) \/ EnterFails(t) \/ Claim(t) \/ Gate(t) \/ CancelDone(t) \/ Finalize(t)
  <2>1. pc'[t] \in Away
    BY <1>3, <1>g, <1>away DEF EnterClaim, EnterFails, Claim, Gate, CancelDone, Finalize
  <2>2. UNCHANGED ledgerVars
    BY <1>3 DEF EnterClaim, EnterFails, Claim, Gate, CancelDone, Finalize
  <2> QED BY <1>q, <2>1, <2>2 DEF ledgerVars
<1>4. CASE CancelOne(t)
  <2>1. PICK l \in work[t].todo :
          /\ \/ UNCHANGED <<canonical, venue>>
             \/ /\ venue[l].state = "open"
                /\ venue' = [venue EXCEPT ![l].state = "canceled"]
                /\ UNCHANGED canonical \/ CancelWorking(l)
          /\ UNCHANGED <<submissions, pc, at, job>>
    BY <1>4 DEF CancelOne, CancelAtVenue, unmoved
  <2>2. l \in Leg /\ pc'[t] \in Away
    BY <1>4, <1>away, <2>1, LocalFields, SMTT(60) DEF HandlerTypeOK, CancelOne
  <2>3. CASE UNCHANGED <<canonical, venue>>
    BY <1>q, <2>1, <2>2, <2>3
  <2>4. CASE /\ venue[l].state = "open" /\ venue' = [venue EXCEPT ![l].state = "canceled"]
             /\ UNCHANGED canonical \/ CancelWorking(l)
    <3>1. submissions[l] \in Nat /\ canonical[l] \in Canonical
      BY <2>2 DEF LedgerTypeOK
    <3>2. submissions[l] > 0 /\ canonical[l].state # "none"
      BY <2>2, <2>4, <3>1, SMTT(60) DEF AttemptInv, Attempt
    <3>3. canonical'[l].state # "none" /\ canonical'[l].abort = canonical[l].abort
      BY <2>2, <2>4, <3>1, <3>2, SMTT(60) DEF CancelWorking, LedgerTypeOK, Canonical
    <3>4. \A j \in Leg \ {l} : canonical'[j] = canonical[j] /\ venue'[j] = venue[j]
      BY <2>4 DEF CancelWorking, LedgerTypeOK
    <3>5. pc'[t] \notin Hands /\ Placed(t)'
      BY <2>2 DEF Away, Placed, Sent, Resolving
    <3>6. InHand(l)' \subseteq InHand(l)
      BY <2>2, <3>5, HandsMove
    <3>7. Attempt(l)'
      BY <2>1, <2>2, <3>2, <3>3, <3>6, AttemptKept DEF AttemptInv
    <3> QED BY <2>1, <2>2, <3>1, <3>4, <3>5, <3>7, AttemptMove, SMTT(60)
  <2> QED BY <2>1, <2>3, <2>4
<1>5. ASSUME NEW same \in BOOLEAN, Create(t, same) PROVE AttemptInv'
  <2>1. UNCHANGED <<venue, submissions>> /\ job' = job
    BY <1>5 DEF Create, unmoved
  <2>2. CASE CreateOutcome(k, same) = "fresh" /\ CreateOrder(k) /\ Goto(t, "persist") /\ at' = at
    <3>1. pc'[t] \in Hands /\ Cur(t)' = k
      BY <1>g, <1>p, <2>1, <2>2 DEF Hands, Step
    <3> QED BY <1>k, <2>1, <2>2, <3>1, AttemptCreated
  <2>3. CASE /\ CreateOutcome(k, same) = "reused" /\ canonical[k].state # "submission_unknown"
             /\ work' = [work EXCEPT ![t].res = DurableResult(k), ![t].fills = canonical[k].fills,
                                     ![t].replay = TRUE]
             /\ Goto(t, "resolve") /\ at' = at /\ UNCHANGED canonical
    <3>1. pc'[t] = "resolve" /\ Cur(t)' = k
      BY <1>g, <1>p, <2>1, <2>3 DEF Step
    <3>2. work'[t].res = DurableResult(k)
      BY <2>3, SMTT(60) DEF HandlerTypeOK, Local
    <3>3. submissions[k] > 0 \/ work'[t].res.status = "PENDING"
      <4>1. submissions[k] = 0 => canonical[k].state = "new"
        BY <1>a, <2>3 DEF Attempt, CreateOutcome
      <4> QED BY <1>b, <3>2, <4>1, SMTT(60) DEF DurableResult, DurableStatusOf
    <3>4. Placed(t)'
      BY <2>1, <3>1, <3>3 DEF Placed
    <3>5. pc'[t] \notin Hands
      BY <3>1 DEF Hands
    <3>6. InHand(k)' \subseteq InHand(k)
      BY <3>5, HandsMove
    <3>7. Attempt(k)'
      BY <1>a, <2>1, <2>3, <3>6, AttemptKept
    <3> QED BY <1>b, <2>1, <2>3, <3>4, <3>5, <3>7, AttemptMove, SMTT(60)
  <2>4. ASSUME NEW res, NextLeg(t, res), UNCHANGED canonical PROVE AttemptInv'
    BY <1>q, <2>1, <2>4, WhereNext
  <2> QED BY <1>5, <1>k, <2>2, <2>3, <2>4 DEF Create
<1>6. CASE CreateFails(t)
  <2>1. UNCHANGED <<venue, submissions>> /\ pc'[t] \in Away
    BY <1>6, WhereNext DEF CreateFails
  <2>2. CASE UNCHANGED canonical
    BY <1>q, <2>1, <2>2
  <2>3. CASE CreateOutcome(k, TRUE) = "fresh" /\ CreateOrder(k)
    BY <1>k, <2>1, <2>3, AttemptCreated, ZenonT(60)
  <2> QED BY <1>6, <1>k, <2>2, <2>3, ZenonT(60) DEF CreateFails
<1>7. CASE Persist(t)
  <2>1. UNCHANGED <<canonical, venue, submissions, at, job>>
    BY <1>7 DEF Persist, unmoved
  <2>2. pc[t] \in Hands /\ pc'[t] \in Hands /\ Cur(t)' = k
    BY <1>7, <1>g, <1>p, <2>1 DEF Persist, Hands, Step
  <2>3. InHand(k)' \subseteq InHand(k)
    <3>1. t \in InHand(k)
      BY <1>k, <2>2 DEF InHand, Hands
    <3> QED BY <3>1, HandsMove, SMTT(60)
  <2>4. Attempt(k)'
    BY <1>a, <2>1, <2>3, AttemptKept
  <2>5. Placed(t)'
    BY <2>2 DEF Placed, Hands
  <2> QED BY <1>b, <2>1, <2>2, <2>4, <2>5, AttemptMove, SMTT(60)
<1>8. CASE Abort(t)
  <2>1. UNCHANGED <<venue, submissions>> /\ pc'[t] \in Away
    BY <1>8, WhereNext DEF Abort
  <2>2. CASE UNCHANGED canonical
    BY <1>q, <2>1, <2>2
  <2>3. CASE AbortPreSubmission(k)
    <3>1. t \in InHand(k)
      BY <1>8, <1>k DEF Abort, InHand
    <3>2. submissions[k] = 0 /\ InHand(k) = {t}
      BY <1>a, <3>1 DEF Attempt
    <3>3. pc'[t] \notin Hands /\ Placed(t)'
      BY <2>1 DEF Away, Placed, Sent, Resolving
    <3>4. InHand(k)' = {}
      BY <3>2, <3>3, HandsMove
    <3>5. /\ canonical'[k].state = "rejected" /\ canonical'[k].abort
          /\ canonical'[k].ref = "none" /\ canonical'[k].fills = 0
          /\ \A l \in Leg \ {k} : canonical'[l] = canonical[l]
      BY <1>b, <2>3 DEF AbortPreSubmission, CanAbort, LedgerTypeOK, Canonical
    <3>6. submissions'[k] = 0 /\ venue'[k] = venue[k]
      BY <2>1, <3>2
    <3>7. venue[k].state = "none" /\ venue[k].qty = 0
      BY <1>a, <3>2 DEF Attempt
    <3>8. Attempt(k)'
      BY <3>4, <3>5, <3>6, <3>7, SMTT(60) DEF Attempt
    <3> QED BY <1>b, <2>1, <3>3, <3>5, <3>8, AttemptMove, SMTT(60)
  <2> QED BY <1>8, <1>k, <2>2, <2>3 DEF Abort
<1>9. CASE Submit(t)
  <2>1. /\ UNCHANGED <<canonical, at, job>>
        /\ submissions' = [submissions EXCEPT ![k] = @ + 1]
    BY <1>9, <1>k DEF Submit, unmoved
  <2>2. t \in InHand(k)
    BY <1>9, <1>k DEF Submit, InHand
  <2>3. /\ submissions[k] = 0 /\ InHand(k) = {t} /\ ~canonical[k].abort
        /\ canonical[k].state = "new"
    BY <1>a, <2>2 DEF Attempt
  <2>4. submissions'[k] = 1 /\ \A l \in Leg \ {k} : submissions'[l] = submissions[l]
    BY <2>1, <2>3, SMTT(60) DEF LedgerTypeOK
  <2>5. pc'[t] = "reply" /\ Cur(t)' = k
    BY <1>9, <1>g, <1>p, <2>1, ZenonT(60) DEF Submit, Step
  <2>6. InHand(k)' = {}
    BY <2>3, <2>5, HandsMove DEF Hands
  <2>7. Attempt(k)'
    BY <2>1, <2>3, <2>4, <2>6, SMTT(60) DEF Attempt
  <2>8. Placed(t)'
    BY <2>4, <2>5, SMTT(60) DEF Placed
  <2>9. \A l \in Leg \ {k} : venue'[l] = venue[l]
    BY <1>9, <1>k DEF Submit, VenueAccepts, LedgerTypeOK
  <2> QED BY <2>1, <2>3, <2>4, <2>5, <2>7, <2>8, <2>9, AttemptMove, SMTT(60)
<1>10. CASE Reply(t)
  <2>1. UNCHANGED <<canonical, venue, submissions, at, job>> /\ pc[t] = "reply"
    BY <1>10 DEF Reply, ledgerVars, unmoved
  <2>2. pc'[t] \in Sent /\ Cur(t)' = k
    BY <1>10, <1>g, <1>p, <2>1 DEF Reply, Sent, Step
  <2>3. submissions[k] > 0
    BY <1>a, <1>k, <2>1 DEF Placed
  <2>4. pc'[t] \notin Hands /\ Placed(t)'
    BY <2>1, <2>2, <2>3 DEF Placed, Sent, Hands
  <2>5. InHand(k)' \subseteq InHand(k)
    BY <2>4, HandsMove
  <2>6. Attempt(k)'
    BY <1>a, <2>1, <2>5, AttemptKept
  <2> QED BY <1>b, <2>1, <2>4, <2>6, AttemptMove, SMTT(60)
<1>11. CASE MarkUnknown(t)
  <2>1. UNCHANGED <<venue, submissions>> /\ pc[t] = "unknown" /\ job' = job
    BY <1>11 DEF MarkUnknown, unmoved
  <2>2. submissions[k] > 0
    BY <1>a, <1>k, <2>1 DEF Placed
  <2>3. pc'[t] \in Away \/ (pc'[t] = "unknown_row" /\ Cur(t)' = k)
    BY <1>11, <1>g, <1>p, <2>1, WhereNext DEF MarkUnknown, Step
  <2>4. pc'[t] \notin Hands /\ Placed(t)'
    BY <2>1, <2>2, <2>3 DEF Placed, Sent, Hands, Away, Resolving
  <2>5. InHand(k)' \subseteq InHand(k)
    BY <2>4, HandsMove
  <2>6. MarkCanonicalUnknown(k) \/ UNCHANGED canonical
    BY <1>11, <1>k DEF MarkUnknown
  <2>7. /\ canonical'[k].abort = canonical[k].abort /\ canonical'[k].state # "none"
        /\ \A l \in Leg \ {k} : canonical'[l] = canonical[l]
    BY <1>a, <1>b, <2>2, <2>6, SMTT(60) DEF MarkCanonicalUnknown, LedgerTypeOK, Canonical, Attempt
  <2>8. Attempt(k)'
    BY <1>a, <2>1, <2>2, <2>5, <2>7, AttemptKept
  <2> QED BY <1>b, <2>1, <2>4, <2>7, <2>8, AttemptMove, SMTT(60)
<1>12. CASE MarkUnknownRow(t) \/ ResolvePending(t) \/ Aggregate(t)
  <2>1. UNCHANGED <<canonical, venue, submissions>>
    BY <1>12 DEF MarkUnknownRow, ResolvePending, Aggregate, ledgerVars
  <2>2. pc'[t] \in Away
    BY <1>12, <1>g, <1>away, WhereNext DEF MarkUnknownRow, ResolvePending, Aggregate
  <2> QED BY <1>q, <2>1, <2>2
<1>13. CASE FetchFills(t)
  <2>1. UNCHANGED <<canonical, venue, submissions>> /\ pc[t] = "fills" /\ job' = job
    BY <1>13 DEF FetchFills, unmoved
  <2>2. CASE KeepForRecovery(t)
    BY <1>q, <2>1, <2>2, WhereNext
  <2>3. CASE Goto(t, "resolve") /\ at' = at
    <3>1. pc'[t] = "resolve" /\ Cur(t)' = k
      BY <1>g, <1>p, <2>1, <2>3 DEF Step
    <3>2. submissions[k] > 0
      BY <1>a, <1>k, <2>1 DEF Placed
    <3>3. pc'[t] \notin Hands /\ Placed(t)'
      BY <2>1, <3>1, <3>2 DEF Placed, Hands
    <3>4. InHand(k)' \subseteq InHand(k)
      BY <3>3, HandsMove
    <3>5. Attempt(k)'
      BY <1>a, <2>1, <3>4, AttemptKept
    <3> QED BY <1>b, <2>1, <3>3, <3>5, AttemptMove, SMTT(60)
  <2> QED BY <1>13, <2>2, <2>3 DEF FetchFills
<1>14. CASE ResolveCanonical(t)
  <2>1. UNCHANGED <<venue, submissions>> /\ pc[t] = "resolve" /\ job' = job
    BY <1>14 DEF ResolveCanonical, unmoved
  <2>2. \/ pc'[t] \in Away
        \/ pc'[t] \in Resolving /\ Cur(t)' = k /\ work'[t] = work[t]
    BY <1>14, <1>g, <1>p, <2>1, WhereNext, ZenonT(60) DEF ResolveCanonical, Resolving, Step
  <2>3. CASE ApplyBrokerResult(k, work[t].res, work[t].fills)
    BY <1>k, <2>1, <2>2, <2>3, AttemptApplied, ZenonT(60)
  <2>4. CASE UNCHANGED canonical /\ pc'[t] \in Away
    BY <1>q, <2>1, <2>4
  <2> QED BY <1>14, <1>k, <2>3, <2>4, WhereNext, ZenonT(60) DEF ResolveCanonical
<1> QED BY <1>1, <1>2, <1>3, <1>4, <1>5, <1>6, <1>7, <1>8, <1>9, <1>10, <1>11, <1>12, <1>13,
           <1>14 DEF HandlerStep

(* Steps that move no handler along its order path.                        *)
LEMMA AttemptRest ==
  ASSUME LedgerTypeOK, AttemptInv, UNCHANGED <<canonical, submissions>>,
         \A l \in Leg : venue'[l] = venue[l] \/ submissions[l] > 0,
         \A u \in Task : \/ pc'[u] \in Away
                         \/ pc'[u] = pc[u] /\ Cur(u)' = Cur(u) /\ work'[u] = work[u]
  PROVE  AttemptInv'
<1>1. ASSUME NEW l \in Leg PROVE Attempt(l)'
  <2>1. InHand(l)' \subseteq InHand(l)
    BY DEF InHand, Away, Hands
  <2>2. submissions[l] \in Nat /\ Attempt(l)
    BY DEF LedgerTypeOK, AttemptInv
  <2>3. submissions[l] > 0 => canonical[l].state # "none"
    BY <2>2 DEF Attempt
  <2> QED BY <2>1, <2>2, <2>3, AttemptKept
<1>2. ASSUME NEW u \in Task PROVE Placed(u)'
  <2>1. CASE pc'[u] \in Away
    BY <2>1 DEF Placed, Away, Sent, Resolving
  <2>2. CASE pc'[u] = pc[u] /\ Cur(u)' = Cur(u) /\ work'[u] = work[u]
    <3>1. submissions[Cur(u)]' = submissions[Cur(u)]
      BY <2>2
    <3> QED BY <2>2, <3>1 DEF AttemptInv, Placed
  <2> QED BY <2>1, <2>2
<1> QED BY <1>1, <1>2 DEF AttemptInv

LEMMA AttemptInit == Init => AttemptInv
<1> SUFFICES ASSUME Init PROVE AttemptInv
  OBVIOUS
<1>1. \A t \in Task : pc[t] = "idle"
  BY DEF Init
<1>2. \A l \in Leg : /\ submissions[l] = 0 /\ canonical[l].state = "none"
                     /\ venue[l].state = "none" /\ venue[l].qty = 0
  BY DEF Init, LedgerInit
<1>3. \A l \in Leg : InHand(l) = {}
  BY <1>1 DEF InHand
<1> QED BY <1>1, <1>2, <1>3, SMTT(60) DEF AttemptInv, Attempt, Placed

LEMMA AttemptNext ==
  ASSUME ExecutionTypeInv, AttemptInv, [Next]_vars
  PROVE  AttemptInv'
<1> HandlerTypeOK /\ LedgerTypeOK
  BY TypeParts DEF ExecutionTypeInv
<1>0. "enter" \in Away /\ "idle" \in Away
  BY DEF Away, Step, Hands, Sent, Resolving
<1>1. ASSUME NEW t \in Task, HandlerStep(t) PROVE AttemptInv'
  BY <1>1, AttemptStep
<1>2. ASSUME NEW t \in Task, NEW c \in Command, Deliver(t, c) PROVE AttemptInv'
  <2>1. UNCHANGED <<canonical, venue, submissions>>
    BY <1>2 DEF Deliver, ledgerVars
  <2>2. \A u \in Task : \/ pc'[u] \in Away
                        \/ pc'[u] = pc[u] /\ Cur(u)' = Cur(u) /\ work'[u] = work[u]
    BY <1>0, <1>2 DEF Deliver, Goto, HandlerTypeOK, Cur
  <2> QED BY <2>1, <2>2, AttemptRest
<1>3. ASSUME NEW r \in Replica, Crash(r) PROVE AttemptInv'
  <2>1. UNCHANGED <<canonical, venue, submissions>>
    BY <1>3 DEF Crash
  <2>2. \A u \in Task : \/ pc'[u] \in Away
                        \/ pc'[u] = pc[u] /\ Cur(u)' = Cur(u) /\ work'[u] = work[u]
    BY <1>0, <1>3 DEF Crash, HandlerTypeOK, Cur
  <2> QED BY <2>1, <2>2, AttemptRest
<1>4. ASSUME Environment \/ UNCHANGED vars PROVE AttemptInv'
  <2>1. UNCHANGED handlerVars
    BY <1>4 DEF Environment, vars
  <2>2. \A u \in Task : pc'[u] = pc[u] /\ Cur(u)' = Cur(u) /\ work'[u] = work[u]
    BY <2>1 DEF handlerVars, Cur
  <2>3. (\E l \in Leg : VenueProgress(l)) \/ UNCHANGED ledgerVars
    BY <1>4 DEF Environment, vars
  <2>4. UNCHANGED <<canonical, submissions>>
    BY <2>3 DEF VenueProgress, ledgerVars
  <2>5. \A l \in Leg : venue'[l] = venue[l] \/ submissions[l] > 0
    <3>1. \A l \in Leg : submissions[l] \in Nat /\ Attempt(l)
      BY DEF LedgerTypeOK, AttemptInv
    <3>2. \A l \in Leg : venue[l].state = "open" => submissions[l] > 0
      BY <3>1, SMTT(60) DEF Attempt
    <3> QED BY <2>3, <3>2 DEF VenueProgress, ledgerVars, LedgerTypeOK
  <2> QED BY <2>2, <2>4, <2>5, AttemptRest
<1> QED BY <1>1, <1>2, <1>3, <1>4 DEF Next

LEMMA AttemptAlways == Spec => [](ExecutionTypeInv /\ AttemptInv)
<1>1. ExecutionTypeInv /\ AttemptInv /\ [Next]_vars => ExecutionTypeInv' /\ AttemptInv'
  BY ExecutionTypeNext, AttemptNext
<1> QED BY <1>1, AttemptInit, ExecutionTypeInit, PTL DEF Spec

LEMMA AbortUnsent ==
  ASSUME ExecutionTypeInv, AttemptInv PROVE AbortedNeverSent
<1> SUFFICES ASSUME NEW l \in Leg, canonical[l].abort
             PROVE  submissions[l] = 0
  BY DEF AbortedNeverSent
<1>1. submissions[l] \in Nat /\ Attempt(l)
  BY TypeParts DEF ExecutionTypeInv, LedgerTypeOK, AttemptInv
<1> QED BY <1>1, SMTT(60) DEF Attempt

(* The abort marker, on which create_order revives an attempt, is never on *)
(* an order that was sent.                                                 *)
THEOREM AbortProvesUnsent == Spec => []AbortedNeverSent
<1>1. ExecutionTypeInv /\ AttemptInv => AbortedNeverSent
  BY AbortUnsent
<1> QED BY <1>1, AttemptAlways, PTL

-----------------------------------------------------------------------------
(* The row claims no fill the ledger does not have, the ledger none the    *)
(* venue did not make.  A handler carries both between its commits: the    *)
(* trades it fetched are trades of the venue, and a fill it reports to the *)
(* row is in the ledger by then.                                           *)

LegFills(l) ==
  /\ canonical[l].fills <= venue[l].qty
  /\ canonical[l].state = "filled" => canonical[l].fills = Lots
  /\ pending[l].status = "filled" => canonical[l].fills = Lots
  /\ venue[l].state = "done" => venue[l].qty = Lots

Carried(t) ==
  /\ work[t].fills # 0 => pc[t] # "idle" /\ work[t].fills <= venue[Cur(t)].qty
  /\ work[t].res.status = "FILLED" => work[t].res.qty = Lots
  /\ pc[t] = "resolve_row" /\ work[t].res.status = "FILLED" => canonical[Cur(t)].fills = Lots

FillsInv == (\A l \in Leg : LegFills(l)) /\ (\A t \in Task : Carried(t))

(* An order is filled only by its first submission and by the venue.       *)
LEMMA VenueGrows ==
  ASSUME ExecutionTypeInv, AttemptInv, FillsInv, [Next]_vars, NEW l \in Leg
  PROVE  /\ venue'[l].qty >= venue[l].qty
         /\ venue'[l].state = "done" => venue'[l].qty = Lots
<1> HandlerTypeOK /\ UnderWay /\ LedgerTypeOK /\ Attempt(l) /\ LegFills(l) /\ OpenIsUnfilled
  BY TypeParts DEF ExecutionTypeInv, AttemptInv, FillsInv
<1> venue[l] \in VenueOrder /\ venue[l].qty \in 0..Lots
  BY DEF LedgerTypeOK, VenueOrder
<1> DEFINE Still == \/ venue'[l] = venue[l]
                    \/ venue'[l].qty = venue[l].qty /\ venue'[l].state = "canceled"
           Grown == /\ venue'[l].qty >= venue[l].qty
                    /\ venue'[l].state = "done" => venue'[l].qty = Lots
<1>1. Still => Grown
  BY SMTT(60) DEF LegFills
<1>2. ASSUME NEW t \in Task, Submit(t)
      PROVE  Grown
  <2>1. Cur(t) \in Leg
    BY <1>2, CurLeg DEF Submit
  <2>2. CASE Cur(t) = l /\ VenueAccepts(l)
    <3>1. t \in InHand(l)
      BY <1>2, <2>2 DEF Submit, InHand
    <3>2. venue[l].qty = 0
      BY <3>1 DEF Attempt
    <3>3. venue'[l].qty \in Nat /\ (venue'[l].state = "done" => venue'[l].qty = Lots)
      BY <2>2, SMTT(60) DEF VenueAccepts, LedgerTypeOK
    <3> QED BY <3>2, <3>3, SMTT(60)
  <2>3. CASE ~(Cur(t) = l /\ VenueAccepts(l))
    <3>1. venue'[l] = venue[l]
      BY <1>2, <2>1, <2>3, ZenonT(60) DEF Submit, VenueAccepts, LedgerTypeOK
    <3> QED BY <1>1, <3>1
  <2> QED BY <2>2, <2>3
<1>3. ASSUME NEW k \in Leg, VenueProgress(k)
      PROVE  Grown
  <2>1. CASE k # l \/ venue' = [venue EXCEPT ![k].state = "canceled"]
    <3>1. Still
      BY <1>3, <2>1, SMTT(60) DEF VenueProgress, LedgerTypeOK, VenueOrder
    <3> QED BY <1>1, <3>1
  <2>2. CASE k = l /\ venue' # [venue EXCEPT ![k].state = "canceled"]
    <3>1. venue'[l] = [state |-> IF venue[l].qty + 1 = Lots THEN "done" ELSE "open",
                       qty |-> venue[l].qty + 1]
      BY <1>3, <2>2 DEF VenueProgress, LedgerTypeOK
    <3>2. venue'[l].qty = venue[l].qty + 1 /\ (venue'[l].state = "done" => venue[l].qty + 1 = Lots)
      BY <3>1, SMTT(60)
    <3> QED BY <3>2, SMTT(60)
  <2> QED BY <2>1, <2>2
<1>4. ASSUME NEW t \in Task, CancelOne(t)
      PROVE  Grown
  <2>1. Still
    BY <1>4, LocalFields, SMTT(60) DEF CancelOne, LedgerTypeOK, VenueOrder, HandlerTypeOK
  <2> QED BY <1>1, <2>1
<1>5. ASSUME NEW t \in Task, Recording(t), ~Submit(t), ~CancelOne(t) PROVE Still
  BY <1>5, ZenonT(60) DEF Recording, Create, CreateFails, Persist, Abort, MarkUnknown, MarkUnknownRow,
     FetchFills, ResolveCanonical, ResolvePending
<1>6. ASSUME NEW r \in Replica, Crash(r) PROVE Still
  BY <1>6, ZenonT(60) DEF Crash
<1>7. ASSUME UNCHANGED ledgerVars PROVE Still
  BY <1>7 DEF ledgerVars
<1> HIDE DEF Still, Grown
<1>8. Grown
  BY <1>1, <1>2, <1>3, <1>4, <1>5, <1>6, <1>7, LedgerWriters
<1> QED BY <1>8 DEF Grown

(* Only a result that is applied adds fills, and it adds fetched trades.   *)
LEMMA LedgerFills ==
  ASSUME ExecutionTypeInv, AttemptInv, FillsInv, [Next]_vars, NEW l \in Leg
  PROVE  /\ canonical'[l].fills <= venue'[l].qty
         /\ canonical'[l].state = "filled" => canonical'[l].fills = Lots
<1> HandlerTypeOK /\ UnderWay /\ LedgerTypeOK /\ LegFills(l)
  BY TypeParts DEF ExecutionTypeInv, FillsInv
<1> canonical[l] \in Canonical /\ canonical[l].fills \in 0..Lots
  BY DEF LedgerTypeOK, Canonical
<1>0. venue[l].qty \in 0..Lots /\ venue'[l].qty \in 0..Lots /\ venue'[l].qty >= venue[l].qty
  <2>1. venue' \in [Leg -> VenueOrder]
    BY ExecutionTypeNext, TypeParts DEF ExecutionTypeInv, TypeOK, LedgerTypeOK
  <2> QED BY <2>1, VenueGrows DEF LedgerTypeOK, VenueOrder
<1>1. ASSUME canonical'[l].fills = canonical[l].fills,
             canonical'[l].state = "filled" => canonical[l].state = "filled"
      PROVE  /\ canonical'[l].fills <= venue'[l].qty
             /\ canonical'[l].state = "filled" => canonical'[l].fills = Lots
  BY <1>0, <1>1, SMTT(60) DEF LegFills
<1>2. ASSUME NEW k \in Leg, \/ CreateOrder(k) \/ AbortPreSubmission(k)
                            \/ MarkCanonicalUnknown(k) \/ CancelWorking(k) \/ UNCHANGED canonical
      PROVE  /\ canonical'[l].fills = canonical[l].fills
             /\ canonical'[l].state = "filled" => canonical[l].state = "filled"
  <2>1. CASE CreateOrder(k)
    BY <2>1 DEF CreateOrder, LedgerTypeOK, Canonical
  <2>2. CASE AbortPreSubmission(k)
    BY <2>2 DEF AbortPreSubmission, LedgerTypeOK, Canonical
  <2>3. CASE MarkCanonicalUnknown(k)
    BY <2>3 DEF MarkCanonicalUnknown, LedgerTypeOK, Canonical
  <2>4. CASE CancelWorking(k)
    BY <2>4 DEF CancelWorking, LedgerTypeOK, Canonical
  <2> QED BY <1>2, <2>1, <2>2, <2>3, <2>4
<1>3. ASSUME NEW t \in Task, Recording(t), ~ResolveCanonical(t)
      PROVE  \E k \in Leg : \/ CreateOrder(k) \/ AbortPreSubmission(k)
                            \/ MarkCanonicalUnknown(k) \/ CancelWorking(k) \/ UNCHANGED canonical
  <2>1. Cur(t) \in Leg \/ CancelOne(t)
    <3>1. pc[t] # "idle"
      BY <1>3, ZenonT(60) DEF Recording, CancelOne, Create, CreateFails, Persist, Abort, Submit,
         MarkUnknown, MarkUnknownRow, FetchFills, ResolveCanonical, ResolvePending
    <3> QED BY <3>1, CurLeg
  <2>2. CASE CancelOne(t)
    BY <2>2, LocalFields DEF CancelOne, HandlerTypeOK
  <2>3. ASSUME NEW same \in BOOLEAN, Create(t, same) PROVE CreateOrder(Cur(t)) \/ UNCHANGED canonical
    BY <2>3 DEF Create
  <2>4. CreateFails(t) => CreateOrder(Cur(t)) \/ UNCHANGED canonical
    BY ZenonT(60) DEF CreateFails
  <2>5. Abort(t) => AbortPreSubmission(Cur(t)) \/ UNCHANGED canonical
    BY DEF Abort
  <2>6. MarkUnknown(t) => MarkCanonicalUnknown(Cur(t)) \/ UNCHANGED canonical
    BY DEF MarkUnknown
  <2>7. Persist(t) \/ Submit(t) \/ MarkUnknownRow(t) \/ FetchFills(t) \/ ResolvePending(t)
          => UNCHANGED canonical
    BY DEF Persist, Submit, MarkUnknownRow, FetchFills, ResolvePending
  <2> QED BY <1>3, <2>1, <2>2, <2>3, <2>4, <2>5, <2>6, <2>7, ZenonT(60) DEF Recording
<1>4. ASSUME NEW t \in Task, ResolveCanonical(t)
      PROVE  /\ canonical'[l].fills <= venue'[l].qty
             /\ canonical'[l].state = "filled" => canonical'[l].fills = Lots
  <2>1. Cur(t) \in Leg /\ Carried(t)
    BY <1>4, CurLeg DEF ResolveCanonical, FillsInv
  <2>2. CASE Cur(t) # l \/ UNCHANGED canonical
    <3>1. canonical'[l] = canonical[l]
      BY <1>4, <2>1, <2>2 DEF ResolveCanonical, ApplyBrokerResult, LedgerTypeOK
    <3> QED BY <1>1, <3>1
  <2>3. CASE Cur(t) = l /\ ApplyBrokerResult(l, work[t].res, work[t].fills)
    <3>1. work[t].fills \in 0..Lots /\ work[t].res.status \in BrokerStatus
      BY LocalFields, ResultFields DEF HandlerTypeOK
    <3>2. work[t].fills <= venue[l].qty
      BY <1>0, <2>1, <2>3, <3>1, SMTT(60) DEF Carried
    <3>3. /\ canonical'[l].fills = LargerOf(canonical[l].fills, work[t].fills)
          /\ canonical'[l].state = IF canonical[l].state = "filled" THEN "filled"
                                   ELSE OrderStateOf[work[t].res.status]
      BY <2>3 DEF ApplyBrokerResult, LedgerTypeOK, Canonical
    <3>4. canonical'[l].fills <= venue'[l].qty
      BY <1>0, <3>1, <3>2, <3>3, SMTT(60) DEF LargerOf, LegFills
    <3>5. OrderStateOf[work[t].res.status] = "filled" => work[t].res.status = "FILLED"
      BY <3>1, StateTable, ZenonT(60)
    <3>6. work[t].res.status = "FILLED" => work[t].fills = Lots
      BY <2>1, <2>3, SMTT(60) DEF Carried, ApplyBrokerResult, Applicable
    <3>7. canonical'[l].state = "filled" => canonical'[l].fills = Lots
      BY <3>1, <3>3, <3>5, <3>6, SMTT(60) DEF LargerOf, LegFills
    <3> QED BY <3>4, <3>7
  <2> QED BY <1>4, <2>2, <2>3 DEF ResolveCanonical
<1>5. ASSUME NEW k \in Leg, VenueProgress(k) PROVE UNCHANGED canonical
  BY <1>5 DEF VenueProgress
<1>6. ASSUME NEW r \in Replica, Crash(r) PROVE UNCHANGED canonical
  BY <1>6 DEF Crash
<1>7. ASSUME UNCHANGED ledgerVars PROVE UNCHANGED canonical
  BY <1>7 DEF ledgerVars
<1>8. ASSUME UNCHANGED canonical
      PROVE  /\ canonical'[l].fills <= venue'[l].qty
             /\ canonical'[l].state = "filled" => canonical'[l].fills = Lots
  BY <1>1, <1>8
<1>9. ASSUME NEW t \in Task, Recording(t)
      PROVE  /\ canonical'[l].fills <= venue'[l].qty
             /\ canonical'[l].state = "filled" => canonical'[l].fills = Lots
  BY <1>1, <1>2, <1>3, <1>4, <1>9, ZenonT(60)
<1> QED BY <1>5, <1>6, <1>7, <1>8, <1>9, LedgerWriters

(* A row is marked filled only by a handler that carries the fill.         *)
LEMMA RowFills ==
  ASSUME ExecutionTypeInv, AttemptInv, FillsInv, [Next]_vars, NEW l \in Leg,
         pending'[l].status = "filled"
  PROVE  canonical'[l].fills = Lots
<1> HandlerTypeOK /\ UnderWay /\ LedgerTypeOK /\ LegFills(l)
  BY TypeParts DEF ExecutionTypeInv, FillsInv
<1> pending[l] \in PendingRow
  BY DEF LedgerTypeOK
<1>0. canonical[l].fills = Lots => canonical'[l].fills = Lots
  <2>1. canonical'[l].fills \in 0..Lots
    BY ExecutionTypeNext, TypeParts DEF ExecutionTypeInv, TypeOK, LedgerTypeOK, Canonical
  <2> QED BY <2>1, FillsKeptNext, SMTT(60)
<1>1. ASSUME pending[l].status = "filled" PROVE canonical'[l].fills = Lots
  BY <1>0, <1>1, ZenonT(60) DEF LegFills
<1>2. ASSUME NEW t \in Task, ResolvePending(t) PROVE canonical'[l].fills = Lots
  <2>1. Cur(t) \in Leg /\ Carried(t)
    BY <1>2, CurLeg, ZenonT(60) DEF ResolvePending, FillsInv
  <2>2. CASE Cur(t) = l /\ ResolveRow(l, work[t].res)
    <3>1. work[t].res.status \in BrokerStatus
      BY LocalFields, ResultFields, ZenonT(60) DEF HandlerTypeOK
    <3>2. RowStatusOf[work[t].res.status] = "filled"
      BY <2>2 DEF ResolveRow, LedgerTypeOK
    <3>3. work[t].res.status = "FILLED"
      BY <3>1, <3>2, SMTT(60) DEF RowStatusOf, BrokerStatus
    <3> QED BY <1>0, <1>2, <2>1, <2>2, <3>3, ZenonT(60) DEF Carried, ResolvePending
  <2>3. CASE ~(Cur(t) = l /\ ResolveRow(l, work[t].res))
    <3>1. pending'[l] = pending[l]
      BY <1>2, <2>1, <2>3, ZenonT(60) DEF ResolvePending, ResolveRow, LedgerTypeOK
    <3> QED BY <1>1, <3>1
  <2> QED BY <2>2, <2>3, ZenonT(60)
<1>3. ASSUME NEW t \in Task, Recording(t), ~ResolvePending(t)
      PROVE  pending[l].status = "filled"
  <2>1. CASE CancelOne(t)
    <3>1. PICK k \in Leg : \/ pending' = [pending EXCEPT ![k].status = "cancelled"]
                           \/ UNCHANGED pending
      BY <2>1, LocalFields DEF CancelOne, CancelWorking, HandlerTypeOK
    <3>2. CASE k = l /\ pending' = [pending EXCEPT ![k].status = "cancelled"]
      BY <3>2 DEF LedgerTypeOK, PendingRow
    <3>3. CASE k # l \/ UNCHANGED pending
      BY <3>1, <3>3 DEF LedgerTypeOK
    <3> QED BY <3>1, <3>2, <3>3
  <2>2. CASE Persist(t)
    BY <2>2, SMTT(60) DEF Persist, PersistRow, LedgerTypeOK
  <2>3. CASE MarkUnknownRow(t)
    <3>1. PICK k \in Leg : k = Cur(t)
      BY <2>3, CurLeg, ZenonT(60) DEF MarkUnknownRow
    <3>2. CASE k = l /\ pending' = [pending EXCEPT ![k].status = "submission_unknown"]
      BY <3>2 DEF LedgerTypeOK, PendingRow
    <3>3. CASE ~(k = l /\ pending' = [pending EXCEPT ![k].status = "submission_unknown"])
      BY <2>3, <3>1, <3>3 DEF MarkUnknownRow, MarkRowUnknown, LedgerTypeOK
    <3> QED BY <3>2, <3>3
  <2>4. CASE ~CancelOne(t) /\ ~Persist(t) /\ ~MarkUnknownRow(t)
    <3>1. UNCHANGED pending
      BY <1>3, <2>4, ZenonT(60) DEF Recording, Create, CreateFails, Abort, Submit, MarkUnknown,
         FetchFills, ResolveCanonical
    <3> QED BY <3>1
  <2> QED BY <2>1, <2>2, <2>3, <2>4, ZenonT(60)
<1>4. ASSUME NEW k \in Leg, VenueProgress(k) PROVE pending[l].status = "filled"
  BY <1>4 DEF VenueProgress
<1>5. ASSUME NEW r \in Replica, Crash(r) PROVE pending[l].status = "filled"
  BY <1>5 DEF Crash
<1>6. ASSUME UNCHANGED ledgerVars PROVE pending[l].status = "filled"
  BY <1>6, ZenonT(60) DEF ledgerVars
<1> QED BY <1>1, <1>2, <1>3, <1>4, <1>5, <1>6, LedgerWriters

(* What a handler carries, when it keeps it and when it drops it.          *)
LEMMA CarriedKept ==
  ASSUME ExecutionTypeInv, AttemptInv, FillsInv, [Next]_vars, NEW u \in Task,
         \/ work'[u].fills = 0 /\ work'[u].res.status # "FILLED"
         \/ /\ work'[u].fills = work[u].fills /\ work'[u].res = work[u].res
            /\ Cur(u)' = Cur(u) /\ pc[u] # "idle"
            /\ pc'[u] # "idle" /\ pc'[u] \in {pc[u]} \union (Step \ {"resolve_row"})
         \/ work'[u] = work[u] /\ pc'[u] = pc[u] /\ Cur(u)' = Cur(u)
  PROVE  Carried(u)'
<1> HandlerTypeOK /\ UnderWay /\ LedgerTypeOK /\ Carried(u)
  BY TypeParts, ZenonT(60) DEF ExecutionTypeInv, FillsInv
<1>1. CASE work'[u].fills = 0 /\ work'[u].res.status # "FILLED"
  BY <1>1 DEF Carried
<1>2. CASE /\ work'[u].fills = work[u].fills /\ work'[u].res = work[u].res
           /\ Cur(u)' = Cur(u) /\ pc[u] # "idle"
           /\ pc'[u] # "idle" /\ pc'[u] \in {pc[u]} \union (Step \ {"resolve_row"})
  <2>1. PICK k \in Leg : k = Cur(u)
    BY <1>2, CurLeg, ZenonT(60)
  <2>2. work[u].fills \in 0..Lots /\ venue[k].qty \in 0..Lots /\ canonical[k].fills \in 0..Lots
    BY LocalFields, ZenonT(60) DEF HandlerTypeOK, LedgerTypeOK, VenueOrder, Canonical
  <2>3. venue'[k].qty \in 0..Lots /\ canonical'[k].fills \in 0..Lots
    BY ExecutionTypeNext, TypeParts, ZenonT(60) DEF ExecutionTypeInv, TypeOK, LedgerTypeOK, VenueOrder,
       Canonical
  <2>4. venue'[k].qty >= venue[k].qty /\ canonical'[k].fills >= canonical[k].fills
    BY VenueGrows, FillsKeptNext, ZenonT(60)
  <2>5. work[u].fills # 0 => work[u].fills <= venue'[k].qty
    <3>1. work[u].fills # 0 => work[u].fills <= venue[k].qty
      BY <2>1, ZenonT(60) DEF Carried
    <3> QED BY <2>2, <2>3, <2>4, <3>1, SMTT(60)
  <2>6. ASSUME pc[u] = "resolve_row", work[u].res.status = "FILLED" PROVE canonical'[k].fills = Lots
    <3>1. canonical[k].fills = Lots
      BY <2>1, <2>6, ZenonT(60) DEF Carried
    <3> QED BY <2>2, <2>3, <2>4, <3>1, SMTT(60)
  <2>7. work[u].res.status = "FILLED" => work[u].res.qty = Lots
    BY ZenonT(60) DEF Carried
  <2> QED BY <1>2, <2>1, <2>5, <2>6, <2>7, ZenonT(60) DEF Carried
<1>3. CASE work'[u] = work[u] /\ pc'[u] = pc[u] /\ Cur(u)' = Cur(u)
  <2>1. CASE pc[u] = "idle"
    BY <1>3, <2>1 DEF Carried
  <2>2. CASE pc[u] # "idle"
    BY <1>2, <1>3, <2>2
  <2> QED BY <2>1, <2>2
<1> QED BY <1>1, <1>2, <1>3, ZenonT(60)

(* One step per way a handler changes what it carries.                     *)
LEMMA CarriedStep ==
  ASSUME ExecutionTypeInv, AttemptInv, FillsInv, NEW t \in Task, HandlerStep(t)
  PROVE  Carried(t)'
<1> HandlerTypeOK /\ UnderWay /\ LedgerTypeOK /\ Carried(t) /\ [Next]_vars
  BY TypeParts DEF ExecutionTypeInv, FillsInv, Next
<1> work[t] \in Local /\ work[t].res \in Result /\ work[t].fills \in 0..Lots
  BY LocalFields, ZenonT(60) DEF HandlerTypeOK
<1> DEFINE Fresh == work'[t].fills = 0 /\ work'[t].res.status # "FILLED"
           Keeps(s) == /\ work'[t].fills = work[t].fills /\ work'[t].res = work[t].res
                       /\ UNCHANGED <<job, at>> /\ pc[t] # "idle" /\ pc'[t] = s
<1>1. Fresh => Carried(t)'
  BY CarriedKept
<1>2. ASSUME NEW s \in Step \ {"idle", "resolve_row"}, Keeps(s) PROVE Carried(t)'
  <2>1. Cur(t)' = Cur(t)
    BY <1>2, ZenonT(60) DEF Cur
  <2> QED BY <1>2, <2>1, CarriedKept
<1>3. /\ \A res : NextLeg(t, res) => Fresh
      /\ Raise(t) => Fresh
      /\ \A a : Answer(t, a) => Fresh
      /\ KeepForRecovery(t) => Fresh
  <2>2. ASSUME NEW res, NextLeg(t, res) PROVE Fresh
    <3>1. PICK f, d : work' = [work EXCEPT ![t] = [NoWork EXCEPT !.filled = f, !.doubt = d]]
      BY <2>2, ZenonT(60) DEF NextLeg
    <3> QED BY <3>1 DEF NoWork, RejectedResult, HandlerTypeOK
  <2>3. Raise(t) => Fresh
    BY SMTT(60) DEF Raise, NoWork, RejectedResult, HandlerTypeOK
  <2>4. ASSUME NEW a, Answer(t, a) PROVE Fresh
    BY <2>4 DEF Answer, NoWork, RejectedResult, HandlerTypeOK
  <2>5. KeepForRecovery(t) => Fresh
    BY <2>2, ZenonT(60) DEF KeepForRecovery
  <2> HIDE DEF Fresh
  <2> QED BY <2>2, <2>3, <2>4, <2>5
<1>4. CASE EnterBusy(t) \/ LeaveUnlock(t)
  BY <1>1, <1>3, <1>4, ZenonT(60) DEF EnterBusy, LeaveUnlock
<1>5. CASE EnterLock(t) \/ LeaveRow(t)
  BY <1>2, <1>5, ZenonT(60) DEF EnterLock, LeaveRow, handlerVars, Step
<1>6. CASE EnterClaim(t) \/ EnterFails(t) \/ Claim(t)
  <2>1. Keeps("claim") \/ Keeps("leave") \/ Keeps("gate")
    BY <1>6, SMTT(60) DEF EnterClaim, EnterFails, Claim, Goto, unmoved, HandlerTypeOK, Local
  <2> QED BY <1>2, <2>1 DEF Step
<1>7. CASE Gate(t)
  <2>1. Keeps("finalize") \/ Keeps("cancel") \/ Keeps("create")
    BY <1>7, SMTT(60) DEF Gate, Goto, unmoved, HandlerTypeOK, Local
  <2> QED BY <1>2, <2>1 DEF Step
<1>8. CASE CancelOne(t)
  <2>1. Keeps("cancel")
    BY <1>8, SMTT(60) DEF CancelOne, unmoved, HandlerTypeOK, Local
  <2> QED BY <1>2, <2>1, ZenonT(60) DEF Step
<1>9. CASE CancelDone(t) \/ Persist(t) \/ Submit(t) \/ Finalize(t)
  <2>1. Keeps("create") \/ Keeps("submit") \/ Keeps("abort") \/ Keeps("reply") \/ Keeps("leave")
    BY <1>9, ZenonT(60) DEF CancelDone, Persist, Submit, Finalize, Goto, unmoved, HandlerTypeOK
  <2> QED BY <1>2, <2>1 DEF Step
<1>10. ASSUME NEW same \in BOOLEAN, Create(t, same) PROVE Carried(t)'
  <2>1. PICK k \in Leg : k = Cur(t)
    BY <1>10, CurLeg DEF Create
  <2>2. canonical[k] \in Canonical /\ LegFills(k)
    BY DEF LedgerTypeOK, FillsInv
  <2>3. CASE Goto(t, "persist") /\ UNCHANGED <<at, work>>
    <3>1. Keeps("persist")
      BY <1>10, <2>3 DEF Create, Goto, unmoved, HandlerTypeOK
    <3> QED BY <1>2, <3>1 DEF Step
  <2>4. CASE /\ work' = [work EXCEPT ![t].res = DurableResult(k), ![t].fills = canonical[k].fills,
                                     ![t].replay = TRUE]
             /\ CreateOutcome(k, same) = "reused"
             /\ Goto(t, "resolve") /\ UNCHANGED at
    <3>1. work'[t].res = DurableResult(k) /\ work'[t].fills = canonical[k].fills
      BY <2>4 DEF HandlerTypeOK, Local
    <3>2. pc'[t] = "resolve" /\ Cur(t)' = k /\ UNCHANGED venue
      BY <1>10, <2>1, <2>4 DEF Create, Goto, HandlerTypeOK, Cur, unmoved
    <3>3. canonical[k].fills <= venue[k].qty
      BY <2>2 DEF LegFills
    <3>4. DurableStatusOf[canonical[k].state] = "FILLED" => canonical[k].state = "filled"
      BY <2>2, <2>4, SMTT(60) DEF CreateOutcome, DurableStatusOf, Canonical, OrderState
    <3>5. DurableResult(k).status = "FILLED" => DurableResult(k).qty = Lots
      BY <2>2, <3>4 DEF DurableResult, LegFills
    <3> QED BY <3>1, <3>2, <3>3, <3>5, ZenonT(60) DEF Carried
  <2> QED BY <1>1, <1>3, <1>10, <2>1, <2>3, <2>4 DEF Create
<1>11. CASE CreateFails(t) \/ Abort(t) \/ MarkUnknownRow(t) \/ ResolvePending(t)
  BY <1>1, <1>3, <1>11, ZenonT(60) DEF CreateFails, Abort, MarkUnknownRow, ResolvePending
<1>12. CASE Reply(t)
  <2>1. PICK k \in Leg : k = Cur(t)
    BY <1>12, CurLeg DEF Reply
  <2>2. CASE Goto(t, "unknown") /\ UNCHANGED work
    <3>1. Keeps("unknown")
      BY <1>12, <2>2 DEF Reply, Goto, unmoved, HandlerTypeOK
    <3> QED BY <1>2, <3>1, ZenonT(60) DEF Step
  <2>3. ASSUME NEW res, res.status = "FILLED" => res.qty = Lots,
               work' = [work EXCEPT ![t].res = res], Goto(t, "fills")
        PROVE  Carried(t)'
    <3>1. work'[t].res = res /\ work'[t].fills = work[t].fills /\ pc'[t] = "fills"
      BY <2>3 DEF Goto, HandlerTypeOK, Local
    <3>2. Cur(t)' = Cur(t) /\ UNCHANGED venue
      BY <1>12 DEF Reply, Cur, unmoved, ledgerVars
    <3>3. work[t].fills # 0 => work[t].fills <= venue[Cur(t)].qty
      BY DEF Carried
    <3>4. venue[Cur(t)]' = venue[Cur(t)]
      BY <3>2
    <3> QED BY <2>3, <3>1, <3>3, <3>4 DEF Carried
  <2>4. VenueResult(k).status = "FILLED" => VenueResult(k).qty = Lots
    <3>1. LegFills(k)
      BY DEF FillsInv
    <3> QED BY <3>1 DEF VenueResult, LegFills
  <2>5. RejectedResult.status # "FILLED" /\ [RejectedResult EXCEPT !.status = "PENDING"].status # "FILLED"
    BY DEF RejectedResult
  <2> QED BY <1>12, <2>1, <2>2, <2>3, <2>4, <2>5, ZenonT(60) DEF Reply
<1>13. CASE MarkUnknown(t)
  <2>1. Keeps("unknown_row") \/ Raise(t)
    BY <1>13 DEF MarkUnknown, Goto, unmoved, HandlerTypeOK
  <2> QED BY <1>1, <1>2, <1>3, <2>1, ZenonT(60) DEF Step
<1>14. CASE FetchFills(t)
  <2>1. CASE work' = work /\ Goto(t, "resolve") /\ UNCHANGED at
    <3>1. Keeps("resolve")
      BY <1>14, <2>1 DEF FetchFills, Goto, unmoved, HandlerTypeOK
    <3> QED BY <1>2, <3>1, ZenonT(60) DEF Step
  <2>2. CASE work' = [work EXCEPT ![t].fills = venue[Cur(t)].qty] /\ Goto(t, "resolve") /\ UNCHANGED at
    <3>1. PICK k \in Leg : k = Cur(t)
      BY <1>14, CurLeg DEF FetchFills
    <3>2. /\ work'[t].res = work[t].res /\ work'[t].fills = venue[k].qty
          /\ pc'[t] = "resolve" /\ Cur(t)' = k /\ UNCHANGED venue
      BY <1>14, <2>2, <3>1 DEF FetchFills, Goto, unmoved, HandlerTypeOK, Local, Cur
    <3>3. venue[k].qty <= venue[k].qty
      BY SMTT(60) DEF LedgerTypeOK, VenueOrder
    <3> QED BY <3>2, <3>3 DEF Carried
  <2> QED BY <1>1, <1>3, <1>14, <2>1, <2>2 DEF FetchFills
<1>15. CASE ResolveCanonical(t)
  <2>1. CASE /\ ApplyBrokerResult(Cur(t), work[t].res, work[t].fills)
             /\ Goto(t, "resolve_row") /\ UNCHANGED <<at, work>>
    <3>1. PICK k \in Leg : k = Cur(t)
      BY <1>15, CurLeg, ZenonT(60) DEF ResolveCanonical
    <3>2. Cur(t)' = k /\ UNCHANGED venue /\ pc[t] = "resolve" /\ pc'[t] = "resolve_row"
      BY <1>15, <2>1, <3>1 DEF ResolveCanonical, Goto, unmoved, HandlerTypeOK, Cur
    <3>3. canonical[k] \in Canonical /\ canonical[k].fills \in 0..Lots
      BY DEF LedgerTypeOK, Canonical
    <3>4. canonical'[k].fills = LargerOf(canonical[k].fills, work[t].fills)
      BY <2>1, <3>1, SMTT(60) DEF ApplyBrokerResult, LedgerTypeOK, Canonical
    <3>5. work[t].res.status = "FILLED" => work[t].fills = Lots
      BY <2>1, SMTT(60) DEF Carried, ApplyBrokerResult, Applicable
    <3>6. work[t].res.status = "FILLED" => canonical'[k].fills = Lots
      BY <3>3, <3>4, <3>5, SMTT(60) DEF LargerOf
    <3>7. work[t].fills # 0 => work[t].fills <= venue[k].qty
      BY <3>1 DEF Carried
    <3>8. work[t].res.status = "FILLED" => work[t].res.qty = Lots
      BY DEF Carried
    <3> QED BY <2>1, <3>2, <3>6, <3>7, <3>8, ZenonT(60) DEF Carried
  <2> QED BY <1>1, <1>3, <1>15, <2>1, ZenonT(60) DEF ResolveCanonical
<1>16. CASE Aggregate(t)
  <2>1. Keeps("finalize") \/ Raise(t)
    BY <1>16, SMTT(60) DEF Aggregate, Goto, unmoved, HandlerTypeOK, Local
  <2> QED BY <1>1, <1>2, <1>3, <2>1, ZenonT(60) DEF Step
<1> HIDE DEF Fresh, Keeps
<1> QED BY <1>4, <1>5, <1>6, <1>7, <1>8, <1>9, <1>10, <1>11, <1>12, <1>13, <1>14, <1>15,
           <1>16, ZenonT(60) DEF HandlerStep

LEMMA FillsNext ==
  ASSUME ExecutionTypeInv, AttemptInv, FillsInv, [Next]_vars
  PROVE  FillsInv'
<1> HandlerTypeOK
  BY TypeParts DEF ExecutionTypeInv
<1>1. ASSUME NEW l \in Leg PROVE LegFills(l)'
  BY VenueGrows, LedgerFills, RowFills DEF LegFills
<1>2. ASSUME NEW t \in Task, HandlerStep(t), NEW u \in Task PROVE Carried(u)'
  <2>1. CASE u = t
    BY <1>2, <2>1, CarriedStep
  <2>2. CASE u # t
    <3>1. pc'[u] = pc[u] /\ job'[u] = job[u] /\ at'[u] = at[u] /\ work'[u] = work[u]
      BY <1>2, <2>2, OthersStay, ZenonT(60)
    <3>2. Cur(u)' = Cur(u)
      BY <3>1 DEF Cur
    <3> QED BY <3>1, <3>2, CarriedKept, ZenonT(60)
  <2> QED BY <2>1, <2>2
<1>3. ASSUME NEW t \in Task, NEW c \in Command, Deliver(t, c), NEW u \in Task PROVE Carried(u)'
  <2>1. \/ work'[u].fills = 0 /\ work'[u].res.status # "FILLED"
        \/ work'[u] = work[u] /\ pc'[u] = pc[u] /\ Cur(u)' = Cur(u)
    BY <1>3 DEF Deliver, Goto, HandlerTypeOK, Cur, NoWork, RejectedResult
  <2> QED BY <2>1, CarriedKept
<1>4. ASSUME NEW r \in Replica, Crash(r), NEW u \in Task PROVE Carried(u)'
  <2>1. \/ work'[u].fills = 0 /\ work'[u].res.status # "FILLED"
        \/ work'[u] = work[u] /\ pc'[u] = pc[u] /\ Cur(u)' = Cur(u)
    BY <1>4, ZenonT(60) DEF Crash, Cur, NoWork, RejectedResult
  <2> QED BY <2>1, CarriedKept
<1>5. ASSUME Environment \/ UNCHANGED vars, NEW u \in Task PROVE Carried(u)'
  <2>1. UNCHANGED handlerVars
    BY <1>5 DEF Environment, vars
  <2>2. work'[u] = work[u] /\ pc'[u] = pc[u] /\ Cur(u)' = Cur(u)
    BY <2>1 DEF handlerVars, Cur
  <2> QED BY <2>2, CarriedKept
<1>6. ASSUME NEW u \in Task PROVE Carried(u)'
  BY <1>2, <1>3, <1>4, <1>5, <1>6 DEF Next
<1> QED BY <1>1, <1>6 DEF FillsInv

LEMMA FillsInit == Init => FillsInv
<1> SUFFICES ASSUME Init PROVE FillsInv
  OBVIOUS
<1>1. ASSUME NEW l \in Leg PROVE LegFills(l)
  BY SMTT(60) DEF Init, LedgerInit, LegFills
<1>2. ASSUME NEW t \in Task PROVE Carried(t)
  BY ZenonT(60) DEF Init, NoWork, RejectedResult, Carried
<1> QED BY <1>1, <1>2 DEF FillsInv

(* The recovery row never claims a fill the execution ledger does not      *)
(* have, and the ledger never has a fill the venue did not make, however   *)
(* an adapter reports a lost reply and wherever a replica dies.            *)
THEOREM LedgersAgree == Spec => []LedgerBetweenRowAndVenue
<1>1. ExecutionTypeInv /\ AttemptInv /\ FillsInv /\ [Next]_vars
        => ExecutionTypeInv' /\ AttemptInv' /\ FillsInv'
  BY ExecutionTypeNext, AttemptNext, FillsNext
<1>2. FillsInv => LedgerBetweenRowAndVenue
  BY DEF FillsInv, LegFills, LedgerBetweenRowAndVenue
<1> QED BY <1>1, <1>2, AttemptInit, ExecutionTypeInit, FillsInit, PTL DEF Spec
==============================================================================
