------------------------- MODULE ExecutionTypeProofs -------------------------
(***************************************************************************)
(* The safety of AccountExecutionSerializer for any number of replicas,    *)
(* tasks, holds, dropped sessions and crashes; and, of command execution,  *)
(* type correctness, which action writes which table, and that the         *)
(* handlers use the serializer as AccountSerializer specifies it: the      *)
(* ground SignalExecutionProofs and ExecutionLedgerProofs stand on.        *)
(***************************************************************************)
EXTENDS SignalExecution, TLAPS

(* A leaf that names no prover is for Zenon, which does most of them at    *)
(* once, and for SMT where Zenon gives up.                                 *)
USE ZenonT(30), SMTT(60)

USE SerializerAssumption

LEMMA SerializerTypeNext ==
  SerializerTypeOK /\ [SerializerNext]_serializerVars => SerializerTypeOK'
<1> SUFFICES ASSUME SerializerTypeOK, [SerializerNext]_serializerVars
             PROVE  SerializerTypeOK'
  OBVIOUS
<1> USE DEF SerializerTypeOK, Phase, Ending, GenerationRow
<1>1. ASSUME NEW t \in Task, TryLock(t) PROVE SerializerTypeOK'
  BY <1>1 DEF TryLock
<1>2. ASSUME NEW t \in Task, ClaimGeneration(t) PROVE SerializerTypeOK'
  <2>1. genRow' \in GenerationRow /\ lease' \in [Task -> Nat]
    BY <1>2, SMTT(60) DEF ClaimGeneration, NextGeneration
  <2>2. peers' \in [Task -> SUBSET Nat]
    BY <1>2, SMTT(60) DEF ClaimGeneration, NextGeneration, Holders
  <2> QED BY <1>2, <2>1, <2>2 DEF ClaimGeneration
<1>3. ASSUME NEW t \in Task, ClaimFails(t) PROVE SerializerTypeOK'
  <2>1. genRow' \in GenerationRow
    BY <1>3, SMTT(60) DEF ClaimFails, NextGeneration
  <2> QED BY <1>3, <2>1 DEF ClaimFails
<1>4. ASSUME NEW t \in Task, NEW b \in BOOLEAN, ReleaseGeneration(t, b)
      PROVE  SerializerTypeOK'
  <2>1. genRow' \in GenerationRow /\ ended' \in [Task -> Ending]
    BY <1>4, SMTT(60) DEF ReleaseGeneration
  <2> QED BY <1>4, <2>1 DEF ReleaseGeneration
<1>5. ASSUME NEW t \in Task, Unlock(t) PROVE SerializerTypeOK'
  BY <1>5 DEF Unlock
<1>6. ASSUME NEW t \in Task, LoseSession(t) PROVE SerializerTypeOK'
  BY <1>6, SMTT(60) DEF LoseSession
<1>7. ASSUME NEW r \in Replica, CrashReplica(r) PROVE SerializerTypeOK'
  <2>1. phase' \in [Task -> Phase] /\ lease' \in [Task -> Nat]
    BY <1>7 DEF CrashReplica
  <2>2. connected' \in [Task -> BOOLEAN]
    BY <1>7 DEF CrashReplica
  <2>3. ended' \in [Task -> Ending] /\ peers' \in [Task -> SUBSET Nat]
    BY <1>7 DEF CrashReplica
  <2>4. local' \in [Replica -> Task \union {NoTask}] /\ advisory' \in Task \union {NoTask}
    BY <1>7 DEF CrashReplica
  <2>5. genRow' \in GenerationRow /\ losses' \in Nat /\ crashes' \in Nat
    BY <1>7, SMTT(60) DEF CrashReplica
  <2> QED BY <2>1, <2>2, <2>3, <2>4, <2>5
<1>8. CASE UNCHANGED serializerVars
  BY <1>8 DEF serializerVars
<1> QED BY <1>1, <1>2, <1>3, <1>4, <1>5, <1>6, <1>7, <1>8, SMTT(60)
        DEF SerializerNext, HoldStep, Leave

-----------------------------------------------------------------------------
(* The strengthening.  A live lock session is the one that owns the         *)
(* advisory lock; leases never run ahead of the row and no two are equal;  *)
(* a task in its body has never seen its own generation claimed again.     *)
SessionOwnsLock == \A t \in Task : connected[t] => advisory = t

LeasesNumbered ==
  \A t \in Task : /\ lease[t] <= genRow.generation
                  /\ phase[t] = "held" => lease[t] # 0
                  /\ \A u \in Task \ {t} : lease[t] = lease[u] => lease[t] = 0

PeersNumbered ==
  \A t \in Task : phase[t] = "held" =>
    \A g \in peers[t] : g # lease[t] /\ g <= genRow.generation

CleanIsLatest ==
  \A t \in Task : phase[t] = "released" /\ ended[t] = "clean" =>
    \A g \in peers[t] : g < lease[t]

SerializerInv ==
  /\ SerializerTypeOK
  /\ SessionOwnsLock
  /\ LeasesNumbered
  /\ PeersNumbered
  /\ CleanIsLatest

LEMMA SerializerInvInit == SerializerInit => SerializerInv
  BY SMTT(60) DEF SerializerInit, SerializerInv, SerializerTypeOK, SessionOwnsLock,
     LeasesNumbered, PeersNumbered, CleanIsLatest, Phase, Ending, GenerationRow

LEMMA SessionOwnsLockNext ==
  SerializerTypeOK /\ SessionOwnsLock /\ [SerializerNext]_serializerVars => SessionOwnsLock'
<1> SUFFICES ASSUME SerializerTypeOK, SessionOwnsLock, [SerializerNext]_serializerVars
             PROVE  SessionOwnsLock'
  OBVIOUS
<1> USE DEF SerializerTypeOK, SessionOwnsLock
<1>1. ASSUME NEW t \in Task, TryLock(t) PROVE SessionOwnsLock'
  BY <1>1 DEF TryLock, CanLock
<1>2. ASSUME NEW t \in Task, Unlock(t) \/ LoseSession(t) PROVE SessionOwnsLock'
  BY <1>2 DEF Unlock, LoseSession
<1>3. ASSUME NEW r \in Replica, CrashReplica(r) PROVE SessionOwnsLock'
  BY <1>3 DEF CrashReplica, Residents
<1>4. ASSUME UNCHANGED <<connected, advisory>> PROVE SessionOwnsLock'
  BY <1>4
<1> QED BY <1>1, <1>2, <1>3, <1>4
        DEF SerializerNext, HoldStep, Leave, ClaimGeneration, ClaimFails,
            ReleaseGeneration, serializerVars

(* What a step does to the numbers of a task that does not claim: it keeps *)
(* its lease and its place in the body, or it leaves the body.             *)
LEMMA NumbersNext ==
  SerializerInv /\ [SerializerNext]_serializerVars
    => LeasesNumbered' /\ PeersNumbered' /\ CleanIsLatest'
<1> SUFFICES ASSUME SerializerInv, [SerializerNext]_serializerVars
             PROVE  LeasesNumbered' /\ PeersNumbered' /\ CleanIsLatest'
  OBVIOUS
<1> USE DEF SerializerInv, SerializerTypeOK, GenerationRow
<1> DEFINE Goal == LeasesNumbered' /\ PeersNumbered' /\ CleanIsLatest'
<1> USE DEF LeasesNumbered, PeersNumbered, CleanIsLatest
<1>1. ASSUME NEW t \in Task, TryLock(t) PROVE Goal
  BY <1>1, SMTT(60) DEF TryLock
<1>2. ASSUME NEW t \in Task, ClaimGeneration(t) PROVE Goal
  <2>1. /\ genRow'.generation = genRow.generation + 1
        /\ lease' = [lease EXCEPT ![t] = genRow.generation + 1]
        /\ phase' = [phase EXCEPT ![t] = "held"]
        /\ ended' = ended
    BY <1>2 DEF ClaimGeneration, NextGeneration
  <2>2. LeasesNumbered'
    BY <2>1, SMTT(60)
  <2>3. PeersNumbered'
    <3> SUFFICES ASSUME NEW u \in Task, phase'[u] = "held", NEW g \in peers'[u]
                 PROVE  g # lease'[u] /\ g <= genRow'.generation
      OBVIOUS
    <3>1. CASE u = t
      <4>1. peers'[t] = {lease[v] : v \in Holders}
        BY <1>2 DEF ClaimGeneration
      <4>2. PICK v \in Task : g = lease[v]
        BY <3>1, <4>1, SMTT(60) DEF Holders
      <4> QED BY <2>1, <3>1, <4>2, SMTT(60)
    <3>2. CASE u # t
      <4>1. u \in Holders
        BY <2>1, <3>2, SMTT(60) DEF Holders
      <4>2. peers'[u] = peers[u] \union {genRow.generation + 1}
        BY <1>2, <3>2, <4>1 DEF ClaimGeneration, NextGeneration
      <4>3. phase[u] = "held" /\ lease'[u] = lease[u]
        BY <2>1, <3>2, <4>1, SMTT(60) DEF Holders
      <4> QED BY <2>1, <4>2, <4>3, SMTT(60)
    <3> QED BY <3>1, <3>2
  <2>4. CleanIsLatest'
    <3> SUFFICES ASSUME NEW u \in Task, phase'[u] = "released", ended'[u] = "clean"
                 PROVE  \A g \in peers'[u] : g < lease'[u]
      OBVIOUS
    <3>1. u # t /\ phase[u] = "released" /\ lease'[u] = lease[u]
      BY <2>1
    <3>2. peers'[u] = peers[u]
      BY <1>2, <3>1 DEF ClaimGeneration, Holders
    <3> QED BY <2>1, <3>1, <3>2
  <2> QED BY <2>2, <2>3, <2>4
<1>3. ASSUME NEW t \in Task, ClaimFails(t) PROVE Goal
  <2>1. genRow'.generation \in {genRow.generation, genRow.generation + 1}
    BY <1>3, SMTT(60) DEF ClaimFails, NextGeneration
  <2> QED BY <1>3, <2>1, SMTT(60) DEF ClaimFails
<1>4. ASSUME NEW t \in Task, NEW b \in BOOLEAN, ReleaseGeneration(t, b) PROVE Goal
  <2>1. genRow'.generation = genRow.generation /\ lease' = lease /\ peers' = peers
    BY <1>4 DEF ReleaseGeneration
  <2>2. phase[t] = "held" /\ phase' = [phase EXCEPT ![t] = "released"]
    BY <1>4 DEF ReleaseGeneration
  <2>3. LeasesNumbered' /\ PeersNumbered'
    BY <2>1, <2>2
  <2>4. ASSUME NEW u \in Task \ {t} PROVE ended'[u] = ended[u]
    BY <1>4, SMTT(60) DEF ReleaseGeneration
  <2>5. ended'[t] = "clean" => genRow.generation = lease[t]
    BY <1>4, SMTT(60) DEF ReleaseGeneration, OwnsRow
  <2>6. ended'[t] = "clean" => \A g \in peers[t] : g < lease[t]
    BY <2>2, <2>5, SMTT(60)
  <2>7. CleanIsLatest'
    BY <2>1, <2>2, <2>4, <2>6
  <2> QED BY <2>3, <2>7
<1>5. ASSUME NEW t \in Task, Unlock(t) PROVE Goal
  BY <1>5, SMTT(60) DEF Unlock
<1>6. ASSUME NEW t \in Task, LoseSession(t) PROVE Goal
  BY <1>6 DEF LoseSession
<1>7. ASSUME NEW r \in Replica, CrashReplica(r) PROVE Goal
  BY <1>7, SMTT(60) DEF CrashReplica, Residents
<1>8. CASE UNCHANGED serializerVars
  BY <1>8 DEF serializerVars
<1> QED BY <1>1, <1>2, <1>3, <1>4, <1>5, <1>6, <1>7, <1>8, SMTT(60)
        DEF SerializerNext, HoldStep, Leave

LEMMA SerializerInvariant == SerializerSpec => []SerializerInv
<1>1. SerializerInv /\ [SerializerNext]_serializerVars => SerializerInv'
  BY SerializerTypeNext, SessionOwnsLockNext, NumbersNext DEF SerializerInv
<1> QED BY <1>1, SerializerInvInit, PTL DEF SerializerSpec

-----------------------------------------------------------------------------
(* Two bodies overlap only after the server dropped the lock session of    *)
(* one of them, and never under the same generation.                       *)
THEOREM WritersExcluded == SerializerSpec => []OverlapOnlyAfterLoss
<1>1. SerializerInv => OverlapOnlyAfterLoss
  BY DEF SerializerInv, SerializerTypeOK, SessionOwnsLock, LeasesNumbered,
     OverlapOnlyAfterLoss, Holders
<1> QED BY <1>1, SerializerInvariant, PTL

(* A writer that was overtaken inside its body never leaves hold() as if   *)
(* nothing had happened.                                                   *)
THEOREM OvertakenWriterTold == SerializerSpec => []OvertakenIsTold
<1>1. SerializerInv => OvertakenIsTold
  BY DEF SerializerInv, CleanIsLatest, OvertakenIsTold, EndingOf
<1> QED BY <1>1, SerializerInvariant, PTL

(* Only the holder the row names clears its ownership: a late release      *)
(* cannot take the account from the writer that replaced it.               *)
THEOREM LateReleaseHarmless == SerializerSpec => ReleaseOnlyOwn
<1> DEFINE Own == genRow.active_owner # 0 /\ genRow'.active_owner = 0
                    => \E t \in Holders : lease[t] = genRow.active_owner
                                          /\ phase'[t] = "released"
<1>1. SerializerTypeOK /\ [SerializerNext]_serializerVars => [Own]_serializerVars
  <2> SUFFICES ASSUME SerializerTypeOK, SerializerNext,
                      genRow.active_owner # 0, genRow'.active_owner = 0
               PROVE  \E t \in Holders : lease[t] = genRow.active_owner
                                         /\ phase'[t] = "released"
    OBVIOUS
  <2> USE DEF SerializerTypeOK, GenerationRow
  <2>1. ASSUME NEW t \in Task, ClaimGeneration(t) \/ ClaimFails(t) PROVE FALSE
    BY <2>1, SMTT(60) DEF ClaimGeneration, ClaimFails, NextGeneration
  <2>2. ASSUME NEW t \in Task, NEW b \in BOOLEAN, ReleaseGeneration(t, b)
        PROVE  t \in Holders /\ lease[t] = genRow.active_owner /\ phase'[t] = "released"
    BY <2>2 DEF ReleaseGeneration, OwnsRow, Holders
  <2>3. ASSUME genRow' = genRow PROVE FALSE
    BY <2>3
  <2>4. \/ \E t \in Task : ClaimGeneration(t) \/ ClaimFails(t)
        \/ \E t \in Task : \E b \in BOOLEAN : ReleaseGeneration(t, b)
        \/ genRow' = genRow
    <3>1. ASSUME NEW t \in Task, TryLock(t) \/ Unlock(t) \/ LoseSession(t)
          PROVE  genRow' = genRow
      BY <3>1 DEF TryLock, Unlock, LoseSession
    <3>2. ASSUME NEW r \in Replica, CrashReplica(r) PROVE genRow' = genRow
      BY <3>2 DEF CrashReplica
    <3> QED BY <3>1, <3>2 DEF SerializerNext, HoldStep, Leave
  <2> QED BY <2>1, <2>2, <2>3, <2>4, SMTT(60)
<1>2. SerializerInv => SerializerTypeOK
  BY DEF SerializerInv
<1> QED BY <1>1, <1>2, SerializerInvariant, PTL DEF SerializerSpec, ReleaseOnlyOwn

-----------------------------------------------------------------------------
USE CommandAssumption, DedupAssumption, LedgerAssumption, ExecutionAssumption

-----------------------------------------------------------------------------
(* Who writes what *)

Recording(t) ==
  \/ CancelOne(t) \/ (\E same \in BOOLEAN : Create(t, same)) \/ CreateFails(t)
  \/ Persist(t) \/ Abort(t) \/ Submit(t) \/ MarkUnknown(t) \/ MarkUnknownRow(t)
  \/ FetchFills(t) \/ ResolveCanonical(t) \/ ResolvePending(t)

LEMMA LedgerWriters ==
  ASSUME [Next]_vars
  PROVE  \/ \E t \in Task : Recording(t)
         \/ \E l \in Leg : VenueProgress(l)
         \/ \E r \in Replica : Crash(r)
         \/ UNCHANGED ledgerVars
<1>1. ASSUME NEW t \in Task, HandlerStep(t) PROVE Recording(t) \/ UNCHANGED ledgerVars
  <2>1. EnterBusy(t) \/ EnterLock(t) \/ EnterClaim(t) \/ EnterFails(t) => UNCHANGED ledgerVars
    BY DEF EnterBusy, EnterLock, EnterClaim, EnterFails
  <2>2. Claim(t) \/ Gate(t) \/ CancelDone(t) \/ Reply(t) => UNCHANGED ledgerVars
    BY DEF Claim, Gate, CancelDone, Reply
  <2>3. Aggregate(t) \/ Finalize(t) \/ LeaveRow(t) \/ LeaveUnlock(t) => UNCHANGED ledgerVars
    BY DEF Aggregate, Finalize, LeaveRow, LeaveUnlock
  <2> QED BY <1>1, <2>1, <2>2, <2>3 DEF HandlerStep, Recording
<1>2. ASSUME NEW t \in Task, NEW c \in Command, Deliver(t, c) PROVE UNCHANGED ledgerVars
  BY <1>2 DEF Deliver
<1>3. ASSUME Environment PROVE (\E l \in Leg : VenueProgress(l)) \/ UNCHANGED ledgerVars
  BY <1>3 DEF Environment
<1>4. ASSUME UNCHANGED vars PROVE UNCHANGED ledgerVars
  BY <1>4 DEF vars
<1> QED BY <1>1, <1>2, <1>3, <1>4 DEF Next

LEMMA DedupWriters ==
  ASSUME [Next]_vars
  PROVE  \/ \E t \in Task : Claim(t) \/ Finalize(t)
         \/ \E r \in Replica, c \in Command : MemoryExpires(r, c)
         \/ \E c \in Command : GoesStale(c)
         \/ \E r \in Replica : Crash(r)
         \/ UNCHANGED dedupVars
<1>1. ASSUME NEW t \in Task, HandlerStep(t)
      PROVE  Claim(t) \/ Finalize(t) \/ UNCHANGED dedupVars
  <2>1. EnterBusy(t) \/ EnterLock(t) \/ EnterClaim(t) \/ EnterFails(t) => UNCHANGED dedupVars
    BY DEF EnterBusy, EnterLock, EnterClaim, EnterFails
  <2>2. Gate(t) \/ CancelOne(t) \/ CancelDone(t) \/ Persist(t) => UNCHANGED dedupVars
    BY DEF Gate, CancelOne, CancelDone, Persist
  <2>3. (\E same \in BOOLEAN : Create(t, same)) \/ CreateFails(t) \/ Abort(t) => UNCHANGED dedupVars
    BY ZenonT(60) DEF Create, CreateFails, Abort
  <2>4. Submit(t) \/ Reply(t) \/ MarkUnknown(t) \/ MarkUnknownRow(t) => UNCHANGED dedupVars
    BY DEF Submit, Reply, MarkUnknown, MarkUnknownRow
  <2>5. FetchFills(t) \/ ResolveCanonical(t) \/ ResolvePending(t) => UNCHANGED dedupVars
    BY DEF FetchFills, ResolveCanonical, ResolvePending
  <2>6. Aggregate(t) \/ LeaveRow(t) \/ LeaveUnlock(t) => UNCHANGED dedupVars
    BY DEF Aggregate, LeaveRow, LeaveUnlock
  <2> QED BY <1>1, <2>1, <2>2, <2>3, <2>4, <2>5, <2>6 DEF HandlerStep
<1>2. ASSUME NEW t \in Task, NEW c \in Command, Deliver(t, c) PROVE UNCHANGED dedupVars
  BY <1>2 DEF Deliver
<1>3. ASSUME Environment
      PROVE  \/ \E r \in Replica, c \in Command : MemoryExpires(r, c)
             \/ \E c \in Command : GoesStale(c)
             \/ UNCHANGED dedupVars
  BY <1>3 DEF Environment
<1>4. ASSUME UNCHANGED vars PROVE UNCHANGED dedupVars
  BY <1>4 DEF vars
<1> QED BY <1>1, <1>2, <1>3, <1>4 DEF Next

(* The handlers use the serializer as AccountSerializer specifies it.      *)
LEMMA SerializerStep ==
  ASSUME [Next]_vars PROVE [SerializerNext]_serializerVars
<1> USE DEF SerializerNext, HoldStep
<1>1. ASSUME NEW t \in Task, HandlerStep(t) PROVE [SerializerNext]_serializerVars
  <2>1. EnterBusy(t) \/ Claim(t) \/ Gate(t) \/ CancelOne(t) \/ CancelDone(t)
          => UNCHANGED serializerVars
    BY DEF EnterBusy, Claim, Gate, CancelOne, CancelDone
  <2>2. EnterLock(t) => TryLock(t)
    BY DEF EnterLock
  <2>3. EnterClaim(t) \/ EnterFails(t) => ClaimGeneration(t) \/ ClaimFails(t)
    BY DEF EnterClaim, EnterFails
  <2>4. (\E same \in BOOLEAN : Create(t, same)) \/ CreateFails(t) \/ Abort(t) \/ Persist(t)
          => UNCHANGED serializerVars
    BY ZenonT(60) DEF Create, CreateFails, Abort, Persist
  <2>5. Submit(t) \/ Reply(t) \/ MarkUnknown(t) \/ MarkUnknownRow(t) => UNCHANGED serializerVars
    BY DEF Submit, Reply, MarkUnknown, MarkUnknownRow
  <2>6. FetchFills(t) \/ ResolveCanonical(t) \/ ResolvePending(t) => UNCHANGED serializerVars
    BY DEF FetchFills, ResolveCanonical, ResolvePending
  <2>7. Aggregate(t) \/ Finalize(t) => UNCHANGED serializerVars
    BY DEF Aggregate, Finalize
  <2>8. LeaveRow(t) \/ LeaveUnlock(t) => Leave(t) \/ Unlock(t)
    BY DEF LeaveRow, LeaveUnlock
  <2> QED BY <1>1, <2>1, <2>2, <2>3, <2>4, <2>5, <2>6, <2>7, <2>8 DEF HandlerStep
<1>2. ASSUME NEW t \in Task, NEW c \in Command, Deliver(t, c) PROVE UNCHANGED serializerVars
  BY <1>2 DEF Deliver
<1>3. ASSUME Environment PROVE [SerializerNext]_serializerVars
  BY <1>3 DEF Environment
<1>4. ASSUME NEW r \in Replica, Crash(r) PROVE CrashReplica(r)
  BY <1>4 DEF Crash
<1>5. ASSUME UNCHANGED vars PROVE UNCHANGED serializerVars
  BY <1>5 DEF vars
<1> QED BY <1>1, <1>2, <1>3, <1>4, <1>5 DEF Next
-----------------------------------------------------------------------------
(* Types *)

(* A request that is under way has its command, and one that is about to   *)
(* mark its command knows how it ended.                                    *)
UnderWay ==
  \A t \in Task : /\ pc[t] # "idle" => job[t] \in Command
                  /\ pc[t] = "finalize" => work[t].outcome \in Outcome

HandlerTypeOK ==
  /\ pc \in [Task -> Step]
  /\ job \in [Task -> Command \union {NoCommand}]
  /\ at \in [Task -> {"primary", "exit"}]
  /\ \A t \in Task : job[t] # NoCommand => Cur(t) \in Leg
  /\ work \in [Task -> Local]
  /\ deliveries \in [Command -> Nat]
  /\ answered \in [Command -> SUBSET {"ok", "duplicate", "retry", "error"}]
  /\ handled \subseteq Command

LEMMA TypeParts ==
  TypeOK <=> SerializerTypeOK /\ DedupTypeOK /\ LedgerTypeOK /\ HandlerTypeOK
  BY DEF TypeOK, HandlerTypeOK

LEMMA Results ==
  /\ RejectedResult \in Result /\ UnknownResult \in Result
  /\ [RejectedResult EXCEPT !.status = "PENDING"] \in Result
  /\ NoWork \in Local
<1>1. RejectedResult \in Result /\ UnknownResult \in Result
  BY SMTT(60) DEF RejectedResult, UnknownResult, Result, BrokerStatus, Ref
<1>2. [RejectedResult EXCEPT !.status = "PENDING"] \in Result
  BY <1>1 DEF Result, BrokerStatus
<1>3. NoWork \in Local
  BY <1>1, SMTT(60) DEF NoWork, Local
<1> QED BY <1>1, <1>2, <1>3

LEMMA LocalFields == ASSUME NEW w \in Local
  PROVE /\ w.res \in Result /\ w.fills \in 0..Lots
        /\ w.replay \in BOOLEAN /\ w.filled \in BOOLEAN /\ w.doubt \in BOOLEAN
        /\ w.todo \in SUBSET Leg
  BY DEF Local

LEMMA ResultFields == ASSUME NEW res \in Result
  PROVE /\ res.status \in BrokerStatus /\ res.qty \in 0..Lots /\ res.qty \in Nat
        /\ res.ref \in Ref /\ res.unknown \in BOOLEAN
  BY SMTT(60) DEF Result

LEMMA CurLeg == ASSUME HandlerTypeOK, UnderWay, NEW t \in Task, pc[t] # "idle"
  PROVE job[t] \in Command /\ Cur(t) \in Leg
  BY DEF HandlerTypeOK, UnderWay

LEMMA NextLegEffect ==
  ASSUME HandlerTypeOK, NEW t \in Task, NEW res \in Result, NextLeg(t, res)
  PROVE  /\ work' \in [Task -> Local]
         /\ at' \in [Task -> {"primary", "exit"}]
         /\ \E s \in {"create", "aggregate"} : pc' = [pc EXCEPT ![t] = s]
         /\ \A u \in Task \ {t} : at'[u] = at[u] /\ work'[u] = work[u]
         /\ at'[t] = "exit" /\ at[t] # "exit" => job[t] \in Bracketed
<1> DEFINE fill == work[t].filled \/ res.qty > 0
           doubt == work[t].doubt \/ res.unknown
           next == [NoWork EXCEPT !.filled = fill, !.doubt = doubt]
<1>1. fill \in BOOLEAN /\ doubt \in BOOLEAN
  BY LocalFields, ResultFields DEF HandlerTypeOK
<1>2. next \in Local
  BY <1>1, Results, ZenonT(60) DEF Local, NoWork
<1>3. work' = [work EXCEPT ![t] = next]
  BY DEF NextLeg
<1>4. work' \in [Task -> Local] /\ \A u \in Task \ {t} : work'[u] = work[u]
  BY <1>2, <1>3 DEF HandlerTypeOK
<1>5. \E s \in {"create", "aggregate"} : pc' = [pc EXCEPT ![t] = s]
  BY ZenonT(60) DEF NextLeg, Goto
<1>6. /\ at' \in [Task -> {"primary", "exit"}]
      /\ \A u \in Task \ {t} : at'[u] = at[u]
      /\ at'[t] = "exit" /\ at[t] # "exit" => job[t] \in Bracketed
  BY DEF NextLeg, HandlerTypeOK
<1> QED BY <1>4, <1>5, <1>6, ZenonT(60)

LEMMA DedupTypeNext ==
  ASSUME DedupTypeOK, HandlerTypeOK, UnderWay, [Next]_vars PROVE DedupTypeOK'
<1> USE DEF DedupTypeOK
<1>1. ASSUME NEW t \in Task, Claim(t) PROVE DedupTypeOK'
  <2>1. job[t] \in Command /\ Home[t] \in Replica
    BY <1>1, CurLeg DEF Claim
  <2>2. CASE ClaimExecution(Home[t], job[t])
    BY <2>1, <2>2, SMTT(60) DEF ClaimExecution, ClaimDatabase, Decision
  <2>3. CASE ClaimRaises(Home[t], job[t])
    BY <2>1, <2>3, ZenonT(60) DEF ClaimRaises, ClaimDatabase, Decision
  <2>4. CASE UNCHANGED dedupVars
    BY <2>4 DEF dedupVars
  <2> QED BY <1>1, <2>2, <2>3, <2>4 DEF Claim
<1>2. ASSUME NEW t \in Task, Finalize(t) PROVE DedupTypeOK'
  <2>1. job[t] \in Command /\ Home[t] \in Replica /\ work[t].outcome \in Outcome
    BY <1>2, CurLeg DEF Finalize, UnderWay
  <2>2. DecisionAfter(work[t].outcome) \in Decision
    BY <2>1 DEF DecisionAfter, Outcome, Decision
  <2> QED BY <1>2, <2>1, <2>2, SMTT(60) DEF Finalize, MarkExecuted
<1>3. ASSUME NEW r \in Replica, NEW c \in Command, MemoryExpires(r, c) PROVE DedupTypeOK'
  BY <1>3 DEF MemoryExpires
<1>4. ASSUME NEW c \in Command, GoesStale(c) PROVE DedupTypeOK'
  BY <1>4 DEF GoesStale
<1>5. ASSUME NEW r \in Replica, Crash(r) PROVE DedupTypeOK'
  BY <1>5 DEF Crash, ForgetMemory
<1>6. ASSUME UNCHANGED dedupVars PROVE DedupTypeOK'
  BY <1>6 DEF dedupVars
<1> QED BY <1>1, <1>2, <1>3, <1>4, <1>5, <1>6, DedupWriters
(* The four tables of the ledger, each after any writer of it.             *)
CanonicalWrite(l) ==
  \/ canonical[l].state \in {"none", "rejected"} /\ CreateOrder(l)
  \/ AbortPreSubmission(l) \/ MarkCanonicalUnknown(l) \/ CancelWorking(l)
  \/ \E res \in Result, fills \in 0..Lots : ApplyBrokerResult(l, res, fills)
  \/ UNCHANGED canonical

RowWrite(l) ==
  \/ PersistRow(l) \/ MarkRowUnknown(l) \/ CancelWorking(l)
  \/ \E res \in Result : ResolveRow(l, res)
  \/ UNCHANGED pending

CacheWrite(r, l) ==
  \/ \E ref \in Ref : Track(r, l, ref)
  \/ TrackUnknown(r, l) \/ Untrack(r, l)
  \/ UNCHANGED tracked

VenueWrite(l) ==
  \/ VenueAccepts(l) \/ VenueProgress(l)
  \/ venue' = [venue EXCEPT ![l].state = "canceled"]
  \/ UNCHANGED venue

LEMMA CanonicalTyped ==
  ASSUME LedgerTypeOK, NEW l \in Leg, CanonicalWrite(l)
  PROVE  canonical' \in [Leg -> Canonical]
<1> USE DEF LedgerTypeOK
<1> canonical[l] \in Canonical
  OBVIOUS
<1>1. CASE CreateOrder(l) \/ AbortPreSubmission(l) \/ MarkCanonicalUnknown(l)
  <2>1. CASE CreateOrder(l)
    <3>1. [canonical[l] EXCEPT !.state = "new", !.abort = FALSE] \in Canonical
      BY ZenonT(60) DEF Canonical, OrderState
    <3> QED BY <2>1, <3>1 DEF CreateOrder
  <2>2. CASE AbortPreSubmission(l)
    <3>1. [canonical[l] EXCEPT !.state = "rejected", !.abort = TRUE] \in Canonical
      BY ZenonT(60) DEF Canonical, OrderState
    <3> QED BY <2>2, <3>1 DEF AbortPreSubmission
  <2>3. CASE MarkCanonicalUnknown(l)
    <3>1. [canonical[l] EXCEPT !.state = "submission_unknown", !.unknown = TRUE] \in Canonical
      BY ZenonT(60) DEF Canonical, OrderState
    <3> QED BY <2>3, <3>1 DEF MarkCanonicalUnknown
  <2> QED BY <1>1, <2>1, <2>2, <2>3
<1>2. CASE CancelWorking(l)
  BY <1>2, ZenonT(60) DEF CancelWorking, Canonical, OrderState
<1>3. ASSUME NEW res \in Result, NEW fills \in 0..Lots, ApplyBrokerResult(l, res, fills)
      PROVE  canonical' \in [Leg -> Canonical]
  <2> DEFINE c == canonical[l]
             row == [c EXCEPT !.state = IF @ = "filled" THEN "filled" ELSE OrderStateOf[res.status],
                              !.ref = IF res.ref = "none" THEN @ ELSE res.ref,
                              !.fills = LargerOf(@, fills)]
  <2>1. c \in Canonical
    OBVIOUS
  <2>2. OrderStateOf[res.status] \in OrderState
    BY ResultFields, SMTT(60) DEF BrokerStatus, OrderStateOf, OrderState
  <2>3. LargerOf(c.fills, fills) \in 0..Lots
    BY <2>1 DEF Canonical, LargerOf
  <2>4. row \in Canonical
    BY <2>1, <2>2, <2>3, ResultFields, ZenonT(60) DEF Canonical, OrderState
  <2>5. canonical' = [canonical EXCEPT ![l] = row]
    BY <1>3, ZenonT(60) DEF ApplyBrokerResult
  <2> QED BY <2>4, <2>5
<1> QED BY <1>1, <1>2, <1>3 DEF CanonicalWrite

LEMMA PendingTyped ==
  ASSUME LedgerTypeOK, NEW l \in Leg, RowWrite(l)
  PROVE  /\ pending' \in [Leg -> PendingRow]
         /\ \A k \in Leg : pending[k].status # "absent" => pending'[k].status # "absent"
         /\ \A k \in Leg \ {l} : pending'[k] = pending[k]
<1> USE DEF LedgerTypeOK
<1> pending[l] \in PendingRow
  OBVIOUS
<1>1. CASE PersistRow(l) \/ MarkRowUnknown(l) \/ CancelWorking(l)
  <2>1. CASE PersistRow(l)
    BY <2>1 DEF PersistRow, PendingRow, RowStatus, Ref
  <2>2. ASSUME NEW st \in RowStatus \ {"absent"}, pending' = [pending EXCEPT ![l].status = st]
        PROVE  /\ pending' \in [Leg -> PendingRow]
               /\ \A k \in Leg : pending[k].status # "absent" => pending'[k].status # "absent"
               /\ \A k \in Leg \ {l} : pending'[k] = pending[k]
    <3>1. [pending[l] EXCEPT !.status = st] \in PendingRow
      BY DEF PendingRow
    <3> QED BY <2>2, <3>1 DEF PendingRow
  <2> QED BY <1>1, <2>1, <2>2, ZenonT(60) DEF MarkRowUnknown, CancelWorking, RowStatus
<1>2. ASSUME NEW res \in Result, ResolveRow(l, res)
      PROVE  /\ pending' \in [Leg -> PendingRow]
             /\ \A k \in Leg : pending[k].status # "absent" => pending'[k].status # "absent"
             /\ \A k \in Leg \ {l} : pending'[k] = pending[k]
  <2>1. RowStatusOf[res.status] \in RowStatus \ {"absent"}
    BY ResultFields, SMTT(60) DEF BrokerStatus, RowStatusOf, RowStatus
  <2>2. [status |-> RowStatusOf[res.status], ref |-> res.ref] \in PendingRow
    BY <2>1, ResultFields DEF PendingRow
  <2> QED BY <1>2, <2>1, <2>2 DEF ResolveRow
<1> QED BY <1>1, <1>2 DEF RowWrite

LEMMA TrackedTyped ==
  ASSUME LedgerTypeOK, NEW r \in Replica, NEW l \in Leg, CacheWrite(r, l)
  PROVE  tracked' \in [Replica -> [Leg -> Ref \union {"unknown"}]]
<1>1. ASSUME NEW v \in Ref \union {"unknown"}, tracked' = [tracked EXCEPT ![r][l] = v]
      PROVE  tracked' \in [Replica -> [Leg -> Ref \union {"unknown"}]]
  <2>1. [tracked[r] EXCEPT ![l] = v] \in [Leg -> Ref \union {"unknown"}]
    BY DEF LedgerTypeOK
  <2> QED BY <1>1, <2>1 DEF LedgerTypeOK
<1>2. ASSUME NEW ref \in Ref, Track(r, l, ref)
      PROVE  tracked' \in [Replica -> [Leg -> Ref \union {"unknown"}]]
  BY <1>1, <1>2, ZenonT(60) DEF Track, Ref
<1> QED BY <1>1, <1>2 DEF CacheWrite, LedgerTypeOK, TrackUnknown, Untrack, Ref

(* The venue ends an order with its last lot.                              *)
OpenIsUnfilled == \A l \in Leg : venue[l].state = "open" => venue[l].qty < Lots

LEMMA VenueTyped ==
  ASSUME LedgerTypeOK, OpenIsUnfilled, NEW l \in Leg, VenueWrite(l)
  PROVE  venue' \in [Leg -> VenueOrder] /\ OpenIsUnfilled'
<1> USE DEF LedgerTypeOK, OpenIsUnfilled
<1>0. \A k \in Leg : venue[k].qty \in 0..Lots
  BY DEF VenueOrder
<1>1. CASE VenueAccepts(l)
  BY <1>0, <1>1, SMTT(60) DEF VenueAccepts, VenueOrder
<1>2. CASE VenueProgress(l)
  <2>1. venue[l] \in VenueOrder /\ venue[l].qty \in 0..(Lots - 1)
    BY <1>0, <1>2, SMTT(60) DEF VenueProgress
  <2>2. CASE venue' = [venue EXCEPT ![l].state = "canceled"]
    BY <2>1, <2>2 DEF VenueOrder
  <2>3. CASE venue' # [venue EXCEPT ![l].state = "canceled"]
    <3> DEFINE o == [state |-> IF venue[l].qty + 1 = Lots THEN "done" ELSE "open",
                     qty |-> venue[l].qty + 1]
    <3>1. venue' = [venue EXCEPT ![l] = o]
      BY <1>2, <2>3 DEF VenueProgress
    <3>0. ASSUME NEW q \in 0..(Lots - 1)
          PROVE  q + 1 \in 0..Lots /\ (q + 1 # Lots => q + 1 < Lots)
      BY SMTT(60)
    <3>2. o.qty \in 0..Lots /\ (o.state = "open" => o.qty < Lots)
      <4>1. o.qty = venue[l].qty + 1 /\ (o.state = "open" => o.qty # Lots)
        OBVIOUS
      <4> QED BY <2>1, <3>0, <4>1, ZenonT(60)
    <3>3. o \in VenueOrder
      BY <3>2 DEF VenueOrder
    <3> HIDE DEF o
    <3> QED BY <1>0, <3>1, <3>2, <3>3
  <2> QED BY <2>2, <2>3
<1>3. CASE venue' = [venue EXCEPT ![l].state = "canceled"]
  BY <1>3, SMTT(60) DEF VenueOrder
<1> QED BY <1>1, <1>2, <1>3 DEF VenueWrite
LEMMA ResolveWrites ==
  ASSUME HandlerTypeOK, UnderWay, NEW t \in Task, pc[t] # "idle"
  PROVE  /\ KeepForRecovery(t) => CacheWrite(Home[t], Cur(t))
         /\ ResolveRow(Cur(t), work[t].res) => RowWrite(Cur(t))
         /\ ApplyBrokerResult(Cur(t), work[t].res, work[t].fills) => CanonicalWrite(Cur(t))
<1>1. work[t].res \in Result /\ work[t].fills \in 0..Lots /\ work[t].res.ref \in Ref
  BY LocalFields, ResultFields DEF HandlerTypeOK
<1> QED BY <1>1 DEF KeepForRecovery, CacheWrite, RowWrite, CanonicalWrite

(* A step that records touches one leg, through the store methods.         *)
LEMMA RecordingWrites ==
  ASSUME HandlerTypeOK, UnderWay, NEW t \in Task, Recording(t)
  PROVE  /\ \E l \in Leg : /\ CanonicalWrite(l) /\ RowWrite(l)
                           /\ CacheWrite(Home[t], l) /\ VenueWrite(l)
         /\ \/ UNCHANGED submissions
            \/ Submit(t)
<1> DEFINE Writes(l) == /\ CanonicalWrite(l) /\ RowWrite(l)
                        /\ CacheWrite(Home[t], l) /\ VenueWrite(l)
<1> USE DEF CanonicalWrite, RowWrite, CacheWrite, VenueWrite
<1>0. pc[t] # "idle" /\ Cur(t) \in Leg
  <2>1. pc[t] # "idle"
    BY ZenonT(60) DEF Recording, CancelOne, Create, CreateFails, Persist, Abort, Submit, MarkUnknown,
       MarkUnknownRow, FetchFills, ResolveCanonical, ResolvePending
  <2> QED BY <2>1, CurLeg
<1>1. CASE CancelOne(t)
  <2> PICK l \in work[t].todo :
         /\ \/ UNCHANGED <<canonical, pending, tracked, venue>>
            \/ /\ venue' = [venue EXCEPT ![l].state = "canceled"]
               /\ UNCHANGED <<canonical, pending, tracked>>
            \/ /\ venue' = [venue EXCEPT ![l].state = "canceled"]
               /\ Untrack(Home[t], l)
               /\ CancelWorking(l) \/ UNCHANGED <<canonical, pending>>
         /\ UNCHANGED submissions
    BY <1>1 DEF CancelOne
  <2>1. l \in Leg
    BY LocalFields DEF HandlerTypeOK
  <2>2. Writes(l)
    OBVIOUS
  <2> QED BY <2>1, <2>2
<1>2. ASSUME NEW same \in BOOLEAN, Create(t, same) PROVE Writes(Cur(t)) /\ UNCHANGED submissions
  BY <1>2 DEF Create, CreateOutcome
<1>3. CASE CreateFails(t)
  BY <1>0, <1>3 DEF CreateFails, CreateOutcome
<1>4. CASE Persist(t)
  BY <1>0, <1>4 DEF Persist
<1>5. CASE Abort(t)
  BY <1>0, <1>5 DEF Abort
<1>6. CASE Submit(t)
  BY <1>0, <1>6 DEF Submit
<1>7. CASE MarkUnknown(t)
  BY <1>0, <1>7 DEF MarkUnknown
<1>8. CASE MarkUnknownRow(t)
  BY <1>0, <1>8 DEF MarkUnknownRow
<1>9. CASE FetchFills(t)
  <2>1. KeepForRecovery(t) \/ UNCHANGED tracked
    BY <1>9 DEF FetchFills
  <2>2. UNCHANGED <<canonical, pending, venue, submissions>>
    BY <1>9 DEF FetchFills
  <2> HIDE DEF CacheWrite
  <2>3. CacheWrite(Home[t], Cur(t))
    BY <1>0, <2>1, ResolveWrites DEF CacheWrite
  <2> QED BY <1>0, <2>2, <2>3
<1>10. CASE ResolveCanonical(t)
  <2>1. KeepForRecovery(t) \/ UNCHANGED tracked
    BY <1>10 DEF ResolveCanonical
  <2>2. ApplyBrokerResult(Cur(t), work[t].res, work[t].fills) \/ UNCHANGED canonical
    BY <1>10 DEF ResolveCanonical
  <2>3. UNCHANGED <<pending, venue, submissions>>
    BY <1>10 DEF ResolveCanonical
  <2> HIDE DEF CacheWrite, CanonicalWrite
  <2>4. CacheWrite(Home[t], Cur(t)) /\ CanonicalWrite(Cur(t))
    BY <1>0, <2>1, <2>2, ResolveWrites DEF CacheWrite, CanonicalWrite
  <2> QED BY <1>0, <2>3, <2>4
<1>11. CASE ResolvePending(t)
  <2>1. \/ KeepForRecovery(t) \/ Untrack(Home[t], Cur(t))
        \/ Track(Home[t], Cur(t), work[t].res.ref)
    BY <1>11 DEF ResolvePending
  <2>2. ResolveRow(Cur(t), work[t].res) \/ UNCHANGED pending
    BY <1>11 DEF ResolvePending
  <2>3. UNCHANGED <<canonical, venue, submissions>>
    BY <1>11 DEF ResolvePending
  <2>4. work[t].res.ref \in Ref
    BY LocalFields, ResultFields DEF HandlerTypeOK
  <2> HIDE DEF CacheWrite, RowWrite
  <2>5. CacheWrite(Home[t], Cur(t)) /\ RowWrite(Cur(t))
    BY <1>0, <2>1, <2>2, <2>4, ResolveWrites, ZenonT(60) DEF CacheWrite, RowWrite
  <2> QED BY <1>0, <2>3, <2>5
<1> HIDE DEF CanonicalWrite, RowWrite, CacheWrite, VenueWrite
<1> QED BY <1>0, <1>1, <1>2, <1>3, <1>4, <1>5, <1>6, <1>7, <1>8, <1>9, <1>10, <1>11 DEF Recording

LEMMA LedgerTypeNext ==
  ASSUME LedgerTypeOK, OpenIsUnfilled, HandlerTypeOK, UnderWay, [Next]_vars
  PROVE  LedgerTypeOK' /\ OpenIsUnfilled'
<1>1. ASSUME NEW t \in Task, Recording(t) PROVE LedgerTypeOK' /\ OpenIsUnfilled'
  <2>1. PICK l \in Leg : /\ CanonicalWrite(l) /\ RowWrite(l)
                         /\ CacheWrite(Home[t], l) /\ VenueWrite(l)
    BY <1>1, RecordingWrites
  <2>2. submissions' \in [Leg -> Nat]
    <3>1. CASE Submit(t)
      BY <3>1, CurLeg, SMTT(60) DEF Submit, LedgerTypeOK
    <3> QED BY <1>1, <3>1, RecordingWrites DEF LedgerTypeOK
  <2>3. Home[t] \in Replica
    OBVIOUS
  <2>4. canonical' \in [Leg -> Canonical]
    BY <2>1, CanonicalTyped
  <2>5. pending' \in [Leg -> PendingRow]
    BY <2>1, PendingTyped
  <2>6. venue' \in [Leg -> VenueOrder] /\ OpenIsUnfilled'
    BY <2>1, VenueTyped
  <2>7. tracked' \in [Replica -> [Leg -> Ref \union {"unknown"}]]
    BY <2>1, <2>3, TrackedTyped
  <2> QED BY <2>2, <2>4, <2>5, <2>6, <2>7 DEF LedgerTypeOK
<1>2. ASSUME NEW l \in Leg, VenueProgress(l) PROVE LedgerTypeOK' /\ OpenIsUnfilled'
  <2>1. venue' \in [Leg -> VenueOrder] /\ OpenIsUnfilled'
    BY <1>2, VenueTyped DEF VenueWrite
  <2> QED BY <1>2, <2>1 DEF VenueProgress, LedgerTypeOK
<1>3. ASSUME NEW r \in Replica, Crash(r) PROVE LedgerTypeOK' /\ OpenIsUnfilled'
  <2>1. Rehydrated \in [Leg -> Ref \union {"unknown"}]
    <3>1. \A l \in Leg : pending[l].ref \in Ref
      BY DEF LedgerTypeOK, PendingRow
    <3> QED BY <3>1 DEF Rehydrated, Ref
  <2> QED BY <1>3, <2>1 DEF Crash, LedgerTypeOK, OpenIsUnfilled
<1>4. ASSUME UNCHANGED ledgerVars PROVE LedgerTypeOK' /\ OpenIsUnfilled'
  BY <1>4 DEF ledgerVars, LedgerTypeOK, OpenIsUnfilled
<1> QED BY <1>1, <1>2, <1>3, <1>4, LedgerWriters
(* The ways a handler moves: on to another leg, out by an exception, to    *)
(* its answer, or to its next step with some of its locals set.            *)
HandlerOK == HandlerTypeOK /\ UnderWay

LEMMA MovesOn ==
  ASSUME HandlerOK, NEW t \in Task, pc[t] # "idle", NEW res \in Result,
         NextLeg(t, res), UNCHANGED unmoved
  PROVE  HandlerOK'
<1>1. HandlerTypeOK /\ UnderWay
  BY DEF HandlerOK
<1>2. PICK s \in {"create", "aggregate"} : pc' = [pc EXCEPT ![t] = s]
  BY <1>1, NextLegEffect
<1>3. work' \in [Task -> Local] /\ at' \in [Task -> {"primary", "exit"}]
  BY <1>1, NextLegEffect
<1>4. \A u \in Task \ {t} : at'[u] = at[u] /\ work'[u] = work[u]
  BY <1>1, NextLegEffect
<1>5. at'[t] = "exit" /\ at[t] # "exit" => job[t] \in Bracketed
  BY <1>1, NextLegEffect
<1>6. \A u \in Task : job'[u] # NoCommand => Cur(u)' \in Leg
  <2>1. job' = job
    BY DEF unmoved
  <2>2. \A u \in Task \ {t} : job'[u] # NoCommand => Cur(u)' \in Leg
    BY <1>1, <1>4, <2>1 DEF HandlerTypeOK, Cur
  <2>3. job[t] \in Command /\ Cur(t) \in Leg
    BY <1>1, CurLeg
  <2>4. CASE at'[t] = at[t]
    BY <2>1, <2>2, <2>3, <2>4 DEF Cur
  <2>5. CASE at'[t] # at[t]
    <3>1. at'[t] \in {"primary", "exit"} /\ at[t] \in {"primary", "exit"}
      BY <1>1, <1>3 DEF HandlerTypeOK
    <3>2. Cur(t)' \in Leg
      BY <1>5, <2>1, <2>3, <2>5, <3>1 DEF Cur, Leg
    <3> QED BY <2>2, <3>2
  <2> QED BY <2>4, <2>5
<1>7. HandlerTypeOK'
  BY <1>1, <1>2, <1>3, <1>6, ZenonT(60) DEF HandlerTypeOK, unmoved, Step
<1>8. UnderWay'
  BY <1>1, <1>2, <1>4 DEF HandlerTypeOK, UnderWay, unmoved
<1> QED BY <1>7, <1>8 DEF HandlerOK

LEMMA Walks ==
  ASSUME HandlerOK, NEW t \in Task, pc[t] # "idle", NEW s \in Step, Goto(t, s),
         NEW w \in Local, work' = [work EXCEPT ![t] = w],
         s = "finalize" => w.outcome \in Outcome,
         UNCHANGED <<at, job, deliveries, answered>>, handled' \subseteq Command
  PROVE  HandlerOK'
<1>1. HandlerTypeOK'
  BY DEF HandlerOK, HandlerTypeOK, Goto, Cur
<1>2. UnderWay'
  BY DEF HandlerOK, HandlerTypeOK, UnderWay, Goto
<1> QED BY <1>1, <1>2 DEF HandlerOK

LEMMA SameWork == ASSUME HandlerOK, NEW t \in Task
  PROVE work[t] \in Local /\ work = [work EXCEPT ![t] = work[t]]
  BY DEF HandlerOK, HandlerTypeOK

LEMMA RaisedOK ==
  ASSUME HandlerOK, NEW t \in Task, pc[t] # "idle", Raise(t), UNCHANGED unmoved
  PROVE  HandlerOK'
<1> DEFINE w == [NoWork EXCEPT !.outcome = "retryable"]
<1>1. w \in Local /\ w.outcome \in Outcome
  BY Results, ZenonT(60) DEF NoWork, Local, Outcome
<1>2. work' = [work EXCEPT ![t] = w] /\ Goto(t, "finalize") /\ UNCHANGED at
  BY DEF Raise
<1>3. UNCHANGED <<job, deliveries, answered>> /\ handled' \subseteq Command
  BY DEF unmoved, HandlerOK, HandlerTypeOK
<1> HIDE DEF w
<1> QED BY <1>1, <1>2, <1>3, Walks, ZenonT(60) DEF Step

LEMMA AnsweredOK ==
  ASSUME HandlerOK, NEW t \in Task, pc[t] # "idle",
         NEW a \in {"ok", "duplicate", "retry", "error"}, Answer(t, a)
  PROVE  HandlerOK'
<1>1. HandlerTypeOK'
  <2>1. job[t] \in Command
    BY DEF HandlerOK, UnderWay
  <2>2. answered' \in [Command -> SUBSET {"ok", "duplicate", "retry", "error"}]
    BY <2>1 DEF HandlerOK, HandlerTypeOK, Answer
  <2>3. /\ pc' \in [Task -> Step] /\ at' \in [Task -> {"primary", "exit"}]
        /\ job' \in [Task -> Command \union {NoCommand}]
    BY DEF HandlerOK, HandlerTypeOK, Answer, Goto, Step
  <2>4. work' \in [Task -> Local]
    BY Results DEF HandlerOK, HandlerTypeOK, Answer
  <2>5. \A u \in Task : job'[u] # NoCommand => Cur(u)' \in Leg
    BY DEF HandlerOK, HandlerTypeOK, Answer, Cur
  <2> QED BY <2>2, <2>3, <2>4, <2>5 DEF HandlerOK, HandlerTypeOK, Answer
<1>2. UnderWay'
  BY DEF HandlerOK, HandlerTypeOK, UnderWay, Answer, Goto
<1> QED BY <1>1, <1>2 DEF HandlerOK
LEMMA ReportsTyped ==
  ASSUME LedgerTypeOK, NEW l \in Leg
  PROVE  /\ canonical[l].state # "none" => DurableResult(l) \in Result
         /\ VenueResult(l) \in Result
         /\ canonical[l].fills \in 0..Lots /\ venue[l].qty \in 0..Lots
<1>1. canonical[l] \in Canonical /\ venue[l] \in VenueOrder
  BY DEF LedgerTypeOK
<1>2. ASSUME canonical[l].state # "none" PROVE DurableResult(l) \in Result
  <2>1. DurableStatusOf[canonical[l].state] \in BrokerStatus
    BY <1>1, <1>2, SMTT(60) DEF Canonical, OrderState, DurableStatusOf, BrokerStatus
  <2> QED BY <1>1, <2>1 DEF DurableResult, Result, Canonical
<1>3. VenueResult(l) \in Result
  <2> DEFINE o == venue[l]
             status == CASE o.state = "refused" -> "REJECTED"
                         [] o.state = "canceled" -> "CANCELLED"
                         [] o.state = "done" -> "FILLED"
                         [] OTHER -> IF o.qty = 0 THEN "WORKING" ELSE "PARTIALLY_FILLED"
             ref == IF o.state = "refused" THEN "none" ELSE "venue"
  <2>1. status \in BrokerStatus
    BY DEF BrokerStatus
  <2>2. ref \in Ref /\ o.qty \in 0..Lots
    BY <1>1 DEF Ref, VenueOrder
  <2>3. VenueResult(l) = [status |-> status, qty |-> o.qty, ref |-> ref, unknown |-> FALSE]
    BY DEF VenueResult
  <2> HIDE DEF status, ref
  <2> QED BY <2>1, <2>2, <2>3, SMTT(60) DEF Result
<1> QED BY <1>1, <1>2, <1>3 DEF Canonical, VenueOrder

LEMMA SetLocals == ASSUME HandlerOK, NEW t \in Task
  PROVE /\ \A res \in Result : [work[t] EXCEPT !.res = res] \in Local
        /\ \A f \in 0..Lots : [work[t] EXCEPT !.fills = f] \in Local
        /\ \A o \in Outcome \union {"duplicate", "raised"} :
             /\ [work[t] EXCEPT !.outcome = o] \in Local
             /\ [work[t] EXCEPT !.outcome = o].outcome = o
        /\ \A S \in SUBSET Leg : [work[t] EXCEPT !.todo = S] \in Local
        /\ \A res \in Result, f \in 0..Lots :
             [work[t] EXCEPT !.res = res, !.fills = f, !.replay = TRUE] \in Local
<1>1. work[t] \in Local
  BY SameWork
<1> QED BY <1>1, ZenonT(60) DEF Local

(* One step per action of the handler.                                     *)
LEMMA HandlerStepTyped ==
  ASSUME LedgerTypeOK, HandlerOK, NEW t \in Task, HandlerStep(t)
  PROVE  HandlerOK'
<1> HandlerTypeOK /\ UnderWay
  BY DEF HandlerOK
<1> handled \subseteq Command
  BY DEF HandlerTypeOK
<1>a. ASSUME pc[t] # "idle", NEW s \in Step \ {"finalize"}, Goto(t, s),
             UNCHANGED <<at, work, unmoved>>
      PROVE  HandlerOK'
  BY <1>a, SameWork, Walks DEF unmoved
<1>b. ASSUME pc[t] # "idle", NEW s \in Step \ {"finalize"}, Goto(t, s), NEW w \in Local,
             work' = [work EXCEPT ![t] = w], UNCHANGED <<at, unmoved>>
      PROVE  HandlerOK'
  BY <1>b, Walks, ZenonT(60) DEF unmoved
<1>c. ASSUME pc[t] # "idle" PROVE Cur(t) \in Leg /\ job[t] \in Command
  BY <1>c, CurLeg
<1>d. ASSUME UNCHANGED handlerVars PROVE HandlerOK'
  BY <1>d DEF handlerVars, HandlerOK, HandlerTypeOK, UnderWay, Cur
<1>e. ASSUME pc[t] # "idle", KeepForRecovery(t), UNCHANGED unmoved PROVE HandlerOK'
  <2>1. work[t].res \in Result
    BY SameWork, LocalFields
  <2> QED BY <1>e, <2>1, MovesOn DEF KeepForRecovery
<1>1. CASE EnterBusy(t)
  BY <1>1, AnsweredOK DEF EnterBusy
<1>2. CASE EnterLock(t) \/ LeaveRow(t)
  BY <1>2, <1>d DEF EnterLock, LeaveRow
<1>3. CASE EnterClaim(t)
  BY <1>3, <1>a DEF EnterClaim, Step
<1>4. CASE EnterFails(t)
  <2>1. [work[t] EXCEPT !.outcome = "raised"] \in Local
    BY SetLocals, ZenonT(60)
  <2> QED BY <1>4, <1>b, <2>1, ZenonT(60) DEF EnterFails, Step
<1>5. CASE Claim(t)
  <2>1. /\ [work[t] EXCEPT !.outcome = "raised"] \in Local
        /\ [work[t] EXCEPT !.outcome = "duplicate"] \in Local
    BY SetLocals, ZenonT(60)
  <2> QED BY <1>5, <1>a, <1>b, <2>1 DEF Claim, Step
<1>6. CASE Gate(t)
  <2>1. ASSUME NEW o \in Outcome, work' = [work EXCEPT ![t].outcome = o], Goto(t, "finalize")
        PROVE  HandlerOK'
    <3> DEFINE w == [work[t] EXCEPT !.outcome = o]
    <3>1. w \in Local /\ w.outcome = o
      BY SetLocals, ZenonT(60)
    <3>2. work' = [work EXCEPT ![t] = w] /\ pc[t] # "idle" /\ UNCHANGED <<at, unmoved>>
      BY <1>6, <2>1 DEF Gate
    <3> HIDE DEF w
    <3> QED BY <2>1, <3>1, <3>2, Walks, ZenonT(60) DEF unmoved, Step
  <2>2. [work[t] EXCEPT !.todo = RestingOrders(t)] \in Local
    BY SetLocals, ZenonT(60) DEF RestingOrders
  <2> QED BY <1>6, <1>a, <1>b, <2>1, <2>2 DEF Gate, Step
<1>7. CASE CancelOne(t)
  <2>1. PICK l : work' = [work EXCEPT ![t].todo = @ \ {l}]
    BY <1>7, ZenonT(60) DEF CancelOne
  <2>2. [work[t] EXCEPT !.todo = @ \ {l}] \in Local
    BY SetLocals, SameWork, LocalFields, ZenonT(60)
  <2>3. Goto(t, "cancel") /\ pc[t] # "idle" /\ UNCHANGED <<at, unmoved>>
    BY <1>7 DEF CancelOne, Goto, HandlerTypeOK
  <2> QED BY <1>b, <2>1, <2>2, <2>3, ZenonT(60) DEF Step
<1>8. CASE CancelDone(t) \/ Persist(t) \/ Submit(t)
  BY <1>8, <1>a DEF CancelDone, Persist, Submit, Step
<1>9. ASSUME NEW same \in BOOLEAN, Create(t, same) PROVE HandlerOK'
  <2> DEFINE l == Cur(t)
  <2>1. pc[t] # "idle" /\ l \in Leg /\ UNCHANGED unmoved
    BY <1>9, <1>c DEF Create
  <2>2. ASSUME NEW res \in Result, NextLeg(t, res) PROVE HandlerOK'
    BY <2>1, <2>2, MovesOn
  <2>3. CASE Goto(t, "persist") /\ UNCHANGED <<at, work>>
    BY <1>a, <2>1, <2>3 DEF Step
  <2>4. CASE /\ CreateOutcome(l, same) = "reused"
             /\ work' = [work EXCEPT ![t].res = DurableResult(l),
                                     ![t].fills = canonical[l].fills, ![t].replay = TRUE]
             /\ Goto(t, "resolve") /\ UNCHANGED at
    <3>1. canonical[l].state # "none"
      BY <2>4 DEF CreateOutcome
    <3>2. DurableResult(l) \in Result /\ canonical[l].fills \in 0..Lots
      BY <2>1, <3>1, ReportsTyped
    <3> DEFINE w == [work[t] EXCEPT !.res = DurableResult(l), !.fills = canonical[l].fills,
                                    !.replay = TRUE]
    <3>3. w \in Local
      BY <3>2, SetLocals, ZenonT(60)
    <3>4. work' = [work EXCEPT ![t] = w]
      BY <2>4, SameWork, ZenonT(60)
    <3> HIDE DEF w
    <3> QED BY <1>b, <2>1, <2>4, <3>3, <3>4, ZenonT(60) DEF Step
  <2> QED BY <1>9, <2>2, <2>3, <2>4, Results DEF Create
<1>10. CASE CreateFails(t)
  BY <1>10, MovesOn, Results DEF CreateFails
<1>11. CASE Abort(t)
  BY <1>11, MovesOn, RaisedOK, Results DEF Abort
<1>12. CASE Reply(t)
  <2>1. /\ pc[t] # "idle" /\ UNCHANGED <<at, unmoved>> /\ VenueResult(Cur(t)) \in Result
    BY <1>12, <1>c, ReportsTyped DEF Reply
  <2>2. ASSUME NEW res \in Result, work' = [work EXCEPT ![t].res = res], Goto(t, "fills")
        PROVE  HandlerOK'
    <3>1. [work[t] EXCEPT !.res = res] \in Local
      BY SetLocals, ZenonT(60)
    <3> QED BY <1>b, <2>1, <2>2, <3>1, ZenonT(60) DEF Step
  <2>3. CASE Goto(t, "unknown") /\ UNCHANGED work
    BY <1>a, <2>1, <2>3 DEF Step
  <2> QED BY <1>12, <2>1, <2>2, <2>3, Results DEF Reply
<1>13. CASE MarkUnknown(t)
  BY <1>13, <1>a, RaisedOK DEF MarkUnknown, Step
<1>14. CASE MarkUnknownRow(t)
  BY <1>14, MovesOn, RaisedOK, Results DEF MarkUnknownRow
<1>15. CASE FetchFills(t)
  <2>1. pc[t] # "idle" /\ UNCHANGED unmoved
    BY <1>15 DEF FetchFills
  <2>2. [work[t] EXCEPT !.fills = venue[Cur(t)].qty] \in Local
    BY <1>c, <2>1, ReportsTyped, SetLocals, ZenonT(60)
  <2> QED BY <1>15, <1>a, <1>b, <1>e, <2>1, <2>2 DEF FetchFills, Step
<1>16. CASE ResolveCanonical(t)
  BY <1>16, <1>a, <1>e DEF ResolveCanonical, Step
<1>17. CASE ResolvePending(t)
  <2>1. work[t].res \in Result
    BY SameWork, LocalFields
  <2> QED BY <1>17, <1>e, <2>1, MovesOn DEF ResolvePending
<1>18. CASE Aggregate(t)
  <2>1. pc[t] # "idle" /\ UNCHANGED unmoved
    BY <1>18 DEF Aggregate
  <2> DEFINE o == AggregateOutcome(work[t].filled, work[t].doubt)
             w == [work[t] EXCEPT !.outcome = o]
  <2>2. o \in Outcome
    BY DEF AggregateOutcome, Outcome
  <2>3. w \in Local /\ w.outcome = o
    BY <2>2, SetLocals, ZenonT(60)
  <2>4. CASE work' = [work EXCEPT ![t] = w] /\ Goto(t, "finalize") /\ UNCHANGED at
    <3> HIDE DEF w, o
    <3> QED BY <2>1, <2>2, <2>3, <2>4, Walks, ZenonT(60) DEF unmoved, Step
  <2> QED BY <1>18, <2>1, <2>4, RaisedOK DEF Aggregate
<1>19. CASE Finalize(t)
  <2>1. handled' \subseteq Command /\ Goto(t, "leave") /\ pc[t] # "idle"
    BY <1>19, <1>c DEF Finalize
  <2>2. UNCHANGED <<at, job, deliveries, answered>> /\ work' = [work EXCEPT ![t] = work[t]]
    BY <1>19, SameWork DEF Finalize
  <2> QED BY <2>1, <2>2, SameWork, Walks, ZenonT(60) DEF Step
<1>20. CASE LeaveUnlock(t)
  <2>1. HttpAnswer(work[t].outcome, EndingOf(t)) \in {"ok", "duplicate", "retry", "error"}
    BY DEF HttpAnswer
  <2> QED BY <1>20, <2>1, AnsweredOK DEF LeaveUnlock
<1> QED BY <1>1, <1>2, <1>3, <1>4, <1>5, <1>6, <1>7, <1>8, <1>9, <1>10, <1>11, <1>12, <1>13,
           <1>14, <1>15, <1>16, <1>17, <1>18, <1>19, <1>20 DEF HandlerStep
LEMMA HandlerTypeNext ==
  ASSUME LedgerTypeOK, HandlerOK, [Next]_vars PROVE HandlerOK'
<1> USE DEF HandlerOK, HandlerTypeOK, UnderWay
<1>1. ASSUME NEW t \in Task, NEW c \in Command, Deliver(t, c) PROVE HandlerOK'
  <2>1. pc' \in [Task -> Step] /\ deliveries' \in [Command -> Nat]
    BY <1>1, SMTT(60) DEF Deliver, Goto, Step
  <2>2. work' \in [Task -> Local]
    BY <1>1, Results DEF Deliver
  <2>3. /\ job' \in [Task -> Command \union {NoCommand}]
        /\ at' \in [Task -> {"primary", "exit"}]
        /\ \A u \in Task : job'[u] # NoCommand => Cur(u)' \in Leg
    BY <1>1 DEF Deliver, Cur, Leg
  <2>4. UnderWay'
    BY <1>1 DEF Deliver, Goto
  <2> QED BY <1>1, <2>1, <2>2, <2>3, <2>4 DEF Deliver
<1>2. ASSUME UNCHANGED handlerVars PROVE HandlerOK'
  BY <1>2 DEF handlerVars, Cur
<1>3. ASSUME NEW r \in Replica, Crash(r) PROVE HandlerOK'
  <2>1. pc' \in [Task -> Step]
    BY <1>3 DEF Crash, Step
  <2>2. work' \in [Task -> Local]
    BY <1>3, Results DEF Crash
  <2>3. job' \in [Task -> Command \union {NoCommand}] /\ at' \in [Task -> {"primary", "exit"}]
    BY <1>3 DEF Crash
  <2>4. \A u \in Task : job'[u] # NoCommand => Cur(u)' \in Leg
    BY <1>3 DEF Crash, Cur
  <2>5. UnderWay'
    BY <1>3 DEF Crash
  <2> QED BY <1>3, <2>1, <2>2, <2>3, <2>4, <2>5 DEF Crash
<1>4. Environment => UNCHANGED handlerVars
  BY DEF Environment
<1> HIDE DEF HandlerOK, HandlerTypeOK, UnderWay
<1> QED BY <1>1, <1>2, <1>3, <1>4, HandlerStepTyped DEF Next, vars

ExecutionTypeInv == TypeOK /\ UnderWay /\ OpenIsUnfilled

LEMMA ExecutionTypeInit == Init => ExecutionTypeInv
<1> SUFFICES ASSUME Init PROVE ExecutionTypeInv
  OBVIOUS
<1>1. SerializerTypeOK
  BY SerializerInvInit DEF Init, SerializerInv
<1>2. DedupTypeOK
  BY DEF Init, DedupInit, DedupTypeOK, Decision
<1>3. LedgerTypeOK /\ OpenIsUnfilled
  BY SMTT(60) DEF Init, LedgerInit, LedgerTypeOK, OpenIsUnfilled, Canonical, OrderState, Ref,
     PendingRow, RowStatus, VenueOrder
<1>4. HandlerTypeOK /\ UnderWay
  BY Results DEF Init, HandlerTypeOK, UnderWay, Step, Cur
<1> QED BY <1>1, <1>2, <1>3, <1>4, TypeParts DEF ExecutionTypeInv

LEMMA ExecutionTypeNext ==
  ASSUME ExecutionTypeInv, [Next]_vars PROVE ExecutionTypeInv'
<1> SerializerTypeOK /\ DedupTypeOK /\ LedgerTypeOK /\ HandlerTypeOK /\ UnderWay /\ OpenIsUnfilled
  BY TypeParts DEF ExecutionTypeInv
<1>1. SerializerTypeOK'
  BY SerializerStep, SerializerTypeNext
<1>2. DedupTypeOK' /\ LedgerTypeOK' /\ OpenIsUnfilled'
  BY DedupTypeNext, LedgerTypeNext
<1>3. HandlerTypeOK' /\ UnderWay'
  BY HandlerTypeNext DEF HandlerOK
<1>4. TypeOK'
  BY <1>1, <1>2, <1>3 DEF TypeOK, HandlerTypeOK
<1> QED BY <1>2, <1>3, <1>4 DEF ExecutionTypeInv

LEMMA ExecutionTypes == Spec => []ExecutionTypeInv
<1>1. ExecutionTypeInv /\ [Next]_vars => ExecutionTypeInv'
  BY ExecutionTypeNext
<1> QED BY <1>1, ExecutionTypeInit, PTL DEF Spec

(* What is proved above of the serializer on its own holds of the handlers *)
(* that use it.                                                            *)
THEOREM HandlersUseSerializer == Spec => SerializerSpec
<1>1. Init => SerializerInit
  BY DEF Init
<1>2. [Next]_vars => [SerializerNext]_serializerVars
  BY SerializerStep
<1> QED BY <1>1, <1>2, PTL DEF Spec, SerializerSpec
=============================================================================
